SPECIFICATION Spec
CONSTANTS
  Segment <- MCSegment
  SpLike <- MCSpLike
  Cses <- MCCses
  Requests <- MCRequests
  Subscriptions <- MCSubscriptions
  Reachable <- MCReachable
CHECK_DEADLOCK FALSE
INVARIANTS TypeOK RequestSurvives AddressesAgree SuccessAgrees ContentSurvives NotificationsAccepted
