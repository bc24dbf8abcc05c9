SPECIFICATION FairSpec
CONSTANTS
  c1 = c1  c2 = c2  c3 = c3
  Conn = {c1, c2, c3}
  NoConn = NoConn  NoRequest = NoRequest
  RequestsOn <- MCRequestsOn
  InnerOf <- MCInnerOf
  Backlog = 2
  MaxClients = 2
  BufSize = 3
  Terminator = 3
  MaxInt = 7
  SizeMod = 16
CHECK_DEADLOCK FALSE
INVARIANTS TypeOK CountIsExact HandlerSeesWholeBody OkMeansHandled RefusedForAReason CrashOnlyByNegativeLength
PROPERTIES SlotsAreReturned
