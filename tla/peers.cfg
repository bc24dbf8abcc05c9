SPECIFICATION FairSpec
CONSTANTS
  Light = Light
  Switch = Switch
  Node <- MCNode
  MsPerSleep = 2
  ReadyTimeoutMs = 2
  RestartTimeoutMs = 1
  MaxFaults = 1
  MaxSubs <- MCMaxSubs
CHECK_DEADLOCK FALSE
INVARIANTS TypeOK SubscribedMeansStored CrashOnlyWhileConstructing LightInStep
PROPERTIES PhasesPass EventuallySubscribed
