SPECIFICATION Spec
CONSTANTS
  t1 = t1  t2 = t2
  Task = {t1}
  Ident <- MCIdent
  HttpUri = {"http://li", "http://sw"}
  Label = {"hot"}
  Null = Null  Free = Free  NoRequest = NoRequest  NoNode = NoNode  NoReply = NoReply
  NoFrom = NoFrom  NoName = NoName
  CreateRequests <- IdNameCreates
  RetrieveRequests <- NoRetrieves
  CseName = "zerom2m"  CseRi = "zerom2m"  CseId = "/zerom2m"  CseStem = "zerom2m"
  SpId = "zerom2m.example.com"
  StemC = "C"  CAdmin = "CAdmin"  La = "la"  Ol = "ol"
  OneChar <- MCOneChar
  TwoChar <- MCTwoChar
  StemIds <- MCStemIds
  ResourceId <- MCResourceId
  DefaultName <- MCDefaultName
  MaxId = 5
  MaxRows = 10
  MaxBoots = 1
  CleanOnBoot = {FALSE}
  Faults = {}
INVARIANTS LimitsRespected
