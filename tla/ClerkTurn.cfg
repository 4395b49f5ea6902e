SPECIFICATION MCSpec
CONSTANTS
  t1 = t1
  t2 = t2
  h = h
  None = None
  Callers = {t1, t2, h}
  Turns = {t1, t2}
  Approvals = {"dispatch", "route"}
  Irreversible = {"dispatch"}
  Tokens = {"good", "bad"}
  MaxFaults = 1
  Subjects = {"ann"}
  Areas = {"grid", "helm"}
  SubjectOf <- MCSubjectOf
  AreaOf <- MCAreaOf
  Questions = {"approve", "data", "chat"}
  Rungs = 2
  ToolRungs = {2}
  Swapped = {2}
  Scripted = {"data"}
  OfflineModes = {FALSE, TRUE}
  MaxTurns = 1
  MaxFlips = 1
  MaxSignOuts = 1
CHECK_DEADLOCK FALSE
INVARIANTS
    ClerkIsSound
    AgentsReleaseNothing
    TellsTheTruth
    NamesItsServer
