CONSTANTS
  Clients = {a}
  Tasks = {t1}
  Watchers = {w1}
  Pumps = {p1}
  Users = {u1}
  Reports = {"on"}
  Awaits = TRUE
  Stays = FALSE
  PrioCallers = {q}
  Callers <- MCCallers
  RxCap <- MCRxCap
  PrioCap = 1
  Methods <- MCAllMethods
  Used <- MCDeviceUsed
  Idle = Idle
  None = None
SPECIFICATION FairSpec
PROPERTIES VanishedClaimFreed StoppedPumpEnds CallsReturn
CHECK_DEADLOCK FALSE
