CONSTANTS
  Clients = {a}
  Tasks = {t1}
  Watchers = {w1}
  Pumps = {p1}
  Users = {u1}
  Reports = {"on"}
  Awaits = TRUE
  Stays = TRUE
  PrioCallers = {}
  Callers <- MCCallers
  RxCap <- MCRxCap
  PrioCap = 1
  Methods <- MCSessionMethods
  Used <- MCDeviceUsed
  Idle = Idle
  None = None
SPECIFICATION FairSpec
PROPERTIES ReleaseEndsSession
CHECK_DEADLOCK FALSE
