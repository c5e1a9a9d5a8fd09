CONSTANTS
  Clients = {a, b}
  Tasks = {t1, t2}
  Watchers = {w1, w2}
  Pumps = {p1, p2}
  Users = {u1}
  Reports = {"on"}
  Awaits = TRUE
  Stays = TRUE
  PrioCallers = {}
  Callers <- MCCallers
  RxCap <- MCRxCap
  PrioCap = 1
  Methods <- MCSessionMethods
  Used <- MCDeviceUsed
  Idle = Idle
  None = None
SPECIFICATION Spec
INVARIANTS SessionWatched
PROPERTIES ServesItsClients
SYMMETRY MCSymmetry
CHECK_DEADLOCK FALSE
