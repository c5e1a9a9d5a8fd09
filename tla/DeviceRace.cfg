CONSTANTS
  Clients = {a}
  Tasks = {t1, t2}
  Watchers = {w1}
  Pumps = {p1, p2}
  Users = {u1}
  Reports = {"on"}
  Awaits = FALSE
  Stays = FALSE
  PrioCallers = {}
  Callers <- MCCallers
  RxCap <- MCRxCap
  PrioCap = 1
  Methods <- MCRaceMethods
  Used <- MCDeviceUsed
  Idle = Idle
  None = None
SPECIFICATION Spec
INVARIANTS EveryStreamStoppable FingerQuietBetweenOps
SYMMETRY MCSymmetry
CHECK_DEADLOCK FALSE
