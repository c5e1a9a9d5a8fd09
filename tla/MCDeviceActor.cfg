CONSTANTS
  Callers = {c1, c2}
  PrioCallers = {p1, p2}
  RxCap = 1
  PrioCap = 1
  Used <- MCUsed
  Idle = Idle
SPECIFICATION ActorFairSpec
INVARIANTS ExactlyOnce
PROPERTIES PrioAnswered
