CONSTANTS
  f1 = f1
  f2 = f2
  Pumps = {p1, p2}
  Fingers = {f1, f2}
  Galleries <- MCGalleries
  None = None
  Stages = 2
  Cap = 2
  MaxReports = 3
  MaxTries = 2
SPECIFICATION Spec
INVARIANTS VerdictLast VerdictTrue StagesTold
PROPERTIES NewsIsCurrent
SYMMETRY MCSymmetry
VIEW MCView
CHECK_DEADLOCK FALSE
