CONSTANTS
  u1 = u1
  u2 = u2
  f1 = f1
  f2 = f2
  t1 = t1
  t2 = t2
  t3 = t3
  t4 = t4
  Users <- MCUsers
  Fingers <- MCFingers
  Templates <- MCTemplates
  Present <- MCPresent
  Enrolments <- MCEnrolments
  Probed <- MCProbed
  Shapes <- MCShapes
  None = None
  Capacity = 2
  Stages = 2
  Handlers = {h1, h2}
  Pumps = {p1}
  Lingering = FALSE
SPECIFICATION Spec
PROPERTIES RecordedSlotKept BackedRecordKept ReconcileComplete OthersKept
SYMMETRY MCSymmetry
VIEW MCView
