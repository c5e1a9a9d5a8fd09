CONSTANTS
  Inputs <- MCInputs
  Ink <- MCInk
  ImageWidth = 16
  ImageHeight = 16
  BlockSize = 3
  MapWidth = 6
  MapHeight = 6
  NumDirections = 4
  Headings <- MCHeadings
  Radius = 1
  Tangents <- MCTangents
  BehindSine <- MCBehindSine
  RmvValidNbrMin = 3
  SmthValidNbrMin = 7
  MinInterpolateNbrs = 2
  DirDistanceMax = 0
  StrengthMin <- MCStrength
  VortValidNbrMin = 7
  VorticityMin = 2
  CurvatureMin = 1
  NumFillHoles = 3
  MaxMinutiaDelta = 4
  HighCurveHalfContour = 4
  MinLoopLen = 7
  MaxRmtestDist = 4
  MaxHalfLoop = 12
  MaxHookLen = 8
  MaxOverlapDist = 4
  SmallLoopLen = 5
  InvBlockMargin = 1
  RmValidNbrMin = 5
  SideHalfContour = 2
  MalformationSteps = 4
  MaxNbrs = 1
  MaxRidgeSteps = 4
SPECIFICATION Spec
INVARIANTS SurvivorsOnEdges NeighboursNearest Settled ScannedAsBinarized
PROPERTIES ReplacedByItsLike EveryStepAdvances
