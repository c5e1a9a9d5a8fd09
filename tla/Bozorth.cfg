CONSTANTS
  Probe = {1, 2, 3, 4, 5, 6, 7, 8, 9, 10, 11, 12}
  Gallery = {1, 2, 3, 4, 5, 6, 7, 8, 9, 10, 11, 12}
  Tables <- MCTables
  MinPath = 2
  MinScore = 3
  MaxGroups = 2
  QueueSize = 3
  MaxClusters = 4
  MostRows = 4
  MostTurned = 3
SPECIFICATION Spec
INVARIANTS PathConsistent CleanBetweenSeeds ScoreIsBestClique
PROPERTIES MatchEnds
