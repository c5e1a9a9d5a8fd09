CONSTANTS
  Keys <- MCKeys
  Prints = {p1}
  Alien = Alien
  w1 = w1
  w2 = w2
  Workers <- MCWorkers
  Asks <- MCAsks
  None = None
  Inodes = {i1, i2, i3}
  Exclusive = TRUE
SPECIFICATION Spec
PROPERTIES Linearizable
SYMMETRY MCSymmetry
VIEW MCView
