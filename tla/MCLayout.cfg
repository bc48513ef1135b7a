CONSTANTS
  w1 = w1
  w2 = w2
  w3 = w3
  None = None
  Window <- Windows3
  Size = 12
  MinSize = 5
  Ratios <- Ratios1
  Moves <- Moves1
  MaxTunings = 1
SYMMETRY Symmetry
SPECIFICATION Spec
INVARIANTS
  Tiled
  MinKept
  PictureTurns
  BalancedFairly
  FencesStay
