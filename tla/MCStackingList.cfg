CONSTANTS
  w1 = w1
  w2 = w2
  w3 = w3
  Window <- MCWindow
  None = None
SYMMETRY Symmetry
SPECIFICATION Spec
INVARIANTS
  ListSound
  ServerAgrees
  SettledOrder
PROPERTIES
  PlacedAsAsked
