CONSTANTS
  n1 = n1
  n2 = n2
  n3 = n3
  n4 = n4
  n5 = n5
  n6 = n6
  d1 = d1
  d2 = d2
  None = None
  Node <- MCNode
  Desktop <- MCDesktop
SYMMETRY Symmetry
SPECIFICATION Spec
INVARIANTS
  LinksSound
  TreesAcyclic
PROPERTIES
  HoldsWindows
