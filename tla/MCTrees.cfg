CONSTANTS
  n1 = n1
  n2 = n2
  n3 = n3
  n4 = n4
  n5 = n5
  d1 = d1
  d2 = d2
  None = None
  PreselBound = 1
  Node <- Nodes5
  Desktop <- Desktops2
CONSTRAINT SmallTrees
SYMMETRY Symmetry
SPECIFICATION Spec
INVARIANTS
  FlagsAgree
  CirculateTurns
  FocusKept
