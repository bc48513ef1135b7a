CONSTANTS
  d1 = d1
  d2 = d2
  None = None
  PointerFocus = TRUE
  Windows = 3
  Desktop <- TwoDesktops
  Layer <- TwoLayers
SYMMETRY Symmetry
SPECIFICATION SmallSpec
INVARIANTS
  ListComplete
PROPERTIES
  OrderKept
  FocusReveals
  OnlyFullscreenDemoted
