CONSTANTS
  m1 = m1
  m2 = m2
  m3 = m3
  d1 = d1
  d2 = d2
  d3 = d3
  e1 = e1
  e2 = e2
  w1 = w1
  w2 = w2
  None = None
  Word = 4
  Monitor <- Monitors3
  Output <- Outputs2
  Desktop <- Desktops3
  Node <- Windows2
  Stash <- Stashes2
SYMMETRY Symmetry
CONSTRAINT Steady
SPECIFICATION Spec
INVARIANTS
  ListsSound
  FocusKept
  OnScreen
  StickyShown
PROPERTIES
  WindowsKept
  StickyStays
