CONSTANTS
  n1 = n1
  n2 = n2
  n3 = n3
  d1 = d1
  d2 = d2
  d3 = d3
  m1 = m1
  m2 = m2
  None = None
  Node <- MCNode
  Desktop <- MCDesktop
  Monitor <- TwoOnOne
  MaxEntries = 4
CONSTRAINT ShortSearches
SYMMETRY Symmetry
SPECIFICATION Spec
INVARIANTS
  NoStaleCell
  LatestIsNewest
PROPERTIES
  FollowsOrder
