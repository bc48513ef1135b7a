CONSTANTS
  m1 = m1 m2 = m2 d1 = d1 d2 = d2 d3 = d3 w1 = w1 w2 = w2 i1 = i1 r1 = r1 r2 = r2
  None = None
  Monitor <- Monitors2
  Desktop <- Desktops3
  Window <- Windows2
  Inner <- Inner1
  Reader <- Readers2
  Rank <- LeftToRight
  Desks <- TwoAndOne
  Kinds <- OthersOrAll
  MaxCells = 2
  MaxWant = 2
  MaxRestores = 1
SPECIFICATION Spec
SYMMETRY Symmetry
CHECK_DEADLOCK FALSE
INVARIANTS StreamsMatch CountKept FocusTold
PROPERTY WorldRestored
