CONSTANTS
  w1 = w1
  w2 = w2
  Window <- MCWindow
  ExternalRules = FALSE
  Answers <- Lines
  Preempts = FALSE
  MaxSent = 2
  MaxQueries = 1
SPECIFICATION Spec
PROPERTIES
  EventsHandled
CHECK_DEADLOCK FALSE
