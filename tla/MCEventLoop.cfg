CONSTANTS
  w1 = w1
  w2 = w2
  Window <- MCWindow
  ExternalRules = TRUE
  Answers <- Lines
  Preempts = TRUE
  MaxSent = 3
  MaxQueries = 1
SPECIFICATION BusySpec
INVARIANTS
  OneEntry
  AnswerRead
  MessagesKept
  GhostsMissed
  GrabHeld
PROPERTIES
  Resolved
  EventsHandled
  MessagesRead
CHECK_DEADLOCK FALSE
