SPECIFICATION Spec
CONSTANTS
  Limit = 2
  Kinds = {"inner", "word", "stop"}
  Longest = 4
  Most = 4
  Idle = 1
  Faults = {"resolve", "acquire", "refused", "worker", "bad", "close"}
INVARIANTS TypeOK LeaseIsTheSessions SpokenInOrder PiecesReadWell DoneIsAll NothingReadyWaits
PROPERTIES LeaseComesBack
CHECK_DEADLOCK FALSE
