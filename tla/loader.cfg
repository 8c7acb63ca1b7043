CONSTANTS
  QueueLen = 3
  Timeout = 5
  GiveUp = 2
  SeqSpan = 2
  Lag = 3
  Cells = 2
  Wire = {"ok", "bad", "lost"}
  MaxExtent = 4
  MaxChunks = 6
SPECIFICATION FairSpec
CHECK_DEADLOCK FALSE
INVARIANTS TypeOK QueueWhole AnswersInOrder EventsHeardOnce
PROPERTIES DeliversInOrder Settles
