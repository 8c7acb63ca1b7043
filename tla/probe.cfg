CONSTANTS
  Watch = {frame}
  Spans <- MCSpans
  Lfo4 = TRUE
  None = None
  GiveUp = 1
  LostAfter = 2
  SearchEvery = 1
  SearchFor = 2
  AbsentEvery = 2
  MaxQueue = 2
  MaxFaults = 1
  MaxPresses = 1
SPECIFICATION FairSpec
INVARIANTS TypeOK ReadsOfThisRound SilenceBound
PROPERTIES IsFound SaysAbsent

