SPECIFICATION Spec
CONSTANTS
  Word = 64
  MaxTime = 9
  NumLines = 5
  Trace <- PacingTrace
  Lag = 1
  Millis = 2
  Mode = 3
  MayFail = {}
  Size = 1
  K = 1
  Buf = 1
  UInt = 8
  SndBuf = 1
  FieldReads = {6}
  ClientWait = 1
  NoFile <- MCNoFile
  Signals = {}
INVARIANT TypeOK
INVARIANT NeverEarly
INVARIANT ClockAccounting
PROPERTY OnlyStaleDropped
PROPERTY FeedbackInSchedule
CHECK_DEADLOCK FALSE
