SPECIFICATION FairSpec
CONSTANTS
  Word = 64
  MaxTime = 4
  NumLines = 2
  Trace <- ControlTrace
  Lag = 0
  Millis = 2
  Mode = 1
  MayFail = {"nodelay", "bwval", "trgtdel", "gain", "apply", "pacing"}
  Size = 3
  K = 2
  Buf = 3
  UInt = 8
  SndBuf = 4
  FieldReads = {1, 2, 3, 4, 5, 6}
  ClientWait = 1
  NoFile <- MCNoFile
  Signals = {"server", "client"}
INVARIANT FreshOptions
 
INVARIANT CompleteTransfer
PROPERTY ServerExits
PROPERTY ClientEnds

CHECK_DEADLOCK FALSE
