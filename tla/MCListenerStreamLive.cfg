SPECIFICATION FairSpec
CONSTANTS
  Size = 3
  Packet = 1
  CountMod = 4
  Period = 0
  ChanLock = 1
  SytInterval = 2
  MaxSamples = 1
  Diffs <- MCLiveDiffs
  LostLock = 2
  MinFill = 1
PROPERTIES
  UnlockedIsReported
