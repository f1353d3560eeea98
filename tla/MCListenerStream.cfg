SPECIFICATION Spec
CONSTANTS
  Size = 4
  Packet = 2
  CountMod = 4
  Period = 0
  ChanLock = 2
  SytInterval = 3
  MaxSamples = 2
  Diffs <- MCDiffs
  LostLock = 2
  MinFill = 1
INVARIANTS
  InfoIsOfOneSample
PROPERTIES
  PlaysInOrder
