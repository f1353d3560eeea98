SPECIFICATION FairSpec
CONSTANTS
  Size = 64
  Samples = 8
  DbcMod = 64
  WireSamples = {6}
  Period = 6
  MaxLate = 7
INVARIANTS
  RingIsSound
  HeldPacketIsWhole
PROPERTIES
  TalkerNeverWaits
  PacketsAreConsecutive
  StreamStartsAfresh
  StreamTransmits
