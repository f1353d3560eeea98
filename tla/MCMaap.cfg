SPECIFICATION FairSpec
CONSTANTS
  a = a
  b = b
  Node = {a, b}
  Mac <- OrderedMacs
  PoolSize = 4
  NumAddr = 2
  ProbeRetransmits = 3
  ProbeBase = 2
  ProbeVariation = 2
  AnnounceBase = 3
  AnnounceVariation = 1
  AnnounceMultiplier = 2
  MaxCalls = 1
  MaxLosses = 1
INVARIANTS
  TypeOK
  ReservationsAreDisjoint
PROPERTIES
  ReservationsAreStable
  DuplicatesAreResolved
