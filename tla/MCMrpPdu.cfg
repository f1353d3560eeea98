SPECIFICATION FairSpec
CONSTANTS
  Attrs <- MCAttrs
  LocalId <- MCLocalId
  Early = {"port", "vlan", "s0", "k0"}
  Starts <- MCStarts
  Ids = {3}
  Renamable = {"k3"}
  Patterns <- MCPatterns
  BufferSize = 200
  MaxChanges = 1
INVARIANTS
  EveryAttributeIsListed
  DeclarationsArrive
  NeighboursShareAVector
PROPERTIES
  ListIsSortedInTheEnd
