SPECIFICATION FairSpec
CONSTANTS
  Entity = {"p", "q"}
  Nobody = "zero"
  MaxEntities = 2
  ValidTime = 1
  Grandmaster = {"m", "n"}
  Unread = "unread"
  Requests = 2
INVARIANTS
  DatabaseIsSound
PROPERTIES
  GoneIsForgotten
  RejoinIsAnnounced
  GrandmasterIsAnnounced
