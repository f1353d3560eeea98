SPECIFICATION FairSpec
CONSTANTS
  Station <- MCStation
  NoPort = 0
  SeqMod = 2
  Traffic <- MCTraffic
  MaxReplaced = 1
INVARIANTS
  RolesAreSound
  RateIsOfOneMaster
  DelayIsOfOneExchange
CHECK_DEADLOCK FALSE
PROPERTIES
  StationsAgree
