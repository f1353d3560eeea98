SPECIFICATION FairSpec
CONSTANTS
  Talker = talker
  Listeners = {l1}
  LeavePeriod = 4
  JoinPeriod = 1
  LeaveAllPeriod = 6
  MaxLosses = 1
PROPERTIES
  StreamStarts
