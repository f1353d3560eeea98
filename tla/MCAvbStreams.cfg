SPECIFICATION Spec
CONSTANTS
  Source = {1, 2}
  Sink = {1, 2}
  Input = {1, 2}
  MaxVlan = 2
  NoAddress = "none"
  NoStream = "none"
  Scenario <- MCScenario
INVARIANTS
  UnitsAgree
  InputFeedsOneStream
  VlanOfStreamIsJoined
  AddressIsTold
  SinkHearsItsStream
