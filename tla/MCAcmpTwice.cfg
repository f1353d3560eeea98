SPECIFICATION Spec
CONSTANTS
  Talkers = {t1}
  Listeners = {l1, l2}
  Controller = c
  Unknown = {}
  None = none
  MaxSlots = 2
  MaxInflight = 1
  TxTimeout <- MCTxTimeout
  RxTimeout <- MCRxTimeout
  Patient = TRUE
  MaxCommands = 4
  MaxFaults = 0
CHECK_DEADLOCK FALSE
INVARIANTS
  NoListenerTwice
