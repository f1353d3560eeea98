SPECIFICATION FairSpec
CONSTANTS
  Talkers = {t1, t2}
  Listeners = {l1, l2}
  Controller = c
  Unknown = {t2}
  None = none
  MaxSlots = 2
  MaxInflight = 1
  TxTimeout <- MCTxTimeout
  RxTimeout <- MCRxTimeout
  Patient = TRUE
  MaxCommands = 4
  MaxFaults = 2
CHECK_DEADLOCK FALSE
INVARIANTS
  TablesAgree
  SinksAreServed
  CommandsTakeEffect
PROPERTIES
  CommandsEnd
