SPECIFICATION Spec
CONSTANTS
  Names = {"s"}
  InboxCap = 1
  Attempts = 2
  MaxBackends = 3
  MaxGrants = 2
  MaxRefreshes = 2
  MaxCommands = 2
  MaxRestarts = 1
INVARIANTS
  AgreedWhenQuiet
  WaitingIsReachable
  OneExchange
CHECK_DEADLOCK FALSE
