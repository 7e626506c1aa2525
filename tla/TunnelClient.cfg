SPECIFICATION FairSpec
CONSTANTS
  Callers = {ui, connector}
  MaxConnects = 2
  Hostnames = {1}
  NoCaller = NoCaller
INVARIANTS TypeOK ResourcesMatchState NoUseAfterClose
PROPERTIES WorkersEnd DisconnectReturns
CHECK_DEADLOCK FALSE
