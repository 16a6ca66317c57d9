CONSTANTS
  tab = tab
  Tab = tab
  Size = 3
  Limit = 2
  Recent = 1
  MaxHosts = 2
  MaxNotices = 1
  MaxChanges = 2
  MaxRequests = 2
  MaxDrops = 1
  MaxFaults = 1
  MaxSelects = 2
SPECIFICATION Spec
INVARIANTS
  TypeOK
  CatchUpLosesNothing
  HostsAreFresh
  DetailIsFresh
PROPERTIES
  EventuallyCurrent
CHECK_DEADLOCK FALSE
