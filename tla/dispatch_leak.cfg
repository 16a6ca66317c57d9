CONSTANTS
  lan = lan
  lanHost = lanHost
  wan = wan
  junk = junk
  lanNet = lanNet
  wanNet = wanNet
  NotACidr = NotACidr
  Cidr = {lan, lanHost}
  Net = {lanNet, wanNet}
  Parsed <- MCParsed
  HostBits = {lanHost}
  Allowed = {lanNet}
  Confirmable = {wanNet}
  PostModes = {"discover"}
  MaxRequest = 1
  MaxTargets = 2
  DefaultEvery = 1
  MaxScans = 3
  MaxBoots = 2
  MaxFaults = 1
SPECIFICATION Spec
INVARIANTS
  FailureFreesKey
CHECK_DEADLOCK FALSE
