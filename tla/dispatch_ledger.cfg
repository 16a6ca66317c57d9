CONSTANTS
  lan = lan
  lanHost = lanHost
  wan = wan
  junk = junk
  lanNet = lanNet
  wanNet = wanNet
  NotACidr = NotACidr
  Cidr = {lan, lanHost, wan, junk}
  Net = {lanNet, wanNet}
  Parsed <- MCParsed
  HostBits = {lanHost}
  Allowed = {lanNet}
  Confirmable = {wanNet}
  PostModes = {"discover"}
  MaxRequest = 1
  MaxTargets = 4
  DefaultEvery = 1
  MaxScans = 2
  MaxBoots = 2
  MaxFaults = 0
SPECIFICATION Spec
INVARIANTS
  NoBypass
  AcceptedIsLive
PROPERTIES
  ImplementsLedger
  EveryScanEnds
  StopsWhenAsked
CHECK_DEADLOCK FALSE
