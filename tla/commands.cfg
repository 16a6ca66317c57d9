CONSTANTS
  p1 = p1
  p2 = p2
  Process = {p1, p2}
  PrivateBlocks <- MCPrivateBlocks
  Target <- MCTarget
  Plug <- MCPlug
  BuiltIn <- MCBuiltIn
  Setting <- MCSetting
  MaxTargets = 1
  MaxCommands = 3
  MaxScans = 2
  MaxEdits = 1
SPECIFICATION Spec
INVARIANTS
  TypeOK
  SubnetsAreSound
  NobodyIsProbedUnasked
  RunningIsLive
PROPERTIES
  RowsKeepTheirIds
SYMMETRY Alike
CHECK_DEADLOCK FALSE
