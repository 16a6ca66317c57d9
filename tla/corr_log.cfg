CONSTANTS
  server = server
  cli = cli
  macA = macA
  macB = macB
  ip1 = ip1
  ip2 = ip2
  ssh = ssh
  web = web
  NoMac = NoMac
  Process = {server}
  Mac = {macA, macB}
  Ip = {ip1, ip2}
  Port = {ssh}
  Observations = {{}, {ip1, ip2}}
  MaxGroups = 2
  MaxPortFacts = 2
  MaxScans = 2
  MaxFaults = 1
  MaxRounds = 2
SPECIFICATION Spec
SYMMETRY Alike
INVARIANTS
  GroupsAreWhatWasSeen
  RereadFinds
  LogTellsAll
  SnapshotIsCurrent
CHECK_DEADLOCK FALSE
