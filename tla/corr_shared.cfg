CONSTANTS
  server = server
  cli = cli
  macA = macA
  macB = macB
  ip1 = ip1
  ip2 = ip2
  ssh = ssh
  web = web
  NoMac = NoMac
  Process = {server, cli}
  Mac = {macA, macB}
  Ip = {ip1, ip2}
  Port = {ssh}
  Observations = {{}}
  MaxGroups = 1
  MaxPortFacts = 0
  MaxScans = 4
  MaxFaults = 1
  MaxRounds = 2
SPECIFICATION Spec
SYMMETRY Alike
INVARIANTS
  TypeOK
  OneRowPerMac
  OneBareRowPerIp
  HistoryIsComplete
PROPERTIES
  IdentityIsStable
CHECK_DEADLOCK FALSE
