CONSTANTS
  server = server
  cli = cli
  macA = macA
  macB = macB
  ip1 = ip1
  ip2 = ip2
  ssh = ssh
  web = web
  NoMac = NoMac
  Process = {server}
  Mac = {macA}
  Ip = {ip1, ip2}
  Port = {ssh}
  Observations = {{}, {ip1, ip2}}
  MaxGroups = 1
  MaxPortFacts = 1
  MaxScans = 2
  MaxFaults = 1
  MaxRounds = 2
SPECIFICATION Spec
INVARIANTS
  InterruptedIsConsistent
CHECK_DEADLOCK FALSE
