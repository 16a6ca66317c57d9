CONSTANTS
  server = server
  cli = cli
  macA = macA
  macB = macB
  ip1 = ip1
  ip2 = ip2
  ssh = ssh
  web = web
  NoMac = NoMac
  Process = {server}
  Mac = {macA}
  Ip = {ip1, ip2}
  Port = {ssh}
  Observations = {{}}
  MaxGroups = 1
  MaxPortFacts = 0
  MaxScans = 3
  MaxFaults = 0
  MaxRounds = 2
SPECIFICATION Spec
PROPERTIES
  MergedOnMac
CHECK_DEADLOCK FALSE
