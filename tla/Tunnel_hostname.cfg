SPECIFICATION FairSpec
CONSTANTS
  ClientKey = 1
  ServerKey = 2
  Sessions = {1}
  Addrs = {a1, a2}
  Packets = {p}
  ServerIP = ServerIP
  ServerHost = Hostname
  None = None
  MaxInFlight = 2
PROPERTY GenuineAccepted
CHECK_DEADLOCK FALSE
