SPECIFICATION FairSpec
CONSTANTS
  ClientKey = 1
  ServerKey = 2
  Sessions = {1, 2}
  Addrs = {a1, a2}
  Packets = {p}
  ServerIP = ServerIP
  ServerHost = ServerIP
  None = None
  MaxInFlight = 2
INVARIANTS TypeOK DeliveredAsSent
PROPERTIES GenuineAccepted AddressLearned
CHECK_DEADLOCK FALSE
