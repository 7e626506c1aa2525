SPECIFICATION SystemSpec
CONSTANTS
  c1 = c1
  c2 = c2
  ipA = ipA
  Conns = {c1, c2}
  IP <- SharedIP
  NoConn = NoConn
  ClientKeys <- MCClientKeys
  ServerKeys <- MCServerKeys
  Salts = {n1, n2}
  Versions = {1}
  PROTOCOL_VERSION = 1
  Clock <- MCClock
  MAX_CLOCK_SKEW = 1
  None = None
INVARIANT LoneClientServed
