SPECIFICATION FairSpec
CONSTANTS
  Conns = {c1, c2}
  ClientKeys = {3}
  ServerKeys = {2, 4}
  Salts = {n1, n2}
  Versions = {1, 2}
  PROTOCOL_VERSION = 1
  Clock = {0, 2}
  MAX_CLOCK_SKEW = 1
  None = None
INVARIANTS TypeOK MatchingKeys EstablishedIsTrusted SessionKeysUnique
PROPERTIES HandlerReturns ImplementsKeyAgreement
