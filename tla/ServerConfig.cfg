SPECIFICATION Spec
CONSTANTS
  Keys = {old, k1, k2, k3, k4}
  OldKey = old
  None = None
  Unreadable = Unreadable
  MaxBoots = 4
INVARIANTS TypeOK KeyPairMatches IdentityKept ShareableJson
CHECK_DEADLOCK FALSE
