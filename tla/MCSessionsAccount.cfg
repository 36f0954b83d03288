SPECIFICATION Spec
CONSTANTS
  Requests = {r1, r2}
  Devices = {}
  NoDevice = NoDevice
  Tokens = {t1, t2}
  LegacyTokens = {t1}
  Kinds <- AccountKindsMC
  MaxStamp = 3
SYMMETRY RequestSymmetry
INVARIANTS SessionKnowsPassword
PROPERTIES PasswordMovesStamp BoundStampIsFinal
CHECK_DEADLOCK FALSE
