SPECIFICATION Spec
CONSTANTS
  Requests = {r1, r2}
  Devices = {d1}
  NoDevice = NoDevice
  Tokens = {t1, t2}
  LegacyTokens = {t1}
  Kinds <- DeviceKindsMC
  MaxStamp = 4
SYMMETRY RequestSymmetry
INVARIANTS DeviceSessionAgreed
PROPERTIES DeletedTokenStaysDeleted SignedFromLiveToken SessionKeepsItsStamps
CHECK_DEADLOCK FALSE
