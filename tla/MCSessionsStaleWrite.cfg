SPECIFICATION Spec
CONSTANTS
  Requests = {r1, r2}
  Devices = {}
  NoDevice = NoDevice
  Tokens = {t1, t2}
  LegacyTokens = {}
  Kinds <- StaleWriteKinds
  MaxStamp = 4
INVARIANT RetiredStampStaysRetired
CHECK_DEADLOCK FALSE
