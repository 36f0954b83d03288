SPECIFICATION Spec
CONSTANTS
  Requests = {r1, r2}
  Devices = {d1}
  NoDevice = NoDevice
  Tokens = {t1, t2}
  LegacyTokens = {}
  Kinds <- RemovedDeviceKinds
  MaxStamp = 4
INVARIANT RemovedDeviceStaysRemoved
CHECK_DEADLOCK FALSE
