\* Three attempts in flight, two of them may stop half-way; or two log-ins
\* with codes; or three bootstraps of Yubico.
SPECIFICATION HostSpec
CONSTANTS
  r1 = r1
  r2 = r2
  r3 = r3
  Requests <- ThreeRequests
  MaxAttempts = 3
  LockTicks = 2
  Outcomes <- AnyOutcome
  MaxCrashes = 2
  CodeLogins <- TwoRequests
  CodeWindow = 1
  MarkerTicks = 3
  MaxLatency = 1
  LastStep = 4
  Bootstraps <- ThreeRequests
  ClaimTicks = 1
  MaxClaims = 3
INVARIANTS GuessesBounded BootstrapsOnce
PROPERTIES LockEnds CodesPassOnce
