\* Two downloads of two links around their expiry; or two calls with two
\* challenges and three credentials, two more than an account may have.
SPECIFICATION HostSpec
CONSTANTS
  r1 = r1
  r2 = r2
  t1 = t1
  t2 = t2
  k1 = k1
  k2 = k2
  k3 = k3
  Links <- TwoTokens
  Requests <- TwoRequests
  NoLink = NoLink
  Ttl = 2
  MaxTime = 7
  PasskeyCalls <- TwoRequests
  Challenges <- TwoTokens
  NoChallenge = NoChallenge
  Credentials <- ThreeCredentials
  NoCredential = NoCredential
  Scopes <- DistinctScopes
  MaxPasskeys = 1
  ChallengeTicks = 1
SYMMETRY HostSymmetry
INVARIANTS
  UsedOnceWhileValid
  RemovedKeyRefused PasskeysBounded
PROPERTIES
  ChallengesSpentOnce LastFactorKept
CHECK_DEADLOCK FALSE
