\* Two verifications in one process, two versions of each row; or two loads in
\* the web vault, whose vault changed before they begin and changes once more.
SPECIFICATION HostSpec
CONSTANTS
  r1 = r1
  r2 = r2
  Requests <- TwoRequests
  Ttl = 1
  Latency = 1
  MaxVersion = 2
  Loads <- TwoRequests
  NoLoad = NoLoad
  MaxRevision = 2
SYMMETRY HostSymmetry
INVARIANT FreshIsComplete
PROPERTIES RevocationIsBounded RefusedOnlyIfReplaced LoadsCatchUp
