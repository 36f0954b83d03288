\* An edit that does not touch the limit overlaps the visits.
SPECIFICATION Spec
CONSTANTS
  v1 = v1
  v2 = v2
  o1 = o1
  o2 = o2
  Visitors <- TwoVisitors
  Owners <- OneOwner
  Kinds <- EditKinds
  MaxAccess = 2
  MaxEdits = 1
  MaxCrashes = 0
INVARIANT GrantsWithinLimit
CHECK_DEADLOCK FALSE
