\* The clean-up runs in the last second of a link.
SPECIFICATION Spec
CONSTANTS
  l1 = l1
  l2 = l2
  r1 = r1
  r2 = r2
  Links <- BothLinks
  Requests <- TwoRequests
  NoLink = NoLink
  Ttl = 2
  MaxTime = 7
SYMMETRY LinkSymmetry
INVARIANT UsedOnce
CHECK_DEADLOCK FALSE
