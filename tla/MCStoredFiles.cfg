\* Edits, uploads and deletions of a Send overlap the visits, and one request
\* may stop; or two attachments, two requests and a permanent deletion; or two
\* backup jobs and two destinations with one slot each.
SPECIFICATION HostSpec
CONSTANTS
  v1 = v1
  v2 = v2
  o1 = o1
  o2 = o2
  q1 = q1
  t1 = t1
  t2 = t2
  Visitors <- TwoVisitors
  Owners <- TwoOwners
  Kinds <- AllKinds
  MaxAccess = 2
  MaxEdits = 2
  MaxCrashes = 1
  Files <- TwoVisitors
  NoFile = NoFile
  Changes <- TwoOwners
  Purges <- OnePurge
  Jobs <- TwoVisitors
  Nobody = Nobody
  Lost = Lost
  Destinations <- TwoDestinations
  NoDestination = NoDestination
  Slots <- SlotTable
  Midnights <- MidnightTable
  Retention = 1
  LeaseTicks = 2
  HeartbeatTicks = 1
  WindowTicks = 2
  MaxUploads = 2
  LastTick = 2
  MaxJobs = 2
  MaxArchives = 3
SYMMETRY HostSymmetry
INVARIANTS
  TypeOK LostAccessesBounded OrphansAreLate
  AttachmentOrphansAreLate UploadsNotRepeated
  BackupTypeOK OverlapNeedsStall RecordedIsStored
PROPERTIES
  GrantsAreAllowed
  OnlyOwnLeaseEnds NoSlotLost
CHECK_DEADLOCK FALSE
