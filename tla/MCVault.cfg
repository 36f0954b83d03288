\* Two writers of one cipher and a sync.
SPECIFICATION Spec
CONSTANTS
  w1 = w1
  w2 = w2
  s1 = s1
  Writers <- TwoWriters
  Readers <- OneReader
  Kinds <- AllKinds
  NoDate = NoDate
  Empty = Empty
  MaxTime = 1
  MaxChanges = 2
SYMMETRY WriterSymmetry
INVARIANT CachedSyncIsCurrent
PROPERTY UpdateReplacesWhatItRead
