CONSTANTS
  NumCores = 2
  Size = 2
  MaxTime = 2
  Validity = 0
  NumBuckets = 2
  k1 = k1
  k2 = k2
  k3 = k3
  k4 = k4
  r1 = r1
  r2 = r2
  r3 = r3
  r4 = r4
  NoKey = NoKey
  Keys <- Keys2
  Hash <- Hash2
  Related <- Unrelated2
SPECIFICATION Spec
INVARIANTS CommitFindsLocalIndex MapMatchesAllocList PartitionsSeparate
