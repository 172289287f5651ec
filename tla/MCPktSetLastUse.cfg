CONSTANTS
  NumCores = 1
  Size = 2
  MaxTime = 3
  Validity = 1
  NumBuckets = 2
  k1 = k1
  k2 = k2
  NoKey = NoKey
  Keys <- Keys2
  Hash <- Hash2
  Related <- Unrelated2
SPECIFICATION SpecUse
INVARIANT UsedSetsStay
