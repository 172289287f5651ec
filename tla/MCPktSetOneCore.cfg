CONSTANTS
  NumCores = 1
  Size = 3
  MaxTime = 2
  Validity = 1
  NumBuckets = 2
  k1 = k1
  k2 = k2
  k3 = k3
  k4 = k4
  r1 = r1
  r2 = r2
  r3 = r3
  r4 = r4
  NoKey = NoKey
  Keys <- KeysPairs
  Hash <- HashPairs
  Related <- Pairs
SPECIFICATION Spec
INVARIANTS MapMatchesAllocList NoOverdueSetServed
PROPERTIES ImplementsPktSetTable
