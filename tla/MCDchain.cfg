CONSTANTS
  NumCores = 2
  Size = 2
  MaxTime = 1
SPECIFICATION DchainFairSpec
INVARIANTS DchainTypeOK EveryIndexInOnePlace AllocListsSound OldestFirst
PROPERTIES ImplementsIndexAllocator OperationsReturn
