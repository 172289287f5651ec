CONSTANTS
  NULL = NULL
  Threads = {t1, t2, t3, t4}
SPECIFICATION FairSpec
INVARIANTS QueueInvariant MutualExclusion GrantReachesWaiter
PROPERTIES ImplementsFifoLock StarvationFreedom
