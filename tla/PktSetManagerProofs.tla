------------------------ MODULE PktSetManagerProofs -------------------------
(***************************************************************************)
(* The index allocator, and then the packet-set manager that uses it, for  *)
(* every number of cores and indexes.                                      *)
(*                                                                         *)
(* The allocator.  A first invariant, Locked, says which locks a core      *)
(* holds at each step; it needs nothing about the lists.  The second,      *)
(* DIInv, says that there is a labelling of the cells: on[x] is the list   *)
(* or the hand of a core where cell x is, and rank orders the cells of     *)
(* each list as the links do.  A labelling makes the shape of the linked   *)
(* lists a local matter: that a list is acyclic, complete and disjoint     *)
(* from the others follows from what on and rank say of a cell and of its  *)
(* successor, and each step changes the labels of one cell.  ListOf, the   *)
(* walk along the links that the properties speak of, visits the cells of  *)
(* a labelled list once each, in the order of their ranks                  *)
(* (ListOfEnumerates).                                                     *)
(*                                                                         *)
(* Two uses of the locks carry the argument.  A step of a core changes its *)
(* own alloc list, the free lists it has locked and the cell in its hand,  *)
(* and nothing else (Works, WorksInv).  And while a core refills the       *)
(* global list it holds all the locks, so the free lists that it has seen  *)
(* empty are still empty when it gives up (RefillSees).                    *)
(*                                                                         *)
(* The manager.  The cores keep to their own partitions of the allocator   *)
(* (PartitionsSeparate), and the allocation that add_pkt_set_commit does   *)
(* not check always succeeds, from the free list of the core itself        *)
(* (CommitFindsLocalIndex).  The argument never looks at whole lists.  All *)
(* links in the region of a core lead back into that region, every step of *)
(* a core writes only in its own region, and regions are disjoint; so what *)
(* a core knows of its free list stays true while other cores move, and a  *)
(* core itself does not touch its free list between add_pkt_set_log and    *)
(* the allocation.                                                         *)
(*                                                                         *)
(* The manager takes only steps of the allocator (ManagerUsesAllocator),   *)
(* so what the first part says of the lists holds of it too; with it       *)
(* follows that a core serves no overdue set (NoOverdueSetServed).         *)
(*                                                                         *)
(* The map is sound if its buckets can be given disjoint sequences of      *)
(* entries that the chain links follow (SoundMap).  MapInv says that these *)
(* are the entries of the allocated indexes, that the ids of a core are    *)
(* apart and that a set and its related set are paired.  MapPut appends an *)
(* entry to one sequence and MapErase removes one.  From MapInv follow     *)
(* MapMatchesAllocList and, since a set is in the table exactly while it   *)
(* has an entry, that the manager implements PktSetTable                   *)
(* (ImplementsTable).                                                      *)
(***************************************************************************)
EXTENDS PktSetManager, ListFacts, SequenceTheorems
-----------------------------------------------------------------------------
(* The index allocator.                                                    *)

(* The heads and the cells of indexes are different cells. *)
LEMMA HeadsApart == Heads \cap IndexCells = {} /\ Heads \subseteq Cells /\ IndexCells \subseteq Cells
  BY SizeAssumption DEF Heads, IndexCells, Cells, INDEX_SHIFT, GLOBAL

(* ListOf enumerates the cells of a labelled list, in the order of their   *)
(* ranks.                                                                  *)
LEMMA ListOfEnumerates ==
  ASSUME next \in Links(Cells), NEW h \in Heads, NEW on \in Labels(IndexCells), NEW rank \in Labels(IndexCells),
         List(IndexCells, h, next, on, rank)
  PROVE  Enumerates(IndexCells, ListOf(h), h, on, rank) /\ CellsOf(h) = Members(IndexCells, h, on)
<1>1. Size \in Nat /\ Fits(IndexCells, Size)
  <2>1. Size \in Nat /\ IsFiniteSet(IndexCells) /\ Cardinality(IndexCells) = Size
    BY SizeAssumption, FS_Interval DEF IndexCells, INDEX_SHIFT, GLOBAL
  <2>. QED
    BY <2>1 DEF Fits
<1>2. ListOf(h) = Listed(next, h, Size)
  BY DEF ListOf, Listed, Walk, WalkEq
<1>3. h \in Cells \ IndexCells /\ IndexCells \in SUBSET Cells
  BY HeadsApart
<1>4. /\ Enumerates(IndexCells, Listed(next, h, Size), h, on, rank)
      /\ Range(Listed(next, h, Size)) = Members(IndexCells, h, on)
  BY <1>1, <1>3, ListedEnumerates
<1>. QED
  BY <1>2, <1>4 DEF CellsOf, Range
-----------------------------------------------------------------------------
Ops == {"none", "lock", "pop", "unhook", "link", "glock", "grab", "fill", "move",
        "retry", "ungrab", "gpop", "flock", "push", "hook"}

(* The operations that have a cell off all lists, or just read from one. *)
Holding == {"link", "flock", "push", "hook"}
Taking == {"unhook", "move"}

DTyping ==
  /\ next \in Links(Cells) /\ prev \in Links(Cells)
  /\ list_ind \in [Cells -> Cores \cup {-1}]
  /\ time \in [Cells -> 0..INT64_MAX]
  /\ dchain_locks \in [Cores -> Cores \cup {NoCore}]
  /\ global_lock \in Cores \cup {NoCore}
  /\ op \in [Cores -> Ops]
  /\ cell \in [Cores -> Cells \cup {NoCell}]
  /\ iter \in [Cores -> Cores]
  /\ ret \in [Cores -> BOOLEAN]
  /\ now \in [Cores -> 0..MaxTime]
  /\ \A c \in Cores : op[c] \in Holding \cup Taking => cell[c] \in Cells

(* The locks that core c holds at each step. *)
HoldsLocks(c) ==
  /\ op[c] \in {"pop", "unhook", "push", "hook"} => dchain_locks[c] = c
  /\ op[c] = "grab" => \A k \in Cores : k < iter[c] => dchain_locks[k] = c
  /\ op[c] \in {"fill", "move", "retry"} => \A k \in Cores : dchain_locks[k] = c
  /\ op[c] = "ungrab" => \A k \in Cores : k >= iter[c] => dchain_locks[k] = c
  /\ op[c] \in {"grab", "fill", "move", "retry", "ungrab", "gpop"} => global_lock = c
  /\ op[c] \notin {"grab", "fill", "move", "ungrab"} => iter[c] = 0

Locked == DTyping /\ \A c \in Cores : HoldsLocks(c)

(* A step of core c takes and gives back locks for itself only. *)
OwnLocks(c) ==
  /\ \A k \in Cores : dchain_locks[k] \notin {c, NoCore} => dchain_locks'[k] = dchain_locks[k]
  /\ global_lock \notin {c, NoCore} => global_lock' = global_lock
  /\ \A d \in Cores \ {c} : op'[d] = op[d] /\ cell'[d] = cell[d] /\ iter'[d] = iter[d]

(* The other cores keep the locks they hold. *)
LEMMA OthersKeepLocks ==
  ASSUME Locked, NEW c \in Cores, OwnLocks(c), NEW d \in Cores \ {c}
  PROVE  HoldsLocks(d)'
<1>1. d # NoCore
  BY DEF Cores, NoCore
<1>2. \A k \in Cores : dchain_locks[k] = d => dchain_locks'[k] = d
  BY <1>1 DEF OwnLocks
<1>3. global_lock = d => global_lock' = d
  BY <1>1 DEF OwnLocks
<1>4. op'[d] = op[d] /\ iter'[d] = iter[d]
  BY DEF OwnLocks
<1>. QED
  BY <1>2, <1>3, <1>4 DEF Locked, HoldsLocks

(* So it is enough to look at the core that takes the step. *)
LEMMA LockedStep ==
  ASSUME Locked, NEW c \in Cores, OwnLocks(c), DTyping', HoldsLocks(c)'
  PROVE  Locked'
  BY OthersKeepLocks DEF Locked

(* Arithmetic of core numbers. *)
LEMMA CoresFacts ==
  /\ NumCores \in Nat \ {0} /\ Cores \subseteq Nat /\ 0 \in Cores /\ NoCore \notin Cores /\ NoCell \notin Cells
  /\ \A c \in Cores : c < NumCores /\ (c + 1 < NumCores => c + 1 \in Cores)
  /\ \A c \in Cores : c + 1 < NumCores \/ \A k \in Cores : k <= c
  BY SizeAssumption DEF Cores, NoCore, NoCell, Cells, INDEX_SHIFT, GLOBAL

(* Arithmetic of cell numbers. *)
LEMMA CellFacts ==
  /\ \A c \in Cores : ALLOC(c) \in Heads /\ FREE(c) \in Heads /\ ALLOC(c) \in Cells /\ FREE(c) \in Cells
  /\ GLOBAL \in Heads /\ GLOBAL \in Cells
  /\ \A i \in Indexes : i + INDEX_SHIFT \in IndexCells
  /\ \A x \in IndexCells : x - INDEX_SHIFT \in Indexes
  /\ \A x \in Cells : (x - INDEX_SHIFT) + INDEX_SHIFT = x
  BY SizeAssumption DEF ALLOC, FREE, GLOBAL, Heads, Cells, INDEX_SHIFT, Cores, Indexes, IndexCells

(* Initially no lock is held; the links of init stay within the array of   *)
(* cells.                                                                  *)
LEMMA LockedInit == DchainInit => Locked
<1>. SUFFICES ASSUME DchainInit PROVE Locked
  OBVIOUS
<1>1. ASSUME NEW x \in Cells PROVE InitLink(x) \in Cells
  <2>1. Chunk \in Nat \ {0} /\ Chunk * NumCores <= Size
    BY SizeAssumption DEF Chunk
  <2>2. CASE x < FREE(0)
    BY <2>2, <1>1 DEF InitLink
  <2>3. CASE ~(x < FREE(0)) /\ x < GLOBAL
    <3>. DEFINE k == x - FREE(0)
    <3>1. k \in 0..NumCores - 1
      BY <2>3, SizeAssumption DEF FREE, GLOBAL, Cells, INDEX_SHIFT
    <3>2. \A a, b, n \in Nat : a >= 1 /\ b < n => a * b < a * n /\ a * b \in Nat
      OBVIOUS
    <3>3. Chunk * k < Chunk * NumCores /\ Chunk * k \in Nat
      BY <2>1, <3>1, <3>2, SizeAssumption
    <3>4. InitLink(x) = INDEX_SHIFT + Chunk * k
      BY <2>3 DEF InitLink
    <3>. HIDE DEF k
    <3>5. Chunk * NumCores \in Nat
      BY <2>1, SizeAssumption
    <3>. QED
      BY <2>1, <3>3, <3>4, <3>5, SizeAssumption DEF Cells, INDEX_SHIFT, GLOBAL
  <2>4. CASE x = GLOBAL
    BY <2>4, <1>1, SizeAssumption DEF InitLink, FREE, GLOBAL
  <2>5. CASE x > GLOBAL
    <3>. DEFINE i == x - INDEX_SHIFT
    <3>1. i \in 0..Size - 1
      BY <2>5, SizeAssumption DEF Cells, INDEX_SHIFT, GLOBAL
    <3>2. i \div Chunk \in 0..Size - 1
      BY <2>1, <3>1, SizeAssumption
    <3>3. InitLink(x) = IF i % Chunk = Chunk - 1 \/ i = Size - 1 THEN FREE(i \div Chunk) ELSE x + 1
      BY <2>5, SizeAssumption DEF InitLink, FREE, GLOBAL, Cells, INDEX_SHIFT
    <3>4. FREE(i \div Chunk) \in Cells
      BY <3>2, SizeAssumption DEF FREE, Cells, INDEX_SHIFT, GLOBAL
    <3>5. i # Size - 1 => x + 1 \in Cells
      BY <3>1, SizeAssumption DEF Cells, INDEX_SHIFT, GLOBAL
    <3>. QED
      BY <3>3, <3>4, <3>5
  <2>. QED
    BY <2>2, <2>3, <2>4, <2>5, SizeAssumption DEF Cells, GLOBAL, INDEX_SHIFT
<1>2. next \in Links(Cells) /\ prev \in Links(Cells)
  BY <1>1 DEF DchainInit, Links
<1>3. list_ind \in [Cells -> Cores \cup {-1}]
  BY SizeAssumption DEF DchainInit, Cells, Cores, FREE, GLOBAL, INDEX_SHIFT
<1>4. time \in [Cells -> 0..INT64_MAX]
  BY SizeAssumption DEF DchainInit, INT64_MAX
<1>5. /\ dchain_locks \in [Cores -> Cores \cup {NoCore}] /\ global_lock \in Cores \cup {NoCore}
      /\ op \in [Cores -> Ops] /\ cell \in [Cores -> Cells \cup {NoCell}] /\ iter \in [Cores -> Cores]
      /\ ret \in [Cores -> BOOLEAN] /\ now \in [Cores -> 0..MaxTime]
  BY CoresFacts, SizeAssumption DEF DchainInit, Ops
<1>6. \A c \in Cores : op[c] = "none" /\ iter[c] = 0
  BY DEF DchainInit
<1>. QED
  BY <1>2, <1>3, <1>4, <1>5, <1>6 DEF Locked, DTyping, HoldsLocks, Holding, Taking
-----------------------------------------------------------------------------
(* A step of a loop over the cores keeps the loop variable within the      *)
(* cores.                                                                  *)
LEMMA IterateFacts ==
  ASSUME Locked, NEW c \in Cores, NEW then \in Ops, Iterate(c, then)
  PROVE  /\ op' \in [Cores -> Ops] /\ iter' \in [Cores -> Cores]
         /\ \A d \in Cores \ {c} : op'[d] = op[d] /\ iter'[d] = iter[d]
         /\ \/ op'[c] = op[c] /\ iter'[c] = iter[c] + 1
            \/ op'[c] = then /\ iter'[c] = 0 /\ \A k \in Cores : k <= iter[c]
<1>1. iter[c] \in Cores /\ op \in [Cores -> Ops] /\ iter \in [Cores -> Cores]
  BY DEF Locked, DTyping
<1>2. CASE iter[c] + 1 < NumCores
  <2>1. iter' = [iter EXCEPT ![c] = iter[c] + 1] /\ op' = op
    BY <1>1, <1>2 DEF Iterate
  <2>. QED
    BY <2>1, <1>1, <1>2, CoresFacts
<1>3. CASE ~(iter[c] + 1 < NumCores)
  <2>1. iter' = [iter EXCEPT ![c] = 0] /\ op' = [op EXCEPT ![c] = then]
    BY <1>1, <1>3 DEF Iterate, Goto
  <2>. QED
    BY <2>1, <1>1, <1>3, CoresFacts
<1>. QED
  BY <1>2, <1>3

(* The call itself takes no lock. *)
LEMMA AllocateNewIndexLocked ==
  ASSUME Locked, NEW c \in Cores, AllocateNewIndex(c)
  PROVE  Locked' /\ OwnLocks(c)
<1>1. OwnLocks(c)
  BY DEF Locked, DTyping, HoldsLocks, OwnLocks, AllocateNewIndex, Goto, lists, locks
<1>2. DTyping'
  BY CoresFacts, CellFacts DEF Locked, DTyping, Links, Ops, Holding, Taking, AllocateNewIndex, Goto, lists, locks
<1>3. HoldsLocks(c)'
  BY CoresFacts DEF Locked, DTyping, HoldsLocks, AllocateNewIndex, Goto, lists, locks
<1>. QED
  BY <1>1, <1>2, <1>3, LockedStep

(* allocate_new_index takes the lock of the core ... *)
LEMMA AllocLockLocked ==
  ASSUME Locked, NEW c \in Cores, AllocLock(c)
  PROVE  Locked' /\ OwnLocks(c)
<1>1. OwnLocks(c)
  BY DEF Locked, DTyping, HoldsLocks, OwnLocks, AllocLock, Goto, Acquire, lists, locks
<1>2. DTyping'
  BY CoresFacts, CellFacts DEF Locked, DTyping, Links, Ops, Holding, Taking, AllocLock, Goto, Acquire, lists, locks
<1>3. HoldsLocks(c)'
  BY CoresFacts DEF Locked, DTyping, HoldsLocks, AllocLock, Goto, Acquire, lists, locks
<1>. QED
  BY <1>1, <1>2, <1>3, LockedStep

(* ... gives it up if the free list is empty ... *)
LEMMA AllocReadLocked ==
  ASSUME Locked, NEW c \in Cores, AllocRead(c)
  PROVE  Locked' /\ OwnLocks(c)
<1>1. OwnLocks(c)
  BY DEF Locked, DTyping, HoldsLocks, OwnLocks, AllocRead, Goto, Release, HasFreeIndexes, lists, locks
<1>2. DTyping'
  BY CoresFacts, CellFacts DEF Locked, DTyping, Links, Ops, Holding, Taking, AllocRead, Goto, Release, HasFreeIndexes, lists, locks
<1>3. HoldsLocks(c)'
  BY CoresFacts DEF Locked, DTyping, HoldsLocks, AllocRead, Goto, Release, HasFreeIndexes, lists, locks
<1>. QED
  BY <1>1, <1>2, <1>3, LockedStep

(* ... and otherwise when the cell is unhooked. *)
LEMMA AllocUnhookLocked ==
  ASSUME Locked, NEW c \in Cores, AllocUnhook(c)
  PROVE  Locked' /\ OwnLocks(c)
<1>1. OwnLocks(c)
  BY DEF Locked, DTyping, HoldsLocks, OwnLocks, AllocUnhook, Goto, PointTo, Release, lists, locks
<1>2. DTyping'
  BY CoresFacts, CellFacts DEF Locked, DTyping, Links, Ops, Holding, Taking, AllocUnhook, Goto, PointTo, Release, lists, locks
<1>3. HoldsLocks(c)'
  BY CoresFacts DEF Locked, DTyping, HoldsLocks, AllocUnhook, Goto, PointTo, Release, lists, locks
<1>. QED
  BY <1>1, <1>2, <1>3, LockedStep

(* The alloc list is linked without a lock. *)
LEMMA AllocLinkLocked ==
  ASSUME Locked, NEW c \in Cores, AllocLink(c)
  PROVE  Locked' /\ OwnLocks(c)
<1>1. OwnLocks(c)
  BY DEF Locked, DTyping, HoldsLocks, OwnLocks, AllocLink, Goto, lists, locks
<1>2. DTyping'
  <2>1. next' \in Links(Cells) /\ prev' \in Links(Cells)
    BY CoresFacts, CellFacts DEF Locked, DTyping, Links, Holding, Taking, AllocLink, Goto, lists
  <2>2. list_ind' \in [Cells -> Cores \cup {-1}]
    BY CoresFacts DEF Locked, DTyping, ALLOC, AllocLink, Goto, lists
  <2>3. time' \in [Cells -> 0..INT64_MAX]
    <3>1. now[c] \in 0..INT64_MAX /\ INT64_MAX \in 0..INT64_MAX
      BY SizeAssumption DEF Locked, DTyping, INT64_MAX
    <3>. QED
      BY <3>1 DEF Locked, DTyping, AllocLink
  <2>4. now' \in [Cores -> 0..MaxTime]
    BY SizeAssumption DEF Locked, DTyping, AllocLink, Goto
  <2>5. iter' \in [Cores -> Cores] /\ op' \in [Cores -> Ops]
    BY CoresFacts DEF Locked, DTyping, Ops, AllocLink, Goto
  <2>6. cell' \in [Cores -> Cells \cup {NoCell}] /\ \A d \in Cores : op'[d] \in Holding \cup Taking => cell'[d] \in Cells
    BY DEF Locked, DTyping, Holding, Taking, AllocLink, Goto
  <2>. QED
    BY <2>1, <2>2, <2>3, <2>4, <2>5, <2>6 DEF Locked, DTyping, AllocLink, Goto, locks
<1>3. HoldsLocks(c)'
  BY CoresFacts DEF Locked, DTyping, HoldsLocks, AllocLink, Goto, lists, locks
<1>. QED
  BY <1>1, <1>2, <1>3, LockedStep

(* The global list is read under the global lock. *)
LEMMA GlobalLockLocked ==
  ASSUME Locked, NEW c \in Cores, GlobalLock(c)
  PROVE  Locked' /\ OwnLocks(c)
<1>1. OwnLocks(c)
  BY DEF Locked, DTyping, HoldsLocks, OwnLocks, GlobalLock, Goto, FirstGlobal, lists, locks
<1>2. DTyping'
  BY CoresFacts, CellFacts DEF Locked, DTyping, Links, Ops, Holding, Taking, GlobalLock, Goto, FirstGlobal, lists, locks
<1>3. HoldsLocks(c)'
  BY CoresFacts DEF Locked, DTyping, HoldsLocks, GlobalLock, Goto, FirstGlobal, lists, locks
<1>. QED
  BY <1>1, <1>2, <1>3, LockedStep

(* The locks of the cores are taken one by one, in their order. *)
LEMMA GrabCoreLockLocked ==
  ASSUME Locked, NEW c \in Cores, GrabCoreLock(c)
  PROVE  Locked' /\ OwnLocks(c)
<1>0. Iterate(c, "fill") /\ "fill" \in Ops
  BY DEF GrabCoreLock, Ops
<1>. DEFINE NextIter == /\ op' \in [Cores -> Ops] /\ iter' \in [Cores -> Cores]
                        /\ \A d \in Cores \ {c} : op'[d] = op[d] /\ iter'[d] = iter[d]
                        /\ \/ op'[c] = op[c] /\ iter'[c] = iter[c] + 1
                           \/ op'[c] = "fill" /\ iter'[c] = 0 /\ \A k \in Cores : k <= iter[c]
<1>4. NextIter
  BY <1>0, IterateFacts
<1>5. op[c] \notin Holding \cup Taking /\ (op'[c] = op[c] \/ op'[c] = "fill") /\ iter[c] \in Cores
  BY <1>4 DEF GrabCoreLock, Holding, Taking, Locked, DTyping
<1>1. OwnLocks(c)
  BY <1>4, <1>5 DEF Locked, DTyping, HoldsLocks, OwnLocks, GrabCoreLock, Acquire
<1>2. DTyping'
  BY <1>4, <1>5, CoresFacts DEF Locked, DTyping, Holding, Taking, GrabCoreLock, Acquire, lists
<1>3. HoldsLocks(c)'
  <2>1. DTyping /\ HoldsLocks(c)
    BY DEF Locked
  <2>2. dchain_locks' = [dchain_locks EXCEPT ![iter[c]] = c] /\ global_lock' = global_lock /\ op[c] = "grab"
    BY DEF GrabCoreLock, Acquire
  <2>3. \A k \in Cores : k < iter[c] + 1 => k < iter[c] \/ k = iter[c]
    BY <1>5, SizeAssumption DEF Cores
  <2>. QED
    <3>1. \A k \in Cores : k < iter[c] \/ k = iter[c] => dchain_locks'[k] = c
      BY <1>5, <2>1, <2>2 DEF DTyping, HoldsLocks
    <3>2. global_lock' = c
      BY <2>1, <2>2 DEF HoldsLocks
    <3>3. CASE op'[c] = op[c] /\ iter'[c] = iter[c] + 1
      BY <3>1, <3>2, <3>3, <2>2, <2>3 DEF HoldsLocks
    <3>4. CASE op'[c] = "fill" /\ iter'[c] = 0 /\ \A k \in Cores : k <= iter[c]
      <4>1. \A k \in Cores : k < iter[c] \/ k = iter[c]
        BY <1>5, <3>4, SizeAssumption DEF Cores
      <4>. QED
        BY <4>1, <3>1, <3>2, <3>4 DEF HoldsLocks
    <3>. QED
      BY <1>4, <3>3, <3>4
<1>. QED
  BY <1>1, <1>2, <1>3, LockedStep

(* The refill goes on under all the locks ... *)
LEMMA FillReadLocked ==
  ASSUME Locked, NEW c \in Cores, FillRead(c)
  PROVE  Locked' /\ OwnLocks(c)
<1>0. op[c] = "fill" /\ iter[c] \in Cores /\ UNCHANGED <<lists, locks, ret, now>> /\ FREE(iter[c]) \in Cells
  BY CellFacts DEF FillRead, Locked, DTyping
<1>4. CASE next[FREE(iter[c])] = FREE(iter[c])
  <2>1. Iterate(c, "retry") /\ "retry" \in Ops /\ cell' = cell
    BY <1>4 DEF FillRead, Ops
  <2>2. /\ op' \in [Cores -> Ops] /\ iter' \in [Cores -> Cores]
        /\ \A d \in Cores \ {c} : op'[d] = op[d] /\ iter'[d] = iter[d]
        /\ op'[c] \in {"fill", "retry"} /\ (op'[c] = "retry" => iter'[c] = 0)
    BY <1>0, <2>1, IterateFacts
  <2>3. OwnLocks(c)
    BY <1>0, <2>1, <2>2 DEF OwnLocks, locks
  <2>4. DTyping'
    BY <1>0, <2>1, <2>2 DEF Locked, DTyping, Holding, Taking, lists, locks
  <2>5. HoldsLocks(c)'
    BY <1>0, <2>2 DEF Locked, HoldsLocks, locks
  <2>. QED
    BY <2>3, <2>4, <2>5, LockedStep
<1>5. CASE next[FREE(iter[c])] # FREE(iter[c])
  <2>1. op' = [op EXCEPT ![c] = "move"] /\ cell' = [cell EXCEPT ![c] = next[FREE(iter[c])]] /\ iter' = iter
    BY <1>5 DEF FillRead, Goto
  <2>2. next[FREE(iter[c])] \in Cells
    BY <1>0 DEF Locked, DTyping, Links
  <2>3. OwnLocks(c)
    BY <1>0, <2>1 DEF OwnLocks, locks, Locked, DTyping
  <2>4. DTyping'
    BY <1>0, <2>1, <2>2 DEF Locked, DTyping, Ops, Holding, Taking, lists, locks
  <2>5. HoldsLocks(c)'
    BY <1>0, <2>1 DEF Locked, DTyping, HoldsLocks, locks
  <2>. QED
    BY <2>3, <2>4, <2>5, LockedStep
<1>. QED
  BY <1>4, <1>5

(* ... when it moves a cell, too. *)
LEMMA FillMoveLocked ==
  ASSUME Locked, NEW c \in Cores, FillMove(c)
  PROVE  Locked' /\ OwnLocks(c)
<1>1. OwnLocks(c)
  BY DEF Locked, DTyping, HoldsLocks, OwnLocks, FillMove, Goto, lists, locks
<1>2. DTyping'
  <2>1. next' \in Links(Cells) /\ prev' \in Links(Cells)
    BY CoresFacts, CellFacts DEF Locked, DTyping, Links, Holding, Taking, FillMove, Goto, lists
  <2>2. list_ind' \in [Cells -> Cores \cup {-1}]
    BY CoresFacts DEF Locked, DTyping, ALLOC, FillMove, Goto, lists
  <2>3. time' \in [Cells -> 0..INT64_MAX]
    <3>1. now[c] \in 0..INT64_MAX /\ INT64_MAX \in 0..INT64_MAX
      BY SizeAssumption DEF Locked, DTyping, INT64_MAX
    <3>. QED
      BY <3>1 DEF Locked, DTyping, FillMove
  <2>4. now' \in [Cores -> 0..MaxTime]
    BY SizeAssumption DEF Locked, DTyping, FillMove, Goto
  <2>5. iter' \in [Cores -> Cores] /\ op' \in [Cores -> Ops]
    BY CoresFacts DEF Locked, DTyping, Ops, FillMove, Goto
  <2>6. cell' \in [Cores -> Cells \cup {NoCell}] /\ \A d \in Cores : op'[d] \in Holding \cup Taking => cell'[d] \in Cells
    BY DEF Locked, DTyping, Holding, Taking, FillMove, Goto
  <2>. QED
    BY <2>1, <2>2, <2>3, <2>4, <2>5, <2>6 DEF Locked, DTyping, FillMove, Goto, locks
<1>3. HoldsLocks(c)'
  BY CoresFacts DEF Locked, DTyping, HoldsLocks, FillMove, Goto, lists, locks
<1>. QED
  BY <1>1, <1>2, <1>3, LockedStep

(* The second look at the global list is under all the locks. *)
LEMMA GlobalRetryLocked ==
  ASSUME Locked, NEW c \in Cores, GlobalRetry(c)
  PROVE  Locked' /\ OwnLocks(c)
<1>1. OwnLocks(c)
  BY DEF Locked, DTyping, HoldsLocks, OwnLocks, GlobalRetry, Goto, FirstGlobal, lists, locks
<1>2. DTyping'
  BY CoresFacts, CellFacts DEF Locked, DTyping, Links, Ops, Holding, Taking, GlobalRetry, Goto, FirstGlobal, lists, locks
<1>3. HoldsLocks(c)'
  BY CoresFacts DEF Locked, DTyping, HoldsLocks, GlobalRetry, Goto, FirstGlobal, lists, locks
<1>. QED
  BY <1>1, <1>2, <1>3, LockedStep

(* The locks are given back in the same order. *)
LEMMA UngrabCoreLockLocked ==
  ASSUME Locked, NEW c \in Cores, UngrabCoreLock(c)
  PROVE  Locked' /\ OwnLocks(c)
<1>0. Iterate(c, "gpop") /\ "gpop" \in Ops
  BY DEF UngrabCoreLock, Ops
<1>. DEFINE NextIter == /\ op' \in [Cores -> Ops] /\ iter' \in [Cores -> Cores]
                        /\ \A d \in Cores \ {c} : op'[d] = op[d] /\ iter'[d] = iter[d]
                        /\ \/ op'[c] = op[c] /\ iter'[c] = iter[c] + 1
                           \/ op'[c] = "gpop" /\ iter'[c] = 0 /\ \A k \in Cores : k <= iter[c]
<1>4. NextIter
  BY <1>0, IterateFacts
<1>5. op[c] \notin Holding \cup Taking /\ (op'[c] = op[c] \/ op'[c] = "gpop") /\ iter[c] \in Cores
  BY <1>4 DEF UngrabCoreLock, Holding, Taking, Locked, DTyping
<1>1. OwnLocks(c)
  <2>1. dchain_locks[iter[c]] = c
    <3>1. iter[c] >= iter[c]
      BY <1>5, SizeAssumption DEF Cores
    <3>. QED
      BY <1>5, <3>1 DEF UngrabCoreLock, Locked, HoldsLocks
  <2>. QED
    BY <1>4, <1>5, <2>1 DEF Locked, DTyping, OwnLocks, UngrabCoreLock, Release
<1>2. DTyping'
  BY <1>4, <1>5, CoresFacts DEF Locked, DTyping, Holding, Taking, UngrabCoreLock, Release, lists
<1>3. HoldsLocks(c)'
  <2>1. DTyping /\ HoldsLocks(c)
    BY DEF Locked
  <2>2. dchain_locks' = [dchain_locks EXCEPT ![iter[c]] = NoCore] /\ global_lock' = global_lock /\ op[c] = "ungrab"
    BY DEF UngrabCoreLock, Release
  <2>3. \A k \in Cores : k >= iter[c] + 1 => k >= iter[c] /\ k # iter[c]
    BY <1>5, SizeAssumption DEF Cores
  <2>. QED
    BY <1>4, <1>5, <2>1, <2>2, <2>3, CoresFacts DEF DTyping, HoldsLocks
<1>. QED
  BY <1>1, <1>2, <1>3, LockedStep

(* The global lock is given up last. *)
LEMMA GlobalPopLocked ==
  ASSUME Locked, NEW c \in Cores, GlobalPop(c)
  PROVE  Locked' /\ OwnLocks(c)
<1>1. OwnLocks(c)
  BY DEF Locked, DTyping, HoldsLocks, OwnLocks, GlobalPop, Goto, PointTo, lists, locks
<1>2. DTyping'
  BY CoresFacts, CellFacts DEF Locked, DTyping, Links, Ops, Holding, Taking, GlobalPop, Goto, PointTo, lists, locks
<1>3. HoldsLocks(c)'
  BY CoresFacts DEF Locked, DTyping, HoldsLocks, GlobalPop, Goto, PointTo, lists, locks
<1>. QED
  BY <1>1, <1>2, <1>3, LockedStep

(* free_index takes the lock of the core ... *)
LEMMA FreeLockLocked ==
  ASSUME Locked, NEW c \in Cores, FreeLock(c)
  PROVE  Locked' /\ OwnLocks(c)
<1>1. OwnLocks(c)
  BY DEF Locked, DTyping, HoldsLocks, OwnLocks, FreeLock, Goto, Acquire, lists, locks
<1>2. DTyping'
  BY CoresFacts, CellFacts DEF Locked, DTyping, Links, Ops, Holding, Taking, FreeLock, Goto, Acquire, lists, locks
<1>3. HoldsLocks(c)'
  BY CoresFacts DEF Locked, DTyping, HoldsLocks, FreeLock, Goto, Acquire, lists, locks
<1>. QED
  BY <1>1, <1>2, <1>3, LockedStep

(* ... keeps it while it links the cell ... *)
LEMMA FreeHookLocked ==
  ASSUME Locked, NEW c \in Cores, FreeHook(c)
  PROVE  Locked' /\ OwnLocks(c)
<1>1. OwnLocks(c)
  BY DEF Locked, DTyping, HoldsLocks, OwnLocks, FreeHook, Goto, PointTo, lists, locks
<1>2. DTyping'
  BY CoresFacts, CellFacts DEF Locked, DTyping, Links, Ops, Holding, Taking, FreeHook, Goto, PointTo, lists, locks
<1>3. HoldsLocks(c)'
  BY CoresFacts DEF Locked, DTyping, HoldsLocks, FreeHook, Goto, PointTo, lists, locks
<1>. QED
  BY <1>1, <1>2, <1>3, LockedStep

(* ... and gives it up when the head points to the cell. *)
LEMMA FreePushLocked ==
  ASSUME Locked, NEW c \in Cores, FreePush(c)
  PROVE  Locked' /\ OwnLocks(c)
<1>1. OwnLocks(c)
  BY DEF Locked, DTyping, HoldsLocks, OwnLocks, FreePush, Goto, PointTo, Release, lists, locks
<1>2. DTyping'
  BY CoresFacts, CellFacts DEF Locked, DTyping, Links, Ops, Holding, Taking, FreePush, Goto, PointTo, Release, lists, locks
<1>3. HoldsLocks(c)'
  BY CoresFacts DEF Locked, DTyping, HoldsLocks, FreePush, Goto, PointTo, Release, lists, locks
<1>. QED
  BY <1>1, <1>2, <1>3, LockedStep

(* The clock needs no lock. *)
LEMMA TickLocked ==
  ASSUME Locked, NEW c \in Cores, Tick(c)
  PROVE  Locked' /\ OwnLocks(c)
<1>1. OwnLocks(c)
  BY DEF Locked, DTyping, HoldsLocks, OwnLocks, Tick, Goto, lists, locks
<1>2. DTyping'
  <2>1. next' \in Links(Cells) /\ prev' \in Links(Cells)
    BY CoresFacts, CellFacts DEF Locked, DTyping, Links, Holding, Taking, Tick, Goto, lists
  <2>2. list_ind' \in [Cells -> Cores \cup {-1}]
    BY CoresFacts DEF Locked, DTyping, ALLOC, Tick, Goto, lists
  <2>3. time' \in [Cells -> 0..INT64_MAX]
    BY CoresFacts, SizeAssumption DEF Locked, DTyping, INT64_MAX, Tick, Goto, lists
  <2>4. now' \in [Cores -> 0..MaxTime]
    BY SizeAssumption DEF Locked, DTyping, Tick, Goto
  <2>5. iter' \in [Cores -> Cores] /\ op' \in [Cores -> Ops]
    BY CoresFacts DEF Locked, DTyping, Ops, Tick, Goto
  <2>6. cell' \in [Cores -> Cells \cup {NoCell}] /\ \A d \in Cores : op'[d] \in Holding \cup Taking => cell'[d] \in Cells
    BY DEF Locked, DTyping, Holding, Taking, Tick, Goto
  <2>. QED
    BY <2>1, <2>2, <2>3, <2>4, <2>5, <2>6 DEF Locked, DTyping, Tick, Goto, locks
<1>3. HoldsLocks(c)'
  BY CoresFacts DEF Locked, DTyping, HoldsLocks, Tick, Goto, lists, locks
<1>. QED
  BY <1>1, <1>2, <1>3, LockedStep

(* Unlinking from the alloc list takes no lock. *)
LEMMA FreeIndexLocked ==
  ASSUME Locked, NEW c \in Cores, NEW i \in Int, i + INDEX_SHIFT \in Cells, FreeIndex(c, i)
  PROVE  Locked' /\ OwnLocks(c)
<1>. DEFINE x == i + INDEX_SHIFT
<1>1. OwnLocks(c)
  BY DEF Locked, DTyping, OwnLocks, FreeIndex, Goto, locks
<1>2. DTyping'
  <2>1. next' \in Links(Cells) /\ prev' \in Links(Cells)
    BY DEF Locked, DTyping, Links, FreeIndex, Unlink
  <2>. QED
    BY <2>1 DEF Locked, DTyping, Ops, Holding, Taking, FreeIndex, Goto, locks
<1>3. HoldsLocks(c)'
  BY DEF Locked, DTyping, HoldsLocks, FreeIndex, Goto, locks
<1>. QED
  BY <1>1, <1>2, <1>3, LockedStep

(* Nor does moving a cell within the alloc list. *)
LEMMA RejuvenateIndexLocked ==
  ASSUME Locked, NEW c \in Cores, NEW i \in Indexes, RejuvenateIndex(c, i)
  PROVE  Locked' /\ OwnLocks(c)
<1>1. OwnLocks(c)
  BY DEF OwnLocks, RejuvenateIndex, locks
<1>2. next' \in Links(Cells) /\ prev' \in Links(Cells) /\ time' \in [Cells -> 0..INT64_MAX] /\ UNCHANGED list_ind
  <2>1. i + INDEX_SHIFT \in Cells /\ ALLOC(c) \in Cells
    BY CellFacts, HeadsApart
  <2>2. now[c] \in 0..INT64_MAX
    BY SizeAssumption DEF Locked, DTyping, INT64_MAX
  <2>3. next \in [Cells -> Cells] /\ prev \in [Cells -> Cells] /\ time \in [Cells -> 0..INT64_MAX]
    BY DEF Locked, DTyping, Links
  <2>4. next[i + INDEX_SHIFT] \in Cells /\ prev[i + INDEX_SHIFT] \in Cells /\ prev[ALLOC(c)] \in Cells
    BY <2>1, <2>3
  <2>. QED
    BY <2>1, <2>2, <2>3, <2>4 DEF Links, RejuvenateIndex, Rejuvenate, lists
<1>3. DTyping'
  BY <1>2 DEF Locked, DTyping, RejuvenateIndex, locks
<1>4. HoldsLocks(c)'
  BY DEF Locked, HoldsLocks, RejuvenateIndex, locks
<1>. QED
  BY <1>1, <1>3, <1>4, LockedStep

(* Locked is inductive. *)
LEMMA LockedNext ==
  ASSUME Locked, [DchainNext]_dchainVars
  PROVE  Locked'
<1>1. CASE UNCHANGED dchainVars
  BY <1>1 DEF dchainVars, lists, locks, Locked, DTyping, HoldsLocks
<1>2. ASSUME NEW c \in Cores,
             \/ AllocateNewIndex(c) \/ AllocateStep(c) \/ FreeStep(c) \/ Tick(c)
      PROVE  Locked'
  BY <1>2, AllocateNewIndexLocked, AllocLockLocked, AllocReadLocked, AllocUnhookLocked, AllocLinkLocked,
     GlobalLockLocked, GrabCoreLockLocked, FillReadLocked, FillMoveLocked, GlobalRetryLocked,
     UngrabCoreLockLocked, GlobalPopLocked, FreeLockLocked, FreeHookLocked, FreePushLocked, TickLocked
     DEF AllocateStep, FreeStep
<1>3. ASSUME NEW c \in Cores, NEW i \in Indexes, FreeIndex(c, i) PROVE Locked'
  <2>1. i \in Int /\ i + INDEX_SHIFT \in Cells
    BY CellFacts, HeadsApart, SizeAssumption DEF Indexes
  <2>. QED
    BY <1>3, <2>1, FreeIndexLocked
<1>4. ASSUME NEW c \in Cores, NEW i \in Indexes, RejuvenateIndex(c, i) PROVE Locked'
  BY <1>4, RejuvenateIndexLocked
<1>5. ASSUME NEW c \in Cores, NEW bound \in 0..now[c], ExpireOneIndex(c, bound) PROVE Locked'
  <2>1. next[ALLOC(c)] \in Cells
    BY CellFacts DEF Locked, DTyping, Links
  <2>2. Oldest(c) \in Int /\ Oldest(c) + INDEX_SHIFT \in Cells
    BY <2>1, SizeAssumption DEF Oldest, Cells, INDEX_SHIFT, GLOBAL
  <2>. QED
    BY <1>5, <2>2, FreeIndexLocked DEF ExpireOneIndex
<1>. QED
  BY <1>1, <1>2, <1>3, <1>4, <1>5 DEF DchainNext

(* Every core holds the locks that its step relies on, and the loops of    *)
(* allocate_new_index_global over the locks end with all of them held or   *)
(* all given back.                                                         *)
THEOREM LockDiscipline == DchainSpec => []Locked
  BY LockedInit, LockedNext, PTL DEF DchainSpec
-----------------------------------------------------------------------------
(* Where a cell that is on no list may be. *)
Hand(c) == GLOBAL + 1 + c
Nowhere == -1

(* What core c knows of the cell it works on. *)
HasCell(c, on) ==
  /\ op[c] \in Holding => cell[c] \in IndexCells /\ on[cell[c]] = Hand(c)
  /\ \A x \in IndexCells : on[x] = Hand(c) => op[c] \in Holding /\ cell[c] = x
  /\ op[c] = "unhook" => next[FREE(c)] # FREE(c) /\ cell[c] = next[FREE(c)]
  /\ op[c] = "move" => next[FREE(iter[c])] # FREE(iter[c]) /\ cell[c] = next[FREE(iter[c])]
  /\ op[c] \in {"ungrab", "gpop"} => cell[c] = FirstGlobal
  /\ op[c] = "hook" => next[cell[c]] = next[FREE(c)]

(* list_ind names the core that has the cell allocated. *)
Marked(x, on) ==
  \A c \in Cores :
    list_ind[x] = c <=> on[x] = ALLOC(c) \/ (on[x] = Hand(c) /\ op[c] \in {"flock", "push"})

ByAge(c, on, rank) ==
  \A x, y \in Members(IndexCells, ALLOC(c), on) :
    time[x] <= now[c] /\ (rank[x] < rank[y] => time[x] <= time[y])

(* With as many indexes for every core, none is left out. *)
Complete(on) == Size % NumCores = 0 => \A x \in IndexCells : on[x] # Nowhere

InPlaces(on, rank) ==
  /\ on \in Labels(IndexCells) /\ rank \in Labels(IndexCells)
  /\ \A x \in IndexCells : on[x] \in {Nowhere} \cup Heads \cup {Hand(c) : c \in Cores}
  /\ Complete(on)
  /\ \A h \in Heads : List(IndexCells, h, next, on, rank)
  /\ \A c \in Cores : Doubly(IndexCells, ALLOC(c), next, prev, on) /\ ByAge(c, on, rank) /\ HasCell(c, on)
  /\ \A x \in IndexCells : Marked(x, on)

(* The inductive invariant. *)
DIInv == \E on, rank : InPlaces(on, rank)

(* A step of core c works on the lists in T, which are its own or locked,  *)
(* and on the cell in its hand.                                            *)
Works(c, T, on, rank, on2, rank2) ==
  /\ T \subseteq Heads
  /\ \A h \in T : \/ h = ALLOC(c)
                  \/ h = GLOBAL /\ global_lock = c
                  \/ \E k \in Cores : h = FREE(k) /\ dchain_locks[k] = c
  /\ \A h \in Heads \ T : next'[h] = next[h] /\ prev'[h] = prev[h]
  /\ \A x \in IndexCells :
       IF on[x] \in T \cup {Hand(c)} THEN on2[x] \in T \cup {Hand(c)}
       ELSE /\ next'[x] = next[x] /\ prev'[x] = prev[x]
            /\ list_ind'[x] = list_ind[x] /\ time'[x] = time[x]
            /\ on2[x] = on[x] /\ rank2[x] = rank[x]

(* All the places where a cell can be are different. *)
LEMMA PlaceFacts ==
  /\ \A c \in Cores : Hand(c) \notin Heads /\ Hand(c) # Nowhere
  /\ \A c, d \in Cores : Hand(c) = Hand(d) => c = d
  /\ \A c, d \in Cores : ALLOC(c) = ALLOC(d) => c = d
  /\ \A c, d \in Cores : FREE(c) = FREE(d) => c = d
  /\ \A c, d \in Cores : ALLOC(c) # FREE(d)
  /\ \A c \in Cores : GLOBAL # FREE(c) /\ GLOBAL # ALLOC(c)
  /\ Nowhere \notin Heads
  BY SizeAssumption DEF ALLOC, FREE, GLOBAL, Heads, Hand, Nowhere, Cores

(* The lists that a step does not work on stay as they are. *)
LEMMA OtherLists ==
  ASSUME Locked, Locked', NEW on, NEW rank, InPlaces(on, rank), NEW on2 \in Labels(IndexCells), NEW rank2 \in Labels(IndexCells),
         NEW c \in Cores, NEW T, Works(c, T, on, rank, on2, rank2),
         NEW h \in Heads \ T
  PROVE  /\ Members(IndexCells, h, on2) = Members(IndexCells, h, on)
         /\ \A x \in Members(IndexCells, h, on) : /\ next'[x] = next[x] /\ prev'[x] = prev[x]
                                      /\ time'[x] = time[x] /\ rank2[x] = rank[x]
         /\ List(IndexCells, h, next', on2, rank2)
<1>1. h # Hand(c)
  BY PlaceFacts
<1>2. Members(IndexCells, h, on2) = Members(IndexCells, h, on)
  BY <1>1 DEF Works, Members
<1>3. \A x \in Members(IndexCells, h, on) : /\ next'[x] = next[x] /\ prev'[x] = prev[x]
                               /\ time'[x] = time[x] /\ rank2[x] = rank[x]
  BY <1>1 DEF Works, Members
<1>4. next'[h] = next[h]
  BY DEF Works
<1>5. List(IndexCells, h, next, on, rank) /\ on \in Labels(IndexCells) /\ rank \in Labels(IndexCells) /\ next \in Links(Cells) /\ next' \in Links(Cells)
  BY DEF InPlaces, Locked, DTyping
<1>6. List(IndexCells, h, next', on2, rank2)
  BY <1>2, <1>3, <1>4, <1>5, HeadsApart, ListFrame
<1>. QED
  BY <1>2, <1>3, <1>6

(* The alloc lists of the other cores stay linked and ordered. *)
LEMMA OtherAllocLists ==
  ASSUME Locked, Locked', NEW on, NEW rank, InPlaces(on, rank), NEW on2 \in Labels(IndexCells), NEW rank2 \in Labels(IndexCells),
         NEW c \in Cores, NEW T, Works(c, T, on, rank, on2, rank2), UNCHANGED now,
         NEW d \in Cores, ALLOC(d) \notin T
  PROVE  Doubly(IndexCells, ALLOC(d), next', prev', on2) /\ ByAge(d, on2, rank2)'
<1>. DEFINE h == ALLOC(d)
<1>1. h \in Heads \ T
  BY CellFacts
<1>. HIDE DEF h
<1>2. Members(IndexCells, h, on2) = Members(IndexCells, h, on)
  BY <1>1, OtherLists
<1>3. \A x \in Members(IndexCells, h, on) : next'[x] = next[x] /\ prev'[x] = prev[x] /\ time'[x] = time[x] /\ rank2[x] = rank[x]
  BY <1>1, OtherLists
<1>4. next'[h] = next[h] /\ prev'[h] = prev[h]
  BY <1>1 DEF Works
<1>5. /\ List(IndexCells, h, next, on, rank) /\ Doubly(IndexCells, h, next, prev, on) /\ on \in Labels(IndexCells) /\ rank \in Labels(IndexCells)
      /\ next \in Links(Cells) /\ next' \in Links(Cells) /\ prev \in Links(Cells) /\ prev' \in Links(Cells)
  BY <1>1 DEF InPlaces, Locked, DTyping, h
<1>6. Doubly(IndexCells, h, next', prev', on2)
  BY <1>1, <1>2, <1>3, <1>4, <1>5, HeadsApart, DoublyFrame
<1>7. ByAge(d, on, rank)
  BY DEF InPlaces
<1>8. ByAge(d, on2, rank2)'
  BY <1>2, <1>3, <1>7 DEF ByAge, h
<1>. QED
  BY <1>6, <1>8 DEF h

(* The other cores keep what they know, by the locks they hold. *)
LEMMA OtherCells ==
  ASSUME Locked, NEW on, NEW rank, InPlaces(on, rank), NEW on2 \in Labels(IndexCells), NEW rank2 \in Labels(IndexCells),
         NEW c \in Cores, NEW T, Works(c, T, on, rank, on2, rank2), OwnLocks(c),
         NEW d \in Cores \ {c}
  PROVE  HasCell(d, on2)'
<1>1. op'[d] = op[d] /\ cell'[d] = cell[d] /\ iter'[d] = iter[d] /\ iter[d] \in Cores
  BY DEF OwnLocks, Locked, DTyping
<1>2. \A x \in IndexCells : on2[x] = Hand(d) <=> on[x] = Hand(d)
  BY PlaceFacts DEF Works
<1>3. \A x \in IndexCells : on[x] = Hand(d) => next'[x] = next[x]
  BY PlaceFacts DEF Works
<1>4. \A k \in Cores : dchain_locks[k] = d => next'[FREE(k)] = next[FREE(k)]
  BY PlaceFacts, CellFacts DEF Works
<1>5. global_lock = d => next'[GLOBAL] = next[GLOBAL]
  BY PlaceFacts, CellFacts DEF Works
<1>6. HasCell(d, on) /\ HoldsLocks(d)
  BY DEF InPlaces, Locked
<1>7. op[d] \in Holding => cell[d] \in IndexCells /\ on2[cell[d]] = Hand(d)
  BY <1>2, <1>6 DEF HasCell
<1>8. \A x \in IndexCells : on2[x] = Hand(d) => op[d] \in Holding /\ cell[d] = x
  BY <1>2, <1>6 DEF HasCell
<1>9. op[d] = "unhook" => next'[FREE(d)] # FREE(d) /\ cell[d] = next'[FREE(d)]
  BY <1>4, <1>6 DEF HasCell, HoldsLocks
<1>10. op[d] = "move" => next'[FREE(iter[d])] # FREE(iter[d]) /\ cell[d] = next'[FREE(iter[d])]
  BY <1>1, <1>4, <1>6 DEF HasCell, HoldsLocks
<1>11. op[d] \in {"ungrab", "gpop"} => cell[d] = FirstGlobal'
  BY <1>5, <1>6 DEF HasCell, HoldsLocks, FirstGlobal
<1>12. op[d] = "hook" => next'[cell[d]] = next'[FREE(d)]
  BY <1>3, <1>4, <1>6 DEF HasCell, HoldsLocks, Holding
<1>. QED
  BY <1>1, <1>7, <1>8, <1>9, <1>10, <1>11, <1>12 DEF HasCell

(* list_ind of a cell that the step does not work on stays right. *)
LEMMA OtherMarks ==
  ASSUME Locked, NEW on, NEW rank, InPlaces(on, rank), NEW on2 \in Labels(IndexCells), NEW rank2 \in Labels(IndexCells),
         NEW c \in Cores, NEW T, Works(c, T, on, rank, on2, rank2), OwnLocks(c),
         NEW x \in IndexCells, on[x] \notin T \cup {Hand(c)}
  PROVE  Marked(x, on2)'
<1>1. on2[x] = on[x] /\ list_ind'[x] = list_ind[x] /\ Marked(x, on)
  BY DEF Works, InPlaces
<1>2. \A d \in Cores : on[x] = Hand(d) => op'[d] = op[d]
  BY DEF OwnLocks
<1>. QED
  BY <1>1, <1>2 DEF Marked

(* So it is enough to look at the lists that the step works on. *)
LEMMA WorksInv ==
  ASSUME Locked, Locked', NEW on, NEW rank, InPlaces(on, rank), NEW on2 \in Labels(IndexCells), NEW rank2 \in Labels(IndexCells),
         NEW c \in Cores, NEW T, Works(c, T, on, rank, on2, rank2), OwnLocks(c), UNCHANGED now,
         \A h \in T : List(IndexCells, h, next', on2, rank2),
         ALLOC(c) \in T => Doubly(IndexCells, ALLOC(c), next', prev', on2) /\ ByAge(c, on2, rank2)',
         HasCell(c, on2)',
         \A x \in IndexCells : on[x] \in T \cup {Hand(c)} => Marked(x, on2)'
  PROVE  InPlaces(on2, rank2)'
<1>1. \A x \in IndexCells : on2[x] \in {Nowhere} \cup Heads \cup {Hand(d) : d \in Cores}
  BY DEF Works, InPlaces
<1>2. Complete(on2)'
  <2>1. \A x \in IndexCells : on[x] # Nowhere => on2[x] # Nowhere
    BY PlaceFacts DEF Works
  <2>. QED
    BY <2>1 DEF Complete, InPlaces
<1>3. \A h \in Heads : List(IndexCells, h, next', on2, rank2)
  BY OtherLists
<1>4. ASSUME NEW d \in Cores PROVE Doubly(IndexCells, ALLOC(d), next', prev', on2) /\ ByAge(d, on2, rank2)'
  <2>1. CASE ALLOC(d) \notin T
    BY <2>1, OtherAllocLists
  <2>2. CASE ALLOC(d) \in T
    <3>1. d = c
      BY <2>2, PlaceFacts DEF Works
    <3>. QED
      BY <3>1, <2>2
  <2>. QED
    BY <2>1, <2>2
<1>5. \A d \in Cores : HasCell(d, on2)'
  BY OtherCells
<1>6. \A x \in IndexCells : Marked(x, on2)'
  BY OtherMarks
<1>7. (\A d \in Cores : Doubly(IndexCells, ALLOC(d), next, prev, on2))'
  BY <1>4
<1>8. (\A d \in Cores : ByAge(d, on2, rank2))'
  BY <1>4
<1>. QED
  BY <1>1, <1>2, <1>3, <1>5, <1>6, <1>7, <1>8 DEF InPlaces
-----------------------------------------------------------------------------
(* Steps that change no list. *)
LEMMA NoListWorks ==
  ASSUME Locked, Locked', NEW on, NEW rank, InPlaces(on, rank), NEW c \in Cores, OwnLocks(c),
         UNCHANGED <<lists, now>>, HasCell(c, on)',
         op[c] \in {"flock", "push"} <=> op'[c] \in {"flock", "push"}
  PROVE  InPlaces(on, rank)'
<1>1. Works(c, {}, on, rank, on, rank)
  BY DEF Works, lists
<1>2. on \in Labels(IndexCells) /\ rank \in Labels(IndexCells)
  BY DEF InPlaces
<1>3. ASSUME NEW x \in IndexCells, on[x] \in {} \cup {Hand(c)} PROVE Marked(x, on)'
  <2>1. Marked(x, on) /\ list_ind' = list_ind
    BY DEF InPlaces, lists
  <2>2. \A d \in Cores : on[x] = Hand(d) => d = c
    BY <1>3, PlaceFacts
  <2>. QED
    BY <2>1, <2>2 DEF Marked
<1>4. ALLOC(c) \notin {}
  OBVIOUS
<1>. QED
  BY <1>1, <1>2, <1>3, <1>4, WorksInv

(* The call of allocate_new_index: the labelling stays as it is. *)
LEMMA AllocateNewIndexInv ==
  ASSUME Locked, NEW on, NEW rank, InPlaces(on, rank), NEW c \in Cores, AllocateNewIndex(c)
  PROVE  InPlaces(on, rank)'
<1>1. HasCell(c, on)'
  BY DEF AllocateNewIndex, Goto, InPlaces, HasCell, Holding, Locked, DTyping, lists
<1>2. op'[c] = "lock" /\ op[c] = "none"
  BY DEF AllocateNewIndex, Goto, Locked, DTyping
<1>. QED
  BY <1>1, <1>2, AllocateNewIndexLocked, NoListWorks DEF AllocateNewIndex

(* Taking the lock of the core: the labelling stays as it is. *)
LEMMA AllocLockInv ==
  ASSUME Locked, NEW on, NEW rank, InPlaces(on, rank), NEW c \in Cores, AllocLock(c)
  PROVE  InPlaces(on, rank)'
<1>1. HasCell(c, on)'
  BY DEF AllocLock, Goto, InPlaces, HasCell, Holding, Locked, DTyping, lists
<1>2. op'[c] = "pop" /\ op[c] = "lock"
  BY DEF AllocLock, Goto, Locked, DTyping
<1>. QED
  BY <1>1, <1>2, AllocLockLocked, NoListWorks DEF AllocLock

(* A nonempty free list that a core reads under its lock gives it the      *)
(* first cell, which stays there until the core unhooks it.                *)
LEMMA AllocReadInv ==
  ASSUME Locked, NEW on, NEW rank, InPlaces(on, rank), NEW c \in Cores, AllocRead(c)
  PROVE  InPlaces(on, rank)'
<1>1. HasCell(c, on)'
  BY DEF AllocRead, Goto, HasFreeIndexes, InPlaces, HasCell, Holding, Locked, DTyping, lists
<1>2. op'[c] \in {"unhook", "glock"} /\ op[c] = "pop"
  BY DEF AllocRead, Goto, Locked, DTyping
<1>. QED
  BY <1>1, <1>2, AllocReadLocked, NoListWorks DEF AllocRead

(* The first cell of the global list stays there while the global lock is  *)
(* held.                                                                   *)
LEMMA GlobalLockInv ==
  ASSUME Locked, NEW on, NEW rank, InPlaces(on, rank), NEW c \in Cores, GlobalLock(c)
  PROVE  InPlaces(on, rank)'
<1>1. FirstGlobal' = FirstGlobal
  BY DEF GlobalLock, FirstGlobal, lists
<1>2. HasCell(c, on)'
  BY <1>1 DEF GlobalLock, Goto, InPlaces, HasCell, Holding, Locked, DTyping, lists
<1>3. op'[c] \in {"grab", "gpop"} /\ op[c] = "glock"
  BY DEF GlobalLock, Goto, Locked, DTyping
<1>. QED
  BY <1>2, <1>3, GlobalLockLocked, NoListWorks DEF GlobalLock

(* Taking all the locks: the labelling stays as it is. *)
LEMMA GrabCoreLockInv ==
  ASSUME Locked, NEW on, NEW rank, InPlaces(on, rank), NEW c \in Cores, GrabCoreLock(c)
  PROVE  InPlaces(on, rank)'
<1>1. Iterate(c, "fill") /\ "fill" \in Ops
  BY DEF GrabCoreLock, Ops
<1>2. op'[c] \in {"grab", "fill"} /\ op[c] = "grab"
  BY <1>1, IterateFacts DEF GrabCoreLock
<1>3. HasCell(c, on)'
  BY <1>2 DEF GrabCoreLock, InPlaces, HasCell, Holding
<1>. QED
  BY <1>2, <1>3, GrabCoreLockLocked, NoListWorks DEF GrabCoreLock

(* The cell that the refill has read is the first of a locked list. *)
LEMMA FillReadInv ==
  ASSUME Locked, NEW on, NEW rank, InPlaces(on, rank), NEW c \in Cores, FillRead(c)
  PROVE  InPlaces(on, rank)'
<1>1. op[c] = "fill" /\ iter[c] \in Cores /\ next' = next /\ HasCell(c, on)
  BY DEF FillRead, Locked, DTyping, lists, InPlaces
<1>2. CASE next[FREE(iter[c])] = FREE(iter[c])
  <2>1. Iterate(c, "retry") /\ "retry" \in Ops
    BY <1>2 DEF FillRead, Ops
  <2>2. op'[c] \in {"fill", "retry"}
    BY <1>1, <2>1, IterateFacts
  <2>3. HasCell(c, on)'
    BY <1>1, <2>2 DEF HasCell, Holding
  <2>. QED
    BY <1>1, <2>2, <2>3, FillReadLocked, NoListWorks DEF FillRead
<1>3. CASE next[FREE(iter[c])] # FREE(iter[c])
  <2>1. op'[c] = "move" /\ cell'[c] = next[FREE(iter[c])] /\ iter' = iter
    BY <1>3 DEF FillRead, Goto, Locked, DTyping
  <2>2. HasCell(c, on)'
    BY <1>1, <1>3, <2>1 DEF HasCell, Holding
  <2>. QED
    BY <1>1, <2>1, <2>2, FillReadLocked, NoListWorks DEF FillRead
<1>. QED
  BY <1>2, <1>3

(* The second look at the global list: the labelling stays as it is. *)
LEMMA GlobalRetryInv ==
  ASSUME Locked, NEW on, NEW rank, InPlaces(on, rank), NEW c \in Cores, GlobalRetry(c)
  PROVE  InPlaces(on, rank)'
<1>1. FirstGlobal' = FirstGlobal
  BY DEF GlobalRetry, FirstGlobal, lists
<1>2. HasCell(c, on)'
  BY <1>1 DEF GlobalRetry, Goto, InPlaces, HasCell, Holding, Locked, DTyping
<1>3. op'[c] = "ungrab" /\ op[c] = "retry"
  BY DEF GlobalRetry, Goto, Locked, DTyping
<1>. QED
  BY <1>2, <1>3, GlobalRetryLocked, NoListWorks DEF GlobalRetry

(* Giving the locks back: the labelling stays as it is. *)
LEMMA UngrabCoreLockInv ==
  ASSUME Locked, NEW on, NEW rank, InPlaces(on, rank), NEW c \in Cores, UngrabCoreLock(c)
  PROVE  InPlaces(on, rank)'
<1>1. Iterate(c, "gpop") /\ "gpop" \in Ops
  BY DEF UngrabCoreLock, Ops
<1>2. op'[c] \in {"ungrab", "gpop"} /\ op[c] = "ungrab"
  BY <1>1, IterateFacts DEF UngrabCoreLock
<1>3. FirstGlobal' = FirstGlobal /\ cell' = cell
  BY DEF UngrabCoreLock, FirstGlobal, lists
<1>4. HasCell(c, on)'
  BY <1>2, <1>3 DEF InPlaces, HasCell, Holding
<1>. QED
  BY <1>2, <1>4, UngrabCoreLockLocked, NoListWorks DEF UngrabCoreLock

(* Waiting for the lock with a cell in the hand: the labelling stays as it *)
(* is.                                                                     *)
LEMMA FreeLockInv ==
  ASSUME Locked, NEW on, NEW rank, InPlaces(on, rank), NEW c \in Cores, FreeLock(c)
  PROVE  InPlaces(on, rank)'
<1>1. HasCell(c, on)'
  BY DEF FreeLock, Goto, InPlaces, HasCell, Holding, Locked, DTyping, lists
<1>2. op'[c] = "push" /\ op[c] = "flock"
  BY DEF FreeLock, Goto, Locked, DTyping
<1>. QED
  BY <1>1, <1>2, FreeLockLocked, NoListWorks DEF FreeLock

(* Time goes on, and no cell gets younger than the clock. *)
LEMMA TickInv ==
  ASSUME Locked, NEW on, NEW rank, InPlaces(on, rank), NEW c \in Cores, Tick(c)
  PROVE  InPlaces(on, rank)'
<1>1. next' = next /\ prev' = prev /\ list_ind' = list_ind /\ time' = time
  BY DEF Tick, lists
<1>2. op' = op /\ cell' = cell /\ iter' = iter
  BY DEF Tick
<1>3. \A d \in Cores : now[d] \in Nat /\ now'[d] \in Nat /\ now[d] <= now'[d]
  BY DEF Tick, Locked, DTyping
<1>4. \A x \in IndexCells : time[x] \in Int
  BY HeadsApart DEF Locked, DTyping
<1>5. ASSUME NEW d \in Cores PROVE ByAge(d, on, rank)'
  <2>1. ByAge(d, on, rank)
    BY DEF InPlaces
  <2>2. \A x \in Members(IndexCells, ALLOC(d), on) : time[x] <= now'[d]
    BY <1>3, <1>4, <2>1 DEF ByAge, Members
  <2>. QED
    BY <1>1, <2>1, <2>2 DEF ByAge
<1>6. \A d \in Cores : HasCell(d, on)'
  BY <1>1, <1>2 DEF InPlaces, HasCell, FirstGlobal
<1>7. \A x \in IndexCells : Marked(x, on)'
  BY <1>1, <1>2 DEF InPlaces, Marked
<1>8. (\A d \in Cores : ByAge(d, on, rank))'
  BY <1>5
<1>9. Complete(on)' /\ (\A h \in Heads : List(IndexCells, h, next, on, rank))' /\ (\A d \in Cores : Doubly(IndexCells, ALLOC(d), next, prev, on))'
  BY <1>1 DEF InPlaces, Complete
<1>. QED
  BY <1>6, <1>7, <1>8, <1>9 DEF InPlaces
-----------------------------------------------------------------------------
(* Places are labels. *)
LEMMA PlacesAreInts == Heads \subseteq Int /\ \A c \in Cores : Hand(c) \in Int
  BY SizeAssumption DEF Heads, GLOBAL, Hand, Cores

(* Nobody has a cell of a free list marked as allocated. *)
LEMMA FreeUnmarked ==
  ASSUME NEW on, NEW rank, InPlaces(on, rank), NEW x \in IndexCells, NEW h \in Heads, on[x] = h,
         \A d \in Cores : h # ALLOC(d)
  PROVE  list_ind[x] \notin Cores
  BY PlaceFacts DEF InPlaces, Marked

(* The cell in the hand points to the free list it is to be pushed on. *)
LEMMA FreeHookInv ==
  ASSUME Locked, NEW on, NEW rank, InPlaces(on, rank), NEW c \in Cores, FreeHook(c)
  PROVE  InPlaces(on, rank)'
<1>. DEFINE x == cell[c]
<1>1. HasCell(c, on) /\ op[c] = "push" /\ x \in IndexCells /\ on[x] = Hand(c) /\ x \in Cells
  BY HeadsApart DEF InPlaces, FreeHook, HasCell, Holding
<1>2. /\ next' = [next EXCEPT ![x] = next[FREE(c)]] /\ prev' = [prev EXCEPT ![x] = next[FREE(c)]]
      /\ list_ind' = [list_ind EXCEPT ![x] = -1] /\ op'[c] = "hook"
      /\ UNCHANGED <<time, cell, now>>
  BY DEF FreeHook, PointTo, Goto, Locked, DTyping
<1>3. on \in Labels(IndexCells) /\ rank \in Labels(IndexCells) /\ next \in Links(Cells) /\ prev \in Links(Cells) /\ list_ind \in [Cells -> Cores \cup {-1}]
  BY DEF InPlaces, Locked, DTyping
<1>4. Works(c, {}, on, rank, on, rank)
  BY <1>1, <1>2, <1>3, HeadsApart DEF Works, Links
<1>5. HasCell(c, on)'
  <2>1. next'[x] = next[FREE(c)] /\ next'[FREE(c)] = next[FREE(c)]
    BY <1>1, <1>2, <1>3, CellFacts, HeadsApart DEF Links
  <2>. QED
    BY <1>1, <1>2, <2>1 DEF HasCell, Holding
<1>6. ASSUME NEW y \in IndexCells, on[y] \in {} \cup {Hand(c)} PROVE Marked(y, on)'
  <2>1. y = x
    BY <1>1, <1>6 DEF HasCell
  <2>2. list_ind'[y] = -1
    BY <1>1, <1>2, <1>3, <2>1
  <2>3. \A d \in Cores : on[y] # ALLOC(d) /\ (on[y] = Hand(d) => d = c)
    BY <1>6, PlaceFacts, CellFacts
  <2>. QED
    BY <1>2, <2>2, <2>3, CoresFacts DEF Marked, NoCore
<1>7. ALLOC(c) \notin {}
  OBVIOUS
<1>. HIDE DEF x
<1>. QED
  BY <1>2, <1>3, <1>4, <1>5, <1>6, <1>7, FreeHookLocked, WorksInv

(* Taking the first cell of a free list: AllocUnhook and GlobalPop. *)
LEMMA PopInv ==
  ASSUME Locked, Locked', NEW on, NEW rank, InPlaces(on, rank), NEW c \in Cores, OwnLocks(c),
         NEW h \in Heads, \A d \in Cores : h # ALLOC(d),
         (h = GLOBAL /\ global_lock = c) \/ (\E k \in Cores : h = FREE(k) /\ dchain_locks[k] = c),
         next[h] # h, next' = [next EXCEPT ![h] = next[next[h]]], prev' = [prev EXCEPT ![h] = next[next[h]]],
         UNCHANGED <<list_ind, time, now>>,
         op[c] \notin Holding, op'[c] = "link", cell'[c] = next[h]
  PROVE  DIInv'
<1>. DEFINE x == next[h]
<1>1. /\ on \in Labels(IndexCells) /\ rank \in Labels(IndexCells) /\ next \in Links(Cells) /\ prev \in Links(Cells) /\ next' \in Links(Cells)
      /\ List(IndexCells, h, next, on, rank) /\ HasCell(c, on) /\ h \in Cells
  BY HeadsApart DEF InPlaces, Locked, DTyping
<1>2. x \in IndexCells /\ on[x] = h /\ x # h
  BY <1>1 DEF List, Leads, Members
<1>3. Hand(c) \in Int /\ Hand(c) \notin Heads
  BY PlacesAreInts, PlaceFacts
<1>. PICK on2 : Relabels(IndexCells, on, on2, x, Hand(c))
  BY <1>1, <1>2, <1>3, RelabelExists
<1>4. Members(IndexCells, h, on2) = Members(IndexCells, h, on) \ {x}
  <2>1. h # Hand(c)
    BY <1>3
  <2>. HIDE DEF x
  <2>. QED
    BY <1>2, <2>1, MembersMove
<1>5. on2 \in Labels(IndexCells) /\ \A y \in IndexCells : on2[y] = IF y = x THEN Hand(c) ELSE on[y]
  BY DEF Relabels
<1>6. \A y \in IndexCells \cup (Heads \ {h}) : next'[y] = next[y] /\ prev'[y] = prev[y]
  BY <1>1, HeadsApart DEF Links
<1>7. Works(c, {h}, on, rank, on2, rank)
  BY <1>2, <1>5, <1>6 DEF Works
<1>8. List(IndexCells, h, next', on2, rank)
  <2>1. next'[h] = next[next[h]] /\ \A y \in Members(IndexCells, h, on2) : next'[y] = next[y]
    BY <1>1, <1>6 DEF Links, Members
  <2>2. h \in Cells \ IndexCells /\ IndexCells \in SUBSET Cells
    BY HeadsApart
  <2>3. TakesFirst(IndexCells, h, next, on, next', on2)
    BY <1>4, <2>1 DEF TakesFirst
  <2>. QED
    BY <1>1, <1>5, <2>2, <2>3, ListPop
<1>9. HasCell(c, on2)'
  BY <1>1, <1>2, <1>5 DEF HasCell, Holding
<1>10. ASSUME NEW y \in IndexCells, on[y] \in {h} \cup {Hand(c)} PROVE Marked(y, on2)'
  <2>1. on[y] = h
    BY <1>1, <1>10 DEF HasCell
  <2>2. list_ind'[y] \notin Cores
    BY <2>1, FreeUnmarked
  <2>3. on2[y] \in {h, Hand(c)}
    BY <2>1, <1>5
  <2>4. \A d \in Cores : on2[y] # ALLOC(d) /\ (on2[y] = Hand(d) => d = c)
    BY <2>3, PlaceFacts, CellFacts
  <2>. QED
    BY <2>2, <2>4 DEF Marked
<1>11. ALLOC(c) \notin {h}
  OBVIOUS
<1>. HIDE DEF x
<1>12. InPlaces(on2, rank)'
  <2>1. \A g \in {h} : List(IndexCells, g, next', on2, rank)
    BY <1>8
  <2>2. \A y \in IndexCells : on[y] \in {h} \cup {Hand(c)} => Marked(y, on2)'
    BY <1>10
  <2>3. ALLOC(c) \in {h} => Doubly(IndexCells, ALLOC(c), next', prev', on2) /\ ByAge(c, on2, rank)'
    BY <1>11
  <2>. QED
    BY <1>1, <1>5, <1>7, <1>9, <2>1, <2>2, <2>3, WorksInv
<1>. QED
  BY <1>12 DEF DIInv

(* The first cell of the free list is now in the hand of the core. *)
LEMMA AllocUnhookInv ==
  ASSUME Locked, NEW on, NEW rank, InPlaces(on, rank), NEW c \in Cores, AllocUnhook(c)
  PROVE  DIInv'
<1>1. op[c] = "unhook" /\ HasCell(c, on) /\ dchain_locks[c] = c
  BY DEF AllocUnhook, InPlaces, Locked, HoldsLocks
<1>2. next[FREE(c)] # FREE(c) /\ cell[c] = next[FREE(c)] /\ op[c] \notin Holding
  BY <1>1 DEF HasCell, Holding
<1>3. /\ next' = [next EXCEPT ![FREE(c)] = next[next[FREE(c)]]] /\ prev' = [prev EXCEPT ![FREE(c)] = next[next[FREE(c)]]]
      /\ UNCHANGED <<list_ind, time, now>> /\ op'[c] = "link" /\ cell'[c] = next[FREE(c)]
  BY <1>2 DEF AllocUnhook, PointTo, Goto, Locked, DTyping
<1>4. FREE(c) \in Heads /\ \A d \in Cores : FREE(c) # ALLOC(d)
  BY CellFacts, PlaceFacts
<1>5. \E k \in Cores : FREE(c) = FREE(k) /\ dchain_locks[k] = c
  BY <1>1
<1>. QED
  BY <1>2, <1>3, <1>4, <1>5, AllocUnhookLocked, PopInv

(* The first cell of the global list is now in the hand of the core. *)
LEMMA GlobalPopInv ==
  ASSUME Locked, NEW on, NEW rank, InPlaces(on, rank), NEW c \in Cores, GlobalPop(c)
  PROVE  DIInv'
<1>1. op[c] = "gpop" /\ HasCell(c, on) /\ global_lock = c /\ cell[c] = FirstGlobal /\ op[c] \notin Holding
  BY DEF GlobalPop, InPlaces, Locked, HoldsLocks, HasCell, Holding
<1>2. CASE cell[c] # NoCell
  <2>1. next[GLOBAL] # GLOBAL /\ cell[c] = next[GLOBAL]
    BY <1>1, <1>2 DEF FirstGlobal
  <2>2. /\ next' = [next EXCEPT ![GLOBAL] = next[next[GLOBAL]]] /\ prev' = [prev EXCEPT ![GLOBAL] = next[next[GLOBAL]]]
        /\ UNCHANGED <<list_ind, time, now>> /\ op'[c] = "link" /\ cell'[c] = next[GLOBAL]
    BY <1>2, <2>1 DEF GlobalPop, PointTo, Goto, Locked, DTyping
  <2>3. GLOBAL \in Heads /\ \A d \in Cores : GLOBAL # ALLOC(d)
    BY CellFacts, PlaceFacts
  <2>. QED
    BY <1>1, <2>1, <2>2, <2>3, GlobalPopLocked, PopInv
<1>3. CASE cell[c] = NoCell
  <2>1. UNCHANGED <<lists, now>> /\ op'[c] = "none"
    BY <1>3 DEF GlobalPop, Goto, lists, Locked, DTyping
  <2>2. HasCell(c, on)'
    BY <1>1, <2>1 DEF HasCell, Holding
  <2>3. InPlaces(on, rank)'
    BY <1>1, <2>1, <2>2, GlobalPopLocked, NoListWorks
  <2>. QED
    BY <2>3 DEF DIInv
<1>. QED
  BY <1>2, <1>3

(* The cell in the hand is now the first of the free list. *)
LEMMA FreePushInv ==
  ASSUME Locked, NEW on, NEW rank, InPlaces(on, rank), NEW c \in Cores, FreePush(c)
  PROVE  DIInv'
<1>. DEFINE x == cell[c]
            h == FREE(c)
<1>1. /\ op[c] = "hook" /\ HasCell(c, on) /\ dchain_locks[c] = c /\ h \in Heads /\ h \in Cells
      /\ \A d \in Cores : h # ALLOC(d) /\ h # Hand(d)
  BY CellFacts, PlaceFacts DEF FreePush, InPlaces, Locked, HoldsLocks
<1>2. x \in IndexCells /\ on[x] = Hand(c) /\ next[x] = next[h] /\ x # h
  BY <1>1, HeadsApart DEF HasCell, Holding
<1>3. /\ next' = [next EXCEPT ![h] = x] /\ prev' = [prev EXCEPT ![h] = x]
      /\ UNCHANGED <<list_ind, time, now>> /\ op'[c] = "none"
  BY DEF FreePush, PointTo, Goto, Locked, DTyping
<1>4. /\ on \in Labels(IndexCells) /\ rank \in Labels(IndexCells) /\ next \in Links(Cells) /\ prev \in Links(Cells) /\ next' \in Links(Cells)
      /\ List(IndexCells, h, next, on, rank)
  BY <1>1, FreePushLocked DEF InPlaces, Locked, DTyping
<1>5. FrontRank(h, next, rank) \in Int /\ \A y \in Members(IndexCells, h, on) : FrontRank(h, next, rank) < rank[y]
  BY <1>1, <1>4, HeadsApart, FrontRankLess
<1>. PICK on2 : Relabels(IndexCells, on, on2, x, h)
  BY <1>1, <1>2, <1>4, PlacesAreInts, RelabelExists
<1>. PICK rank2 : Relabels(IndexCells, rank, rank2, x, FrontRank(h, next, rank))
  BY <1>2, <1>4, <1>5, RelabelExists
<1>6. Members(IndexCells, h, on2) = Members(IndexCells, h, on) \cup {x}
  BY <1>2, MembersMove
<1>7. on2 \in Labels(IndexCells) /\ \A y \in IndexCells : on2[y] = (IF y = x THEN h ELSE on[y]) /\ (y # x => rank2[y] = rank[y])
  BY DEF Relabels
<1>8. rank2 \in Labels(IndexCells) /\ rank2[x] = FrontRank(h, next, rank)
  BY <1>2 DEF Relabels
<1>9. \A y \in IndexCells \cup (Heads \ {h}) : next'[y] = next[y] /\ prev'[y] = prev[y]
  BY <1>1, <1>3, <1>4, HeadsApart DEF Links
<1>10. next'[h] = x
  BY <1>1, <1>3, <1>4 DEF Links
<1>11. x \notin Members(IndexCells, h, on)
  BY <1>1, <1>2 DEF Members
<1>. HIDE DEF x, h
<1>12. Works(c, {h}, on, rank, on2, rank2)
  BY <1>1, <1>2, <1>3, <1>7, <1>9 DEF Works, h
<1>13. List(IndexCells, h, next', on2, rank2)
  <2>1. \A y \in Members(IndexCells, h, on) : next'[y] = next[y] /\ rank2[y] = rank[y] /\ rank2[x] < rank[y]
    BY <1>5, <1>7, <1>8, <1>9, <1>11 DEF Members
  <2>2. next'[x] = next[h]
    BY <1>2, <1>9
  <2>. QED
    BY <1>1, <1>2, <1>4, <1>6, <1>7, <1>8, <1>10, <1>11, <2>1, <2>2, HeadsApart, ListPush
<1>14. HasCell(c, on2)'
  <2>1. \A y \in IndexCells : on2[y] # Hand(c)
    BY <1>1, <1>7 DEF HasCell, x
  <2>. QED
    BY <1>3, <2>1 DEF HasCell, Holding
<1>15. ASSUME NEW y \in IndexCells, on[y] \in {h} \cup {Hand(c)} PROVE Marked(y, on2)'
  <2>1. on2[y] = h
    BY <1>1, <1>7, <1>15 DEF HasCell, x
  <2>2. list_ind'[y] \notin Cores
    <3>1. CASE on[y] = h
      BY <3>1, <1>1, <1>3, FreeUnmarked
    <3>2. CASE on[y] = Hand(c)
      BY <3>2, <1>1, <1>3, PlaceFacts, CellFacts DEF InPlaces, Marked
    <3>. QED
      BY <3>1, <3>2, <1>15
  <2>. QED
    BY <2>1, <2>2, <1>1 DEF Marked, h
<1>16. ALLOC(c) \notin {h}
  BY <1>1
<1>17. InPlaces(on2, rank2)'
  <2>1. \A g \in {h} : List(IndexCells, g, next', on2, rank2)
    BY <1>13
  <2>2. \A y \in IndexCells : on[y] \in {h} \cup {Hand(c)} => Marked(y, on2)'
    BY <1>15
  <2>3. ALLOC(c) \in {h} => Doubly(IndexCells, ALLOC(c), next', prev', on2) /\ ByAge(c, on2, rank2)'
    BY <1>16
  <2>4. on2 \in Labels(IndexCells) /\ rank2 \in Labels(IndexCells) /\ UNCHANGED now
    BY <1>3, <1>7, <1>8
  <2>5. Locked' /\ OwnLocks(c)
    BY FreePushLocked
  <2>. QED
    BY <1>12, <1>14, <2>1, <2>2, <2>3, <2>4, <2>5, WorksInv
<1>. QED
  BY <1>17 DEF DIInv

(* A refill moves the first cell of a core to the front of the global list. *)
LEMMA FillMoveInv ==
  ASSUME Locked, NEW on, NEW rank, InPlaces(on, rank), NEW c \in Cores, FillMove(c)
  PROVE  DIInv'
<1>. DEFINE x == cell[c]
            h == FREE(iter[c])
            T == {h, GLOBAL}
<1>1. /\ op[c] = "move" /\ iter[c] \in Cores /\ dchain_locks[iter[c]] = c /\ global_lock = c
      /\ HasCell(c, on) /\ op[c] \notin Holding
  BY DEF FillMove, InPlaces, Locked, DTyping, HoldsLocks, Holding
<1>2. /\ h \in Heads /\ GLOBAL \in Heads /\ h # GLOBAL
      /\ \A d \in Cores : h # ALLOC(d) /\ h # Hand(d) /\ GLOBAL # ALLOC(d) /\ GLOBAL # Hand(d)
  BY <1>1, CellFacts, PlaceFacts
<1>3. /\ on \in Labels(IndexCells) /\ rank \in Labels(IndexCells) /\ next \in Links(Cells) /\ prev \in Links(Cells) /\ next' \in Links(Cells)
      /\ List(IndexCells, h, next, on, rank) /\ List(IndexCells, GLOBAL, next, on, rank)
      /\ h \in Cells /\ GLOBAL \in Cells
  BY <1>2, FillMoveLocked, HeadsApart DEF InPlaces, Locked, DTyping
<1>4. next[h] # h /\ x = next[h]
  BY <1>1 DEF HasCell
<1>5. x \in IndexCells /\ on[x] = h /\ x \in Cells /\ x # h /\ x # GLOBAL
  BY <1>2, <1>3, <1>4, HeadsApart DEF List, Leads, Members
<1>6. /\ next' = [next EXCEPT ![h] = next[x], ![x] = next[GLOBAL], ![GLOBAL] = x]
      /\ prev' = [prev EXCEPT ![h] = next[x], ![x] = next[GLOBAL], ![GLOBAL] = x]
      /\ list_ind' = [list_ind EXCEPT ![x] = -1] /\ time' = [time EXCEPT ![x] = INT64_MAX] /\ UNCHANGED now
      /\ op'[c] \in {"fill", "retry"}
  BY DEF FillMove, Goto, Locked, DTyping
<1>7. next'[h] = next[x] /\ next'[x] = next[GLOBAL] /\ next'[GLOBAL] = x
  BY <1>2, <1>3, <1>5, <1>6 DEF Links
<1>8. \A y \in (IndexCells \cup Heads) \ {x, h, GLOBAL} : next'[y] = next[y] /\ prev'[y] = prev[y]
  BY <1>3, <1>6, HeadsApart DEF Links
<1>9. \A y \in IndexCells \ {x} : list_ind'[y] = list_ind[y] /\ time'[y] = time[y]
  BY <1>6, HeadsApart DEF Locked, DTyping
<1>10. FrontRank(GLOBAL, next, rank) \in Int /\ \A y \in Members(IndexCells, GLOBAL, on) : FrontRank(GLOBAL, next, rank) < rank[y]
  BY <1>2, <1>3, HeadsApart, FrontRankLess
<1>. PICK on2 : Relabels(IndexCells, on, on2, x, GLOBAL)
  BY <1>2, <1>3, <1>5, PlacesAreInts, RelabelExists
<1>. PICK rank2 : Relabels(IndexCells, rank, rank2, x, FrontRank(GLOBAL, next, rank))
  BY <1>3, <1>5, <1>10, RelabelExists
<1>11. /\ on2 \in Labels(IndexCells) /\ rank2 \in Labels(IndexCells)
       /\ \A y \in IndexCells : on2[y] = (IF y = x THEN GLOBAL ELSE on[y]) /\ (y # x => rank2[y] = rank[y])
       /\ rank2[x] = FrontRank(GLOBAL, next, rank)
  BY <1>5 DEF Relabels
<1>12. Members(IndexCells, GLOBAL, on2) = Members(IndexCells, GLOBAL, on) \cup {x} /\ Members(IndexCells, h, on2) = Members(IndexCells, h, on) \ {x}
  BY <1>2, <1>5, MembersMove
<1>13. x \notin Members(IndexCells, GLOBAL, on) /\ x \notin Members(IndexCells, h, on2) /\ h \notin Members(IndexCells, GLOBAL, on) /\ GLOBAL \notin Members(IndexCells, h, on2)
  BY <1>2, <1>5, <1>12, HeadsApart DEF Members
<1>. HIDE DEF x, h
<1>14. Works(c, T, on, rank, on2, rank2)
  <2>1. T \subseteq Heads /\ \A g \in T : (g = GLOBAL /\ global_lock = c) \/ \E k \in Cores : g = FREE(k) /\ dchain_locks[k] = c
    BY <1>1, <1>2 DEF h
  <2>2. \A g \in Heads \ T : next'[g] = next[g] /\ prev'[g] = prev[g]
    BY <1>5, <1>8, HeadsApart
  <2>3. ASSUME NEW y \in IndexCells, on[y] \in T \cup {Hand(c)} PROVE on2[y] \in T \cup {Hand(c)}
    BY <2>3, <1>11
  <2>4. ASSUME NEW y \in IndexCells, on[y] \notin T \cup {Hand(c)}
        PROVE  /\ next'[y] = next[y] /\ prev'[y] = prev[y] /\ list_ind'[y] = list_ind[y] /\ time'[y] = time[y]
               /\ on2[y] = on[y] /\ rank2[y] = rank[y]
    <3>1. y \notin {x, h, GLOBAL}
      BY <2>4, <1>2, <1>5, HeadsApart
    <3>. QED
      BY <3>1, <1>8, <1>9, <1>11
  <2>. HIDE DEF T
  <2>. QED
    BY <2>1, <2>2, <2>3, <2>4 DEF Works
<1>15. List(IndexCells, h, next', on2, rank2)
  <2>1. \A y \in Members(IndexCells, h, on2) : next'[y] = next[y] /\ rank2[y] = rank[y]
    BY <1>2, <1>8, <1>11, <1>13, HeadsApart DEF Members
  <2>2. Members(IndexCells, h, on2) = Members(IndexCells, h, on) \ {next[h]} /\ next'[h] = next[next[h]]
    BY <1>4, <1>7, <1>12
  <2>3. List(IndexCells, h, next', on2, rank)
    <3>1. TakesFirst(IndexCells, h, next, on, next', on2)
      BY <1>4, <1>7, <2>1, <2>2 DEF TakesFirst
    <3>2. h \in Cells \ IndexCells /\ IndexCells \in SUBSET Cells
      BY <1>2, HeadsApart
    <3>. QED
      BY <1>2, <1>3, <1>11, <3>1, <3>2, ListPop
  <2>. QED
    BY <1>2, <1>3, <1>11, <2>1, <2>3, HeadsApart, ListFrame
<1>16. List(IndexCells, GLOBAL, next', on2, rank2)
  <2>1. \A y \in Members(IndexCells, GLOBAL, on) : next'[y] = next[y] /\ rank2[y] = rank[y] /\ rank2[x] < rank[y]
    BY <1>2, <1>8, <1>10, <1>11, <1>13, HeadsApart DEF Members
  <2>. QED
    BY <1>2, <1>3, <1>5, <1>7, <1>11, <1>12, <1>13, <2>1, HeadsApart, ListPush
<1>17. HasCell(c, on2)'
  <2>1. \A y \in IndexCells : on2[y] # Hand(c)
    BY <1>1, <1>2, <1>11 DEF HasCell
  <2>. QED
    BY <1>6, <2>1 DEF HasCell, Holding
<1>18. ASSUME NEW y \in IndexCells, on[y] \in T \cup {Hand(c)} PROVE Marked(y, on2)'
  <2>1. on[y] \in T
    BY <1>1, <1>18 DEF HasCell
  <2>2. on2[y] \in T
    BY <2>1, <1>11
  <2>3. list_ind[y] \notin Cores
    BY <2>1, <1>2, FreeUnmarked
  <2>4. list_ind'[y] \notin Cores
    <3>1. CASE y = x
      BY <3>1, <1>5, <1>6, CoresFacts DEF NoCore, Locked, DTyping
    <3>2. CASE y # x
      BY <3>2, <2>3, <1>9
    <3>. QED
      BY <3>1, <3>2
  <2>5. \A d \in Cores : on2[y] # ALLOC(d) /\ on2[y] # Hand(d)
    BY <2>2, <1>2
  <2>. QED
    BY <2>4, <2>5 DEF Marked
<1>19. InPlaces(on2, rank2)'
  <2>1. \A g \in T : List(IndexCells, g, next', on2, rank2)
    BY <1>15, <1>16
  <2>2. \A y \in IndexCells : on[y] \in T \cup {Hand(c)} => Marked(y, on2)'
    BY <1>18
  <2>3. ALLOC(c) \in T => Doubly(IndexCells, ALLOC(c), next', prev', on2) /\ ByAge(c, on2, rank2)'
    BY <1>2
  <2>4. UNCHANGED now /\ Locked' /\ OwnLocks(c)
    BY <1>6, FillMoveLocked
  <2>. HIDE DEF T
  <2>. QED
    BY <1>11, <1>14, <1>17, <2>1, <2>2, <2>3, <2>4, WorksInv
<1>. QED
  BY <1>19 DEF DIInv

(* free_index takes the cell off the alloc list of its own core. *)
LEMMA FreeIndexInv ==
  ASSUME Locked, NEW on, NEW rank, InPlaces(on, rank), NEW c \in Cores,
         NEW i \in Int, i + INDEX_SHIFT \in IndexCells, FreeIndex(c, i)
  PROVE  DIInv'
<1>. DEFINE x == i + INDEX_SHIFT
            h == ALLOC(c)
<1>1. /\ op[c] = "none" /\ list_ind[x] = h /\ HasCell(c, on) /\ Marked(x, on) /\ h = c
      /\ next' = [next EXCEPT ![prev[x]] = next[x]] /\ prev' = [prev EXCEPT ![next[x]] = prev[x]]
      /\ op'[c] = "flock" /\ cell'[c] = x /\ UNCHANGED <<list_ind, time, now>>
  BY DEF FreeIndex, IsIndexAllocated, Unlink, Goto, Locked, DTyping, InPlaces, ALLOC
<1>2. on[x] = h /\ op[c] \notin Holding
  BY <1>1 DEF Marked, Holding
<1>3. h \in Heads /\ h # Hand(c) /\ Hand(c) \in Int
  BY CellFacts, PlaceFacts, PlacesAreInts
<1>4. Locked' /\ OwnLocks(c)
  <2>1. x \in Cells
    BY HeadsApart
  <2>. QED
    BY <2>1, FreeIndexLocked
<1>5. /\ on \in Labels(IndexCells) /\ rank \in Labels(IndexCells) /\ next \in Links(Cells) /\ prev \in Links(Cells) /\ next' \in Links(Cells) /\ prev' \in Links(Cells)
      /\ List(IndexCells, h, next, on, rank) /\ Doubly(IndexCells, h, next, prev, on) /\ ByAge(c, on, rank)
  BY <1>3, <1>4 DEF InPlaces, Locked, DTyping
<1>6. x \in IndexCells /\ x \in Members(IndexCells, h, on)
  BY <1>2 DEF Members
<1>. HIDE DEF x, h
<1>7. PICK on2 : Relabels(IndexCells, on, on2, x, Hand(c))
  BY <1>3, <1>5, <1>6, RelabelExists
<1>8. on2 \in Labels(IndexCells) /\ \A y \in IndexCells : on2[y] = IF y = x THEN Hand(c) ELSE on[y]
  BY <1>7 DEF Relabels
<1>9. Members(IndexCells, h, on2) = Members(IndexCells, h, on) \ {x}
  BY <1>3, <1>6, <1>8 DEF Members
<1>10. List(IndexCells, h, next', on2, rank) /\ Doubly(IndexCells, h, next', prev', on2)
  <2>1. RemoveLinks(next, prev, next', prev', x)
    BY <1>1 DEF RemoveLinks
  <2>2. on2 \in Labels(IndexCells) /\ h \in Heads
    BY <1>3, <1>8
  <2>. QED
    BY <1>5, <1>6, <1>9, <2>1, <2>2, HeadsApart, ListRemove
<1>11. ByAge(c, on2, rank)'
  BY <1>1, <1>5, <1>9 DEF ByAge, h
<1>12. Works(c, {h}, on, rank, on2, rank)
  <2>1. next[x] \in Members(IndexCells, h, on) \cup {h} /\ prev[x] \in Members(IndexCells, h, on) \cup {h}
    BY <1>5, <1>6 DEF List, Leads, Doubly
  <2>2. ASSUME NEW y \in (IndexCells \cup Heads), y \notin Members(IndexCells, h, on) \cup {h}
        PROVE  next'[y] = next[y] /\ prev'[y] = prev[y]
    <3>1. y \in Cells /\ y # next[x] /\ y # prev[x]
      BY <2>1, <2>2, HeadsApart
    <3>. QED
      BY <3>1, <1>1, <1>5 DEF Links
  <2>3. \A g \in Heads \ {h} : g \notin Members(IndexCells, h, on) \cup {h}
    BY HeadsApart DEF Members
  <2>4. \A y \in IndexCells : on[y] # h => y \notin Members(IndexCells, h, on) \cup {h}
    BY <1>3, HeadsApart DEF Members
  <2>. QED
    BY <2>2, <2>3, <2>4, <1>1, <1>2, <1>3, <1>8 DEF Works, h
<1>13. HasCell(c, on2)'
  <2>1. \A y \in IndexCells : on2[y] = Hand(c) <=> y = x
    BY <1>1, <1>2, <1>8 DEF HasCell
  <2>. QED
    BY <1>1, <1>6, <2>1 DEF HasCell, Holding
<1>14. ASSUME NEW y \in IndexCells, on[y] \in {h} \cup {Hand(c)} PROVE Marked(y, on2)'
  <2>1. on[y] = h
    BY <1>1, <1>2, <1>14 DEF HasCell
  <2>2. Marked(y, on)
    BY DEF InPlaces
  <2>3. \A d \in Cores : list_ind[y] = d <=> d = c
    BY <2>1, <2>2, <1>3, PlaceFacts DEF Marked, h
  <2>4. \A d \in Cores : d = c <=> on2[y] = ALLOC(d) \/ (on2[y] = Hand(d) /\ op'[d] \in {"flock", "push"})
    <3>1. CASE y = x
      BY <3>1, <1>1, <1>8, PlaceFacts, CellFacts
    <3>2. CASE y # x
      <4>1. on2[y] = h
        BY <3>2, <2>1, <1>8
      <4>. QED
        BY <4>1, PlaceFacts, CellFacts DEF h
    <3>. QED
      BY <3>1, <3>2
  <2>. QED
    BY <2>3, <2>4, <1>1 DEF Marked
<1>15. InPlaces(on2, rank)'
  <2>1. \A g \in {h} : List(IndexCells, g, next', on2, rank)
    BY <1>10
  <2>2. \A y \in IndexCells : on[y] \in {h} \cup {Hand(c)} => Marked(y, on2)'
    BY <1>14
  <2>3. ALLOC(c) \in {h} => Doubly(IndexCells, ALLOC(c), next', prev', on2) /\ ByAge(c, on2, rank)'
    BY <1>10, <1>11 DEF h
  <2>. QED
    BY <1>1, <1>4, <1>5, <1>8, <1>12, <1>13, <2>1, <2>2, <2>3, WorksInv
<1>. QED
  BY <1>15 DEF DIInv

(* A new or rejuvenated cell has the time of now and the last rank. *)
LEMMA ByAgeAppend ==
  ASSUME Locked, NEW on \in Labels(IndexCells), NEW rank \in Labels(IndexCells), NEW on2, NEW rank2, NEW c \in Cores, NEW x \in IndexCells,
         ByAge(c, on, rank), now' = now, time' = [time EXCEPT ![x] = now[c]],
         Members(IndexCells, ALLOC(c), on2) = Members(IndexCells, ALLOC(c), on) \cup {x},
         \A y \in Members(IndexCells, ALLOC(c), on) \ {x} : rank2[y] = rank[y] /\ rank[y] < rank2[x],
         rank2[x] \in Int
  PROVE  ByAge(c, on2, rank2)'
<1>. DEFINE M == Members(IndexCells, ALLOC(c), on)
<1>1. time'[x] = now[c] /\ \A y \in M \ {x} : time'[y] = time[y] /\ time[y] <= now[c]
  BY HeadsApart DEF Locked, DTyping, Members, ByAge
<1>2. now[c] \in Int /\ \A y \in M : rank[y] \in Int
  BY DEF Locked, DTyping, Members, Labels
<1>3. ASSUME NEW y \in M \cup {x}, NEW z \in M \cup {x}
      PROVE  time'[y] <= now[c] /\ (rank2[y] < rank2[z] => time'[y] <= time'[z])
  <2>1. time'[y] <= now[c]
    BY <1>1, <1>2
  <2>2. CASE z = x
    BY <2>1, <2>2, <1>1
  <2>3. CASE z # x /\ y = x
    <3>1. rank2[z] < rank2[y] /\ rank2[z] \in Int /\ rank2[y] \in Int
      BY <2>3, <1>2
    <3>. QED
      BY <3>1, <2>1
  <2>4. CASE z # x /\ y # x
    BY <2>4, <1>1 DEF ByAge
  <2>. QED
    BY <2>1, <2>2, <2>3, <2>4
<1>. HIDE DEF M
<1>4. \A y, z \in Members(IndexCells, ALLOC(c), on2) : time'[y] <= now[c] /\ (rank2[y] < rank2[z] => time'[y] <= time'[z])
  BY <1>3 DEF M
<1>. QED
  BY <1>4 DEF ByAge

(* The cell in the hand is now the last of the alloc list, and no other    *)
(* cell of the list is younger.                                            *)
LEMMA AllocLinkInv ==
  ASSUME Locked, NEW on, NEW rank, InPlaces(on, rank), NEW c \in Cores, AllocLink(c)
  PROVE  DIInv'
<1>. DEFINE x == cell[c]
            h == ALLOC(c)
<1>1. /\ op[c] = "link" /\ HasCell(c, on) /\ op'[c] = "none" /\ UNCHANGED now
      /\ time' = [time EXCEPT ![x] = now[c]] /\ list_ind' = [list_ind EXCEPT ![x] = h]
  BY DEF AllocLink, Goto, Locked, DTyping, InPlaces
<1>2. AppendLinks(h, next, prev, next', prev', x)
  BY DEF AllocLink, AppendLinks
<1>3. x \in IndexCells /\ on[x] = Hand(c)
  BY <1>1 DEF HasCell, Holding
<1>4. h \in Heads /\ h # Hand(c) /\ h = c /\ h \in Cells /\ x # h /\ x \in Cells
  BY <1>3, CellFacts, PlaceFacts, HeadsApart DEF ALLOC
<1>5. Locked' /\ OwnLocks(c)
  BY AllocLinkLocked
<1>6. /\ on \in Labels(IndexCells) /\ rank \in Labels(IndexCells) /\ next \in Links(Cells) /\ prev \in Links(Cells) /\ next' \in Links(Cells) /\ prev' \in Links(Cells)
      /\ List(IndexCells, h, next, on, rank) /\ Doubly(IndexCells, h, next, prev, on) /\ ByAge(c, on, rank)
  BY <1>4, <1>5 DEF InPlaces, Locked, DTyping
<1>7. BackRank(h, prev, rank) \in Int /\ \A y \in Members(IndexCells, h, on) : rank[y] < BackRank(h, prev, rank)
  BY <1>4, <1>6, HeadsApart, BackRankGreater
<1>8. x \notin Members(IndexCells, h, on)
  BY <1>3, <1>4 DEF Members
<1>. HIDE DEF x, h
<1>9. PICK on2 : Relabels(IndexCells, on, on2, x, h)
  BY <1>3, <1>4, <1>6, PlacesAreInts, RelabelExists
<1>10. PICK rank2 : Relabels(IndexCells, rank, rank2, x, BackRank(h, prev, rank))
  BY <1>3, <1>6, <1>7, RelabelExists
<1>11. on2 \in Labels(IndexCells) /\ \A y \in IndexCells : on2[y] = IF y = x THEN h ELSE on[y]
  BY <1>9 DEF Relabels
<1>12. rank2 \in Labels(IndexCells) /\ rank2[x] = BackRank(h, prev, rank) /\ \A y \in IndexCells \ {x} : rank2[y] = rank[y]
  BY <1>3, <1>10 DEF Relabels
<1>13. Members(IndexCells, h, on2) = Members(IndexCells, h, on) \cup {x}
  BY <1>3, <1>11 DEF Members
<1>14. \A y \in Members(IndexCells, h, on) : rank2[y] = rank[y] /\ rank[y] < rank2[x]
  BY <1>7, <1>8, <1>12 DEF Members
<1>15. List(IndexCells, h, next', on2, rank2) /\ Doubly(IndexCells, h, next', prev', on2)
  <2>1. AddsLast(IndexCells, h, on, rank, on2, rank2, x)
    BY <1>8, <1>13, <1>14 DEF AddsLast
  <2>. QED
    BY <1>2, <1>3, <1>4, <1>6, <1>11, <1>12, <2>1, HeadsApart, ListAppend
<1>16. ByAge(c, on2, rank2)'
  BY <1>1, <1>3, <1>6, <1>7, <1>12, <1>13, <1>14, ByAgeAppend DEF h
<1>17. Works(c, {h}, on, rank, on2, rank2)
  <2>1. prev[h] \in Members(IndexCells, h, on) \cup {h}
    BY <1>6 DEF Doubly
  <2>2. ASSUME NEW y \in (IndexCells \cup Heads), y \notin Members(IndexCells, h, on) \cup {h, x}
        PROVE  next'[y] = next[y] /\ prev'[y] = prev[y]
    <3>1. y \in Cells /\ y # h /\ y # x /\ y # prev[h]
      BY <2>1, <2>2, HeadsApart
    <3>. QED
      BY <3>1, <1>2, <1>6 DEF Links, AppendLinks
  <2>3. \A g \in Heads \ {h} : g \notin Members(IndexCells, h, on) \cup {h, x}
    BY <1>3, HeadsApart DEF Members
  <2>4. \A y \in IndexCells : on[y] \notin {h, Hand(c)} => y \notin Members(IndexCells, h, on) \cup {h, x}
    BY <1>3, <1>4, HeadsApart DEF Members
  <2>5. \A y \in IndexCells : y # x => list_ind'[y] = list_ind[y] /\ time'[y] = time[y]
    BY <1>1, HeadsApart DEF Locked, DTyping
  <2>. QED
    BY <2>2, <2>3, <2>4, <2>5, <1>4, <1>11, <1>12 DEF Works, h
<1>18. HasCell(c, on2)'
  <2>1. \A y \in IndexCells : on2[y] # Hand(c)
    BY <1>1, <1>4, <1>11 DEF HasCell, x
  <2>. QED
    BY <1>1, <2>1 DEF HasCell, Holding
<1>19. ASSUME NEW y \in IndexCells, on[y] \in {h} \cup {Hand(c)} PROVE Marked(y, on2)'
  <2>1. on2[y] = h
    BY <1>1, <1>11, <1>19 DEF HasCell, x
  <2>2. list_ind'[y] = c
    <3>1. CASE y = x
      BY <3>1, <1>1, <1>4 DEF Locked, DTyping
    <3>2. CASE y # x
      <4>1. on[y] = h
        BY <3>2, <2>1, <1>11
      <4>2. list_ind[y] = c
        BY <4>1 DEF InPlaces, Marked, h
      <4>. QED
        BY <3>2, <4>2, <1>1, HeadsApart DEF Locked, DTyping
    <3>. QED
      BY <3>1, <3>2
  <2>3. \A d \in Cores : h # Hand(d) /\ (h = ALLOC(d) <=> d = c)
    BY <1>4, PlaceFacts DEF h
  <2>. QED
    BY <2>1, <2>2, <2>3 DEF Marked
<1>20. InPlaces(on2, rank2)'
  <2>1. \A g \in {h} : List(IndexCells, g, next', on2, rank2)
    BY <1>15
  <2>2. \A y \in IndexCells : on[y] \in {h} \cup {Hand(c)} => Marked(y, on2)'
    BY <1>19
  <2>3. ALLOC(c) \in {h} => Doubly(IndexCells, ALLOC(c), next', prev', on2) /\ ByAge(c, on2, rank2)'
    BY <1>15, <1>16 DEF h
  <2>. QED
    BY <1>1, <1>5, <1>11, <1>12, <1>17, <1>18, <2>1, <2>2, <2>3, WorksInv
<1>. QED
  BY <1>20 DEF DIInv

(* rejuvenate_index takes the cell off its list and puts it at the end,    *)
(* whether it was the first, the last or one in between.                   *)
LEMMA RejuvenateIndexInv ==
  ASSUME Locked, NEW on, NEW rank, InPlaces(on, rank), NEW c \in Cores, NEW i \in Indexes, RejuvenateIndex(c, i)
  PROVE  DIInv'
<1>. DEFINE x == i + INDEX_SHIFT
            h == ALLOC(c)
<1>1. op[c] = "none" /\ HasCell(c, on) /\ op' = op /\ cell' = cell /\ iter' = iter /\ now' = now
  BY DEF RejuvenateIndex, InPlaces
<1>2. Locked' /\ OwnLocks(c)
  BY RejuvenateIndexLocked
<1>3. h \in Heads /\ h # Hand(c) /\ h = c /\ h \in Cells /\ x \in IndexCells /\ x # h /\ x \in Cells /\ Hand(c) \in Int
  <2>1. h \in Heads /\ h \in Cells /\ x \in IndexCells
    BY CellFacts
  <2>2. h # Hand(c) /\ Hand(c) \in Int
    BY <2>1, PlaceFacts, PlacesAreInts
  <2>3. x # h /\ x \in Cells
    BY <2>1, HeadsApart
  <2>4. h = c
    BY DEF ALLOC
  <2>. QED
    BY <2>1, <2>2, <2>3, <2>4
<1>4. CASE ~(IsIndexAllocated(c, i) /\ next[x] # prev[x])
  <2>1. UNCHANGED <<lists, now>>
    BY <1>1, <1>4 DEF RejuvenateIndex, Rejuvenate, lists
  <2>2. HasCell(c, on)'
    BY <1>1, <2>1 DEF HasCell, FirstGlobal, lists
  <2>3. InPlaces(on, rank)'
    BY <1>1, <1>2, <2>1, <2>2, NoListWorks
  <2>. QED
    BY <2>3 DEF DIInv
<1>5. CASE IsIndexAllocated(c, i) /\ next[x] # prev[x]
  <2>. DEFINE nx1 == [next EXCEPT ![prev[x]] = next[x]]
              pv1 == [prev EXCEPT ![next[x]] = prev[x]]
              last == IF next[x] = h THEN prev[x] ELSE prev[h]
  <2>1. /\ next' = [next EXCEPT ![prev[x]] = next[x], ![x] = h, ![last] = x]
        /\ prev' = [prev EXCEPT ![next[x]] = prev[x], ![x] = last, ![h] = x]
        /\ time' = [time EXCEPT ![x] = now[c]] /\ list_ind' = list_ind
    BY <1>5 DEF RejuvenateIndex, Rejuvenate
  <2>2. on[x] = h /\ x \in Members(IndexCells, h, on)
    BY <1>1, <1>3, <1>5 DEF IsIndexAllocated, InPlaces, Marked, Members
  <2>3. /\ on \in Labels(IndexCells) /\ rank \in Labels(IndexCells) /\ next \in Links(Cells) /\ prev \in Links(Cells) /\ next' \in Links(Cells) /\ prev' \in Links(Cells)
        /\ List(IndexCells, h, next, on, rank) /\ Doubly(IndexCells, h, next, prev, on) /\ ByAge(c, on, rank)
    BY <1>2, <1>3 DEF InPlaces, Locked, DTyping
  <2>4. next[x] \in Members(IndexCells, h, on) \cup {h} /\ prev[x] \in Members(IndexCells, h, on) \cup {h} /\ prev[h] \in Members(IndexCells, h, on) \cup {h}
    BY <2>2, <2>3 DEF List, Leads, Doubly
  <2>5. Members(IndexCells, h, on) \cup {h} \subseteq Cells
    BY <1>3, HeadsApart DEF Members
  <2>6. nx1 \in Links(Cells) /\ pv1 \in Links(Cells)
    BY <2>3, <2>4, <2>5 DEF Links
  <2>7. pv1[h] = last
    BY <1>3, <2>3 DEF Links
  <2>8. next' = [nx1 EXCEPT ![x] = h, ![last] = x] /\ prev' = [pv1 EXCEPT ![x] = last, ![h] = x]
    BY <2>1
  <2>. HIDE DEF x, h
  <2>9. RemoveLinks(next, prev, nx1, pv1, x)
    BY DEF RemoveLinks
  <2>. HIDE DEF nx1, pv1, last
  <2>10. AppendLinks(h, nx1, pv1, next', prev', x)
    BY <2>7, <2>8 DEF AppendLinks
  <2>11. PICK on1 : Relabels(IndexCells, on, on1, x, Hand(c))
    BY <1>3, <2>3, RelabelExists
  <2>12. on1 \in Labels(IndexCells) /\ \A y \in IndexCells : on1[y] = IF y = x THEN Hand(c) ELSE on[y]
    BY <2>11 DEF Relabels
  <2>13. Members(IndexCells, h, on1) = Members(IndexCells, h, on) \ {x}
    BY <1>3, <2>2, <2>12 DEF Members
  <2>14. List(IndexCells, h, nx1, on1, rank) /\ Doubly(IndexCells, h, nx1, pv1, on1)
    BY <1>3, <2>2, <2>3, <2>6, <2>9, <2>12, <2>13, HeadsApart, ListRemove
  <2>15. BackRank(h, pv1, rank) \in Int /\ \A y \in Members(IndexCells, h, on1) : rank[y] < BackRank(h, pv1, rank)
    BY <1>3, <2>3, <2>6, <2>12, <2>14, HeadsApart, BackRankGreater
  <2>16. PICK rank2 : Relabels(IndexCells, rank, rank2, x, BackRank(h, pv1, rank))
    BY <1>3, <2>3, <2>15, RelabelExists
  <2>17. rank2 \in Labels(IndexCells) /\ rank2[x] = BackRank(h, pv1, rank) /\ \A y \in IndexCells \ {x} : rank2[y] = rank[y]
    BY <1>3, <2>16 DEF Relabels
  <2>18. x \notin Members(IndexCells, h, on1) /\ Members(IndexCells, h, on) = Members(IndexCells, h, on1) \cup {x}
    BY <2>2, <2>13
  <2>19. \A y \in Members(IndexCells, h, on1) : rank2[y] = rank[y] /\ rank[y] < rank2[x]
    BY <2>15, <2>17, <2>18 DEF Members
  <2>20. List(IndexCells, h, next', on, rank2) /\ Doubly(IndexCells, h, next', prev', on)
    <3>1. AddsLast(IndexCells, h, on1, rank, on, rank2, x)
      BY <2>18, <2>19 DEF AddsLast
    <3>. QED
      BY <1>3, <2>3, <2>6, <2>10, <2>12, <2>14, <2>17, <3>1, HeadsApart, ListAppend
  <2>21. ByAge(c, on, rank2)'
    <3>1. \A y \in Members(IndexCells, ALLOC(c), on) \ {x} : rank2[y] = rank[y] /\ rank[y] < rank2[x]
      BY <2>18, <2>19 DEF h
    <3>2. Members(IndexCells, ALLOC(c), on) = Members(IndexCells, ALLOC(c), on) \cup {x}
      BY <2>2 DEF h
    <3>3. rank2[x] \in Int
      BY <2>15, <2>17
    <3>. QED
      BY <1>1, <1>3, <2>1, <2>3, <3>1, <3>2, <3>3, ByAgeAppend
  <2>22. Works(c, {h}, on, rank, on, rank2)
    <3>1. ASSUME NEW y \in (IndexCells \cup Heads), y \notin Members(IndexCells, h, on) \cup {h}
          PROVE  next'[y] = next[y] /\ prev'[y] = prev[y] /\ y # x
      <4>1. y \in Cells /\ y # h /\ y # x /\ y # prev[x] /\ y # next[x] /\ y # last
        BY <2>2, <2>4, <3>1, HeadsApart DEF last
      <4>. QED
        BY <4>1, <2>1, <2>3 DEF Links
    <3>2. \A g \in Heads \ {h} : g \notin Members(IndexCells, h, on) \cup {h}
      BY HeadsApart DEF Members
    <3>3. \A y \in IndexCells : on[y] # h => y \notin Members(IndexCells, h, on) \cup {h}
      BY <1>3, HeadsApart DEF Members
    <3>4. \A y \in IndexCells : y # x => time'[y] = time[y]
      BY <2>1, HeadsApart DEF Locked, DTyping
    <3>. QED
      BY <3>1, <3>2, <3>3, <3>4, <1>3, <2>1, <2>17 DEF Works, h
  <2>23. HasCell(c, on)'
    BY <1>1 DEF HasCell, Holding
  <2>24. \A y \in IndexCells : Marked(y, on)'
    BY <1>1, <2>1 DEF InPlaces, Marked
  <2>25. InPlaces(on, rank2)'
    <3>1. \A g \in {h} : List(IndexCells, g, next', on, rank2)
      BY <2>20
    <3>2. ALLOC(c) \in {h} => Doubly(IndexCells, ALLOC(c), next', prev', on) /\ ByAge(c, on, rank2)'
      BY <2>20, <2>21 DEF h
    <3>. QED
      BY <1>1, <1>2, <2>3, <2>17, <2>22, <2>23, <2>24, <3>1, <3>2, WorksInv
  <2>. QED
    BY <2>25 DEF DIInv
<1>. QED
  BY <1>4, <1>5
-----------------------------------------------------------------------------
(* Initially every core has its own chunk of the indexes on its free list, *)
(* in order.                                                               *)
LEMMA ChunkPositive == Chunk \in Nat \ {0} /\ Chunk * NumCores <= Size
  BY SizeAssumption DEF Chunk

(* The lists that concurrent_dchain_impl_init builds are labelled by the   *)
(* chunks.                                                                 *)
LEMMA DIInvInit == DchainInit => DIInv
<1>. SUFFICES ASSUME DchainInit PROVE DIInv
  OBVIOUS
<1>. DEFINE Part(x) == (x - INDEX_SHIFT) \div Chunk
            on == [x \in IndexCells |-> IF Part(x) < NumCores THEN FREE(Part(x)) ELSE Nowhere]
            rank == [x \in IndexCells |-> x]
<1>1. INDEX_SHIFT \in Nat /\ Size \in Nat /\ NumCores \in Nat \ {0}
  BY SizeAssumption DEF INDEX_SHIFT, GLOBAL
<1>2. ASSUME NEW x \in IndexCells PROVE x - INDEX_SHIFT \in Nat /\ Part(x) \in Nat /\ x \in Int
  <2>1. x - INDEX_SHIFT \in Nat /\ x \in Int
    BY <1>1 DEF IndexCells
  <2>. QED
    BY <2>1, ChunkPositive, ChunkBounds
<1>. HIDE DEF Part
<1>3. \A x \in IndexCells : /\ Part(x) < NumCores => on[x] = FREE(Part(x)) /\ Part(x) \in Cores
                            /\ ~(Part(x) < NumCores) => on[x] = Nowhere
                            /\ rank[x] = x /\ x \in Int
  BY <1>1, <1>2 DEF Cores
<1>4. on \in Labels(IndexCells) /\ rank \in Labels(IndexCells)
  BY <1>1, <1>2 DEF Labels, FREE, Nowhere
<1>. HIDE DEF on, rank
<1>5. \A x \in IndexCells : on[x] \in {Nowhere} \cup {FREE(k) : k \in Cores}
  BY <1>3
<1>6. ASSUME Size % NumCores = 0, NEW x \in IndexCells PROVE on[x] # Nowhere
  <2>1. x - INDEX_SHIFT \in Indexes
    BY CellFacts
  <2>2. Part(x) < NumCores
    <3>1. Size \div NumCores > 0 /\ x - INDEX_SHIFT \in 0..Size - 1
      BY <2>1, ChunkPositive DEF Chunk, Indexes
    <3>2. (x - INDEX_SHIFT) \div (Size \div NumCores) < NumCores
      BY <1>1, <1>6, <3>1, AllChunksTaken
    <3>. QED
      BY <3>2 DEF Part, Chunk
  <2>. QED
    BY <2>2, <1>3, PlaceFacts, CellFacts
<1>7. ASSUME NEW h \in Heads, \A k \in Cores : h # FREE(k)
      PROVE  Members(IndexCells, h, on) = {} /\ next[h] = h /\ prev[h] = h
  <2>1. Members(IndexCells, h, on) = {}
    BY <1>5, <1>7, PlaceFacts DEF Members
  <2>2. h < FREE(0) \/ h = GLOBAL
    <3>1. CASE h \in NumCores..2 * NumCores - 1
      <4>1. h - NumCores \in Cores /\ h = FREE(h - NumCores)
        BY <3>1, <1>1 DEF Cores, FREE
      <4>. QED
        BY <4>1, <1>7
    <3>. QED
      BY <3>1, <1>1 DEF Heads, FREE, GLOBAL
  <2>3. InitLink(h) = h
    BY <2>2, <1>1 DEF InitLink, FREE, GLOBAL
  <2>. QED
    BY <2>1, <2>3, HeadsApart DEF DchainInit
<1>8. ASSUME NEW h \in Heads, \A k \in Cores : h # FREE(k) PROVE List(IndexCells, h, next, on, rank) /\ Doubly(IndexCells, h, next, prev, on)
  BY <1>7, <1>8 DEF List, Leads, FirstIsLeast, Ascends, NoneBetween, RanksDiffer, Doubly
<1>9. ASSUME NEW k \in Cores PROVE List(IndexCells, FREE(k), next, on, rank)
  <2>. DEFINE h == FREE(k)
  <2>1. k \in Nat /\ k < NumCores /\ h \in Heads /\ h \in Cells /\ h \in Int /\ h < INDEX_SHIFT
    BY CellFacts, <1>1 DEF Cores, FREE, INDEX_SHIFT, GLOBAL
  <2>2. ASSUME NEW x \in IndexCells PROVE on[x] = h <=> Part(x) = k
    <3>1. CASE Part(x) < NumCores
      BY <3>1, <1>3, PlaceFacts
    <3>2. CASE ~(Part(x) < NumCores)
      BY <3>2, <2>1, <1>3, PlaceFacts, CellFacts
    <3>. QED
      BY <3>1, <3>2
  <2>3. next[h] = INDEX_SHIFT + Chunk * k
    <3>1. InitLink(h) = INDEX_SHIFT + Chunk * (h - FREE(0))
      BY <1>1, <2>1 DEF InitLink, FREE, GLOBAL
    <3>2. h - FREE(0) = k
      BY <1>1, <2>1 DEF FREE
    <3>. QED
      BY <3>1, <3>2, <2>1 DEF DchainInit
  <2>4. ASSUME NEW x \in IndexCells, Part(x) = k
        PROVE  next[x] = IF EndsChunk(x, INDEX_SHIFT, Size, Chunk) THEN h ELSE x + 1
    <3>1. x \in Cells
      BY HeadsApart
    <3>2. InitLink(x) = IF EndsChunk(x, INDEX_SHIFT, Size, Chunk) THEN FREE(Part(x)) ELSE x + 1
      BY <1>1 DEF InitLink, Part, FREE, GLOBAL, IndexCells, INDEX_SHIFT, EndsChunk
    <3>. QED
      BY <3>1, <3>2, <2>4 DEF DchainInit
  <2>5. Chunk * (k + 1) <= Size
    <3>1. \A a, b, n, s \in Nat : b < n /\ a * n <= s => a * (b + 1) <= s
      <4>. SUFFICES ASSUME NEW a \in Nat, NEW b \in Nat, NEW n \in Nat, NEW s \in Nat, b < n, a * n <= s
                    PROVE  a * (b + 1) <= s
        OBVIOUS
      <4>1. a * (b + 1) <= a * n
        OBVIOUS
      <4>2. a * (b + 1) \in Nat /\ a * n \in Nat
        OBVIOUS
      <4>. QED
        BY <4>1, <4>2
    <3>. QED
      BY <3>1, <2>1, <1>1, ChunkPositive
  <2>6. h \notin INDEX_SHIFT..INDEX_SHIFT + Size - 1 /\ IndexCells = INDEX_SHIFT..INDEX_SHIFT + Size - 1
    BY <2>1, HeadsApart DEF IndexCells
  <2>7. InChunk(h, next, on, rank, INDEX_SHIFT, Size, Chunk, k)
    BY <1>3, <2>2, <2>3, <2>4, <2>6 DEF InChunk, ChunkOf, Part
  <2>. HIDE DEF h
  <2>8. List(INDEX_SHIFT..INDEX_SHIFT + Size - 1, h, next, on, rank)
    BY <1>1, <2>1, <2>5, <2>6, <2>7, ChunkPositive, ChunkList
  <2>. QED
    BY <2>6, <2>8 DEF h
<1>10. \A h \in Heads : List(IndexCells, h, next, on, rank)
  BY <1>8, <1>9
<1>11. ASSUME NEW c \in Cores PROVE Doubly(IndexCells, ALLOC(c), next, prev, on) /\ ByAge(c, on, rank) /\ HasCell(c, on)
  <2>1. ALLOC(c) \in Heads /\ \A k \in Cores : ALLOC(c) # FREE(k)
    BY CellFacts, PlaceFacts
  <2>2. ByAge(c, on, rank)
    BY <2>1, <1>7 DEF ByAge
  <2>3. \A x \in IndexCells : on[x] # Hand(c)
    BY <1>5, PlaceFacts, CellFacts
  <2>4. HasCell(c, on)
    BY <2>3 DEF HasCell, Holding, DchainInit
  <2>. QED
    BY <2>1, <2>2, <2>4, <1>8
<1>12. ASSUME NEW x \in IndexCells PROVE Marked(x, on)
  <2>1. list_ind[x] = -1
    BY HeadsApart, <1>1 DEF DchainInit, IndexCells, INDEX_SHIFT, FREE, GLOBAL
  <2>2. \A c \in Cores : -1 # c /\ on[x] # ALLOC(c) /\ on[x] # Hand(c)
    BY <1>5, PlaceFacts, CellFacts DEF Cores
  <2>. QED
    BY <2>1, <2>2 DEF Marked
<1>13. InPlaces(on, rank)
  BY <1>4, <1>5, <1>6, <1>10, <1>11, <1>12, CellFacts DEF InPlaces, Complete
<1>. QED
  BY <1>13 DEF DIInv
-----------------------------------------------------------------------------
(* Every step leaves a labelling. *)
LEMMA DIInvNext ==
  ASSUME Locked, DIInv, [DchainNext]_dchainVars
  PROVE  DIInv'
<1>1. PICK on, rank : InPlaces(on, rank)
  BY DEF DIInv
<1>2. InPlaces(on, rank)' => DIInv'
  BY DEF DIInv
<1>3. CASE UNCHANGED dchainVars
  <2>1. InPlaces(on, rank)'
    BY <1>1, <1>3 DEF dchainVars, lists, InPlaces, Complete, ByAge, HasCell, FirstGlobal, Marked
  <2>. QED
    BY <2>1, <1>2
<1>4. ASSUME NEW c \in Cores, AllocateNewIndex(c) \/ AllocateStep(c) \/ FreeStep(c) \/ Tick(c) PROVE DIInv'
  BY <1>1, <1>2, <1>4, AllocateNewIndexInv, AllocLockInv, AllocReadInv, AllocUnhookInv, AllocLinkInv,
     GlobalLockInv, GrabCoreLockInv, FillReadInv, FillMoveInv, GlobalRetryInv, UngrabCoreLockInv,
     GlobalPopInv, FreeLockInv, FreeHookInv, FreePushInv, TickInv
     DEF AllocateStep, FreeStep
<1>5. ASSUME NEW c \in Cores, NEW i \in Indexes, FreeIndex(c, i) PROVE DIInv'
  <2>1. i \in Int /\ i + INDEX_SHIFT \in IndexCells
    BY CellFacts, SizeAssumption DEF Indexes
  <2>. QED
    BY <1>1, <1>5, <2>1, FreeIndexInv
<1>6. ASSUME NEW c \in Cores, NEW i \in Indexes, RejuvenateIndex(c, i) PROVE DIInv'
  BY <1>1, <1>6, RejuvenateIndexInv
<1>7. ASSUME NEW c \in Cores, NEW bound \in 0..now[c], ExpireOneIndex(c, bound) PROVE DIInv'
  <2>1. next[ALLOC(c)] \in IndexCells
    <3>1. ALLOC(c) \in Heads /\ next[ALLOC(c)] # ALLOC(c)
      BY <1>7, CellFacts DEF ExpireOneIndex, HasExpiredIndex
    <3>. QED
      BY <3>1, <1>1 DEF InPlaces, List, Leads, Members
  <2>2. Oldest(c) \in Int /\ Oldest(c) + INDEX_SHIFT \in IndexCells
    BY <2>1, SizeAssumption DEF Oldest, IndexCells, INDEX_SHIFT, GLOBAL
  <2>. QED
    BY <1>1, <1>7, <2>2, FreeIndexInv DEF ExpireOneIndex
<1>. QED
  BY <1>3, <1>4, <1>5, <1>6, <1>7 DEF DchainNext

(* A core between operations, or waiting for a lock before it has seen a   *)
(* cell, has none.                                                         *)
EmptyHanded ==
  \A c \in Cores : op[c] \in {"none", "lock", "pop", "glock", "grab", "fill", "retry"} => cell[c] = NoCell

(* A core drops its cell at the end of an operation. *)
LEMMA EmptyHandedNext ==
  ASSUME Locked, DIInv, EmptyHanded, [DchainNext]_dchainVars
  PROVE  EmptyHanded'
<1>. DEFINE Empty == {"none", "lock", "pop", "glock", "grab", "fill", "retry"}
<1>1. PICK on, rank : InPlaces(on, rank)
  BY DEF DIInv
<1>2. CASE UNCHANGED dchainVars
  BY <1>2 DEF dchainVars, EmptyHanded
<1>3. ASSUME NEW c \in Cores, op'[c] \in Empty => cell'[c] = NoCell,
             \A d \in Cores \ {c} : op'[d] = op[d] /\ cell'[d] = cell[d]
      PROVE  EmptyHanded'
  BY <1>3 DEF EmptyHanded
<1>4. ASSUME NEW c \in Cores, NEW i \in Int, FreeIndex(c, i) PROVE EmptyHanded'
  BY <1>3, <1>4 DEF FreeIndex, Goto, Locked, DTyping
<1>5. ASSUME NEW c \in Cores, NEW i \in Indexes, RejuvenateIndex(c, i) PROVE EmptyHanded'
  BY <1>5 DEF RejuvenateIndex, EmptyHanded
<1>6. ASSUME NEW c \in Cores, AllocateNewIndex(c) \/ Tick(c) \/ AllocLock(c) \/ AllocRead(c) PROVE EmptyHanded'
  BY <1>3, <1>6 DEF AllocateNewIndex, Tick, AllocLock, AllocRead, Goto, Locked, DTyping, EmptyHanded
<1>7. ASSUME NEW c \in Cores, AllocUnhook(c) \/ AllocLink(c) \/ GlobalLock(c) PROVE EmptyHanded'
  BY <1>3, <1>7 DEF AllocUnhook, AllocLink, GlobalLock, Goto, Locked, DTyping, EmptyHanded
<1>8. ASSUME NEW c \in Cores, GrabCoreLock(c) \/ FillRead(c) PROVE EmptyHanded'
  BY <1>3, <1>8 DEF GrabCoreLock, FillRead, Iterate, Goto, Locked, DTyping, EmptyHanded
<1>9. ASSUME NEW c \in Cores, FillMove(c) \/ GlobalRetry(c) PROVE EmptyHanded'
  BY <1>3, <1>9 DEF FillMove, GlobalRetry, Goto, Locked, DTyping, EmptyHanded
<1>10. ASSUME NEW c \in Cores, UngrabCoreLock(c) \/ GlobalPop(c) PROVE EmptyHanded'
  BY <1>3, <1>10 DEF UngrabCoreLock, GlobalPop, Iterate, Goto, Locked, DTyping, EmptyHanded
<1>11. ASSUME NEW c \in Cores, FreeStep(c) PROVE EmptyHanded'
  BY <1>3, <1>11 DEF FreeStep, FreeLock, FreeHook, FreePush, Goto, Locked, DTyping, EmptyHanded
<1>12. ASSUME NEW c \in Cores, NEW bound \in 0..now[c], ExpireOneIndex(c, bound) PROVE EmptyHanded'
  <2>1. next[ALLOC(c)] \in Int /\ INDEX_SHIFT \in Int
    BY CellFacts, SizeAssumption DEF Locked, DTyping, Links, Cells, INDEX_SHIFT, GLOBAL
  <2>2. Oldest(c) \in Int
    BY <2>1 DEF Oldest
  <2>. QED
    BY <2>2, <1>4, <1>12 DEF ExpireOneIndex
<1>13. Indexes \subseteq Int
  BY DEF Indexes
<1>. QED
  BY <1>2, <1>4, <1>5, <1>6, <1>7, <1>8, <1>9, <1>10, <1>11, <1>12, <1>13 DEF DchainNext, AllocateStep

DInvariant == Locked /\ DIInv /\ EmptyHanded

(* The invariant holds initially ... *)
LEMMA DInvariantInit == DchainInit => DInvariant
<1>1. DchainInit => EmptyHanded
  BY DEF DchainInit, EmptyHanded
<1>. QED
  BY <1>1, LockedInit, DIInvInit DEF DInvariant

(* ... and is inductive. *)
LEMMA DInvariantNext == DInvariant /\ [DchainNext]_dchainVars => DInvariant'
  BY LockedNext, DIInvNext, EmptyHandedNext DEF DInvariant

(* The invariant holds in all reachable states: at all times the cells can *)
(* be labelled with the places where they are.                             *)
THEOREM DchainInvariance == DchainSpec => []DInvariant
  BY DInvariantInit, DInvariantNext, PTL DEF DchainSpec
-----------------------------------------------------------------------------
(* The local variables allocated and freed hold cells of indexes only: a   *)
(* head is never allocated or freed.                                       *)
LEMMA DInvariantTypes == DInvariant => DchainTypeOK
<1>. SUFFICES ASSUME DInvariant PROVE DchainTypeOK
  OBVIOUS
<1>1. PICK on, rank : InPlaces(on, rank)
  BY DEF DInvariant, DIInv
<1>2. \A h \in Heads : next[h] # h => next[h] \in IndexCells
  BY <1>1 DEF InPlaces, List, Leads, Members
<1>3. ASSUME NEW c \in Cores PROVE cell[c] \in IndexCells \cup {NoCell}
  <2>1. op[c] \in Ops /\ iter[c] \in Cores
    BY DEF DInvariant, Locked, DTyping
  <2>2. HasCell(c, on)
    BY <1>1 DEF InPlaces
  <2>3. CASE op[c] \in Holding
    BY <2>2, <2>3 DEF HasCell
  <2>4. CASE op[c] \in Taking
    BY <2>1, <2>2, <2>4, <1>2, CellFacts DEF HasCell, Taking
  <2>5. CASE op[c] \in {"ungrab", "gpop"}
    BY <2>2, <2>5, <1>2, CellFacts DEF HasCell, FirstGlobal
  <2>6. CASE op[c] \in {"none", "lock", "pop", "glock", "grab", "fill", "retry"}
    BY <2>6 DEF DInvariant, EmptyHanded
  <2>. QED
    BY <2>1, <2>3, <2>4, <2>5, <2>6 DEF Ops, Holding, Taking
<1>4. cell \in [Cores -> IndexCells \cup {NoCell}]
  BY <1>3 DEF DInvariant, Locked, DTyping
<1>. QED
  BY <1>4 DEF DInvariant, Locked, DTyping, DchainTypeOK, Links, Ops

(* The variables have their types; in particular no operation takes the    *)
(* head of a list for a cell.                                              *)
THEOREM DchainTypeCorrect == DchainSpec => []DchainTypeOK
  BY DchainInvariance, DInvariantTypes, PTL

(* No index is in two places, also when the number of cores does not       *)
(* divide the number of indexes and some are in none.                      *)
PlaceCount(x) ==
  LET On == [h \in Heads |-> CellsOf(h)] IN
  Cardinality({h \in Heads : x \in On[h]}) + Cardinality({c \in Cores : x \in InHand(c)})

NoIndexTwice == \A x \in IndexCells : PlaceCount(x) <= 1

(* Counting places. *)
LEMMA CardinalityFacts == Cardinality({}) = 0 /\ \A e : Cardinality({e}) = 1
  BY FS_EmptySet, FS_Singleton

(* The places of a cell, by its label. *)
LEMMA PlacesOf ==
  ASSUME DInvariant, NEW on, NEW rank, InPlaces(on, rank), NEW x \in IndexCells
  PROVE  IF on[x] = Nowhere THEN PlaceCount(x) = 0 ELSE PlaceCount(x) = 1
<1>. DEFINE On == [h \in Heads |-> CellsOf(h)]
            H == {h \in Heads : x \in On[h]}
            C == {c \in Cores : x \in InHand(c)}
<1>1. ASSUME NEW h \in Heads PROVE x \in On[h] <=> on[x] = h
  <2>1. next \in Links(Cells) /\ on \in Labels(IndexCells) /\ rank \in Labels(IndexCells) /\ List(IndexCells, h, next, on, rank)
    BY DEF DInvariant, Locked, DTyping, InPlaces
  <2>2. CellsOf(h) = Members(IndexCells, h, on)
    BY <2>1, ListOfEnumerates
  <2>3. On[h] = Members(IndexCells, h, on)
    BY <2>2
  <2>. QED
    BY <2>3 DEF Members
<1>2. ASSUME NEW c \in Cores PROVE x \in InHand(c) <=> on[x] = Hand(c)
  BY DEF InHand, InPlaces, HasCell, Holding
<1>3. H = {h \in Heads : on[x] = h} /\ C = {c \in Cores : on[x] = Hand(c)}
  BY <1>1, <1>2
<1>4. PlaceCount(x) = Cardinality(H) + Cardinality(C)
  BY DEF PlaceCount
<1>. HIDE DEF H, C
<1>5. on[x] \in {Nowhere} \cup Heads \cup {Hand(c) : c \in Cores}
  BY DEF InPlaces
<1>6. CASE on[x] = Nowhere
  <2>1. H = {} /\ C = {}
    BY <1>3, <1>6, PlaceFacts
  <2>. QED
    BY <2>1, <1>6, <1>4, CardinalityFacts
<1>7. CASE on[x] \in Heads
  <2>1. H = {on[x]} /\ C = {} /\ on[x] # Nowhere
    BY <1>3, <1>7, PlaceFacts
  <2>2. Cardinality(H) = 1 /\ Cardinality(C) = 0
    BY <2>1, CardinalityFacts
  <2>. QED
    BY <2>1, <2>2, <1>4
<1>8. ASSUME NEW c \in Cores, on[x] = Hand(c)
      PROVE  on[x] # Nowhere /\ Cardinality(H) = 0 /\ Cardinality(C) = 1
  <2>1. H = {} /\ C = {c} /\ on[x] # Nowhere
    BY <1>3, <1>8, PlaceFacts
  <2>. QED
    BY <2>1, CardinalityFacts
<1>. QED
  BY <1>5, <1>6, <1>7, <1>8, <1>4

(* No index is ever on two lists, on a list and in a hand or in two hands, *)
(* whichever cores allocate, free and refill at the same time.             *)
THEOREM OneOwner == DchainSpec => []NoIndexTwice
<1>1. DInvariant => NoIndexTwice
  <2>. SUFFICES ASSUME DInvariant PROVE NoIndexTwice
    OBVIOUS
  <2>1. PICK on, rank : InPlaces(on, rank)
    BY DEF DInvariant, DIInv
  <2>2. \A x \in IndexCells : PlaceCount(x) \in {0, 1}
    BY <2>1, PlacesOf
  <2>. QED
    BY <2>2 DEF NoIndexTwice
<1>. QED
  BY <1>1, DchainInvariance, PTL

(* If the number of cores divides the number of indexes, every index is in *)
(* exactly one place at all times: concurrent allocations, frees and       *)
(* refills lose no index. Without the hypothesis it is false: init leaves  *)
(* the indexes of a last, incomplete chunk on no list.                     *)
THEOREM NoIndexLost ==
  ASSUME Size % NumCores = 0
  PROVE  DchainSpec => []EveryIndexInOnePlace
<1>1. DInvariant => EveryIndexInOnePlace
  <2>. SUFFICES ASSUME DInvariant PROVE EveryIndexInOnePlace
    OBVIOUS
  <2>1. PICK on, rank : InPlaces(on, rank)
    BY DEF DInvariant, DIInv
  <2>2. \A x \in IndexCells : on[x] # Nowhere
    BY <2>1 DEF InPlaces, Complete
  <2>3. \A x \in IndexCells : PlaceCount(x) = 1
    BY <2>1, <2>2, PlacesOf
  <2>. QED
    BY <2>3 DEF EveryIndexInOnePlace, PlaceCount
<1>. QED
  BY <1>1, DchainInvariance, PTL

(* The alloc list of a core, in terms of the labelling. *)
LEMMA AllocListFacts ==
  ASSUME DInvariant, NEW on, NEW rank, InPlaces(on, rank), NEW c \in Cores
  PROVE  /\ Enumerates(IndexCells, ListOf(ALLOC(c)), ALLOC(c), on, rank) /\ CellsOf(ALLOC(c)) = Members(IndexCells, ALLOC(c), on)
         /\ List(IndexCells, ALLOC(c), next, on, rank) /\ Doubly(IndexCells, ALLOC(c), next, prev, on) /\ ByAge(c, on, rank)
<1>1. /\ next \in Links(Cells) /\ on \in Labels(IndexCells) /\ rank \in Labels(IndexCells) /\ List(IndexCells, ALLOC(c), next, on, rank) /\ ALLOC(c) \in Heads
      /\ Doubly(IndexCells, ALLOC(c), next, prev, on) /\ ByAge(c, on, rank)
  BY CellFacts DEF DInvariant, Locked, DTyping, InPlaces
<1>. QED
  BY <1>1, ListOfEnumerates

(* Alloc lists are linked consistently in both directions, and the test of *)
(* is_index_allocated answers for exactly the cells on the list.           *)
THEOREM AllocListsAreSound == DchainSpec => []AllocListsSound
<1>1. ASSUME DInvariant, NEW c \in Cores
      PROVE  LET L == ListOf(ALLOC(c)) IN
             /\ \A n \in DOMAIN L : prev[next[L[n]]] = L[n]
             /\ prev[next[ALLOC(c)]] = ALLOC(c)
             /\ op[c] = "none" =>
                  \A i \in Indexes : IsIndexAllocated(c, i) <=> i + INDEX_SHIFT \in CellsOf(ALLOC(c))
  <2>. DEFINE h == ALLOC(c)
              L == ListOf(h)
  <2>1. PICK on, rank : InPlaces(on, rank)
    BY <1>1 DEF DInvariant, DIInv
  <2>2. /\ Enumerates(IndexCells, L, h, on, rank) /\ CellsOf(h) = Members(IndexCells, h, on)
        /\ List(IndexCells, h, next, on, rank) /\ Doubly(IndexCells, h, next, prev, on)
    BY <1>1, <2>1, AllocListFacts
  <2>. HIDE DEF L
  <2>3. \A n \in DOMAIN L : prev[next[L[n]]] = L[n]
    BY <2>2 DEF Enumerates, Doubly
  <2>4. prev[next[h]] = h
    BY <2>2 DEF Doubly
  <2>5. ASSUME op[c] = "none", NEW i \in Indexes
        PROVE  IsIndexAllocated(c, i) <=> i + INDEX_SHIFT \in CellsOf(h)
    <3>. DEFINE x == i + INDEX_SHIFT
    <3>1. x \in IndexCells /\ h = c
      BY CellFacts DEF ALLOC
    <3>. HIDE DEF x
    <3>2. list_ind[x] = c <=> on[x] = h
      BY <2>1, <2>5, <3>1 DEF InPlaces, Marked
    <3>3. on[x] = h <=> x \in CellsOf(h)
      BY <2>2, <3>1 DEF Members
    <3>4. ASSUME on[x] = h, next[x] = prev[x], next[x] # h PROVE FALSE
      <4>. DEFINE y == next[x]
      <4>1. x \in Members(IndexCells, h, on)
        BY <3>1, <3>4 DEF Members
      <4>2. y \in Members(IndexCells, h, on) /\ next[y] = x /\ x # h
        BY <4>1, <3>4, <2>2, <3>1, CellFacts, HeadsApart DEF List, Leads, Doubly
      <4>3. rank[x] < rank[y]
        BY <4>1, <4>2, <3>4, <2>2 DEF List, Ascends
      <4>4. rank[y] < rank[x]
        BY <4>1, <4>2, <2>2 DEF List, Ascends
      <4>5. rank[x] \in Int /\ rank[y] \in Int
        BY <4>1, <4>2, <2>1 DEF InPlaces, Labels, Members
      <4>. QED
        BY <4>3, <4>4, <4>5
    <3>. QED
      BY <3>1, <3>2, <3>3, <3>4 DEF IsIndexAllocated, x
  <2>. QED
    BY <2>3, <2>4, <2>5 DEF L
<1>2. DInvariant => AllocListsSound
  BY <1>1 DEF AllocListsSound
<1>. QED
  BY <1>2, DchainInvariance, PTL

(* Alloc lists are ordered by timestamp, oldest first. *)
THEOREM OldestIsFirst == DchainSpec => []OldestFirst
<1>1. ASSUME DInvariant, NEW c \in Cores
      PROVE  LET L == ListOf(ALLOC(c)) IN
             \A m, n \in DOMAIN L : m < n => time[L[m]] <= time[L[n]]
  <2>. DEFINE h == ALLOC(c)
              L == ListOf(h)
  <2>1. PICK on, rank : InPlaces(on, rank)
    BY <1>1 DEF DInvariant, DIInv
  <2>2. Enumerates(IndexCells, L, h, on, rank) /\ ByAge(c, on, rank)
    BY <1>1, <2>1, AllocListFacts
  <2>. HIDE DEF L
  <2>3. \A m, n \in DOMAIN L : m < n => time[L[m]] <= time[L[n]]
    BY <2>2 DEF Enumerates, ByAge
  <2>. QED
    BY <2>3 DEF L
<1>2. DInvariant => OldestFirst
  BY <1>1 DEF OldestFirst
<1>. QED
  BY <1>2, DchainInvariance, PTL
-----------------------------------------------------------------------------
(* The refill under all the locks moves an index to the global list unless *)
(* every free list is empty.                                               *)
NoneFree(k) == next[FREE(k)] = FREE(k)

RefillSees ==
  \A c \in Cores :
    next[GLOBAL] = GLOBAL =>
      /\ op[c] \in {"fill", "move"} => \A k \in Cores : k < iter[c] => NoneFree(k)
      /\ op[c] = "retry" => \A k \in Cores : NoneFree(k)

(* The heads of the free lists and of the global list, which a refilling   *)
(* core reads.                                                             *)
FreeHeadsKept == next'[GLOBAL] = next[GLOBAL] /\ \A k \in Cores : next'[FREE(k)] = next[FREE(k)]

(* The steps that take no lock do not touch the heads of free lists. *)
LEMMA UnlockedStepKeepsFreeHeads ==
  ASSUME DInvariant, NEW c \in Cores,
         AllocLink(c) \/ (\E i \in Int : i + INDEX_SHIFT \in IndexCells /\ FreeIndex(c, i))
                      \/ (\E i \in Indexes : RejuvenateIndex(c, i))
  PROVE  FreeHeadsKept
<1>. DEFINE h == ALLOC(c)
            Own == IndexCells \cup {h}
<1>1. PICK on, rank : InPlaces(on, rank)
  BY DEF DInvariant, DIInv
<1>2. List(IndexCells, h, next, on, rank) /\ Doubly(IndexCells, h, next, prev, on) /\ HasCell(c, on) /\ Members(IndexCells, h, on) \subseteq IndexCells
  BY <1>1, CellFacts DEF InPlaces, Members
<1>3. next \in Links(Cells) /\ prev \in Links(Cells) /\ h \in Cells /\ IndexCells \subseteq Cells
  BY CellFacts, HeadsApart DEF DInvariant, Locked, DTyping
<1>4. ASSUME \A y \in Cells \ Own : next'[y] = next[y] PROVE FreeHeadsKept
  <2>1. GLOBAL \in Cells \ Own /\ \A k \in Cores : FREE(k) \in Cells \ Own
    BY CellFacts, PlaceFacts, HeadsApart
  <2>. QED
    BY <2>1, <1>4 DEF FreeHeadsKept
<1>5. prev[h] \in Own
  BY <1>2 DEF Doubly
<1>6. ASSUME NEW x \in Members(IndexCells, h, on) PROVE prev[x] \in Own
  BY <1>2, <1>6 DEF Doubly
<1>7. ASSUME NEW i \in Int, i + INDEX_SHIFT \in IndexCells, IsIndexAllocated(c, i), op[c] = "none"
      PROVE  i + INDEX_SHIFT \in Members(IndexCells, h, on)
  BY <1>1, <1>2, <1>7 DEF IsIndexAllocated, InPlaces, Marked, Members, ALLOC
<1>8. CASE AllocLink(c)
  <2>1. cell[c] \in Own
    BY <1>2, <1>8 DEF AllocLink, HasCell, Holding
  <2>2. next' = [next EXCEPT ![cell[c]] = h, ![prev[h]] = cell[c]]
    BY <1>8 DEF AllocLink
  <2>. QED
    BY <2>1, <2>2, <1>3, <1>4, <1>5 DEF Links
<1>9. ASSUME NEW i \in Int, i + INDEX_SHIFT \in IndexCells, FreeIndex(c, i) PROVE FreeHeadsKept
  <2>. DEFINE x == i + INDEX_SHIFT
  <2>1. prev[x] \in Own
    BY <1>6, <1>7, <1>9 DEF FreeIndex
  <2>2. next' = [next EXCEPT ![prev[x]] = next[x]]
    BY <1>9 DEF FreeIndex, Unlink
  <2>. QED
    BY <2>1, <2>2, <1>3, <1>4 DEF Links
<1>10. ASSUME NEW i \in Indexes, RejuvenateIndex(c, i) PROVE FreeHeadsKept
  <2>. DEFINE x == i + INDEX_SHIFT
              last == IF next[x] = h THEN prev[x] ELSE prev[h]
  <2>1. i \in Int /\ x \in IndexCells
    BY CellFacts DEF Indexes
  <2>2. CASE IsIndexAllocated(c, i) /\ next[x] # prev[x]
    <3>1. prev[x] \in Own /\ x \in Own /\ last \in Own
      BY <1>5, <1>6, <1>7, <1>10, <2>1, <2>2 DEF RejuvenateIndex
    <3>2. next' = [next EXCEPT ![prev[x]] = next[x], ![x] = h, ![last] = x]
      BY <1>10, <2>2 DEF RejuvenateIndex, Rejuvenate
    <3>. HIDE DEF last, x
    <3>. QED
      BY <3>1, <3>2, <1>3, <1>4 DEF Links
  <2>3. CASE ~(IsIndexAllocated(c, i) /\ next[x] # prev[x])
    BY <1>10, <2>3 DEF RejuvenateIndex, Rejuvenate, lists, FreeHeadsKept
  <2>. QED
    BY <2>2, <2>3
<1>. QED
  BY <1>8, <1>9, <1>10

CoreStep(c) ==
  \/ AllocateNewIndex(c) \/ AllocateStep(c) \/ FreeStep(c) \/ Tick(c)
  \/ \E i \in Int : i + INDEX_SHIFT \in IndexCells /\ FreeIndex(c, i)
  \/ \E i \in Indexes : RejuvenateIndex(c, i)

(* A step of the allocator is a step of one core. *)
LEMMA StepsOfCores ==
  ASSUME DInvariant, DchainNext
  PROVE  \E c \in Cores : CoreStep(c)
<1>1. \A i \in Indexes : i \in Int /\ i + INDEX_SHIFT \in IndexCells
  BY CellFacts DEF Indexes
<1>2. PICK on, rank : InPlaces(on, rank)
  BY DEF DInvariant, DIInv
<1>3. ASSUME NEW c \in Cores, NEW bound \in 0..now[c], ExpireOneIndex(c, bound)
      PROVE  \E i \in Int : i + INDEX_SHIFT \in IndexCells /\ FreeIndex(c, i)
  <2>1. ALLOC(c) \in Heads /\ next[ALLOC(c)] # ALLOC(c)
    BY <1>3, CellFacts DEF ExpireOneIndex, HasExpiredIndex
  <2>2. next[ALLOC(c)] \in IndexCells
    BY <2>1, <1>2 DEF InPlaces, List, Leads, Members
  <2>3. Oldest(c) \in Int /\ Oldest(c) + INDEX_SHIFT \in IndexCells
    BY <2>2, SizeAssumption DEF Oldest, IndexCells, INDEX_SHIFT, GLOBAL
  <2>. QED
    BY <2>3, <1>3 DEF ExpireOneIndex
<1>. QED
  BY <1>1, <1>3 DEF DchainNext, CoreStep

(* ... which takes and gives back locks for itself only. *)
LEMMA CoreStepOwnLocks ==
  ASSUME Locked, NEW c \in Cores, CoreStep(c)
  PROVE  OwnLocks(c)
<1>1. ASSUME NEW i \in Int, i + INDEX_SHIFT \in IndexCells, FreeIndex(c, i) PROVE OwnLocks(c)
  <2>1. i + INDEX_SHIFT \in Cells
    BY <1>1, HeadsApart
  <2>. QED
    BY <1>1, <2>1, FreeIndexLocked
<1>2. CASE AllocateNewIndex(c) \/ AllocateStep(c) \/ FreeStep(c) \/ Tick(c)
  BY <1>2, AllocateNewIndexLocked, AllocLockLocked, AllocReadLocked, AllocUnhookLocked, AllocLinkLocked,
     GlobalLockLocked, GrabCoreLockLocked, FillReadLocked, FillMoveLocked, GlobalRetryLocked,
     UngrabCoreLockLocked, GlobalPopLocked, FreeLockLocked, FreeHookLocked, FreePushLocked, TickLocked
     DEF AllocateStep, FreeStep
<1>. QED
  BY <1>1, <1>2, RejuvenateIndexLocked DEF CoreStep

(* While a core refills, the others cannot touch a free list. *)
LEMMA RefillExcludesOthers ==
  ASSUME DInvariant, NEW c \in Cores, CoreStep(c), NEW d \in Cores \ {c}, op[d] \in {"fill", "move", "retry"}
  PROVE  FreeHeadsKept
<1>1. global_lock = d /\ dchain_locks[c] = d /\ d # NoCore /\ HoldsLocks(c)
  BY CoresFacts DEF DInvariant, Locked, HoldsLocks
<1>2. op[c] \in {"none", "lock", "link", "glock", "flock"}
  BY <1>1 DEF DInvariant, Locked, DTyping, HoldsLocks, Ops
<1>3. CASE AllocateNewIndex(c) \/ Tick(c)
  BY <1>3 DEF AllocateNewIndex, Tick, lists, FreeHeadsKept
<1>4. CASE AllocateStep(c) \/ FreeStep(c)
  <2>1. AllocLink(c)
    BY <1>1, <1>2, <1>4
       DEF AllocateStep, FreeStep, AllocLock, AllocRead, AllocUnhook, GlobalLock, GrabCoreLock, FillRead, FillMove,
           GlobalRetry, UngrabCoreLock, GlobalPop, FreeLock, FreeHook, FreePush, Acquire
  <2>. QED
    BY <2>1, UnlockedStepKeepsFreeHeads
<1>. QED
  BY <1>3, <1>4, UnlockedStepKeepsFreeHeads DEF CoreStep

(* The free lists that a refill has found empty stay so while it goes on. *)
LEMMA RefillSeesNext ==
  ASSUME DInvariant, DInvariant', RefillSees, [DchainNext]_dchainVars
  PROVE  RefillSees'
<1>. DEFINE Filling == {"fill", "move", "retry"}
            Sees(d) == next[GLOBAL] = GLOBAL =>
                         /\ op[d] \in {"fill", "move"} => \A k \in Cores : k < iter[d] => NoneFree(k)
                         /\ op[d] = "retry" => \A k \in Cores : NoneFree(k)
<1>1. CASE UNCHANGED dchainVars
  BY <1>1 DEF dchainVars, lists, RefillSees, NoneFree
<1>2. ASSUME NEW c \in Cores, CoreStep(c) PROVE RefillSees'
  <2>1. ASSUME NEW d \in Cores \ {c} PROVE Sees(d)'
    <3>1. op'[d] = op[d] /\ iter'[d] = iter[d]
      BY <1>2, CoreStepOwnLocks DEF OwnLocks, DInvariant
    <3>2. CASE op[d] \in Filling
      BY <3>1, <3>2, <1>2, RefillExcludesOthers DEF RefillSees, FreeHeadsKept, NoneFree
    <3>3. CASE op[d] \notin Filling
      BY <3>1, <3>3
    <3>. QED
      BY <3>2, <3>3
  <2>2. op[c] \in Ops /\ iter[c] \in Cores /\ op'[c] \in Ops /\ iter'[c] \in Cores /\ HoldsLocks(c) /\ HoldsLocks(c)'
    BY DEF DInvariant, Locked, DTyping
  <2>3. Sees(c)'
    <3>1. CASE op'[c] \notin Filling
      BY <3>1
    <3>2. CASE GrabCoreLock(c)
      <4>1. op'[c] \in Filling => iter'[c] = 0 /\ op'[c] = "fill"
        BY <3>2, <2>2 DEF GrabCoreLock, Iterate, Goto, DInvariant, Locked, DTyping
      <4>2. \A k \in Cores : ~(k < 0)
        BY DEF Cores
      <4>. QED
        BY <4>1, <4>2
    <3>3. CASE FillRead(c)
      <4>1. op[c] = "fill" /\ next' = next
        BY <3>3 DEF FillRead, lists
      <4>2. CASE next[FREE(iter[c])] # FREE(iter[c])
        <5>1. op'[c] = "move" /\ iter'[c] = iter[c]
          BY <3>3, <4>2 DEF FillRead, Goto, DInvariant, Locked, DTyping
        <5>. QED
          BY <5>1, <4>1 DEF RefillSees, NoneFree
      <4>3. CASE next[FREE(iter[c])] = FREE(iter[c])
        <5>1. \/ op'[c] = "fill" /\ iter'[c] = iter[c] + 1
              \/ op'[c] = "retry" /\ ~(iter[c] + 1 < NumCores)
          BY <3>3, <4>1, <4>3 DEF FillRead, Iterate, Goto, DInvariant, Locked, DTyping
        <5>2. iter[c] \in Nat /\ NoneFree(iter[c])
          BY <4>3, <2>2, CoresFacts DEF NoneFree
        <5>3. \A k \in Cores : k < iter[c] + 1 => k < iter[c] \/ k = iter[c]
          BY <5>2 DEF Cores
        <5>4. ~(iter[c] + 1 < NumCores) => \A k \in Cores : k < iter[c] + 1
          BY <5>2, SizeAssumption DEF Cores
        <5>5. next[GLOBAL] = GLOBAL => \A k \in Cores : k < iter[c] => NoneFree(k)
          BY <4>1 DEF RefillSees
        <5>6. next[GLOBAL] = GLOBAL => \A k \in Cores : k < iter[c] + 1 => NoneFree(k)
          BY <5>2, <5>3, <5>5
        <5>. QED
          BY <5>1, <5>4, <5>6, <4>1 DEF NoneFree
      <4>. QED
        BY <4>2, <4>3
    <3>4. CASE FillMove(c)
      <4>1. cell[c] \in IndexCells
        <5>1. op[c] = "move" /\ NoCell \notin Cells
          BY <3>4, CoresFacts DEF FillMove
        <5>2. cell[c] \in Cells /\ cell[c] \in IndexCells \cup {NoCell}
          BY <5>1, DInvariantTypes DEF DInvariant, Locked, DTyping, Taking, DchainTypeOK
        <5>. QED
          BY <5>1, <5>2
      <4>2. next'[GLOBAL] = cell[c] /\ cell[c] # GLOBAL
        BY <3>4, <4>1, CellFacts, HeadsApart DEF FillMove, DInvariant, Locked, DTyping, Links
      <4>. QED
        BY <4>2
    <3>5. CASE AllocLock(c) \/ AllocRead(c) \/ AllocUnhook(c) \/ AllocLink(c) \/ GlobalLock(c) \/ GlobalRetry(c)
      BY <3>1, <3>5 DEF AllocLock, AllocRead, AllocUnhook, AllocLink, GlobalLock, GlobalRetry, Goto,
                        DInvariant, Locked, DTyping
    <3>6. CASE UngrabCoreLock(c) \/ GlobalPop(c)
      BY <3>1, <3>6 DEF UngrabCoreLock, GlobalPop, Iterate, Goto, DInvariant, Locked, DTyping
    <3>7. CASE AllocateNewIndex(c) \/ FreeStep(c) \/ Tick(c)
      BY <3>1, <3>7 DEF AllocateNewIndex, FreeStep, FreeLock, FreeHook, FreePush, Tick, Goto,
                        DInvariant, Locked, DTyping
    <3>8. CASE \E i \in Int : i + INDEX_SHIFT \in IndexCells /\ FreeIndex(c, i)
      BY <3>1, <3>8 DEF FreeIndex, Goto, DInvariant, Locked, DTyping
    <3>9. CASE \E i \in Indexes : RejuvenateIndex(c, i)
      BY <3>1, <3>9 DEF RejuvenateIndex
    <3>. QED
      BY <1>2, <3>2, <3>3, <3>4, <3>5, <3>6, <3>7, <3>8, <3>9 DEF CoreStep, AllocateStep
  <2>. QED
    BY <2>1, <2>3 DEF RefillSees
<1>. QED
  BY <1>1, <1>2, StepsOfCores
-----------------------------------------------------------------------------
(* Who owns an index, read off the variables: list_ind and the cell in the *)
(* hand of a core.                                                         *)
Owns(c, x) == list_ind[x] = c \/ x \in InHand(c)

Owner ==
  LET Owned == [c \in Cores |-> CellsOf(ALLOC(c)) \cup InHand(c)] IN
  [i \in Indexes |->
     IF \E c \in Cores : i + INDEX_SHIFT \in Owned[c]
       THEN CHOOSE c \in Cores : i + INDEX_SHIFT \in Owned[c]
       ELSE NoCore]

Result ==
  [c \in Cores |-> IF op[c] \in {"ungrab", "gpop"} /\ cell[c] = NoCell THEN FALSE ELSE ret[c]]

OwnerIs ==
  /\ DOMAIN Owner = Indexes
  /\ \A i \in Indexes, c \in Cores : Owner[i] = c <=> Owns(c, i + INDEX_SHIFT)
  /\ \A i \in Indexes : Owner[i] = NoCore <=> \A c \in Cores : ~Owns(c, i + INDEX_SHIFT)
  /\ Owner = [i \in Indexes |-> Owner[i]]

(* The owner of the refinement mapping is the core of list_ind or of the   *)
(* hand.                                                                   *)
LEMMA OwnerFacts == DInvariant => OwnerIs
<1>. SUFFICES ASSUME DInvariant PROVE OwnerIs
  OBVIOUS
<1>. DEFINE Owned == [c \in Cores |-> CellsOf(ALLOC(c)) \cup InHand(c)]
            Holder(i) == IF \E c \in Cores : i + INDEX_SHIFT \in Owned[c]
                           THEN CHOOSE c \in Cores : i + INDEX_SHIFT \in Owned[c]
                           ELSE NoCore
<1>1. PICK on, rank : InPlaces(on, rank)
  BY DEF DInvariant, DIInv
<1>2. ASSUME NEW x \in IndexCells, NEW c \in Cores
      PROVE  /\ x \in Owned[c] <=> on[x] \in {ALLOC(c), Hand(c)}
             /\ x \in Owned[c] <=> Owns(c, x)
  <2>1. CellsOf(ALLOC(c)) = Members(IndexCells, ALLOC(c), on)
    BY <1>1, AllocListFacts
  <2>2. Owned[c] = Members(IndexCells, ALLOC(c), on) \cup InHand(c)
    BY <2>1
  <2>3. x \in InHand(c) <=> on[x] = Hand(c)
    BY <1>1 DEF InHand, InPlaces, HasCell, Holding
  <2>4. list_ind[x] = c <=> on[x] = ALLOC(c) \/ (on[x] = Hand(c) /\ op[c] \in {"flock", "push"})
    BY <1>1 DEF InPlaces, Marked
  <2>. QED
    BY <2>2, <2>3, <2>4 DEF Members, Owns
<1>3. ASSUME NEW x \in IndexCells, NEW c \in Cores, NEW d \in Cores, x \in Owned[c], x \in Owned[d] PROVE c = d
  BY <1>2, <1>3, PlaceFacts, CellFacts
<1>4. Owner = [i \in Indexes |-> Holder(i)]
  BY DEF Owner
<1>. HIDE DEF Owned, Owner
<1>5. ASSUME NEW i \in Indexes
      PROVE  /\ \A c \in Cores : Holder(i) = c <=> Owns(c, i + INDEX_SHIFT)
             /\ Holder(i) = NoCore <=> \A c \in Cores : ~Owns(c, i + INDEX_SHIFT)
  <2>. DEFINE x == i + INDEX_SHIFT
  <2>1. x \in IndexCells /\ NoCore \notin Cores
    BY CellFacts, CoresFacts
  <2>2. CASE \E c \in Cores : x \in Owned[c]
    <3>1. Holder(i) \in Cores /\ x \in Owned[Holder(i)]
      BY <2>2
    <3>. HIDE DEF Holder
    <3>. QED
      BY <3>1, <2>1, <1>2, <1>3
  <2>3. CASE ~ \E c \in Cores : x \in Owned[c]
    <3>1. Holder(i) = NoCore
      BY <2>3
    <3>. HIDE DEF Holder
    <3>. QED
      BY <3>1, <2>1, <2>3, <1>2
  <2>. QED
    BY <2>2, <2>3
<1>. HIDE DEF Holder
<1>. QED
  BY <1>4, <1>5 DEF OwnerIs

(* How the owners change. *)
LEMMA OwnersKept ==
  ASSUME DInvariant, DInvariant', \A c \in Cores, x \in IndexCells : Owns(c, x)' <=> Owns(c, x)
  PROVE  Owner' = Owner
<1>1. OwnerIs /\ OwnerIs'
  BY OwnerFacts, PTL
<1>2. ASSUME NEW i \in Indexes PROVE Owner'[i] = Owner[i]
  <2>1. i + INDEX_SHIFT \in IndexCells
    BY CellFacts
  <2>2. CASE \E c \in Cores : Owner[i] = c
    BY <2>1, <2>2, <1>1 DEF OwnerIs
  <2>3. CASE ~ \E c \in Cores : Owner[i] = c
    BY <2>1, <2>3, <1>1 DEF OwnerIs
  <2>. QED
    BY <2>2, <2>3
<1>3. Owner' = [i \in Indexes |-> Owner'[i]] /\ Owner = [i \in Indexes |-> Owner[i]]
  BY <1>1 DEF OwnerIs
<1>. QED
  BY <1>2, <1>3

(* An index that gets an owner ... *)
LEMMA OwnerTaken ==
  ASSUME DInvariant, DInvariant', NEW c \in Cores, NEW x \in IndexCells,
         \A d \in Cores, y \in IndexCells \ {x} : Owns(d, y)' <=> Owns(d, y),
         Owns(c, x)'
  PROVE  Owner' = [Owner EXCEPT ![x - INDEX_SHIFT] = c]
<1>1. OwnerIs /\ OwnerIs'
  BY OwnerFacts, PTL
<1>2. x - INDEX_SHIFT \in Indexes /\ (x - INDEX_SHIFT) + INDEX_SHIFT = x
  BY CellFacts, HeadsApart
<1>3. Owner'[x - INDEX_SHIFT] = c
  BY <1>1, <1>2 DEF OwnerIs
<1>4. ASSUME NEW i \in Indexes, i # x - INDEX_SHIFT PROVE Owner'[i] = Owner[i]
  <2>1. i + INDEX_SHIFT \in IndexCells \ {x}
    BY <1>4, CellFacts, SizeAssumption DEF Indexes, IndexCells, INDEX_SHIFT, GLOBAL
  <2>2. CASE \E d \in Cores : Owner[i] = d
    BY <2>1, <2>2, <1>1 DEF OwnerIs
  <2>3. CASE ~ \E d \in Cores : Owner[i] = d
    BY <2>1, <2>3, <1>1 DEF OwnerIs
  <2>. QED
    BY <2>2, <2>3
<1>5. Owner' = [i \in Indexes |-> Owner'[i]] /\ Owner = [i \in Indexes |-> Owner[i]]
  BY <1>1 DEF OwnerIs
<1>. QED
  BY <1>2, <1>3, <1>4, <1>5

(* ... and one that loses it. *)
LEMMA OwnerGone ==
  ASSUME DInvariant, DInvariant', NEW x \in IndexCells,
         \A d \in Cores, y \in IndexCells \ {x} : Owns(d, y)' <=> Owns(d, y),
         \A d \in Cores : ~Owns(d, x)'
  PROVE  Owner' = [Owner EXCEPT ![x - INDEX_SHIFT] = NoCore]
<1>1. OwnerIs /\ OwnerIs'
  BY OwnerFacts, PTL
<1>2. x - INDEX_SHIFT \in Indexes /\ (x - INDEX_SHIFT) + INDEX_SHIFT = x
  BY CellFacts, HeadsApart
<1>3. Owner'[x - INDEX_SHIFT] = NoCore
  BY <1>1, <1>2 DEF OwnerIs
<1>4. ASSUME NEW i \in Indexes, i # x - INDEX_SHIFT PROVE Owner'[i] = Owner[i]
  <2>1. i + INDEX_SHIFT \in IndexCells \ {x}
    BY <1>4, CellFacts, SizeAssumption DEF Indexes, IndexCells, INDEX_SHIFT, GLOBAL
  <2>2. CASE \E d \in Cores : Owner[i] = d
    BY <2>1, <2>2, <1>1 DEF OwnerIs
  <2>3. CASE ~ \E d \in Cores : Owner[i] = d
    BY <2>1, <2>3, <1>1 DEF OwnerIs
  <2>. QED
    BY <2>2, <2>3
<1>5. Owner' = [i \in Indexes |-> Owner'[i]] /\ Owner = [i \in Indexes |-> Owner[i]]
  BY <1>1 DEF OwnerIs
<1>. QED
  BY <1>2, <1>3, <1>4, <1>5

(* The steps of the abstract allocator, under the mapping: an index is     *)
(* taken,                                                                  *)
LEMMA AbstractTake ==
  ASSUME NEW c \in Cores, NEW i \in Indexes, Owner[i] = NoCore, Owner' = [Owner EXCEPT ![i] = c],
         Result' = [Result EXCEPT ![c] = TRUE]
  PROVE  Abstract!Next
  BY DEF Abstract!Next, Abstract!Take, Owner, Result

(* an index is given back, *)
LEMMA AbstractGive ==
  ASSUME NEW c \in Cores, NEW i \in Indexes, Owner[i] = c, Owner' = [Owner EXCEPT ![i] = NoCore], Result' = Result
  PROVE  Abstract!Next
  BY DEF Abstract!Next, Abstract!Give, Owner, Result

(* an allocation fails, *)
LEMMA AbstractFull ==
  ASSUME NEW c \in Cores, \A i \in Indexes : Owner[i] # NoCore, Owner' = Owner, Result' = [Result EXCEPT ![c] = FALSE]
  PROVE  Abstract!Next
  BY DEF Abstract!Next, Abstract!Full, Owner, Result

(* or nothing happens. *)
LEMMA AbstractStutter ==
  ASSUME Owner' = Owner, Result' = Result
  PROVE  UNCHANGED Abstract!vars
  BY DEF Abstract!vars, Owner, Result

Refines == [Abstract!Next]_(Abstract!vars)

(* Steps that change neither an owner nor a result. *)
LEMMA StutterSteps ==
  ASSUME DInvariant, DInvariant', NEW c \in Cores,
         \A d \in Cores, x \in IndexCells : Owns(d, x)' <=> Owns(d, x),
         ret' = ret, \A d \in Cores \ {c} : op'[d] = op[d] /\ cell'[d] = cell[d],
         (op[c] \in {"ungrab", "gpop"} /\ cell[c] = NoCell) <=> (op'[c] \in {"ungrab", "gpop"} /\ cell'[c] = NoCell)
  PROVE  Refines
<1>1. Owner' = Owner
  BY OwnersKept
<1>2. Result' = Result
  BY DEF Result
<1>. QED
  BY <1>1, <1>2, AbstractStutter DEF Refines

(* What a step of c leaves alone in the hands of others. *)
LEMMA HandsOfOthers ==
  ASSUME Locked, NEW c \in Cores, OwnLocks(c), NEW d \in Cores \ {c}
  PROVE  InHand(d)' = InHand(d) /\ op'[d] = op[d] /\ cell'[d] = cell[d]
  BY DEF OwnLocks, InHand

(* Steps that read lists and wait for locks. *)
LEMMA ReadingRefines ==
  ASSUME DInvariant, DInvariant', NEW c \in Cores, CoreStep(c), UNCHANGED <<list_ind, ret>>,
         op[c] \notin Holding \/ (op'[c] \in Holding /\ cell'[c] = cell[c]), op'[c] \in Holding => op[c] \in Holding,
         (op[c] \in {"ungrab", "gpop"} /\ cell[c] = NoCell) <=> (op'[c] \in {"ungrab", "gpop"} /\ cell'[c] = NoCell)
  PROVE  Refines
<1>1. InHand(c)' = InHand(c)
  BY DEF InHand, Holding
<1>2. \A d \in Cores \ {c} : InHand(d)' = InHand(d) /\ op'[d] = op[d] /\ cell'[d] = cell[d]
  BY CoreStepOwnLocks, HandsOfOthers DEF DInvariant
<1>3. \A d \in Cores, x \in IndexCells : Owns(d, x)' <=> Owns(d, x)
  BY <1>1, <1>2 DEF Owns
<1>. QED
  BY <1>2, <1>3, StutterSteps

(* The steps that only read lists and take locks are no steps of the       *)
(* abstract allocator.                                                     *)
LEMMA QuietRefines ==
  ASSUME DInvariant, DInvariant', NEW c \in Cores, CoreStep(c),
         \/ AllocateNewIndex(c) \/ AllocLock(c) \/ AllocRead(c) \/ GlobalLock(c) \/ GrabCoreLock(c)
         \/ FillRead(c) \/ UngrabCoreLock(c) \/ FreeLock(c) \/ Tick(c)
         \/ \E i \in Indexes : RejuvenateIndex(c, i)
  PROVE  Refines
<1>1. op[c] \in Ops /\ op' \in [Cores -> Ops] /\ op \in [Cores -> Ops] /\ cell \in [Cores -> Cells \cup {NoCell}]
  BY DEF DInvariant, Locked, DTyping
<1>2. CASE AllocateNewIndex(c) \/ AllocLock(c) \/ AllocRead(c)
  BY <1>1, <1>2, ReadingRefines DEF AllocateNewIndex, AllocLock, AllocRead, Goto, lists, Holding
<1>3. CASE GlobalLock(c)
  BY <1>1, <1>3, ReadingRefines DEF GlobalLock, Goto, lists, Holding
<1>4. CASE GrabCoreLock(c) \/ FillRead(c) \/ UngrabCoreLock(c)
  BY <1>1, <1>4, ReadingRefines DEF GrabCoreLock, FillRead, UngrabCoreLock, Iterate, Goto, lists, Holding
<1>5. CASE FreeLock(c) \/ Tick(c)
  BY <1>1, <1>5, ReadingRefines DEF FreeLock, Tick, Goto, lists, Holding
<1>6. ASSUME NEW i \in Indexes, RejuvenateIndex(c, i) PROVE Refines
  BY <1>1, <1>6, ReadingRefines DEF RejuvenateIndex, Rejuvenate, Goto, lists, Holding
<1>. QED
  BY <1>2, <1>3, <1>4, <1>5, <1>6

(* Steps that move a cell: between lists that nobody owns, or between the  *)
(* alloc list and the hand of the core.                                    *)
LEMMA MoveRefines ==
  ASSUME DInvariant, DInvariant', NEW c \in Cores, CoreStep(c), UNCHANGED ret,
         NEW x \in IndexCells, \A y \in IndexCells \ {x} : list_ind'[y] = list_ind[y],
         \A y \in IndexCells \ {x} : y \notin InHand(c) /\ y \notin InHand(c)',
         \A d \in Cores : Owns(d, x)' <=> Owns(d, x),
         op[c] \notin {"ungrab", "gpop"}, op'[c] \notin {"ungrab", "gpop"}
  PROVE  Refines
<1>1. \A d \in Cores \ {c} : InHand(d)' = InHand(d) /\ op'[d] = op[d] /\ cell'[d] = cell[d]
  BY CoreStepOwnLocks, HandsOfOthers DEF DInvariant
<1>2. \A d \in Cores, y \in IndexCells : Owns(d, y)' <=> Owns(d, y)
  BY <1>1 DEF Owns
<1>. QED
  BY <1>1, <1>2, StutterSteps

(* The owners of a cell, by its place. *)
LEMMA OwnsFacts ==
  ASSUME DInvariant, NEW on, NEW rank, InPlaces(on, rank), NEW x \in IndexCells
  PROVE  /\ \A c \in Cores : Owns(c, x) <=> on[x] \in {ALLOC(c), Hand(c)}
         /\ \A c \in Cores : x \in InHand(c) <=> on[x] = Hand(c)
<1>1. ASSUME NEW c \in Cores PROVE x \in InHand(c) <=> on[x] = Hand(c)
  BY DEF InHand, InPlaces, HasCell, Holding
<1>2. ASSUME NEW c \in Cores
      PROVE  list_ind[x] = c <=> on[x] = ALLOC(c) \/ (on[x] = Hand(c) /\ op[c] \in {"flock", "push"})
  BY DEF InPlaces, Marked
<1>. QED
  BY <1>1, <1>2 DEF Owns

(* Nor are the ones that move a cell without changing its owner. *)
LEMMA MovingRefines ==
  ASSUME DInvariant, DInvariant', NEW c \in Cores, CoreStep(c),
         \/ AllocLink(c) \/ FillMove(c) \/ FreeHook(c)
         \/ \E i \in Int : i + INDEX_SHIFT \in IndexCells /\ FreeIndex(c, i)
  PROVE  Refines
<1>1. PICK on, rank : InPlaces(on, rank)
  BY DEF DInvariant, DIInv
<1>2. /\ op \in [Cores -> Ops] /\ cell \in [Cores -> Cells \cup {NoCell}] /\ list_ind \in [Cells -> Cores \cup {-1}]
      /\ iter[c] \in Cores /\ HasCell(c, on)
  BY <1>1 DEF DInvariant, Locked, DTyping, InPlaces
<1>3. IndexCells \subseteq Cells /\ NoCell \notin IndexCells /\ \A d \in Cores : d # -1
  BY HeadsApart, CoresFacts DEF Cores
<1>4. \A d \in Cores \ {c} : InHand(d)' = InHand(d)
  BY CoreStepOwnLocks, HandsOfOthers DEF DInvariant
<1>5. CASE AllocLink(c)
  <2>0. PICK x : x = cell[c]
    OBVIOUS
  <2>1. x \in IndexCells /\ on[x] = Hand(c) /\ InHand(c) = {x} /\ op[c] = "link"
    BY <2>0, <1>2, <1>5 DEF AllocLink, HasCell, Holding, InHand
  <2>2. op'[c] = "none" /\ InHand(c)' = {} /\ ret' = ret
    BY <2>0, <1>2, <1>5 DEF AllocLink, Goto, InHand
  <2>3. list_ind'[x] = c /\ \A y \in IndexCells \ {x} : list_ind'[y] = list_ind[y]
    BY <2>0, <1>2, <1>3, <1>5, <2>1 DEF AllocLink, ALLOC
  <2>4. \A d \in Cores : (Owns(d, x) <=> d = c) /\ (x \in InHand(d) <=> d = c)
    BY <1>1, <2>1, OwnsFacts, PlaceFacts, CellFacts
  <2>5. \A d \in Cores : Owns(d, x)' <=> Owns(d, x)
    BY <1>4, <2>2, <2>3, <2>4 DEF Owns
  <2>. QED
    BY <2>1, <2>2, <2>3, <2>5, MoveRefines
<1>6. CASE FillMove(c)
  <2>. DEFINE h == FREE(iter[c])
  <2>0. PICK x : x = cell[c]
    OBVIOUS
  <2>1. op[c] = "move" /\ x = next[h] /\ next[h] # h /\ h \in Heads
    BY <2>0, <1>2, <1>6, CellFacts DEF FillMove, HasCell
  <2>2. x \in IndexCells /\ on[x] = h
    BY <2>0, <1>1, <2>1 DEF InPlaces, List, Leads, Members
  <2>3. InHand(c) = {} /\ op'[c] \in {"fill", "retry"} /\ InHand(c)' = {} /\ ret' = ret
    BY <2>0, <1>2, <1>6, <2>1 DEF FillMove, Goto, InHand
  <2>4. list_ind'[x] = -1 /\ \A y \in IndexCells \ {x} : list_ind'[y] = list_ind[y]
    BY <2>0, <1>2, <1>3, <1>6, <2>2 DEF FillMove
  <2>5. \A d \in Cores : ~Owns(d, x) /\ x \notin InHand(d)
    BY <1>1, <1>2, <2>2, OwnsFacts, PlaceFacts, CellFacts
  <2>6. \A d \in Cores : Owns(d, x)' <=> Owns(d, x)
    BY <1>3, <1>4, <2>3, <2>4, <2>5 DEF Owns
  <2>. QED
    BY <2>1, <2>2, <2>3, <2>4, <2>6, MoveRefines
<1>7. CASE FreeHook(c)
  <2>0. PICK x : x = cell[c]
    OBVIOUS
  <2>1. x \in IndexCells /\ on[x] = Hand(c) /\ InHand(c) = {x} /\ op[c] = "push"
    BY <2>0, <1>2, <1>7 DEF FreeHook, HasCell, Holding, InHand
  <2>2. op'[c] = "hook" /\ InHand(c)' = {x} /\ ret' = ret
    BY <2>0, <1>2, <1>7 DEF FreeHook, Goto, InHand
  <2>3. list_ind'[x] = -1 /\ \A y \in IndexCells \ {x} : list_ind'[y] = list_ind[y]
    BY <2>0, <1>2, <1>3, <1>7, <2>1 DEF FreeHook
  <2>4. \A d \in Cores : (Owns(d, x) <=> d = c) /\ (x \in InHand(d) <=> d = c)
    BY <1>1, <2>1, OwnsFacts, PlaceFacts, CellFacts
  <2>5. \A d \in Cores : Owns(d, x)' <=> Owns(d, x)
    BY <1>3, <1>4, <2>2, <2>3, <2>4 DEF Owns
  <2>. QED
    BY <2>1, <2>2, <2>3, <2>5, MoveRefines
<1>8. ASSUME NEW i \in Int, i + INDEX_SHIFT \in IndexCells, FreeIndex(c, i) PROVE Refines
  <2>. DEFINE x == i + INDEX_SHIFT
  <2>1. x \in IndexCells /\ list_ind[x] = c /\ op[c] = "none" /\ InHand(c) = {}
    BY <1>8 DEF FreeIndex, IsIndexAllocated, InHand, ALLOC
  <2>2. op'[c] = "flock" /\ InHand(c)' = {x} /\ ret' = ret /\ list_ind' = list_ind
    BY <1>2, <1>8 DEF FreeIndex, Goto, InHand
  <2>3. \A d \in Cores : Owns(d, x) <=> d = c
    <3>1. Owns(c, x)
      BY <2>1 DEF Owns
    <3>2. on[x] \in {ALLOC(c), Hand(c)}
      BY <3>1, <2>1, <1>1, OwnsFacts
    <3>. HIDE DEF x
    <3>. QED
      BY <3>2, <2>1, <1>1, OwnsFacts, PlaceFacts, CellFacts
  <2>. HIDE DEF x
  <2>4. \A d \in Cores : Owns(d, x)' <=> Owns(d, x)
    BY <1>4, <2>1, <2>2, <2>3 DEF Owns
  <2>. QED
    BY <2>1, <2>2, <2>4, MoveRefines
<1>. QED
  BY <1>5, <1>6, <1>7, <1>8

(* Taking a cell off the free list of the core or off the global list. *)
LEMMA TakeRefines ==
  ASSUME DInvariant, DInvariant', NEW c \in Cores, CoreStep(c), NEW h \in Heads, \A d \in Cores : h # ALLOC(d),
         next[h] # h, cell[c] = next[h], cell' = cell, list_ind' = list_ind,
         op[c] \notin Holding, op' = [op EXCEPT ![c] = "link"], ret' = [ret EXCEPT ![c] = TRUE]
  PROVE  Refines
<1>1. PICK on, rank : InPlaces(on, rank)
  BY DEF DInvariant, DIInv
<1>2. PICK x : x = cell[c]
  OBVIOUS
<1>3. x \in IndexCells /\ on[x] = h
  BY <1>1, <1>2 DEF InPlaces, List, Leads, Members
<1>4. \A d \in Cores : ~Owns(d, x)
  BY <1>1, <1>3, OwnsFacts, PlaceFacts
<1>5. InHand(c) = {} /\ InHand(c)' = {x} /\ \A d \in Cores \ {c} : InHand(d)' = InHand(d)
  BY <1>2, CoreStepOwnLocks, HandsOfOthers DEF DInvariant, Locked, DTyping, InHand, Holding
<1>6. \A d \in Cores, y \in IndexCells \ {x} : Owns(d, y)' <=> Owns(d, y)
  BY <1>5 DEF Owns
<1>7. Owns(c, x)'
  BY <1>5 DEF Owns
<1>8. Owner' = [Owner EXCEPT ![x - INDEX_SHIFT] = c]
  BY <1>3, <1>6, <1>7, OwnerTaken
<1>9. Owner[x - INDEX_SHIFT] = NoCore /\ x - INDEX_SHIFT \in Indexes
  BY <1>3, <1>4, OwnerFacts, CellFacts, HeadsApart DEF OwnerIs
<1>10. Result' = [Result EXCEPT ![c] = TRUE]
  BY DEF Result, DInvariant, Locked, DTyping
<1>. QED
  BY <1>8, <1>9, <1>10, AbstractTake DEF Refines

(* Unhooking a cell takes its index. *)
LEMMA AllocUnhookRefines ==
  ASSUME DInvariant, DInvariant', NEW c \in Cores, CoreStep(c), AllocUnhook(c)
  PROVE  Refines
<1>1. PICK on, rank : InPlaces(on, rank)
  BY DEF DInvariant, DIInv
<1>2. op[c] = "unhook" /\ next[FREE(c)] # FREE(c) /\ cell[c] = next[FREE(c)] /\ op[c] \notin Holding
  BY <1>1 DEF AllocUnhook, InPlaces, HasCell, Holding
<1>3. cell' = cell /\ list_ind' = list_ind /\ op' = [op EXCEPT ![c] = "link"] /\ ret' = [ret EXCEPT ![c] = TRUE]
  BY DEF AllocUnhook, Goto
<1>4. FREE(c) \in Heads /\ \A d \in Cores : FREE(c) # ALLOC(d)
  BY CellFacts, PlaceFacts
<1>. QED
  BY <1>2, <1>3, <1>4, TakeRefines

(* So does popping one off the global list; a core that found that list    *)
(* empty has failed already.                                               *)
LEMMA GlobalPopRefines ==
  ASSUME DInvariant, DInvariant', NEW c \in Cores, CoreStep(c), GlobalPop(c)
  PROVE  Refines
<1>1. PICK on, rank : InPlaces(on, rank)
  BY DEF DInvariant, DIInv
<1>2. op[c] = "gpop" /\ cell[c] = FirstGlobal /\ op[c] \notin Holding /\ cell' = cell /\ list_ind' = list_ind
  BY <1>1 DEF GlobalPop, InPlaces, HasCell, Holding
<1>3. GLOBAL \in Heads /\ \A d \in Cores : GLOBAL # ALLOC(d)
  BY CellFacts, PlaceFacts
<1>4. CASE cell[c] # NoCell
  <2>1. next[GLOBAL] # GLOBAL /\ cell[c] = next[GLOBAL]
    BY <1>2, <1>4 DEF FirstGlobal
  <2>2. op' = [op EXCEPT ![c] = "link"] /\ ret' = [ret EXCEPT ![c] = TRUE]
    BY <1>4 DEF GlobalPop, Goto
  <2>. QED
    BY <1>2, <1>3, <2>1, <2>2, TakeRefines
<1>5. CASE cell[c] = NoCell
  <2>1. op' = [op EXCEPT ![c] = "none"] /\ ret' = [ret EXCEPT ![c] = FALSE]
    BY <1>5 DEF GlobalPop, Goto
  <2>2. op \in [Cores -> Ops] /\ ret \in [Cores -> BOOLEAN]
    BY DEF DInvariant, Locked, DTyping
  <2>3. Result' = Result
    BY <1>2, <1>5, <2>1, <2>2 DEF Result
  <2>4. InHand(c) = {} /\ InHand(c)' = {} /\ \A d \in Cores \ {c} : InHand(d)' = InHand(d)
    BY <1>2, <2>1, <2>2, CoreStepOwnLocks, HandsOfOthers DEF DInvariant, InHand, Holding
  <2>5. \A d \in Cores, y \in IndexCells : Owns(d, y)' <=> Owns(d, y)
    BY <1>2, <2>4 DEF Owns
  <2>. QED
    BY <2>3, <2>5, OwnersKept, AbstractStutter DEF Refines
<1>. QED
  BY <1>4, <1>5

(* A core that finds no index has looked at all the free lists. *)
LEMMA GlobalRetryRefines ==
  ASSUME DInvariant, DInvariant', RefillSees, Size % NumCores = 0, NEW c \in Cores, CoreStep(c), GlobalRetry(c)
  PROVE  Refines
<1>1. PICK on, rank : InPlaces(on, rank)
  BY DEF DInvariant, DIInv
<1>2. op \in [Cores -> Ops] /\ ret \in [Cores -> BOOLEAN] /\ cell \in [Cores -> Cells \cup {NoCell}]
  BY DEF DInvariant, Locked, DTyping
<1>3. /\ op[c] = "retry" /\ op' = [op EXCEPT ![c] = "ungrab"] /\ ret' = ret /\ list_ind' = list_ind
      /\ cell' = [cell EXCEPT ![c] = FirstGlobal]
  BY DEF GlobalRetry, Goto, lists
<1>4. InHand(c) = {} /\ InHand(c)' = {} /\ \A d \in Cores \ {c} : InHand(d)' = InHand(d)
  BY <1>2, <1>3, CoreStepOwnLocks, HandsOfOthers DEF DInvariant, InHand
<1>5. \A d \in Cores, y \in IndexCells : Owns(d, y)' <=> Owns(d, y)
  BY <1>3, <1>4 DEF Owns
<1>6. Owner' = Owner
  BY <1>5, OwnersKept
<1>7. CASE FirstGlobal # NoCell
  <2>1. Result' = Result
    BY <1>2, <1>3, <1>7 DEF Result
  <2>. QED
    BY <1>6, <2>1, AbstractStutter DEF Refines
<1>8. CASE FirstGlobal = NoCell
  <2>1. Result' = [Result EXCEPT ![c] = FALSE]
    BY <1>2, <1>3, <1>8 DEF Result
  <2>2. next[GLOBAL] = GLOBAL
    <3>1. next[GLOBAL] \in Cells /\ NoCell \notin Cells
      BY CellFacts, CoresFacts DEF DInvariant, Locked, DTyping, Links
    <3>. QED
      BY <1>8, <3>1 DEF FirstGlobal
  <2>3. \A k \in Cores : next[FREE(k)] = FREE(k)
    BY <1>3, <2>2 DEF RefillSees, NoneFree
  <2>4. ASSUME NEW h \in Heads, next[h] = h PROVE Members(IndexCells, h, on) = {}
    BY <1>1, <2>4 DEF InPlaces, List, FirstIsLeast
  <2>5. Members(IndexCells, GLOBAL, on) = {} /\ \A k \in Cores : Members(IndexCells, FREE(k), on) = {}
    BY <2>2, <2>3, <2>4, CellFacts
  <2>6. ASSUME NEW x \in IndexCells PROVE \E d \in Cores : Owns(d, x)
    <3>1. on[x] \in Heads \cup {Hand(d) : d \in Cores}
      BY <1>1 DEF InPlaces, Complete
    <3>2. on[x] # GLOBAL /\ \A k \in Cores : on[x] # FREE(k)
      BY <2>5 DEF Members
    <3>3. \A h \in Heads : h = GLOBAL \/ (\E k \in Cores : h = FREE(k)) \/ (\E k \in Cores : h = ALLOC(k))
      <4>. SUFFICES ASSUME NEW h \in Heads
                    PROVE  h = GLOBAL \/ (\E k \in Cores : h = FREE(k)) \/ (\E k \in Cores : h = ALLOC(k))
        OBVIOUS
      <4>1. h \in 0..2 * NumCores /\ NumCores \in Nat
        BY SizeAssumption DEF Heads, GLOBAL
      <4>2. CASE h < NumCores
        <5>1. h \in Cores /\ h = ALLOC(h)
          BY <4>1, <4>2 DEF Cores, ALLOC
        <5>. QED
          BY <5>1
      <4>3. CASE ~(h < NumCores) /\ h < 2 * NumCores
        <5>1. h - NumCores \in Cores /\ h = FREE(h - NumCores)
          BY <4>1, <4>3 DEF Cores, FREE
        <5>. QED
          BY <5>1
      <4>. QED
        BY <4>1, <4>2, <4>3 DEF GLOBAL
    <3>. QED
      BY <3>1, <3>2, <3>3, <1>1, OwnsFacts
  <2>7. \A i \in Indexes : Owner[i] # NoCore
    BY <2>6, OwnerFacts, CellFacts DEF OwnerIs
  <2>. QED
    BY <1>6, <2>1, <2>7, AbstractFull DEF Refines
<1>. QED
  BY <1>7, <1>8

(* Pushing a cell gives its index back. *)
LEMMA FreePushRefines ==
  ASSUME DInvariant, DInvariant', NEW c \in Cores, CoreStep(c), FreePush(c)
  PROVE  Refines
<1>1. PICK on, rank : InPlaces(on, rank)
  BY DEF DInvariant, DIInv
<1>2. op \in [Cores -> Ops] /\ cell \in [Cores -> Cells \cup {NoCell}]
  BY DEF DInvariant, Locked, DTyping
<1>3. /\ op[c] = "hook" /\ op' = [op EXCEPT ![c] = "none"] /\ ret' = ret /\ list_ind' = list_ind
      /\ cell' = [cell EXCEPT ![c] = NoCell]
  BY DEF FreePush, Goto
<1>4. PICK x : x = cell[c]
  OBVIOUS
<1>5. x \in IndexCells /\ on[x] = Hand(c)
  BY <1>1, <1>3, <1>4 DEF InPlaces, HasCell, Holding
<1>6. InHand(c) = {x} /\ InHand(c)' = {} /\ \A d \in Cores \ {c} : InHand(d)' = InHand(d)
  BY <1>2, <1>3, <1>4, CoreStepOwnLocks, HandsOfOthers DEF DInvariant, InHand
<1>7. \A d \in Cores : list_ind[x] # d
  BY <1>1, <1>3, <1>5, PlaceFacts, CellFacts DEF InPlaces, Marked
<1>8. \A d \in Cores \ {c} : x \notin InHand(d)
  BY <1>1, <1>5, OwnsFacts, PlaceFacts
<1>9. \A d \in Cores : ~Owns(d, x)'
  BY <1>3, <1>6, <1>7, <1>8 DEF Owns
<1>10. \A d \in Cores, y \in IndexCells \ {x} : Owns(d, y)' <=> Owns(d, y)
  BY <1>3, <1>6 DEF Owns
<1>11. Owner' = [Owner EXCEPT ![x - INDEX_SHIFT] = NoCore]
  BY <1>5, <1>9, <1>10, OwnerGone
<1>12. Owns(c, x)
  BY <1>6 DEF Owns
<1>13. Owner[x - INDEX_SHIFT] = c /\ x - INDEX_SHIFT \in Indexes
  BY <1>5, <1>12, OwnerFacts, CellFacts, HeadsApart DEF OwnerIs
<1>14. Result' = Result
  BY <1>2, <1>3 DEF Result
<1>. QED
  BY <1>11, <1>13, <1>14, AbstractGive DEF Refines

(* The allocator implements IndexAllocator: an allocation yields an index  *)
(* that nobody owned, and it fails only at a moment when all indexes are   *)
(* owned. The hypothesis is that of NoIndexLost: an index that init left   *)
(* on no list is owned by nobody and never found.                          *)
THEOREM ImplementsAllocator ==
  ASSUME Size % NumCores = 0
  PROVE  DchainSpec => ImplementsIndexAllocator
<1>1. DchainInit => Abstract!Init /\ RefillSees
  <2>. SUFFICES ASSUME DchainInit PROVE Abstract!Init /\ RefillSees
    OBVIOUS
  <2>1. DInvariant
    BY DInvariantInit
  <2>2. \A c \in Cores : op[c] = "none" /\ InHand(c) = {}
    BY DEF DchainInit, InHand
  <2>3. \A c \in Cores, x \in IndexCells : ~Owns(c, x)
    <3>1. \A x \in IndexCells : list_ind[x] = -1
      BY HeadsApart, SizeAssumption DEF DchainInit, IndexCells, INDEX_SHIFT, FREE, GLOBAL
    <3>. QED
      BY <3>1, <2>2 DEF Owns, Cores
  <2>4. Owner = [i \in Indexes |-> NoCore]
    BY <2>1, <2>3, OwnerFacts, CellFacts DEF OwnerIs
  <2>5. Result = [c \in Cores |-> TRUE]
    BY DEF DchainInit, Result
  <2>6. Abstract!Init
    BY <2>4, <2>5 DEF Abstract!Init, Owner, Result
  <2>. QED
    BY <2>2, <2>6 DEF RefillSees
<1>2. ASSUME DInvariant, DInvariant', RefillSees, [DchainNext]_dchainVars
      PROVE  Refines
  <2>1. CASE UNCHANGED dchainVars
    <3>1. \A c \in Cores, x \in IndexCells : Owns(c, x)' <=> Owns(c, x)
      BY <2>1 DEF dchainVars, lists, Owns, InHand
    <3>2. Result' = Result
      BY <2>1 DEF dchainVars, Result
    <3>. QED
      BY <1>2, <3>1, <3>2, OwnersKept, AbstractStutter DEF Refines
  <2>2. CASE DchainNext
    <3>1. PICK c \in Cores : CoreStep(c)
      BY <1>2, <2>2, StepsOfCores
    <3>. QED
      BY <1>2, <3>1, QuietRefines, MovingRefines, AllocUnhookRefines, GlobalPopRefines, GlobalRetryRefines,
         FreePushRefines DEF CoreStep, AllocateStep, FreeStep
  <2>. QED
    BY <1>2, <2>1, <2>2
<1>3. DchainSpec => []RefillSees
  <2>1. DInvariant /\ DInvariant' /\ RefillSees /\ [DchainNext]_dchainVars => RefillSees'
    BY RefillSeesNext
  <2>. QED
    BY <1>1, <2>1, DchainInvariance, PTL DEF DchainSpec
<1>4. DInvariant /\ DInvariant' /\ RefillSees /\ [DchainNext]_dchainVars => Refines
  BY <1>2
<1>5. Refines <=> [Abstract!Next]_(Abstract!vars)
  BY DEF Refines
<1>. QED
  BY <1>1, <1>3, <1>4, <1>5, DchainInvariance, PTL DEF DchainSpec, ImplementsIndexAllocator, Abstract!Spec
-----------------------------------------------------------------------------
(* The packet-set manager.                                                 *)

Places == {"expire", "expired_handler", "serve", "handler", "unlock", "commit"}

Typing ==
  /\ next \in [Cells -> Int] /\ prev \in [Cells -> Int] /\ list_ind \in [Cells -> Int]
  /\ op \in [Cores -> Ops]
  /\ cell \in [Cores -> Int]
  /\ pc \in [Cores -> Places]
  /\ log_add \in [Cores -> BOOLEAN]

(* What a core relies on between its steps. *)
CoreOK(c) ==
  /\ pc[c] = "commit" => op[c] \in {"lock", "pop", "unhook", "link"}
  /\ pc[c] = "expire" => op[c] \in {"none", "flock", "push", "hook"}
  /\ pc[c] \notin {"commit", "expire"} => op[c] = "none"
  /\ op[c] \in {"unhook", "link", "flock", "push", "hook"} => cell[c] \in Region(c)
  /\ pc[c] = "handler" => ~log_add[c]
  /\ log_add[c] /\ pc[c] = "unlock" => HasFreeIndexes(c)
  /\ pc[c] = "commit" /\ op[c] # "link" => HasFreeIndexes(c)

ListsOK(c) == \A x \in Region(c) : next[x] \in Region(c) /\ prev[x] \in Region(c)

(* The inductive invariant. *)
IInv ==
  /\ Typing
  /\ \A c \in Cores : CoreOK(c) /\ ListsOK(c)
  /\ \A c \in Cores, x \in Cells : list_ind[x] = c => x \in Region(c)
  /\ next[GLOBAL] = GLOBAL

(* A step of core c that stays in its region and leaves it in order. *)
Confined(c) ==
  /\ Typing'
  /\ \A x \in Cells \ Region(c) :
       next'[x] = next[x] /\ prev'[x] = prev[x] /\ list_ind'[x] = list_ind[x]
  /\ \A x \in Region(c) : list_ind'[x] \in {c, -1, list_ind[x]}
  /\ \A d \in Cores \ {c} :
       op'[d] = op[d] /\ cell'[d] = cell[d] /\ pc'[d] = pc[d] /\ log_add'[d] = log_add[d]
  /\ CoreOK(c)' /\ ListsOK(c)'
-----------------------------------------------------------------------------
(* The regions of the cores are disjoint and hold their list heads. *)
LEMMA Geometry ==
  /\ Cells \subseteq Int
  /\ GLOBAL \in Cells
  /\ Cores \subseteq Int
  /\ \A c \in Cores :
       /\ ALLOC(c) \in Region(c) /\ FREE(c) \in Region(c)
       /\ ALLOC(c) = c
       /\ Region(c) \subseteq Cells
       /\ GLOBAL \notin Region(c)
       /\ -1 \notin Cores
       /\ \A d \in Cores : c # d => Region(c) \cap Region(d) = {}
<1>1. NumCores \in Nat \ {0} /\ Size \in Nat
  BY SizeAssumption
<1>2. Cells \subseteq Int /\ Cores \subseteq Int /\ -1 \notin Cores /\ GLOBAL \in Cells
  BY <1>1 DEF Cells, Cores, INDEX_SHIFT, GLOBAL
<1>3. ASSUME NEW c \in Cores
      PROVE  /\ ALLOC(c) \in Region(c) /\ FREE(c) \in Region(c)
             /\ ALLOC(c) = c
             /\ Region(c) \subseteq Cells
             /\ GLOBAL \notin Region(c)
  BY <1>1 DEF Region, IndexCells, Cells, Cores, INDEX_SHIFT, GLOBAL, ALLOC, FREE
<1>4. ASSUME NEW c \in Cores, NEW d \in Cores, c # d, NEW x \in Region(c), x \in Region(d)
      PROVE  FALSE
  <2>1. CASE x \in IndexCells
    <3>1. x \notin {ALLOC(c), FREE(c), ALLOC(d), FREE(d)}
      BY <1>1, <2>1 DEF IndexCells, Cores, INDEX_SHIFT, GLOBAL, ALLOC, FREE
    <3>2. (x - INDEX_SHIFT) \div Chunk = c /\ (x - INDEX_SHIFT) \div Chunk = d
      BY <1>4, <3>1 DEF Region
    <3> QED
      BY <1>4, <3>2
  <2>2. CASE x \notin IndexCells
    <3>1. x \in {ALLOC(c), FREE(c)} /\ x \in {ALLOC(d), FREE(d)}
      BY <1>4, <2>2 DEF Region
    <3> QED
      BY <1>1, <1>4, <3>1 DEF Cores, ALLOC, FREE
  <2> QED
    BY <2>1, <2>2
<1> QED
  BY <1>2, <1>3, <1>4

(* Init puts every core in order. *)
LEMMA InitInv == Init => IInv
<1> SUFFICES ASSUME Init PROVE IInv
  OBVIOUS
<1>1. NumCores \in Nat \ {0} /\ Size \in Nat /\ Chunk \in Nat \ {0}
  BY SizeAssumption, ChunkPositive
<1>2. \A x \in Cells : InitLink(x) \in Int
  <2> TAKE x \in Cells
  <2>1. x \in Int
    BY Geometry
  <2>2. Chunk * (x - FREE(0)) \in Int
    BY <1>1, <2>1 DEF FREE
  <2>3. (x - INDEX_SHIFT) \div Chunk \in Int
    BY <1>1, <2>1 DEF INDEX_SHIFT, GLOBAL
  <2> QED
    BY <1>1, <2>1, <2>2, <2>3 DEF InitLink, FREE, GLOBAL, INDEX_SHIFT
<1>3. Typing
  <2>1. next \in [Cells -> Int] /\ prev \in [Cells -> Int]
    BY <1>2 DEF Init, DchainInit
  <2>2. list_ind \in [Cells -> Int]
    <3>1. \A x \in Cells : (IF x < FREE(0) THEN x ELSE IF x < GLOBAL THEN x - FREE(0) ELSE -1) \in Int
      BY <1>1, Geometry DEF FREE
    <3> QED
      BY <3>1 DEF Init, DchainInit
  <2>3. op \in [Cores -> Ops] /\ cell \in [Cores -> Int] /\ pc \in [Cores -> Places]
    BY DEF Init, DchainInit, Ops, Places, NoCell
  <2>4. log_add \in [Cores -> BOOLEAN]
    BY DEF Init
  <2> QED
    BY <2>1, <2>2, <2>3, <2>4 DEF Typing
<1>4. ASSUME NEW c \in Cores
      PROVE  CoreOK(c)
  BY DEF Init, DchainInit, CoreOK
<1>5. ASSUME NEW c \in Cores, NEW x \in Region(c)
      PROVE  InitLink(x) \in Region(c)
  <2>a. x \in Int
    BY Geometry
  <2>b. c \in Nat /\ c < NumCores
    BY <1>1 DEF Cores
  <2>0. x \in Int /\ c \in Nat /\ c < NumCores
    BY <2>a, <2>b
  <2>1. CASE x = ALLOC(c)
    BY <1>1, <2>0, <2>1 DEF InitLink, Region, ALLOC, FREE
  <2>2. CASE x = FREE(c)
    <3>1. InitLink(x) = INDEX_SHIFT + Chunk * c
      BY <1>1, <2>0, <2>2 DEF InitLink, FREE, GLOBAL
    <3>2. Chunk * c \in Nat /\ Chunk * c < Size
      <4>1. Chunk * NumCores <= Size
        BY <1>1 DEF Chunk
      <4>2. Chunk * c < Chunk * NumCores
        BY <1>1, <2>0
      <4> QED
        BY <1>1, <2>0, <4>1, <4>2
    <3>3. (Chunk * c) \div Chunk = c
      BY <2>0, ChunkPositive, ChunkStart
    <3>4. INDEX_SHIFT + Chunk * c \in IndexCells
      BY <1>1, <3>2 DEF IndexCells, INDEX_SHIFT, GLOBAL
    <3>5. (INDEX_SHIFT + Chunk * c) - INDEX_SHIFT = Chunk * c
      BY <1>1, <3>2 DEF INDEX_SHIFT, GLOBAL
    <3> QED
      BY <3>1, <3>3, <3>4, <3>5 DEF Region
  <2>3. CASE x \notin {ALLOC(c), FREE(c)}
    <3> DEFINE i == x - INDEX_SHIFT
    <3>1. x \in IndexCells /\ i \div Chunk = c
      BY <2>3 DEF Region
    <3>2. i \in Nat /\ i < Size /\ x > GLOBAL /\ GLOBAL \in Int
      BY <1>1, <3>1 DEF IndexCells, INDEX_SHIFT, GLOBAL
    <3>3. InitLink(x) = IF i % Chunk = Chunk - 1 \/ i = Size - 1 THEN FREE(c) ELSE x + 1
      <4>1. ~(x < FREE(0)) /\ ~(x < GLOBAL) /\ x # GLOBAL
        BY <1>1, <2>0, <3>2 DEF FREE, GLOBAL
      <4> QED
        BY <3>1, <4>1 DEF InitLink
    <3>4. CASE i % Chunk = Chunk - 1 \/ i = Size - 1
      BY <3>3, <3>4 DEF Region
    <3>5. CASE ~(i % Chunk = Chunk - 1 \/ i = Size - 1)
      <4>1. (i + 1) \div Chunk = c
        BY <3>1, <3>2, <3>5, ChunkPositive, SameChunk
      <4>2. (x + 1) - INDEX_SHIFT = i + 1 /\ x + 1 \in IndexCells
        BY <1>1, <2>0, <3>2, <3>5 DEF IndexCells, INDEX_SHIFT, GLOBAL
      <4> QED
        BY <3>3, <3>5, <4>1, <4>2 DEF Region
    <3> QED
      BY <3>4, <3>5
  <2> QED
    BY <2>1, <2>2, <2>3
<1>6. ASSUME NEW c \in Cores
      PROVE  ListsOK(c)
  BY <1>5, Geometry DEF Init, DchainInit, ListsOK
<1>7. ASSUME NEW c \in Cores, NEW x \in Cells, list_ind[x] = c
      PROVE  x \in Region(c)
  <2>1. c \in Nat /\ c < NumCores /\ x \in Int
    BY <1>1, Geometry DEF Cores
  <2>2. x = c \/ x = FREE(0) + c
    BY <1>1, <1>7, <2>1 DEF Init, DchainInit, FREE, GLOBAL
  <2> QED
    BY <1>1, <2>1, <2>2 DEF Region, ALLOC, FREE
<1>8. next[GLOBAL] = GLOBAL
  BY <1>1, Geometry DEF Init, DchainInit, InitLink, FREE, GLOBAL
<1> QED
  BY <1>3, <1>4, <1>6, <1>7, <1>8 DEF IInv

(* A confined step of one core preserves the invariant of all. *)
LEMMA ConfinedStep ==
  ASSUME IInv, NEW c \in Cores, Confined(c)
  PROVE  IInv'
<1>1. ASSUME NEW d \in Cores, d # c
      PROVE  CoreOK(d)' /\ ListsOK(d)'
  <2>1. \A x \in Region(d) : x \in Cells \ Region(c)
    BY <1>1, Geometry
  <2>2. ListsOK(d)'
    BY <1>1, <2>1 DEF IInv, ListsOK, Confined
  <2>3. next'[FREE(d)] = next[FREE(d)]
    BY <1>1, <2>1, Geometry DEF Confined
  <2>4. op'[d] = op[d] /\ cell'[d] = cell[d] /\ pc'[d] = pc[d] /\ log_add'[d] = log_add[d]
    BY <1>1 DEF Confined
  <2>5. CoreOK(d)
    BY DEF IInv
  <2> QED
    BY <2>2, <2>3, <2>4, <2>5 DEF CoreOK, HasFreeIndexes
<1>2. \A d \in Cores : CoreOK(d)' /\ ListsOK(d)'
  BY <1>1 DEF Confined
<1>3. ASSUME NEW d \in Cores, NEW x \in Cells, list_ind'[x] = d
      PROVE  x \in Region(d)
  BY <1>3, Geometry DEF IInv, Confined
<1>4. next'[GLOBAL] = GLOBAL
  BY Geometry DEF IInv, Confined
<1> QED
  BY <1>2, <1>3, <1>4 DEF IInv, Confined
-----------------------------------------------------------------------------
(* Steps that move a core along and leave the lists alone. *)
LEMMA QuietStep ==
  ASSUME IInv, NEW c \in Cores, UNCHANGED <<next, prev, list_ind, op, cell>>,
         NEW p \in Places, pc' = [pc EXCEPT ![c] = p],
         NEW b \in BOOLEAN, log_add' = [log_add EXCEPT ![c] = b],
         p = "commit" => op[c] \in {"lock", "pop", "unhook", "link"} /\ HasFreeIndexes(c),
         p = "expire" => op[c] \in {"none", "flock", "push", "hook"},
         p \notin {"commit", "expire"} => op[c] = "none",
         p = "handler" => ~b,
         b /\ p = "unlock" => HasFreeIndexes(c)
  PROVE  Confined(c)
<1>1. Typing'
  BY DEF IInv, Typing
<1>2. pc'[c] = p /\ log_add'[c] = b
  BY DEF IInv, Typing
<1>3. \A d \in Cores \ {c} : pc'[d] = pc[d] /\ log_add'[d] = log_add[d]
  BY DEF IInv, Typing
<1>4. HasFreeIndexes(c)' = HasFreeIndexes(c)
  BY DEF HasFreeIndexes
<1>5. CoreOK(c)'
  BY <1>2, <1>4 DEF IInv, CoreOK, HasFreeIndexes
<1>6. ListsOK(c)'
  BY DEF IInv, ListsOK
<1> QED
  BY <1>1, <1>3, <1>5, <1>6 DEF Confined

(* Actions of the manager that touch no list. *)
LEMMA QuietActions ==
  ASSUME IInv, NEW c \in Cores,
         \/ ExpireFind(c) \/ ExpireEnd(c) \/ \E k \in Keys : LookupMiss(c, k)
         \/ AddPktSetLog(c) \/ HandlerSkips(c) \/ HandlerAborts(c)
         \/ CommitNothing(c) \/ NextLoop(c)
  PROVE  Confined(c)
<1> USE DEF Move, dchainVars, lists, locks, managerVars, Places
<1>0. /\ log_add[c] \in BOOLEAN
      /\ log_add = [log_add EXCEPT ![c] = log_add[c]]
      /\ pc[c] \in Places
      /\ pc[c] \notin {"commit", "expire"} => op[c] = "none"
      /\ pc[c] = "handler" => ~log_add[c]
  BY DEF IInv, Typing, CoreOK
<1>1. CASE ExpireFind(c)
  <2>1. /\ UNCHANGED <<next, prev, list_ind, op, cell, log_add>> /\ op[c] = "none"
        /\ pc' = [pc EXCEPT ![c] = "expired_handler"]
    BY <1>1 DEF ExpireFind
  <2> QED
    BY <1>0, <2>1, QuietStep
<1>2. CASE ExpireEnd(c)
  <2>1. /\ UNCHANGED <<next, prev, list_ind, op, cell, log_add>> /\ op[c] = "none"
        /\ pc' = [pc EXCEPT ![c] = "serve"]
    BY <1>2 DEF ExpireEnd
  <2> QED
    BY <1>0, <2>1, QuietStep
<1>3. CASE \E k \in Keys : LookupMiss(c, k)
  <2>1. /\ UNCHANGED <<next, prev, list_ind, op, cell>> /\ pc[c] = "serve"
        /\ pc' = [pc EXCEPT ![c] = "handler"] /\ log_add' = [log_add EXCEPT ![c] = FALSE]
    BY <1>3 DEF LookupMiss
  <2> QED
    BY <1>0, <2>1, QuietStep
<1>4. CASE AddPktSetLog(c)
  <2> DEFINE b == IF HasFreeIndexes(c) THEN TRUE ELSE log_add[c]
  <2>1. /\ UNCHANGED <<next, prev, list_ind, op, cell>> /\ pc[c] = "handler"
        /\ pc' = [pc EXCEPT ![c] = "unlock"] /\ log_add' = [log_add EXCEPT ![c] = b]
    BY <1>4 DEF AddPktSetLog
  <2>2. b \in BOOLEAN
    BY <1>0
  <2>3. b => HasFreeIndexes(c)
    BY <1>0, <2>1
  <2> HIDE DEF b
  <2> QED
    BY <1>0, <2>1, <2>2, <2>3, QuietStep
<1>5. CASE HandlerSkips(c)
  <2>1. /\ UNCHANGED <<next, prev, list_ind, op, cell, log_add>> /\ pc[c] = "handler"
        /\ pc' = [pc EXCEPT ![c] = "unlock"]
    BY <1>5 DEF HandlerSkips
  <2> QED
    BY <1>0, <2>1, QuietStep
<1>6. CASE HandlerAborts(c)
  <2>1. /\ UNCHANGED <<next, prev, list_ind, op, cell>> /\ pc[c] \in {"handler", "unlock"}
        /\ pc' = [pc EXCEPT ![c] = "handler"] /\ log_add' = [log_add EXCEPT ![c] = FALSE]
    BY <1>6 DEF HandlerAborts
  <2> QED
    BY <1>0, <2>1, QuietStep
<1>7. CASE CommitNothing(c)
  <2>1. /\ UNCHANGED <<next, prev, list_ind, op, cell, log_add>> /\ pc[c] = "unlock"
        /\ pc' = [pc EXCEPT ![c] = "serve"]
    BY <1>7 DEF CommitNothing
  <2> QED
    BY <1>0, <2>1, QuietStep
<1>8. CASE NextLoop(c)
  <2>1. /\ UNCHANGED <<next, prev, list_ind, op, cell, log_add>> /\ pc[c] = "serve"
        /\ pc' = [pc EXCEPT ![c] = "expire"]
    BY <1>8 DEF NextLoop, Tick
  <2> QED
    BY <1>0, <2>1, QuietStep
<1> QED
  BY <1>1, <1>2, <1>3, <1>4, <1>5, <1>6, <1>7, <1>8
-----------------------------------------------------------------------------
(* g is f with some links of the region R redirected within R. *)
Redirects(f, g, R) ==
  /\ g \in [Cells -> Int]
  /\ \A x \in R : g[x] \in R
  /\ \A x \in Cells \ R : g[x] = f[x]

(* Redirecting up to three links of a region to cells of the region, as    *)
(* the list operations of the allocator do, keeps the region closed.       *)
LEMMA Redirect ==
  ASSUME NEW c \in Cores, NEW f \in [Cells -> Int], \A x \in Region(c) : f[x] \in Region(c),
         NEW a \in Region(c), NEW u \in Region(c),
         NEW b \in Region(c), NEW v \in Region(c),
         NEW d \in Region(c), NEW w \in Region(c)
  PROVE  /\ Redirects(f, f, Region(c))
         /\ Redirects(f, [f EXCEPT ![a] = u], Region(c))
         /\ Redirects(f, [f EXCEPT ![a] = u, ![b] = v], Region(c))
         /\ Redirects(f, [f EXCEPT ![a] = u, ![b] = v, ![d] = w], Region(c))
<1>1. Region(c) \subseteq Cells /\ Cells \subseteq Int
  BY Geometry
<1>2. ASSUME NEW g \in [Cells -> Int], \A x \in Region(c) : g[x] \in Region(c),
             NEW e \in Region(c), NEW t \in Region(c)
      PROVE  /\ [g EXCEPT ![e] = t] \in [Cells -> Int]
             /\ \A x \in Region(c) : [g EXCEPT ![e] = t][x] \in Region(c)
             /\ \A x \in Cells \ Region(c) : [g EXCEPT ![e] = t][x] = g[x]
  BY <1>1, <1>2
<1> DEFINE f1 == [f EXCEPT ![a] = u]
           f2 == [f1 EXCEPT ![b] = v]
           f3 == [f2 EXCEPT ![d] = w]
<1>3. /\ f1 \in [Cells -> Int] /\ \A x \in Region(c) : f1[x] \in Region(c)
      /\ \A x \in Cells \ Region(c) : f1[x] = f[x]
  BY <1>2
<1> HIDE DEF f1
<1>4. /\ f2 \in [Cells -> Int] /\ \A x \in Region(c) : f2[x] \in Region(c)
      /\ \A x \in Cells \ Region(c) : f2[x] = f1[x]
  BY <1>2, <1>3
<1> HIDE DEF f2
<1>5. /\ f3 \in [Cells -> Int] /\ \A x \in Region(c) : f3[x] \in Region(c)
      /\ \A x \in Cells \ Region(c) : f3[x] = f2[x]
  BY <1>2, <1>4
<1> HIDE DEF f3
<1>6. Redirects(f, f1, Region(c)) /\ Redirects(f, f2, Region(c)) /\ Redirects(f, f3, Region(c))
  BY <1>3, <1>4, <1>5 DEF Redirects
<1>7. f2 = [f EXCEPT ![a] = u, ![b] = v] /\ f3 = [f EXCEPT ![a] = u, ![b] = v, ![d] = w]
  BY DEF f1, f2, f3
<1> QED
  BY <1>6, <1>7 DEF f1, Redirects

(* A step that redirects links within the region of its core. *)
LEMMA ListStep ==
  ASSUME IInv, NEW c \in Cores,
         Redirects(next, next', Region(c)), Redirects(prev, prev', Region(c)),
         list_ind' \in [Cells -> Int],
         \A x \in Cells \ Region(c) : list_ind'[x] = list_ind[x],
         \A x \in Region(c) : list_ind'[x] \in {c, -1, list_ind[x]},
         NEW o \in Ops, op' = [op EXCEPT ![c] = o],
         NEW p \in Places, pc' = [pc EXCEPT ![c] = p],
         NEW y \in Int, cell' = [cell EXCEPT ![c] = y],
         UNCHANGED log_add,
         o \in {"unhook", "link", "flock", "push", "hook"} => y \in Region(c),
         \/ p = "commit" /\ o = "link"
         \/ p = "commit" /\ o \in {"lock", "pop", "unhook"} /\ HasFreeIndexes(c)'
         \/ p = "expire" /\ o \in {"none", "flock", "push", "hook"}
         \/ p = "serve" /\ o = "none"
  PROVE  Confined(c)
<1>1. Typing'
  BY DEF IInv, Typing, Redirects
<1>2. op'[c] = o /\ pc'[c] = p /\ cell'[c] = y
  BY DEF IInv, Typing
<1>3. \A d \in Cores \ {c} : op'[d] = op[d] /\ cell'[d] = cell[d] /\ pc'[d] = pc[d]
  BY DEF IInv, Typing
<1>4. CoreOK(c)'
  BY <1>2 DEF CoreOK
<1>5. ListsOK(c)'
  BY DEF ListsOK, Redirects
<1>6. \A x \in Cells \ Region(c) : next'[x] = next[x] /\ prev'[x] = prev[x]
  BY DEF Redirects
<1> QED
  BY <1>1, <1>3, <1>4, <1>5, <1>6 DEF Confined

(* What the steps below use of the invariant. *)
LEMMA Known ==
  ASSUME IInv, NEW c \in Cores
  PROVE  /\ next \in [Cells -> Int] /\ prev \in [Cells -> Int] /\ list_ind \in [Cells -> Int]
         /\ \A x \in Region(c) : next[x] \in Region(c)
         /\ \A x \in Region(c) : prev[x] \in Region(c)
         /\ ALLOC(c) \in Region(c) /\ FREE(c) \in Region(c) /\ ALLOC(c) = c
         /\ Region(c) \subseteq Int /\ Region(c) \subseteq Cells /\ c \in Int
         /\ Redirects(next, next, Region(c)) /\ Redirects(prev, prev, Region(c))
         /\ op[c] \in Ops /\ op = [op EXCEPT ![c] = op[c]]
         /\ pc[c] \in Places /\ pc = [pc EXCEPT ![c] = pc[c]]
         /\ cell[c] \in Int /\ cell = [cell EXCEPT ![c] = cell[c]]
         /\ \A x \in Region(c) :
              /\ [list_ind EXCEPT ![x] = -1] \in [Cells -> Int]
              /\ [list_ind EXCEPT ![x] = c] \in [Cells -> Int]
              /\ \A z \in Cells \ Region(c) : /\ [list_ind EXCEPT ![x] = -1][z] = list_ind[z]
                                              /\ [list_ind EXCEPT ![x] = c][z] = list_ind[z]
              /\ \A z \in Region(c) : /\ [list_ind EXCEPT ![x] = -1][z] \in {-1, list_ind[z]}
                                       /\ [list_ind EXCEPT ![x] = c][z] \in {c, list_ind[z]}
<1>1. /\ next \in [Cells -> Int] /\ prev \in [Cells -> Int] /\ list_ind \in [Cells -> Int]
      /\ op \in [Cores -> Ops] /\ pc \in [Cores -> Places] /\ cell \in [Cores -> Int]
  BY DEF IInv, Typing
<1>2. \A x \in Region(c) : next[x] \in Region(c) /\ prev[x] \in Region(c)
  BY DEF IInv, ListsOK
<1>3. /\ ALLOC(c) \in Region(c) /\ FREE(c) \in Region(c) /\ ALLOC(c) = c
      /\ Region(c) \subseteq Int /\ Region(c) \subseteq Cells /\ c \in Int
  BY Geometry
<1>4. Redirects(next, next, Region(c)) /\ Redirects(prev, prev, Region(c))
  BY <1>1, <1>2 DEF Redirects
<1>5. ASSUME NEW x \in Region(c), NEW v \in Int
      PROVE  /\ [list_ind EXCEPT ![x] = v] \in [Cells -> Int]
             /\ \A z \in Cells \ Region(c) : [list_ind EXCEPT ![x] = v][z] = list_ind[z]
             /\ \A z \in Region(c) : [list_ind EXCEPT ![x] = v][z] \in {v, list_ind[z]}
  BY <1>1, <1>3
<1>6. -1 \in Int
  OBVIOUS
<1>7. /\ op[c] \in Ops /\ op = [op EXCEPT ![c] = op[c]]
      /\ pc[c] \in Places /\ pc = [pc EXCEPT ![c] = pc[c]]
      /\ cell[c] \in Int /\ cell = [cell EXCEPT ![c] = cell[c]]
  BY <1>1
<1> QED
  BY <1>1, <1>2, <1>3, <1>4, <1>5, <1>6, <1>7

(* delete_expired_pkt_sets takes the oldest index off its own alloc list. *)
LEMMA ExpireCommitConfined ==
  ASSUME IInv, NEW c \in Cores, ExpireCommit(c)
  PROVE  Confined(c)
<1> DEFINE x == next[ALLOC(c)]
<1>1. x \in Region(c) /\ x \in Int /\ next[x] \in Region(c) /\ prev[x] \in Region(c)
  BY Known
<1>2. Oldest(c) + INDEX_SHIFT = x
  BY <1>1, SizeAssumption DEF Oldest, INDEX_SHIFT, GLOBAL
<1>3. /\ next' = [next EXCEPT ![prev[x]] = next[x]]
      /\ prev' = [prev EXCEPT ![next[x]] = prev[x]]
      /\ UNCHANGED <<list_ind, log_add>>
      /\ cell' = [cell EXCEPT ![c] = x]
      /\ op' = [op EXCEPT ![c] = "flock"]
      /\ pc' = [pc EXCEPT ![c] = "expire"]
  BY <1>2 DEF ExpireCommit, FreeIndex, Unlink, Goto, Move
<1> HIDE DEF x
<1>4. Redirects(next, next', Region(c)) /\ Redirects(prev, prev', Region(c))
  BY <1>1, <1>3, Known, Redirect
<1>5. "flock" \in Ops /\ "expire" \in Places
  BY DEF Ops, Places
<1> QED
  BY <1>1, <1>3, <1>4, <1>5, Known, ListStep

(* The steps that return the expired index to the free list of the core. *)
LEMMA ExpireReturnIndexConfined ==
  ASSUME IInv, NEW c \in Cores, ExpireReturnIndex(c)
  PROVE  Confined(c)
<1>1. pc[c] = "expire" /\ UNCHANGED <<pc, log_add>>
  BY DEF ExpireReturnIndex, managerVars
<1>2. op[c] \in {"flock", "push", "hook"} => cell[c] \in Region(c)
  BY DEF IInv, CoreOK
<1>3. "push" \in Ops /\ "hook" \in Ops /\ "none" \in Ops
  BY DEF Ops
<1>a. /\ pc' = [pc EXCEPT ![c] = "expire"] /\ "expire" \in Places
      /\ cell[c] \in Int /\ cell = [cell EXCEPT ![c] = cell[c]]
  BY <1>1, Known
<1>4. CASE FreeLock(c)
  <2>1. /\ UNCHANGED <<next, prev, list_ind>> /\ op' = [op EXCEPT ![c] = "push"]
        /\ cell' = [cell EXCEPT ![c] = cell[c]]
        /\ cell[c] \in Region(c)
    BY <1>2, <1>4, <1>a DEF FreeLock, lists, Goto
  <2>2. /\ Redirects(next, next', Region(c)) /\ Redirects(prev, prev', Region(c))
        /\ list_ind' \in [Cells -> Int]
    BY <2>1, Known
  <2> QED
    BY <1>1, <1>3, <1>a, <2>1, <2>2, ListStep
<1>5. CASE FreeHook(c)
  <2>1. /\ next' = [next EXCEPT ![cell[c]] = next[FREE(c)]]
        /\ prev' = [prev EXCEPT ![cell[c]] = next[FREE(c)]]
        /\ list_ind' = [list_ind EXCEPT ![cell[c]] = -1]
        /\ cell' = [cell EXCEPT ![c] = cell[c]] /\ op' = [op EXCEPT ![c] = "hook"]
        /\ cell[c] \in Region(c)
    BY <1>2, <1>5, <1>a DEF FreeHook, PointTo, Goto
  <2>2. Redirects(next, next', Region(c)) /\ Redirects(prev, prev', Region(c))
    BY <2>1, Known, Redirect
  <2>3. /\ list_ind' \in [Cells -> Int]
        /\ \A z \in Cells \ Region(c) : list_ind'[z] = list_ind[z]
        /\ \A z \in Region(c) : list_ind'[z] \in {-1, list_ind[z]}
    BY <2>1, Known
  <2> QED
    BY <1>1, <1>3, <1>a, <2>1, <2>2, <2>3, ListStep
<1>6. CASE FreePush(c)
  <2>1. /\ next' = [next EXCEPT ![FREE(c)] = cell[c]]
        /\ prev' = [prev EXCEPT ![FREE(c)] = cell[c]]
        /\ UNCHANGED list_ind /\ cell' = [cell EXCEPT ![c] = NoCell]
        /\ op' = [op EXCEPT ![c] = "none"]
        /\ cell[c] \in Region(c)
    BY <1>2, <1>6 DEF FreePush, PointTo, Goto
  <2>2. Redirects(next, next', Region(c)) /\ Redirects(prev, prev', Region(c))
    BY <2>1, Known, Redirect
  <2>3. NoCell \in Int
    BY DEF NoCell
  <2> QED
    BY <1>1, <1>3, <2>1, <2>2, <2>3, Known, ListStep
<1> QED
  BY <1>4, <1>5, <1>6 DEF ExpireReturnIndex, FreeStep

(* get_pkt_set_state of a registered set moves its index within the alloc  *)
(* list.                                                                   *)
LEMMA LookupHitConfined ==
  ASSUME IInv, NEW c \in Cores, NEW k \in Keys, LookupHit(c, k)
  PROVE  Confined(c)
<1>1. PICK i \in Indexes : RejuvenateIndex(c, i)
  BY DEF LookupHit
<1>2. pc[c] = "serve" /\ op[c] = "none" /\ UNCHANGED <<pc, log_add, op, cell>>
  BY <1>1 DEF LookupHit, RejuvenateIndex, managerVars
<1>3. /\ pc' = [pc EXCEPT ![c] = "serve"] /\ "serve" \in Places
      /\ op' = [op EXCEPT ![c] = "none"] /\ "none" \in Ops
      /\ cell' = [cell EXCEPT ![c] = cell[c]] /\ cell[c] \in Int
  BY <1>2, Known
<1>4. Rejuvenate(c, i)
  BY <1>1 DEF RejuvenateIndex
<1> DEFINE x == i + INDEX_SHIFT
           last == IF next[x] = ALLOC(c) THEN prev[x] ELSE prev[ALLOC(c)]
<1>5. CASE IsIndexAllocated(c, i) /\ next[x] # prev[x]
  <2>1. x \in Cells
    BY SizeAssumption DEF Indexes, Cells, INDEX_SHIFT, GLOBAL
  <2>2. x \in Region(c)
    <3>1. list_ind[x] = c
      BY <1>5, Known DEF IsIndexAllocated
    <3> QED
      BY <2>1, <3>1 DEF IInv
  <2>3. next[x] \in Region(c) /\ prev[x] \in Region(c) /\ last \in Region(c) /\ ALLOC(c) \in Region(c)
    BY <2>2, Known
  <2>4. /\ next' = [next EXCEPT ![prev[x]] = next[x], ![x] = ALLOC(c), ![last] = x]
        /\ prev' = [prev EXCEPT ![next[x]] = prev[x], ![x] = last, ![ALLOC(c)] = x]
        /\ UNCHANGED list_ind
    BY <1>4, <1>5 DEF Rejuvenate
  <2> HIDE DEF x, last
  <2>5. Redirects(next, next', Region(c)) /\ Redirects(prev, prev', Region(c))
        /\ list_ind' \in [Cells -> Int]
    BY <2>2, <2>3, <2>4, Known, Redirect
  <2> QED
    BY <1>2, <1>3, <2>4, <2>5, ListStep
<1>6. CASE ~(IsIndexAllocated(c, i) /\ next[x] # prev[x])
  <2>1. UNCHANGED <<next, prev, list_ind>>
    BY <1>4, <1>6 DEF Rejuvenate, lists
  <2>2. Redirects(next, next', Region(c)) /\ Redirects(prev, prev', Region(c))
        /\ list_ind' \in [Cells -> Int]
    BY <2>1, Known
  <2> QED
    BY <1>2, <1>3, <2>1, <2>2, ListStep
<1> QED
  BY <1>5, <1>6

(* add_pkt_set_commit starts its allocation with the free index that the   *)
(* log saw.                                                                *)
LEMMA CommitBeginConfined ==
  ASSUME IInv, NEW c \in Cores, CommitBegin(c)
  PROVE  Confined(c)
<1>1. /\ UNCHANGED <<next, prev, list_ind, cell, log_add>>
      /\ pc' = [pc EXCEPT ![c] = "commit"] /\ op' = [op EXCEPT ![c] = "lock"]
      /\ pc[c] = "unlock" /\ log_add[c]
  BY DEF CommitBegin, AllocateNewIndex, Goto, Move, managerVars, lists
<1>2. HasFreeIndexes(c)'
  BY <1>1 DEF IInv, CoreOK, HasFreeIndexes
<1>3. /\ Redirects(next, next', Region(c)) /\ Redirects(prev, prev', Region(c))
      /\ list_ind' \in [Cells -> Int]
      /\ cell' = [cell EXCEPT ![c] = cell[c]] /\ cell[c] \in Int
      /\ "commit" \in Places /\ "lock" \in Ops
  BY <1>1, Known DEF Places, Ops
<1> QED
  BY <1>1, <1>2, <1>3, ListStep

(* With an index in its own free list, a core never gets past AllocRead to *)
(* the global list.                                                        *)
LEMMA CommitAllocatesConfined ==
  ASSUME IInv, NEW c \in Cores, CommitAllocates(c)
  PROVE  Confined(c)
<1>1. pc[c] = "commit" /\ op[c] # "link" /\ UNCHANGED <<pc, log_add>> /\ AllocateStep(c)
  BY DEF CommitAllocates, managerVars
<1>2. op[c] \in {"lock", "pop", "unhook"} /\ HasFreeIndexes(c)
  BY <1>1 DEF IInv, CoreOK
<1>3. op[c] = "unhook" => cell[c] \in Region(c)
  BY DEF IInv, CoreOK
<1>4. /\ pc' = [pc EXCEPT ![c] = "commit"] /\ "commit" \in Places
      /\ cell[c] \in Int /\ cell = [cell EXCEPT ![c] = cell[c]]
      /\ "pop" \in Ops /\ "unhook" \in Ops /\ "link" \in Ops
  BY <1>1, Known DEF Ops
<1>5. CASE AllocLock(c)
  <2>1. /\ UNCHANGED <<next, prev, list_ind>> /\ op' = [op EXCEPT ![c] = "pop"]
        /\ cell' = [cell EXCEPT ![c] = cell[c]]
    BY <1>4, <1>5 DEF AllocLock, lists, Goto
  <2>2. /\ Redirects(next, next', Region(c)) /\ Redirects(prev, prev', Region(c))
        /\ list_ind' \in [Cells -> Int] /\ HasFreeIndexes(c)'
    BY <1>2, <2>1, Known DEF HasFreeIndexes
  <2> QED
    BY <1>1, <1>4, <2>1, <2>2, ListStep
<1>6. CASE AllocRead(c)
  <2>1. /\ UNCHANGED <<next, prev, list_ind>> /\ op' = [op EXCEPT ![c] = "unhook"]
        /\ cell' = [cell EXCEPT ![c] = next[FREE(c)]]
    BY <1>2, <1>6 DEF AllocRead, lists, Goto
  <2>2. /\ Redirects(next, next', Region(c)) /\ Redirects(prev, prev', Region(c))
        /\ list_ind' \in [Cells -> Int] /\ HasFreeIndexes(c)'
        /\ next[FREE(c)] \in Region(c) /\ next[FREE(c)] \in Int
    BY <1>2, <2>1, Known DEF HasFreeIndexes
  <2> QED
    BY <1>1, <1>4, <2>1, <2>2, ListStep
<1>7. CASE AllocUnhook(c)
  <2>1. /\ next' = [next EXCEPT ![FREE(c)] = next[cell[c]]]
        /\ prev' = [prev EXCEPT ![FREE(c)] = next[cell[c]]]
        /\ UNCHANGED list_ind /\ op' = [op EXCEPT ![c] = "link"]
        /\ cell' = [cell EXCEPT ![c] = cell[c]]
        /\ cell[c] \in Region(c)
    BY <1>3, <1>4, <1>7 DEF AllocUnhook, PointTo, Goto
  <2>2. /\ Redirects(next, next', Region(c)) /\ Redirects(prev, prev', Region(c))
        /\ list_ind' \in [Cells -> Int]
    BY <2>1, Known, Redirect
  <2> QED
    BY <1>1, <1>4, <2>1, <2>2, ListStep
<1>8. AllocLock(c) \/ AllocRead(c) \/ AllocUnhook(c)
  BY <1>1, <1>2 DEF AllocateStep, AllocLink, GlobalLock, GrabCoreLock, FillRead, FillMove,
                    GlobalRetry, UngrabCoreLock, GlobalPop
<1> QED
  BY <1>5, <1>6, <1>7, <1>8

(* add_pkt_set_commit appends the new index to the alloc list of the core. *)
LEMMA CommitPutConfined ==
  ASSUME IInv, NEW c \in Cores, CommitPut(c)
  PROVE  Confined(c)
<1> DEFINE x == cell[c]
           last == prev[ALLOC(c)]
<1>1. op[c] = "link" /\ x \in Region(c)
  BY DEF CommitPut, IInv, CoreOK
<1>2. last \in Region(c) /\ ALLOC(c) \in Region(c)
  BY Known
<1>3. /\ next' = [next EXCEPT ![x] = ALLOC(c), ![last] = x]
      /\ prev' = [prev EXCEPT ![x] = last, ![ALLOC(c)] = x]
      /\ list_ind' = [list_ind EXCEPT ![x] = c]
      /\ cell' = [cell EXCEPT ![c] = NoCell] /\ NoCell \in Int
      /\ op' = [op EXCEPT ![c] = "none"] /\ "none" \in Ops
      /\ pc' = [pc EXCEPT ![c] = "serve"] /\ "serve" \in Places
      /\ UNCHANGED log_add
  BY DEF CommitPut, AllocLink, Goto, Move, NoCell, Ops, Places, ALLOC
<1> HIDE DEF x, last
<1>4. Redirects(next, next', Region(c)) /\ Redirects(prev, prev', Region(c))
  BY <1>1, <1>2, <1>3, Known, Redirect
<1>5. /\ list_ind' \in [Cells -> Int]
      /\ \A z \in Cells \ Region(c) : list_ind'[z] = list_ind[z]
      /\ \A z \in Region(c) : list_ind'[z] \in {c, list_ind[z]}
  BY <1>1, <1>3, Known
<1> QED
  BY <1>3, <1>4, <1>5, ListStep
-----------------------------------------------------------------------------
(* A step of core c. *)
StepOf(c) == UseNoSet(c) \/ (\E k \in Keys : LookupHit(c, k)) \/ CommitPut(c)

(* Every step of a core is confined to its region. *)
LEMMA StepConfined ==
  ASSUME IInv, NEW c \in Cores, StepOf(c)
  PROVE  Confined(c)
<1>1. CASE UseNoSet(c)
  BY <1>1, QuietActions, ExpireCommitConfined, ExpireReturnIndexConfined,
     CommitBeginConfined, CommitAllocatesConfined DEF UseNoSet
<1>2. CASE \E k \in Keys : LookupHit(c, k)
  BY <1>2, LookupHitConfined
<1>3. CASE CommitPut(c)
  BY <1>3, CommitPutConfined
<1> QED
  BY <1>1, <1>2, <1>3 DEF StepOf

(* The invariant is inductive. *)
LEMMA InvNext ==
  ASSUME IInv, [Next]_vars
  PROVE  IInv'
<1>1. CASE Next
  <2>1. PICK c \in Cores : StepOf(c)
    BY <1>1 DEF Next, StepOf
  <2> QED
    BY <2>1, StepConfined, ConfinedStep
<1>2. CASE UNCHANGED vars
  BY <1>2 DEF vars, dchainVars, lists, managerVars, IInv, Typing, CoreOK, ListsOK, HasFreeIndexes
<1> QED
  BY <1>1, <1>2

(* The invariant holds in all reachable states. *)
THEOREM InvHolds == Spec => []IInv
  BY InitInv, InvNext, PTL DEF Spec

(* The lists of a core never lead into the partition of another core.      *)
THEOREM PartitionsStaySeparate == Spec => []PartitionsSeparate
<1>1. IInv => PartitionsSeparate
  BY DEF IInv, CoreOK, ListsOK, PartitionsSeparate
<1> QED
  BY <1>1, InvHolds, PTL

(* The allocation of add_pkt_set_commit never fails and never leaves the   *)
(* core's own free list, for any number of cores and packet sets.          *)
THEOREM CommitAlwaysFindsIndex == Spec => []CommitFindsLocalIndex
<1>1. IInv => CommitFindsLocalIndex
  BY DEF IInv, CoreOK, CommitFindsLocalIndex
<1> QED
  BY <1>1, InvHolds, PTL
-----------------------------------------------------------------------------
(* A core that is to expire a packet set has one: the oldest index of its  *)
(* alloc list is still the one it has seen.                                *)
Expiring == \A c \in Cores : pc[c] = "expired_handler" => next[ALLOC(c)] # ALLOC(c)

(* The steps of the manager on the allocator are steps of the allocator.   *)
LEMMA StepAllocates ==
  ASSUME IInv, DInvariant, Expiring, [Next]_vars
  PROVE  [DchainNext]_dchainVars
<1>1. CASE UNCHANGED vars
  BY <1>1 DEF vars
<1>2. ASSUME NEW c \in Cores, StepOf(c) PROVE [DchainNext]_dchainVars
  <2>1. CASE UNCHANGED dchainVars
    BY <2>1
  <2>2. CASE ExpireCommit(c)
    <3>1. PICK on, rank : InPlaces(on, rank)
      BY DEF DInvariant, DIInv
    <3>2. next[ALLOC(c)] # ALLOC(c) /\ ALLOC(c) \in Heads
      BY <2>2, CellFacts DEF ExpireCommit, Expiring
    <3>3. next[ALLOC(c)] \in IndexCells
      BY <3>1, <3>2 DEF InPlaces, List, Leads, Members
    <3>4. Oldest(c) \in Indexes /\ FreeIndex(c, Oldest(c))
      BY <3>3, <2>2, CellFacts DEF Oldest, ExpireCommit
    <3> QED
      BY <3>4 DEF DchainNext
  <2>3. CASE ExpireReturnIndex(c) \/ CommitBegin(c) \/ CommitAllocates(c)
    BY <2>3 DEF ExpireReturnIndex, CommitBegin, CommitAllocates, DchainNext
  <2>4. CASE \E k \in Keys : LookupHit(c, k)
    BY <2>4 DEF LookupHit, DchainNext
  <2>5. CASE CommitPut(c)
    BY <2>5 DEF CommitPut, DchainNext, AllocateStep
  <2>6. CASE NextLoop(c)
    BY <2>6 DEF NextLoop, DchainNext
  <2>7. CASE \/ ExpireFind(c) \/ ExpireEnd(c) \/ \E k \in Keys : LookupMiss(c, k)
             \/ AddPktSetLog(c) \/ HandlerSkips(c) \/ HandlerAborts(c) \/ CommitNothing(c)
    BY <2>1, <2>7 DEF ExpireFind, ExpireEnd, LookupMiss, AddPktSetLog, HandlerSkips, HandlerAborts, CommitNothing
  <2> QED
    BY <1>2, <2>2, <2>3, <2>4, <2>5, <2>6, <2>7 DEF StepOf, UseNoSet
<1> QED
  BY <1>1, <1>2 DEF Next, StepOf

(* No other core, and no other step, takes the oldest index away. *)
LEMMA ExpiringNext ==
  ASSUME IInv, Expiring, [Next]_vars
  PROVE  Expiring'
<1>1. CASE UNCHANGED vars
  BY <1>1 DEF vars, dchainVars, lists, Expiring
<1>2. ASSUME NEW c \in Cores, StepOf(c) PROVE Expiring'
  <2>1. Confined(c)
    BY <1>2, StepConfined
  <2>2. ASSUME NEW d \in Cores \ {c} PROVE pc'[d] = pc[d] /\ next'[ALLOC(d)] = next[ALLOC(d)]
    BY <2>1, Geometry DEF Confined
  <2>3. pc \in [Cores -> Places]
    BY DEF IInv, Typing
  <2>4. pc'[c] = "expired_handler" => next'[ALLOC(c)] # ALLOC(c)
    <3>1. CASE ExpireFind(c)
      BY <3>1 DEF ExpireFind, HasExpiredIndex, dchainVars, lists
    <3>2. CASE ExpireCommit(c) \/ ExpireReturnIndex(c) \/ ExpireEnd(c) \/ NextLoop(c)
      BY <3>2, <2>3 DEF ExpireCommit, ExpireReturnIndex, ExpireEnd, NextLoop, Move
    <3>3. CASE \/ (\E k \in Keys : LookupMiss(c, k) \/ LookupHit(c, k))
               \/ AddPktSetLog(c) \/ HandlerSkips(c) \/ HandlerAborts(c)
      BY <3>3, <2>3 DEF LookupMiss, LookupHit, AddPktSetLog, HandlerSkips, HandlerAborts, Move
    <3>4. CASE CommitBegin(c) \/ CommitNothing(c) \/ CommitAllocates(c) \/ CommitPut(c)
      BY <3>4, <2>3 DEF CommitBegin, CommitNothing, CommitAllocates, CommitPut, Move
    <3> QED
      BY <1>2, <3>1, <3>2, <3>3, <3>4 DEF StepOf, UseNoSet
  <2> QED
    BY <2>2, <2>4 DEF Expiring
<1> QED
  BY <1>1, <1>2 DEF Next, StepOf

(* The invariants of the manager and of the allocator hold together, and   *)
(* every behaviour of the manager is one of the allocator: what the        *)
(* theorems about the allocator say holds for the packet-set manager too.  *)
THEOREM ManagerUsesAllocator == Spec => DchainSpec /\ [](IInv /\ DInvariant /\ Expiring)
<1>1. Init => IInv /\ DInvariant /\ Expiring
  <2>1. Init => Expiring
    BY DEF Init, Expiring
  <2>2. Init => DchainInit
    BY DEF Init
  <2> QED
    BY <2>1, <2>2, InitInv, DInvariantInit
<1>2. IInv /\ DInvariant /\ Expiring /\ [Next]_vars => IInv' /\ DInvariant' /\ Expiring' /\ [DchainNext]_dchainVars
  BY InvNext, StepAllocates, ExpiringNext, DInvariantNext
<1>3. Init => DchainInit
  BY DEF Init
<1> QED
  BY <1>1, <1>2, <1>3, PTL DEF Spec, DchainSpec
-----------------------------------------------------------------------------
(* The packet sets of a core that serves packets are not overdue.          *)
Serving == {"serve", "handler", "unlock", "commit"}

FreshAt(c) ==
  pc[c] \in Serving => \A x \in IndexCells : list_ind[x] = c => time[x] >= now[c] - Validity

(* A step of core c writes timestamps in its own region only, and always   *)
(* the time of now.                                                        *)
Stamps(c) ==
  /\ \A x \in IndexCells : time'[x] = time[x] \/ (x \in Region(c) /\ time'[x] = now[c])
  /\ \A d \in Cores \ {c} : now'[d] = now[d]

(* The steps of a core write no timestamps but these. *)
LEMMA StepStamps ==
  ASSUME IInv, DInvariant, NEW c \in Cores, StepOf(c)
  PROVE  Stamps(c)
<1>1. time \in [Cells -> 0..INT64_MAX] /\ now \in [Cores -> 0..MaxTime] /\ IndexCells \subseteq Cells
  BY HeadsApart DEF DInvariant, Locked, DTyping
<1>2. CASE UNCHANGED <<time, now>>
  BY <1>2 DEF Stamps
<1>3. ASSUME NEW k \in Keys, LookupHit(c, k) PROVE Stamps(c)
  <2>1. PICK i \in Indexes : RejuvenateIndex(c, i)
    BY <1>3 DEF LookupHit
  <2> DEFINE x == i + INDEX_SHIFT
  <2>2. x \in IndexCells /\ now' = now
    BY <2>1, CellFacts DEF RejuvenateIndex
  <2>3. CASE IsIndexAllocated(c, i) /\ next[x] # prev[x]
    <3>1. time' = [time EXCEPT ![x] = now[c]]
      BY <2>1, <2>3 DEF RejuvenateIndex, Rejuvenate
    <3>2. x \in Region(c)
      BY <2>2, <2>3, <1>1, Geometry DEF IsIndexAllocated, IInv
    <3> QED
      BY <3>1, <3>2, <2>2, <1>1 DEF Stamps
  <2>4. CASE ~(IsIndexAllocated(c, i) /\ next[x] # prev[x])
    BY <2>1, <2>2, <2>4, <1>2 DEF RejuvenateIndex, Rejuvenate, lists
  <2> QED
    BY <2>3, <2>4
<1>4. CASE CommitPut(c)
  <2>1. cell[c] \in Region(c) /\ time' = [time EXCEPT ![cell[c]] = now[c]] /\ now' = now
    BY <1>4 DEF CommitPut, AllocLink, IInv, CoreOK
  <2> QED
    BY <2>1, <1>1 DEF Stamps
<1>5. CASE CommitAllocates(c)
  <2>1. op[c] \in {"lock", "pop", "unhook"}
    BY <1>5 DEF CommitAllocates, IInv, CoreOK
  <2>2. AllocLock(c) \/ AllocRead(c) \/ AllocUnhook(c)
    BY <1>5, <2>1 DEF CommitAllocates, AllocateStep, AllocLink, GlobalLock, GrabCoreLock, FillRead, FillMove,
                      GlobalRetry, UngrabCoreLock, GlobalPop
  <2> QED
    BY <2>2, <1>2 DEF AllocLock, AllocRead, AllocUnhook, lists
<1>6. CASE NextLoop(c)
  BY <1>1, <1>6 DEF NextLoop, Tick, dchainVars, lists, Stamps
<1>7. CASE ExpireCommit(c) \/ ExpireReturnIndex(c) \/ CommitBegin(c)
  BY <1>2, <1>7 DEF ExpireCommit, ExpireReturnIndex, CommitBegin, FreeIndex, FreeStep, FreeLock, FreeHook, FreePush,
                    AllocateNewIndex, lists
<1>8. CASE \/ ExpireFind(c) \/ ExpireEnd(c) \/ \E k \in Keys : LookupMiss(c, k)
           \/ AddPktSetLog(c) \/ HandlerSkips(c) \/ HandlerAborts(c) \/ CommitNothing(c)
  BY <1>2, <1>8 DEF ExpireFind, ExpireEnd, LookupMiss, AddPktSetLog, HandlerSkips, HandlerAborts, CommitNothing,
                    dchainVars, lists
<1> QED
  BY <1>3, <1>4, <1>5, <1>6, <1>7, <1>8 DEF StepOf, UseNoSet

(* The loop of delete_expired_pkt_sets ends when the oldest index is not   *)
(* overdue; by the order of the alloc list no other one is either.         *)
LEMMA NoneOverdue ==
  ASSUME DInvariant, NEW c \in Cores, op[c] = "none", NEW bound \in Int, ~HasExpiredIndex(c, bound),
         NEW x \in IndexCells, list_ind[x] = c
  PROVE  time[x] >= bound
<1> DEFINE h == ALLOC(c)
<1>1. PICK on, rank : InPlaces(on, rank)
  BY DEF DInvariant, DIInv
<1>2. List(IndexCells, h, next, on, rank) /\ ByAge(c, on, rank) /\ on \in Labels(IndexCells) /\ rank \in Labels(IndexCells)
  BY <1>1, AllocListFacts DEF InPlaces
<1>3. on[x] = h /\ x \in Members(IndexCells, h, on)
  BY <1>1 DEF InPlaces, Marked, Members
<1>4. next[h] # h /\ rank[next[h]] <= rank[x] /\ next[h] \in Members(IndexCells, h, on)
  BY <1>2, <1>3 DEF List, FirstIsLeast, Leads
<1>5. rank[next[h]] \in Int /\ rank[x] \in Int /\ time[x] \in Int /\ time[next[h]] \in Int
  BY <1>2, <1>3, <1>4, HeadsApart DEF Members, Labels, DInvariant, Locked, DTyping
<1>6. time[next[h]] >= bound
  BY <1>4, <1>5 DEF HasExpiredIndex
<1>7. CASE rank[next[h]] = rank[x]
  BY <1>2, <1>3, <1>4, <1>6, <1>7 DEF List, RanksDiffer
<1>8. CASE rank[next[h]] # rank[x]
  <2>1. rank[next[h]] < rank[x]
    BY <1>4, <1>5, <1>8
  <2>2. time[next[h]] <= time[x]
    BY <2>1, <1>2, <1>3, <1>4 DEF ByAge
  <2> QED
    BY <2>2, <1>5, <1>6
<1> QED
  BY <1>7, <1>8

(* A step that leaves list_ind alone and keeps serving. *)
LEMMA FreshKept ==
  ASSUME IInv, DInvariant, NEW c \in Cores, Stamps(c), FreshAt(c), now'[c] = now[c], pc[c] \in Serving,
         \A x \in IndexCells : list_ind'[x] = c => list_ind[x] = c \/ time'[x] = now[c]
  PROVE  FreshAt(c)'
<1>1. now[c] \in Nat /\ Validity \in Nat
  BY ManagerAssumption DEF DInvariant, Locked, DTyping
<1>2. now[c] >= now[c] - Validity
  BY <1>1
<1>3. ASSUME NEW x \in IndexCells, list_ind'[x] = c PROVE time'[x] >= now[c] - Validity
  BY <1>2, <1>3 DEF FreshAt, Stamps
<1> QED
  BY <1>3 DEF FreshAt

(* A core that serves packets has no overdue index: expiry ends only when  *)
(* the oldest index, hence every index of the list, is fresh, and until    *)
(* the core is back at the start of its loop its clock stands still.       *)
LEMMA FreshNext ==
  ASSUME IInv, IInv', DInvariant, \A c \in Cores : FreshAt(c), [Next]_vars
  PROVE  \A d \in Cores : FreshAt(d)'
<1>1. CASE UNCHANGED vars
  BY <1>1 DEF vars, dchainVars, lists, FreshAt
<1>2. ASSUME NEW c \in Cores, StepOf(c), NEW d \in Cores PROVE FreshAt(d)'
  <2>1. Confined(c) /\ Stamps(c)
    BY <1>2, StepConfined, StepStamps
  <2>2. CASE d # c
    <3>1. pc'[d] = pc[d] /\ now'[d] = now[d]
      BY <2>1, <2>2 DEF Confined, Stamps
    <3>2. ASSUME NEW x \in IndexCells, list_ind'[x] = d PROVE list_ind[x] = d /\ time'[x] = time[x]
      <4>1. x \in Region(d) /\ x \in Cells
        BY <3>2, HeadsApart DEF IInv
      <4>2. x \in Cells \ Region(c)
        BY <4>1, <2>2, Geometry
      <4> QED
        BY <4>2, <3>2, <2>1 DEF Confined, Stamps
    <3> QED
      BY <3>1, <3>2 DEF FreshAt
  <2>3. CASE d = c
    <3>1. pc \in [Cores -> Places] /\ op[c] \in Ops /\ now[c] \in Int /\ Validity \in Int
      BY ManagerAssumption DEF IInv, Typing, DInvariant, Locked, DTyping
    <3>2. CASE ExpireEnd(c)
      <4>1. op[c] = "none" /\ ~HasExpiredIndex(c, now[c] - Validity) /\ UNCHANGED <<list_ind, time, now>>
        BY <3>2 DEF ExpireEnd, dchainVars, lists
      <4>2. \A x \in IndexCells : list_ind[x] = c => time[x] >= now[c] - Validity
        BY <4>1, <3>1, NoneOverdue
      <4> QED
        BY <4>1, <4>2, <2>3 DEF FreshAt
    <3>3. CASE ExpireFind(c) \/ ExpireCommit(c) \/ ExpireReturnIndex(c) \/ NextLoop(c)
      <4>1. pc'[c] \notin Serving
        BY <3>1, <3>3 DEF ExpireFind, ExpireCommit, ExpireReturnIndex, NextLoop, Move, Serving, managerVars
      <4> QED
        BY <4>1, <2>3 DEF FreshAt
    <3>4. ASSUME pc[c] \in Serving, now' = now,
                 \A x \in IndexCells : list_ind'[x] = c => list_ind[x] = c \/ time'[x] = now[c]
          PROVE  FreshAt(d)'
      BY <3>4, <2>1, <2>3, FreshKept
    <3>5. CASE \/ \E k \in Keys : LookupMiss(c, k)
               \/ AddPktSetLog(c) \/ HandlerSkips(c) \/ HandlerAborts(c) \/ CommitNothing(c)
      BY <3>4, <3>5 DEF LookupMiss, AddPktSetLog, HandlerSkips, HandlerAborts, CommitNothing, Serving, dchainVars, lists
    <3>6. CASE CommitBegin(c)
      BY <3>4, <3>6 DEF CommitBegin, AllocateNewIndex, Serving, lists
    <3>7. CASE CommitAllocates(c)
      <4>1. op[c] \in {"lock", "pop", "unhook"}
        BY <3>7 DEF CommitAllocates, IInv, CoreOK
      <4>2. AllocLock(c) \/ AllocRead(c) \/ AllocUnhook(c)
        BY <3>7, <4>1 DEF CommitAllocates, AllocateStep, AllocLink, GlobalLock, GrabCoreLock, FillRead, FillMove,
                          GlobalRetry, UngrabCoreLock, GlobalPop
      <4>3. pc[c] \in Serving /\ now' = now /\ list_ind' = list_ind
        BY <3>7, <4>2 DEF CommitAllocates, AllocLock, AllocRead, AllocUnhook, Serving, lists
      <4> QED
        BY <4>3, <3>4
    <3>8. CASE CommitPut(c)
      <4>1. /\ pc[c] \in Serving /\ now' = now /\ list_ind' = [list_ind EXCEPT ![cell[c]] = c]
            /\ time' = [time EXCEPT ![cell[c]] = now[c]]
        BY <3>8 DEF CommitPut, AllocLink, Serving, ALLOC
      <4>2. time \in [Cells -> 0..INT64_MAX] /\ list_ind \in [Cells -> Cores \cup {-1}] /\ IndexCells \subseteq Cells
        BY HeadsApart DEF DInvariant, Locked, DTyping
      <4>3. \A x \in IndexCells : list_ind'[x] = c => list_ind[x] = c \/ time'[x] = now[c]
        BY <4>1, <4>2
      <4> QED
        BY <4>1, <4>3, <3>4
    <3>9. CASE \E k \in Keys : LookupHit(c, k)
      <4>1. pc[c] \in Serving /\ now' = now /\ list_ind' = list_ind
        BY <3>9 DEF LookupHit, RejuvenateIndex, Rejuvenate, Serving, lists
      <4> QED
        BY <4>1, <3>4
    <3> QED
      BY <1>2, <3>2, <3>3, <3>5, <3>6, <3>7, <3>8, <3>9 DEF StepOf, UseNoSet
  <2> QED
    BY <2>2, <2>3
<1> QED
  BY <1>1, <1>2 DEF Next, StepOf

(* While a core serves packets, none of the packet sets in its alloc list  *)
(* is overdue, although delete_expired_pkt_sets looks only at the first    *)
(* index of the list and rejuvenation leaves a lone index where it is.     *)
THEOREM ServedSetsNotOverdue == Spec => []NoOverdueSetServed
<1> DEFINE Fresh == \A c \in Cores : FreshAt(c)
<1>1. Init => Fresh
  BY DEF Init, FreshAt, Serving
<1>2. IInv /\ IInv' /\ DInvariant /\ Fresh /\ [Next]_vars => Fresh'
  BY FreshNext
<1>3. ASSUME DInvariant, NEW c \in Cores, FreshAt(c), pc[c] \in Serving, NEW x \in CellsOf(ALLOC(c))
      PROVE  time[x] >= now[c] - Validity
  <2>1. PICK on, rank : InPlaces(on, rank)
    BY <1>3 DEF DInvariant, DIInv
  <2>2. CellsOf(ALLOC(c)) = Members(IndexCells, ALLOC(c), on)
    BY <1>3, <2>1, AllocListFacts
  <2>3. x \in IndexCells /\ list_ind[x] = c
    BY <1>3, <2>1, <2>2 DEF InPlaces, Marked, Members
  <2> QED
    BY <1>3, <2>3 DEF FreshAt
<1>4. DInvariant /\ Fresh => NoOverdueSetServed
  BY <1>3 DEF NoOverdueSetServed, Serving
<1> HIDE DEF Fresh
<1> QED
  BY <1>1, <1>2, <1>4, ManagerUsesAllocator, PTL DEF Spec
-----------------------------------------------------------------------------
(* The map by itself.  A map is sound when the entries of every bucket     *)
(* form a chain, no entry is on two chains or twice on one, and an entry   *)
(* on no chain has no link.                                                *)
AllBuckets == 0..NumBuckets * NumCores - 1

MapType ==
  [buckets : [AllBuckets -> Entries \cup {NoEntry}],
   map_chain_next : [Entries -> Entries \cup {NoEntry}],
   id : [Entries -> Keys \cup {NoKey}]]

IsChain(m, b, s) ==
  /\ s \in Seq(Entries) /\ Len(s) <= NumEntries
  /\ m.buckets[b] = IF s = <<>> THEN NoEntry ELSE s[1]
  /\ \A n \in 1..Len(s) : m.map_chain_next[s[n]] = IF n = Len(s) THEN NoEntry ELSE s[n + 1]

(* The walk that Chain makes, one entry at a time. *)
Longer(m, s) ==
  IF s = <<>> \/ m.map_chain_next[s[Len(s)]] = NoEntry THEN s
  ELSE Append(s, m.map_chain_next[s[Len(s)]])
FirstOf(m, b) == IF m.buckets[b] = NoEntry THEN <<>> ELSE <<m.buckets[b]>>

FromEq(g, m, b) == g = [n \in 0..NumEntries |-> IF n = 0 THEN FirstOf(m, b) ELSE Longer(m, g[n - 1])]
From(m, b) == CHOOSE g : FromEq(g, m, b)

(* The step of the recursion in Chain. *)
LEMMA LongerWith ==
  ASSUME NEW m, NEW t
  PROVE  With(t, LAMBDA s :
                IF s = <<>> \/ m.map_chain_next[s[Len(s)]] = NoEntry THEN s
                ELSE Append(s, m.map_chain_next[s[Len(s)]])) = Longer(m, t)
<1>. DEFINE S == {Longer(m, v) : v \in {t}}
<1>1. (CHOOSE y \in S : TRUE) = Longer(m, t)
  <2>1. \A x : x \in S <=> x = Longer(m, t)
    OBVIOUS
  <2>. HIDE DEF S
  <2>. QED
    BY <2>1, OnlyChoice
<1>. QED
  BY <1>1 DEF With, Longer

(* Chain is the last value of the recursion. *)
LEMMA ChainFrom ==
  ASSUME NEW m, NEW b
  PROVE  Chain(m, b) = From(m, b)[NumEntries]
<1>1. \A t : With(t, LAMBDA s :
               IF s = <<>> \/ m.map_chain_next[s[Len(s)]] = NoEntry THEN s
               ELSE Append(s, m.map_chain_next[s[Len(s)]])) = Longer(m, t)
  BY LongerWith
<1>. QED
  BY <1>1 DEF Chain, From, FromEq, FirstOf

(* Entries are numbers, none of them NoEntry. *)
LEMMA EntryFacts ==
  /\ NumEntries \in Nat /\ NumEntries > 0 /\ Entries \subseteq Nat /\ NoEntry \notin Entries /\ NoEntry \in Int
  /\ IsFiniteSet(Entries) /\ Cardinality(Entries) = NumEntries
<1>1. NumEntries \in Nat /\ NumEntries > 0
  BY SizeAssumption DEF NumEntries
<1>2. IsFiniteSet(0..NumEntries - 1) /\ Cardinality(0..NumEntries - 1) = NumEntries
  BY <1>1, FS_Interval
<1>. QED
  BY <1>1, <1>2 DEF Entries, NoEntry

(* The recursion has a solution. *)
LEMMA FromEquation ==
  ASSUME NEW m \in MapType, NEW b \in AllBuckets
  PROVE  FromEq(From(m, b), m, b)
<1>. DEFINE S == Seq(Entries)
            long == [s \in S |-> Longer(m, s)]
            step == [n \in 1..NumEntries |-> long]
<1>1. ASSUME NEW s \in S PROVE Longer(m, s) \in S
  <2>1. CASE s = <<>>
    BY <2>1 DEF Longer
  <2>2. CASE s # <<>>
    <3>1. Len(s) \in 1..Len(s) /\ s[Len(s)] \in Entries
      BY <2>2
    <3>2. m.map_chain_next[s[Len(s)]] \in Entries \cup {NoEntry}
      BY <3>1 DEF MapType
    <3>. QED
      BY <3>2 DEF Longer
  <2>. QED
    BY <2>1, <2>2
<1>2. FirstOf(m, b) \in S
  <2>1. m.buckets[b] \in Entries \cup {NoEntry}
    BY DEF MapType
  <2>. QED
    BY <2>1 DEF FirstOf
<1>. HIDE DEF S
<1>3. long \in [S -> S] /\ \A s \in S : long[s] = Longer(m, s)
  BY <1>1
<1>. HIDE DEF long
<1>4. step \in Steps(NumEntries, S) /\ \A n \in 1..NumEntries : step[n] = long
  BY <1>3 DEF Steps
<1>. HIDE DEF step
<1>5. PICK f : Computes(f, NumEntries, S, FirstOf(m, b), step)
  BY <1>2, <1>4, EntryFacts, Recursion
<1>6. f \in [0..NumEntries -> S] /\ f[0] = FirstOf(m, b) /\ \A n \in 1..NumEntries : f[n] = long[f[n - 1]]
  BY <1>4, <1>5 DEF Computes
<1>7. ASSUME NEW n \in 0..NumEntries
      PROVE  f[n] = IF n = 0 THEN FirstOf(m, b) ELSE Longer(m, f[n - 1])
  <2>1. CASE n = 0
    BY <2>1, <1>6
  <2>2. CASE n # 0
    <3>1. n \in 1..NumEntries /\ n - 1 \in 0..NumEntries
      BY <2>2, EntryFacts
    <3>2. f[n - 1] \in S /\ f[n] = long[f[n - 1]]
      BY <3>1, <1>6
    <3>. QED
      BY <3>2, <2>2, <1>3
  <2>. QED
    BY <2>1, <2>2
<1>8. FromEq(f, m, b)
  BY <1>6, <1>7 DEF FromEq
<1>. QED
  BY <1>8 DEF From

Prefix(s, k) == [j \in 1..k |-> s[j]]

(* A prefix of a sequence is a sequence. *)
LEMMA PrefixFacts ==
  ASSUME NEW s \in Seq(Entries), NEW k \in 0..Len(s)
  PROVE  Prefix(s, k) \in Seq(Entries) /\ Len(Prefix(s, k)) = k
<1>1. k \in Nat /\ \A j \in 1..k : s[j] \in Entries
  OBVIOUS
<1>2. Prefix(s, k) \in [1..k -> Entries]
  BY <1>1 DEF Prefix
<1>. QED
  BY <1>1, <1>2

(* The walk along a chain visits exactly the chain. *)
LEMMA ChainIs ==
  ASSUME NEW m \in MapType, NEW b \in AllBuckets, NEW s, IsChain(m, b, s)
  PROVE  Chain(m, b) = s
<1>. DEFINE G == From(m, b)
            Least2(n) == IF n + 1 <= Len(s) THEN n + 1 ELSE Len(s)
            T == {n \in 0..NumEntries : G[n] = Prefix(s, Least2(n))}
<1>1. \A n \in 0..NumEntries : G[n] = IF n = 0 THEN FirstOf(m, b) ELSE Longer(m, G[n - 1])
  BY FromEquation DEF FromEq
<1>2. s \in Seq(Entries) /\ Len(s) \in Nat /\ Len(s) <= NumEntries
  BY DEF IsChain
<1>. HIDE DEF G
<1>3. 0 \in T
  <2>1. CASE s = <<>>
    <3>1. Least2(0) = 0 /\ FirstOf(m, b) = <<>>
      BY <2>1, <1>2 DEF IsChain, FirstOf
    <3>2. Prefix(s, 0) = <<>>
      BY DEF Prefix
    <3>. QED
      BY <3>1, <3>2, <1>1, EntryFacts
  <2>2. CASE s # <<>>
    <3>1. Least2(0) = 1 /\ s[1] \in Entries
      BY <2>2, <1>2
    <3>2. FirstOf(m, b) = <<s[1]>>
      BY <2>2, <3>1, EntryFacts DEF IsChain, FirstOf
    <3>3. Prefix(s, 1) = <<s[1]>>
      BY DEF Prefix
    <3>. QED
      BY <3>1, <3>2, <3>3, <1>1, EntryFacts
  <2>. QED
    BY <2>1, <2>2
<1>4. ASSUME NEW n \in 0..NumEntries - 1, n \in T PROVE n + 1 \in T
  <2>1. n + 1 \in 0..NumEntries /\ n + 1 # 0 /\ (n + 1) - 1 = n
    BY EntryFacts
  <2>2. G[n + 1] = Longer(m, G[n])
    BY <2>1, <1>1
  <2>3. G[n] = Prefix(s, Least2(n))
    BY <1>4
  <2>4. Least2(n) \in 0..Len(s)
    BY <1>2, EntryFacts
  <2>. DEFINE p == Prefix(s, Least2(n))
  <2>5. p \in Seq(Entries) /\ Len(p) = Least2(n)
    BY <2>4, <1>2, PrefixFacts
  <2>6. CASE s = <<>>
    <3>1. Least2(n) = 0 /\ Least2(n + 1) = 0
      BY <2>6
    <3>2. p = <<>>
      BY <3>1, <2>5
    <3>3. G[n + 1] = p
      BY <3>2, <2>2, <2>3 DEF Longer
    <3>. QED
      BY <3>1, <3>3, <2>1
  <2>7. CASE s # <<>> /\ n + 1 < Len(s)
    <3>1. Least2(n) = n + 1 /\ Least2(n + 1) = n + 2 /\ n + 1 \in 1..Len(s) /\ n + 2 \in 1..Len(s)
      BY <2>7, <1>2
    <3>2. p # <<>> /\ p[Len(p)] = s[n + 1]
      BY <3>1, <2>5 DEF Prefix
    <3>3. m.map_chain_next[s[n + 1]] = s[n + 2] /\ s[n + 2] \in Entries
      BY <3>1, <2>7, <1>2 DEF IsChain
    <3>4. G[n + 1] = Append(p, s[n + 2])
      BY <3>2, <3>3, <2>2, <2>3, EntryFacts DEF Longer
    <3>5. Append(p, s[n + 2]) = Prefix(s, n + 2)
      <4>1. Prefix(s, n + 2) \in Seq(Entries) /\ Len(Prefix(s, n + 2)) = n + 2
        BY <3>1, <1>2, PrefixFacts
      <4>2. \A j \in 1..n + 2 : Append(p, s[n + 2])[j] = Prefix(s, n + 2)[j]
        BY <3>1, <2>5 DEF Prefix
      <4>3. Append(p, s[n + 2]) \in Seq(Entries) /\ Len(Append(p, s[n + 2])) = n + 2
        BY <3>1, <3>3, <2>5
      <4>. HIDE DEF p
      <4>. QED
        BY <4>1, <4>2, <4>3, SeqEqual
    <3>. QED
      BY <3>1, <3>4, <3>5, <2>1
  <2>8. CASE s # <<>> /\ ~ (n + 1 < Len(s))
    <3>1. Least2(n) = Len(s) /\ Least2(n + 1) = Len(s) /\ Len(s) \in 1..Len(s)
      BY <2>8, <1>2
    <3>2. p # <<>> /\ p[Len(p)] = s[Len(s)]
      BY <3>1, <2>5 DEF Prefix
    <3>3. m.map_chain_next[s[Len(s)]] = NoEntry
      BY <3>1 DEF IsChain
    <3>4. G[n + 1] = p
      BY <3>2, <3>3, <2>2, <2>3 DEF Longer
    <3>. QED
      BY <3>1, <3>4, <2>1
  <2>. QED
    BY <2>6, <2>7, <2>8
<1>5. NumEntries \in T
  <2>. HIDE DEF T
  <2>. QED
    BY <1>3, <1>4, Induction, EntryFacts
<1>6. Chain(m, b) = Prefix(s, Len(s))
  BY <1>2, <1>5, EntryFacts, ChainFrom DEF G
<1>7. Prefix(s, Len(s)) = s
  BY <1>2 DEF Prefix
<1>. QED
  BY <1>6, <1>7
-----------------------------------------------------------------------------
(* The map with its chains ch; own[e] is the partition that entry e is in, *)
(* if it is in one.                                                        *)
Disjoint(ch) ==
  \A a, b \in AllBuckets : \A i \in 1..Len(ch[a]), j \in 1..Len(ch[b]) :
    ch[a][i] = ch[b][j] => a = b /\ i = j

InBucket(m, own, b, e) == own[e] \in Cores /\ m.id[e] \in Keys /\ b = BucketId(m.id[e], own[e])

AtHome(m, ch, own) == \A b \in AllBuckets : \A n \in 1..Len(ch[b]) : InBucket(m, own, b, ch[b][n])

OnChain(ch, e) == \E b \in AllBuckets : \E n \in 1..Len(ch[b]) : ch[b][n] = e

NoneMissing(ch, own) == \A e \in Entries : own[e] \in Cores => OnChain(ch, e)

NoLinkLeft(m, own) == \A e \in Entries : own[e] \notin Cores => m.map_chain_next[e] = NoEntry

OwnIds(m, own) ==
  \A e, f \in Entries : own[e] \in Cores /\ own[e] = own[f] /\ m.id[e] = m.id[f] => e = f

SoundWith(m, ch, own) ==
  /\ m \in MapType
  /\ ch \in [AllBuckets -> Seq(Entries)]
  /\ \A b \in AllBuckets : IsChain(m, b, ch[b])
  /\ Disjoint(ch) /\ AtHome(m, ch, own) /\ NoneMissing(ch, own)
  /\ NoLinkLeft(m, own) /\ OwnIds(m, own)

SoundMap(m, own) == \E ch : SoundWith(m, ch, own)

(* An id has one bucket in each partition, and partitions share none. *)
LEMMA BucketFacts ==
  ASSUME NEW k \in Keys, NEW c \in Cores
  PROVE  /\ BucketId(k, c) \in AllBuckets
         /\ BucketId(k, c) \in c * NumBuckets..(c + 1) * NumBuckets - 1
         /\ \A d \in Cores : BucketId(k, d) = BucketId(k, c) => d = c
<1>. DEFINE h == Hash[k] % NumBuckets
<1>1. NumBuckets \in Nat \ {0} /\ NumCores \in Nat \ {0} /\ c \in Nat /\ c + 1 <= NumCores
  BY MapAssumption, SizeAssumption DEF Cores
<1>2. Hash[k] \in Nat
  BY MapAssumption
<1>3. h \in 0..NumBuckets - 1
  BY <1>1, <1>2
<1>. HIDE DEF h
<1>4. c * NumBuckets \in Nat /\ (c + 1) * NumBuckets = c * NumBuckets + NumBuckets
  BY <1>1
<1>5. (c + 1) * NumBuckets <= NumCores * NumBuckets /\ NumCores * NumBuckets = NumBuckets * NumCores
      /\ NumBuckets * NumCores \in Nat
  BY <1>1
<1>6. BucketId(k, c) = h + c * NumBuckets
  BY DEF BucketId, h
<1>7. ASSUME NEW d \in Cores, BucketId(k, d) = BucketId(k, c) PROVE d = c
  <2>1. h + d * NumBuckets = h + c * NumBuckets /\ d \in Nat
    BY <1>1, <1>6, <1>7 DEF BucketId, h, Cores
  <2>2. d * NumBuckets = c * NumBuckets /\ d * NumBuckets \in Nat
    BY <2>1, <1>1, <1>3, <1>4
  <2>3. CASE d < c
    <3>1. (d + 1) * NumBuckets <= c * NumBuckets
      BY <2>1, <2>3, <1>1
    <3>2. (d + 1) * NumBuckets = d * NumBuckets + NumBuckets
      BY <2>1, <1>1
    <3>. QED
      BY <2>2, <3>1, <3>2, <1>1
  <2>4. CASE c < d
    <3>1. (c + 1) * NumBuckets <= d * NumBuckets
      BY <2>1, <2>4, <1>1
    <3>. QED
      BY <2>2, <3>1, <1>1, <1>4
  <2>. QED
    BY <2>1, <2>3, <2>4, <1>1
<1>8. BucketId(k, c) \in AllBuckets /\ BucketId(k, c) \in c * NumBuckets..(c + 1) * NumBuckets - 1
  BY <1>3, <1>4, <1>5, <1>6, <1>1 DEF AllBuckets
<1>. QED
  BY <1>7, <1>8

(* Where the entry of an id is in its chain. *)
LEMMA FindEntry ==
  ASSUME NEW m, NEW ch, NEW own, SoundWith(m, ch, own), NEW e \in Entries, own[e] \in Cores
  PROVE  LET b == BucketId(m.id[e], own[e]) IN
         /\ m.id[e] \in Keys /\ b \in AllBuckets /\ Chain(m, b) = ch[b]
         /\ \E n \in 1..Len(ch[b]) :
              ch[b][n] = e /\ FindIn(m, ch[b], m.id[e]) = n /\ Find(m, m.id[e], own[e]) = n
<1>0. PICK b \in AllBuckets : \E n \in 1..Len(ch[b]) : ch[b][n] = e
  BY DEF SoundWith, NoneMissing, OnChain
<1>1. PICK n \in 1..Len(ch[b]) : ch[b][n] = e
  BY <1>0
<1>2. m.id[e] \in Keys /\ b = BucketId(m.id[e], own[e])
  BY <1>1 DEF SoundWith, AtHome, InBucket
<1>3. Chain(m, b) = ch[b] /\ ch[b] \in Seq(Entries)
  BY ChainIs DEF SoundWith
<1>. DEFINE k == m.id[e]
            hits == {j \in DOMAIN ch[b] : m.id[ch[b][j]] = k}
<1>4. DOMAIN ch[b] = 1..Len(ch[b])
  BY <1>3
<1>5. n \in hits
  BY <1>1, <1>4
<1>6. ASSUME NEW j \in hits PROVE j = n
  <2>. DEFINE f == ch[b][j]
  <2>1. j \in 1..Len(ch[b]) /\ f \in Entries /\ m.id[f] = k
    BY <1>3, <1>4
  <2>2. own[f] \in Cores /\ b = BucketId(k, own[f])
    BY <2>1 DEF SoundWith, AtHome, InBucket
  <2>3. own[f] = own[e]
    BY <2>2, <1>2, BucketFacts
  <2>4. f = e
    BY <2>1, <2>3 DEF SoundWith, OwnIds
  <2>. QED
    BY <2>1, <2>4, <1>1 DEF SoundWith, Disjoint
<1>7. hits = {n}
  BY <1>5, <1>6
<1>8. FindIn(m, ch[b], k) = n
  <2>. HIDE DEF hits
  <2>1. (CHOOSE i \in hits : \A j \in hits : i <= j) = n
    BY <1>7
  <2>. QED
    BY <2>1, <1>7 DEF FindIn, hits
<1>. QED
  BY <1>1, <1>2, <1>3, <1>8 DEF Find

(* What concurrent_map_get returns. *)
LEMMA MapGetIs ==
  ASSUME NEW m, NEW k, NEW c
  PROVE  MapGet(m, k, c) =
           LET chain == Chain(m, BucketId(k, c)) IN
           IF FindIn(m, chain, k) = 0 THEN NoEntry ELSE chain[FindIn(m, chain, k)]
<1>. DEFINE G(chain) == IF FindIn(m, chain, k) = 0 THEN NoEntry ELSE chain[FindIn(m, chain, k)]
            t == Chain(m, BucketId(k, c))
            S == {G(v) : v \in {t}}
<1>1. (CHOOSE y \in S : TRUE) = G(t)
  <2>1. \A x : x \in S <=> x = G(t)
    OBVIOUS
  <2>. HIDE DEF S, G, t
  <2>. QED
    BY <2>1, OnlyChoice
<1>. QED
  BY <1>1 DEF MapGet, With

(* The search of concurrent_map_get finds the entry of an id ... *)
LEMMA GetFinds ==
  ASSUME NEW m, NEW own, SoundMap(m, own), NEW e \in Entries, own[e] \in Cores
  PROVE  m.id[e] \in Keys /\ MapGet(m, m.id[e], own[e]) = e
<1>1. PICK ch : SoundWith(m, ch, own)
  BY DEF SoundMap
<1>. DEFINE b == BucketId(m.id[e], own[e])
<1>2. m.id[e] \in Keys /\ Chain(m, b) = ch[b]
  BY <1>1, FindEntry
<1>3. PICK n \in 1..Len(ch[b]) : ch[b][n] = e /\ FindIn(m, ch[b], m.id[e]) = n
  BY <1>1, FindEntry
<1>4. n # 0
  <2>1. b \in AllBuckets
    BY <1>1, FindEntry
  <2>2. ch[b] \in Seq(Entries)
    BY <1>1, <2>1 DEF SoundWith
  <2>. QED
    BY <2>2
<1>. QED
  BY <1>2, <1>3, <1>4, MapGetIs

(* ... and nothing else. *)
LEMMA GetMisses ==
  ASSUME NEW m, NEW own, SoundMap(m, own), NEW k \in Keys, NEW c \in Cores,
         \A e \in Entries : own[e] = c => m.id[e] # k
  PROVE  MapGet(m, k, c) = NoEntry
<1>1. PICK ch : SoundWith(m, ch, own)
  BY DEF SoundMap
<1>. DEFINE b == BucketId(k, c)
            hits == {j \in DOMAIN ch[b] : m.id[ch[b][j]] = k}
<1>2. b \in AllBuckets
  BY BucketFacts
<1>3. Chain(m, b) = ch[b] /\ ch[b] \in Seq(Entries)
  BY <1>1, <1>2, ChainIs DEF SoundWith
<1>4. hits = {}
  <2>. SUFFICES ASSUME NEW j \in hits PROVE FALSE
    OBVIOUS
  <2>. DEFINE f == ch[b][j]
  <2>1. j \in 1..Len(ch[b]) /\ f \in Entries /\ m.id[f] = k
    BY <1>3
  <2>2. own[f] \in Cores /\ b = BucketId(k, own[f])
    BY <2>1, <1>1, <1>2 DEF SoundWith, AtHome, InBucket
  <2>3. own[f] = c
    BY <2>2, BucketFacts
  <2>. QED
    BY <2>1, <2>3
<1>5. FindIn(m, ch[b], k) = 0
  BY <1>4 DEF FindIn
<1>. QED
  BY <1>3, <1>5, MapGetIs
-----------------------------------------------------------------------------
(* A sequence of different entries is no longer than there are entries. *)
LEMMA Short ==
  ASSUME NEW s \in Seq(Entries), \A i, j \in 1..Len(s) : s[i] = s[j] => i = j
  PROVE  Len(s) <= NumEntries
<1>. SUFFICES ASSUME ~ (Len(s) <= NumEntries) PROVE FALSE
  OBVIOUS
<1>1. Len(s) \in Nat /\ s \in [1..Len(s) -> Entries]
  OBVIOUS
<1>2. IsFiniteSet(1..Len(s)) /\ Cardinality(1..Len(s)) = Len(s)
  BY <1>1, FS_Interval
<1>3. Cardinality(Entries) < Cardinality(1..Len(s))
  BY <1>1, <1>2, EntryFacts
<1>4. \E i, j \in 1..Len(s) : i # j /\ s[i] = s[j]
  BY <1>1, <1>2, <1>3, EntryFacts, FS_PigeonHole
<1>. QED
  BY <1>4

(* Chains stay disjoint when one of them gets an entry that was on none, *)
(* or loses one.                                                         *)
LEMMA PutDisjoint ==
  ASSUME NEW ch \in [AllBuckets -> Seq(Entries)], Disjoint(ch),
         NEW b \in AllBuckets, NEW e \in Entries, ~OnChain(ch, e)
  PROVE  LET ch2 == [ch EXCEPT ![b] = Append(ch[b], e)] IN
         /\ ch2 \in [AllBuckets -> Seq(Entries)] /\ Disjoint(ch2)
         /\ Len(ch2[b]) <= NumEntries
<1>. DEFINE ch2 == [ch EXCEPT ![b] = Append(ch[b], e)]
<1>1. \A a \in AllBuckets : ch[a] \in Seq(Entries) /\ Len(ch[a]) \in Nat
  OBVIOUS
<1>2. ch2 \in [AllBuckets -> Seq(Entries)] /\ Len(ch2[b]) = Len(ch[b]) + 1
  BY <1>1
<1>3. ASSUME NEW a \in AllBuckets, NEW i \in 1..Len(ch2[a])
      PROVE  IF a = b /\ i = Len(ch[b]) + 1 THEN ch2[a][i] = e
             ELSE i \in 1..Len(ch[a]) /\ ch2[a][i] = ch[a][i] /\ ch[a][i] # e
  <2>1. CASE a # b
    BY <2>1 DEF OnChain
  <2>2. CASE a = b /\ i = Len(ch[b]) + 1
    BY <2>2, <1>1
  <2>3. CASE a = b /\ i # Len(ch[b]) + 1
    <3>1. i \in 1..Len(ch[a])
      BY <2>3, <1>1, <1>2
    <3>. QED
      BY <3>1, <2>3, <1>1 DEF OnChain
  <2>. QED
    BY <2>1, <2>2, <2>3
<1>. HIDE DEF ch2
<1>4. Disjoint(ch2)
  <2>. SUFFICES ASSUME NEW a \in AllBuckets, NEW d \in AllBuckets,
                       NEW i \in 1..Len(ch2[a]), NEW j \in 1..Len(ch2[d]), ch2[a][i] = ch2[d][j]
                PROVE  a = d /\ i = j
    BY DEF Disjoint
  <2>1. /\ IF a = b /\ i = Len(ch[b]) + 1 THEN ch2[a][i] = e
           ELSE i \in 1..Len(ch[a]) /\ ch2[a][i] = ch[a][i] /\ ch[a][i] # e
        /\ IF d = b /\ j = Len(ch[b]) + 1 THEN ch2[d][j] = e
           ELSE j \in 1..Len(ch[d]) /\ ch2[d][j] = ch[d][j] /\ ch[d][j] # e
    BY <1>3
  <2>2. CASE a = b /\ i = Len(ch[b]) + 1
    BY <2>1, <2>2
  <2>3. CASE ~(a = b /\ i = Len(ch[b]) + 1)
    <3>1. i \in 1..Len(ch[a]) /\ j \in 1..Len(ch[d]) /\ ch[a][i] = ch[d][j]
      BY <2>1, <2>3
    <3>. QED
      BY <3>1 DEF Disjoint
  <2>. QED
    BY <2>2, <2>3
<1>5. Len(ch2[b]) <= NumEntries
  BY <1>2, <1>4, Short DEF Disjoint
<1>. QED
  BY <1>2, <1>4, <1>5 DEF ch2

Without(s, n) == [j \in 1..Len(s) - 1 |-> IF j < n THEN s[j] ELSE s[j + 1]]

(* A sequence without one of its elements. *)
LEMMA WithoutFacts ==
  ASSUME NEW s \in Seq(Entries), NEW n \in 1..Len(s)
  PROVE  /\ Without(s, n) \in Seq(Entries) /\ Len(Without(s, n)) = Len(s) - 1
         /\ \A j \in 1..Len(s) - 1 : Without(s, n)[j] = IF j < n THEN s[j] ELSE s[j + 1]
<1>1. Len(s) \in Nat /\ Len(s) - 1 \in Nat /\ n \in Nat
  OBVIOUS
<1>2. \A j \in 1..Len(s) - 1 : j \in 1..Len(s) /\ j + 1 \in 1..Len(s)
  BY <1>1
<1>3. Without(s, n) \in [1..Len(s) - 1 -> Entries]
  BY <1>1, <1>2 DEF Without
<1>. QED
  BY <1>1, <1>3 DEF Without

(* Taking an entry off its chain. *)
LEMMA EraseDisjoint ==
  ASSUME NEW ch \in [AllBuckets -> Seq(Entries)], Disjoint(ch),
         NEW b \in AllBuckets, NEW n \in 1..Len(ch[b])
  PROVE  LET ch2 == [ch EXCEPT ![b] = Without(ch[b], n)] IN
         /\ ch2 \in [AllBuckets -> Seq(Entries)] /\ Disjoint(ch2)
         /\ \A f : OnChain(ch2, f) <=> OnChain(ch, f) /\ f # ch[b][n]
<1>. DEFINE ch2 == [ch EXCEPT ![b] = Without(ch[b], n)]
            was(a, i) == IF a = b /\ i >= n THEN i + 1 ELSE i
<1>1. \A a \in AllBuckets : ch[a] \in Seq(Entries) /\ Len(ch[a]) \in Nat
  OBVIOUS
<1>2. ch2 \in [AllBuckets -> Seq(Entries)] /\ Len(ch2[b]) = Len(ch[b]) - 1
  BY <1>1, WithoutFacts
<1>3. ASSUME NEW a \in AllBuckets, NEW i \in 1..Len(ch2[a])
      PROVE  was(a, i) \in 1..Len(ch[a]) /\ ch2[a][i] = ch[a][was(a, i)] /\ ~(a = b /\ was(a, i) = n)
  <2>1. CASE a # b
    BY <2>1
  <2>2. CASE a = b
    <3>1. i \in 1..Len(ch[b]) - 1 /\ ch2[b] = Without(ch[b], n)
      BY <2>2, <1>2
    <3>2. ch2[b][i] = IF i < n THEN ch[b][i] ELSE ch[b][i + 1]
      BY <3>1, <1>1, WithoutFacts
    <3>3. i \in Nat /\ n \in Nat
      BY <3>1, <1>1
    <3>. QED
      BY <3>1, <3>2, <3>3, <2>2, <1>1
  <2>. QED
    BY <2>1, <2>2
<1>4. ASSUME NEW a \in AllBuckets, NEW i \in 1..Len(ch[a]), ~(a = b /\ i = n)
      PROVE  \E j \in 1..Len(ch2[a]) : ch2[a][j] = ch[a][i]
  <2>. DEFINE j == IF a = b /\ i > n THEN i - 1 ELSE i
  <2>1. j \in 1..Len(ch2[a]) /\ was(a, j) = i
    <3>1. CASE a # b
      BY <3>1
    <3>2. CASE a = b
      BY <3>2, <1>1, <1>2, <1>4
    <3>. QED
      BY <3>1, <3>2
  <2>2. ch2[a][j] = ch[a][i]
    BY <2>1, <1>3
  <2>. QED
    BY <2>1, <2>2
<1>5. Disjoint(ch2)
  <2>. SUFFICES ASSUME NEW a \in AllBuckets, NEW d \in AllBuckets,
                       NEW i \in 1..Len(ch2[a]), NEW j \in 1..Len(ch2[d]), ch2[a][i] = ch2[d][j]
                PROVE  a = d /\ i = j
    BY DEF Disjoint
  <2>1. a = d /\ was(a, i) = was(d, j)
    <3>1. /\ was(a, i) \in 1..Len(ch[a]) /\ ch2[a][i] = ch[a][was(a, i)]
          /\ was(d, j) \in 1..Len(ch[d]) /\ ch2[d][j] = ch[d][was(d, j)]
      BY <1>3
    <3>2. PICK u, v : u = was(a, i) /\ v = was(d, j)
      OBVIOUS
    <3>3. u \in 1..Len(ch[a]) /\ v \in 1..Len(ch[d]) /\ ch[a][u] = ch[d][v]
      BY <3>1, <3>2
    <3>4. a = d /\ u = v
      BY <3>3 DEF Disjoint
    <3>. QED
      BY <3>2, <3>4
  <2>2. i \in Int /\ j \in Int /\ n \in Int
    BY <1>1, <1>2
  <2>. QED
    BY <2>1, <2>2
<1>6. ASSUME NEW f, OnChain(ch2, f) PROVE OnChain(ch, f) /\ f # ch[b][n]
  <2>1. PICK a \in AllBuckets : \E i \in 1..Len(ch2[a]) : ch2[a][i] = f
    BY <1>6 DEF OnChain
  <2>2. PICK i \in 1..Len(ch2[a]) : ch2[a][i] = f
    BY <2>1
  <2>3. was(a, i) \in 1..Len(ch[a]) /\ f = ch[a][was(a, i)] /\ ~(a = b /\ was(a, i) = n)
    BY <2>2, <1>3
  <2>. HIDE DEF was
  <2>. QED
    BY <2>3 DEF OnChain, Disjoint
<1>7. ASSUME NEW f, OnChain(ch, f), f # ch[b][n] PROVE OnChain(ch2, f)
  <2>1. PICK a \in AllBuckets : \E i \in 1..Len(ch[a]) : ch[a][i] = f
    BY <1>7 DEF OnChain
  <2>2. PICK i \in 1..Len(ch[a]) : ch[a][i] = f
    BY <2>1
  <2>3. ~(a = b /\ i = n)
    BY <2>2, <1>7
  <2>. HIDE DEF ch2
  <2>. QED
    BY <2>2, <2>3, <1>4 DEF OnChain
<1>. QED
  BY <1>2, <1>5, <1>6, <1>7

(* Core c has no entry for k. *)
NotIn(m, own, c, k) == \A f \in Entries : own[f] = c => m.id[f] # k

EntryPut(m, own, m2, k, c, e) ==
  /\ SoundMap(m2, [own EXCEPT ![e] = c])
  /\ \A f \in Entries : m2.id[f] = IF f = e THEN k ELSE m.id[f]

(* concurrent_map_put of a new id at an unused entry keeps a map sound.    *)
LEMMA PutSound ==
  ASSUME NEW m, NEW own \in [Entries -> Int], SoundMap(m, own), NEW k \in Keys, NEW c \in Cores,
         NEW e \in Entries, own[e] \notin Cores, NotIn(m, own, c, k)
  PROVE  EntryPut(m, own, MapPut(m, k, c, e), k, c, e)
<1>1. PICK ch : SoundWith(m, ch, own)
  BY DEF SoundMap
<1>. DEFINE b == BucketId(k, c)
            last == ch[b][Len(ch[b])]
            m2 == MapPut(m, k, c, e)
            own2 == [own EXCEPT ![e] = c]
            ch2 == [ch EXCEPT ![b] = Append(ch[b], e)]
<1>2. b \in AllBuckets
  BY BucketFacts
<1>3. Chain(m, b) = ch[b] /\ ch[b] \in Seq(Entries) /\ ch \in [AllBuckets -> Seq(Entries)]
      /\ Len(ch[b]) \in Nat
  BY <1>1, <1>2, ChainIs DEF SoundWith
<1>4. m \in MapType /\ m.map_chain_next[e] = NoEntry
  BY <1>1 DEF SoundWith, NoLinkLeft
<1>5. ~OnChain(ch, e)
  BY <1>1 DEF OnChain, SoundWith, AtHome, InBucket
<1>6. ch2 \in [AllBuckets -> Seq(Entries)] /\ Disjoint(ch2) /\ Len(ch2[b]) <= NumEntries
  BY <1>1, <1>2, <1>3, <1>5, PutDisjoint DEF SoundWith
<1>7. m2 = IF ch[b] = <<>> THEN [m EXCEPT !.buckets[b] = e, !.id[e] = k]
           ELSE [m EXCEPT !.map_chain_next[last] = e, !.id[e] = k]
  BY <1>3 DEF MapPut
<1>8. ch[b] # <<>> => Len(ch[b]) \in 1..Len(ch[b]) /\ last \in Entries
  BY <1>3
<1>9. /\ m2 \in MapType
      /\ m2.id = [m.id EXCEPT ![e] = k]
      /\ m2.buckets = IF ch[b] = <<>> THEN [m.buckets EXCEPT ![b] = e] ELSE m.buckets
      /\ m2.map_chain_next = IF ch[b] = <<>> THEN m.map_chain_next ELSE [m.map_chain_next EXCEPT ![last] = e]
  <2>. DEFINE B == IF ch[b] = <<>> THEN [m.buckets EXCEPT ![b] = e] ELSE m.buckets
              N == IF ch[b] = <<>> THEN m.map_chain_next ELSE [m.map_chain_next EXCEPT ![last] = e]
              I == [m.id EXCEPT ![e] = k]
  <2>1. m = [buckets |-> m.buckets, map_chain_next |-> m.map_chain_next, id |-> m.id]
    BY <1>4 DEF MapType
  <2>2. m2 = [buckets |-> B, map_chain_next |-> N, id |-> I]
    <3>. HIDE DEF last, m2
    <3>. QED
      BY <2>1, <1>7
  <2>3. /\ B \in [AllBuckets -> Entries \cup {NoEntry}]
        /\ N \in [Entries -> Entries \cup {NoEntry}]
        /\ I \in [Entries -> Keys \cup {NoKey}]
    <3>. HIDE DEF last
    <3>. QED
      BY <1>2, <1>4, <1>8 DEF MapType
  <2>. HIDE DEF B, N, I, m2
  <2>4. m2 \in MapType /\ m2.id = I /\ m2.buckets = B /\ m2.map_chain_next = N
    BY <2>2, <2>3 DEF MapType
  <2>. QED
    BY <2>4 DEF B, N, I
<1>. HIDE DEF m2
<1>10. /\ m.id \in [Entries -> Keys \cup {NoKey}]
       /\ m.map_chain_next \in [Entries -> Entries \cup {NoEntry}]
       /\ m.buckets \in [AllBuckets -> Entries \cup {NoEntry}]
  BY <1>4 DEF MapType
<1>11. ASSUME NEW a \in AllBuckets PROVE IsChain(m2, a, ch2[a])
  <2>1. ch[a] \in Seq(Entries) /\ Len(ch[a]) <= NumEntries /\ IsChain(m, a, ch[a])
    BY <1>1 DEF SoundWith, IsChain
  <2>2. CASE a # b
    <3>1. ch2[a] = ch[a] /\ m2.buckets[a] = m.buckets[a]
      BY <2>2, <1>2, <1>3, <1>9, <1>10
    <3>2. ASSUME NEW n \in 1..Len(ch[a]) PROVE m2.map_chain_next[ch[a][n]] = m.map_chain_next[ch[a][n]]
      <4>1. ch[b] # <<>> => ch[a][n] # last
        BY <2>2, <1>1, <1>2, <1>8 DEF SoundWith, Disjoint
      <4>2. ch[a][n] \in Entries
        BY <2>1
      <4>. HIDE DEF last
      <4>. QED
        BY <4>1, <4>2, <1>9, <1>10
    <3>. QED
      BY <3>1, <3>2, <2>1 DEF IsChain
  <2>3. CASE a = b /\ ch[b] = <<>>
    <3>1. ch2[b] = <<e>>
      BY <2>3, <1>2, <1>3
    <3>2. m2.buckets[b] = e /\ m2.map_chain_next[e] = NoEntry
      BY <2>3, <1>2, <1>4, <1>9, <1>10
    <3>3. <<e>> \in Seq(Entries) /\ Len(<<e>>) = 1 /\ <<e>>[1] = e /\ <<e>> # <<>>
      OBVIOUS
    <3>4. \A n \in 1..1 : n = 1
      OBVIOUS
    <3>5. ASSUME NEW s, s = <<e>> PROVE IsChain(m2, b, s)
      <4>1. s \in Seq(Entries) /\ Len(s) = 1 /\ s[1] = e /\ s # <<>>
        BY <3>3, <3>5
      <4>. QED
        BY <4>1, <3>2, <3>4, EntryFacts DEF IsChain
    <3>. QED
      BY <3>1, <3>5, <2>3
  <2>4. CASE a = b /\ ch[b] # <<>>
    <3>1. ch2[b] = Append(ch[b], e) /\ Len(ch2[b]) = Len(ch[b]) + 1 /\ ch2[b] # <<>>
      <4>1. ch2[b] = Append(ch[b], e) /\ Len(ch2[b]) = Len(ch[b]) + 1 /\ Len(<<>>) = 0
        BY <1>2, <1>3
      <4>. HIDE DEF ch2
      <4>2. ASSUME ch2[b] = <<>> PROVE FALSE
        BY <4>1, <4>2, <1>3
      <4>. QED
        BY <4>1, <4>2
    <3>2. m2.buckets[b] = ch2[b][1]
      BY <2>4, <3>1, <2>1, <1>3, <1>8, <1>9 DEF IsChain
    <3>3. ASSUME NEW n \in 1..Len(ch[b]) + 1
          PROVE  m2.map_chain_next[ch2[b][n]] = IF n = Len(ch[b]) + 1 THEN NoEntry ELSE ch2[b][n + 1]
      <4>1. CASE n = Len(ch[b]) + 1
        <5>1. ch2[b][n] = e
          BY <4>1, <3>1, <1>3
        <5>2. e # last
          BY <1>2, <1>5, <1>8, <2>4 DEF OnChain
        <5>. HIDE DEF last
        <5>. QED
          BY <4>1, <5>1, <5>2, <1>4, <1>9, <1>10, <2>4
      <4>2. CASE n = Len(ch[b])
        <5>1. ch2[b][n] = last /\ ch2[b][n + 1] = e /\ n # Len(ch[b]) + 1
          BY <4>2, <3>1, <1>3, <1>8, <2>4
        <5>. HIDE DEF last
        <5>. QED
          BY <5>1, <1>8, <1>9, <1>10, <2>4
      <4>3. CASE n < Len(ch[b])
        <5>1. n \in 1..Len(ch[b]) /\ n + 1 \in 1..Len(ch[b]) /\ n # Len(ch[b]) /\ n # Len(ch[b]) + 1
          BY <4>3, <1>3
        <5>2. ch2[b][n] = ch[b][n] /\ ch2[b][n + 1] = ch[b][n + 1] /\ ch[b][n] \in Entries
          BY <5>1, <3>1, <1>3
        <5>3. ch[b][n] # last
          BY <5>1, <1>1, <1>2, <1>8, <2>4 DEF SoundWith, Disjoint
        <5>4. m.map_chain_next[ch[b][n]] = ch[b][n + 1]
          BY <5>1, <2>1, <2>4 DEF IsChain
        <5>. HIDE DEF last
        <5>. QED
          BY <5>1, <5>2, <5>3, <5>4, <1>9, <1>10, <2>4
      <4>4. n = Len(ch[b]) + 1 \/ n = Len(ch[b]) \/ n < Len(ch[b])
        BY <1>3
      <4>. QED
        BY <4>1, <4>2, <4>3, <4>4
    <3>. QED
      BY <3>1, <3>2, <3>3, <2>4, <1>6 DEF IsChain
  <2>. QED
    BY <2>2, <2>3, <2>4
<1>12. ASSUME NEW f \in Entries
       PROVE  IF f = e THEN own2[f] = c /\ m2.id[f] = k ELSE own2[f] = own[f] /\ m2.id[f] = m.id[f]
  BY <1>9, <1>10
<1>13. AtHome(m2, ch2, own2)
  <2>. SUFFICES ASSUME NEW a \in AllBuckets, NEW n \in 1..Len(ch2[a]) PROVE InBucket(m2, own2, a, ch2[a][n])
    BY DEF AtHome
  <2>1. CASE a = b /\ n = Len(ch[b]) + 1
    <3>1. ch2[a][n] = e
      BY <2>1, <1>2, <1>3
    <3>. QED
      BY <3>1, <2>1, <1>12 DEF InBucket
  <2>2. CASE ~(a = b /\ n = Len(ch[b]) + 1)
    <3>1. n \in 1..Len(ch[a]) /\ ch2[a][n] = ch[a][n] /\ ch[a] \in Seq(Entries)
      <4>1. CASE a # b
        BY <4>1, <1>3
      <4>2. CASE a = b
        BY <4>2, <2>2, <1>2, <1>3
      <4>. QED
        BY <4>1, <4>2
    <3>2. ch[a][n] \in Entries /\ InBucket(m, own, a, ch[a][n])
      BY <3>1, <1>1 DEF SoundWith, AtHome
    <3>3. ch[a][n] # e
      BY <3>1, <1>5 DEF OnChain
    <3>. QED
      BY <3>1, <3>2, <3>3, <1>12 DEF InBucket
  <2>. QED
    BY <2>1, <2>2
<1>14. NoneMissing(ch2, own2)
  <2>. SUFFICES ASSUME NEW f \in Entries, own2[f] \in Cores PROVE OnChain(ch2, f)
    BY DEF NoneMissing
  <2>1. CASE f = e
    <3>1. Len(ch[b]) + 1 \in 1..Len(ch2[b]) /\ ch2[b][Len(ch[b]) + 1] = e
      BY <1>2, <1>3
    <3>. HIDE DEF ch2
    <3>. QED
      BY <3>1, <2>1, <1>2 DEF OnChain
  <2>2. CASE f # e
    <3>1. OnChain(ch, f)
      BY <2>2, <1>1, <1>12 DEF SoundWith, NoneMissing
    <3>2. PICK a \in AllBuckets : \E n \in 1..Len(ch[a]) : ch[a][n] = f
      BY <3>1 DEF OnChain
    <3>3. PICK n \in 1..Len(ch[a]) : ch[a][n] = f
      BY <3>2
    <3>4. n \in 1..Len(ch2[a]) /\ ch2[a][n] = f
      <4>1. ch[a] \in Seq(Entries)
        BY <1>3
      <4>2. CASE a # b
        BY <4>2, <3>3, <1>3
      <4>3. CASE a = b
        BY <4>1, <4>3, <3>3, <1>3
      <4>. QED
        BY <4>2, <4>3
    <3>. HIDE DEF ch2
    <3>. QED
      BY <3>4 DEF OnChain
  <2>. QED
    BY <2>1, <2>2
<1>15. NoLinkLeft(m2, own2)
  <2>. SUFFICES ASSUME NEW f \in Entries, own2[f] \notin Cores PROVE m2.map_chain_next[f] = NoEntry
    BY DEF NoLinkLeft
  <2>1. f # e /\ own[f] \notin Cores
    BY <1>12
  <2>2. m.map_chain_next[f] = NoEntry
    BY <2>1, <1>1 DEF SoundWith, NoLinkLeft
  <2>3. ch[b] # <<>> => f # last
    BY <2>1, <1>1, <1>2, <1>8 DEF SoundWith, AtHome, InBucket
  <2>. HIDE DEF last
  <2>. QED
    BY <2>2, <2>3, <1>9, <1>10
<1>16. OwnIds(m2, own2)
  BY <1>1, <1>12 DEF SoundWith, OwnIds, NotIn
<1>. HIDE DEF ch2, own2
<1>17. SoundWith(m2, ch2, own2)
  BY <1>6, <1>9, <1>11, <1>13, <1>14, <1>15, <1>16 DEF SoundWith
<1>18. \A f \in Entries : m2.id[f] = IF f = e THEN k ELSE m.id[f]
  BY <1>4, <1>9 DEF MapType
<1>. QED
  BY <1>17, <1>18 DEF SoundMap, EntryPut, m2, own2

(* concurrent_map_erase of an id that is in the map keeps it sound. *)
LEMMA EraseSound ==
  ASSUME NEW m, NEW own \in [Entries -> Int], SoundMap(m, own), NEW e \in Entries, own[e] \in Cores
  PROVE  /\ SoundMap(MapErase(m, m.id[e], own[e]), [own EXCEPT ![e] = -1])
         /\ MapErase(m, m.id[e], own[e]).id = m.id
<1>1. PICK ch : SoundWith(m, ch, own)
  BY DEF SoundMap
<1>0. PICK b : b = BucketId(m.id[e], own[e])
  OBVIOUS
<1>. DEFINE m2 == MapErase(m, m.id[e], own[e])
            own2 == [own EXCEPT ![e] = -1]
<1>2. b \in AllBuckets /\ Chain(m, b) = ch[b]
  BY <1>0, <1>1, FindEntry
<1>3. PICK n \in 1..Len(ch[b]) : ch[b][n] = e /\ Find(m, m.id[e], own[e]) = n
  BY <1>0, <1>1, FindEntry
<1>4. /\ m \in MapType /\ ch \in [AllBuckets -> Seq(Entries)]
      /\ ch[b] \in Seq(Entries) /\ Len(ch[b]) \in Nat /\ n \in Nat /\ IsChain(m, b, ch[b])
  BY <1>1, <1>2 DEF SoundWith
<1>. DEFINE before == ch[b][n - 1]
            after == m.map_chain_next[e]
            ch2 == [ch EXCEPT ![b] = Without(ch[b], n)]
<1>5. /\ m.id \in [Entries -> Keys \cup {NoKey}]
      /\ m.map_chain_next \in [Entries -> Entries \cup {NoEntry}]
      /\ m.buckets \in [AllBuckets -> Entries \cup {NoEntry}]
      /\ m = [buckets |-> m.buckets, map_chain_next |-> m.map_chain_next, id |-> m.id]
  BY <1>4 DEF MapType
<1>6. n # 1 => n - 1 \in 1..Len(ch[b]) /\ before \in Entries /\ before # e
  <2>. SUFFICES ASSUME n # 1 PROVE n - 1 \in 1..Len(ch[b]) /\ before \in Entries /\ before # e
    OBVIOUS
  <2>1. n - 1 \in 1..Len(ch[b]) /\ n - 1 # n
    BY <1>4
  <2>. QED
    BY <2>1, <1>1, <1>2, <1>3, <1>4 DEF SoundWith, Disjoint
<1>7. after = (IF n = Len(ch[b]) THEN NoEntry ELSE ch[b][n + 1]) /\ after \in Entries \cup {NoEntry}
  BY <1>3, <1>4, <1>5 DEF IsChain
<1>8. m2 = IF n = 1 THEN [m EXCEPT !.buckets[b] = after, !.map_chain_next[e] = NoEntry]
           ELSE [m EXCEPT !.map_chain_next[before] = after, !.map_chain_next[e] = NoEntry]
  BY <1>0, <1>2, <1>3 DEF MapErase
<1>9. /\ m2 \in MapType /\ m2.id = m.id
      /\ m2.buckets = IF n = 1 THEN [m.buckets EXCEPT ![b] = after] ELSE m.buckets
      /\ m2.map_chain_next = IF n = 1 THEN [m.map_chain_next EXCEPT ![e] = NoEntry]
                             ELSE [m.map_chain_next EXCEPT ![before] = after, ![e] = NoEntry]
  <2>. DEFINE B == IF n = 1 THEN [m.buckets EXCEPT ![b] = after] ELSE m.buckets
              N == IF n = 1 THEN [m.map_chain_next EXCEPT ![e] = NoEntry]
                   ELSE [m.map_chain_next EXCEPT ![before] = after, ![e] = NoEntry]
  <2>2. m2 = [buckets |-> B, map_chain_next |-> N, id |-> m.id]
    <3>. HIDE DEF before, after, m2
    <3>. QED
      BY <1>5, <1>8
  <2>3. /\ B \in [AllBuckets -> Entries \cup {NoEntry}]
        /\ N \in [Entries -> Entries \cup {NoEntry}]
    <3>. HIDE DEF before, after
    <3>. QED
      BY <1>2, <1>5, <1>6, <1>7
  <2>. HIDE DEF B, N, m2
  <2>4. m2 \in MapType /\ m2.id = m.id /\ m2.buckets = B /\ m2.map_chain_next = N
    BY <2>2, <2>3, <1>5 DEF MapType
  <2>. QED
    BY <2>4 DEF B, N
<1>. HIDE DEF m2
<1>10. ASSUME NEW f \in Entries
       PROVE  m2.map_chain_next[f] = IF f = e THEN NoEntry ELSE IF n # 1 /\ f = before THEN after ELSE m.map_chain_next[f]
  <2>. HIDE DEF before, after
  <2>. QED
    BY <1>5, <1>6, <1>9
<1>11. /\ ch2 \in [AllBuckets -> Seq(Entries)] /\ Disjoint(ch2)
       /\ \A f : OnChain(ch2, f) <=> OnChain(ch, f) /\ f # e
  BY <1>1, <1>2, <1>3, <1>4, EraseDisjoint DEF SoundWith
<1>12. /\ \A a \in AllBuckets : a # b => ch2[a] = ch[a]
       /\ ch2[b] \in Seq(Entries) /\ Len(ch2[b]) = Len(ch[b]) - 1
       /\ \A j \in 1..Len(ch[b]) - 1 : ch2[b][j] = IF j < n THEN ch[b][j] ELSE ch[b][j + 1]
  <2>1. ch2[b] = Without(ch[b], n) /\ \A a \in AllBuckets : a # b => ch2[a] = ch[a]
    BY <1>2, <1>4
  <2>. HIDE DEF ch2
  <2>2. ch[b] \in Seq(Entries) /\ n \in 1..Len(ch[b])
    BY <1>3, <1>4
  <2>3. /\ Without(ch[b], n) \in Seq(Entries) /\ Len(Without(ch[b], n)) = Len(ch[b]) - 1
        /\ \A j \in 1..Len(ch[b]) - 1 : Without(ch[b], n)[j] = IF j < n THEN ch[b][j] ELSE ch[b][j + 1]
    BY <2>2, WithoutFacts
  <2>. QED
    BY <2>1, <2>3
<1>. HIDE DEF ch2
<1>13. IsChain(m2, b, ch2[b])
  <2>1. Len(ch2[b]) <= NumEntries
    BY <1>4, <1>12, EntryFacts DEF IsChain
  <2>2. m2.buckets[b] = IF ch2[b] = <<>> THEN NoEntry ELSE ch2[b][1]
    <3>1. CASE n = 1 /\ Len(ch[b]) = 1
      <4>1. ch2[b] = <<>>
        BY <3>1, <1>12
      <4>2. after = NoEntry
        BY <3>1, <1>7
      <4>. HIDE DEF after
      <4>. QED
        BY <3>1, <4>1, <4>2, <1>2, <1>5, <1>9
    <3>2. CASE n = 1 /\ Len(ch[b]) # 1
      <4>1. 1 \in 1..Len(ch[b]) - 1 /\ ch2[b] # <<>>
        <5>0. Len(ch[b]) \in Nat /\ 1 \in 1..Len(ch[b])
          BY <3>2, <1>3, <1>4
        <5>a. \A l \in Nat : 1 \in 1..l /\ l # 1 => l >= 2
          OBVIOUS
        <5>1. Len(ch[b]) >= 2
          BY <3>2, <5>0, <5>a
        <5>. QED
          BY <5>1, <1>4, <1>12
      <4>2. ch2[b][1] = ch[b][2] /\ after = ch[b][2]
        BY <3>2, <4>1, <1>7, <1>12
      <4>. HIDE DEF after
      <4>. QED
        BY <3>2, <4>1, <4>2, <1>2, <1>5, <1>9
    <3>3. CASE n # 1
      <4>1. 1 \in 1..Len(ch[b]) - 1 /\ ch2[b] # <<>> /\ 1 < n /\ ch[b] # <<>>
        BY <3>3, <1>4, <1>12
      <4>2. ch2[b][1] = ch[b][1] /\ m.buckets[b] = ch[b][1]
        BY <4>1, <1>4, <1>12 DEF IsChain
      <4>. QED
        BY <3>3, <4>1, <4>2, <1>9
    <3>. QED
      BY <3>1, <3>2, <3>3
  <2>3. ASSUME NEW j \in 1..Len(ch[b]) - 1
        PROVE  m2.map_chain_next[ch2[b][j]] = IF j = Len(ch[b]) - 1 THEN NoEntry ELSE ch2[b][j + 1]
    <3>0. PICK i : i = IF j < n THEN j ELSE j + 1
      OBVIOUS
    <3>1. i \in 1..Len(ch[b]) /\ i # n /\ ch2[b][j] = ch[b][i] /\ j \in Int /\ i \in Int
      <4>1. i \in 1..Len(ch[b]) /\ i # n /\ j \in Int /\ i \in Int
        BY <3>0, <1>4
      <4>2. ch2[b][j] = IF j < n THEN ch[b][j] ELSE ch[b][j + 1]
        BY <1>12
      <4>. QED
        BY <3>0, <4>1, <4>2
    <3>2. ch[b][i] \in Entries /\ ch[b][i] # e
      <4>1. ch[b][i] \in Entries
        BY <3>1, <1>4
      <4>2. n \in 1..Len(ch[b]) /\ ch[b][n] = e /\ Disjoint(ch)
        BY <1>1, <1>3, <1>4 DEF SoundWith
      <4>3. ch[b][i] # ch[b][n]
        BY <3>1, <4>2, <1>2 DEF Disjoint
      <4>. QED
        BY <4>1, <4>2, <4>3
    <3>3. CASE i = n - 1
      <4>1. n # 1 /\ ch[b][i] = before /\ j = n - 1
        BY <3>0, <3>1, <3>3, <1>4
      <4>2. m2.map_chain_next[ch[b][i]] = after
        <5>. HIDE DEF before, after
        <5>. QED
          BY <3>2, <4>1, <1>10
      <4>3. CASE n = Len(ch[b])
        BY <4>1, <4>2, <4>3, <3>1, <1>7
      <4>4. CASE n # Len(ch[b])
        <5>1. j + 1 \in 1..Len(ch[b]) - 1 /\ j # Len(ch[b]) - 1 /\ j + 1 = n
          BY <4>1, <4>4, <1>4
        <5>2. ch2[b][j + 1] = ch[b][n + 1]
          <6>1. ~(j + 1 < n) /\ (j + 1) + 1 = n + 1
            BY <5>1, <1>4
          <6>. QED
            BY <5>1, <6>1, <1>12
        <5>. QED
          BY <5>1, <5>2, <4>2, <4>4, <3>1, <1>7
      <4>. QED
        BY <4>3, <4>4
    <3>4. CASE i # n - 1
      <4>1. n # 1 => ch[b][i] # before
        BY <3>1, <3>4, <1>1, <1>2, <1>6, <1>4 DEF SoundWith, Disjoint
      <4>2. m2.map_chain_next[ch[b][i]] = m.map_chain_next[ch[b][i]]
        <5>. HIDE DEF before, after
        <5>. QED
          BY <3>2, <4>1, <1>10
      <4>3. m.map_chain_next[ch[b][i]] = IF i = Len(ch[b]) THEN NoEntry ELSE ch[b][i + 1]
        BY <3>1, <1>4 DEF IsChain
      <4>4. i = Len(ch[b]) <=> j = Len(ch[b]) - 1
        BY <3>0, <3>1, <3>4, <1>4
      <4>5. CASE j # Len(ch[b]) - 1
        <5>1. j + 1 \in 1..Len(ch[b]) - 1
          BY <4>5, <1>4
        <5>2. ch2[b][j + 1] = ch[b][i + 1]
          <6>1. IF j + 1 < n THEN j + 1 = i + 1 ELSE (j + 1) + 1 = i + 1
            BY <3>0, <3>1, <3>4, <1>4
          <6>2. ch2[b][j + 1] = IF j + 1 < n THEN ch[b][j + 1] ELSE ch[b][(j + 1) + 1]
            BY <5>1, <1>12
          <6>. QED
            BY <6>1, <6>2
        <5>. QED
          BY <5>2, <4>2, <4>3, <4>4, <4>5, <3>1
      <4>6. CASE j = Len(ch[b]) - 1
        BY <4>2, <4>3, <4>4, <4>6, <3>1
      <4>. QED
        BY <4>5, <4>6
    <3>. QED
      BY <3>3, <3>4
  <2>. QED
    BY <2>1, <2>2, <2>3, <1>12 DEF IsChain
<1>14. ASSUME NEW a \in AllBuckets, a # b PROVE IsChain(m2, a, ch2[a])
  <2>1. ch[a] \in Seq(Entries) /\ IsChain(m, a, ch[a]) /\ ch2[a] = ch[a]
    BY <1>1, <1>12, <1>14 DEF SoundWith
  <2>2. m2.buckets[a] = m.buckets[a]
    <3>. HIDE DEF after
    <3>. QED
      BY <1>5, <1>9, <1>14
  <2>3. ASSUME NEW j \in 1..Len(ch[a]) PROVE m2.map_chain_next[ch[a][j]] = m.map_chain_next[ch[a][j]]
    <3>1. ch[a][j] \in Entries
      BY <2>1
    <3>2. ch[a][j] # e /\ (n # 1 => ch[a][j] # before)
      BY <1>14, <1>1, <1>2, <1>3, <1>6 DEF SoundWith, Disjoint
    <3>. HIDE DEF before, after
    <3>. QED
      BY <3>1, <3>2, <1>10
  <2>. QED
    BY <2>1, <2>2, <2>3 DEF IsChain
<1>15. -1 \notin Cores
  BY SizeAssumption DEF Cores
<1>16. \A f \in Entries : own2[f] = IF f = e THEN -1 ELSE own[f]
  OBVIOUS
<1>. HIDE DEF own2
<1>17. AtHome(m2, ch2, own2)
  <2>. SUFFICES ASSUME NEW a \in AllBuckets, NEW i \in 1..Len(ch2[a]) PROVE InBucket(m2, own2, a, ch2[a][i])
    BY DEF AtHome
  <2>1. PICK j \in 1..Len(ch[a]) : ch2[a][i] = ch[a][j]
    <3>1. CASE a # b
      BY <3>1, <1>12
    <3>2. CASE a = b
      <4>1. i \in 1..Len(ch[b]) - 1
        BY <3>2, <1>12
      <4>2. i \in 1..Len(ch[b]) /\ i + 1 \in 1..Len(ch[b])
        BY <4>1, <1>4
      <4>. QED
        BY <4>1, <4>2, <3>2, <1>12
    <3>. QED
      BY <3>1, <3>2
  <2>2. ch[a][j] \in Entries /\ InBucket(m, own, a, ch[a][j])
    <3>1. ch[a] \in Seq(Entries)
      BY <1>4
    <3>. QED
      BY <3>1, <1>1 DEF SoundWith, AtHome
  <2>3. ch[a][j] # e
    BY <2>1, <1>11 DEF OnChain
  <2>. QED
    BY <2>1, <2>2, <2>3, <1>9, <1>16 DEF InBucket
<1>18. NoneMissing(ch2, own2)
  BY <1>1, <1>11, <1>15, <1>16 DEF SoundWith, NoneMissing
<1>19. NoLinkLeft(m2, own2)
  <2>. SUFFICES ASSUME NEW f \in Entries, own2[f] \notin Cores PROVE m2.map_chain_next[f] = NoEntry
    BY DEF NoLinkLeft
  <2>1. CASE f = e
    <3>. HIDE DEF before, after
    <3>. QED
      BY <2>1, <1>10
  <2>2. CASE f # e
    <3>1. own[f] \notin Cores /\ m.map_chain_next[f] = NoEntry
      BY <2>2, <1>1, <1>16 DEF SoundWith, NoLinkLeft
    <3>2. n # 1 => f # before
      BY <3>1, <1>1, <1>2, <1>6 DEF SoundWith, AtHome, InBucket
    <3>. HIDE DEF before, after
    <3>. QED
      BY <2>2, <3>1, <3>2, <1>10
  <2>. QED
    BY <2>1, <2>2
<1>20. OwnIds(m2, own2)
  BY <1>1, <1>9, <1>15, <1>16 DEF SoundWith, OwnIds
<1>21. SoundWith(m2, ch2, own2)
  BY <1>9, <1>11, <1>13, <1>14, <1>17, <1>18, <1>19, <1>20 DEF SoundWith
<1>. QED
  BY <1>9, <1>21 DEF SoundMap, m2, own2
-----------------------------------------------------------------------------
(* The manager's map.  An index belongs to the core in whose alloc list it *)
(* is: the one that list_ind names, unless that core is just returning the *)
(* index to its free list.  With it goes the entry of the related set.     *)
Belongs(c, x) == list_ind[x] = c /\ ~(op[c] \in {"flock", "push"} /\ cell[c] = x)

Allotted ==
  [i \in Indexes |-> IF \E c \in Cores : Belongs(c, i + INDEX_SHIFT) THEN list_ind[i + INDEX_SHIFT] ELSE -1]

EntryOwner(al) ==
  [e \in Entries |-> IF e < Size THEN al[e] ELSE IF HasRelatedPktSets THEN al[e - Size] ELSE -1]

(* The two entries of an index hold the ids of a pair, and its state is    *)
(* the one registered for the first of them.                               *)
Paired(m, al, st) ==
  \A i \in Indexes : al[i] \in Cores =>
    /\ m.id[i] \in Primary /\ st[i] = m.id[i]
    /\ HasRelatedPktSets => m.id[i + Size] = Related[m.id[i]]

(* From the lookup that missed to the commit, the id that the core is      *)
(* about to register is in none of its entries.                            *)
Absent(m, al, c, k) == \A e \in Entries : EntryOwner(al)[e] = c => m.id[e] # k

Pending(c) ==
  /\ pc[c] \in {"handler", "unlock", "commit"} => pkt_set_id[c] \in Keys /\ Absent(map, Allotted, c, pkt_set_id[c])
  /\ pc[c] = "commit" \/ (pc[c] = "unlock" /\ log_add[c]) => pkt_set_id[c] \in Primary

MapInv ==
  /\ SoundMap(map, EntryOwner(Allotted))
  /\ pkt_set_state \in [Indexes -> Keys \cup {NoKey}] /\ pkt_set_id \in [Cores -> Keys \cup {NoKey}]
  /\ Paired(map, Allotted, pkt_set_state)
  /\ \A c \in Cores : Pending(c)

(* An entry of the map has the owner of its index; the second entry of an  *)
(* index has it only if there are related sets.                            *)
LEMMA EntryOwnerFacts ==
  ASSUME NEW al \in [Indexes -> Cores \cup {-1}]
  PROVE  /\ EntryOwner(al) \in [Entries -> Int] /\ EntryOwner(al) \in [Entries -> Cores \cup {-1}]
         /\ \A i \in Indexes : /\ i \in Entries /\ i + Size \in Entries /\ i + Size # i
                               /\ EntryOwner(al)[i] = al[i]
                               /\ EntryOwner(al)[i + Size] = IF HasRelatedPktSets THEN al[i] ELSE -1
         /\ \A e \in Entries : IF e < Size THEN e \in Indexes ELSE e - Size \in Indexes /\ (e - Size) + Size = e
<1>1. Size \in Nat /\ Cores \subseteq Int /\ -1 \in Int
  BY SizeAssumption DEF Cores
<1>2. \A e \in Entries : e \in Int /\ IF e < Size THEN e \in Indexes ELSE e - Size \in Indexes /\ (e - Size) + Size = e
  BY <1>1 DEF Entries, NumEntries, Indexes
<1>3. \A i \in Indexes : i \in Int /\ i \in Entries /\ i + Size \in Entries /\ i + Size # i /\ i < Size /\ ~(i + Size < Size)
                         /\ (i + Size) - Size = i
  BY <1>1 DEF Entries, NumEntries, Indexes
<1>4. EntryOwner(al) \in [Entries -> Cores \cup {-1}]
  BY <1>2 DEF EntryOwner
<1>5. EntryOwner(al) \in [Entries -> Int]
  BY <1>1, <1>4
<1>6. \A i \in Indexes : /\ EntryOwner(al)[i] = al[i]
                         /\ EntryOwner(al)[i + Size] = IF HasRelatedPktSets THEN al[i] ELSE -1
  BY <1>3 DEF EntryOwner
<1>. QED
  BY <1>2, <1>3, <1>4, <1>5, <1>6

(* A core that gains no index gains no entry. *)
LEMMA EntryOwnerWithin ==
  ASSUME NEW al \in [Indexes -> Cores \cup {-1}], NEW al2 \in [Indexes -> Cores \cup {-1}], NEW d \in Cores,
         \A j \in Indexes : al2[j] = d => al[j] = d
  PROVE  \A e \in Entries : EntryOwner(al2)[e] = d => EntryOwner(al)[e] = d
<1>. SUFFICES ASSUME NEW e \in Entries, EntryOwner(al2)[e] = d PROVE EntryOwner(al)[e] = d
  OBVIOUS
<1>1. CASE e < Size
  BY <1>1, EntryOwnerFacts
<1>2. CASE ~(e < Size)
  <2>1. PICK j \in Indexes : e = j + Size
    BY <1>2, EntryOwnerFacts
  <2>. QED
    BY <2>1, EntryOwnerFacts, Geometry
<1>. QED
  BY <1>1, <1>2

(* When an index changes hands its entries do, and no other. *)
LEMMA EntryOwnerExcept ==
  ASSUME NEW al \in [Indexes -> Cores \cup {-1}], NEW i \in Indexes, NEW c \in Cores \cup {-1}
  PROVE  EntryOwner([al EXCEPT ![i] = c]) =
           IF HasRelatedPktSets THEN [EntryOwner(al) EXCEPT ![i] = c, ![i + Size] = c]
           ELSE [EntryOwner(al) EXCEPT ![i] = c]
<1>. DEFINE al2 == [al EXCEPT ![i] = c]
            own == EntryOwner(al)
            own2 == EntryOwner(al2)
            rhs == IF HasRelatedPktSets THEN [own EXCEPT ![i] = c, ![i + Size] = c] ELSE [own EXCEPT ![i] = c]
<1>1. al2 \in [Indexes -> Cores \cup {-1}] /\ \A j \in Indexes : al2[j] = IF j = i THEN c ELSE al[j]
  OBVIOUS
<1>2. own \in [Entries -> Cores \cup {-1}] /\ own2 \in [Entries -> Cores \cup {-1}]
  BY <1>1, EntryOwnerFacts
<1>3. i \in Entries /\ i + Size \in Entries /\ i + Size # i
  BY EntryOwnerFacts
<1>4. rhs \in [Entries -> Cores \cup {-1}]
       /\ \A e \in Entries : rhs[e] = IF e = i \/ (HasRelatedPktSets /\ e = i + Size) THEN c ELSE own[e]
  <2>. HIDE DEF own
  <2>. QED
    BY <1>2, <1>3
<1>5. ASSUME NEW e \in Entries PROVE own2[e] = rhs[e]
  <2>1. CASE e < Size
    <3>1. e \in Indexes /\ own2[e] = al2[e] /\ own[e] = al[e] /\ e # i + Size
      <4>1. e \in Indexes
        BY <2>1, EntryOwnerFacts
      <4>2. e # i + Size
        BY <2>1, SizeAssumption DEF Indexes
      <4>. QED
        BY <4>1, <4>2, <1>1, EntryOwnerFacts
    <3>. HIDE DEF own, own2, rhs, al2
    <3>. QED
      BY <3>1, <1>1, <1>4
  <2>2. CASE ~(e < Size)
    <3>1. PICK j \in Indexes : e = j + Size
      BY <2>2, EntryOwnerFacts
    <3>2. e # i /\ (e = i + Size <=> i = j)
      BY <3>1, SizeAssumption DEF Indexes
    <3>3. own2[e] = (IF HasRelatedPktSets THEN al2[j] ELSE -1) /\ own[e] = (IF HasRelatedPktSets THEN al[j] ELSE -1)
      BY <3>1, <1>1, EntryOwnerFacts
    <3>. HIDE DEF own, own2, rhs, al2
    <3>. QED
      BY <3>1, <3>2, <3>3, <1>1, <1>4
  <2>. QED
    BY <2>1, <2>2
<1>. HIDE DEF own2, rhs
<1>6. own2 = rhs
  BY <1>2, <1>4, <1>5
<1>. QED
  BY <1>6 DEF own2, rhs

(* An allotment is known by the indexes of each core. *)
LEMMA SameAllotted ==
  ASSUME NEW f \in [Indexes -> Cores \cup {-1}], NEW g \in [Indexes -> Cores \cup {-1}],
         \A i \in Indexes, d \in Cores : f[i] = d <=> g[i] = d
  PROVE  f = g
<1>1. ASSUME NEW i \in Indexes PROVE f[i] = g[i]
  BY Geometry
<1>. QED
  BY <1>1

(* Who owns an index, in terms of the alloc lists. *)
LEMMA AllottedFacts ==
  ASSUME DInvariant
  PROVE  /\ Allotted \in [Indexes -> Cores \cup {-1}]
         /\ \A i \in Indexes, c \in Cores : Allotted[i] = c <=> Belongs(c, i + INDEX_SHIFT)
         /\ \A i \in Indexes, c \in Cores : Allotted[i] = c <=> i + INDEX_SHIFT \in CellsOf(ALLOC(c))
<1>1. list_ind \in [Cells -> Cores \cup {-1}] /\ IndexCells \subseteq Cells /\ -1 \notin Cores
  BY HeadsApart, Geometry, SizeAssumption DEF DInvariant, Locked, DTyping, Cores
<1>2. \A i \in Indexes : i + INDEX_SHIFT \in IndexCells
  BY CellFacts
<1>3. ASSUME NEW i \in Indexes, NEW c \in Cores PROVE Allotted[i] = c <=> Belongs(c, i + INDEX_SHIFT)
  BY <1>1, <1>2 DEF Allotted, Belongs
<1>4. ASSUME NEW i \in Indexes, NEW c \in Cores
      PROVE  Belongs(c, i + INDEX_SHIFT) <=> i + INDEX_SHIFT \in CellsOf(ALLOC(c))
  <2>1. PICK on, rank : InPlaces(on, rank)
    BY DEF DInvariant, DIInv
  <2>2. CellsOf(ALLOC(c)) = Members(IndexCells, ALLOC(c), on)
    BY <2>1, AllocListFacts
  <2>3. PICK x \in IndexCells : x = i + INDEX_SHIFT
    BY <1>2
  <2>4. Marked(x, on) /\ HasCell(c, on) /\ ALLOC(c) # Hand(c)
    BY <2>1, SizeAssumption DEF InPlaces, ALLOC, Hand, GLOBAL, Cores
  <2>5. Belongs(c, x) <=> on[x] = ALLOC(c)
    BY <2>4 DEF Belongs, Marked, HasCell, Holding
  <2>. QED
    BY <2>2, <2>3, <2>5 DEF Members
<1>5. Allotted \in [Indexes -> Cores \cup {-1}]
  BY <1>1, <1>2 DEF Allotted
<1>. QED
  BY <1>3, <1>4, <1>5

AllottedOK ==
  /\ Allotted \in [Indexes -> Cores \cup {-1}]
  /\ \A i \in Indexes, c \in Cores : Allotted[i] = c <=> Belongs(c, i + INDEX_SHIFT)

(* What AllottedFacts says, as one predicate that can be primed. *)
LEMMA AllottedIsOK == DInvariant => AllottedOK
  BY AllottedFacts DEF AllottedOK

(* The steps that neither register nor expire a set. *)
LEMMA AllottedKept ==
  ASSUME IInv, DInvariant, DInvariant', NEW c \in Cores, StepOf(c), ~ExpireCommit(c), ~CommitPut(c)
  PROVE  Allotted' = Allotted
<1>1. /\ Allotted \in [Indexes -> Cores \cup {-1}]
      /\ \A i \in Indexes, d \in Cores : Allotted[i] = d <=> Belongs(d, i + INDEX_SHIFT)
  BY AllottedFacts
<1>2. /\ Allotted' \in [Indexes -> Cores \cup {-1}]
      /\ \A i \in Indexes, d \in Cores : Allotted'[i] = d <=> Belongs(d, i + INDEX_SHIFT)'
  <2>1. AllottedOK'
    BY AllottedIsOK, PTL
  <2>. QED
    BY <2>1 DEF AllottedOK
<1>3. Confined(c)
  BY StepConfined
<1>4. list_ind \in [Cells -> Cores \cup {-1}] /\ op \in [Cores -> Ops] /\ cell \in [Cores -> Cells \cup {NoCell}]
  BY DEF DInvariant, Locked, DTyping
<1>5. ASSUME NEW x \in IndexCells PROVE Belongs(c, x)' <=> Belongs(c, x)
  <2>1. CASE UNCHANGED <<list_ind, op, cell>>
    BY <2>1 DEF Belongs
  <2>2. CASE CommitBegin(c)
    BY <2>2, <1>4 DEF CommitBegin, AllocateNewIndex, Goto, Belongs, lists
  <2>3. CASE CommitAllocates(c)
    <3>1. op[c] \in {"lock", "pop", "unhook"}
      BY <2>3 DEF CommitAllocates, IInv, CoreOK
    <3>2. AllocLock(c) \/ AllocRead(c) \/ AllocUnhook(c)
      BY <2>3, <3>1 DEF CommitAllocates, AllocateStep, AllocLink, GlobalLock, GrabCoreLock, FillRead, FillMove,
                        GlobalRetry, UngrabCoreLock, GlobalPop
    <3>3. list_ind' = list_ind /\ op'[c] \notin {"flock", "push"}
      BY <3>2, <1>4 DEF AllocLock, AllocRead, AllocUnhook, Goto, lists
    <3>. QED
      BY <3>1, <3>3 DEF Belongs
  <2>4. CASE ExpireReturnIndex(c)
    <3>1. CASE FreeLock(c)
      BY <3>1, <1>4 DEF FreeLock, Goto, Belongs, lists
    <3>2. CASE FreeHook(c)
      <4>1. list_ind' = [list_ind EXCEPT ![cell[c]] = -1] /\ op[c] = "push" /\ op'[c] = "hook"
        BY <3>2, <1>4 DEF FreeHook, Goto
      <4>2. list_ind'[x] = IF x = cell[c] THEN -1 ELSE list_ind[x]
        BY <4>1, <1>4, HeadsApart
      <4>. QED
        BY <4>1, <4>2, Geometry DEF Belongs
    <3>3. CASE FreePush(c)
      BY <3>3, <1>4 DEF FreePush, Goto, Belongs
    <3>. QED
      BY <2>4, <3>1, <3>2, <3>3 DEF ExpireReturnIndex, FreeStep
  <2>5. CASE \E k \in Keys : LookupHit(c, k)
    BY <2>1, <2>5 DEF LookupHit, RejuvenateIndex, Rejuvenate, lists
  <2>6. CASE NextLoop(c)
    BY <2>1, <2>6 DEF NextLoop, Tick, dchainVars, lists
  <2>7. CASE \/ ExpireFind(c) \/ ExpireEnd(c) \/ \E k \in Keys : LookupMiss(c, k)
             \/ AddPktSetLog(c) \/ HandlerSkips(c) \/ HandlerAborts(c) \/ CommitNothing(c)
    BY <2>1, <2>7 DEF ExpireFind, ExpireEnd, LookupMiss, AddPktSetLog, HandlerSkips, HandlerAborts, CommitNothing,
                      dchainVars, lists
  <2>. QED
    BY <2>2, <2>3, <2>4, <2>5, <2>6, <2>7 DEF StepOf, UseNoSet
<1>6. ASSUME NEW i \in Indexes, NEW d \in Cores PROVE Belongs(d, i + INDEX_SHIFT)' <=> Belongs(d, i + INDEX_SHIFT)
  <2>1. PICK x \in IndexCells : x = i + INDEX_SHIFT
    BY CellFacts
  <2>2. CASE d = c
    BY <2>1, <2>2, <1>5
  <2>3. CASE d # c
    <3>1. op'[d] = op[d] /\ cell'[d] = cell[d]
      BY <1>3, <2>3 DEF Confined
    <3>2. list_ind'[x] = d <=> list_ind[x] = d
      <4>1. x \in Cells /\ (list_ind[x] = d => x \in Region(d))
        BY HeadsApart DEF IInv
      <4>2. CASE x \in Region(c)
        BY <4>1, <4>2, <2>3, <1>3, Geometry DEF Confined
      <4>3. CASE x \notin Region(c)
        BY <4>1, <4>3, <1>3 DEF Confined
      <4>. QED
        BY <4>2, <4>3
    <3>. QED
      BY <2>1, <3>1, <3>2 DEF Belongs
  <2>. QED
    BY <2>2, <2>3
<1>. QED
  BY <1>1, <1>2, <1>6, SameAllotted

(* Expiring a set takes its index from the core ... *)
LEMMA AllottedExpire ==
  ASSUME IInv, DInvariant, DInvariant', Expiring, NEW c \in Cores, ExpireCommit(c)
  PROVE  /\ Oldest(c) \in Indexes /\ Allotted[Oldest(c)] = c
         /\ Allotted' = [Allotted EXCEPT ![Oldest(c)] = -1]
<1>0. AllottedOK'
  BY AllottedIsOK, PTL
<1>1. AllottedOK
  BY AllottedIsOK
<1>2. PICK o : o = Oldest(c)
  OBVIOUS
<1>3. o \in Indexes /\ o + INDEX_SHIFT \in IndexCells
  <2>1. PICK on, rank : InPlaces(on, rank)
    BY DEF DInvariant, DIInv
  <2>2. next[ALLOC(c)] # ALLOC(c) /\ ALLOC(c) \in Heads
    BY CellFacts DEF ExpireCommit, Expiring
  <2>3. next[ALLOC(c)] \in IndexCells
    BY <2>1, <2>2 DEF InPlaces, List, Leads, Members
  <2>. QED
    BY <2>3, <1>2, CellFacts DEF Oldest
<1>4. /\ op[c] = "none" /\ list_ind[o + INDEX_SHIFT] = c /\ list_ind' = list_ind
      /\ op' = [op EXCEPT ![c] = "flock"] /\ cell' = [cell EXCEPT ![c] = o + INDEX_SHIFT]
  BY <1>2, Geometry DEF ExpireCommit, FreeIndex, IsIndexAllocated, Goto
<1>5. op \in [Cores -> Ops] /\ cell \in [Cores -> Cells \cup {NoCell}]
  BY DEF DInvariant, Locked, DTyping
<1>6. Allotted[o] = c
  BY <1>1, <1>3, <1>4 DEF AllottedOK, Belongs
<1>7. ASSUME NEW i \in Indexes, NEW d \in Cores
      PROVE  Belongs(d, i + INDEX_SHIFT)' <=> (i # o /\ Belongs(d, i + INDEX_SHIFT))
  <2>1. i + INDEX_SHIFT = o + INDEX_SHIFT <=> i = o
    BY <1>3, SizeAssumption DEF Indexes, INDEX_SHIFT, GLOBAL
  <2>. QED
    BY <2>1, <1>4, <1>5 DEF Belongs
<1>8. Allotted' = [Allotted EXCEPT ![o] = -1]
  <2>. DEFINE g == [Allotted EXCEPT ![o] = -1]
  <2>1. g \in [Indexes -> Cores \cup {-1}] /\ \A i \in Indexes : g[i] = IF i = o THEN -1 ELSE Allotted[i]
    BY <1>1 DEF AllottedOK
  <2>. HIDE DEF g
  <2>2. \A i \in Indexes, d \in Cores : Allotted'[i] = d <=> g[i] = d
    BY <2>1, <1>0, <1>1, <1>7, Geometry DEF AllottedOK
  <2>3. Allotted' \in [Indexes -> Cores \cup {-1}]
    BY <1>0 DEF AllottedOK
  <2>4. Allotted' = g
    BY <2>1, <2>2, <2>3, SameAllotted
  <2>. QED
    BY <2>4 DEF g
<1>. QED
  BY <1>2, <1>3, <1>6, <1>8

(* ... and committing one gives it a free one. *)
LEMMA AllottedPut ==
  ASSUME IInv, DInvariant, DInvariant', NEW c \in Cores, CommitPut(c)
  PROVE  /\ cell[c] - INDEX_SHIFT \in Indexes /\ Allotted[cell[c] - INDEX_SHIFT] = -1
         /\ Allotted' = [Allotted EXCEPT ![cell[c] - INDEX_SHIFT] = c]
<1>0. AllottedOK'
  BY AllottedIsOK, PTL
<1>1. AllottedOK
  BY AllottedIsOK
<1>2. PICK o : o = cell[c] - INDEX_SHIFT
  OBVIOUS
<1>3. PICK on, rank : InPlaces(on, rank)
  BY DEF DInvariant, DIInv
<1>4. op[c] = "link" /\ cell[c] \in IndexCells /\ on[cell[c]] = Hand(c)
  BY <1>3 DEF InPlaces, HasCell, CommitPut, Holding
<1>5. o \in Indexes /\ o + INDEX_SHIFT = cell[c]
  BY <1>2, <1>4, CellFacts, HeadsApart
<1>6. /\ list_ind' = [list_ind EXCEPT ![cell[c]] = c]
      /\ op' = [op EXCEPT ![c] = "none"] /\ cell' = [cell EXCEPT ![c] = NoCell]
  BY Geometry DEF CommitPut, AllocLink, Goto
<1>7. op \in [Cores -> Ops] /\ cell \in [Cores -> Cells \cup {NoCell}] /\ list_ind \in [Cells -> Cores \cup {-1}]
  BY DEF DInvariant, Locked, DTyping
<1>8. list_ind[cell[c]] \notin Cores
  <2>. SUFFICES ASSUME NEW d \in Cores, list_ind[cell[c]] = d PROVE FALSE
    OBVIOUS
  <2>1. Hand(c) # ALLOC(d) /\ (Hand(c) = Hand(d) => c = d)
    BY SizeAssumption DEF Hand, ALLOC, GLOBAL, Cores
  <2>2. Marked(cell[c], on)
    BY <1>3, <1>4 DEF InPlaces
  <2>. QED
    BY <2>1, <2>2, <1>4 DEF Marked
<1>9. Allotted[o] = -1
  BY <1>1, <1>5, <1>8 DEF AllottedOK, Belongs
<1>10. ASSUME NEW i \in Indexes, NEW d \in Cores
       PROVE  Belongs(d, i + INDEX_SHIFT)' <=> (IF i = o THEN d = c ELSE Belongs(d, i + INDEX_SHIFT))
  <2>1. i + INDEX_SHIFT = cell[c] <=> i = o
    BY <1>5, SizeAssumption DEF Indexes, INDEX_SHIFT, GLOBAL
  <2>2. i + INDEX_SHIFT \in Cells /\ i + INDEX_SHIFT # NoCell
    BY CellFacts, HeadsApart, SizeAssumption DEF NoCell, IndexCells, INDEX_SHIFT, GLOBAL
  <2>3. PICK x \in Cells : x = i + INDEX_SHIFT /\ x # NoCell
    BY <2>2
  <2>4. list_ind'[x] = IF x = cell[c] THEN c ELSE list_ind[x]
    BY <1>6, <1>7
  <2>5. CASE d = c
    BY <2>1, <2>3, <2>4, <2>5, <1>4, <1>6, <1>7 DEF Belongs
  <2>6. CASE d # c
    <3>1. op'[d] = op[d] /\ cell'[d] = cell[d]
      BY <2>6, <1>6, <1>7
    <3>. QED
      BY <3>1, <2>1, <2>3, <2>4, <2>6 DEF Belongs
  <2>. QED
    BY <2>5, <2>6
<1>11. Allotted' = [Allotted EXCEPT ![o] = c]
  <2>. DEFINE g == [Allotted EXCEPT ![o] = c]
  <2>1. g \in [Indexes -> Cores \cup {-1}] /\ \A i \in Indexes : g[i] = IF i = o THEN c ELSE Allotted[i]
    BY <1>1 DEF AllottedOK
  <2>. HIDE DEF g
  <2>2. \A i \in Indexes, d \in Cores : Allotted'[i] = d <=> g[i] = d
    BY <2>1, <1>0, <1>1, <1>10, Geometry DEF AllottedOK
  <2>3. Allotted' \in [Indexes -> Cores \cup {-1}]
    BY <1>0 DEF AllottedOK
  <2>4. Allotted' = g
    BY <2>1, <2>2, <2>3, SameAllotted
  <2>. QED
    BY <2>4 DEF g
<1>. QED
  BY <1>2, <1>5, <1>9, <1>11

(* Erasing the entries of an index. *)
LEMMA EraseSetSound ==
  ASSUME NEW m, NEW al \in [Indexes -> Cores \cup {-1}], SoundMap(m, EntryOwner(al)),
         NEW c \in Cores, NEW i \in Indexes, al[i] = c
  PROVE  SoundMap(EraseSet(m, c, i), EntryOwner([al EXCEPT ![i] = -1])) /\ EraseSet(m, c, i).id = m.id
<1>. DEFINE own == EntryOwner(al)
            own1 == [own EXCEPT ![i] = -1]
            m1 == MapErase(m, m.id[i], c)
            own2 == [own1 EXCEPT ![i + Size] = -1]
            m2 == MapErase(m1, m1.id[i + Size], c)
<1>1. own \in [Entries -> Int] /\ i \in Entries /\ i + Size \in Entries /\ i + Size # i /\ own[i] = c
      /\ own[i + Size] = IF HasRelatedPktSets THEN c ELSE -1
  BY EntryOwnerFacts
<1>2. SoundMap(m, own)
  OBVIOUS
<1>. HIDE DEF own
<1>3. SoundMap(m1, own1) /\ m1.id = m.id
  BY <1>1, <1>2, EraseSound
<1>4. own1 \in [Entries -> Int] /\ own1[i + Size] = own[i + Size]
  BY <1>1
<1>. HIDE DEF own1, m1
<1>5. HasRelatedPktSets => SoundMap(m2, own2) /\ m2.id = m.id
  <2>. SUFFICES ASSUME HasRelatedPktSets PROVE SoundMap(m2, own2) /\ m2.id = m.id
    OBVIOUS
  <2>1. own1[i + Size] = c
    BY <1>1, <1>4
  <2>2. SoundMap(MapErase(m1, m1.id[i + Size], own1[i + Size]), own2)
        /\ MapErase(m1, m1.id[i + Size], own1[i + Size]).id = m1.id
    BY <2>1, <1>1, <1>3, <1>4, EraseSound
  <2>. QED
    BY <2>1, <2>2, <1>3
<1>6. EraseSet(m, c, i) = IF HasRelatedPktSets THEN m2 ELSE m1
  BY DEF EraseSet, m1
<1>7. EntryOwner([al EXCEPT ![i] = -1]) = IF HasRelatedPktSets THEN own2 ELSE own1
  <2>1. EntryOwner([al EXCEPT ![i] = -1]) =
           IF HasRelatedPktSets THEN [own EXCEPT ![i] = -1, ![i + Size] = -1]
           ELSE [own EXCEPT ![i] = -1]
    BY EntryOwnerExcept DEF own
  <2>2. [own EXCEPT ![i] = -1, ![i + Size] = -1] = own2
    BY DEF own1
  <2>. QED
    BY <2>1, <2>2 DEF own1
<1>. HIDE DEF own2, m2
<1>. QED
  BY <1>3, <1>5, <1>6, <1>7

(* A set to be registered has a related one when sets come in pairs. *)
LEMMA RelatedFacts ==
  ASSUME NEW k \in Primary
  PROVE  k \in Keys /\ (HasRelatedPktSets => Related[k] \in Keys /\ Related[k] \notin Primary)
                    /\ (~HasRelatedPktSets => Related[k] = NoKey)
  BY ManagerAssumption, MapAssumption DEF Primary, HasRelatedPktSets

(* If a set is not in the map, its related one is not either. *)
LEMMA RelatedAbsent ==
  ASSUME NEW m, NEW st, NEW al \in [Indexes -> Cores \cup {-1}], Paired(m, al, st), NEW c \in Cores,
         NEW k \in Primary, Absent(m, al, c, k), HasRelatedPktSets
  PROVE  Absent(m, al, c, Related[k])
<1>. SUFFICES ASSUME NEW e \in Entries, EntryOwner(al)[e] = c, m.id[e] = Related[k] PROVE FALSE
  BY DEF Absent
<1>1. CASE e < Size
  <2>1. e \in Indexes /\ al[e] = c
    BY <1>1, EntryOwnerFacts
  <2>. QED
    BY <2>1, RelatedFacts DEF Paired
<1>2. CASE ~(e < Size)
  <2>1. PICK j \in Indexes : e = j + Size
    BY <1>2, EntryOwnerFacts
  <2>2. al[j] = c /\ j \in Entries /\ EntryOwner(al)[j] = c
    BY <2>1, EntryOwnerFacts
  <2>3. m.id[j] \in Primary /\ m.id[e] = Related[m.id[j]]
    BY <2>1, <2>2 DEF Paired
  <2>4. m.id[j] # k
    BY <2>2 DEF Absent
  <2>5. Related[k] # NoKey
    BY RelatedFacts, MapAssumption
  <2>. QED
    BY <2>3, <2>4, <2>5, ManagerAssumption
<1>. QED
  BY <1>1, <1>2

SetPut(m, al, m2, c, k, i) ==
  /\ SoundMap(m2, EntryOwner([al EXCEPT ![i] = c]))
  /\ \A f \in Entries :
       m2.id[f] = IF f = i THEN k ELSE IF HasRelatedPktSets /\ f = i + Size THEN Related[k] ELSE m.id[f]

(* Entering the ids of a set. *)
LEMMA PutSetSound ==
  ASSUME NEW m, NEW st, NEW al \in [Indexes -> Cores \cup {-1}], SoundMap(m, EntryOwner(al)), Paired(m, al, st),
         NEW c \in Cores, NEW i \in Indexes, al[i] = -1, NEW k \in Primary, Absent(m, al, c, k)
  PROVE  SetPut(m, al, PutSet(m, c, k, i), c, k, i)
<1>. DEFINE own == EntryOwner(al)
            own1 == [own EXCEPT ![i] = c]
            m1 == MapPut(m, k, c, i)
            own2 == [own1 EXCEPT ![i + Size] = c]
            m2 == MapPut(m1, Related[k], c, i + Size)
<1>1. own \in [Entries -> Int] /\ i \in Entries /\ i + Size \in Entries /\ i + Size # i /\ own[i] = -1
      /\ own[i + Size] = -1 /\ -1 \notin Cores
  BY EntryOwnerFacts, Geometry
<1>2. /\ SoundMap(m, own) /\ \A f \in Entries : own[f] = c => m.id[f] # k
      /\ (HasRelatedPktSets => \A f \in Entries : own[f] = c => m.id[f] # Related[k])
  BY RelatedAbsent DEF Absent
<1>a. k \in Keys /\ k \in Primary /\ (HasRelatedPktSets => Related[k] \in Keys /\ Related[k] # k)
  BY RelatedFacts
<1>b. m.id \in [Entries -> Keys \cup {NoKey}]
  BY <1>2 DEF SoundMap, SoundWith, MapType
<1>. HIDE DEF own
<1>3. SoundMap(m1, own1) /\ \A f \in Entries : m1.id[f] = IF f = i THEN k ELSE m.id[f]
  <2>1. own[i] \notin Cores
    BY <1>1
  <2>2. SoundMap(m, own) /\ k \in Keys /\ i \in Entries /\ own \in [Entries -> Int]
    BY <1>1, <1>2, <1>a
  <2>3. NotIn(m, own, c, k)
    BY <1>2 DEF NotIn
  <2>4. EntryPut(m, own, m1, k, c, i)
    BY <2>1, <2>2, <2>3, PutSound
  <2>. HIDE DEF m1
  <2>. QED
    BY <2>4 DEF EntryPut
<1>4. own1 \in [Entries -> Int] /\ own1[i + Size] = -1
  BY <1>1, Geometry
<1>c. HasRelatedPktSets => \A f \in Entries : own1[f] = c => m1.id[f] # Related[k]
  <2>. SUFFICES ASSUME HasRelatedPktSets, NEW f \in Entries, own1[f] = c PROVE m1.id[f] # Related[k]
    OBVIOUS
  <2>1. CASE f = i
    BY <2>1, <1>1, <1>3, <1>a, <1>b
  <2>2. CASE f # i
    BY <2>2, <1>1, <1>2, <1>3, <1>b
  <2>. QED
    BY <2>1, <2>2
<1>. HIDE DEF own1, m1
<1>5. HasRelatedPktSets => SoundMap(m2, own2) /\ \A f \in Entries : m2.id[f] = IF f = i + Size THEN Related[k] ELSE m1.id[f]
  <2>. SUFFICES ASSUME HasRelatedPktSets
       PROVE SoundMap(m2, own2) /\ \A f \in Entries : m2.id[f] = IF f = i + Size THEN Related[k] ELSE m1.id[f]
    OBVIOUS
  <2>1. own1[i + Size] \notin Cores
    BY <1>1, <1>4
  <2>2. SoundMap(m1, own1) /\ Related[k] \in Keys /\ i + Size \in Entries /\ own1 \in [Entries -> Int]
    BY <1>1, <1>3, <1>4, <1>a
  <2>3. NotIn(m1, own1, c, Related[k])
    BY <1>c DEF NotIn
  <2>4. EntryPut(m1, own1, m2, Related[k], c, i + Size)
    BY <2>1, <2>2, <2>3, PutSound
  <2>. HIDE DEF m2
  <2>. QED
    BY <2>4 DEF EntryPut
<1>6. PutSet(m, c, k, i) = IF HasRelatedPktSets THEN m2 ELSE m1
  BY DEF PutSet, m1
<1>7. EntryOwner([al EXCEPT ![i] = c]) = IF HasRelatedPktSets THEN own2 ELSE own1
  <2>1. EntryOwner([al EXCEPT ![i] = c]) =
           IF HasRelatedPktSets THEN [own EXCEPT ![i] = c, ![i + Size] = c]
           ELSE [own EXCEPT ![i] = c]
    BY EntryOwnerExcept DEF own
  <2>2. [own EXCEPT ![i] = c, ![i + Size] = c] = own2
    BY DEF own1
  <2>. QED
    BY <2>1, <2>2 DEF own1
<1>. HIDE DEF own2, m2
<1>. QED
  BY <1>1, <1>3, <1>5, <1>6, <1>7 DEF SetPut

(* At first no set is registered. *)
LEMMA MapInvInit == Init => MapInv
<1>. SUFFICES ASSUME Init PROVE MapInv
  OBVIOUS
<1>1. AllottedOK /\ DInvariant
  BY DInvariantInit, AllottedIsOK DEF Init
<1>2. -1 \notin Cores /\ \A x \in IndexCells : list_ind[x] \notin Cores
  <2>1. \A x \in IndexCells : x \in Cells /\ ~(x < FREE(0)) /\ ~(x < GLOBAL)
    BY SizeAssumption DEF IndexCells, Cells, INDEX_SHIFT, GLOBAL, FREE
  <2>. QED
    BY <2>1, Geometry DEF Init, DchainInit
<1>3. ASSUME NEW i \in Indexes PROVE Allotted[i] \notin Cores
  <2>1. i + INDEX_SHIFT \in IndexCells
    BY CellFacts
  <2>. QED
    BY <2>1, <1>1, <1>2 DEF AllottedOK, Belongs
<1>4. ASSUME NEW e \in Entries PROVE EntryOwner(Allotted)[e] \notin Cores
  <2>1. Allotted \in [Indexes -> Cores \cup {-1}]
    BY <1>1 DEF AllottedOK
  <2>2. CASE e < Size
    BY <2>1, <2>2, <1>3, EntryOwnerFacts
  <2>3. CASE ~(e < Size)
    <3>1. PICK j \in Indexes : e = j + Size
      BY <2>3, EntryOwnerFacts, <2>1
    <3>. QED
      BY <3>1, <2>1, <1>2, <1>3, EntryOwnerFacts
  <2>. QED
    BY <2>2, <2>3
<1>5. SoundMap(map, EntryOwner(Allotted))
  <2>1. PICK own : own = EntryOwner(Allotted)
    OBVIOUS
  <2>2. PICK ch : ch = [b \in AllBuckets |-> <<>>]
    OBVIOUS
  <2>3. \A b \in AllBuckets : ch[b] = <<>> /\ Len(ch[b]) = 0 /\ ch[b] \in Seq(Entries)
    BY <2>2
  <2>4. ch \in [AllBuckets -> Seq(Entries)]
    BY <2>2, <2>3
  <2>5. /\ map \in MapType /\ map.buckets = [b \in AllBuckets |-> NoEntry]
        /\ map.map_chain_next = [e \in Entries |-> NoEntry]
    BY DEF Init, EmptyMap, MapType, AllBuckets
  <2>6. \A b \in AllBuckets : IsChain(map, b, ch[b])
    BY <2>3, <2>5, EntryFacts DEF IsChain
  <2>7. Disjoint(ch) /\ AtHome(map, ch, own)
    BY <2>3 DEF Disjoint, AtHome
  <2>8. NoneMissing(ch, own) /\ NoLinkLeft(map, own) /\ OwnIds(map, own)
    BY <2>1, <2>5, <1>4 DEF NoneMissing, NoLinkLeft, OwnIds
  <2>. QED
    BY <2>1, <2>4, <2>5, <2>6, <2>7, <2>8 DEF SoundMap, SoundWith
<1>6. /\ pkt_set_state \in [Indexes -> Keys \cup {NoKey}] /\ pkt_set_id \in [Cores -> Keys \cup {NoKey}]
      /\ Paired(map, Allotted, pkt_set_state)
  BY <1>3 DEF Init, Paired
<1>7. \A c \in Cores : Pending(c)
  BY DEF Init, Pending
<1>. QED
  BY <1>5, <1>6, <1>7 DEF MapInv

(* The other cores' pending sets are not affected by a step of core c that *)
(* registers or expires sets of c only.                                    *)
LEMMA OthersPending ==
  ASSUME MapInv, NEW c \in Cores, NEW d \in Cores \ {c},
         pc'[d] = pc[d], log_add'[d] = log_add[d], pkt_set_id'[d] = pkt_set_id[d],
         \A e \in Entries : EntryOwner(Allotted')[e] = d => EntryOwner(Allotted)[e] = d /\ map'.id[e] = map.id[e]
  PROVE  Pending(d)'
  BY DEF MapInv, Pending, Absent

(* Steps that leave the map and the indexes alone. *)
LEMMA MapInvKept ==
  ASSUME IInv, MapInv, NEW c \in Cores, Confined(c), Allotted' = Allotted, map' = map, pkt_set_state' = pkt_set_state,
         NEW k \in Keys \cup {NoKey}, pkt_set_id' = [pkt_set_id EXCEPT ![c] = k], Pending(c)'
  PROVE  MapInv'
<1>1. pkt_set_id \in [Cores -> Keys \cup {NoKey}]
  BY DEF MapInv
<1>2. ASSUME NEW d \in Cores \ {c} PROVE Pending(d)'
  <2>1. pc'[d] = pc[d] /\ log_add'[d] = log_add[d] /\ pkt_set_id'[d] = pkt_set_id[d]
    BY <1>1 DEF Confined
  <2>. QED
    BY <2>1, OthersPending
<1>3. \A d \in Cores : Pending(d)'
  BY <1>2
<1>. QED
  BY <1>1, <1>3 DEF MapInv

(* The step of a core that neither registers nor expires a set. *)
LEMMA QuietMapInv ==
  ASSUME IInv, DInvariant, DInvariant', MapInv, NEW c \in Cores, StepOf(c), ~ExpireCommit(c), ~CommitPut(c)
  PROVE  MapInv'
<1>1. Allotted' = Allotted /\ Confined(c)
  BY AllottedKept, StepConfined
<1>2. /\ pkt_set_id \in [Cores -> Keys \cup {NoKey}] /\ Pending(c) /\ pc \in [Cores -> Places]
      /\ log_add \in [Cores -> BOOLEAN] /\ pkt_set_id[c] \in Keys \cup {NoKey}
  BY DEF MapInv, IInv, Typing
<1>3. ASSUME map' = map, pkt_set_state' = pkt_set_state, pkt_set_id' = pkt_set_id, Pending(c)' PROVE MapInv'
  <2>1. pkt_set_id' = [pkt_set_id EXCEPT ![c] = pkt_set_id[c]]
    BY <1>2, <1>3
  <2>. QED
    BY <2>1, <1>1, <1>2, <1>3, MapInvKept
<1>4. ASSUME pc'[c] \in {"expire", "expired_handler", "serve"} PROVE Pending(c)'
  BY <1>4 DEF Pending
<1>5. CASE ExpireFind(c) \/ ExpireReturnIndex(c) \/ ExpireEnd(c) \/ NextLoop(c) \/ \E k \in Keys : LookupHit(c, k)
  <2>1. pc'[c] \in {"expire", "expired_handler", "serve"} /\ UNCHANGED managerVars
    BY <1>2, <1>5 DEF ExpireFind, ExpireReturnIndex, ExpireEnd, NextLoop, LookupHit, Move
  <2>. QED
    BY <2>1, <1>3, <1>4 DEF managerVars
<1>6. ASSUME NEW k \in Keys, LookupMiss(c, k) PROVE MapInv'
  <2>1. /\ map' = map /\ pkt_set_state' = pkt_set_state /\ pkt_set_id' = [pkt_set_id EXCEPT ![c] = k]
        /\ pc'[c] = "handler" /\ pkt_set_id'[c] = k
    BY <1>2, <1>6 DEF LookupMiss, Move
  <2>2. Absent(map, Allotted, c, k)
    <3>. SUFFICES ASSUME NEW e \in Entries, EntryOwner(Allotted)[e] = c, map.id[e] = k PROVE FALSE
      BY DEF Absent
    <3>1. SoundMap(map, EntryOwner(Allotted))
      BY DEF MapInv
    <3>2. MapGet(map, map.id[e], EntryOwner(Allotted)[e]) = e
      BY <3>1, GetFinds
    <3>. QED
      BY <3>2, <1>6, EntryFacts DEF LookupMiss
  <2>3. Pending(c)'
    BY <2>1, <2>2, <1>1 DEF Pending
  <2>. QED
    BY <2>1, <2>3, <1>1, MapInvKept
<1>7. CASE AddPktSetLog(c)
  BY <1>1, <1>2, <1>3, <1>7 DEF AddPktSetLog, Pending, Move
<1>8. CASE HandlerSkips(c)
  <2>1. ~log_add[c]
    BY <1>8 DEF HandlerSkips, IInv, CoreOK
  <2>. QED
    BY <2>1, <1>1, <1>2, <1>3, <1>8 DEF HandlerSkips, Pending, Move, managerVars
<1>9. CASE HandlerAborts(c)
  BY <1>1, <1>2, <1>3, <1>9 DEF HandlerAborts, Pending, Move
<1>10. CASE CommitBegin(c)
  BY <1>1, <1>2, <1>3, <1>10 DEF CommitBegin, Pending, Move, managerVars
<1>11. CASE CommitNothing(c)
  <2>1. /\ map' = map /\ pkt_set_state' = pkt_set_state /\ pkt_set_id' = [pkt_set_id EXCEPT ![c] = NoKey]
        /\ pc'[c] = "serve"
    BY <1>2, <1>11 DEF CommitNothing, Move
  <2>. QED
    BY <2>1, <1>1, <1>4, MapInvKept
<1>12. CASE CommitAllocates(c)
  BY <1>1, <1>2, <1>3, <1>12 DEF CommitAllocates, Pending, managerVars
<1>. QED
  BY <1>5, <1>6, <1>7, <1>8, <1>9, <1>10, <1>11, <1>12 DEF StepOf, UseNoSet

(* Expiring a set. *)
LEMMA ExpireMapInv ==
  ASSUME IInv, DInvariant, DInvariant', Expiring, MapInv, NEW c \in Cores, ExpireCommit(c)
  PROVE  MapInv'
<1>1. PICK i : i = Oldest(c)
  OBVIOUS
<1>2. i \in Indexes /\ Allotted[i] = c /\ Allotted' = [Allotted EXCEPT ![i] = -1]
  BY <1>1, AllottedExpire
<1>3. Allotted \in [Indexes -> Cores \cup {-1}] /\ SoundMap(map, EntryOwner(Allotted)) /\ map' = EraseSet(map, c, i)
  BY <1>1, AllottedFacts DEF MapInv, ExpireCommit
<1>4. SoundMap(map', EntryOwner(Allotted')) /\ map'.id = map.id
  BY <1>2, <1>3, EraseSetSound
<1>5. /\ pkt_set_state \in [Indexes -> Keys \cup {NoKey}] /\ pkt_set_id \in [Cores -> Keys \cup {NoKey}]
      /\ UNCHANGED <<pkt_set_state, pkt_set_id, log_add>>
  BY DEF MapInv, ExpireCommit
<1>6. Allotted' \in [Indexes -> Cores \cup {-1}] /\ \A j \in Indexes : Allotted'[j] = IF j = i THEN -1 ELSE Allotted[j]
  BY <1>2, <1>3
<1>7. Paired(map', Allotted', pkt_set_state')
  BY <1>4, <1>5, <1>6, Geometry DEF MapInv, Paired
<1>8. pc'[c] = "expire" /\ \A d \in Cores \ {c} : pc'[d] = pc[d]
  BY DEF ExpireCommit, Move, IInv, Typing
<1>9. \A e \in Entries, d \in Cores : EntryOwner(Allotted')[e] = d => EntryOwner(Allotted)[e] = d
  <2>1. \A d \in Cores : \A j \in Indexes : Allotted'[j] = d => Allotted[j] = d
    BY <1>6, Geometry
  <2>. QED
    BY <2>1, <1>3, <1>6, EntryOwnerWithin
<1>10. ASSUME NEW d \in Cores PROVE Pending(d)'
  <2>1. CASE d = c
    BY <2>1, <1>8 DEF Pending
  <2>2. CASE d # c
    BY <2>2, <1>4, <1>5, <1>8, <1>9, OthersPending
  <2>. QED
    BY <2>1, <2>2
<1>. QED
  BY <1>4, <1>5, <1>7, <1>10 DEF MapInv

(* Registering one. *)
LEMMA PutMapInv ==
  ASSUME IInv, DInvariant, DInvariant', MapInv, NEW c \in Cores, CommitPut(c)
  PROVE  MapInv'
<1>1. PICK i : i = cell[c] - INDEX_SHIFT
  OBVIOUS
<1>2. i \in Indexes /\ Allotted[i] = -1 /\ Allotted' = [Allotted EXCEPT ![i] = c]
  BY <1>1, AllottedPut
<1>3. PICK k : k = pkt_set_id[c]
  OBVIOUS
<1>4. k \in Primary /\ k \in Keys /\ Absent(map, Allotted, c, k)
  BY <1>3, RelatedFacts DEF MapInv, Pending, CommitPut
<1>5. /\ Allotted \in [Indexes -> Cores \cup {-1}] /\ SoundMap(map, EntryOwner(Allotted))
      /\ Paired(map, Allotted, pkt_set_state) /\ map' = PutSet(map, c, k, i)
      /\ pkt_set_state' = [pkt_set_state EXCEPT ![i] = k] /\ pkt_set_id' = [pkt_set_id EXCEPT ![c] = NoKey]
      /\ log_add' = log_add
  BY <1>1, <1>3, AllottedFacts DEF MapInv, CommitPut
<1>6. /\ SoundMap(map', EntryOwner(Allotted'))
      /\ \A f \in Entries : map'.id[f] = IF f = i THEN k
                                         ELSE IF HasRelatedPktSets /\ f = i + Size THEN Related[k] ELSE map.id[f]
  <2>1. SetPut(map, Allotted, map', c, k, i)
    BY <1>2, <1>4, <1>5, PutSetSound
  <2>. QED
    BY <2>1, <1>2 DEF SetPut
<1>7. /\ pkt_set_state \in [Indexes -> Keys \cup {NoKey}] /\ pkt_set_id \in [Cores -> Keys \cup {NoKey}]
      /\ pkt_set_state' \in [Indexes -> Keys \cup {NoKey}] /\ pkt_set_id' \in [Cores -> Keys \cup {NoKey}]
  BY <1>2, <1>4, <1>5 DEF MapInv
<1>8. Allotted' \in [Indexes -> Cores \cup {-1}] /\ \A j \in Indexes : Allotted'[j] = IF j = i THEN c ELSE Allotted[j]
  BY <1>2, <1>5
<1>9. Paired(map', Allotted', pkt_set_state')
  <2>. SUFFICES ASSUME NEW j \in Indexes, Allotted'[j] \in Cores
       PROVE  /\ map'.id[j] \in Primary /\ pkt_set_state'[j] = map'.id[j]
              /\ HasRelatedPktSets => map'.id[j + Size] = Related[map'.id[j]]
    BY DEF Paired
  <2>1. j \in Entries /\ j + Size \in Entries /\ j + Size # i /\ i + Size # j /\ (j + Size = i + Size <=> j = i)
    BY <1>2, SizeAssumption DEF Entries, NumEntries, Indexes
  <2>2. /\ map'.id[j] = IF j = i THEN k ELSE map.id[j]
        /\ HasRelatedPktSets => map'.id[j + Size] = IF j = i THEN Related[k] ELSE map.id[j + Size]
    BY <2>1, <1>6
  <2>3. pkt_set_state'[j] = IF j = i THEN k ELSE pkt_set_state[j]
    BY <1>5, <1>7
  <2>4. CASE j = i
    BY <2>2, <2>3, <2>4, <1>4
  <2>5. CASE j # i
    BY <2>2, <2>3, <2>5, <1>5, <1>8 DEF Paired
  <2>. QED
    BY <2>4, <2>5
<1>10. pc'[c] = "serve" /\ \A d \in Cores \ {c} : pc'[d] = pc[d]
  BY DEF CommitPut, Move, IInv, Typing
<1>11. ASSUME NEW d \in Cores PROVE Pending(d)'
  <2>1. CASE d = c
    BY <2>1, <1>10 DEF Pending
  <2>2. CASE d # c
    <3>1. pkt_set_id'[d] = pkt_set_id[d] /\ log_add'[d] = log_add[d] /\ pc'[d] = pc[d]
      BY <2>2, <1>5, <1>7, <1>10
    <3>2. \A e \in Entries : EntryOwner(Allotted')[e] = d => EntryOwner(Allotted)[e] = d
      <4>1. \A j \in Indexes : Allotted'[j] = d => Allotted[j] = d
        BY <2>2, <1>8
      <4>. QED
        BY <4>1, <1>5, <1>8, EntryOwnerWithin
    <3>3. ASSUME NEW e \in Entries, EntryOwner(Allotted')[e] = d PROVE map'.id[e] = map.id[e]
      <4>1. EntryOwner(Allotted')[i] = c /\ (HasRelatedPktSets => EntryOwner(Allotted')[i + Size] = c)
        BY <1>2, <1>8, EntryOwnerFacts
      <4>2. e # i /\ (HasRelatedPktSets => e # i + Size)
        BY <4>1, <3>3, <2>2
      <4>. QED
        BY <4>2, <1>6
    <3>. QED
      BY <2>2, <3>1, <3>2, <3>3, OthersPending
  <2>. QED
    BY <2>1, <2>2
<1>. QED
  BY <1>6, <1>7, <1>9, <1>11 DEF MapInv

(* Every step keeps the map sound. *)
LEMMA MapInvNext ==
  ASSUME IInv, DInvariant, DInvariant', Expiring, MapInv, [Next]_vars
  PROVE  MapInv'
<1>1. CASE UNCHANGED vars
  <2>1. Allotted' = Allotted
    BY <1>1 DEF vars, dchainVars, lists, Allotted, Belongs
  <2>. QED
    BY <1>1, <2>1 DEF vars, managerVars, MapInv, Pending
<1>2. ASSUME NEW c \in Cores, StepOf(c) PROVE MapInv'
  BY <1>2, QuietMapInv, ExpireMapInv, PutMapInv
<1>. QED
  BY <1>1, <1>2 DEF Next, StepOf

(* In every reachable state the chains of the map hold exactly the entries *)
(* of allocated indexes, in the buckets of their ids.                      *)
THEOREM MapInvHolds == Spec => [](DInvariant /\ IInv /\ Expiring /\ MapInv)
<1>1. IInv /\ DInvariant /\ DInvariant' /\ Expiring /\ MapInv /\ [Next]_vars => MapInv'
  BY MapInvNext
<1>. QED
  BY <1>1, MapInvInit, ManagerUsesAllocator, PTL DEF Spec
-----------------------------------------------------------------------------
(* What MapMatchesAllocList speaks of. *)
BucketsOf(c) == c * NumBuckets..(c + 1) * NumBuckets - 1
OnBucket(m, b) == LET s == Chain(m, b) IN {s[n] : n \in DOMAIN s}
ChainedOf(m, c) == UNION {OnBucket(m, b) : b \in BucketsOf(c)}
PlacesOn(m, c) == {p \in BucketsOf(c) \X (1..NumEntries + 1) : p[2] <= Len(Chain(m, p[1]))}
AllocatedOf(c) == {x - INDEX_SHIFT : x \in CellsOf(ALLOC(c))}
SharedOf(c) == IF HasRelatedPktSets THEN {i + Size : i \in AllocatedOf(c)} ELSE {}

(* The partitions share no bucket. *)
LEMMA BucketPartition ==
  ASSUME NEW c \in Cores
  PROVE  BucketsOf(c) \subseteq AllBuckets /\ \A d \in Cores : d # c => BucketsOf(c) \cap BucketsOf(d) = {}
<1>1. NumBuckets \in Nat \ {0} /\ NumCores \in Nat \ {0} /\ c \in Nat /\ c + 1 <= NumCores
  BY MapAssumption, SizeAssumption DEF Cores
<1>2. c * NumBuckets \in Nat /\ (c + 1) * NumBuckets \in Nat /\ (c + 1) * NumBuckets = c * NumBuckets + NumBuckets
  BY <1>1
<1>3. (c + 1) * NumBuckets <= NumCores * NumBuckets /\ NumCores * NumBuckets = NumBuckets * NumCores
      /\ NumBuckets * NumCores \in Nat
  BY <1>1
<1>4. BucketsOf(c) \subseteq AllBuckets
  BY <1>2, <1>3 DEF BucketsOf, AllBuckets
<1>5. ASSUME NEW d \in Cores, d # c, NEW b \in BucketsOf(c), b \in BucketsOf(d) PROVE FALSE
  <2>1. d \in Nat /\ d * NumBuckets \in Nat /\ (d + 1) * NumBuckets \in Nat
    BY <1>1 DEF Cores
  <2>2. /\ b \in Int /\ b >= c * NumBuckets /\ b < (c + 1) * NumBuckets
        /\ b >= d * NumBuckets /\ b < (d + 1) * NumBuckets
    BY <1>2, <1>5, <2>1 DEF BucketsOf
  <2>3. CASE d < c
    <3>1. (d + 1) * NumBuckets <= c * NumBuckets
      BY <2>1, <2>3, <1>1
    <3>. QED
      BY <2>1, <2>2, <3>1, <1>2
  <2>4. CASE c < d
    <3>1. (c + 1) * NumBuckets <= d * NumBuckets
      BY <2>1, <2>4, <1>1
    <3>. QED
      BY <2>1, <2>2, <3>1, <1>2
  <2>. QED
    BY <1>1, <1>5, <2>1, <2>3, <2>4
<1>. QED
  BY <1>4, <1>5

(* In a sound map the chains of a partition are its core's entries, each   *)
(* in one place.                                                           *)
LEMMA PartitionChains ==
  ASSUME NEW m, NEW own \in [Entries -> Int], SoundMap(m, own), NEW c \in Cores
  PROVE  /\ ChainedOf(m, c) = {e \in Entries : own[e] = c}
         /\ Cardinality(PlacesOn(m, c)) = Cardinality(ChainedOf(m, c))
<1>1. PICK ch : SoundWith(m, ch, own)
  BY DEF SoundMap
<1>2. BucketsOf(c) \subseteq AllBuckets
  BY BucketPartition
<1>3. ASSUME NEW b \in AllBuckets
      PROVE  Chain(m, b) = ch[b] /\ ch[b] \in Seq(Entries) /\ Len(ch[b]) \in Nat /\ Len(ch[b]) <= NumEntries
  BY <1>1, ChainIs DEF SoundWith, IsChain
<1>4. ASSUME NEW b \in BucketsOf(c), NEW n \in 1..Len(ch[b]) PROVE ch[b][n] \in Entries /\ own[ch[b][n]] = c
  <2>1. b \in AllBuckets /\ ch[b][n] \in Entries
    BY <1>2, <1>3
  <2>2. PICK e \in Entries : e = ch[b][n]
    BY <2>1
  <2>3. own[e] \in Cores /\ m.id[e] \in Keys /\ b = BucketId(m.id[e], own[e])
    BY <2>1, <2>2, <1>1 DEF SoundWith, AtHome, InBucket
  <2>4. b \in BucketsOf(own[e])
    BY <2>3, BucketFacts DEF BucketsOf
  <2>5. own[e] = c
    BY <2>3, <2>4, BucketPartition
  <2>. QED
    BY <2>1, <2>2, <2>5
<1>5. ASSUME NEW e \in Entries, own[e] = c PROVE \E b \in BucketsOf(c) : \E n \in 1..Len(ch[b]) : ch[b][n] = e
  <2>1. PICK b : b = BucketId(m.id[e], own[e])
    OBVIOUS
  <2>2. m.id[e] \in Keys /\ b \in AllBuckets /\ \E n \in 1..Len(ch[b]) : ch[b][n] = e
    BY <2>1, <1>1, <1>5, FindEntry
  <2>3. b \in BucketsOf(c)
    BY <2>1, <2>2, <1>5, BucketFacts DEF BucketsOf
  <2>. QED
    BY <2>2, <2>3
<1>6. ASSUME NEW b \in BucketsOf(c) PROVE OnBucket(m, b) = {ch[b][n] : n \in 1..Len(ch[b])}
  <2>1. Chain(m, b) = ch[b] /\ DOMAIN ch[b] = 1..Len(ch[b])
    BY <1>2, <1>3
  <2>. QED
    BY <2>1 DEF OnBucket
<1>7. ChainedOf(m, c) = {e \in Entries : own[e] = c}
  <2>1. ASSUME NEW e \in ChainedOf(m, c) PROVE e \in Entries /\ own[e] = c
    <3>1. PICK b \in BucketsOf(c) : e \in OnBucket(m, b)
      BY <2>1 DEF ChainedOf
    <3>. QED
      BY <3>1, <1>4, <1>6
  <2>2. ASSUME NEW e \in Entries, own[e] = c PROVE e \in ChainedOf(m, c)
    <3>1. PICK b \in BucketsOf(c) : \E n \in 1..Len(ch[b]) : ch[b][n] = e
      BY <2>2, <1>5
    <3>2. e \in OnBucket(m, b)
      BY <3>1, <1>6
    <3>. QED
      BY <3>1, <3>2 DEF ChainedOf
  <2>. QED
    BY <2>1, <2>2
<1>8. Cardinality(PlacesOn(m, c)) = Cardinality(ChainedOf(m, c))
  <2>. DEFINE P == PlacesOn(m, c)
              C == ChainedOf(m, c)
              f == [p \in P |-> ch[p[1]][p[2]]]
  <2>1. ASSUME NEW p \in P PROVE p = <<p[1], p[2]>> /\ p[1] \in BucketsOf(c) /\ p[2] \in 1..Len(ch[p[1]])
    <3>1. p = <<p[1], p[2]>> /\ p[1] \in BucketsOf(c) /\ p[2] \in 1..NumEntries + 1 /\ p[2] <= Len(Chain(m, p[1]))
      BY DEF PlacesOn
    <3>2. Chain(m, p[1]) = ch[p[1]] /\ Len(ch[p[1]]) \in Nat
      BY <3>1, <1>2, <1>3
    <3>. QED
      BY <3>1, <3>2
  <2>2. ASSUME NEW b \in BucketsOf(c), NEW n \in 1..Len(ch[b]) PROVE <<b, n>> \in P
    <3>1. Chain(m, b) = ch[b] /\ Len(ch[b]) \in Nat /\ Len(ch[b]) <= NumEntries
      BY <1>2, <1>3
    <3>2. n \in 1..NumEntries + 1 /\ n <= Len(Chain(m, b))
      BY <3>1, EntryFacts
    <3>. QED
      BY <3>2 DEF PlacesOn
  <2>3. IsFiniteSet(C)
    <3>1. C \subseteq Entries
      BY <1>7
    <3>. QED
      BY <3>1, EntryFacts, FS_Subset
  <2>. HIDE DEF P
  <2>4. f \in [P -> C]
    <3>1. ASSUME NEW p \in P PROVE ch[p[1]][p[2]] \in C
      BY <2>1, <1>4, <1>7
    <3>. HIDE DEF C
    <3>. QED
      BY <3>1
  <2>. HIDE DEF C
  <2>5. ASSUME NEW p \in P, NEW q \in P, f[p] = f[q] PROVE p = q
    <3>1. ch[p[1]][p[2]] = ch[q[1]][q[2]]
      BY <2>5
    <3>2. p[1] = q[1] /\ p[2] = q[2]
      BY <3>1, <2>1, <1>1, <1>2 DEF SoundWith, Disjoint
    <3>. QED
      BY <3>2, <2>1
  <2>6. ASSUME NEW e \in C PROVE \E p \in P : f[p] = e
    <3>1. e \in Entries /\ own[e] = c
      BY <1>7 DEF C
    <3>2. PICK b \in BucketsOf(c) : \E n \in 1..Len(ch[b]) : ch[b][n] = e
      BY <3>1, <1>5
    <3>3. PICK n \in 1..Len(ch[b]) : ch[b][n] = e
      BY <3>2
    <3>4. <<b, n>> \in P
      BY <2>2
    <3>5. f[<<b, n>>] = e
      BY <3>3, <3>4
    <3>. QED
      BY <3>4, <3>5
  <2>. HIDE DEF f
  <2>7. f \in Injection(P, C) /\ f \in Surjection(P, C)
    BY <2>4, <2>5, <2>6 DEF Injection, Surjection, IsInjective
  <2>8. Cardinality(P) = Cardinality(C)
    BY <2>3, <2>7, FS_Injection
  <2>. QED
    BY <2>8 DEF P, C
<1>. QED
  BY <1>7, <1>8

(* The entries of a core are its allocated indexes and the related ones. *)
LEMMA CoreEntries ==
  ASSUME DInvariant, NEW c \in Cores
  PROVE  {e \in Entries : EntryOwner(Allotted)[e] = c} = AllocatedOf(c) \cup SharedOf(c)
<1>1. /\ Allotted \in [Indexes -> Cores \cup {-1}]
      /\ \A i \in Indexes : Allotted[i] = c <=> i + INDEX_SHIFT \in CellsOf(ALLOC(c))
  BY AllottedFacts
<1>2. AllocatedOf(c) = {i \in Indexes : Allotted[i] = c}
  <2>1. PICK on, rank : InPlaces(on, rank)
    BY DEF DInvariant, DIInv
  <2>2. CellsOf(ALLOC(c)) \subseteq IndexCells
    BY <2>1, AllocListFacts DEF Members
  <2>3. ASSUME NEW x \in CellsOf(ALLOC(c)) PROVE x - INDEX_SHIFT \in Indexes /\ Allotted[x - INDEX_SHIFT] = c
    <3>1. x - INDEX_SHIFT \in Indexes /\ (x - INDEX_SHIFT) + INDEX_SHIFT = x
      BY <2>2, CellFacts, HeadsApart
    <3>. QED
      BY <3>1, <1>1
  <2>4. ASSUME NEW i \in Indexes, Allotted[i] = c PROVE \E x \in CellsOf(ALLOC(c)) : i = x - INDEX_SHIFT
    <3>1. i + INDEX_SHIFT \in CellsOf(ALLOC(c))
      BY <1>1, <2>4
    <3>2. i = (i + INDEX_SHIFT) - INDEX_SHIFT
      BY SizeAssumption DEF Indexes, INDEX_SHIFT, GLOBAL
    <3>. QED
      BY <3>1, <3>2
  <2>. QED
    BY <2>3, <2>4 DEF AllocatedOf
<1>3. ASSUME NEW e \in Entries, EntryOwner(Allotted)[e] = c PROVE e \in AllocatedOf(c) \cup SharedOf(c)
  <2>1. CASE e < Size
    BY <2>1, <1>1, <1>2, <1>3, EntryOwnerFacts
  <2>2. CASE ~(e < Size)
    <3>1. PICK j \in Indexes : e = j + Size
      BY <2>2, <1>1, EntryOwnerFacts
    <3>2. HasRelatedPktSets /\ Allotted[j] = c
      BY <3>1, <1>1, <1>3, EntryOwnerFacts, Geometry
    <3>. QED
      BY <3>1, <3>2, <1>2 DEF SharedOf
  <2>. QED
    BY <2>1, <2>2
<1>4. ASSUME NEW e \in AllocatedOf(c) \cup SharedOf(c) PROVE e \in Entries /\ EntryOwner(Allotted)[e] = c
  <2>1. CASE e \in AllocatedOf(c)
    BY <2>1, <1>1, <1>2, EntryOwnerFacts
  <2>2. CASE e \in SharedOf(c)
    <3>1. HasRelatedPktSets
      BY <2>2 DEF SharedOf
    <3>2. PICK i \in Indexes : Allotted[i] = c /\ e = i + Size
      BY <2>2, <3>1, <1>2 DEF SharedOf
    <3>. QED
      BY <3>1, <3>2, <1>1, EntryOwnerFacts
  <2>. QED
    BY <1>4, <2>1, <2>2
<1>. QED
  BY <1>3, <1>4

(* The map and the allocator agree. *)
LEMMA MatchesFromInv == DInvariant /\ MapInv => MapMatchesAllocList
<1>. SUFFICES ASSUME DInvariant, MapInv PROVE MapMatchesAllocList
  OBVIOUS
<1>1. PICK own : own = EntryOwner(Allotted)
  OBVIOUS
<1>2. own \in [Entries -> Int] /\ SoundMap(map, own)
  BY <1>1, AllottedFacts, EntryOwnerFacts DEF MapInv
<1>3. ASSUME NEW c \in Cores
      PROVE  /\ ChainedOf(map, c) = AllocatedOf(c) \cup SharedOf(c)
             /\ Cardinality(PlacesOn(map, c)) = Cardinality(ChainedOf(map, c))
             /\ \A e \in ChainedOf(map, c) : MapGet(map, map.id[e], c) = e
  <2>1. ChainedOf(map, c) = {e \in Entries : own[e] = c} /\ Cardinality(PlacesOn(map, c)) = Cardinality(ChainedOf(map, c))
    BY <1>2, PartitionChains
  <2>2. {e \in Entries : own[e] = c} = AllocatedOf(c) \cup SharedOf(c)
    BY <1>1, CoreEntries
  <2>3. ASSUME NEW e \in Entries, own[e] = c PROVE MapGet(map, map.id[e], c) = e
    BY <2>3, <1>2, GetFinds
  <2>. QED
    BY <2>1, <2>2, <2>3
<1>4. ASSUME NEW e \in Entries \ UNION {ChainedOf(map, c) : c \in Cores} PROVE map.map_chain_next[e] = NoEntry
  <2>1. own[e] \notin Cores
    <3>. SUFFICES ASSUME NEW c \in Cores, own[e] = c PROVE FALSE
      OBVIOUS
    <3>1. e \in ChainedOf(map, c)
      BY <1>2, PartitionChains
    <3>. QED
      BY <3>1
  <2>. QED
    BY <2>1, <1>2 DEF SoundMap, SoundWith, NoLinkLeft
<1>. QED
  BY <1>3, <1>4 DEF MapMatchesAllocList, ChainedOf, OnBucket, BucketsOf, PlacesOn, SharedOf, AllocatedOf

(* The property MapMatchesAllocList: what the map finds for an id and what *)
(* the alloc lists hold agree, for every core, although map and lists      *)
(* share cells and related sets put two entries over one index.            *)
THEOREM MapAndAllocListsAgree == Spec => []MapMatchesAllocList
  BY MapInvHolds, MatchesFromInv, PTL
-----------------------------------------------------------------------------
(* The table of registered sets, as the lookups find it and as the indexes *)
(* hold it.                                                                *)
FoundTable ==
  {<<p[1], p[2], pkt_set_state[IndexOf(MapGet(map, p[2], p[1]))]>> :
     p \in {q \in Cores \X Keys : MapGet(map, q[2], q[1]) # NoEntry}}

Holds(al, ids, c, j, k, i) == i \in Indexes /\ al[i] = c /\ ids[i] = k /\ j \in Table!Sharing(k)

Registered(al, ids) == {t \in Cores \X Keys \X Keys : \E i \in Indexes : Holds(al, ids, t[1], t[2], t[3], i)}

(* The ids of a set and its related one. *)
LEMMA SharingFacts ==
  ASSUME NEW k \in Primary
  PROVE  Table!Sharing(k) = IF HasRelatedPktSets THEN {k, Related[k]} ELSE {k}
<1>1. (HasRelatedPktSets => Related[k] # NoKey) /\ (~HasRelatedPktSets => Related[k] = NoKey)
  BY RelatedFacts, MapAssumption
<1>. QED
  BY <1>1 DEF Table!Sharing

(* An entry of a core is that of an index, under an id of its set. *)
OneToOne(m, al, st, c) ==
  /\ \A e \in Entries : EntryOwner(al)[e] = c => Holds(al, m.id, c, m.id[e], m.id[IndexOf(e)], IndexOf(e))
  /\ \A i, j, k : Holds(al, m.id, c, j, k, i) =>
       /\ k \in Primary /\ j \in Keys /\ st[i] = k
       /\ \E e \in Entries : EntryOwner(al)[e] = c /\ m.id[e] = j /\ IndexOf(e) = i

(* In a map whose entries are paired with the allotted indexes, the        *)
(* entries of a core are its sets and their related sets, one to one.      *)
LEMMA EntryOfIndex ==
  ASSUME NEW m, NEW st, NEW al \in [Indexes -> Cores \cup {-1}], Paired(m, al, st), NEW c \in Cores
  PROVE  OneToOne(m, al, st, c)
<1>1. ASSUME NEW e \in Entries, EntryOwner(al)[e] = c
      PROVE  Holds(al, m.id, c, m.id[e], m.id[IndexOf(e)], IndexOf(e))
  <2>0. e \in Int /\ Size \in Int
    BY EntryFacts, SizeAssumption
  <2>1. CASE e < Size
    <3>1. IndexOf(e) = e /\ e \in Indexes /\ al[e] = c
      BY <2>0, <2>1, <1>1, EntryOwnerFacts DEF IndexOf
    <3>2. m.id[e] \in Primary
      BY <3>1 DEF Paired
    <3>. QED
      BY <3>1, <3>2 DEF Holds, Table!Sharing
  <2>2. CASE ~(e < Size)
    <3>1. PICK i \in Indexes : e = i + Size /\ IndexOf(e) = i
      BY <2>0, <2>2, EntryOwnerFacts DEF IndexOf
    <3>2. HasRelatedPktSets /\ al[i] = c
      BY <3>1, <1>1, EntryOwnerFacts, Geometry
    <3>3. m.id[i] \in Primary /\ m.id[e] = Related[m.id[i]]
      BY <3>1, <3>2 DEF Paired
    <3>4. m.id[e] \in Table!Sharing(m.id[i])
      BY <3>2, <3>3, SharingFacts
    <3>. QED
      BY <3>1, <3>2, <3>4 DEF Holds
  <2>. QED
    BY <2>1, <2>2
<1>2. ASSUME NEW i, NEW j, NEW k, Holds(al, m.id, c, j, k, i)
      PROVE  /\ k \in Primary /\ j \in Keys /\ st[i] = k
             /\ \E e \in Entries : EntryOwner(al)[e] = c /\ m.id[e] = j /\ IndexOf(e) = i
  <2>1. i \in Indexes /\ al[i] = c /\ m.id[i] = k /\ j \in Table!Sharing(k)
    BY <1>2 DEF Holds
  <2>2. k \in Primary /\ st[i] = k /\ (HasRelatedPktSets => m.id[i + Size] = Related[k])
    BY <2>1 DEF Paired
  <2>3. /\ i \in Entries /\ i + Size \in Entries /\ EntryOwner(al)[i] = c
        /\ (HasRelatedPktSets => EntryOwner(al)[i + Size] = c)
    BY <2>1, EntryOwnerFacts
  <2>4. IndexOf(i) = i /\ IndexOf(i + Size) = i
    BY <2>1, SizeAssumption DEF IndexOf, Indexes
  <2>5. CASE j = k
    BY <2>1, <2>2, <2>3, <2>4, <2>5, RelatedFacts
  <2>6. CASE j # k
    <3>1. HasRelatedPktSets /\ j = Related[k]
      BY <2>1, <2>2, <2>6, SharingFacts
    <3>. QED
      BY <2>1, <2>2, <2>3, <2>4, <3>1, RelatedFacts
  <2>. QED
    BY <2>5, <2>6
<1>. QED
  BY <1>1, <1>2 DEF OneToOne

(* The lookups find what the indexes hold. *)
LEMMA FoundIsRegistered == DInvariant /\ MapInv => FoundTable = Registered(Allotted, map.id)
<1>. SUFFICES ASSUME DInvariant, MapInv PROVE FoundTable = Registered(Allotted, map.id)
  OBVIOUS
<1>1. PICK own : own = EntryOwner(Allotted)
  OBVIOUS
<1>2. own \in [Entries -> Int] /\ SoundMap(map, own) /\ Allotted \in [Indexes -> Cores \cup {-1}]
      /\ Paired(map, Allotted, pkt_set_state)
  BY <1>1, AllottedFacts, EntryOwnerFacts DEF MapInv
<1>a. \A c \in Cores : OneToOne(map, Allotted, pkt_set_state, c)
  BY <1>2, EntryOfIndex
<1>3. ASSUME NEW c \in Cores, NEW k \in Keys, MapGet(map, k, c) # NoEntry
      PROVE  <<c, k, pkt_set_state[IndexOf(MapGet(map, k, c))]>> \in Registered(Allotted, map.id)
  <2>1. PICK e \in Entries : own[e] = c /\ map.id[e] = k
    BY <1>2, <1>3, GetMisses
  <2>2. MapGet(map, k, c) = e
    BY <2>1, <1>2, GetFinds
  <2>3. PICK i : i = IndexOf(e)
    OBVIOUS
  <2>4. Holds(Allotted, map.id, c, k, map.id[i], i)
    BY <2>1, <2>3, <1>1, <1>a DEF OneToOne
  <2>5. i \in Indexes /\ map.id[i] \in Primary /\ pkt_set_state[i] = map.id[i]
    BY <2>4, <1>a DEF OneToOne, Holds
  <2>6. <<c, k, map.id[i]>> \in Cores \X Keys \X Keys
    BY <2>5, RelatedFacts
  <2>. QED
    BY <2>2, <2>3, <2>4, <2>5, <2>6 DEF Registered
<1>4. ASSUME NEW t \in Registered(Allotted, map.id) PROVE t \in FoundTable
  <2>1. PICK c \in Cores, k \in Keys, s \in Keys : t = <<c, k, s>>
    BY DEF Registered
  <2>2. PICK i \in Indexes : Holds(Allotted, map.id, c, k, s, i)
    BY <2>1 DEF Registered
  <2>3. PICK e \in Entries : own[e] = c /\ map.id[e] = k /\ IndexOf(e) = i
    BY <2>2, <1>1, <1>a DEF OneToOne
  <2>4. pkt_set_state[i] = s
    BY <2>2, <1>a DEF OneToOne
  <2>5. MapGet(map, k, c) = e /\ e # NoEntry
    BY <2>3, <1>2, GetFinds, EntryFacts
  <2>6. <<c, k>> \in {q \in Cores \X Keys : MapGet(map, q[2], q[1]) # NoEntry}
    BY <2>5
  <2>. QED
    BY <2>1, <2>3, <2>4, <2>5, <2>6 DEF FoundTable
<1>5. ASSUME NEW t \in FoundTable PROVE t \in Registered(Allotted, map.id)
  <2>1. PICK c \in Cores, k \in Keys : MapGet(map, k, c) # NoEntry
                                       /\ t = <<c, k, pkt_set_state[IndexOf(MapGet(map, k, c))]>>
    BY DEF FoundTable
  <2>. QED
    BY <2>1, <1>3
<1>. QED
  BY <1>4, <1>5

(* What the table holds, element by element. *)
LEMMA RegisteredFacts ==
  ASSUME NEW al, NEW ids
  PROVE  /\ \A c \in Cores, j \in Keys, k \in Keys, i \in Indexes :
              Holds(al, ids, c, j, k, i) => <<c, j, k>> \in Registered(al, ids)
         /\ \A t \in Registered(al, ids) :
              /\ t = <<t[1], t[2], t[3]>> /\ t[1] \in Cores /\ t[2] \in Keys /\ t[3] \in Keys
              /\ \E i \in Indexes : Holds(al, ids, t[1], t[2], t[3], i)
<1>1. ASSUME NEW c \in Cores, NEW j \in Keys, NEW k \in Keys, NEW i \in Indexes, Holds(al, ids, c, j, k, i)
      PROVE  <<c, j, k>> \in Registered(al, ids)
  BY <1>1 DEF Registered
<1>2. ASSUME NEW t \in Registered(al, ids)
      PROVE  /\ t = <<t[1], t[2], t[3]>> /\ t[1] \in Cores /\ t[2] \in Keys /\ t[3] \in Keys
             /\ \E i \in Indexes : Holds(al, ids, t[1], t[2], t[3], i)
  BY DEF Registered
<1>. QED
  BY <1>1, <1>2

(* Registering a set at a free index. *)
LEMMA TableRegisters ==
  ASSUME NEW m, NEW st, NEW al \in [Indexes -> Cores \cup {-1}], Paired(m, al, st),
         NEW c \in Cores, NEW k \in Primary, Absent(m, al, c, k), NEW i \in Indexes, al[i] = -1,
         NEW ids2, \A j \in Indexes : ids2[j] = IF j = i THEN k ELSE m.id[j]
  PROVE  Table!Register(Registered(al, m.id), Registered([al EXCEPT ![i] = c], ids2), c, k)
<1>1. PICK before : before = Registered(al, m.id)
  OBVIOUS
<1>2. PICK al2 : al2 = [al EXCEPT ![i] = c]
  OBVIOUS
<1>3. PICK after : after = Registered(al2, ids2)
  OBVIOUS
<1>4. \A j \in Indexes : al2[j] = IF j = i THEN c ELSE al[j]
  BY <1>2
<1>5. k \in Keys /\ -1 \notin Cores /\ \A j \in Table!Sharing(k) : j \in Keys /\ Absent(m, al, c, j)
  BY SharingFacts, RelatedFacts, RelatedAbsent, Geometry
<1>6. OneToOne(m, al, st, c)
  BY EntryOfIndex
<1>7. ASSUME NEW j \in Table!Sharing(k), NEW t \in before, t[1] = c, t[2] = j PROVE FALSE
  <2>1. PICK i0 \in Indexes : Holds(al, m.id, c, j, t[3], i0)
    BY <1>1, <1>7, RegisteredFacts
  <2>2. PICK e \in Entries : EntryOwner(al)[e] = c /\ m.id[e] = j
    BY <2>1, <1>6 DEF OneToOne
  <2>. QED
    BY <2>2, <1>5 DEF Absent
<1>8. ASSUME NEW t \in after PROVE t \in before \cup {<<c, j, k>> : j \in Table!Sharing(k)}
  <2>1. t = <<t[1], t[2], t[3]>> /\ t[1] \in Cores /\ t[2] \in Keys /\ t[3] \in Keys
    BY <1>3, RegisteredFacts
  <2>2. PICK i0 \in Indexes : Holds(al2, ids2, t[1], t[2], t[3], i0)
    BY <1>3, RegisteredFacts
  <2>3. CASE i0 = i
    BY <2>1, <2>2, <2>3, <1>4 DEF Holds
  <2>4. CASE i0 # i
    <3>1. Holds(al, m.id, t[1], t[2], t[3], i0)
      BY <2>2, <2>4, <1>4 DEF Holds
    <3>2. <<t[1], t[2], t[3]>> \in before
      BY <3>1, <2>1, <1>1, RegisteredFacts
    <3>. QED
      BY <3>2, <2>1
  <2>. QED
    BY <2>3, <2>4
<1>9. ASSUME NEW t \in before PROVE t \in after
  <2>1. t = <<t[1], t[2], t[3]>> /\ t[1] \in Cores /\ t[2] \in Keys /\ t[3] \in Keys
    BY <1>1, RegisteredFacts
  <2>2. PICK i0 \in Indexes : Holds(al, m.id, t[1], t[2], t[3], i0)
    BY <1>1, RegisteredFacts
  <2>3. i0 # i
    BY <2>1, <2>2, <1>5 DEF Holds
  <2>4. Holds(al2, ids2, t[1], t[2], t[3], i0)
    BY <2>2, <2>3, <1>4 DEF Holds
  <2>5. <<t[1], t[2], t[3]>> \in after
    BY <2>1, <2>4, <1>3, RegisteredFacts
  <2>. QED
    BY <2>1, <2>5
<1>10. ASSUME NEW j \in Table!Sharing(k) PROVE <<c, j, k>> \in after
  <2>1. Holds(al2, ids2, c, j, k, i)
    BY <1>4 DEF Holds
  <2>. QED
    BY <2>1, <1>3, <1>5, RegisteredFacts
<1>11. after = before \cup {<<c, j, k>> : j \in Table!Sharing(k)}
  BY <1>8, <1>9, <1>10
<1>12. Table!Register(before, after, c, k)
  BY <1>7, <1>11 DEF Table!Register, Table!Found
<1>. QED
  BY <1>1, <1>2, <1>3, <1>12

(* Expiring the set of an index. *)
LEMMA TableExpires ==
  ASSUME NEW m, NEW st, NEW al \in [Indexes -> Cores \cup {-1}], SoundMap(m, EntryOwner(al)), Paired(m, al, st),
         NEW c \in Cores, NEW i \in Indexes, al[i] = c
  PROVE  m.id[i] \in Keys /\ Table!Expire(Registered(al, m.id), Registered([al EXCEPT ![i] = -1], m.id), c, m.id[i])
<1>1. PICK before : before = Registered(al, m.id)
  OBVIOUS
<1>2. PICK al2 : al2 = [al EXCEPT ![i] = -1]
  OBVIOUS
<1>3. PICK after : after = Registered(al2, m.id)
  OBVIOUS
<1>4. \A j \in Indexes : al2[j] = IF j = i THEN -1 ELSE al[j]
  BY <1>2
<1>5. PICK k \in Keys : k = m.id[i]
  BY RelatedFacts DEF Paired
<1>6. <<c, k, k>> \in before
  <2>1. Holds(al, m.id, c, k, k, i)
    BY <1>5 DEF Holds, Table!Sharing
  <2>. QED
    BY <2>1, <1>1, RegisteredFacts
<1>7. ASSUME NEW j \in Indexes, al[j] = c, m.id[j] = k PROVE j = i
  <2>1. j \in Entries /\ i \in Entries /\ EntryOwner(al)[j] = c /\ EntryOwner(al)[i] = c
    BY <1>7, EntryOwnerFacts
  <2>. QED
    BY <2>1, <1>5, <1>7 DEF SoundMap, SoundWith, OwnIds
<1>8. ASSUME NEW t \in after PROVE t \in before /\ (t[1] # c \/ t[3] # k)
  <2>1. t = <<t[1], t[2], t[3]>> /\ t[1] \in Cores /\ t[2] \in Keys /\ t[3] \in Keys
    BY <1>3, RegisteredFacts
  <2>2. PICK i0 \in Indexes : Holds(al2, m.id, t[1], t[2], t[3], i0)
    BY <1>3, RegisteredFacts
  <2>3. i0 # i
    BY <2>1, <2>2, <1>4, Geometry DEF Holds
  <2>4. Holds(al, m.id, t[1], t[2], t[3], i0)
    BY <2>2, <2>3, <1>4 DEF Holds
  <2>5. <<t[1], t[2], t[3]>> \in before
    BY <2>1, <2>4, <1>1, RegisteredFacts
  <2>6. t[1] # c \/ t[3] # k
    BY <2>3, <2>4, <1>7 DEF Holds
  <2>. QED
    BY <2>1, <2>5, <2>6
<1>9. ASSUME NEW t \in before, t[1] # c \/ t[3] # k PROVE t \in after
  <2>1. t = <<t[1], t[2], t[3]>> /\ t[1] \in Cores /\ t[2] \in Keys /\ t[3] \in Keys
    BY <1>1, RegisteredFacts
  <2>2. PICK i0 \in Indexes : Holds(al, m.id, t[1], t[2], t[3], i0)
    BY <1>1, RegisteredFacts
  <2>3. i0 # i
    BY <2>2, <1>5, <1>9 DEF Holds
  <2>4. Holds(al2, m.id, t[1], t[2], t[3], i0)
    BY <2>2, <2>3, <1>4 DEF Holds
  <2>5. <<t[1], t[2], t[3]>> \in after
    BY <2>1, <2>4, <1>3, RegisteredFacts
  <2>. QED
    BY <2>1, <2>5
<1>10. after = {t \in before : t[1] # c \/ t[3] # k}
  BY <1>8, <1>9
<1>11. Table!Expire(before, after, c, k)
  BY <1>6, <1>10 DEF Table!Expire
<1>. QED
  BY <1>1, <1>2, <1>3, <1>5, <1>11

(* Every step of the manager registers a set, expires one or leaves the    *)
(* table as it is.                                                         *)
LEMMA StepRefinesTable ==
  ASSUME IInv, DInvariant, DInvariant', Expiring, MapInv, [Next]_vars,
         FoundTable = Registered(Allotted, map.id), FoundTable' = Registered(Allotted', map'.id)
  PROVE  FoundTable' = FoundTable
         \/ \E c \in Cores, k \in Keys : Table!Register(FoundTable, FoundTable', c, k)
                                         \/ Table!Expire(FoundTable, FoundTable', c, k)
<1>1. CASE UNCHANGED <<map, pkt_set_state>>
  BY <1>1 DEF FoundTable
<1>2. Allotted \in [Indexes -> Cores \cup {-1}] /\ SoundMap(map, EntryOwner(Allotted))
      /\ Paired(map, Allotted, pkt_set_state)
  BY AllottedFacts DEF MapInv
<1>3. ASSUME NEW c \in Cores, ExpireCommit(c)
      PROVE  \E k \in Keys : Table!Expire(FoundTable, FoundTable', c, k)
  <2>1. PICK i : i = Oldest(c)
    OBVIOUS
  <2>2. i \in Indexes /\ Allotted[i] = c /\ Allotted' = [Allotted EXCEPT ![i] = -1]
    BY <1>3, <2>1, AllottedExpire
  <2>3. map' = EraseSet(map, c, i)
    BY <1>3, <2>1 DEF ExpireCommit
  <2>4. map'.id = map.id
    BY <2>2, <2>3, <1>2, EraseSetSound
  <2>5. map.id[i] \in Keys
        /\ Table!Expire(Registered(Allotted, map.id), Registered([Allotted EXCEPT ![i] = -1], map.id), c, map.id[i])
    BY <2>2, <1>2, TableExpires
  <2>. QED
    BY <2>2, <2>4, <2>5
<1>4. ASSUME NEW c \in Cores, CommitPut(c)
      PROVE  \E k \in Keys : Table!Register(FoundTable, FoundTable', c, k)
  <2>1. PICK i : i = cell[c] - INDEX_SHIFT
    OBVIOUS
  <2>2. i \in Indexes /\ Allotted[i] = -1 /\ Allotted' = [Allotted EXCEPT ![i] = c]
    BY <1>4, <2>1, AllottedPut
  <2>3. PICK k : k = pkt_set_id[c]
    OBVIOUS
  <2>4. k \in Primary /\ k \in Keys /\ Absent(map, Allotted, c, k)
    BY <1>4, <2>3, RelatedFacts DEF MapInv, Pending, CommitPut
  <2>5. map' = PutSet(map, c, k, i)
    BY <1>4, <2>1, <2>3 DEF CommitPut
  <2>6. SetPut(map, Allotted, map', c, k, i)
    BY <2>2, <2>4, <2>5, <1>2, PutSetSound
  <2>7. \A j \in Indexes : map'.id[j] = IF j = i THEN k ELSE map.id[j]
    <3>1. \A j \in Indexes : j \in Entries /\ j # i + Size
      BY <2>2, SizeAssumption DEF Indexes, Entries, NumEntries
    <3>. QED
      BY <3>1, <2>6 DEF SetPut
  <2>8. PICK ids2 : ids2 = map'.id
    OBVIOUS
  <2>9. \A j \in Indexes : ids2[j] = IF j = i THEN k ELSE map.id[j]
    BY <2>7, <2>8
  <2>10. Table!Register(Registered(Allotted, map.id), Registered([Allotted EXCEPT ![i] = c], ids2), c, k)
    BY <2>2, <2>4, <2>9, <1>2, TableRegisters
  <2>. QED
    BY <2>2, <2>4, <2>8, <2>10
<1>5. ASSUME NEW c \in Cores, StepOf(c), ~ExpireCommit(c), ~CommitPut(c) PROVE UNCHANGED <<map, pkt_set_state>>
  BY <1>5 DEF StepOf, UseNoSet, ExpireFind, ExpireReturnIndex, ExpireEnd, LookupMiss, LookupHit, AddPktSetLog,
              HandlerSkips, HandlerAborts, CommitBegin, CommitNothing, CommitAllocates, NextLoop, managerVars
<1>6. CASE UNCHANGED vars
  BY <1>1, <1>6 DEF vars, managerVars
<1>. QED
  BY <1>1, <1>3, <1>4, <1>5, <1>6 DEF Next, StepOf

(* The manager implements the table. *)
THEOREM ImplementsTable == Spec => ImplementsPktSetTable
<1>. DEFINE Inv == IInv /\ DInvariant /\ Expiring /\ MapInv
            Sees == FoundTable = Registered(Allotted, map.id)
<1>1. Spec => []Inv
  BY MapInvHolds, PTL
<1>2. Inv => Sees
  BY FoundIsRegistered
<1>3. Init => Table!Init
  <2>. SUFFICES ASSUME Init PROVE FoundTable = {}
    BY DEF Table!Init, FoundTable
  <2>1. DInvariant /\ MapInv
    BY MapInvInit, DInvariantInit DEF Init
  <2>2. Allotted \in [Indexes -> Cores \cup {-1}] /\ SoundMap(map, EntryOwner(Allotted))
    BY <2>1, AllottedFacts DEF MapInv
  <2>3. \A e \in Entries : map.id[e] = NoKey
    BY DEF Init, EmptyMap
  <2>4. ASSUME NEW c \in Cores, NEW k \in Keys PROVE MapGet(map, k, c) = NoEntry
    <3>1. \A e \in Entries : EntryOwner(Allotted)[e] = c => map.id[e] # k
      BY <2>3, MapAssumption
    <3>. QED
      BY <2>2, <3>1, GetMisses
  <2>. QED
    BY <2>4 DEF FoundTable
<1>4. Inv /\ Inv' /\ Sees /\ Sees' /\ [Next]_vars => [Table!Next]_FoundTable
  <2>. SUFFICES ASSUME Inv, Inv', Sees, Sees', [Next]_vars PROVE [Table!Next]_FoundTable
    OBVIOUS
  <2>1. FoundTable' = FoundTable
        \/ \E c \in Cores, k \in Keys : Table!Register(FoundTable, FoundTable', c, k)
                                        \/ Table!Expire(FoundTable, FoundTable', c, k)
    BY StepRefinesTable
  <2>. QED
    BY <2>1 DEF Table!Next, FoundTable
<1>5. Spec => Init /\ [][Next]_vars
  BY DEF Spec
<1>6. Table!Init /\ [][Table!Next]_FoundTable => Table!Spec
  BY DEF Table!Spec, FoundTable
<1>. HIDE DEF Inv, Sees
<1>. QED
  BY <1>1, <1>2, <1>3, <1>4, <1>5, <1>6, PTL DEF ImplementsPktSetTable
=============================================================================
