----------------------- MODULE ConcurrentDoubleChain ------------------------
(***************************************************************************)
(* The index allocator of the packet-set manager                           *)
(* (src/src/concurrent-double-chain-impl.c and concurrent-double-chain.c): *)
(* per-core doubly linked lists of allocated cells, least recently used    *)
(* first, per-core singly linked free lists and one global free list, all  *)
(* threaded through one array of cells.  Cells are addressed as in the     *)
(* code, list heads first; LIST_HEAD_PADDING, which only keeps heads on    *)
(* cache lines of their own, is 0 here.                                    *)
(*                                                                         *)
(* A core touches only its own allocated list, so everything it does there *)
(* is one step; what it does to a free list, under a lock, is split into   *)
(* the step that reads the list and the step that changes it.  The locks   *)
(* are the MCS locks of McsLock, here by the name of their holder.         *)
(***************************************************************************)
EXTENDS Integers, FiniteSets, Sequences

CONSTANTS
  NumCores,   \* number of data-plane cores, rte_lcore_count() - 1
  Size,       \* index_range
  MaxTime     \* bound on the clock

(* With fewer indexes than cores the partitioning loop of init would not   *)
(* advance.                                                                *)
ASSUME SizeAssumption ==
  /\ NumCores \in Nat \ {0}
  /\ Size \in Nat
  /\ Size >= NumCores
  /\ MaxTime \in Nat

VARIABLES
  next, prev,    \* links of every cell, heads included
  list_ind,      \* alloc list a cell is on, -1 if none
  time,          \* timestamp of a cell
  dchain_locks,  \* per core: the core that holds its lock, or NoCore
  global_lock,   \* dchain_global_lock
  op,            \* per core: next step of the operation in progress
  cell,          \* per core: local variables allocated / freed, NoCell out of their scope
  iter,          \* per core: loop variable i of allocate_new_index_global
  ret,           \* per core: return value of its last allocation
  now            \* per core: the clock of its main loop

lists == <<next, prev, list_ind, time>>
locks == <<dchain_locks, global_lock>>
dchainVars == <<lists, locks, op, cell, iter, ret, now>>

Cores == 0..NumCores - 1
NoCore == -1
NoCell == -1
Indexes == 0..Size - 1

ALLOC(c) == c
FREE(c) == NumCores + c
GLOBAL == 2 * NumCores
INDEX_SHIFT == GLOBAL + 1
IndexCells == INDEX_SHIFT..INDEX_SHIFT + Size - 1
Cells == 0..INDEX_SHIFT + Size - 1
INT64_MAX == MaxTime + 1

(* concurrent_dchain_impl_init.  Chunks of Size \div NumCores indexes are  *)
(* chained one after the other; the last cell of chunk k points to the     *)
(* head FREE(k), also for the chunks that are left over when NumCores does *)
(* not divide Size, to which no head points.                               *)
Chunk == Size \div NumCores

(* Fault: the loop over a chunk chains its last cell to the next chunk. *)
FaultInitLinkRunsOn(x) ==
  IF x < FREE(0) THEN x
  ELSE IF x < GLOBAL THEN INDEX_SHIFT + Chunk * (x - FREE(0))
  ELSE IF x = GLOBAL THEN GLOBAL
  ELSE IF x - INDEX_SHIFT = Size - 1 THEN FREE(NumCores - 1) ELSE x + 1

InitLink(x) ==
  IF x < FREE(0) THEN x
  ELSE IF x < GLOBAL THEN INDEX_SHIFT + Chunk * (x - FREE(0))
  ELSE IF x = GLOBAL THEN GLOBAL
  ELSE LET i == x - INDEX_SHIFT
       IN  IF i % Chunk = Chunk - 1 \/ i = Size - 1 THEN FREE(i \div Chunk) ELSE x + 1

DchainInit ==
  /\ next = [x \in Cells |-> InitLink(x)]
  /\ prev = [x \in Cells |-> InitLink(x)]
  /\ list_ind = [x \in Cells |-> IF x < FREE(0) THEN x ELSE IF x < GLOBAL THEN x - FREE(0) ELSE -1]
  /\ time = [x \in Cells |-> INT64_MAX]
  /\ dchain_locks = [c \in Cores |-> NoCore]
  /\ global_lock = NoCore
  /\ op = [c \in Cores |-> "none"]
  /\ cell = [c \in Cores |-> NoCell]
  /\ iter = [c \in Cores |-> 0]
  /\ ret = [c \in Cores |-> TRUE]
  /\ now = [c \in Cores |-> 0]
-----------------------------------------------------------------------------
Goto(c, where) == op' = [op EXCEPT ![c] = where]

Acquire(c, k) ==
  /\ dchain_locks[k] = NoCore
  /\ dchain_locks' = [dchain_locks EXCEPT ![k] = c]

Release(k) == dchain_locks' = [dchain_locks EXCEPT ![k] = NoCore]

(* Free lists are singly linked, prev of a free cell repeats its next. *)
PointTo(x, y) ==
  /\ next' = [next EXCEPT ![x] = y]
  /\ prev' = [prev EXCEPT ![x] = y]

(* concurrent_dchain_impl_has_free_indexes, which reads the head without   *)
(* the lock.                                                               *)
HasFreeIndexes(c) == next[FREE(c)] # FREE(c)

(* concurrent_dchain_allocate_new_index: from the core's own free list ... *)
AllocateNewIndex(c) ==
  /\ op[c] = "none"
  /\ Goto(c, "lock")
  /\ UNCHANGED <<lists, locks, cell, iter, ret, now>>

AllocLock(c) ==
  /\ op[c] = "lock"
  /\ Acquire(c, c)
  /\ Goto(c, "pop")
  /\ UNCHANGED <<lists, global_lock, cell, iter, ret, now>>

(* Faults, for checking that the properties notice them: the lock is given *)
(* up before the cell is unhooked; it is kept when the list is empty.      *)
FaultAllocReadUnlocks(c) ==
  /\ op[c] = "pop"
  /\ Release(c)
  /\ IF HasFreeIndexes(c)
       THEN cell' = [cell EXCEPT ![c] = next[FREE(c)]] /\ Goto(c, "unhook")
       ELSE UNCHANGED cell /\ Goto(c, "glock")
  /\ UNCHANGED <<lists, global_lock, iter, ret, now>>

FaultAllocReadKeepsLock(c) ==
  /\ op[c] = "pop"
  /\ IF HasFreeIndexes(c)
       THEN cell' = [cell EXCEPT ![c] = next[FREE(c)]] /\ Goto(c, "unhook")
       ELSE UNCHANGED cell /\ Goto(c, "glock")
  /\ UNCHANGED <<lists, locks, iter, ret, now>>

AllocRead(c) ==
  /\ op[c] = "pop"
  /\ IF HasFreeIndexes(c)
       THEN /\ cell' = [cell EXCEPT ![c] = next[FREE(c)]]
            /\ Goto(c, "unhook")
            /\ UNCHANGED dchain_locks
       ELSE /\ Release(c)
            /\ Goto(c, "glock")
            /\ UNCHANGED cell
  /\ UNCHANGED <<lists, global_lock, iter, ret, now>>

AllocUnhook(c) ==
  /\ op[c] = "unhook"
  /\ PointTo(FREE(c), next[cell[c]])
  /\ Release(c)
  /\ ret' = [ret EXCEPT ![c] = TRUE]
  /\ Goto(c, "link")
  /\ UNCHANGED <<list_ind, time, global_lock, cell, iter, now>>

(* The new cell goes to the recently used end of the alloc list and its    *)
(* index, cell[c] - INDEX_SHIFT, is returned.                              *)
AllocLink(c) ==
  LET x == cell[c] last == prev[ALLOC(c)] IN
  /\ op[c] = "link"
  /\ next' = [next EXCEPT ![x] = ALLOC(c), ![last] = x]
  /\ prev' = [prev EXCEPT ![x] = last, ![ALLOC(c)] = x]
  /\ list_ind' = [list_ind EXCEPT ![x] = ALLOC(c)]
  /\ time' = [time EXCEPT ![x] = now[c]]
  /\ cell' = [cell EXCEPT ![c] = NoCell]
  /\ Goto(c, "none")
  /\ UNCHANGED <<locks, iter, ret, now>>

(* ... and, when that is empty, concurrent_dchain_impl_allocate_new_index_ *)
(* global: from the global list, refilled with one index of every core     *)
(* under all the locks.                                                    *)
FirstGlobal == IF next[GLOBAL] = GLOBAL THEN NoCell ELSE next[GLOBAL]

(* Fault: an empty global list is reported as full without the refill. *)
FaultGlobalLockNoRefill(c) ==
  /\ op[c] = "glock"
  /\ global_lock = NoCore
  /\ global_lock' = c
  /\ cell' = [cell EXCEPT ![c] = FirstGlobal]
  /\ Goto(c, "gpop")
  /\ UNCHANGED <<lists, dchain_locks, iter, ret, now>>

GlobalLock(c) ==
  /\ op[c] = "glock"
  /\ global_lock = NoCore
  /\ global_lock' = c
  /\ cell' = [cell EXCEPT ![c] = FirstGlobal]
  /\ Goto(c, IF FirstGlobal = NoCell THEN "grab" ELSE "gpop")
  /\ UNCHANGED <<lists, dchain_locks, iter, ret, now>>

(* Fault: the loop runs once too often. *)
FaultIterateOnceMore(c, then) ==
  IF iter[c] < NumCores
    THEN iter' = [iter EXCEPT ![c] = @ + 1] /\ UNCHANGED op
    ELSE iter' = [iter EXCEPT ![c] = 0] /\ Goto(c, then)

(* One step of a loop over the cores; after the last one, go to then. *)
Iterate(c, then) ==
  IF iter[c] + 1 < NumCores
    THEN iter' = [iter EXCEPT ![c] = @ + 1] /\ UNCHANGED op
    ELSE iter' = [iter EXCEPT ![c] = 0] /\ Goto(c, then)

GrabCoreLock(c) ==
  /\ op[c] = "grab"
  /\ Acquire(c, iter[c])
  /\ Iterate(c, "fill")
  /\ UNCHANGED <<lists, global_lock, cell, ret, now>>

(* concurrent_dchain_impl_fill_global_free_list *)
FillRead(c) ==
  LET head == FREE(iter[c]) IN
  /\ op[c] = "fill"
  /\ IF next[head] = head
       THEN Iterate(c, "retry") /\ UNCHANGED cell
       ELSE Goto(c, "move") /\ cell' = [cell EXCEPT ![c] = next[head]] /\ UNCHANGED iter
  /\ UNCHANGED <<lists, locks, ret, now>>

FillMove(c) ==
  LET head == FREE(iter[c]) x == cell[c] IN
  /\ op[c] = "move"
  /\ next' = [next EXCEPT ![head] = next[x], ![x] = next[GLOBAL], ![GLOBAL] = x]
  /\ prev' = [prev EXCEPT ![head] = next[x], ![x] = next[GLOBAL], ![GLOBAL] = x]
  /\ list_ind' = [list_ind EXCEPT ![x] = -1]
  /\ time' = [time EXCEPT ![x] = INT64_MAX]
  /\ cell' = [cell EXCEPT ![c] = NoCell]
  /\ IF iter[c] + 1 < NumCores
       THEN iter' = [iter EXCEPT ![c] = @ + 1] /\ Goto(c, "fill")
       ELSE iter' = [iter EXCEPT ![c] = 0] /\ Goto(c, "retry")
  /\ UNCHANGED <<locks, ret, now>>

GlobalRetry(c) ==
  /\ op[c] = "retry"
  /\ cell' = [cell EXCEPT ![c] = FirstGlobal]
  /\ Goto(c, "ungrab")
  /\ UNCHANGED <<lists, locks, iter, ret, now>>

UngrabCoreLock(c) ==
  /\ op[c] = "ungrab"
  /\ Release(iter[c])
  /\ Iterate(c, "gpop")
  /\ UNCHANGED <<lists, global_lock, cell, ret, now>>

GlobalPop(c) ==
  /\ op[c] = "gpop"
  /\ IF cell[c] # NoCell
       THEN PointTo(GLOBAL, next[cell[c]]) /\ Goto(c, "link")
       ELSE UNCHANGED <<next, prev>> /\ Goto(c, "none")
  /\ ret' = [ret EXCEPT ![c] = cell[c] # NoCell]
  /\ global_lock' = NoCore
  /\ UNCHANGED <<list_ind, time, dchain_locks, cell, iter, now>>
-----------------------------------------------------------------------------
(* concurrent_dchain_impl_is_index_allocated, the test that free_index and *)
(* rejuvenate_index make too.                                              *)
IsIndexAllocated(c, i) ==
  LET x == i + INDEX_SHIFT IN
  /\ list_ind[x] = ALLOC(c)
  /\ next[x] = prev[x] => next[x] = ALLOC(c)

(* concurrent_dchain_impl_free_index: off the alloc list, then, under the  *)
(* lock, onto the core's own free list.                                    *)
Unlink(x) ==
  /\ next' = [next EXCEPT ![prev[x]] = next[x]]
  /\ prev' = [prev EXCEPT ![next[x]] = prev[x]]

FreeIndex(c, i) ==
  /\ op[c] = "none"
  /\ IsIndexAllocated(c, i)
  /\ Unlink(i + INDEX_SHIFT)
  /\ cell' = [cell EXCEPT ![c] = i + INDEX_SHIFT]
  /\ Goto(c, "flock")
  /\ UNCHANGED <<list_ind, time, locks, iter, ret, now>>

FreeLock(c) ==
  /\ op[c] = "flock"
  /\ Acquire(c, c)
  /\ Goto(c, "push")
  /\ UNCHANGED <<lists, global_lock, cell, iter, ret, now>>

FreeHook(c) ==
  /\ op[c] = "push"
  /\ PointTo(cell[c], next[FREE(c)])
  /\ list_ind' = [list_ind EXCEPT ![cell[c]] = -1]
  /\ Goto(c, "hook")
  /\ UNCHANGED <<time, locks, cell, iter, ret, now>>

FreePush(c) ==
  /\ op[c] = "hook"
  /\ PointTo(FREE(c), cell[c])
  /\ Release(c)
  /\ cell' = [cell EXCEPT ![c] = NoCell]
  /\ Goto(c, "none")
  /\ UNCHANGED <<list_ind, time, global_lock, iter, ret, now>>

(* concurrent_dchain_has_expired_index / get_oldest_index *)
Oldest(c) == next[ALLOC(c)] - INDEX_SHIFT

HasExpiredIndex(c, bound) ==
  /\ next[ALLOC(c)] # ALLOC(c)
  /\ time[next[ALLOC(c)]] < bound

(* concurrent_dchain_expire_one_index *)
ExpireOneIndex(c, bound) == HasExpiredIndex(c, bound) /\ FreeIndex(c, Oldest(c))

(* Faults: the back link of the successor is forgotten; the timestamp is   *)
(* renewed but the cell stays where it is.                                 *)
FaultRejuvenateForgetsPrev(c, i) ==
  LET x == i + INDEX_SHIFT
      last == prev[ALLOC(c)]
  IN  IF IsIndexAllocated(c, i) /\ next[x] # prev[x] /\ next[x] # ALLOC(c)
        THEN /\ next' = [next EXCEPT ![prev[x]] = next[x], ![x] = ALLOC(c), ![last] = x]
             /\ prev' = [prev EXCEPT ![x] = last, ![ALLOC(c)] = x]
             /\ time' = [time EXCEPT ![x] = now[c]]
             /\ UNCHANGED list_ind
        ELSE UNCHANGED lists

FaultRejuvenateInPlace(c, i) ==
  /\ time' = IF IsIndexAllocated(c, i) THEN [time EXCEPT ![i + INDEX_SHIFT] = now[c]] ELSE time
  /\ UNCHANGED <<next, prev, list_ind>>

(* concurrent_dchain_impl_rejuvenate_index: to the recently used end of    *)
(* the list with a new timestamp, unless it is the only cell of the list,  *)
(* which is left as it is.                                                 *)
Rejuvenate(c, i) ==
  LET x == i + INDEX_SHIFT
      last == IF next[x] = ALLOC(c) THEN prev[x] ELSE prev[ALLOC(c)]
  IN  IF IsIndexAllocated(c, i) /\ next[x] # prev[x]
        THEN /\ next' = [next EXCEPT ![prev[x]] = next[x], ![x] = ALLOC(c), ![last] = x]
             /\ prev' = [prev EXCEPT ![next[x]] = prev[x], ![x] = last, ![ALLOC(c)] = x]
             /\ time' = [time EXCEPT ![x] = now[c]]
             /\ UNCHANGED list_ind
        ELSE UNCHANGED lists

RejuvenateIndex(c, i) ==
  /\ op[c] = "none"
  /\ Rejuvenate(c, i)
  /\ UNCHANGED <<locks, op, cell, iter, ret, now>>

(* The clock of a core advances between operations (nfos_timer_tick). *)
Tick(c) ==
  /\ op[c] = "none"
  /\ now[c] < MaxTime
  /\ now' = [now EXCEPT ![c] = @ + 1]
  /\ UNCHANGED <<lists, locks, op, cell, iter, ret>>

(* The steps of an operation in progress. *)
AllocateStep(c) ==
  \/ AllocLock(c) \/ AllocRead(c) \/ AllocUnhook(c) \/ AllocLink(c)
  \/ GlobalLock(c) \/ GrabCoreLock(c) \/ FillRead(c) \/ FillMove(c)
  \/ GlobalRetry(c) \/ UngrabCoreLock(c) \/ GlobalPop(c)

FreeStep(c) == FreeLock(c) \/ FreeHook(c) \/ FreePush(c)

(* The cores use the allocator as they like, each in its own partition. *)
DchainNext ==
  \E c \in Cores :
    \/ AllocateNewIndex(c)
    \/ AllocateStep(c)
    \/ FreeStep(c)
    \/ \E i \in Indexes : FreeIndex(c, i) \/ RejuvenateIndex(c, i)
    \/ \E bound \in 0..now[c] : ExpireOneIndex(c, bound)
    \/ Tick(c)

DchainSpec == DchainInit /\ [][DchainNext]_dchainVars

(* An operation that has begun keeps taking steps: lcores are dedicated to *)
(* their thread, and a thread waiting for a lock gets it, which is what    *)
(* StarvationFreedom of McsLock shows.                                     *)
DchainFairSpec == DchainSpec /\ \A c \in Cores : SF_dchainVars(AllocateStep(c) \/ FreeStep(c))
-----------------------------------------------------------------------------
(* The cells of a list, in order; a list that does not lead back to its    *)
(* head within Size cells comes out longer than Size.                      *)
ListOf(head) ==
  LET at[n \in 0..Size] ==
        IF n = 0 THEN next[head]
        ELSE IF at[n - 1] = head THEN head ELSE next[at[n - 1]]
  IN  [n \in 1..Cardinality({m \in 0..Size : at[m] # head}) |-> at[n - 1]]

CellsOf(head) == LET L == ListOf(head) IN {L[n] : n \in DOMAIN L}

Heads == 0..GLOBAL

(* A core has taken the cell off one list and not yet put it on another. *)
InHand(c) == IF op[c] \in {"link", "flock", "push", "hook"} THEN {cell[c]} ELSE {}

DchainTypeOK ==
  /\ next \in [Cells -> Cells] /\ prev \in [Cells -> Cells]
  /\ list_ind \in [Cells -> Cores \cup {-1}]
  /\ time \in [Cells -> 0..INT64_MAX]
  /\ dchain_locks \in [Cores -> Cores \cup {NoCore}]
  /\ global_lock \in Cores \cup {NoCore}
  /\ op \in [Cores -> {"none", "lock", "pop", "unhook", "link",
                       "glock", "grab", "fill", "move", "retry", "ungrab", "gpop",
                       "flock", "push", "hook"}]
  /\ cell \in [Cores -> IndexCells \cup {NoCell}]
  /\ iter \in [Cores -> Cores]
  /\ ret \in [Cores -> BOOLEAN]
  /\ now \in [Cores -> 0..MaxTime]

(* Every index is in exactly one place: on one free list, on one alloc     *)
(* list, on the global list or in the hands of one core that is moving it. *)
(* So no index is handed out twice and none is lost, whichever cores race  *)
(* for it.                                                                 *)
EveryIndexInOnePlace ==
  LET On == [h \in Heads |-> CellsOf(h)] IN
  \A x \in IndexCells :
    Cardinality({h \in Heads : x \in On[h]}) + Cardinality({c \in Cores : x \in InHand(c)}) = 1

(* An alloc list is linked consistently in both directions, and the test   *)
(* on list_ind, next and prev by which free_index and rejuvenate_index     *)
(* recognise an allocated index answers for exactly the cells on the list. *)
AllocListsSound ==
  \A c \in Cores :
    LET L == ListOf(ALLOC(c)) IN
    /\ \A n \in DOMAIN L : prev[next[L[n]]] = L[n]
    /\ prev[next[ALLOC(c)]] = ALLOC(c)
    /\ op[c] = "none" => \A i \in Indexes : IsIndexAllocated(c, i) <=> i + INDEX_SHIFT \in CellsOf(ALLOC(c))

(* The head of an alloc list is its oldest index: has_expired_index looks  *)
(* at no other cell.                                                       *)
OldestFirst ==
  \A c \in Cores :
    LET L == ListOf(ALLOC(c)) IN
    \A m, n \in DOMAIN L : m < n => time[L[m]] <= time[L[n]]

(* The allocator implements the abstract one.  An index is taken when it   *)
(* is unhooked and given back when it is pushed; an allocation has failed  *)
(* as soon as the refill under all the locks left the global list empty.   *)
Abstract == INSTANCE IndexAllocator WITH
  Nobody <- NoCore,
  owner <- LET Owned == [c \in Cores |-> CellsOf(ALLOC(c)) \cup InHand(c)] IN
           [i \in Indexes |->
              IF \E c \in Cores : i + INDEX_SHIFT \in Owned[c]
                THEN CHOOSE c \in Cores : i + INDEX_SHIFT \in Owned[c]
                ELSE NoCore],
  result <- [c \in Cores |->
              IF op[c] \in {"ungrab", "gpop"} /\ cell[c] = NoCell THEN FALSE ELSE ret[c]]

ImplementsIndexAllocator == Abstract!Spec

(* Every operation returns: cores that take all the locks for a refill     *)
(* never wait for each other in a cycle.                                   *)
OperationsReturn == \A c \in Cores : op[c] # "none" ~> op[c] = "none"
=============================================================================
