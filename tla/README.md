# Verification of NFOS

NFOS (`src/`) is a framework for multi-core network functions (NFs). An NF
developer writes handlers for packets; NFOS runs them on all data-plane cores,
each handler in a transaction of MV-RLU, and keeps the state that belongs to a
*packet set* (a flow, say) apart from the state shared by all cores. A core
owns the packet sets of its partition, so packet-set state needs no
transactions; shared state lives in transactional maps, vectors and index
allocators. Whatever an aborted run did outside of transactional memory (the
header it rewrote, the destination it chose, the flags it set) stays, and is
what the next run starts from. Most of the hard questions of this code are of
that kind; the others are about lists threaded through shared arrays.

Contents: [inventory](#inventory), [modules](#modules-and-the-code),
[runs](#runs), [proofs](#proofs), [findings](#findings),
[limits](#what-is-not-modelled), [plan](#plan).

## Inventory

| component | state | operations | hard behaviour | correct when |
|---|---|---|---|---|
| MCS lock, `include/lock.h` | tail pointer; per waiter a node with `locked`, `next` | lock, unlock | swap, link and compare-and-swap of several cores interleave; nodes live on stacks and are reused | one holder, FIFO, nobody starves |
| packet-set index allocator, `concurrent-double-chain*.c` | one array of cells threaded into per-core alloc lists (LRU), per-core free lists, one global free list; one lock per core, one global lock | allocate (local, then global), free, rejuvenate, expire_one | refill takes all locks and steals from other cores; alloc lists are touched without any lock; lists of one cell are special | every index in one place; allocation fails only if none is free; lists ordered by age; calls return |
| packet-set map, `concurrent-map.c` | buckets per partition; chain links inside the cells | get, put, erase | stale chain links in recycled cells; two ids per index for related sets | chains hold exactly the allocated indexes |
| packet-set manager, `pkt-set-manager.c` | map + allocator + state vector; per-core log of one `add_pkt_set` | lookup, log, commit, delete_expired | log looks at the free list without the lock, commit does not check; expiry looks at the oldest only | a table from id to state, from registration to expiry |
| data plane, `data-plane.c` | per batch: results, range bounds, rollback log; per core: `dst_device` | process_pkt, send_pkt, flood_pkt, drop_pkt | three kinds of transactions, each restarted from a label; lookups made before the handlers of a range | each packet handled once, sent as decided, state undone on abort |
| main loop, `nf.c` | per core: mbuf arrays per device | tick, expire, receive, process, sort, send, free; periodic handlers | partial tx bursts, flooding | each mbuf is sent or freed once, in order |
| timer, `timer.h` | per-core clock | tick, get | clocks of cores differ | - |
| MV-RLU (submodule, absent) | versions, logs | reader lock/unlock, deref, try-lock, abort | aborts anywhere | committed transactions are serialisable |
| transactional map, `map.c` | cells with busy bit, key, value, chain count | get, put, erase | counts on every probed cell, wrap-around, stopping at a count of 0 | search finds exactly the keys that are there |
| transactional allocators, `double-chain*.c`, `double-chain-exp.c` | array of cells as above, without locks; times | allocate with refill, rejuvenate, expire list by list | lists of other cores are moved to the global one; lists are ordered by event, times by clocks that differ | every index on one list; a pass leaves nothing overdue |
| transactional vector, `vector.c` | elements | borrow, borrow_mut | - | - |
| consistent hashing, `cht.c` | per bucket the backends by priority | fill, find preferred available backend | permutation arithmetic, one backend left | an available one is always found, few hashes move |
| forwarding table, `nf/common/*` | a trie of plies per device, one pool of plies, load-balance objects | add a route, look up | routes in any order, plies shared by prefixes, recursion over plies | longest prefix |
| bridge | table of stations from the parts above | frame, expiration | refresh at intervals; the expiration transaction is retried with its flag set | stations are forgotten, and only when quiet |
| maglev | table of backends, flows | heartbeat, client packet, expiration | indexes of backends reused; header rewritten by aborted runs | flows stay with a live backend |
| firewall | flows with TCP flags | packet from LAN, from WAN | flags updated by aborted runs | only replies enter |
| NATs (`ei-nat`, `fw-nat`) | sessions, users with lists of sessions | packet from LAN | two protocols share tuples and a vector; list surgery by several cores; header rewritten by aborted runs | one tuple per endpoint; lists in order of use |
| mergeable objects, profiler, dummy NF | see [limits](#what-is-not-modelled) | | | |

Interaction. `process_main` (nf.c) is one loop per core: tick the clock, then
for every device call `delete_expired_pkt_sets` for the core's own partition,
receive a burst, hand it to `process_pkt`, and send or free its mbufs.
`process_pkt` calls `get_pkt_set_state`, which looks the id up in the map and
rejuvenates its index; if there is none, it runs `nf_unknown_pkt_set_handler`,
which may call `add_pkt_set` (a log entry, so that an abort leaves no trace),
and after the transaction `add_pkt_set_commit` allocates an index, enters it
into the map and copies the state. Packet-set map and allocator share one
array of cells. The handlers of the NFs work on transactional structures
shared by all cores, and one more core runs the periodic handlers. The
hazards this gives rise to are listed, each at its line, in `PROJECT.json`.

## Modules and the code

| module | models | state | actions |
|---|---|---|---|
| `McsLock` | `lock.h` | `qnode` (the tail), `locked`, `next`, `prev` (the local variable); history `queue` | one per atomic access: `LockInit`, `LockSwap`, `LockLink`, `LockSpin`, `UnlockTest`, `UnlockCas`, `UnlockWaitNext`, `UnlockGrant` |
| `FifoLock` | what the lock promises | `queue`, `holders` | `Join`, `Enter`, `Leave` |
| `ConcurrentDoubleChain` | `concurrent-double-chain-impl.c`, `concurrent-double-chain.c` | fields of the cells; the locks; per core the operation it is in (`op`) with its locals and its clock `now` | `AllocateNewIndex` and its steps `AllocLock` ... `GlobalPop`, `FreeIndex` and its steps, `RejuvenateIndex`, `ExpireOneIndex`, `Tick` |
| `IndexAllocator` | what the allocator promises | `owner`, `result` | `Take`, `Full`, `Give` |
| `ConcurrentMap` | `concurrent-map.c` | a record `map`, no variable of its own | operators `MapGet`, `MapPut`, `MapErase` |
| `PktSetManager` | `pkt-set-manager.c` and the loop around it; composes the allocator and the map | `map`, `pkt_set_state`, `log_add`, `pkt_set_id`, `pc` | expire, look up, log, abort, commit, next loop |
| `PktSetTable` | what the manager promises | `table` | `Register`, `Expire` |
| `PktSetLastUse` | the manager with a history of uses | `lastUse` | those of the manager |
| `DataPlane` | `process_pkt` of `data-plane.c` with `PKT_PROCESS_BATCHING` and `MUTABLE_PKT_SET_STATE` | the locals of `process_pkt`, packet-set states, the rollback log; histories | receive; handler, abort and commit of orphan packets, ranges and packets of unknown sets; expire; return |
| `MainLoop` | the iteration of `process_main` (`nf.c`) around `DataPlane` | `mbufs_to_send`; histories `freed`, `taken` | `SortMbufs`, `tx_burst`, `LoopEnd` and those of `DataPlane` |
| `NfosMap`, `NfosDoubleChain`, `DoubleChainExp` | `map.c`; `double-chain*.c`; `double-chain-exp.c` | none: operators from structures to structures | - |
| `ExpiringTable` | `vector.c`; how bridge and maglev use an allocator, a map and a vector as one table, and the loop of their periodic handlers | none | - |
| `PeriodicExpiry` | the clock as the cores of bridge and maglev read it, and the pass in progress | `clock`, `exp_now`, `expiration_done` | - |
| `Cht` | `cht.c` | none | - |
| `Mtrie` | `nf/common/mtrie.c`, `mtrie.h`, `load-balance.c` | `trie`; history `routes` | `route_add` |
| `Bridge` | `nf/bridge/main.c` on `PeriodicExpiry` | the table, those of `PeriodicExpiry`; histories | `pkt_handler_*`, `exp_mac*`, `BridgeAdvance` |
| `MacTable` | what a learning bridge promises | `table`, `renewed`, `last_seen`, the pass in progress, the latest frame and where it went | `Learn`, `Renew`, `NoRoom`; `Start`, `Forget`, `Fail`, `GiveUp`; `Advance` |
| `Maglev` | `nf/maglev/main.c` on `PeriodicExpiry` and `Cht` | the table of backends, those of `PeriodicExpiry`, `flows`, the packet in progress | `heartbeat_*`, `Arrive`, `Abort`, `Commit`, `FlowExpires`, `expire_backend*`, `MaglevAdvance` |
| `Nats` | `nf/ei-nat/main.c`, `nf/fw-nat/main.c`; `process_pkt` without batching | `nat` (the transactional structures), `retry` (the packet a core must run again) | `Arrives`, `Restarts`, each ending in `Commits` or `CommitFails` |
| `Firewall` | `nf/fw/main.c` on `Mtrie` | routes, `flows`, the packet in progress | `nf_init`, `nf_init_returns`, `Restart`, `Arrive`, `CommitFails`, `CommitKnown`, `CommitUnknown`, `FlowExpires` |
| `Once` | - | `With`, which makes TLC evaluate an argument once | - |
| `MC*` | - | constants for TLC | - |
| `McsLockProofs`, `PktSetManagerProofs`, `MainLoopProofs`, `FirewallProofs`, `TransactionalProofs`, `NatsProofs`, `ExpiringNfProofs` | - | theorems about the module of that name (`PktSetManagerProofs`: about `ConcurrentDoubleChain` too; `MainLoopProofs`: about `DataPlane` too; `TransactionalProofs`: lemmas about `NfosDoubleChain` and `NfosMap`; `ExpiringNfProofs`: about `Bridge`, `Maglev` and what they are built of) | - |
| `ListFacts` | - | lemmas: induction and recursion over naturals; lists given by links and labels | - |

Abstractions worth knowing:

* **Atomicity.** In `McsLock` every shared access is a step; the
  stores that another core may read are followed by a locked instruction (the
  swap) or are the only thing that core waits for (link and grant), so x86
  store buffering adds no behaviour. In the packet-set allocator, what a core
  does to its own alloc list is one step, because no other core reads or
  writes those cells (which is not assumed: `PartitionsSeparate` is proved for
  the manager, and `EveryIndexInOnePlace` for free use of the allocator). Free
  lists are shared, so reading and changing them are separate steps. `has_free_indexes`, which takes no lock, is a single read.
* **Locks of the allocator** are named by their holder: a core acquires a free
  lock. That an MCS lock behaves so is `ImplementsFifoLock`.
* **Transactions** are external. A committed one is a single step; an aborted
  one changes nothing but what its handler wrote outside of transactional
  memory, and that is modelled wherever there is such a thing: the rewritten
  header and the destination (`DataPlane`, `Maglev`, `Nats`), packet-set state
  (`DataPlane`, `Maglev`, `Firewall`), the local flag of a periodic handler
  (`Bridge`, `Maglev`). Every try-lock that fails is one of these aborts, so
  the transactional structures are functions and a refill half done is never seen.
* **`LIST_HEAD_PADDING`** is 0: the padding separates the heads into cache
  lines and has no other effect. `INT64_MAX`, the time of a free cell, is
  a number above all times.
* **Time** is a small number. In the packet-set modules each core has its own;
  in the NFs there is one counter, and a data-plane core, which reads it once per
  loop, is late by at most `MaxLag`. Comparisons are those of the code, strict
  or not.
* **Handlers** in `DataPlane` are arbitrary: any destination, any state, adding
  the set or not.
* **Packet sets, keys, addresses** are model values or small numbers with a
  given hash. The state registered for a set is named by the set's id.
  In `DataPlane`, `Maglev` and `Firewall` the packet-set manager is its table:
  that a lookup finds a set exactly from registration to expiry is what
  `ImplementsPktSetTable` shows, and that a commit cannot fail what the log
  promised is `CommitFindsLocalIndex`.
* **Forwarding tables.** `Maglev` and `Nats` take theirs as a function; `Mtrie`,
  checked with `Firewall`, is about the table itself. The pool is assumed to have two
  plies for each route, which always suffices, so the assertion of
  `mtrie.c:18` is never reached. The shipped pools are smaller (5 for the 4 routes of
  fw and ei-nat, 30 for about 24 of maglev); which routes fit in them is not
  checked.
* **Firewall flows** stay on one core. The symmetric RSS key that brings both
  directions of a flow to the same core is compiled in only with `FW_RSS`
  (`nf.c:207`), which nothing in the repository defines: it has to be given to the
  build. With another key the two directions may meet different cores, and
  nothing here applies.
* **Build variants.** `LOAD_BALANCING` is commented out in the sources and not
  modelled. bridge, fw, maglev and dummy are built with `PKT_PROCESS_BATCHING`, the
  NATs without; no bundled NF defines `MUTABLE_PKT_SET_STATE`, an option of the
  framework for handlers that write packet-set state in place. `PktSetManager`
  is the loop of an NF that has its packet sets expire (`do_expiration`,
  `nf.c:335`); bridge and ei-nat turn it off.

Definitions named `Fault...` are plausible mistakes in the definition below
them. No specification uses them; each shows that some property would notice.

## Runs

Passing runs:

| run | bounds | checks |
|---|---|---|
| `mcs_lock` | 4 threads | `QueueInvariant` (the inductive invariant of the proof), `MutualExclusion`, `GrantReachesWaiter`, `ImplementsFifoLock`, `StarvationFreedom` |
| `dchain` | 2 cores, 2 indexes, times 0..1 | `DchainTypeOK`, `EveryIndexInOnePlace`, `AllocListsSound`, `OldestFirst`, `ImplementsIndexAllocator`, `OperationsReturn` |
| `pkt_set_one_core` | 1 core, 3 indexes, 4 pairs of related sets in 2 buckets, times 0..2, validity 1 | `MapMatchesAllocList`, `NoOverdueSetServed`, `ImplementsPktSetTable` |
| `pkt_set_two_cores` | 2 cores, 2 indexes, 2 sets with equal hashes | `CommitFindsLocalIndex`, `MapMatchesAllocList`, `PartitionsSeparate` |
| `main_loop` | bursts of 1 to 3 packets, 2 packet sets, 2 devices and flooding, 2 states | `EachPacketOnce`, `RegisteredSentAsDecided`, `HandlersMatchRegistration`, `OnlyCommittedSetsRegistered`, `SingleSetsRolledBack`, `MbufsReleasedOnce`, `LeavesInOrder` |
| `bridge` | 2 cores, 3 stations for 2 entries, times 0..4, lag 1, validity 2, refresh interval 1 | `BridgeTableSound`, `PassRemovesOverdue`, `QuietStationsForgotten`, `ImplementsMacTable` |
| `maglev` | 4 backends for 3 places, 3 buckets, 1 flow | `BackendTableSound`, `FlowAffinity`, `PoolServesAll`, `MinimalDisruption` |
| `nats` | both NATs, 2 cores, 2 external tuples, 3 endpoints of a host and the NAT's own tuples | `NatTableSound`, `UserListsSound`, `MostRecentFirst`, `TranslatedBySession` |
| `firewall` | addresses of 5 bits (plies of 1, 2 and 2), any 4 of 10 routes in any order, 2 endpoints, 2 flags | `FibIsLongestPrefix`, `PliesHangOnce`, `OnlyRepliesEnter`, `FlagsTracked` |

What they show, and why the bounds are enough:

* **Lock.** Four threads make a holder, a waiter, a thread between swap and
  link and one more between the two at once; the theorems cover any number.
* **Packet-set allocator.** Lists of 0, 1 and 2 cells (the special cases of the code) occur,
  one core can run the whole pool dry through the global list, both can refill
  at once, and allocations fail. Two times suffice for a list out of order.
  Lists of three occur in `pkt_set_one_core`.
* **Packet-set manager.** Three indexes for four pairs make lists of up to
  three cells, so that one is taken out of the middle, chains of up to five
  entries (both ids of a pair are in the map), erased at head, middle and
  end, and a pool that runs out. A set of time 0 is overdue at time 2 and one
  of time 1 is not, so that expiry has to stop. Two cores with one index each
  run out of room at once; the theorems cover any number of both.
* **Main loop.** A burst of three has a range with two packets, a gap made by an
  unparsed packet, and an unknown set that becomes registered within the
  burst; a device may take none, some or all of up to three mbufs.
* **Bridge.** Three stations for a map of two cells that start probing at
  different cells, so that probing wraps around, counts matter and the table
  is full at times; indexes are stolen through the global list. Times reach
  beyond two validity periods with refreshes in between.
  `ImplementsMacTable` is the refinement: a frame goes where its own destination
  was learned or everywhere, its source is learned behind the device it came
  from, and it is lost only when its source is new and the table full. An entry
  is renewed by a frame of its station if the last renewal is more than
  `REFRESH_INTERVAL` ago. A pass that commits removes exactly the entries that
  were not renewed for `EXPIRATION_TIME` before its start, up to the lag of the
  clocks; their stations were quiet for longer than `EXPIRATION_TIME -
  REFRESH_INTERVAL`. `QuietStationsForgotten` says that such passes keep coming.
* **Maglev.** A backend always waits for one of the three places, so that
  indexes change hands; the hash of a rewritten header picks another bucket.
  `PoolServesAll` excludes packets whose header was rewritten by an aborted
  run: those are looked up under the address of the backend, and dropped if
  the FIB has no `LB` route for it.
* **NATs.** Each protocol can use up its two tuples, at which point the
  programs assert false (hence no deadlock check); a user has up to four
  sessions, so that one is moved to the head from the end and from the middle.
  All cores read one time here (`MaxLag` is 0); the theorems have clocks that lag.
* **Firewall.** Routes share plies on all levels in every order, including a
  shorter prefix after a longer one. The firewall's own routes are among
  them, and traffic runs with those. Restarting loses every flow.

Deadlock is checked in all runs but `nats` and `nat_retry`.

**Fairness.** `FairSpec` of `McsLock` asks for weak fairness of the steps of a
thread that has begun to lock, and of releasing: NFOS pins one thread to
each core and critical sections are straight-line code. `DchainFairSpec` asks
for strong fairness of the steps of an operation in progress: strong because
a lock can be taken by others again and again while a core waits, and justified by
the FIFO order of the lock, i.e. by `StarvationFreedom`. The bridge asks for
weak fairness of the periodic handler (a loop on a core of its own that does
nothing but sleep and call it) and of its trivial retry, and strong fairness
of its commit: some pass that gets to its commit succeeds eventually, although
any number of them fail. Without that nothing can ever be forgotten, whatever
the code does. Nothing is assumed about cores starting operations, about
packets, about handlers committing, or about time.

## Proofs

TLAPS checks, for every value of the constants that satisfies the assumptions:

* **`McsLockProofs`** (any set of threads, `NULL` not one of them).
  `QueueCorrect`: `QueueInvariant` is inductive. Mutual exclusion is not:
  neither the tail nor any `next` field says by itself who is in line, since a
  thread may have swapped itself in without being linked. The invariant ties
  all of them to a history variable `queue`, the order of the swaps: the tail
  is its last element, a `next` field is set exactly when the successor has
  linked itself, only the head can own the lock or have been granted it. From
  it follow `MutualExclusionHolds`, `GrantReachesWaiterHolds` and
  `ImplementsFifoLockHolds` (the refinement, initial states and steps).
* **`PktSetManagerProofs`, the allocator** (any number of cores, of indexes not
  fewer than the cores, any bound on time). Two invariants, proved one after the other. `Locked`
  (`LockDiscipline`) says which locks a core holds at each step and needs
  nothing about lists. `DInvariant` (`DchainInvariance`) says that the cells
  can be *labelled*: `on[x]` is the list, or the hand of a core, where cell `x`
  is, and `rank[x]` orders the cells of a list. Acyclic, complete and disjoint
  lists are facts about paths; with labels they become facts about a cell and
  its successor, and a step changes the labels of one cell. So the proof of a
  step needs no induction; only the last part does, that `ListOf`, the walk
  along the links that the properties speak of, visits the cells of a labelled
  list once each in the order of their ranks (`ListOfEnumerates`). Interference
  is settled once: a step changes the core's own alloc list, the free lists it
  has locked and the cell in its hand, and nothing else (`Works`, `WorksInv`).
  Results: `DchainTypeCorrect`, `OneOwner` (no index in two places),
  `NoIndexLost` (every index in one place), `AllocListsAreSound`,
  `OldestIsFirst` and `ImplementsAllocator`, the refinement of
  `IndexAllocator`. In the latter the hard case is an allocation that fails: it must
  do so at a moment when every index is owned. A core that refills the global
  list holds all locks, so a free list it has seen empty stays empty
  until it gives up (`RefillSees`). `NoIndexLost` and `ImplementsAllocator` assume that
  the number of cores divides the number of indexes, and are false without it
  (see [findings](#findings)); `OneOwner` and the others do not.
* **`PktSetManagerProofs`, the manager** (any number of cores, of indexes not
  fewer than the cores, of keys). `PartitionsStaySeparate` and `CommitAlwaysFindsIndex`. The
  proof does not look at whole lists: the region of a core (its two heads and
  its chunk of indexes) is closed under `next` and `prev`, regions are disjoint
  (`Geometry`, from the arithmetic of `\div`), and each step of a core is
  `Confined` to its region: it writes only there and keeps it closed. Hence
  what a core read of its free list without the lock cannot be changed by
  another core, and the core itself does not pop between log and commit.
  `CoreOK` is the strengthening: which operations can be in progress at which
  point of the loop, and that a core between log and commit has a free index.
  `ManagerUsesAllocator`: the manager takes only steps of the allocator, so
  the theorems about the allocator carry over. With `OldestIsFirst` they
  give `ServedSetsNotOverdue`: expiry ends when the oldest index is fresh, hence
  when all are, and the clock of the core stands still until its next loop.
  `MapAndAllocListsAgree`: the packet-set map. The inductive invariant `MapInv`
  asserts a sequence of entries for every bucket that the chain links follow,
  disjoint from the others, in which the entries are those of the indexes on
  the alloc list of the partition's core, each in the bucket of its id; that no
  unused entry has kept a link (a put relies on it); that the ids of a core
  differ and that the two entries of an index hold a pair of related ids; and that an id
  that a core is about to register is not there yet, from the lookup that
  missed to the commit. A put appends to one sequence and an erase takes one entry
  out, at the head, in the middle or at the end. `ImplementsTable`, the refinement of
  `PktSetTable`, follows from the same invariant: an id is in the table as long
  as it has an entry, registration and expiry change the table as promised,
  every other step leaves it alone.
* **`MainLoopProofs`** (any batch, ids, devices, states). Of `process_pkt`:
  `PacketsHandledOnce`, `RegisteredDestinations`, `HandlersMatch`,
  `CommittedSets` and `SinglesRolledBack`. Each speaks of the end of a batch or of a
  transaction; the invariant says how far it has come. Committed runs cover
  the batch up to the first packet of the transaction in progress (`Base`), its own
  runs go on from there to the packet at hand (`Top`); a commit moves `Base` up to
  `Top`, an abort moves `Top` back. For the rollback: the log of a range has an
  entry for each of its runs, and a set without an entry still has the state
  it had before the range. Of the main loop: `MainImplementsSpec`, it
  takes only steps of `process_pkt`, so all of the above holds for
  it; `MbufsReleased` and `PacketsLeaveInOrder`: each mbuf of the burst is freed, or
  waits for or was taken by the device its destination names; queues are
  ascending. That the sorting loop establishes this is an induction over
  the recursive function `Sorted`.
* **`TransactionalProofs`** (any number of cores, indexes and keys). Lemmas on
  the operators of the transactional allocator and map. With labels as
  above, an allocation, with whatever refill it needs, keeps the chain sound, takes one
  free index and no other, and fails only if every index is allocated. Of the
  map: if every key in use is reached from its hash along cells that are
  busy or have a chain count, and the count of a cell is the number of keys whose
  probing passes it, then `nfos_map_get` finds exactly the keys in use and
  `nfos_map_put` keeps this, wrap-around included.
* **`NatsProofs`** (both NATs, any number of cores, packets, hashes, external
  addresses and ports). `TableSound`, `TranslationFaithful`, `UserLists` and
  `RecentFirst`. The session map and the user map are maps of
  `TransactionalProofs`. The two allocators
  of external tuples are instances of the chain, and their lemmas are taken
  over by instantiation. The inductive invariant `TableInv` says that the
  map's entries and the allocated indexes belong to each other one to one,
  that an index lies in the half of the vector of its protocol and that the
  vector names the endpoint of the key. A handler finds its key, and then changes only links
  and times, or adds a key that is not there with an index that was free. For the
  packets: the source that a handler writes, decoded with
  `ext_tuple_to_sess_id`, is the session of the endpoint that the run
  read (`sess_id_to_ext_tuple` and its inverse, by arithmetic of `\div` and
  `%`), and what a repeated run reads is still an endpoint with a key.
  For the lists of `ei-nat`, `UserInv` gives every session a rank: the list of
  a user goes through the sessions whose `user_index` it is in the order
  of their ranks, as in `ListFacts`, `num_sessions` is their number, the
  user's address is theirs, and of two of them the first was used at most
  `MaxLag` before the second, nothing later than the latest time. A session that
  is opened or refreshed gets the least rank and a time within `MaxLag` of
  the latest, so it may come first. The lists share `session_data` but
  not their sessions, so a link set on one leaves the others alone. In
  the middle of an opening the new session is on no list and its user may have
  none, so `UserInv` takes as parameters the sessions that are on lists and
  one user that may be idle. An allocation of a user never fails, because
  every user has a session and there are no fewer users than sessions.
* **`FirewallProofs`** (any endpoints, flags, routes, ply widths).
  `OnlyRepliesEnterHolds` and `FlagsTrackedHolds`. The strengthening: the lookup
  of the packet in progress is still valid, every flow was opened from the
  LAN, and the flags of the flow at hand may be ahead of those seen by those
  of the packet at hand. A second run of the handler adds the same flags again.
  `PliesHang` and `LongestPrefix` are about the forwarding tables, for any
  devices, any nonzero widths of the plies and any routes in any order, as long as
  the pool has two plies per route. The inductive invariant `FibIInv`: there is a
  labelling of the plies in use with the levels 1 and 2 such that every slot that
  is not terminal leads one level down (`LevelsDown`), with its length
  that of its level; every ply in use hangs below one slot (`AllHang`, `HangOnce`);
  the slot where an address ends holds the best route for it, leaf and length
  (`Fib`); and at most two plies are taken per route. The lookup alone
  would not do: whether the next route replaces a leaf depends on the length
  stored beside it. A step adds a route in two parts. First the plies on its way
  are created (`Grows`): a slot is replaced by a ply of copies, so every address
  ends in a slot with the same content. Then the loops of `set_leaf` and
  `set_ply_with_more_specific_leaf` overwrite the terminal slots at and below
  those that the route covers unless they are more specific, and nothing
  else (`Paints`); because plies hang once, the addresses that end in these
  slots are those that the route covers. The rest is arithmetic: the bytes of an
  address, quotients and remainders by powers of two, agree with those of
  the route exactly if the address has its prefix (`SameBlock`). The loops
  are recursive functions over the slots; the induction along them is that of
  `ListFacts`.
* **`ExpiringNfProofs`** (any number of cores, indexes, stations, backends,
  flows; any prime number of buckets). The bridge and the load balancer on their
  expiring tables. `HeapInv`: the times of the cells of an allocated list are sorted
  up to the lag of the clocks and none is after the latest a core can have given;
  a new or renewed cell goes to the end of its list and may. `TableInv` joins a
  heap and a map that leads from the key of every allocated index to it and from
  nothing else; erasing takes back one chain count from every cell the key's
  probing passed, which keeps what `TransactionalProofs` asks of a map. A pass of the
  periodic handler is `ExpireAll`, the state after `Size + NumCores` steps of its
  loop. Every step frees an index or leaves a list behind, so that these
  steps are enough (`PassProgress`), and a list left behind holds nothing
  overdue by more than the lag because it is sorted.
  For the bridge, `BridgeInv` adds that every index in use has a device and that a
  station was last seen at most `REFRESH_INTERVAL` after its entry was renewed.
  Results: `BridgeTable` (`BridgeTableSound`), `BridgePass`
  (`PassRemovesOverdue`) and `BridgeIsMacTable`, the refinement of `MacTable`
  under which the learned device and the time of the last renewal of a station
  are what `dyn_vals` holds at the index that `dyn_map` gives for it. The pass
  goes by the times of the heap, so the refinement rests on heap and vector
  having the same time for every index in use. It holds for every
  `REFRESH_INTERVAL`, one beyond the expiration time included; what
  the bound on the silence is worth then is said under Findings.
  For the load balancer, `BucketsListAll`: `nfos_cht_fill_cht` puts every
  backend on the list of every bucket. The steps of a backend through the buckets are
  multiples of a number below the height, and since the height is
  prime no two have the same remainder, so a backend visits each bucket
  once (Euclid's lemma, itself by `ListFacts`); the filling is then an
  induction on how many entries a bucket has. `MaglevInv` says with `TableInv` that the
  addresses in the two vectors agree and that whoever served a registered
  flow last, a history that ends with the backend's life, is the live
  backend at the index that the flow names: an index is given to another one
  only after that. Results: `BackendTable`
  (`BackendTableSound`), `Affinity` (`FlowAffinity`), `Disruption`
  (`MinimalDisruption`: the preferred backend is the first live one of a list that
  never changes) and `ServesAll` (`PoolServesAll`).

`ListFacts` holds the induction that these rest on. The library's induction
theorems take the induction predicate as an operator, which the provers
do not instantiate; here the predicate is a set of naturals and the argument
its least counterexample. The same gives what a recursive function computes,
step by step. It also holds what the list modules share: when links and
labels describe a list, that the walk along the links enumerates it, and
that pushing, appending and removing a cell keep it.

The assumptions on constants are those of the modules (`SizeAssumption` and the
like: nonempty sets, naturals, at least one index per core, distinct devices,
plies of at least one bit, two plies of the pool per route, a prime height of
the consistent hash table, hashes that are not negative, devices that are
numbers, indexes shared out evenly where an allocator is transactional).
`ExpiringNfProofs` extends both `Bridge` and `Maglev`; no theorem uses the
assumptions of both.
Every property that a theorem states is also checked by a run, and so is the
inductive invariant of the lock; the other inductive invariants are proved only.

Every safety property, action property and refinement that a passing run
checks is stated by a theorem. Only model-checked is liveness:
`StarvationFreedom`, `OperationsReturn` and `QuietStationsForgotten` need
fairness and `ENABLED`, which the prover does not support.

## Findings

Three runs state what a comment of the code says and show that the code does
otherwise:

1. `pkt_set_last_use`: rejuvenating the only allocated index of a core returns
   without updating its timestamp, so a packet set in use expires.
2. `data_plane_stale_dst`: a packet dropped by the committed run of its
   handler goes where an aborted run sent it, because the restart labels come
   after the reset of `dst_device` (unknown sets) or the reset reads a result
   that the aborted run wrote (orphan packets). Packets of registered sets are
   not affected (`RegisteredSentAsDecided`).
3. `nat_retry`: both NATs write the external tuple into the packet before the
   transaction commits. If the commit fails, the handler runs again on the
   rewritten header, opens a session for the NAT's own tuple and translates
   the packet a second time; replies to it lead to no LAN host.

Seen in the source on the way, without a run of their own:

* If the number of cores does not divide the number of indexes, the remaining
  indexes are on no list after initialisation and are never used
  (`concurrent-double-chain-impl.c:58`; the same in `double-chain-impl.c` and
  `double-chain-exp.c`). The runs use sizes that the cores divide, and two
  theorems assume it (`NoIndexLost`, `ImplementsAllocator`); no index is
  handed out twice in either case (`OneOwner`).
* `rollback_pkt_set_states` copies its log from the oldest entry to the newest,
  so of two entries for one set (two packets of a flow in a range) the later
  one, taken after the first handler wrote, is what remains. With one packet
  per set it is exact (`SingleSetsRolledBack`). No bundled NF turns the option on.
* `expiration_done` is not reset when the expiration transaction of bridge or
  maglev is retried: after a failed commit the pass does nothing. Harmless, as
  `QuietStationsForgotten` shows, as long as some pass commits.
* `REFRESH_INTERVAL` of the bridge is 180000000000 cycles of the time stamp counter
  (`bridge_config.h:8`), a minute at 3 GHz, `EXPIRATION_TIME` is 1.2 seconds
  (`bridge_config.h:4`, `Makefile.dpdk:63`). Unless `EXP_TIME` is set beyond a minute,
  an entry expires before the guard of `main.c:156` lets anything renew it, and
  a station is forgotten 1.2 seconds after it was learned however much it sends.
  The comment at `main.c:152-154`, which has the bridge work as if the
  expiration time were between `EXPIRATION_TIME - REFRESH_INTERVAL` and
  `EXPIRATION_TIME`, promises an active station nothing then: the lower bound is
  negative. `BridgeIsMacTable` covers this configuration, with that bound
  void and the one since the last renewal intact. The `bridge` run has an interval of 1
  and a validity of 2, where renewal takes place.
* The handlers of fw, maglev and the NATs call `drop_pkt` for packets whose
  time to live is at its end and go on; `drop_pkt` does nothing, so these packets are sent.
* The TCP flags of the packet that opens a flow of the firewall are lost:
  `add_pkt_set` copies the state before they are tracked.
* A route of length 0 shifts by the width of the address, undefined in C;
  its address is 0 everywhere, which makes every outcome the same.

## What is not modelled

* MV-RLU itself: its source is a submodule outside this repository.
* `mergeable-obj.c`: no NF of the repository uses mergeable objects; what the
  merge functions are and where they are called from is not in the tree.
* `scalability-profiler.c` counts aborts and writes a report.
* In the NATs, what never runs: packets from the WAN (`assert(false)`),
  `dealloc_session` and with it freeing an index, static mappings, flow sizes
  and the quota per user, which the configurations disable.
* Registration of packet sets by `process_pkt` without batching, which repeats
  the steps of the batched build for one packet.
* Device set-up, flow rules, RSS keys, argument parsing, logging, checksums and
  MAC addresses.
* The dummy NF, the vendored Vigor library (`src/deps/vigor`) and experiment
  scripts.

## Plan

Modelled and checked: everything in the table of modules. Proved: all of it but
liveness. What could come next:

* freeing an index of the transactional allocator and the functions of the NATs that
  call it, should a NAT begin to expire sessions;
* registration of packet sets by `process_pkt` without batching;
* mergeable objects, once an NF uses them.
