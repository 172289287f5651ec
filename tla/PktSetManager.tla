--------------------------- MODULE PktSetManager ----------------------------
(***************************************************************************)
(* The packet-set manager (src/src/pkt-set-manager.c) as the data plane    *)
(* drives it: each core runs the loop of process_main (src/src/nf.c),      *)
(* first expiring packet sets of its own partition, then looking up the    *)
(* packets it received and, for a packet of an unknown set, running the    *)
(* transaction of nf_unknown_pkt_set_handler around the per-core log of    *)
(* add_pkt_set (src/src/data-plane.c).                                     *)
(*                                                                         *)
(* The NF and its transactional memory are external: a handler may add the *)
(* packet set or not, and a transaction may abort at any point and is then *)
(* restarted.  The state that a handler creates is named by the packet set *)
(* for which it creates it.                                                *)
(***************************************************************************)
EXTENDS ConcurrentMap

CONSTANTS
  Validity,   \* pkt_set_validity_duration
  Related     \* the id that add_pkt_set passes as related_pkt_set_id, or NoKey

(* Either no set has a related one (has_related_pkt_sets is false), or the *)
(* ids come in pairs; a handler adds a set for the first id of a pair.     *)
HasRelatedPktSets == \E k \in Keys : Related[k] # NoKey

Primary == IF HasRelatedPktSets THEN {k \in Keys : Related[k] # NoKey} ELSE Keys

ASSUME ManagerAssumption ==
  /\ Validity \in Nat
  /\ Related \in [Keys -> Keys \cup {NoKey}]
  /\ \A k \in Primary : Related[k] \notin Primary
  /\ \A j, k \in Primary : j # k /\ Related[j] # NoKey => Related[j] # Related[k]

VARIABLES
  map,             \* pkt_set_id_to_state
  pkt_set_state,   \* vector of packet-set states
  log_add,         \* per core: add_pkt_set_log_entry.add_pkt_set
  pkt_set_id,      \* per core: the id of the packet of an unknown set
  pc               \* per core: where it is in its loop

managerVars == <<map, pkt_set_state, log_add, pkt_set_id>>
vars == <<dchainVars, managerVars, pc>>

(* init_pkt_set_manager *)
Init ==
  /\ DchainInit
  /\ map = EmptyMap
  /\ pkt_set_state = [i \in Indexes |-> NoKey]
  /\ log_add = [c \in Cores |-> FALSE]
  /\ pkt_set_id = [c \in Cores |-> NoKey]
  /\ pc = [c \in Cores |-> "expire"]

Move(c, where) == pc' = [pc EXCEPT ![c] = where]
-----------------------------------------------------------------------------
(* delete_expired_pkt_sets.  An aborted transaction of the handler of      *)
(* expired sets is run again and changes nothing here.                     *)
ExpireFind(c) ==
  /\ pc[c] = "expire" /\ op[c] = "none"
  /\ HasExpiredIndex(c, now[c] - Validity)
  /\ Move(c, "expired_handler")
  /\ UNCHANGED <<dchainVars, managerVars>>

(* Fault: the related id stays in the map. *)
FaultEraseOnlyPrimary(m, c, i) == MapErase(m, m.id[i], c)

EraseSet(m, c, i) ==
  LET m1 == MapErase(m, m.id[i], c)
  IN  IF HasRelatedPktSets THEN MapErase(m1, m1.id[i + Size], c) ELSE m1

ExpireCommit(c) ==
  /\ pc[c] = "expired_handler"
  /\ map' = EraseSet(map, c, Oldest(c))
  /\ FreeIndex(c, Oldest(c))
  /\ Move(c, "expire")
  /\ UNCHANGED <<pkt_set_state, log_add, pkt_set_id>>

ExpireReturnIndex(c) ==
  /\ pc[c] = "expire"
  /\ FreeStep(c)
  /\ UNCHANGED <<managerVars, pc>>

(* Fault: the loop is left after any number of expirations. *)
FaultExpireEndsEarly(c) ==
  /\ pc[c] = "expire" /\ op[c] = "none"
  /\ Move(c, "serve")
  /\ UNCHANGED <<dchainVars, managerVars>>

ExpireEnd(c) ==
  /\ pc[c] = "expire" /\ op[c] = "none"
  /\ ~HasExpiredIndex(c, now[c] - Validity)
  /\ Move(c, "serve")
  /\ UNCHANGED <<dchainVars, managerVars>>
-----------------------------------------------------------------------------
(* get_pkt_set_state for the next packet.  If its set is registered, its   *)
(* index is rejuvenated; otherwise process_pkt starts the transaction of   *)
(* nf_unknown_pkt_set_handler, which begins with add_pkt_set_log_clear.    *)
IndexOf(e) == IF e >= Size THEN e - Size ELSE e

LookupHit(c, k) ==
  /\ pc[c] = "serve"
  /\ MapGet(map, k, c) # NoEntry
  /\ \E i \in Indexes : i = IndexOf(MapGet(map, k, c)) /\ RejuvenateIndex(c, i)
  /\ UNCHANGED <<managerVars, pc>>

LookupMiss(c, k) ==
  /\ pc[c] = "serve"
  /\ MapGet(map, k, c) = NoEntry
  /\ pkt_set_id' = [pkt_set_id EXCEPT ![c] = k]
  /\ log_add' = [log_add EXCEPT ![c] = FALSE]
  /\ Move(c, "handler")
  /\ UNCHANGED <<dchainVars, map, pkt_set_state>>

(* Fault: the entry is logged without looking for a free index. *)
FaultLogUnchecked(c) ==
  /\ pc[c] = "handler"
  /\ pkt_set_id[c] \in Primary
  /\ log_add' = [log_add EXCEPT ![c] = TRUE]
  /\ Move(c, "unlock")
  /\ UNCHANGED <<dchainVars, map, pkt_set_state, pkt_set_id>>

(* add_pkt_set, called by the handler at most once: add_pkt_set_log fails  *)
(* when the free list of the core, read without its lock, is empty.        *)
AddPktSetLog(c) ==
  /\ pc[c] = "handler"
  /\ pkt_set_id[c] \in Primary
  /\ log_add' = [log_add EXCEPT ![c] = IF HasFreeIndexes(c) THEN TRUE ELSE @]
  /\ Move(c, "unlock")
  /\ UNCHANGED <<dchainVars, map, pkt_set_state, pkt_set_id>>

(* The handler returns without adding the packet set. *)
HandlerSkips(c) ==
  /\ pc[c] = "handler"
  /\ Move(c, "unlock")
  /\ UNCHANGED <<dchainVars, managerVars>>

(* ABORT_HANDLER or failed read validation: unknown_restart. *)
HandlerAborts(c) ==
  /\ pc[c] \in {"handler", "unlock"}
  /\ log_add' = [log_add EXCEPT ![c] = FALSE]
  /\ Move(c, "handler")
  /\ UNCHANGED <<dchainVars, map, pkt_set_state, pkt_set_id>>

(* The transaction has committed: add_pkt_set_commit, if there is an entry *)
(* in the log, allocates an index ...                                      *)
CommitBegin(c) ==
  /\ pc[c] = "unlock" /\ log_add[c]
  /\ AllocateNewIndex(c)
  /\ Move(c, "commit")
  /\ UNCHANGED managerVars

CommitNothing(c) ==
  /\ pc[c] = "unlock" /\ ~log_add[c]
  /\ pkt_set_id' = [pkt_set_id EXCEPT ![c] = NoKey]
  /\ Move(c, "serve")
  /\ UNCHANGED <<dchainVars, map, pkt_set_state, log_add>>

CommitAllocates(c) ==
  /\ pc[c] = "commit" /\ op[c] # "link"
  /\ AllocateStep(c)
  /\ UNCHANGED <<managerVars, pc>>

(* ... enters it into the map and copies the logged state.  The code does  *)
(* not test whether the allocation succeeded; a core whose allocation had  *)
(* failed would stop here, in "commit" with no operation in progress.      *)
PutSet(m, c, k, i) ==
  LET m1 == MapPut(m, k, c, i)
  IN  IF HasRelatedPktSets THEN MapPut(m1, Related[k], c, i + Size) ELSE m1

(* Fault: the logged state is not copied. *)
FaultCommitNoState(c) ==
  LET i == cell[c] - INDEX_SHIFT IN
  /\ pc[c] = "commit" /\ op[c] = "link"
  /\ AllocLink(c)
  /\ map' = PutSet(map, c, pkt_set_id[c], i)
  /\ pkt_set_id' = [pkt_set_id EXCEPT ![c] = NoKey]
  /\ Move(c, "serve")
  /\ UNCHANGED <<pkt_set_state, log_add>>

CommitPut(c) ==
  LET i == cell[c] - INDEX_SHIFT IN
  /\ pc[c] = "commit" /\ op[c] = "link"
  /\ AllocLink(c)
  /\ map' = PutSet(map, c, pkt_set_id[c], i)
  /\ pkt_set_state' = [pkt_set_state EXCEPT ![i] = pkt_set_id[c]]
  /\ pkt_set_id' = [pkt_set_id EXCEPT ![c] = NoKey]
  /\ Move(c, "serve")
  /\ UNCHANGED log_add

(* The next iteration of the loop over the devices, after a tick of the    *)
(* timer or without one.                                                   *)
NextLoop(c) ==
  /\ pc[c] = "serve"
  /\ Move(c, "expire")
  /\ Tick(c) \/ UNCHANGED dchainVars
  /\ UNCHANGED managerVars

(* The steps that use no packet set, and all the steps. *)
UseNoSet(c) ==
  \/ ExpireFind(c) \/ ExpireCommit(c) \/ ExpireReturnIndex(c) \/ ExpireEnd(c)
  \/ \E k \in Keys : LookupMiss(c, k)
  \/ AddPktSetLog(c) \/ HandlerSkips(c) \/ HandlerAborts(c)
  \/ CommitBegin(c) \/ CommitNothing(c) \/ CommitAllocates(c)
  \/ NextLoop(c)

Next ==
  \E c \in Cores :
    \/ UseNoSet(c)
    \/ \E k \in Keys : LookupHit(c, k)
    \/ CommitPut(c)

Spec == Init /\ [][Next]_vars
-----------------------------------------------------------------------------
(* An index that add_pkt_set_log has seen in the core's free list, without *)
(* taking the lock, is still there when add_pkt_set_commit allocates it:   *)
(* no other core steals it in between, whatever aborts and retries come    *)
(* first.  So the unchecked allocation of add_pkt_set_commit never fails,  *)
(* and no core ever falls back to the global list.                         *)
CommitFindsLocalIndex ==
  /\ next[GLOBAL] = GLOBAL
  /\ \A c \in Cores :
       /\ log_add[c] /\ pc[c] = "unlock" => HasFreeIndexes(c)
       /\ pc[c] = "commit" => \/ op[c] \in {"lock", "pop", "unhook"} /\ HasFreeIndexes(c)
                              \/ op[c] = "link"

(* The lists of a core stay within its own heads and the chunk of indexes  *)
(* that init gave it, and so does the cell it is moving: no operation of   *)
(* one core, all of them without a lock but for the free-list heads, can   *)
(* follow a link into the lists of another.                                *)
Region(c) ==
  {ALLOC(c), FREE(c)} \cup {x \in IndexCells : (x - INDEX_SHIFT) \div Chunk = c}

PartitionsSeparate ==
  \A c \in Cores :
    /\ \A x \in Region(c) : next[x] \in Region(c) /\ prev[x] \in Region(c)
    /\ \A x \in Cells : list_ind[x] = c => x \in Region(c)
    /\ op[c] \in {"unhook", "link", "flock", "push", "hook"} => cell[c] \in Region(c)

(* When a core is not in the middle of an expiration, the chains of its    *)
(* partition hold exactly its allocated indexes (and those of the related  *)
(* sets), each once, in the bucket of its id and under an id of its own;   *)
(* an entry on no chain has no link left that a later put would follow.    *)
MapMatchesAllocList ==
  LET Buckets(c) == c * NumBuckets..(c + 1) * NumBuckets - 1
      Chained(c) == UNION {LET ch == Chain(map, b) IN {ch[n] : n \in DOMAIN ch} : b \in Buckets(c)}
      Length(c) == {p \in Buckets(c) \X (1..NumEntries + 1) : p[2] <= Len(Chain(map, p[1]))}
      Allocated(c) == {x - INDEX_SHIFT : x \in CellsOf(ALLOC(c))}
      Shared(c) == IF HasRelatedPktSets THEN {i + Size : i \in Allocated(c)} ELSE {}
  IN  /\ \A c \in Cores :
           /\ Chained(c) = Allocated(c) \cup Shared(c)
           /\ Cardinality(Length(c)) = Cardinality(Chained(c))
           /\ \A e \in Chained(c) : MapGet(map, map.id[e], c) = e
      /\ \A e \in Entries \ UNION {Chained(c) : c \in Cores} : map.map_chain_next[e] = NoEntry

(* While a core serves packets, no set of its partition is overdue: the    *)
(* loop of delete_expired_pkt_sets, which looks at the oldest index only,  *)
(* has removed them all.                                                   *)
NoOverdueSetServed ==
  \A c \in Cores : pc[c] \in {"serve", "handler", "unlock", "commit"} =>
    \A x \in CellsOf(ALLOC(c)) : time[x] >= now[c] - Validity

(* The manager implements the table of packet sets: a lookup finds a set   *)
(* exactly from its registration to its expiry, with the state that was    *)
(* registered for it.                                                      *)
Table == INSTANCE PktSetTable WITH
  table <- {<<p[1], p[2], pkt_set_state[IndexOf(MapGet(map, p[2], p[1]))]>> :
              p \in {q \in Cores \X Keys : MapGet(map, q[2], q[1]) # NoEntry}}

ImplementsPktSetTable == Table!Spec
=============================================================================
