----------------------------- MODULE DataPlane ------------------------------
(***************************************************************************)
(* process_pkt of src/src/data-plane.c, built with PKT_PROCESS_BATCHING    *)
(* and MUTABLE_PKT_SET_STATE, on one core.  A batch of packets is run      *)
(* through the handlers of the NF in transactions: one for a whole batch   *)
(* of orphan packets, one for each maximal range of packets of registered  *)
(* packet sets, and one for each packet of an unknown set.  A transaction  *)
(* that aborts is run again, and the framework has to undo by itself what  *)
(* the transactional memory does not: packet-set states, the destination   *)
(* of the packet and the log of add_pkt_set.                               *)
(*                                                                         *)
(* The handlers and the transactional memory are external: a handler       *)
(* writes any packet-set state, chooses any destination, or none to drop   *)
(* the packet, and may abort, and so may the commit, whenever another core *)
(* conflicts.  The packet-set manager is its table: which sets are         *)
(* registered.                                                             *)
(***************************************************************************)
EXTENDS Integers, Sequences, FiniteSetsExt

CONSTANTS
  Ids,          \* packet-set ids
  Outputs,      \* destinations a handler can choose (FLOOD_PORT is one of them)
  Device,       \* the device of the batch: as a destination, it means drop
  PktSetStates, \* values of pkt_set_state_t
  MaxBatch      \* MAX_BATCH

ASSUME DataPlaneAssumption ==
  /\ Device \notin Outputs
  /\ PktSetStates # {}
  /\ MaxBatch \in Nat \ {0}

VARIABLES
  batch,        \* the packets: [id, parsed]
  dst_devices,  \* result for every packet
  dst_device,   \* the per-core variable that send_pkt writes
  n,            \* next packet
  start_n, end_n,      \* range of packets of registered sets
  pkt_set_state,       \* state of every packet set
  pkt_set_state_log,   \* copies taken before each handler of a range
  registered,   \* ids in the packet-set map
  add_logged,   \* add_pkt_set_log_entry.add_pkt_set
  pc,
  txn, done,    \* history: what the handlers run in this transaction, and in
                \* the committed ones of this batch, decided
  before,       \* history: packet-set states when the range began
  asked,        \* history: the last handler of an unknown set has added it
  wanted        \* history: sets added by committed handlers and not expired

results == <<dst_devices, dst_device>>
range == <<start_n, end_n, pkt_set_state_log, before>>
sets == <<registered, add_logged, asked, wanted>>
vars == <<batch, results, n, range, pkt_set_state, sets, pc, txn, done>>

Packets == [id : Ids, parsed : BOOLEAN]
Decisions == {Device} \cup Outputs

Init ==
  /\ batch = <<>> /\ dst_devices = <<>>
  /\ dst_device = Device
  /\ n = 1 /\ start_n = 1 /\ end_n = 1
  /\ pkt_set_state \in [Ids -> PktSetStates]
  /\ pkt_set_state_log = <<>>
  /\ registered = {} /\ wanted = {}
  /\ add_logged = FALSE /\ asked = FALSE
  /\ pc = "idle"
  /\ txn = <<>> /\ done = <<>>
  /\ before = pkt_set_state
-----------------------------------------------------------------------------
(* The next packet after k without a parsing error, or the batch size + 1. *)
NextParsed(b, k) == Min({j \in k + 1..Len(b) : b[j].parsed} \cup {Len(b) + 1})

(* The first packet from k on whose set is not in the map: the packets are *)
(* looked up one by one until a lookup fails.                              *)
FaultRangeEndsAtUnparsed(map, b, k) ==
  Min({j \in k..Len(b) : b[j].id \notin map} \cup {Len(b) + 1})

RangeEnd(map, b, k) ==
  Min({j \in k..Len(b) : b[j].parsed /\ b[j].id \notin map} \cup {Len(b) + 1})

(* Packet k of batch b is looked up: the end of the batch, a range, or a   *)
(* packet of an unknown set, for which dst_device is reset.                *)
Dispatch(b, k) ==
  /\ n' = k
  /\ IF k > Len(b)
       THEN pc' = "done" /\ UNCHANGED <<range, dst_device>>
     ELSE IF b[k].id \in registered'
       THEN /\ pc' = "range"
            /\ start_n' = k
            /\ end_n' = RangeEnd(registered', b, k)
            /\ pkt_set_state_log' = <<>>
            /\ before' = pkt_set_state'
            /\ UNCHANGED dst_device
     ELSE pc' = "unknown" /\ dst_device' = Device /\ UNCHANGED range

(* The stateless part: parse the packets and find out whether they have    *)
(* packet-set state, which the code assumes of all or none of a batch.     *)
Receive(b, has_pkt_set_state) ==
  /\ pc = "idle"
  /\ batch' = b
  /\ dst_devices' = [i \in 1..Len(b) |-> Device]
  /\ UNCHANGED <<pkt_set_state, sets, txn, done>>
  /\ IF has_pkt_set_state
       THEN Dispatch(b, NextParsed(b, 0))
       ELSE /\ n' = NextParsed(b, 0)
            /\ pc' = "orphan"
            /\ UNCHANGED <<dst_device, range>>

(* Between batches a packet set may expire.                                *)
Expire(s) ==
  /\ pc = "idle"
  /\ s \in registered
  /\ registered' = registered \ {s}
  /\ wanted' = wanted \ {s}
  /\ UNCHANGED <<batch, results, n, range, pkt_set_state, add_logged, asked, pc, txn, done>>

(* send_pkt and flood_pkt set the destination, drop_pkt does nothing. *)
Decide(d, default) == IF d = Device THEN default ELSE d

Ran(kind, d) == Append(txn, [pkt |-> n, kind |-> kind, dst |-> d])
-----------------------------------------------------------------------------
(* Orphan packets: the whole batch is one transaction. *)
OrphanHandler(d) ==
  /\ pc = "orphan" /\ n <= Len(batch)
  /\ dst_device' = Decide(d, dst_devices[n])
  /\ dst_devices' = [dst_devices EXCEPT ![n] = dst_device']
  /\ n' = NextParsed(batch, n)
  /\ txn' = Ran("orphan", d)
  /\ UNCHANGED <<batch, range, pkt_set_state, sets, pc, done>>

(* A handler returns ABORT_HANDLER, perhaps after a send_pkt, or the       *)
(* commit fails: no_pkt_set_restart.                                       *)
OrphanAborts(d) ==
  /\ pc = "orphan"
  /\ dst_device' = IF n <= Len(batch) THEN Decide(d, dst_devices[n]) ELSE dst_device
  /\ n' = NextParsed(batch, 0)
  /\ txn' = <<>>
  /\ UNCHANGED <<batch, dst_devices, range, pkt_set_state, sets, pc, done>>

OrphanCommits ==
  /\ pc = "orphan" /\ n > Len(batch)
  /\ done' = done \o txn
  /\ txn' = <<>>
  /\ pc' = "done"
  /\ UNCHANGED <<batch, results, n, range, pkt_set_state, sets>>
-----------------------------------------------------------------------------
(* A packet of an unknown set: add_pkt_set_log_clear, then the handler,    *)
(* which may call add_pkt_set.                                             *)
FaultUnknownKeepsLog(d, add) ==
  /\ pc = "unknown"
  /\ add_logged' = (add_logged \/ add)
  /\ asked' = add
  /\ dst_device' = Decide(d, dst_device)
  /\ txn' = Ran("unknown", d)
  /\ pc' = "unknown_unlock"
  /\ UNCHANGED <<batch, dst_devices, n, range, pkt_set_state, registered, wanted, done>>

UnknownHandler(d, add) ==
  /\ pc = "unknown"
  /\ add_logged' = add
  /\ asked' = add
  /\ dst_device' = Decide(d, dst_device)
  /\ txn' = Ran("unknown", d)
  /\ pc' = "unknown_unlock"
  /\ UNCHANGED <<batch, dst_devices, n, range, pkt_set_state, registered, wanted, done>>

(* The handler aborts after whatever it did, or the commit fails:          *)
(* unknown_restart, where neither dst_device nor the log has been reset.   *)
UnknownHandlerAborts(d, add) ==
  /\ pc = "unknown"
  /\ add_logged' = add
  /\ dst_device' = Decide(d, dst_device)
  /\ UNCHANGED <<batch, dst_devices, n, range, pkt_set_state, registered, wanted, asked, pc, txn, done>>

UnknownCommitFails ==
  /\ pc = "unknown_unlock"
  /\ pc' = "unknown"
  /\ txn' = <<>>
  /\ UNCHANGED <<batch, results, n, range, pkt_set_state, sets, done>>

(* add_pkt_set_commit registers a logged set with the state that was       *)
(* logged for it; then the next packet is looked up.                       *)
UnknownCommits(v) ==
  LET id == batch[n].id IN
  /\ pc = "unknown_unlock"
  /\ registered' = IF add_logged THEN registered \cup {id} ELSE registered
  /\ pkt_set_state' = IF add_logged THEN [pkt_set_state EXCEPT ![id] = v] ELSE pkt_set_state
  /\ wanted' = IF asked THEN wanted \cup {id} ELSE wanted
  /\ dst_devices' = [dst_devices EXCEPT ![n] = dst_device]
  /\ done' = done \o txn
  /\ txn' = <<>>
  /\ UNCHANGED <<batch, add_logged, asked>>
  /\ Dispatch(batch, NextParsed(batch, n))
-----------------------------------------------------------------------------
(* Packets of registered sets.  log_one_pkt_set_state; dst_device is reset *)
(* for every packet; the handler writes the state in place.                *)
LogOne(id) == Append(pkt_set_state_log, [id |-> id, state |-> pkt_set_state[id]])

FaultRangeHandlerKeepsDst(d, v) ==
  LET id == batch[n].id IN
  /\ pc = "range" /\ n < end_n
  /\ pkt_set_state_log' = LogOne(id)
  /\ pkt_set_state' = [pkt_set_state EXCEPT ![id] = v]
  /\ dst_device' = Decide(d, dst_device)
  /\ dst_devices' = [dst_devices EXCEPT ![n] = dst_device']
  /\ n' = NextParsed(batch, n)
  /\ txn' = Ran("registered", d)
  /\ UNCHANGED <<batch, start_n, end_n, before, sets, pc, done>>

RangeHandler(d, v) ==
  LET id == batch[n].id IN
  /\ pc = "range" /\ n < end_n
  /\ pkt_set_state_log' = LogOne(id)
  /\ pkt_set_state' = [pkt_set_state EXCEPT ![id] = v]
  /\ dst_device' = Decide(d, Device)
  /\ dst_devices' = [dst_devices EXCEPT ![n] = dst_device']
  /\ n' = NextParsed(batch, n)
  /\ txn' = Ran("registered", d)
  /\ UNCHANGED <<batch, start_n, end_n, before, sets, pc, done>>

(* rollback_pkt_set_states: copy the log back, oldest entry first, so that *)
(* of two entries for one set the later one stays.                         *)
Rollback(states, log) ==
  [id \in Ids |->
     LET entries == {i \in DOMAIN log : log[i].id = id}
     IN  IF entries = {} THEN states[id] ELSE log[Max(entries)].state]

(* nfos_abort_txn, rollback and goto restart.  Faults: no rollback; the    *)
(* label is after the assignment to n.                                     *)
FaultRestartNoRollback(log, d) ==
  /\ pkt_set_state_log' = <<>>
  /\ n' = start_n
  /\ dst_device' = d
  /\ txn' = <<>>
  /\ UNCHANGED <<batch, dst_devices, start_n, end_n, before, pkt_set_state, sets, pc, done>>

FaultRestartKeepsN(log, d) ==
  /\ pkt_set_state' = Rollback(pkt_set_state, log)
  /\ pkt_set_state_log' = <<>>
  /\ dst_device' = d
  /\ txn' = <<>>
  /\ UNCHANGED <<batch, dst_devices, n, start_n, end_n, before, sets, pc, done>>

RangeRestarts(log, d) ==
  /\ pkt_set_state' = Rollback(pkt_set_state, log)
  /\ pkt_set_state_log' = <<>>
  /\ n' = start_n
  /\ dst_device' = d
  /\ txn' = <<>>
  /\ UNCHANGED <<batch, dst_devices, start_n, end_n, before, sets, pc, done>>

RangeHandlerAborts(d) ==
  /\ pc = "range" /\ n < end_n
  /\ RangeRestarts(LogOne(batch[n].id), d)

RangeCommitFails ==
  /\ pc = "range" /\ n >= end_n
  /\ RangeRestarts(pkt_set_state_log, dst_device)

(* The packet that ended the range has failed its lookup already. *)
RangeCommits ==
  /\ pc = "range" /\ n >= end_n
  /\ done' = done \o txn
  /\ txn' = <<>>
  /\ IF n > Len(batch)
       THEN pc' = "done" /\ UNCHANGED dst_device
       ELSE pc' = "unknown" /\ dst_device' = Device
  /\ UNCHANGED <<batch, dst_devices, n, range, pkt_set_state, sets>>
-----------------------------------------------------------------------------
(* process_pkt returns and its local variables go out of scope. *)
Return ==
  /\ pc = "done"
  /\ pc' = "idle"
  /\ batch' = <<>> /\ dst_devices' = <<>>
  /\ n' = 1 /\ start_n' = 1 /\ end_n' = 1
  /\ pkt_set_state_log' = <<>>
  /\ done' = <<>> /\ before' = pkt_set_state /\ asked' = FALSE
  /\ UNCHANGED <<dst_device, pkt_set_state, registered, add_logged, wanted, txn>>

(* Everything but the return. *)
ProcessBurst ==
  \/ \E l \in 1..MaxBatch : \E b \in [1..l -> Packets], h \in BOOLEAN : Receive(b, h)
  \/ \E s \in Ids : Expire(s)
  \/ \E d \in Decisions :
       \/ OrphanHandler(d) \/ OrphanAborts(d)
       \/ \E add \in BOOLEAN : UnknownHandler(d, add) \/ UnknownHandlerAborts(d, add)
       \/ \E v \in PktSetStates : RangeHandler(d, v)
       \/ RangeHandlerAborts(d)
  \/ OrphanCommits
  \/ UnknownCommitFails
  \/ \E v \in PktSetStates : UnknownCommits(v)
  \/ RangeCommitFails
  \/ RangeCommits

Next == ProcessBurst \/ Return

Spec == Init /\ [][Next]_vars
-----------------------------------------------------------------------------
(* However often transactions abort, when process_pkt returns every packet *)
(* that parses was handled in exactly one committed handler run, in the    *)
(* order of the batch, and one that does not parse was never handled and   *)
(* is dropped.                                                             *)
EachPacketOnce ==
  pc = "done" =>
    /\ \A i \in DOMAIN batch :
         IF batch[i].parsed THEN \E j \in DOMAIN done : done[j].pkt = i
         ELSE dst_devices[i] = Device
    /\ \A j \in DOMAIN done : batch[done[j].pkt].parsed
    /\ \A i, j \in DOMAIN done : i < j => done[i].pkt < done[j].pkt

(* A packet of a registered set goes where its committed handler sent it,  *)
(* and is dropped if that handler chose no destination, whatever aborted   *)
(* runs of it chose.                                                       *)
RegisteredSentAsDecided ==
  pc = "done" =>
    \A j \in DOMAIN done : done[j].kind = "registered" => dst_devices[done[j].pkt] = done[j].dst

(* The same for every packet, as the comment on the reset of dst_device    *)
(* has it.  Orphan packets and packets of unknown sets keep a destination  *)
(* that an aborted run of the handler chose.                               *)
SentAsDecided ==
  pc = "done" => \A j \in DOMAIN done : dst_devices[done[j].pkt] = done[j].dst

(* The handler of unknown sets never runs for a registered set, nor a      *)
(* packet handler for an unregistered one, though the lookups precede the  *)
(* handlers of a whole range; so no id is put into the map twice.          *)
HandlersMatchRegistration ==
  /\ pc \in {"unknown", "unknown_unlock"} => batch[n].id \notin registered
  /\ pc = "range" => \A i \in start_n..end_n - 1 : batch[i].parsed => batch[i].id \in registered

(* Exactly the sets that committed handlers added are registered: what an  *)
(* aborted run logged is never committed with a later run.                 *)
OnlyCommittedSetsRegistered == registered = wanted

(* When a range starts, also after an abort, the packet sets have the      *)
(* states they had before the range, if each has one packet in the range.  *)
RangeIds(s) == {i \in start_n..end_n - 1 : batch[i].parsed /\ batch[i].id = s}

SingleSetsRolledBack ==
  pc = "range" /\ pkt_set_state_log = <<>> =>
    \A s \in Ids : Cardinality(RangeIds(s)) <= 1 => pkt_set_state[s] = before[s]
=============================================================================
