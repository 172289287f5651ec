------------------------------- MODULE Bridge -------------------------------
(***************************************************************************)
(* The learning bridge (src/nf/bridge/main.c) on the transactional map,    *)
(* vectors and expiring allocator.  Data-plane cores run pkt_handler on    *)
(* frames, one more core runs exp_mac periodically.  A batch of frames is  *)
(* one transaction, which amounts to the handlers of its frames running    *)
(* one after the other; a transaction that aborts changes nothing here.    *)
(***************************************************************************)
EXTENDS PeriodicExpiry

CONSTANTS
  Macs,               \* the stations, keys of dyn_map
  Devices,            \* devices of the bridge
  Frames,             \* the frames that arrive: source, destination, device
  FLOOD_PORT, Drop,   \* other fates of a frame
  REFRESH_INTERVAL

(* The refresh interval may exceed the validity, as it does with the       *)
(* values of bridge_config.h: entries then expire before any refresh.      *)
ASSUME BridgeAssumption ==
  /\ Macs = DOMAIN KHash
  /\ Devices \subseteq Nat
  /\ Frames \subseteq Macs \X Macs \X Devices
  /\ REFRESH_INTERVAL \in Nat
  /\ INT64_MAX > MaxTime + validity_duration

VARIABLES
  dyn_heap, dyn_map, dyn_macs,
  dyn_vals,          \* [dev, time]
  last_seen, sent    \* history: time of the latest frame from a station; the latest frame and its fate

table == <<dyn_heap, dyn_map, dyn_macs, dyn_vals>>
history == <<last_seen, sent>>
bridge_vars == <<table, clock, expiry, history>>

(* nf_init; dev_allocate initialises the values. *)
BridgeInit ==
  /\ dyn_heap = nfos_dchain_exp_allocate
  /\ dyn_map = nfos_map_allocate(Size)
  /\ dyn_macs = nfos_vector_allocate(Size, NoKey)
  /\ dyn_vals = nfos_vector_allocate(Size, [dev |-> 0, time |-> INT64_MAX])
  /\ clock = 0
  /\ exp_now = NoTime /\ expiration_done = FALSE
  /\ last_seen = [m \in Macs |-> 0]
  /\ sent = <<>>

(* The forwarding half of pkt_handler. *)
Forward(map, vals, dst) ==
  LET out_index == nfos_map_get(map, dst)
  IN  IF out_index = NoValue THEN FLOOD_PORT ELSE vals[out_index].dev

Seen(src, now) ==
  last_seen' = [last_seen EXCEPT ![src] = IF nfos_map_get(dyn_map, src) # NoValue /\ @ > now THEN @ ELSE now]

(* pkt_handler for a known source, which is refreshed at most once in an   *)
(* interval and is not moved to another device.                            *)
(* Fault: the index is not rejuvenated with the value.                     *)
FaultRefreshOnlyValue(index, now) ==
  /\ UNCHANGED dyn_heap
  /\ dyn_vals' = IF now > dyn_vals[index].time + REFRESH_INTERVAL
                   THEN BorrowMut(dyn_vals, index, [dyn_vals[index] EXCEPT !.time = now])
                   ELSE dyn_vals

Refresh(index, now) ==
  IF now > dyn_vals[index].time + REFRESH_INTERVAL
    THEN /\ dyn_heap' = nfos_dchain_exp_rejuvenate_index(dyn_heap, index, now)
         /\ dyn_vals' = BorrowMut(dyn_vals, index, [dyn_vals[index] EXCEPT !.time = now])
    ELSE UNCHANGED <<dyn_heap, dyn_vals>>

pkt_handler_known(src, dst, incoming_dev, now) ==
  LET index == nfos_map_get(dyn_map, src) IN
  /\ index # NoValue
  /\ Refresh(index, now)
  /\ sent' = <<<<src, dst, incoming_dev>>, Forward(dyn_map, dyn_vals, dst)>>
  /\ Seen(src, now)
  /\ UNCHANGED <<dyn_map, dyn_macs, clock, expiry>>

(* pkt_handler for a new source. *)
pkt_handler_new(c, src, dst, incoming_dev, now) ==
  /\ nfos_map_get(dyn_map, src) = NoValue
  /\ \E a \in {nfos_dchain_exp_allocate_new_index(dyn_heap, c, now)} :
       /\ a.index # NoIndex
       /\ dyn_heap' = a.heap
       /\ dyn_macs' = BorrowMut(dyn_macs, a.index, src)
       /\ dyn_vals' = BorrowMut(dyn_vals, a.index, [dev |-> incoming_dev, time |-> now])
       /\ dyn_map' = nfos_map_put(dyn_map, src, a.index)
  /\ sent' = <<<<src, dst, incoming_dev>>, Forward(dyn_map', dyn_vals', dst)>>
  /\ Seen(src, now)
  /\ UNCHANGED <<clock, expiry>>

(* No index is left: the handler returns without a destination. *)
pkt_handler_full(c, src, dst, incoming_dev, now) ==
  /\ nfos_map_get(dyn_map, src) = NoValue
  /\ nfos_dchain_exp_allocate_new_index(dyn_heap, c, now).index = NoIndex
  /\ sent' = <<<<src, dst, incoming_dev>>, Drop>>
  /\ UNCHANGED <<table, clock, expiry, last_seen>>
-----------------------------------------------------------------------------
(* exp_mac: the periodic core wakes up and reads the clock ... *)
exp_mac ==
  /\ exp_now = NoTime
  /\ exp_now' = clock
  /\ expiration_done' = FALSE
  /\ UNCHANGED <<table, clock, history>>

(* ... the loop runs and the transaction commits ... *)
exp_mac_commits ==
  /\ exp_now # NoTime /\ ~expiration_done
  /\ exp_now' = NoTime
  /\ \E s \in {ExpireAll(dyn_heap, dyn_map, dyn_macs, exp_now)} :
       dyn_heap' = s.heap /\ dyn_map' = s.map
  /\ last_seen' = [m \in Macs |-> IF nfos_map_get(dyn_map', m) = NoValue THEN 0 ELSE last_seen[m]]
  /\ UNCHANGED <<dyn_macs, dyn_vals, clock, expiration_done, sent>>

(* ... or fails after the loop, which left the flag set.  An abort inside  *)
(* the loop changes nothing.                                               *)
exp_mac_commit_fails ==
  /\ exp_now # NoTime
  /\ expiration_done' = TRUE
  /\ UNCHANGED <<table, clock, exp_now, history>>

(* With the flag set, the loop is skipped when the transaction is retried. *)
exp_mac_retry_commits ==
  /\ exp_now # NoTime /\ expiration_done
  /\ exp_now' = NoTime
  /\ expiration_done' = FALSE
  /\ UNCHANGED <<table, clock, history>>

BridgeAdvance ==
  /\ clock < MaxTime
  /\ clock' = clock + 1
  /\ UNCHANGED <<table, expiry, history>>

BridgeNext ==
  \/ \E f \in Frames, now \in CurrTimes :
       \/ pkt_handler_known(f[1], f[2], f[3], now)
       \/ \E c \in Cores : pkt_handler_new(c, f[1], f[2], f[3], now) \/ pkt_handler_full(c, f[1], f[2], f[3], now)
  \/ exp_mac \/ exp_mac_commits \/ exp_mac_commit_fails \/ exp_mac_retry_commits
  \/ BridgeAdvance

(* The periodic core sleeps and wakes up for ever, and a conflict with the *)
(* other cores does not meet every one of its commits.                     *)
Fairness == WF_bridge_vars(exp_mac) /\ SF_bridge_vars(exp_mac_commits) /\ WF_bridge_vars(exp_mac_retry_commits)

BridgeSpec == BridgeInit /\ [][BridgeNext]_bridge_vars /\ Fairness
-----------------------------------------------------------------------------
(* The heap, the map and the vector of addresses describe one table, after *)
(* any sequence of learning, refilling, stealing, refreshing and expiring; *)
(* the search of the map never misses an address.                          *)
BridgeTableSound == TableSound(dyn_heap, dyn_map, dyn_macs)

(* A pass of exp_mac whose loop ran leaves no entry that was overdue when  *)
(* it began, up to the differences between the clocks of the cores: it     *)
(* looks only at the first entry of each list.                             *)
PassRemovesOverdue ==
  [][exp_now # NoTime /\ exp_now' = NoTime /\ ~expiration_done =>
       \A i \in Indexes : nfos_dchain_exp_is_index_allocated(dyn_heap, i)' => dyn_heap'.time[i + INDEX_SHIFT] + MaxLag >= exp_now]_bridge_vars

(* A station that stops sending is forgotten in the end, although a pass   *)
(* does nothing after a failed commit.                                     *)
Overdue(i) == nfos_dchain_exp_is_index_allocated(dyn_heap, i) /\ dyn_heap.time[i + INDEX_SHIFT] + MaxLag < clock

QuietStationsForgotten == \A i \in Indexes : Overdue(i) ~> ~Overdue(i)

(* The values that a map leads to: devices, and times of the latest        *)
(* refresh.                                                                *)
ValueOf(map, vals, m) == vals[map[CHOOSE x \in DOMAIN map : Holds(map[x], m)].vals]
LearnedBy(map, vals) ==
  [m \in Macs |-> IF \E x \in DOMAIN map : Holds(map[x], m) THEN ValueOf(map, vals, m).dev ELSE NoValue]
RenewedBy(map, vals) ==
  [m \in Macs |-> IF \E x \in DOMAIN map : Holds(map[x], m) THEN ValueOf(map, vals, m).time ELSE 0]

Learned == LearnedBy(dyn_map, dyn_vals)
RenewedAt == RenewedBy(dyn_map, dyn_vals)

Abstract == INSTANCE MacTable WITH
  Unlearned <- NoValue, Flood <- FLOOD_PORT, NoPass <- NoTime, Room <- Size,
  ExpirationTime <- validity_duration, RefreshInterval <- REFRESH_INTERVAL,
  table <- Learned, renewed <- RenewedAt, pass <- exp_now, failed <- expiration_done

(* The bridge implements the abstract one: every frame goes where its own  *)
(* destination was learned, stations are learned behind the device their   *)
(* frame came from, and a pass whose loop ran and committed removes the    *)
(* entries not refreshed for EXPIRATION_TIME and no others.  As the        *)
(* comment on the refresh says, a station is then forgotten between        *)
(* EXPIRATION_TIME - REFRESH_INTERVAL and EXPIRATION_TIME after its last   *)
(* frame, which protects an active station if the first of these is a time *)
(* and not negative.                                                       *)
ImplementsMacTable == Abstract!Spec
=============================================================================
