------------------------------- MODULE Maglev -------------------------------
(***************************************************************************)
(* The load balancer (src/nf/maglev/main.c).  Heartbeats, on any core,     *)
(* keep the table of backends; a periodic handler removes the silent ones; *)
(* client packets, here of one core, whose packet sets they belong to, are *)
(* rewritten and sent to the backend of their flow.                        *)
(*                                                                         *)
(* The handlers for client packets write nothing transactional.  What an   *)
(* aborted run of them leaves behind is the rewritten header, the backend  *)
(* id in the packet-set state and, for a packet of an unknown set, the     *)
(* destination device; the run that commits starts from there.  The        *)
(* packet-set manager is its table of flows: a flow may expire between two *)
(* packets, and adding one may fail.                                       *)
(***************************************************************************)
EXTENDS PeriodicExpiry, Cht

CONSTANTS
  Backends,          \* addresses of backends, keys of the map
  LanDevices,        \* the devices heartbeats come from: all but wan_device
  Flows,             \* packet-set ids of clients
  DstOf,             \* the destination address in the id of a flow
  Fib,               \* address -> action "LB", "DROP" or "FORWARD" (see Mtrie)
  PktHash,           \* <<flow, destination address>> -> get_hash_from_pkt
  NoDevice           \* no destination: the packet is dropped

ASSUME MaglevAssumption ==
  /\ Backends = DOMAIN KHash
  /\ backend_capacity = Size
  /\ DstOf \in [Flows -> DOMAIN Fib]
  /\ Backends \subseteq DOMAIN Fib
  /\ NoDevice \notin LanDevices
  /\ PktHash \in [Flows \X DOMAIN Fib -> Nat]

VARIABLES
  backends, backend_ip_to_backend_id, backend_ips,
  backend_info,            \* [dev, ip]
  cht,
  flows,                   \* backend_id of a registered flow, NoFlow of the others
  pkt,                     \* the client packet in progress
  served                   \* history: the backend of the latest packet of a flow

pool == <<backends, backend_ip_to_backend_id, backend_ips, backend_info>>
maglev_vars == <<pool, cht, flows, pkt, clock, expiry, served>>

NoFlow == -1
Nobody == NoKey
NotSent == [dev |-> NoDevice, ip |-> Nobody]
NoPkt == [flow |-> NoFlow, dst_addr |-> Nobody, known |-> FALSE, dst |-> NotSent]

Alive == {i \in Indexes : nfos_dchain_exp_is_index_allocated(backends, i)}

(* nf_init *)
MaglevInit ==
  /\ backends = nfos_dchain_exp_allocate
  /\ backend_ip_to_backend_id = nfos_map_allocate(Size)
  /\ backend_ips = nfos_vector_allocate(Size, Nobody)
  /\ backend_info = nfos_vector_allocate(Size, NotSent)
  /\ cht = nfos_cht_fill_cht
  /\ flows = [f \in Flows |-> NoFlow]
  /\ pkt = NoPkt
  /\ clock = 0
  /\ exp_now = NoTime /\ expiration_done = FALSE
  /\ served = [f \in Flows |-> Nobody]
-----------------------------------------------------------------------------
(* heartbeat_handler for a backend that is not in the table ... *)
heartbeat_new(c, ip, dev, now) ==
  /\ nfos_map_get(backend_ip_to_backend_id, ip) = NoValue
  /\ \E a \in {nfos_dchain_exp_allocate_new_index(backends, c, now)} :
       /\ a.index # NoIndex
       /\ backends' = a.heap
       /\ backend_info' = BorrowMut(backend_info, a.index, [dev |-> dev, ip |-> ip])
       /\ backend_ips' = BorrowMut(backend_ips, a.index, ip)
       /\ backend_ip_to_backend_id' = nfos_map_put(backend_ip_to_backend_id, ip, a.index)
  /\ UNCHANGED <<cht, flows, pkt, clock, expiry, served>>

(* ... and for one that is; a backend for which there is no room is        *)
(* ignored, and the device of a known one is not looked at again.          *)
heartbeat_known(ip, now) ==
  \E id \in {nfos_map_get(backend_ip_to_backend_id, ip)} :
    /\ id # NoValue
    /\ backends' = nfos_dchain_exp_rejuvenate_index(backends, id, now)
    /\ UNCHANGED <<backend_ip_to_backend_id, backend_ips, backend_info>>
    /\ UNCHANGED <<cht, flows, pkt, clock, expiry, served>>
-----------------------------------------------------------------------------
(* A client packet arrives on a WAN device (nf_pkt_dispatcher), and        *)
(* process_pkt finds out whether its flow is registered.                   *)
Arrive(f) ==
  /\ pkt = NoPkt
  /\ pkt' = [flow |-> f, dst_addr |-> DstOf[f], known |-> flows[f] # NoFlow, dst |-> NotSent]
  /\ UNCHANGED <<pool, cht, flows, clock, expiry, served>>

(* send_pkt_to_backend: the new destination address, and the destination;  *)
(* backends are never on a WAN device, because heartbeats are not.         *)
ToBackend(id) == backend_info[id]

Prefer(p) == nfos_cht_find_preferred_available_backend(cht, PktHash[<<p.flow, p.dst_addr>>], Alive)

(* client_pkt_handler, as the header, the backend id and the destination   *)
(* it leaves.  The FIB is looked up with the address in the header.        *)
(* Fault: the assigned backend is not checked.                             *)
FaultClientUnchecked(p, backend_id) ==
  IF Fib[p.dst_addr] # "LB" THEN [id |-> backend_id, addr |-> p.dst_addr, dst |-> NotSent]
  ELSE [id |-> backend_id, addr |-> backend_info[backend_id].ip, dst |-> ToBackend(backend_id)]

client_pkt_handler(p, backend_id) ==
  LET id == IF backend_id \in Alive THEN backend_id ELSE Prefer(p)
  IN  IF Fib[p.dst_addr] # "LB" \/ id = NotFound
        THEN [id |-> backend_id, addr |-> p.dst_addr, dst |-> NotSent]
        ELSE [id |-> id, addr |-> backend_info[id].ip, dst |-> ToBackend(id)]

(* nf_unknown_pkt_set_handler, which does not look at the FIB and, when no *)
(* backend is found, leaves the destination as it is.                      *)
nf_unknown_pkt_set_handler(p) ==
  LET id == Prefer(p)
  IN  IF id = NotFound THEN [id |-> NoFlow, addr |-> p.dst_addr, dst |-> p.dst]
      ELSE [id |-> id, addr |-> backend_info[id].ip, dst |-> ToBackend(id)]

Handler == IF pkt.known THEN client_pkt_handler(pkt, flows[pkt.flow]) ELSE nf_unknown_pkt_set_handler(pkt)

(* The transaction of the packet aborts after its handler ran.             *)
Abort ==
  /\ pkt # NoPkt
  /\ \E r \in {Handler} :
       /\ pkt' = [pkt EXCEPT !.dst_addr = r.addr, !.dst = r.dst]
       /\ flows' = IF pkt.known THEN [flows EXCEPT ![pkt.flow] = r.id] ELSE flows
  /\ UNCHANGED <<pool, cht, clock, expiry, served>>

(* It commits, and add_pkt_set registers an unknown flow if there is room. *)
Commit(added) ==
  /\ pkt # NoPkt
  /\ pkt' = NoPkt
  /\ \E r \in {Handler} :
       /\ flows' = IF pkt.known \/ (added /\ r.id # NoFlow) THEN [flows EXCEPT ![pkt.flow] = r.id] ELSE flows
       /\ served' = IF flows'[pkt.flow] # NoFlow /\ r.dst # NotSent
                      THEN [served EXCEPT ![pkt.flow] = r.dst.ip] ELSE served
  /\ UNCHANGED <<pool, cht, clock, expiry>>

(* The packet set of a flow expires; nf_expired_pkt_set_handler does       *)
(* nothing.                                                                *)
FlowExpires(f) ==
  /\ pkt = NoPkt
  /\ flows[f] # NoFlow
  /\ flows' = [flows EXCEPT ![f] = NoFlow]
  /\ served' = [served EXCEPT ![f] = Nobody]
  /\ UNCHANGED <<pool, cht, pkt, clock, expiry>>
-----------------------------------------------------------------------------
(* expire_backend, as exp_mac in Bridge. *)
expire_backend ==
  /\ exp_now = NoTime
  /\ exp_now' = clock
  /\ expiration_done' = FALSE
  /\ UNCHANGED <<pool, cht, flows, pkt, clock, served>>

expire_backend_commits ==
  /\ exp_now # NoTime /\ ~expiration_done
  /\ exp_now' = NoTime
  /\ \E s \in {ExpireAll(backends, backend_ip_to_backend_id, backend_ips, exp_now)} :
       backends' = s.heap /\ backend_ip_to_backend_id' = s.map
  /\ LET gone == {backend_ips[i] : i \in Alive \ Alive'}
     IN  served' = [f \in Flows |-> IF served[f] \in gone THEN Nobody ELSE served[f]]
  /\ UNCHANGED <<backend_ips, backend_info, cht, flows, pkt, clock, expiration_done>>

expire_backend_commit_fails ==
  /\ exp_now # NoTime
  /\ expiration_done' = TRUE
  /\ UNCHANGED <<pool, cht, flows, pkt, clock, exp_now, served>>

expire_backend_retry_commits ==
  /\ exp_now # NoTime /\ expiration_done
  /\ exp_now' = NoTime
  /\ expiration_done' = FALSE
  /\ UNCHANGED <<pool, cht, flows, pkt, clock, served>>

MaglevAdvance ==
  /\ clock < MaxTime
  /\ clock' = clock + 1
  /\ UNCHANGED <<pool, cht, flows, pkt, expiry, served>>

MaglevNext ==
  \/ \E ip \in Backends, now \in CurrTimes :
       \/ \E c \in Cores, dev \in LanDevices : heartbeat_new(c, ip, dev, now)
       \/ heartbeat_known(ip, now)
  \/ \E f \in Flows : Arrive(f) \/ FlowExpires(f)
  \/ Abort
  \/ \E added \in BOOLEAN : Commit(added)
  \/ expire_backend \/ expire_backend_commits
  \/ expire_backend_commit_fails \/ expire_backend_retry_commits
  \/ MaglevAdvance

MaglevSpec == MaglevInit /\ [][MaglevNext]_maglev_vars
-----------------------------------------------------------------------------
(* The three structures of the backend table agree, and every live backend *)
(* is known by the address its packets are rewritten to.                   *)
BackendTableSound ==
  /\ TableSound(backends, backend_ip_to_backend_id, backend_ips)
  /\ \A i \in Alive : backend_info[i].ip = backend_ips[i]

(* Connection affinity: as long as the backend of a flow has not been      *)
(* removed, the packets of the flow that are sent at all go to it, however *)
(* often the handler was aborted, whichever backends come and go and       *)
(* whatever happens to the indexes they leave.  A flow whose backend was   *)
(* removed gets a live one.                                                *)
Committed == pkt # NoPkt /\ pkt' = NoPkt
FlowAffinity ==
  [][Committed /\ pkt.known /\ Handler.dst # NotSent =>
       IF served[pkt.flow] # Nobody THEN Handler.dst.ip = served[pkt.flow]
       ELSE \E i \in Alive : backend_ips[i] = Handler.dst.ip]_maglev_vars

(* As long as any backend is alive, no client packet with a route to the   *)
(* pool is dropped, unless an aborted run has rewritten its header: the    *)
(* list of every bucket names every backend.                               *)
PoolServesAll ==
  [][Committed /\ Fib[pkt.dst_addr] = "LB" /\ Alive # {} => Handler.dst # NotSent]_maglev_vars

(* Minimal disruption: when backends come or go, a hash keeps its          *)
(* preferred backend unless that one went or one that came is preferred.   *)
PreferredAt(hash) == nfos_cht_find_preferred_available_backend(cht, hash, Alive)
MinimalDisruption ==
  [][\A h \in Buckets :
       PreferredAt(h)' # PreferredAt(h) =>
         PreferredAt(h) \notin Alive' \/ PreferredAt(h)' \notin Alive]_maglev_vars
=============================================================================
