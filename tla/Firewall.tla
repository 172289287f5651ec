------------------------------ MODULE Firewall ------------------------------
(***************************************************************************)
(* The stateful firewall (src/nf/fw/main.c): packets from the LAN open     *)
(* flows and leave as the forwarding table says, packets from the WAN pass *)
(* if their flow is open.  The flows are the packet sets of one core, the  *)
(* one that the NIC gives both directions of them to; a flow may expire    *)
(* between two packets, and opening one may fail.                          *)
(*                                                                         *)
(* The handlers never abort, but the commit that follows may fail, and the *)
(* flags in the state of the flow have been updated by then: nothing       *)
(* restores them, because the firewall is built without                    *)
(* MUTABLE_PKT_SET_STATE.  Left out: MAC addresses, and the test of        *)
(* time_to_live, whose drop_pkt does nothing.                              *)
(***************************************************************************)
EXTENDS Mtrie

CONSTANTS
  LAN_DEVICE, WAN_DEVICE,
  Endpoints,        \* address and port of a host: an address of the FIB
  Flags,            \* TCP flags
  Tcp               \* the pairs of endpoints that talk TCP

ASSUME FirewallAssumption ==
  /\ Devices = {LAN_DEVICE, WAN_DEVICE} /\ LAN_DEVICE # WAN_DEVICE
  /\ Endpoints \subseteq Addresses

VARIABLES
  phase,       \* nf_init adds routes ("init"), then traffic ("run")
  flows,       \* state of the packet sets: {} or one [internal_device, tcp_flag]
  pkt,         \* the packet in progress, NoPkt if none: [dev, src, dst, flags, known]
  seen         \* history: the flags of the packets of an open flow after the first, by direction

fw == <<flows, pkt, seen>>
fwVars == <<trie, routes, phase, fw>>

NoPkt == [dev |-> -1]
Ids == Endpoints \X Endpoints        \* <<internal, external>>
NoFlags == [is_input \in BOOLEAN |-> {}]

(* The load-balance objects that nf_init creates. *)
DROP == 0
FORWARD == 1
load_balance_pool ==
  [adj \in {DROP, FORWARD} |->
     IF adj = DROP THEN [action |-> "DROP", send_device |-> -1] ELSE [action |-> "FORWARD", send_device |-> WAN_DEVICE]]

NoFlows == [id \in Ids |-> {}]
NothingSeen == [id \in Ids |-> NoFlags]

Init ==
  /\ trie = EmptyTries
  /\ routes = <<>>
  /\ phase = "init"
  /\ flows = NoFlows
  /\ pkt = NoPkt
  /\ seen = NothingSeen

(* Any routes can be added; the firewall runs with these. *)
nf_init(r, adj) ==
  /\ phase = "init"
  /\ Len(routes) < MaxRoutes
  /\ route_add(r[1], r[2], r[3], adj)
  /\ UNCHANGED <<phase, fw>>

Route(dev, len, adj) == [dev |-> dev, addr |-> 0, len |-> len, adj |-> adj]
FirewallRoutes ==
  <<Route(LAN_DEVICE, 0, FORWARD), Route(LAN_DEVICE, AddressBits, DROP),
    Route(WAN_DEVICE, 0, FORWARD), Route(WAN_DEVICE, AddressBits, DROP)>>

nf_init_returns ==
  /\ phase = "init"
  /\ routes = FirewallRoutes
  /\ phase' = "run"
  /\ UNCHANGED <<trie, routes, fw>>

(* The program is stopped and started again, perhaps with other routes:    *)
(* it keeps nothing, and replies to open flows no longer enter.            *)
Restart ==
  /\ phase = "run" \/ Len(routes) = MaxRoutes
  /\ trie' = EmptyTries
  /\ routes' = <<>>
  /\ phase' = "init"
  /\ flows' = NoFlows
  /\ pkt' = NoPkt
  /\ seen' = NothingSeen
-----------------------------------------------------------------------------
(* Fault: the source of every packet is taken for the internal endpoint. *)
FaultDispatcherOneWay(p) == <<p.src, p.dst>>

nf_pkt_dispatcher(p) == IF p.dev # WAN_DEVICE THEN <<p.src, p.dst>> ELSE <<p.dst, p.src>>

(* process_pkt looks the flow of a packet up before it runs a handler. *)
Arrive(dev, src, dst, flags) ==
  /\ phase = "run"
  /\ pkt = NoPkt
  /\ \E known \in BOOLEAN :
       LET p == [dev |-> dev, src |-> src, dst |-> dst, flags |-> flags, known |-> known] IN
       known = (flows[nf_pkt_dispatcher(p)] # {}) /\ pkt' = p
  /\ UNCHANGED <<trie, routes, phase, flows, seen>>

(* Fault: the flags of the latest packet take the place of the others. *)
FaultTrackLatest(is_input, tcp_flag, flags) == [tcp_flag EXCEPT ![is_input] = flags]

track_session(is_input, tcp_flag, flags) == [tcp_flag EXCEPT ![is_input] = @ \cup flags]

(* pkt_handler, as the state of the flow and the destination it leaves;    *)
(* the device of the packet as destination means that it is dropped.       *)
pkt_handler(p, state) ==
  [state |-> IF <<p.src, p.dst>> \in Tcp
               THEN [state EXCEPT !.tcp_flag = track_session(p.dev # WAN_DEVICE, @, p.flags)] ELSE state,
   dst |-> IF p.dev = WAN_DEVICE THEN state.internal_device
           ELSE LET dpo == load_balance_pool[Lookup(p.dev, p.dst)]
                IN  IF dpo.action = "FORWARD" THEN dpo.send_device ELSE p.dev]

(* nf_unknown_pkt_set_handler.  add_pkt_set copies the new state before    *)
(* pkt_handler updates it: the flags of the first packet are not kept.     *)
NewFlow(p) == [internal_device |-> p.dev, tcp_flag |-> NoFlags]
nf_unknown_pkt_set_handler(p) ==
  IF p.dev = WAN_DEVICE THEN [adds |-> {}, dst |-> p.dev]
  ELSE [adds |-> {NewFlow(p)}, dst |-> pkt_handler(p, NewFlow(p)).dst]

Id == nf_pkt_dispatcher(pkt)
Known == pkt # NoPkt /\ pkt.known
Unknown == pkt # NoPkt /\ ~pkt.known
State == CHOOSE s \in flows[Id] : TRUE

(* The commit after the handler fails, and the handler will run again. *)
CommitFails ==
  /\ Known
  /\ flows' = [flows EXCEPT ![Id] = {pkt_handler(pkt, State).state}]
  /\ UNCHANGED <<trie, routes, phase, pkt, seen>>

CommitKnown ==
  /\ Known
  /\ flows' = [flows EXCEPT ![Id] = {pkt_handler(pkt, State).state}]
  /\ seen' = IF <<pkt.src, pkt.dst>> \in Tcp
               THEN [seen EXCEPT ![Id][pkt.dev = LAN_DEVICE] = @ \cup pkt.flags] ELSE seen
  /\ pkt' = NoPkt
  /\ UNCHANGED <<trie, routes, phase>>

(* room: add_pkt_set finds a free index. *)
CommitUnknown(room) ==
  /\ Unknown
  /\ flows' = [flows EXCEPT ![Id] = IF room THEN nf_unknown_pkt_set_handler(pkt).adds ELSE {}]
  /\ seen' = [seen EXCEPT ![Id] = NoFlags]
  /\ pkt' = NoPkt
  /\ UNCHANGED <<trie, routes, phase>>

FlowExpires(id) ==
  /\ pkt = NoPkt
  /\ flows[id] # {}
  /\ flows' = [flows EXCEPT ![id] = {}]
  /\ UNCHANGED <<trie, routes, phase, pkt, seen>>

Next ==
  \/ \E r \in Prefixes, adj \in DOMAIN load_balance_pool : nf_init(r, adj)
  \/ nf_init_returns \/ Restart
  \/ \E dev \in Devices, src, dst \in Endpoints, flags \in SUBSET Flags : Arrive(dev, src, dst, flags)
  \/ CommitFails \/ CommitKnown
  \/ \E room \in BOOLEAN : CommitUnknown(room)
  \/ \E id \in Ids : FlowExpires(id)

Spec == Init /\ [][Next]_fwVars
-----------------------------------------------------------------------------
(* A packet from the WAN enters exactly when the host it is for has opened *)
(* the flow, which has not expired since, and goes to the device that the  *)
(* host is on; a host cannot be reached by naming itself as the source.    *)
Opened == {id \in Ids : flows[id] # {}}
Destination ==
  IF pkt.known THEN pkt_handler(pkt, State).dst ELSE nf_unknown_pkt_set_handler(pkt).dst
OnlyRepliesEnter ==
  pkt # NoPkt /\ pkt.dev = WAN_DEVICE =>
    Destination = IF <<pkt.dst, pkt.src>> \in Opened THEN LAN_DEVICE ELSE WAN_DEVICE

(* The flags in the state of a flow are those of all its packets after the *)
(* first, each direction by itself, although handlers are run again and    *)
(* their updates are never undone.                                         *)
FlagsTracked ==
  pkt = NoPkt => \A id \in Opened : \A s \in flows[id] : s.tcp_flag = seen[id]
=============================================================================
