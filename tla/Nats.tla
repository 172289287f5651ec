-------------------------------- MODULE Nats --------------------------------
(***************************************************************************)
(* The two NATs (src/nf/ei-nat/main.c and src/nf/fw-nat/main.c), which     *)
(* share the code of their session table; nf says which of them runs.      *)
(* ei-nat also links the sessions of each LAN host into a list, the most   *)
(* recently used one first.  They are built without batching: process_pkt  *)
(* of src/src/data-plane.c runs the handler of one packet in a transaction *)
(* of its own, again and again until it commits.                           *)
(*                                                                         *)
(* An aborted run leaves the packet as it was rewritten, if it got so far, *)
(* and the destination.  Headers are written in host byte order here.      *)
(* Left out because nothing depends on them: the flow_size of fw-nat,      *)
(* which its threshold UINT32_MAX never exceeds, and the packet sets that  *)
(* hold it; drop_pkt, which does nothing; static mappings, of which there  *)
(* are none; packets from the WAN, for which both programs assert false;   *)
(* the quota of sessions per user of ei-nat, which its configuration       *)
(* disables with a value of 8388608.                                       *)
(***************************************************************************)
EXTENDS NfosMap, SequencesExt

CONSTANTS
  NumCores,
  Packets,               \* packets of LAN hosts: [addr, port, proto, dst]
  Rss,                   \* the core that the NIC gives a packet to
  Fib,                   \* destination -> "FORWARD" or "DROP" (see Mtrie)
  MAX_NUM_SESSIONS, MAX_NUM_USERS,
  EXTERNAL_ADDR, NUM_EXTERNAL_ADDRS,
  EXTERNAL_PORT_LOW, EXTERNAL_PORT_HIGH,
  EI_NAT_SECOND,
  LAN_DEVICE, WAN_DEVICE,
  MaxTime, MaxLag,       \* bounds as in Bridge
  MaxRetrying            \* bound on the cores with a packet to run again

TCP == 6
port_space_size == EXTERNAL_PORT_HIGH - EXTERNAL_PORT_LOW + 1
num_avail_ext_tuples == port_space_size * NUM_EXTERNAL_ADDRS

ExternalTuples ==
  (EXTERNAL_ADDR..EXTERNAL_ADDR + NUM_EXTERNAL_ADDRS - 1) \X (EXTERNAL_PORT_LOW..EXTERNAL_PORT_HIGH)

(* The keys hashed for an endpoint of protocol proto: the session's and    *)
(* the user's.                                                             *)
Hashed(end, proto) == <<end[1], end[2], proto>> \in DOMAIN KHash /\ <<end[1]>> \in DOMAIN KHash

(* The configurations make the maps and the users' indexes large enough    *)
(* for all sessions, so that only the external tuples can run out.  khash  *)
(* takes every key; the NAT's own tuples are keys of repeated runs.  The   *)
(* indexes are shared out evenly among the cores (see NfosDoubleChain).    *)
ASSUME NatsAssumption ==
  /\ NumCores \in Nat \ {0}
  /\ Packets \subseteq [addr : Nat, port : Nat, proto : Nat, dst : DOMAIN Fib]
  /\ \A p \in Packets : Rss[p] \in 0..NumCores - 1
  /\ \A p \in Packets : Hashed(<<p.addr, p.port>>, p.proto) /\ \A end \in ExternalTuples : Hashed(end, p.proto)
  /\ EXTERNAL_ADDR \in Nat /\ NUM_EXTERNAL_ADDRS \in Nat \ {0}
  /\ EXTERNAL_PORT_LOW \in Nat /\ EXTERNAL_PORT_HIGH \in Nat /\ EXTERNAL_PORT_LOW <= EXTERNAL_PORT_HIGH
  /\ num_avail_ext_tuples % NumCores = 0 /\ MAX_NUM_USERS % NumCores = 0
  /\ MAX_NUM_SESSIONS \in Nat /\ MAX_NUM_SESSIONS >= num_avail_ext_tuples
  /\ MAX_NUM_USERS \in Nat /\ MAX_NUM_USERS >= 2 * num_avail_ext_tuples
  /\ LAN_DEVICE # WAN_DEVICE
  /\ MaxLag \in Nat

Tuples == INSTANCE NfosDoubleChain WITH Size <- num_avail_ext_tuples
Users == INSTANCE NfosDoubleChain WITH Size <- MAX_NUM_USERS

Cores == Tuples!Cores
NoIndex == Tuples!NoIndex

VARIABLES
  nf,      \* "ei-nat" or "fw-nat"
  nat,     \* nf_state: the transactional data structures
  retry,   \* the packet that a core has to run again, NoPacket if none
  clock,
  sent     \* history: the packet that left in the latest step: on arrival, before and after its last run

vars == <<nf, nat, retry, clock, sent>>

SESS_LIST_HEAD == -1
NoPacket == [addr |-> 0, port |-> 0, proto |-> 0, dst |-> 0]
NotSent == [orig |-> NoPacket, from |-> NoPacket, pkt |-> NoPacket, dev |-> LAN_DEVICE]
NotRetried == [orig |-> NoPacket, pkt |-> NoPacket]

(* nf_init; the elements of the vectors are zeroed. *)
Init ==
  /\ nf \in {"ei-nat", "fw-nat"}
  /\ nat = [session_map |-> nfos_map_allocate(2 * MAX_NUM_SESSIONS),
            session_data |-> [i \in 0..2 * num_avail_ext_tuples - 1 |->
              [next |-> 0, prev |-> 0, last_used |-> 0, int_ip |-> 0, int_port |-> 0, user_index |-> 0]],
            sess_indexes_tcp |-> Tuples!nfos_dchain_allocate,
            sess_indexes_udp |-> Tuples!nfos_dchain_allocate,
            user_map |-> nfos_map_allocate(2 * MAX_NUM_USERS),
            user_data |-> [i \in 0..MAX_NUM_USERS - 1 |-> [next |-> 0, prev |-> 0, num_sessions |-> 0]],
            user_indexes |-> Users!nfos_dchain_allocate]
  /\ retry = [c \in Cores |-> NotRetried]
  /\ clock = 0
  /\ sent = NotSent
-----------------------------------------------------------------------------
Key(p) == <<p.addr, p.port, p.proto>>

(* Fault: the indexes of the other protocols are not shifted back.         *)
FaultTupleUnshifted(sess_id, proto) ==
  <<(sess_id \div port_space_size) + EXTERNAL_ADDR, (sess_id % port_space_size) + EXTERNAL_PORT_LOW>>

(* The tuples of TCP are the first indexes of session_data, the same       *)
(* tuples of other protocols the following ones.                           *)
sess_id_to_ext_tuple(sess_id, proto) ==
  LET id == IF proto = TCP THEN sess_id ELSE sess_id - num_avail_ext_tuples
  IN  <<(id \div port_space_size) + EXTERNAL_ADDR, (id % port_space_size) + EXTERNAL_PORT_LOW>>

ext_tuple_to_sess_id(ext, proto) ==
  (ext[2] - EXTERNAL_PORT_LOW) + port_space_size * (ext[1] - EXTERNAL_ADDR)
    + (IF proto = TCP THEN 0 ELSE num_avail_ext_tuples)

(* When no tuple is left, both programs assert false: there is no next     *)
(* state.                                                                  *)
Exhausted(s, c, proto) ==
  Tuples!nfos_dchain_allocate_new_index(
    IF proto = TCP THEN s.sess_indexes_tcp ELSE s.sess_indexes_udp, c).index = NoIndex

(* alloc_session, from nf_state to nf_state and the index.                 *)
Entered(s, index, p, now) ==
  [s EXCEPT !.session_data[index] = [@ EXCEPT !.last_used = now, !.int_ip = p.addr, !.int_port = p.port],
            !.session_map = nfos_map_put(@, Key(p), index)]

(* Fault: the indexes of the other protocols are not shifted.              *)
FaultAllocSessionUnshifted(s, c, p, now) ==
  IF p.proto = TCP
    THEN With(Tuples!nfos_dchain_allocate_new_index(s.sess_indexes_tcp, c), LAMBDA a :
           [index |-> a.index, nat |-> Entered([s EXCEPT !.sess_indexes_tcp = a.chain], a.index, p, now)])
    ELSE With(Tuples!nfos_dchain_allocate_new_index(s.sess_indexes_udp, c), LAMBDA a :
           [index |-> a.index, nat |-> Entered([s EXCEPT !.sess_indexes_udp = a.chain], a.index, p, now)])

alloc_session(s, c, p, now) ==
  IF p.proto = TCP
    THEN With(Tuples!nfos_dchain_allocate_new_index(s.sess_indexes_tcp, c), LAMBDA a :
           [index |-> a.index, nat |-> Entered([s EXCEPT !.sess_indexes_tcp = a.chain], a.index, p, now)])
    ELSE With(Tuples!nfos_dchain_allocate_new_index(s.sess_indexes_udp, c), LAMBDA a :
           LET index == a.index + num_avail_ext_tuples
           IN  [index |-> index, nat |-> Entered([s EXCEPT !.sess_indexes_udp = a.chain], index, p, now)])

(* The index of the user of an address, who may be new. *)
alloc_user(s, c, addr) ==
  With(Users!nfos_dchain_allocate_new_index(s.user_indexes, c), LAMBDA a :
    [index |-> a.index,
     nat |-> [s EXCEPT !.user_indexes = a.chain,
                       !.user_map = nfos_map_put(@, <<addr>>, a.index),
                       !.user_data[a.index] =
                         [next |-> SESS_LIST_HEAD, prev |-> SESS_LIST_HEAD, num_sessions |-> 0]]])

UserOf(s, c, addr) ==
  With(nfos_map_get(s.user_map, <<addr>>), LAMBDA u :
    IF u = NoValue THEN alloc_user(s, c, addr) ELSE [index |-> u, nat |-> s])

(* The links of the list of user u, whose head is in user_data. *)
SetPrev(s, u, x, to) ==
  IF x = SESS_LIST_HEAD THEN [s EXCEPT !.user_data[u].prev = to] ELSE [s EXCEPT !.session_data[x].prev = to]

InsertAtHead(s, u, sess) ==
  LET first == s.user_data[u].next
  IN  [SetPrev(s, u, first, sess) EXCEPT
         !.session_data[sess] = [@ EXCEPT !.next = first, !.prev = SESS_LIST_HEAD],
         !.user_data[u].next = sess]

(* A new session goes to the head of the list of its user. *)
NewSession(s, c, p, now) ==
  With(alloc_session(s, c, p, now), LAMBDA a :
    IF nf = "fw-nat" THEN a
    ELSE With(UserOf(a.nat, c, p.addr), LAMBDA u :
           [index |-> a.index,
            nat |-> [InsertAtHead(u.nat, u.index, a.index) EXCEPT
                       !.user_data[u.index].num_sessions = @ + 1,
                       !.session_data[a.index].user_index = u.index]]))

(* A session that is not at the head is taken out of the list first; the   *)
(* one before it is a session then.                                        *)
(* Fault: the one after it keeps its link.                                 *)
FaultMoveToHeadKeepsPrev(s, sess) ==
  LET node == s.session_data[sess]
  IN  IF node.prev = SESS_LIST_HEAD THEN s
      ELSE InsertAtHead([s EXCEPT !.session_data[node.prev].next = node.next], node.user_index, sess)

MoveToHead(s, sess) ==
  LET node == s.session_data[sess]
  IN  IF node.prev = SESS_LIST_HEAD THEN s
      ELSE InsertAtHead(SetPrev([s EXCEPT !.session_data[node.prev].next = node.next],
                                node.user_index, node.next, node.prev),
                        node.user_index, sess)

(* At most once in EI_NAT_SECOND the session is refreshed.                 *)
(* Fault: it stays where it is in the list.                                *)
FaultRefreshInPlace(s, sess, now) ==
  IF now > s.session_data[sess].last_used + EI_NAT_SECOND
    THEN [s EXCEPT !.session_data[sess].last_used = now] ELSE s

Refresh(s, sess, now) ==
  IF now <= s.session_data[sess].last_used + EI_NAT_SECOND THEN s
  ELSE With([s EXCEPT !.session_data[sess].last_used = now], LAMBDA t :
         IF nf = "fw-nat" THEN t ELSE MoveToHead(t, sess))

(* nat_pkt_action: the rewritten packet, and its destination.  ei-nat asks *)
(* the FIB, and a dropped packet stays with the LAN device.                *)
Rewritten(p, sess) ==
  LET ext == sess_id_to_ext_tuple(sess, p.proto) IN [p EXCEPT !.addr = ext[1], !.port = ext[2]]

Destination(p) == IF nf = "ei-nat" /\ Fib[p.dst] = "DROP" THEN LAN_DEVICE ELSE WAN_DEVICE

(* pkt_handler: nf_state and packet after it. *)
pkt_handler(s, c, p, now) ==
  With(With(nfos_map_get(s.session_map, Key(p)), LAMBDA i :
         IF i = NoValue THEN NewSession(s, c, p, now) ELSE [index |-> i, nat |-> s]),
       LAMBDA r : [nat |-> Refresh(r.nat, r.index, now), pkt |-> Rewritten(p, r.index)])

Runs(c, p) == nfos_map_get(nat.session_map, Key(p)) # NoValue \/ ~Exhausted(nat, c, p.proto)
-----------------------------------------------------------------------------
(* process_pkt of a packet, of which orig is the content on arrival.       *)
Commits(c, orig, p, now) ==
  /\ Runs(c, p)
  /\ \E r \in {pkt_handler(nat, c, p, now)} :
       /\ nat' = r.nat
       /\ sent' = [orig |-> orig, from |-> p, pkt |-> r.pkt, dev |-> Destination(p)]
  /\ retry' = [retry EXCEPT ![c] = NotRetried]
  /\ UNCHANGED <<nf, clock>>

(* The run gets as far as its commit, which fails.  A run that aborts      *)
(* before has not touched the packet.                                      *)
CommitFails(c, orig, p, now) ==
  /\ Cardinality({k \in Cores \ {c} : retry[k] # NotRetried}) < MaxRetrying
  /\ Runs(c, p)
  /\ retry' = [retry EXCEPT ![c] = [orig |-> orig, pkt |-> pkt_handler(nat, c, p, now).pkt]]
  /\ sent' = NotSent
  /\ UNCHANGED <<nf, nat, clock>>

Arrives(c, p, now) ==
  /\ retry[c] = NotRetried
  /\ Commits(c, p, p, now) \/ CommitFails(c, p, p, now)

Restarts(c, now) ==
  /\ retry[c] # NotRetried
  /\ Commits(c, retry[c].orig, retry[c].pkt, now) \/ CommitFails(c, retry[c].orig, retry[c].pkt, now)

Advance ==
  /\ clock < MaxTime
  /\ clock' = clock + 1
  /\ sent' = NotSent
  /\ UNCHANGED <<nf, nat, retry>>

CurrTimes == {t \in clock - MaxLag..clock : t >= 0}

Next ==
  \/ \E now \in CurrTimes :
       (\E p \in Packets : Arrives(Rss[p], p, now)) \/ (\E c \in Cores : Restarts(c, now))
  \/ Advance

Spec == Init /\ [][Next]_vars
-----------------------------------------------------------------------------
Allocated(chain) == {i \in 0..num_avail_ext_tuples - 1 : Tuples!IsAllocated(chain, i)}
Sessions ==
  Allocated(nat.sess_indexes_tcp) \cup {i + num_avail_ext_tuples : i \in Allocated(nat.sess_indexes_udp)}
Owner(i) == {nat.session_map[x].key : x \in {y \in Busy(nat.session_map) : nat.session_map[y].vals = i}}

(* Map, vector and allocators describe one table: every allocated index    *)
(* belongs to one session, of its protocol, with the endpoint that packets *)
(* from the WAN would be translated to, and no two sessions of a protocol  *)
(* share an external tuple, although the two protocols use the same tuples *)
(* and their indexes one vector.                                           *)
NatTableSound ==
  /\ Tuples!ChainSound(nat.sess_indexes_tcp) /\ Tuples!ChainSound(nat.sess_indexes_udp)
  /\ MapSound(nat.session_map)
  /\ Cardinality(Busy(nat.session_map)) = Cardinality(Sessions)
  /\ \A i \in Sessions : \E k \in Owner(i) :
       /\ Owner(i) = {k}
       /\ (k[3] = TCP) = (i < num_avail_ext_tuples)
       /\ <<nat.session_data[i].int_ip, nat.session_data[i].int_port>> = <<k[1], k[2]>>
       /\ ext_tuple_to_sess_id(sess_id_to_ext_tuple(i, k[3]), k[3]) = i

(* The list of a user, from the most recently used session on. *)
ListOf(u) ==
  LET at[n \in 0..2 * num_avail_ext_tuples] ==
        IF n = 0 THEN nat.user_data[u].next
        ELSE IF at[n - 1] = SESS_LIST_HEAD THEN SESS_LIST_HEAD ELSE nat.session_data[at[n - 1]].next
  IN  [n \in 1..Cardinality({m \in DOMAIN at : at[m] # SESS_LIST_HEAD}) |-> at[n - 1]]

KnownUsers == {nat.user_map[x] : x \in Busy(nat.user_map)}

(* The list of every user of ei-nat holds exactly the sessions of its      *)
(* address, once each, is linked in both directions and counted right,     *)
(* however sessions are created and refreshed by several cores.            *)
UserListsSound ==
  nf = "ei-nat" =>
    /\ Users!ChainSound(nat.user_indexes)
    /\ MapSound(nat.user_map)
    /\ Cardinality(KnownUsers) = Cardinality({u \in 0..MAX_NUM_USERS - 1 : Users!IsAllocated(nat.user_indexes, u)})
    /\ \A cell \in KnownUsers :
         LET u == cell.vals
             L == ListOf(u)
         IN  /\ ToSet(L) = {i \in Sessions : nat.session_data[i].int_ip = cell.key[1]}
             /\ Len(L) = Cardinality(ToSet(L)) /\ Len(L) = nat.user_data[u].num_sessions
             /\ \A n \in DOMAIN L :
                  /\ nat.session_data[L[n]].user_index = u
                  /\ nat.session_data[L[n]].prev = IF n = 1 THEN SESS_LIST_HEAD ELSE L[n - 1]
             /\ nat.user_data[u].prev = L[Len(L)]

(* The list is in the order of last use, up to the difference between the  *)
(* clocks of the cores, so that its end is the session to give up first.   *)
MostRecentFirst ==
  nf = "ei-nat" =>
    \A cell \in KnownUsers :
      LET L == ListOf(cell.vals) IN
      \A m, n \in DOMAIN L :
        m < n => nat.session_data[L[m]].last_used + MaxLag >= nat.session_data[L[n]].last_used

(* The source of a packet that left is the external tuple of exactly the   *)
(* endpoint that its header named when the committed run began.            *)
SourceNamesEndpoint(p) ==
  Owner(ext_tuple_to_sess_id(<<sent.pkt.addr, sent.pkt.port>>, sent.pkt.proto)) = {Key(p)}

TranslatedBySession == sent.dev = WAN_DEVICE => SourceNamesEndpoint(sent.from)

(* ... and of the LAN host it came from, as the description of the NATs    *)
(* says.  A run that is repeated after its commit failed finds the header  *)
(* rewritten and opens a session for the NAT's own tuple.                  *)
TranslatedByHost == sent.dev = WAN_DEVICE => SourceNamesEndpoint(sent.orig)
=============================================================================
