--------------------------- MODULE FirewallProofs ---------------------------
(***************************************************************************)
(* For every set of endpoints, flags, routes and ply widths: only replies  *)
(* to open flows enter, the flags in the state of a flow are those of its  *)
(* packets, and the forwarding tables find the longest prefix.             *)
(*                                                                         *)
(* The first two are not inductive.  The lookup of a packet must stay      *)
(* valid until its handler runs, all flows must have been opened from the  *)
(* LAN, and while a packet is in progress the flags of its flow may be     *)
(* ahead of those seen, by those of that packet: a second run of the       *)
(* handler adds nothing.                                                   *)
(*                                                                         *)
(* For the forwarding tables, a route is added in two parts.  First the    *)
(* plies on the way of the route are created; every address still ends in  *)
(* the slot it ended in, or in a copy of it.  Then the loops paint the     *)
(* terminal slots at and below those that the route covers, which are the  *)
(* slots where the addresses end that it covers: a ply hangs below one     *)
(* slot, and the bytes of an address are what is left of it after division *)
(* by powers of two.                                                       *)
(***************************************************************************)
EXTENDS Firewall, ListFacts

FlagPairs == [BOOLEAN -> SUBSET Flags]
FlowStates == [internal_device : {LAN_DEVICE}, tcp_flag : FlagPairs]
Packets == [dev : Devices, src : Endpoints, dst : Endpoints, flags : SUBSET Flags, known : BOOLEAN]

FwTyping ==
  /\ flows \in [Ids -> SUBSET FlowStates]
  /\ seen \in [Ids -> FlagPairs]
  /\ pkt \in Packets \cup {NoPkt}

(* The flags after the packet in progress, once it has been handled. *)
WithPacket == [seen[Id] EXCEPT ![pkt.dev = LAN_DEVICE] = @ \cup pkt.flags]

OneState == \A id \in Ids : \A s, t \in flows[id] : s = t
LookupValid == pkt # NoPkt => pkt.known = (flows[Id] # {})
FlagsOf(id) ==
  {seen[id]} \cup IF Known /\ id = Id /\ <<pkt.src, pkt.dst>> \in Tcp THEN {WithPacket} ELSE {}
FlagsAhead == \A id \in Ids : \A s \in flows[id] : s.tcp_flag \in FlagsOf(id)

(* The inductive invariant. *)
FwIInv == FwTyping /\ OneState /\ LookupValid /\ FlagsAhead
-----------------------------------------------------------------------------
(* A packet in progress has the id of a flow, whichever side it came from. *)
LEMMA IdInIds ==
  ASSUME FwTyping, pkt # NoPkt
  PROVE  pkt \in Packets /\ Id \in Ids
  BY DEF FwTyping, Packets, Id, Ids, nf_pkt_dispatcher

(* The packet in progress finds the only state of its flow. *)
LEMMA StateOfFlow ==
  ASSUME FwIInv, Known
  PROVE  State \in flows[Id] /\ State \in FlowStates /\ flows[Id] = {State}
<1>1. Id \in Ids /\ flows[Id] # {}
  BY IdInIds DEF Known, FwIInv, LookupValid
<1>2. State \in flows[Id]
  BY <1>1 DEF State
<1>. QED
  BY <1>1, <1>2 DEF FwIInv, FwTyping, OneState

(* What the handler makes of the flags: the packet's are among them after  *)
(* the first run, and a second run changes nothing.                        *)
LEMMA HandledState ==
  ASSUME FwIInv, Known
  PROVE  /\ pkt_handler(pkt, State).state \in FlowStates
         /\ pkt_handler(pkt, State).state.tcp_flag =
              IF <<pkt.src, pkt.dst>> \in Tcp THEN WithPacket ELSE seen[Id]
<1>. DEFINE tcp == <<pkt.src, pkt.dst>> \in Tcp
            out == pkt.dev = LAN_DEVICE
            s == State
<1>1. Id \in Ids /\ pkt \in Packets
  BY IdInIds DEF Known, FwIInv
<1>2. s \in FlowStates /\ s \in flows[Id]
  BY StateOfFlow
<1>3. out \in BOOLEAN /\ (pkt.dev # WAN_DEVICE) = out
  BY <1>1, FirewallAssumption DEF Packets
<1>4. s.tcp_flag \in FlagPairs /\ seen[Id] \in FlagPairs /\ pkt.flags \in SUBSET Flags
  BY <1>1, <1>2 DEF FlowStates, FwIInv, FwTyping, Packets
<1>5. s.tcp_flag = seen[Id] \/ (tcp /\ s.tcp_flag = WithPacket)
  BY <1>1, <1>2 DEF FwIInv, FlagsAhead, FlagsOf
<1>6. WithPacket \in FlagPairs
  BY <1>3, <1>4 DEF WithPacket, FlagPairs
<1>7. track_session(pkt.dev # WAN_DEVICE, s.tcp_flag, pkt.flags) = [s.tcp_flag EXCEPT ![out] = @ \cup pkt.flags]
  BY <1>3 DEF track_session
<1>8. [seen[Id] EXCEPT ![out] = @ \cup pkt.flags] = WithPacket
  BY DEF WithPacket
<1>9. [WithPacket EXCEPT ![out] = @ \cup pkt.flags] = WithPacket
  BY <1>3, <1>4 DEF WithPacket, FlagPairs
<1>10. tcp => track_session(pkt.dev # WAN_DEVICE, s.tcp_flag, pkt.flags) = WithPacket
  BY <1>5, <1>7, <1>8, <1>9
<1>11. CASE tcp
  <2>1. pkt_handler(pkt, s).state = [s EXCEPT !.tcp_flag = WithPacket]
    BY <1>10, <1>11 DEF pkt_handler
  <2>. QED
    BY <2>1, <1>2, <1>6, <1>11 DEF FlowStates
<1>12. CASE ~tcp
  <2>1. pkt_handler(pkt, s).state = s
    BY <1>12 DEF pkt_handler
  <2>. QED
    BY <2>1, <1>2, <1>5, <1>12
<1>. QED
  BY <1>11, <1>12

(* The firewall starts with no flow. *)
LEMMA FwInitInv == Init => FwIInv
  BY DEF Init, FwIInv, FwTyping, OneState, LookupValid, FlagsAhead, NoFlows, NothingSeen,
         NoFlags, FlagPairs, NoPkt

(* Before and after a session nothing is open. *)
LEMMA RestartInv ==
  ASSUME Restart
  PROVE  FwIInv'
  BY DEF Restart, FwIInv, FwTyping, OneState, LookupValid, FlagsAhead, NoFlows, NothingSeen,
         NoFlags, FlagPairs, NoPkt

(* Steps of nf_init leave flows and packets alone. *)
LEMMA UnchangedInv ==
  ASSUME FwIInv, UNCHANGED fw
  PROVE  FwIInv'
  BY DEF fw, FwIInv, FwTyping, OneState, LookupValid, FlagsAhead, FlagsOf, WithPacket, Known, Id,
         nf_pkt_dispatcher

(* A packet that arrives meets the invariant of the packets in progress. *)
LEMMA ArriveInv ==
  ASSUME FwIInv,
         NEW dev \in Devices, NEW src \in Endpoints, NEW dst \in Endpoints, NEW flags \in SUBSET Flags,
         Arrive(dev, src, dst, flags)
  PROVE  FwIInv'
<1>1. PICK known \in BOOLEAN :
        LET p == [dev |-> dev, src |-> src, dst |-> dst, flags |-> flags, known |-> known]
        IN  known = (flows[nf_pkt_dispatcher(p)] # {}) /\ pkt' = p
  BY DEF Arrive
<1>2. pkt' \in Packets /\ pkt'.known = known
  BY <1>1 DEF Packets
<1>3. UNCHANGED <<flows, seen>> /\ pkt = NoPkt
  BY DEF Arrive
<1>4. FwTyping' /\ OneState'
  BY <1>2, <1>3 DEF FwIInv, FwTyping, OneState
<1>5. LookupValid'
  BY <1>1, <1>2, <1>3 DEF LookupValid, Id
<1>6. FlagsAhead'
  <2>1. ASSUME NEW id \in Ids, NEW s \in flows[id] PROVE s.tcp_flag = seen[id]
    BY <1>3 DEF FwIInv, FlagsAhead, FlagsOf, Known
  <2>. QED
    BY <2>1, <1>3 DEF FlagsAhead, FlagsOf
<1>. QED
  BY <1>4, <1>5, <1>6 DEF FwIInv

(* A failed commit leaves the flags ahead of those seen. *)
LEMMA CommitFailsInv ==
  ASSUME FwIInv, CommitFails
  PROVE  FwIInv'
<1>. DEFINE n == pkt_handler(pkt, State).state
<1>1. n \in FlowStates /\ n.tcp_flag = (IF <<pkt.src, pkt.dst>> \in Tcp THEN WithPacket ELSE seen[Id])
  BY HandledState DEF CommitFails
<1>2. Known /\ flows' = [flows EXCEPT ![Id] = {n}] /\ UNCHANGED <<pkt, seen>>
  BY DEF CommitFails
<1>3. Id \in Ids /\ Id' = Id /\ Known' = Known /\ WithPacket' = WithPacket
  BY <1>2, IdInIds DEF Known, FwIInv, Id, nf_pkt_dispatcher, WithPacket
<1>. HIDE DEF n
<1>4. FwTyping' /\ OneState'
  BY <1>1, <1>2, <1>3 DEF FwIInv, FwTyping, OneState
<1>5. LookupValid'
  BY <1>2, <1>3 DEF FwIInv, FwTyping, LookupValid, Known
<1>6. FlagsAhead'
  <2>1. ASSUME NEW id \in Ids PROVE FlagsOf(id)' = FlagsOf(id)
    BY <1>2, <1>3 DEF FlagsOf
  <2>2. n.tcp_flag \in FlagsOf(Id)
    BY <1>1, <1>2 DEF FlagsOf
  <2>3. ASSUME NEW id \in Ids, NEW s \in flows'[id] PROVE s.tcp_flag \in FlagsOf(id)
    BY <1>2, <1>3, <2>2 DEF FwIInv, FwTyping, FlagsAhead
  <2>. QED
    BY <2>1, <2>3 DEF FlagsAhead
<1>. QED
  BY <1>4, <1>5, <1>6 DEF FwIInv

(* The commit catches up. *)
LEMMA CommitKnownInv ==
  ASSUME FwIInv, CommitKnown
  PROVE  FwIInv'
<1>. DEFINE n == pkt_handler(pkt, State).state
            tcp == <<pkt.src, pkt.dst>> \in Tcp
<1>1. n \in FlowStates /\ n.tcp_flag = (IF tcp THEN WithPacket ELSE seen[Id])
  BY HandledState DEF CommitKnown
<1>2. Known /\ flows' = [flows EXCEPT ![Id] = {n}] /\ pkt' = NoPkt
  BY DEF CommitKnown
<1>3. Id \in Ids /\ pkt \in Packets
  BY <1>2, IdInIds DEF Known, FwIInv
<1>4. seen' = [seen EXCEPT ![Id] = IF tcp THEN WithPacket ELSE seen[Id]]
  BY <1>3 DEF CommitKnown, WithPacket, FwIInv, FwTyping
<1>5. n.tcp_flag \in FlagPairs
  BY <1>1 DEF FlowStates
<1>. HIDE DEF n
<1>6. FwTyping' /\ OneState'
  BY <1>1, <1>2, <1>3, <1>4, <1>5 DEF FwIInv, FwTyping, OneState
<1>7. LookupValid'
  BY <1>2 DEF LookupValid
<1>8. FlagsAhead'
  <2>1. ASSUME NEW id \in Ids, NEW s \in flows'[id] PROVE s.tcp_flag = seen'[id]
    <3>1. CASE id = Id
      BY <3>1, <1>1, <1>2, <1>3, <1>4 DEF FwIInv, FwTyping
    <3>2. CASE id # Id
      <4>1. s \in flows[id] /\ seen'[id] = seen[id]
        BY <3>2, <1>2, <1>3, <1>4 DEF FwIInv, FwTyping
      <4>. QED
        BY <4>1, <3>2 DEF FwIInv, FlagsAhead, FlagsOf
    <3>. QED
      BY <3>1, <3>2
  <2>. QED
    BY <2>1 DEF FlagsAhead, FlagsOf
<1>. QED
  BY <1>6, <1>7, <1>8 DEF FwIInv

(* A packet of an unknown flow: only one from the LAN registers a flow. *)
LEMMA CommitUnknownInv ==
  ASSUME FwIInv, NEW room \in BOOLEAN, CommitUnknown(room)
  PROVE  FwIInv'
<1>. DEFINE new == IF room THEN nf_unknown_pkt_set_handler(pkt).adds ELSE {}
<1>1. Unknown /\ flows' = [flows EXCEPT ![Id] = new] /\ seen' = [seen EXCEPT ![Id] = NoFlags] /\ pkt' = NoPkt
  BY DEF CommitUnknown
<1>2. Id \in Ids /\ pkt \in Packets
  BY <1>1, IdInIds DEF Unknown, FwIInv
<1>3. NoFlags \in FlagPairs
  BY DEF NoFlags, FlagPairs
<1>4. \A s \in new : s = NewFlow(pkt) /\ pkt.dev # WAN_DEVICE
  BY DEF nf_unknown_pkt_set_handler
<1>5. \A s \in new : s \in FlowStates /\ s.tcp_flag = NoFlags
  BY <1>2, <1>3, <1>4, FirewallAssumption DEF NewFlow, FlowStates, Packets
<1>. HIDE DEF new
<1>6. FwTyping' /\ OneState'
  BY <1>1, <1>2, <1>3, <1>4, <1>5 DEF FwIInv, FwTyping, OneState
<1>7. LookupValid'
  BY <1>1 DEF LookupValid
<1>8. FlagsAhead'
  <2>1. ASSUME NEW id \in Ids, NEW s \in flows'[id] PROVE s.tcp_flag = seen'[id]
    <3>1. CASE id = Id
      BY <3>1, <1>1, <1>2, <1>5 DEF FwIInv, FwTyping
    <3>2. CASE id # Id
      <4>1. s \in flows[id] /\ seen'[id] = seen[id]
        BY <3>2, <1>1, <1>2 DEF FwIInv, FwTyping
      <4>. QED
        BY <4>1, <3>2 DEF FwIInv, FlagsAhead, FlagsOf
    <3>. QED
      BY <3>1, <3>2
  <2>. QED
    BY <2>1 DEF FlagsAhead, FlagsOf
<1>. QED
  BY <1>6, <1>7, <1>8 DEF FwIInv

(* An expired flow is forgotten with its flags. *)
LEMMA FlowExpiresInv ==
  ASSUME FwIInv, NEW id \in Ids, FlowExpires(id)
  PROVE  FwIInv'
<1>1. pkt = NoPkt /\ pkt' = pkt /\ seen' = seen /\ flows' = [flows EXCEPT ![id] = {}]
  BY DEF FlowExpires
<1>2. FwTyping' /\ OneState' /\ LookupValid'
  BY <1>1 DEF FwIInv, FwTyping, OneState, LookupValid
<1>3. FlagsAhead'
  BY <1>1 DEF FwIInv, FwTyping, FlagsAhead, FlagsOf, Known
<1>. QED
  BY <1>2, <1>3 DEF FwIInv
-----------------------------------------------------------------------------
(* The inductive invariant of the firewall holds in all reachable states. *)
THEOREM FwInvariance == Spec => []FwIInv
<1>1. FwIInv /\ [Next]_fwVars => FwIInv'
  <2>. SUFFICES ASSUME FwIInv, [Next]_fwVars PROVE FwIInv'
    OBVIOUS
  <2>1. ASSUME NEW r \in Prefixes, NEW adj \in DOMAIN load_balance_pool, nf_init(r, adj) PROVE FwIInv'
    BY <2>1, UnchangedInv DEF nf_init
  <2>2. CASE nf_init_returns
    BY <2>2, UnchangedInv DEF nf_init_returns
  <2>3. CASE Restart
    BY <2>3, RestartInv
  <2>4. ASSUME NEW dev \in Devices, NEW src \in Endpoints, NEW dst \in Endpoints,
               NEW flags \in SUBSET Flags, Arrive(dev, src, dst, flags)
        PROVE  FwIInv'
    BY <2>4, ArriveInv
  <2>5. CASE CommitFails
    BY <2>5, CommitFailsInv
  <2>6. CASE CommitKnown
    BY <2>6, CommitKnownInv
  <2>7. ASSUME NEW room \in BOOLEAN, CommitUnknown(room) PROVE FwIInv'
    BY <2>7, CommitUnknownInv
  <2>8. ASSUME NEW id \in Ids, FlowExpires(id) PROVE FwIInv'
    BY <2>8, FlowExpiresInv
  <2>9. CASE UNCHANGED fwVars
    BY <2>9, UnchangedInv DEF fwVars
  <2>. QED
    BY <2>1, <2>2, <2>3, <2>4, <2>5, <2>6, <2>7, <2>8, <2>9 DEF Next
<1>. QED
  BY FwInitInv, <1>1, PTL DEF Spec

(* A packet from the WAN enters exactly when its flow was opened from the  *)
(* LAN and has not expired since.                                          *)
THEOREM OnlyRepliesEnterHolds == Spec => []OnlyRepliesEnter
<1>1. FwIInv => OnlyRepliesEnter
  <2>. SUFFICES ASSUME FwIInv, pkt # NoPkt, pkt.dev = WAN_DEVICE
                PROVE  Destination = IF <<pkt.dst, pkt.src>> \in Opened THEN LAN_DEVICE ELSE WAN_DEVICE
    BY DEF OnlyRepliesEnter
  <2>1. Id = <<pkt.dst, pkt.src>> /\ Id \in Ids /\ pkt \in Packets
    BY IdInIds DEF FwIInv, Id, nf_pkt_dispatcher
  <2>2. pkt.known = (Id \in Opened)
    BY <2>1 DEF FwIInv, LookupValid, Opened
  <2>3. CASE pkt.known
    <3>1. State.internal_device = LAN_DEVICE
      BY <2>3, StateOfFlow DEF Known, FlowStates
    <3>2. Destination = State.internal_device
      BY <2>3 DEF Destination, pkt_handler
    <3>. QED
      BY <3>1, <3>2, <2>1, <2>2, <2>3
  <2>4. CASE ~pkt.known
    BY <2>4, <2>1, <2>2 DEF Destination, nf_unknown_pkt_set_handler
  <2>. QED
    BY <2>3, <2>4
<1>. QED
  BY FwInvariance, <1>1, PTL

(* The flags in the state of a flow are those of all its packets after the *)
(* first, although a handler whose commit fails is run again and its       *)
(* updates are never undone.                                               *)
THEOREM FlagsTrackedHolds == Spec => []FlagsTracked
<1>1. FwIInv => FlagsTracked
  BY DEF FwIInv, FlagsTracked, FlagsAhead, FlagsOf, Known, Opened
<1>. QED
  BY FwInvariance, <1>1, PTL
-----------------------------------------------------------------------------
(* Powers of two. *)
TwoToEq(g) == g = [k \in 0..AddressBits |-> IF k = 0 THEN 1 ELSE 2 * g[k - 1]]

(* The widths of the levels and the lengths that they complete, as         *)
(* numbers.                                                                *)
LEMMA Widths ==
  /\ RootBits \in Nat \ {0} /\ PlyBits \in Nat \ {0} /\ AddressBits \in Nat /\ AddressBits = RootBits + 2 * PlyBits
  /\ BaseLen(0) = RootBits /\ BaseLen(1) = RootBits + PlyBits /\ BaseLen(2) = AddressBits
  /\ Width(0) = RootBits /\ Width(1) = PlyBits /\ Width(2) = PlyBits
  BY MtrieAssumption DEF AddressBits, BaseLen, Width

(* The recursive function TwoTo has a value everywhere, and it doubles. *)
LEMMA TwoToIs ==
  /\ \A k \in 0..AddressBits : TwoTo[k] \in Nat \ {0}
  /\ TwoTo[0] = 1
  /\ \A k \in 0..AddressBits - 1 : TwoTo[k + 1] = 2 * TwoTo[k]
<1>. PICK A : A = AddressBits
  OBVIOUS
<1>1. A \in Nat
  BY Widths
<1>2. TwoToEq(TwoTo)
  <2>. DEFINE double == [n \in Nat |-> 2 * n]
              step == [k \in 1..A |-> double]
  <2>1. double \in [Nat -> Nat]
    OBVIOUS
  <2>2. step \in Steps(A, Nat)
    <3>. HIDE DEF double
    <3>. QED
      BY <2>1 DEF Steps
  <2>3. \A k \in 1..A : step[k] = double
    OBVIOUS
  <2>. HIDE DEF step
  <2>4. PICK f : Computes(f, A, Nat, 1, step)
    BY <1>1, <2>2, Recursion
  <2>5. f \in [0..A -> Nat] /\ f[0] = 1 /\ \A k \in 1..A : f[k] = double[f[k - 1]]
    BY <2>3, <2>4 DEF Computes
  <2>6. ASSUME NEW k \in 0..A PROVE f[k] = IF k = 0 THEN 1 ELSE 2 * f[k - 1]
    <3>1. CASE k = 0
      BY <3>1, <2>5
    <3>2. CASE k # 0
      <4>1. k \in 1..A /\ k - 1 \in 0..A
        BY <3>2, <1>1
      <4>. QED
        BY <4>1, <3>2, <2>5
    <3>. QED
      BY <3>1, <3>2
  <2>7. TwoToEq(f)
    BY <2>5, <2>6 DEF TwoToEq
  <2>. QED
    BY <2>7 DEF TwoTo, TwoToEq
<1>3. \A k \in 0..A : TwoTo[k] = IF k = 0 THEN 1 ELSE 2 * TwoTo[k - 1]
  BY <1>2 DEF TwoToEq
<1>4. TwoTo[0] = 1
  BY <1>1, <1>3
<1>5. ASSUME NEW k \in 0..A - 1 PROVE TwoTo[k + 1] = 2 * TwoTo[k]
  <2>1. k + 1 \in 0..A /\ k + 1 # 0 /\ (k + 1) - 1 = k
    BY <1>1
  <2>. QED
    BY <2>1, <1>3
<1>6. \A k \in 0..A : TwoTo[k] \in Nat \ {0}
  <2>. DEFINE T == {k \in 0..A : TwoTo[k] \in Nat \ {0}}
  <2>1. 0 \in T
    BY <1>1, <1>4
  <2>2. ASSUME NEW k \in 0..A - 1, k \in T PROVE k + 1 \in T
    <3>1. k + 1 \in 0..A
      BY <1>1
    <3>. QED
      BY <3>1, <2>2, <1>5
  <2>3. \A k \in 0..A : k \in T
    <3>. HIDE DEF T
    <3>. QED
      BY <1>1, <2>1, <2>2, Induction
  <2>. QED
    BY <2>3
<1>. QED
  BY <1>4, <1>5, <1>6

(* 2^(a + b) is 2^a * 2^b. *)
LEMMA TwoToSum ==
  ASSUME NEW a \in Nat, NEW b \in Nat, a + b <= AddressBits
  PROVE  TwoTo[a + b] = TwoTo[a] * TwoTo[b] /\ TwoTo[a + b] \in Nat \ {0} /\ TwoTo[a] \in Nat \ {0} /\ TwoTo[b] \in Nat \ {0}
<1>1. AddressBits \in Nat
  BY Widths
<1>2. a + b \in 0..AddressBits /\ a \in 0..AddressBits /\ b \in 0..AddressBits
  BY <1>1
<1>3. TwoTo[a + b] \in Nat \ {0} /\ TwoTo[a] \in Nat \ {0} /\ TwoTo[b] \in Nat \ {0}
  BY <1>2, TwoToIs
<1>. DEFINE T == {k \in 0..b : TwoTo[a + k] = TwoTo[a] * TwoTo[k]}
<1>4. 0 \in T
  BY <1>3, TwoToIs
<1>5. ASSUME NEW k \in 0..b - 1, k \in T PROVE k + 1 \in T
  <2>1. a + k \in 0..AddressBits - 1 /\ k \in 0..AddressBits - 1 /\ k + 1 \in 0..b /\ a + (k + 1) = (a + k) + 1
    BY <1>1
  <2>2. TwoTo[(a + k) + 1] = 2 * TwoTo[a + k] /\ TwoTo[k + 1] = 2 * TwoTo[k]
    BY <2>1, TwoToIs
  <2>. PICK x, y : x = TwoTo[a] /\ y = TwoTo[k]
    OBVIOUS
  <2>3. x \in Nat /\ y \in Nat /\ TwoTo[a + k] = x * y
    <3>1. k \in 0..AddressBits
      BY <2>1, <1>1
    <3>. QED
      BY <3>1, <1>3, <1>5, TwoToIs
  <2>4. 2 * (x * y) = x * (2 * y)
    BY <2>3
  <2>. QED
    BY <2>1, <2>2, <2>3, <2>4
<1>6. \A k \in 0..b : k \in T
  <2>. HIDE DEF T
  <2>. QED
    BY <1>4, <1>5, Induction
<1>7. TwoTo[a + b] = TwoTo[a] * TwoTo[b]
  BY <1>6
<1>. QED
  BY <1>3, <1>7
(* Products of naturals. *)
LEMMA Product ==
  ASSUME NEW n \in Nat \ {0}, NEW d \in Int
  PROVE  /\ n * d \in Int
         /\ d >= 1 => n * d >= n
         /\ d <= -1 => n * d <= -n
  OBVIOUS

(* Products of naturals are naturals, distribute and associate. *)
LEMMA Products ==
  ASSUME NEW a \in Nat, NEW b \in Nat, NEW c \in Nat
  PROVE  /\ a * b \in Nat /\ b * c \in Nat /\ a * c \in Nat
         /\ a * (b + c) = a * b + a * c /\ a * (b * c) = (a * b) * c
  OBVIOUS

(* Quotient and rest are the only ones. *)
LEMMA Quotient ==
  ASSUME NEW n \in Nat \ {0}, NEW q \in Int, NEW r \in 0..n - 1, NEW x, x = n * q + r
  PROVE  x \div n = q /\ (x % n) = r
<1>. PICK d, e : d = x \div n /\ e = (x % n)
  OBVIOUS
<1>1. x \in Int
  BY Product
<1>2. d \in Int /\ e \in 0..n - 1 /\ x = n * d + e
  BY <1>1
<1>3. n * (d - q) = r - e
  <2>1. n * (d - q) = n * d - n * q
    BY <1>2
  <2>2. n * d \in Int /\ n * q \in Int
    BY <1>2, Product
  <2>. QED
    BY <2>1, <2>2, <1>2
<1>4. d - q \in Int /\ r - e < n /\ r - e > -n
  BY <1>2
<1>5. d - q = 0
  <2>1. ~(d - q >= 1) /\ ~(d - q <= -1)
    BY <1>3, <1>4, Product
  <2>. QED
    BY <2>1, <1>4
<1>6. d = q
  BY <1>2, <1>5
<1>7. n * q \in Int /\ n * d = n * q
  BY <1>6, Product
<1>8. r = e
  BY <1>2, <1>7
<1>. QED
  BY <1>6, <1>8

(* Quotient and rest, named. *)
LEMMA Divided ==
  ASSUME NEW n \in Nat \ {0}, NEW x \in Nat
  PROVE  x \div n \in Nat /\ (x % n) \in 0..n - 1 /\ x = n * (x \div n) + (x % n) /\ n * (x \div n) \in Nat
<1>1. x \div n \in Int /\ (x % n) \in 0..n - 1 /\ x = n * (x \div n) + (x % n)
  OBVIOUS
<1>2. x \div n >= 0
  <2>1. ~(x \div n <= -1)
    BY <1>1, Product
  <2>. QED
    BY <2>1, <1>1
<1>. QED
  BY <1>1, <1>2

(* Dividing twice. *)
LEMMA DividedTwice ==
  ASSUME NEW m \in Nat \ {0}, NEW n \in Nat \ {0}, NEW x \in Nat
  PROVE  (x \div m) \div n = x \div (m * n) /\ m * n \in Nat \ {0}
<1>. PICK y, r : y = x \div m /\ r = (x % m)
  OBVIOUS
<1>1. y \in Nat /\ r \in 0..m - 1 /\ x = m * y + r
  BY Divided
<1>. PICK z, s : z = y \div n /\ s = (y % n)
  OBVIOUS
<1>2. z \in Nat /\ s \in 0..n - 1 /\ y = n * z + s
  BY <1>1, Divided
<1>. PICK k : k = m * n
  OBVIOUS
<1>3. k \in Nat \ {0}
  OBVIOUS
<1>4. m * y = k * z + m * s
  <2>1. m * (n * z + s) = m * (n * z) + m * s /\ m * (n * z) = (m * n) * z
    BY <1>2
  <2>. QED
    BY <2>1, <1>2
<1>5. m * s \in Nat /\ m * s <= k - m
  <2>1. s \in Nat /\ n - s - 1 >= 0 /\ n - s - 1 \in Nat
    BY <1>2
  <2>2. m * (n - s - 1) >= 0 /\ m * s \in Nat /\ m * (n - s - 1) = m * n - m * s - m
    BY <2>1
  <2>. QED
    BY <2>2, <1>3
<1>6. m * s + r \in 0..k - 1 /\ x = k * z + (m * s + r)
  <2>. PICK kz, my, ms : kz = k * z /\ my = m * y /\ ms = m * s
    OBVIOUS
  <2>1. kz \in Nat /\ my \in Nat
    BY <1>1, <1>2, <1>3, Products
  <2>2. my = kz + ms /\ ms \in Nat /\ ms <= k - m /\ x = my + r
    BY <1>1, <1>4, <1>5
  <2>3. ms + r \in 0..k - 1 /\ x = kz + (ms + r)
    BY ONLY <2>1, <2>2, <1>1, <1>3, m \in Nat \ {0}
  <2>. QED
    BY <2>3
<1>7. x \div k = z
  <2>. PICK v : v = m * s + r
    OBVIOUS
  <2>1. v \in 0..k - 1 /\ x = k * z + v /\ z \in Int
    BY <1>2, <1>6
  <2>. QED
    BY ONLY <2>1, <1>3, Quotient
<1>. QED
  BY <1>3, <1>7

(* The k numbers from a multiple b of k on are in one block of k * m. *)
Factors(n, k, m) == n = k * m
MultipleOf(b, k) == (b % k) = 0
InOneBlock(y, b, k, n) ==
  /\ y \div k = b \div k <=> y \div n = b \div n /\ (y % n) \in (b % n)..(b % n) + k - 1
  /\ n \in Nat \ {0} /\ (b % n) \in Nat /\ (b % n) + k - 1 < n

(* Two numbers are in the same run of k exactly if they are in the same    *)
(* block and the second lies among the k slots that the first begins.      *)
LEMMA SameBlock ==
  ASSUME NEW k \in Nat \ {0}, NEW m \in Nat \ {0}, NEW n, Factors(n, k, m),
         NEW b \in Nat, MultipleOf(b, k), NEW y \in Nat
  PROVE  InOneBlock(y, b, k, n)
<1>. USE DEF Factors, MultipleOf, InOneBlock
<1>. PICK c, d : c = b \div k /\ d = y \div k
  OBVIOUS
<1>. PICK u : u = (y % k)
  OBVIOUS
<1>1. c \in Nat /\ b = k * c /\ d \in Nat /\ y = k * d + u /\ u \in 0..k - 1 /\ k * c \in Nat /\ k * d \in Nat
  <2>1. b \div k \in Nat /\ b = k * (b \div k) + (b % k) /\ k * (b \div k) \in Nat
    BY Divided
  <2>2. y \div k \in Nat /\ (y % k) \in 0..k - 1 /\ y = k * (y \div k) + (y % k) /\ k * (y \div k) \in Nat
    BY Divided
  <2>3. b = k * c
    BY <2>1
  <2>. QED
    BY <2>1, <2>2, <2>3
<1>2. n \in Nat \ {0} /\ y \div n = d \div m /\ b \div n = c \div m
  BY DividedTwice
<1>. PICK q, r : q = b \div n /\ r = (b % n)
  OBVIOUS
<1>. PICK p, s : p = y \div n /\ s = (y % n)
  OBVIOUS
<1>3. q \in Nat /\ r \in 0..n - 1 /\ b = n * q + r /\ n * q \in Nat
  BY <1>2, Divided
<1>4. p \in Nat /\ s \in 0..n - 1 /\ y = n * p + s /\ n * p \in Nat
  BY <1>2, Divided
<1>5. r + k - 1 < n
  <2>. PICK e : e = (c % m)
    OBVIOUS
  <2>1. e \in 0..m - 1 /\ c = m * q + e
    <3>1. c \in Nat /\ m \in Nat \ {0}
      BY <1>1
    <3>2. (c % m) \in 0..m - 1 /\ c = m * (c \div m) + (c % m)
      BY ONLY <3>1, Divided
    <3>. QED
      BY Zenon, <3>2, <1>2
  <2>2. k * c = n * q + k * e
    <3>. PICK mq : mq = m * q
      OBVIOUS
    <3>1. e \in Nat /\ mq \in Nat /\ k \in Nat /\ m \in Nat /\ q \in Nat
      BY <2>1, <1>3, Products
    <3>2. k * (mq + e) = k * mq + k * e
      BY ONLY <3>1, Products
    <3>3. k * (m * q) = (k * m) * q
      BY ONLY <3>1, Products
    <3>4. k * mq = n * q
      BY <3>3
    <3>. QED
      BY <3>2, <3>4, <2>1
  <2>3. r = k * e
    <3>. PICK kc, nq, ke : kc = k * c /\ nq = n * q /\ ke = k * e
      OBVIOUS
    <3>1. ke \in Nat
      BY <2>1, Products
    <3>2. kc = nq + ke /\ b = kc /\ b = nq + r /\ nq \in Nat
      BY <2>2, <1>1, <1>3
    <3>3. r = ke
      BY ONLY <3>1, <3>2, <1>3
    <3>. QED
      BY <3>3
  <2>4. k * e <= n - k
    <3>1. m - e - 1 \in Nat /\ e \in Nat
      BY <2>1
    <3>2. k * (m - e - 1) >= 0 /\ k * (m - e - 1) = k * m - k * e - k /\ k * e \in Nat
      BY <3>1
    <3>. QED
      BY <3>2, <1>2
  <2>. QED
    BY <2>3, <2>4, <1>2, <1>3
<1>6. ASSUME d = c PROVE p = q /\ s \in r..r + k - 1
  <2>1. p = q
    BY <1>2, <1>6
  <2>. PICK nq, kc : nq = n * q /\ kc = k * c
    OBVIOUS
  <2>2. b = kc /\ y = kc + u /\ b = nq + r /\ y = nq + s /\ nq \in Nat /\ kc \in Nat
    BY <2>1, <1>1, <1>3, <1>4, <1>6
  <2>3. s \in r..r + k - 1
    BY ONLY <2>2, <1>1, <1>3, <1>4, k \in Nat \ {0}
  <2>. QED
    BY <2>1, <2>3
<1>7. ASSUME p = q, s \in r..r + k - 1 PROVE d = c
  <2>. PICK nq, kc, e : nq = n * q /\ kc = k * c /\ e = s - r
    OBVIOUS
  <2>1. b = kc /\ b = nq + r /\ y = nq + s /\ nq \in Nat /\ kc \in Nat
    BY <1>1, <1>3, <1>4, <1>7
  <2>2. e \in 0..k - 1 /\ y = kc + e
    BY ONLY <2>1, <1>3, <1>4, <1>7, k \in Nat \ {0}, e = s - r
  <2>3. y = k * c + e /\ c \in Int
    BY <2>2, <1>1
  <2>4. y \div k = c
    BY ONLY <2>2, <2>3, k \in Nat \ {0}, Quotient
  <2>. QED
    BY <2>4
<1>. QED
  BY <1>2, <1>3, <1>5, <1>6, <1>7
-----------------------------------------------------------------------------
(* An address masked to a length, and the addresses that it covers. *)
LEMMA Masked ==
  ASSUME NEW h \in Nat \ {0}, NEW c \in Nat, NEW b, b = c * h, NEW z \in Nat
  PROVE  /\ b \in Nat /\ b = h * c /\ b \div h = c
         /\ b = (z \div h) * h <=> z \div h = c
<1>1. b \in Nat /\ b = h * c
  BY Products
<1>2. b \div h = c
  <2>1. c \in Int /\ 0 \in 0..h - 1 /\ b = h * c + 0
    BY <1>1
  <2>. QED
    BY ONLY <2>1, h \in Nat \ {0}, Quotient
<1>3. ASSUME b = (z \div h) * h PROVE z \div h = c
  <2>. PICK d : d = z \div h
    OBVIOUS
  <2>1. d \in Nat
    BY Divided
  <2>2. d \in Int /\ 0 \in 0..h - 1 /\ b = h * d + 0
    <3>1. b = d * h /\ d * h = h * d /\ h * d \in Nat
      BY <1>3, <2>1
    <3>. QED
      BY <3>1, <2>1
  <2>3. b \div h = d
    BY ONLY <2>2, h \in Nat \ {0}, Quotient
  <2>. QED
    BY <2>3, <1>2
<1>. QED
  BY <1>1, <1>2, <1>3

(* At the level whose slots stand for 2^L addresses each, 2^w slots to a   *)
(* ply, an address whose last L + e bits are masked covers 2^e slots of    *)
(* one ply.                                                                *)
Part(z, L) == z \div TwoTo[L]
Byte(z, L, w) == Part(z, L) % TwoTo[w]

(* The part of an address above L + w bits and the byte below it make up   *)
(* the part above L bits.                                                  *)
LEMMA PartIs ==
  ASSUME NEW L \in Nat, NEW w \in Nat, L + w <= AddressBits, NEW z \in Nat
  PROVE  /\ Part(z, L) \in Nat /\ Byte(z, L, w) \in 0..TwoTo[w] - 1 /\ Part(z, L + w) \in Nat
         /\ Part(z, L + w) = Part(z, L) \div TwoTo[w]
         /\ Part(z, L) = TwoTo[w] * Part(z, L + w) + Byte(z, L, w)
<1>1. TwoTo[L + w] = TwoTo[L] * TwoTo[w] /\ TwoTo[L] \in Nat \ {0} /\ TwoTo[w] \in Nat \ {0}
  BY TwoToSum
<1>. PICK m, n : m = TwoTo[L] /\ n = TwoTo[w]
  OBVIOUS
<1>2. m \in Nat \ {0} /\ n \in Nat \ {0} /\ TwoTo[L + w] = m * n
  BY <1>1
<1>3. z \div m \in Nat
  BY <1>2, Divided
<1>. PICK y : y = z \div m
  OBVIOUS
<1>4. y \div n \in Nat /\ (y % n) \in 0..n - 1 /\ y = n * (y \div n) + (y % n)
  BY <1>2, <1>3, Divided
<1>5. y \div n = z \div (m * n)
  BY ONLY <1>2, DividedTwice, z \in Nat, y = z \div m
<1>. QED
  BY <1>2, <1>3, <1>4, <1>5 DEF Part, Byte

LowBitsMasked(b, n) == \E c \in Nat : b = c * TwoTo[n]
SlotBits(L, w, e) == L \in Nat /\ w \in Nat /\ e \in 0..w /\ L + w <= AddressBits
CoversSlots(b, z, L, w, e) ==
  /\ b = (z \div TwoTo[L + e]) * TwoTo[L + e]
       <=> /\ Part(z, L + w) = Part(b, L + w)
           /\ Byte(z, L, w) \in Byte(b, L, w)..Byte(b, L, w) + TwoTo[e] - 1
  /\ b \in Nat /\ Byte(b, L, w) \in Nat /\ Byte(b, L, w) + TwoTo[e] - 1 < TwoTo[w]
  /\ TwoTo[e] \in Nat \ {0}

(* An address with L + e bits masked covers 2^e slots from its byte on,    *)
(* all in one ply.                                                         *)
LEMMA SlotsCovered ==
  ASSUME NEW L, NEW w, NEW e, SlotBits(L, w, e), NEW b, LowBitsMasked(b, L + e), NEW z \in Nat
  PROVE  CoversSlots(b, z, L, w, e)
<1>. USE DEF SlotBits
<1>0. PICK c \in Nat : b = c * TwoTo[L + e]
  BY DEF LowBitsMasked
<1>1. TwoTo[L + e] = TwoTo[L] * TwoTo[e] /\ TwoTo[L + e] \in Nat \ {0} /\ TwoTo[L] \in Nat \ {0} /\ TwoTo[e] \in Nat \ {0}
  <2>1. e \in Nat /\ L + e <= AddressBits
    BY Widths
  <2>. QED
    BY <2>1, TwoToSum
<1>2. TwoTo[w] = TwoTo[e] * TwoTo[w - e] /\ TwoTo[w - e] \in Nat \ {0} /\ TwoTo[w] \in Nat \ {0}
  <2>1. e \in Nat /\ w - e \in Nat /\ e + (w - e) <= AddressBits /\ e + (w - e) = w
    BY Widths
  <2>. QED
    BY <2>1, TwoToSum
<1>. PICK h, l, k : h = TwoTo[L + e] /\ l = TwoTo[L] /\ k = TwoTo[e]
  OBVIOUS
<1>. PICK m, n : m = TwoTo[w - e] /\ n = TwoTo[w]
  OBVIOUS
<1>3. /\ h = l * k /\ h \in Nat \ {0} /\ l \in Nat \ {0} /\ k \in Nat \ {0}
      /\ n = k * m /\ m \in Nat \ {0} /\ n \in Nat \ {0}
  BY <1>1, <1>2
<1>4. /\ b \in Nat /\ b = h * c /\ b \div h = c
      /\ b = (z \div h) * h <=> z \div h = c
  <2>1. b = c * h /\ h \in Nat \ {0}
    BY <1>0, <1>3
  <2>. QED
    BY ONLY <2>1, c \in Nat, z \in Nat, Masked
<1>. PICK y, x : y = Part(z, L) /\ x = Part(b, L)
  OBVIOUS
<1>5. y \in Nat /\ x \in Nat /\ y = z \div l /\ x = b \div l
  BY <1>3, <1>4, Divided DEF Part
<1>6. y \div k = z \div h /\ x \div k = c
  BY <1>3, <1>4, <1>5, DividedTwice
<1>7. (x % k) = 0
  <2>. PICK kc : kc = k * c
    OBVIOUS
  <2>1. kc \in Nat /\ b = l * kc
    <3>1. (l * k) * c = l * (k * c) /\ k * c \in Nat
      BY <1>3, Products
    <3>. QED
      BY <3>1, <1>3, <1>4
  <2>2. kc \in Int /\ 0 \in 0..l - 1 /\ b = l * kc + 0 /\ l * kc \in Nat
    BY <2>1, <1>3, <1>4
  <2>3. x = kc
    BY ONLY <2>2, <1>3, <1>5, Quotient
  <2>4. c \in Int /\ 0 \in 0..k - 1 /\ x = k * c + 0
    BY <2>3, <2>1, <1>3
  <2>. QED
    BY ONLY <2>4, <1>3, Quotient
<1>8. /\ y \div k = x \div k <=> y \div n = x \div n /\ (y % n) \in (x % n)..(x % n) + k - 1
      /\ (x % n) \in Nat /\ (x % n) + k - 1 < n
  <2>1. k \in Nat \ {0} /\ m \in Nat \ {0} /\ Factors(n, k, m)
    BY <1>3 DEF Factors
  <2>2. x \in Nat /\ MultipleOf(x, k) /\ y \in Nat
    BY <1>5, <1>7 DEF MultipleOf
  <2>3. InOneBlock(y, x, k, n)
    BY ONLY <2>1, <2>2, SameBlock
  <2>. QED
    BY <2>3 DEF InOneBlock
<1>9. Part(z, L + w) = y \div n /\ Part(b, L + w) = x \div n /\ Byte(z, L, w) = (y % n) /\ Byte(b, L, w) = (x % n)
  <2>1. b \in Nat
    BY <1>4
  <2>2. Part(z, L + w) = Part(z, L) \div TwoTo[w]
    BY PartIs
  <2>3. Part(b, L + w) = Part(b, L) \div TwoTo[w]
    BY <2>1, PartIs
  <2>. QED
    BY <2>2, <2>3 DEF Byte
<1>. QED
  BY <1>3, <1>4, <1>6, <1>8, <1>9 DEF CoversSlots

(* If more than the bits of a ply are masked, its byte is 0. *)
LEMMA WholePly ==
  ASSUME NEW L \in Nat, NEW w \in Nat, NEW e \in Nat, L + w + e <= AddressBits,
         NEW b, LowBitsMasked(b, L + w + e)
  PROVE  Byte(b, L, w) = 0
<1>0. PICK c \in Nat : b = c * TwoTo[L + w + e]
  BY DEF LowBitsMasked
<1>1. TwoTo[L + w] = TwoTo[L] * TwoTo[w] /\ TwoTo[L] \in Nat \ {0} /\ TwoTo[w] \in Nat \ {0}
  <2>1. L + w <= AddressBits
    BY Widths
  <2>. QED
    BY <2>1, TwoToSum
<1>2. TwoTo[L + w + e] = TwoTo[L + w] * TwoTo[e] /\ TwoTo[e] \in Nat \ {0}
  <2>1. L + w \in Nat
    OBVIOUS
  <2>. QED
    BY <2>1, TwoToSum
<1>. PICK l, n, k : l = TwoTo[L] /\ n = TwoTo[w] /\ k = TwoTo[e]
  OBVIOUS
<1>3. l \in Nat \ {0} /\ n \in Nat \ {0} /\ k \in Nat \ {0} /\ b = c * ((l * n) * k)
  BY <1>0, <1>1, <1>2
<1>. PICK kc : kc = k * c
  OBVIOUS
<1>. PICK x : x = n * kc
  OBVIOUS
<1>4. kc \in Nat /\ x \in Nat /\ b = l * x
  <2>. PICK ln : ln = l * n
    OBVIOUS
  <2>1. ln \in Nat /\ kc \in Nat /\ x \in Nat
    BY <1>3, Products
  <2>2. c * (ln * k) = (ln * k) * c /\ (ln * k) * c = ln * (k * c)
    <3>1. ln * k \in Nat
      BY <2>1, <1>3, Products
    <3>2. (ln * k) * c = ln * (k * c)
      BY ONLY <2>1, <1>3, c \in Nat, Products
    <3>. QED
      BY ONLY <3>1, <3>2, c \in Nat
  <2>3. l * (n * kc) = (l * n) * kc
    BY ONLY <2>1, <1>3, Products
  <2>. QED
    BY <2>1, <2>2, <2>3, <1>3
<1>5. b \div l = x
  <2>1. x \in Int /\ 0 \in 0..l - 1 /\ b = l * x + 0
    BY <1>3, <1>4
  <2>. QED
    BY ONLY <2>1, <1>3, Quotient
<1>6. (x % n) = 0
  <2>1. kc \in Int /\ 0 \in 0..n - 1 /\ x = n * kc + 0
    BY <1>3, <1>4
  <2>. QED
    BY ONLY <2>1, <1>3, Quotient
<1>. QED
  BY <1>5, <1>6 DEF Byte, Part
-----------------------------------------------------------------------------
(* The slots of a ply of each level that a route covers. *)
RootSlots == 0..TwoTo[RootBits] - 1
FirstOf(a, l) == DstByte(a.addr, l)
CountOf(a, l) == TwoTo[Min({Width(l), BaseLen(l) - a.len})]
Span(a, l) == FirstOf(a, l)..FirstOf(a, l) + CountOf(a, l) - 1

IsRoute(a) ==
  /\ a.len \in 0..AddressBits /\ a.adj \in Nat /\ a.addr \in Addresses
  /\ LowBitsMasked(a.addr, AddressBits - a.len)

(* What Min chooses of two numbers. *)
LEMMA MinOfTwo ==
  ASSUME NEW x \in Nat, NEW y \in Nat
  PROVE  Min({x, y}) = IF x <= y THEN x ELSE y
<1>1. {x, y} \in SUBSET Nat /\ {x, y} # {}
  OBVIOUS
<1>2. Min({x, y}) \in {x, y} /\ \A v \in {x, y} : Min({x, y}) <= v
  BY ONLY <1>1, MinIsLeast
<1>. QED
  BY <1>2

(* The bytes that select the slots of the three levels. *)
LEMMA DstBytes ==
  ASSUME NEW z
  PROVE  /\ DstByte(z, 0) = Byte(z, 2 * PlyBits, RootBits)
         /\ DstByte(z, 1) = Byte(z, PlyBits, PlyBits)
         /\ DstByte(z, 2) = Byte(z, 0, PlyBits)
<1>1. AddressBits - BaseLen(0) = 2 * PlyBits /\ AddressBits - BaseLen(1) = PlyBits /\ AddressBits - BaseLen(2) = 0
  BY Widths
<1>. QED
  BY <1>1, Widths DEF DstByte, Byte, Part

(* No bits of an address are above its width. *)
LEMMA AddressFits ==
  ASSUME NEW z \in Addresses
  PROVE  z \in Nat /\ Part(z, AddressBits) = 0
<1>. PICK n : n = TwoTo[AddressBits]
  OBVIOUS
<1>1. n \in Nat \ {0}
  BY Widths, TwoToIs
<1>2. z \in 0..n - 1
  BY DEF Addresses
<1>3. 0 \in Int /\ z = n * 0 + z
  BY <1>1, <1>2
<1>4. z \div n = 0
  BY ONLY <1>1, <1>2, <1>3, Quotient
<1>. QED
  BY <1>2, <1>4 DEF Part

(* The parts of two addresses are the same if the upper ones and the bytes *)
(* are.                                                                    *)
LEMMA SameParts ==
  ASSUME NEW L \in Nat, NEW w \in Nat, L + w <= AddressBits, NEW y \in Nat, NEW z \in Nat
  PROVE  Part(y, L) = Part(z, L) <=> Part(y, L + w) = Part(z, L + w) /\ Byte(y, L, w) = Byte(z, L, w)
<1>1. Part(y, L + w) = Part(y, L) \div TwoTo[w] /\ Part(y, L) = TwoTo[w] * Part(y, L + w) + Byte(y, L, w)
  BY PartIs
<1>2. Part(z, L + w) = Part(z, L) \div TwoTo[w] /\ Part(z, L) = TwoTo[w] * Part(z, L + w) + Byte(z, L, w)
  BY PartIs
<1>3. Part(y, L) = Part(z, L) => Byte(y, L, w) = Byte(z, L, w)
  BY DEF Byte
<1>. QED
  BY <1>1, <1>2, <1>3

SameUpper(y, z, l) == \A j \in 0..l - 1 : DstByte(z, j) = DstByte(y, j)
SlotsAt(l) == IF l = 0 THEN RootSlots ELSE PlySlots

RouteCovers(a, z, L, w, e) ==
  /\ Covers(a, z) <=> /\ Part(z, L + w) = Part(a.addr, L + w)
                      /\ Byte(z, L, w) \in Byte(a.addr, L, w)..Byte(a.addr, L, w) + TwoTo[e] - 1
  /\ Byte(a.addr, L, w)..Byte(a.addr, L, w) + TwoTo[e] - 1 \subseteq 0..TwoTo[w] - 1

(* The same for a route: it covers the addresses that agree with it above  *)
(* the ply and have their byte among its slots.                            *)
LEMMA CoversAt ==
  ASSUME NEW a, IsRoute(a), NEW z \in Addresses, NEW L, NEW w, NEW e, SlotBits(L, w, e), a.len = AddressBits - (L + e)
  PROVE  RouteCovers(a, z, L, w, e)
<1>1. AddressBits - a.len = L + e
  BY Widths DEF SlotBits
<1>. PICK b : b = a.addr
  OBVIOUS
<1>2. LowBitsMasked(b, L + e)
  BY <1>1 DEF IsRoute
<1>3. z \in Nat
  BY AddressFits
<1>4. CoversSlots(b, z, L, w, e)
  BY <1>2, <1>3, SlotsCovered
<1>5. Covers(a, z) <=> b = (z \div TwoTo[L + e]) * TwoTo[L + e]
  BY <1>1 DEF Covers
<1>6. TwoTo[w] \in Nat
  BY Widths, TwoToIs DEF SlotBits
<1>7. Byte(b, L, w)..Byte(b, L, w) + TwoTo[e] - 1 \subseteq 0..TwoTo[w] - 1
  <2>. PICK x, y, v : x = Byte(b, L, w) /\ y = TwoTo[e] /\ v = TwoTo[w]
    OBVIOUS
  <2>1. x \in Nat /\ x + y - 1 < v /\ v \in Nat /\ y \in Nat
    BY <1>4, <1>6 DEF CoversSlots
  <2>2. x..x + y - 1 \subseteq 0..v - 1
    BY ONLY <2>1
  <2>. QED
    BY <2>2
<1>. QED
  BY <1>4, <1>5, <1>7 DEF RouteCovers, CoversSlots

(* A route that ends at level l covers an address exactly if the bytes     *)
(* above are those of the route and the byte at l is among the slots of    *)
(* the route.                                                              *)
LEMMA Covering ==
  ASSUME NEW a, IsRoute(a), NEW z \in Addresses, NEW l \in 0..2,
         a.len <= BaseLen(l), l # 0 => a.len > BaseLen(l - 1)
  PROVE  /\ Covers(a, z) <=> SameUpper(a.addr, z, l) /\ DstByte(z, l) \in Span(a, l)
         /\ Span(a, l) \subseteq SlotsAt(l)
<1>1. a.len \in Nat /\ a.addr \in Addresses
  BY Widths DEF IsRoute
<1>2. z \in Nat /\ a.addr \in Nat /\ Part(z, AddressBits) = 0 /\ Part(a.addr, AddressBits) = 0
  BY <1>1, AddressFits
<1>. PICK e : e = BaseLen(l) - a.len
  OBVIOUS
<1>3. e \in 0..Width(l) /\ Width(l) \in Nat
  BY <1>1, Widths
<1>4. CountOf(a, l) = TwoTo[e]
  <2>1. Min({Width(l), e}) = e
    BY <1>3, MinOfTwo
  <2>. QED
    BY <2>1 DEF CountOf
<1>5. CASE l = 0
  <2>1. 2 * PlyBits \in Nat /\ RootBits \in Nat /\ 2 * PlyBits + RootBits = AddressBits /\ e \in 0..RootBits
        /\ a.len = AddressBits - (2 * PlyBits + e)
    BY <1>1, <1>3, <1>5, Widths
  <2>. PICK L, w : L = 2 * PlyBits /\ w = RootBits
    OBVIOUS
  <2>2. L \in Nat /\ w \in Nat /\ L + w = AddressBits /\ L + w <= AddressBits /\ e \in 0..w /\ a.len = AddressBits - (L + e)
    BY <2>1
  <2>3. /\ Covers(a, z) <=> /\ Part(z, L + w) = Part(a.addr, L + w)
                            /\ Byte(z, L, w) \in Byte(a.addr, L, w)..Byte(a.addr, L, w) + TwoTo[e] - 1
        /\ Byte(a.addr, L, w)..Byte(a.addr, L, w) + TwoTo[e] - 1 \subseteq 0..TwoTo[w] - 1
    <3>1. SlotBits(L, w, e)
      BY <2>2 DEF SlotBits
    <3>2. RouteCovers(a, z, L, w, e)
      BY <3>1, <2>2, CoversAt
    <3>. QED
      BY <3>2 DEF RouteCovers
  <2>4. SameUpper(a.addr, z, 0)
    BY DEF SameUpper
  <2>5. DstByte(z, 0) = Byte(z, L, w) /\ DstByte(a.addr, 0) = Byte(a.addr, L, w)
    BY DstBytes
  <2>6. Span(a, 0) = Byte(a.addr, L, w)..Byte(a.addr, L, w) + TwoTo[e] - 1
    BY <2>5, <1>4, <1>5 DEF Span, FirstOf
  <2>7. SlotsAt(0) = 0..TwoTo[w] - 1
    BY DEF SlotsAt, RootSlots
  <2>. QED
    BY <2>2, <2>3, <2>4, <2>5, <2>6, <2>7, <1>2, <1>5
<1>6. CASE l = 1
  <2>1. PlyBits \in Nat /\ PlyBits + PlyBits = 2 * PlyBits /\ PlyBits + PlyBits <= AddressBits /\ e \in 0..PlyBits
        /\ a.len = AddressBits - (PlyBits + e)
    BY <1>1, <1>3, <1>6, Widths
  <2>. PICK L, w : L = PlyBits /\ w = PlyBits
    OBVIOUS
  <2>2. L \in Nat /\ w \in Nat /\ L + w = 2 * PlyBits /\ L + w <= AddressBits /\ e \in 0..w /\ a.len = AddressBits - (L + e)
    BY <2>1
  <2>3. /\ Covers(a, z) <=> /\ Part(z, L + w) = Part(a.addr, L + w)
                            /\ Byte(z, L, w) \in Byte(a.addr, L, w)..Byte(a.addr, L, w) + TwoTo[e] - 1
        /\ Byte(a.addr, L, w)..Byte(a.addr, L, w) + TwoTo[e] - 1 \subseteq 0..TwoTo[w] - 1
    <3>1. SlotBits(L, w, e)
      BY <2>2 DEF SlotBits
    <3>2. RouteCovers(a, z, L, w, e)
      BY <3>1, <2>2, CoversAt
    <3>. QED
      BY <3>2 DEF RouteCovers
  <2>4. SameUpper(a.addr, z, 1) <=> DstByte(z, 0) = DstByte(a.addr, 0)
    BY DEF SameUpper
  <2>5. /\ DstByte(z, 0) = Byte(z, L + w, RootBits) /\ DstByte(a.addr, 0) = Byte(a.addr, L + w, RootBits)
        /\ DstByte(z, 1) = Byte(z, L, w) /\ DstByte(a.addr, 1) = Byte(a.addr, L, w)
    BY <2>2, DstBytes
  <2>6. Part(z, L + w) = Part(a.addr, L + w) <=> DstByte(z, 0) = DstByte(a.addr, 0)
    <3>1. L + w \in Nat /\ RootBits \in Nat /\ (L + w) + RootBits = AddressBits
      BY <2>2, Widths
    <3>2. Part(z, L + w) = Part(a.addr, L + w)
            <=> Part(z, (L + w) + RootBits) = Part(a.addr, (L + w) + RootBits) /\ Byte(z, L + w, RootBits) = Byte(a.addr, L + w, RootBits)
      BY <3>1, <1>2, SameParts, Widths
    <3>. QED
      BY <3>1, <3>2, <2>5, <1>2
  <2>7. Span(a, 1) = Byte(a.addr, L, w)..Byte(a.addr, L, w) + TwoTo[e] - 1
    BY <2>5, <1>4, <1>6 DEF Span, FirstOf
  <2>8. SlotsAt(1) = 0..TwoTo[w] - 1
    BY DEF SlotsAt, PlySlots
  <2>. QED
    BY <2>3, <2>4, <2>5, <2>6, <2>7, <2>8, <1>6
<1>7. CASE l = 2
  <2>1. PlyBits \in Nat /\ PlyBits <= AddressBits /\ e \in 0..PlyBits /\ a.len = AddressBits - e /\ e \in Nat
    BY <1>1, <1>3, <1>7, Widths
  <2>. PICK w : w = PlyBits
    OBVIOUS
  <2>2. 0 \in Nat /\ w \in Nat /\ 0 + w = w /\ 0 + w <= AddressBits /\ e \in 0..w /\ a.len = AddressBits - (0 + e)
    BY <2>1
  <2>3. /\ Covers(a, z) <=> /\ Part(z, 0 + w) = Part(a.addr, 0 + w)
                            /\ Byte(z, 0, w) \in Byte(a.addr, 0, w)..Byte(a.addr, 0, w) + TwoTo[e] - 1
        /\ Byte(a.addr, 0, w)..Byte(a.addr, 0, w) + TwoTo[e] - 1 \subseteq 0..TwoTo[w] - 1
    <3>1. SlotBits(0, w, e)
      BY <2>2 DEF SlotBits
    <3>2. RouteCovers(a, z, 0, w, e)
      BY <3>1, <2>2, CoversAt
    <3>. QED
      BY <3>2 DEF RouteCovers
  <2>4. SameUpper(a.addr, z, 2) <=> DstByte(z, 0) = DstByte(a.addr, 0) /\ DstByte(z, 1) = DstByte(a.addr, 1)
    <3>1. \A j \in 0..2 - 1 : j = 0 \/ j = 1
      OBVIOUS
    <3>. QED
      BY <3>1 DEF SameUpper
  <2>5. /\ DstByte(z, 0) = Byte(z, 2 * w, RootBits) /\ DstByte(a.addr, 0) = Byte(a.addr, 2 * w, RootBits)
        /\ DstByte(z, 1) = Byte(z, w, w) /\ DstByte(a.addr, 1) = Byte(a.addr, w, w)
        /\ DstByte(z, 2) = Byte(z, 0, w) /\ DstByte(a.addr, 2) = Byte(a.addr, 0, w)
    BY <2>2, DstBytes
  <2>6. Part(z, 2 * w) = Part(a.addr, 2 * w) <=> DstByte(z, 0) = DstByte(a.addr, 0)
    <3>1. 2 * w \in Nat /\ RootBits \in Nat /\ 2 * w + RootBits = AddressBits
      BY <2>2, Widths
    <3>2. Part(z, 2 * w) = Part(a.addr, 2 * w)
            <=> Part(z, 2 * w + RootBits) = Part(a.addr, 2 * w + RootBits) /\ Byte(z, 2 * w, RootBits) = Byte(a.addr, 2 * w, RootBits)
      BY <3>1, <1>2, SameParts, Widths
    <3>. QED
      BY <3>1, <3>2, <2>5, <1>2
  <2>7. Part(z, w) = Part(a.addr, w) <=> Part(z, 2 * w) = Part(a.addr, 2 * w) /\ DstByte(z, 1) = DstByte(a.addr, 1)
    <3>1. w + w = 2 * w /\ w + w <= AddressBits
      BY <2>2, Widths
    <3>2. Part(z, w) = Part(a.addr, w) <=> Part(z, w + w) = Part(a.addr, w + w) /\ Byte(z, w, w) = Byte(a.addr, w, w)
      BY <3>1, <2>2, <1>2, SameParts
    <3>. QED
      BY <3>1, <3>2, <2>5
  <2>8. Span(a, 2) = Byte(a.addr, 0, w)..Byte(a.addr, 0, w) + TwoTo[e] - 1
    BY <2>5, <1>4, <1>7 DEF Span, FirstOf
  <2>9. SlotsAt(2) = 0..TwoTo[w] - 1
    BY DEF SlotsAt, PlySlots
  <2>. QED
    BY <2>2, <2>3, <2>4, <2>5, <2>6, <2>7, <2>8, <2>9, <1>7
<1>. QED
  BY <1>5, <1>6, <1>7

(* A route that ends above a ply covers all of it or nothing. *)
LEMMA SpansPly ==
  ASSUME NEW a, IsRoute(a), NEW l \in {1, 2}, a.len <= BaseLen(l - 1)
  PROVE  FirstOf(a, l) = 0 /\ CountOf(a, l) = TwoTo[PlyBits]
<1>1. a.len \in Nat /\ PlyBits \in Nat \ {0}
  BY Widths DEF IsRoute
<1>2. CountOf(a, l) = TwoTo[PlyBits]
  <2>. PICK e : e = BaseLen(l) - a.len
    OBVIOUS
  <2>1. e \in Nat /\ PlyBits <= e /\ Width(l) = PlyBits
    BY <1>1, Widths
  <2>2. Min({PlyBits, e}) = PlyBits
    BY <1>1, <2>1, MinOfTwo
  <2>. QED
    BY <2>1, <2>2 DEF CountOf
<1>3. DstByte(a.addr, l) = 0
  <2>. PICK L, w, e : L = AddressBits - BaseLen(l) /\ w = PlyBits /\ e = BaseLen(l - 1) - a.len
    OBVIOUS
  <2>1. L \in Nat /\ w \in Nat /\ e \in Nat /\ L + w + e = AddressBits - a.len /\ L + w + e <= AddressBits /\ Width(l) = w
    BY <1>1, Widths
  <2>. PICK b : b = a.addr
    OBVIOUS
  <2>2. LowBitsMasked(b, L + w + e)
    BY <2>1 DEF IsRoute
  <2>3. Byte(b, L, w) = 0
    BY ONLY <2>1, <2>2, WholePly
  <2>. QED
    BY <2>1, <2>3 DEF DstByte, Byte, Part
<1>. QED
  BY <1>2, <1>3 DEF FirstOf
-----------------------------------------------------------------------------
(* The tries as values: the plies and the slots in them. *)
PlyIds == {Root(dev) : dev \in Devices} \cup 0..IP4_PLY_POOL_CAPACITY - 1
SlotsOf(p) == IF p < 0 THEN RootSlots ELSE PlySlots
Slot == [leaf : Nat, bits : Nat]
Positions == {x \in PlyIds \X Nat : x[2] \in SlotsOf(x[1])}
SomePlies == [PlyIds -> [RootSlots -> Slot] \cup [PlySlots -> Slot]]
Tries == {t \in [plies : SomePlies, next : Nat] : \A p \in PlyIds : t.plies[p] \in [SlotsOf(p) -> Slot]}

At(t, p, i) == t.plies[p][i]
Terminal(s) == is_terminal(s.leaf)

(* Slots are naturals and plies integers, negative for the roots. *)
LEMMA SlotsAreNat ==
  /\ PlySlots \subseteq Nat /\ RootSlots \subseteq Nat
  /\ \A p : SlotsOf(p) \subseteq Nat
  /\ \A p \in PlyIds : p \in Int
<1>1. TwoTo[PlyBits] \in Nat /\ TwoTo[RootBits] \in Nat
  BY Widths, TwoToIs
<1>2. \A n \in Nat : 0..n - 1 \subseteq Nat
  OBVIOUS
<1>3. PlySlots \subseteq Nat /\ RootSlots \subseteq Nat
  BY <1>1, <1>2 DEF PlySlots, RootSlots
<1>. QED
  BY <1>3, MtrieAssumption DEF SlotsOf, PlyIds, Root

(* Slots of a trie are slots, and their places positions. *)
LEMMA AtIs ==
  ASSUME NEW t \in Tries, NEW p \in PlyIds, NEW i \in SlotsOf(p)
  PROVE  At(t, p, i) \in Slot /\ <<p, i>> \in Positions
  BY SlotsAreNat DEF Tries, At, Positions

(* One slot gets a new value. *)
Changes(t, u, p, i, s) ==
  /\ u \in Tries /\ u.next = t.next
  /\ \A q \in PlyIds : \A j \in SlotsOf(q) : At(u, q, j) = IF q = p /\ j = i THEN s ELSE At(t, q, j)

(* An assignment to one slot of a ply changes that slot of that ply only. *)
LEMMA SetSlot ==
  ASSUME NEW t \in Tries, NEW p \in PlyIds, NEW i \in SlotsOf(p), NEW s \in Slot
  PROVE  Changes(t, [t EXCEPT !.plies[p][i] = s], p, i, s)
<1>. PICK f, g : f = t.plies /\ g = [f EXCEPT ![p][i] = s]
  OBVIOUS
<1>. PICK u : u = [t EXCEPT !.plies = g]
  OBVIOUS
<1>1. f \in SomePlies /\ (\A q \in PlyIds : f[q] \in [SlotsOf(q) -> Slot]) /\ t \in [plies : SomePlies, next : Nat]
  BY DEF Tries
<1>2. \A q \in PlyIds : g[q] = IF q = p THEN [f[p] EXCEPT ![i] = s] ELSE f[q]
  BY <1>1 DEF SomePlies
<1>3. [f[p] EXCEPT ![i] = s] \in [SlotsOf(p) -> Slot]
  BY <1>1
<1>4. \A q \in PlyIds : g[q] \in [SlotsOf(q) -> Slot]
  BY <1>1, <1>2, <1>3
<1>5. \A q \in PlyIds : [SlotsOf(q) -> Slot] \subseteq [RootSlots -> Slot] \cup [PlySlots -> Slot]
  BY DEF SlotsOf
<1>6. g \in SomePlies
  <2>1. g = [q \in PlyIds |-> g[q]]
    BY <1>1 DEF SomePlies
  <2>. QED
    BY <2>1, <1>4, <1>5 DEF SomePlies
<1>7. u.plies = g /\ u.next = t.next /\ u \in [plies : SomePlies, next : Nat]
  BY <1>1, <1>6
<1>8. u \in Tries
  BY <1>4, <1>7 DEF Tries
<1>9. ASSUME NEW q \in PlyIds, NEW j \in SlotsOf(q) PROVE At(u, q, j) = IF q = p /\ j = i THEN s ELSE At(t, q, j)
  <2>1. At(u, q, j) = g[q][j] /\ At(t, q, j) = f[q][j]
    BY <1>7 DEF At
  <2>. QED
    BY <2>1, <1>1, <1>2
<1>10. u = [t EXCEPT !.plies[p][i] = s]
  OBVIOUS
<1>. QED
  BY <1>7, <1>8, <1>9, <1>10 DEF Changes
-----------------------------------------------------------------------------
(* A route changes a trie by painting the terminal slots among some        *)
(* positions that are not more specific.                                   *)
Painted(s, new, inside) == IF inside /\ Terminal(s) /\ new.bits >= s.bits THEN new ELSE s
Paints(t, u, P, new) ==
  /\ u \in Tries /\ u.next = t.next
  /\ \A q \in PlyIds : \A j \in SlotsOf(q) : At(u, q, j) = Painted(At(t, q, j), new, <<q, j>> \in P)
NewLeaf(new) == new \in Slot /\ Terminal(new)

(* A trie is the result of painting no terminal slot. *)
LEMMA PaintsNothing ==
  ASSUME NEW t \in Tries, NEW new, NEW P,
         \A q \in PlyIds : \A j \in SlotsOf(q) : <<q, j>> \in P => ~ Terminal(At(t, q, j))
  PROVE  Paints(t, t, P, new)
  BY DEF Paints, Painted

(* Replace paints one terminal slot. *)
LEMMA PaintsOne ==
  ASSUME NEW t \in Tries, NEW new, NewLeaf(new), NEW p \in PlyIds, NEW i \in SlotsOf(p), Terminal(At(t, p, i))
  PROVE  Paints(t, Replace(t, p, i, new), {<<p, i>>}, new)
<1>1. CASE new.bits >= At(t, p, i).bits
  <2>1. Changes(t, Replace(t, p, i, new), p, i, new)
    BY <1>1, SetSlot DEF Replace, At, NewLeaf
  <2>. QED
    BY <1>1, <2>1 DEF Changes, Paints, Painted
<1>2. CASE ~ (new.bits >= At(t, p, i).bits)
  <2>1. Replace(t, p, i, new) = t
    BY <1>2 DEF Replace, At
  <2>. QED
    BY <1>2, <2>1 DEF Paints, Painted
<1>. QED
  BY <1>1, <1>2

(* Painting with one leaf twice is painting the union: what is painted is  *)
(* terminal and as specific as the leaf, so that it can be painted again.  *)
LEMMA PaintsTwice ==
  ASSUME NEW t \in Tries, NEW u, NEW v, NEW new, NewLeaf(new), NEW P, NEW Q,
         Paints(t, u, P, new), Paints(u, v, Q, new)
  PROVE  Paints(t, v, P \cup Q, new)
<1>1. v \in Tries /\ v.next = t.next
  BY DEF Paints
<1>2. ASSUME NEW q \in PlyIds, NEW j \in SlotsOf(q)
      PROVE At(v, q, j) = Painted(At(t, q, j), new, <<q, j>> \in P \cup Q)
  <2>. PICK x, y, z : x = At(t, q, j) /\ y = At(u, q, j) /\ z = At(v, q, j)
    OBVIOUS
  <2>1. y = Painted(x, new, <<q, j>> \in P) /\ z = Painted(y, new, <<q, j>> \in Q)
    BY DEF Paints
  <2>2. x \in Slot /\ new \in Slot /\ Terminal(new)
    BY AtIs DEF NewLeaf
  <2>3. x.bits \in Nat /\ new.bits \in Nat
    BY <2>2 DEF Slot
  <2>4. CASE <<q, j>> \in P
    BY <2>1, <2>2, <2>3, <2>4 DEF Painted
  <2>5. CASE <<q, j>> \notin P
    BY <2>1, <2>2, <2>3, <2>5 DEF Painted
  <2>. QED
    BY <2>4, <2>5
<1>. QED
  BY <1>1, <1>2 DEF Paints

(* Positions that are not terminal can be added. *)
SameTerminals(t, P, Q) ==
  \A q \in PlyIds : \A j \in SlotsOf(q) : Terminal(At(t, q, j)) => (<<q, j>> \in P <=> <<q, j>> \in Q)

(* Only the terminal ones among the positions matter. *)
LEMMA PaintsSame ==
  ASSUME NEW t, NEW u, NEW new, NEW P, NEW Q, Paints(t, u, P, new), SameTerminals(t, P, Q)
  PROVE  Paints(t, u, Q, new)
  BY DEF Paints, Painted, SameTerminals

(* Painting changes no slot that leads to a ply, and makes none. *)
LEMMA PaintsKeeps ==
  ASSUME NEW t, NEW u, NEW new, NewLeaf(new), NEW P, Paints(t, u, P, new),
         NEW q \in PlyIds, NEW j \in SlotsOf(q)
  PROVE  /\ Terminal(At(u, q, j)) <=> Terminal(At(t, q, j))
         /\ ~ Terminal(At(t, q, j)) => At(u, q, j) = At(t, q, j)
  BY DEF Paints, Painted, NewLeaf
-----------------------------------------------------------------------------
(* The shape of the tries.  Slot i of ply p leads to ply q. *)
Kid(t, p, i, q) ==
  /\ p \in PlyIds /\ i \in SlotsOf(p) /\ p < t.next
  /\ ~ Terminal(At(t, p, i)) /\ At(t, p, i).leaf = 2 * q /\ q \in Int

(* The level of a ply: the roots are at level 0, and lev has the others. *)
LevelOf(lev, p) == IF p < 0 THEN 0 ELSE lev[p]

GoesDown(t, lev, p, i) ==
  \E q \in 0..t.next - 1 :
    /\ At(t, p, i).leaf = 2 * q /\ At(t, p, i).bits = BaseLen(LevelOf(lev, p))
    /\ LevelOf(lev, p) \in {0, 1} /\ lev[q] = LevelOf(lev, p) + 1

LevelsDown(t, lev) ==
  \A p \in PlyIds : \A i \in SlotsOf(p) : p < t.next /\ ~ Terminal(At(t, p, i)) => GoesDown(t, lev, p, i)
HangOnce(t) == \A p, i, r, k, q : Kid(t, p, i, q) /\ Kid(t, r, k, q) => p = r /\ i = k
AllHang(t) == \A q \in 0..t.next - 1 : \E p, i : Kid(t, p, i, q)

WellFormed(t, lev) ==
  /\ t \in Tries /\ t.next <= IP4_PLY_POOL_CAPACITY
  /\ lev \in [0..t.next - 1 -> {1, 2}]
  /\ LevelsDown(t, lev) /\ HangOnce(t) /\ AllHang(t)

(* A ply in use of a level. *)
PlyAt(t, lev, p, l) == p \in PlyIds /\ p < t.next /\ LevelOf(lev, p) = l

(* The level of a ply says how wide it is, and whether it is a root. *)
LEMMA PlySlotsOf ==
  ASSUME NEW t, NEW lev, WellFormed(t, lev), NEW p, NEW l \in 0..2, PlyAt(t, lev, p, l)
  PROVE  SlotsOf(p) = SlotsAt(l) /\ (l = 0 => p < 0) /\ (l # 0 => p \in 0..t.next - 1)
<1>1. p \in Int /\ t.next \in Nat
  BY SlotsAreNat DEF PlyAt, WellFormed, Tries
<1>2. p >= 0 => lev[p] \in {1, 2}
  BY <1>1 DEF PlyAt, WellFormed
<1>. QED
  BY <1>1, <1>2 DEF PlyAt, LevelOf, SlotsAt, SlotsOf

(* What is below a slot. *)
LEMMA KidBelow ==
  ASSUME NEW t, NEW lev, WellFormed(t, lev), NEW p, NEW l \in 0..2, PlyAt(t, lev, p, l), NEW i \in SlotsOf(p),
         ~ Terminal(At(t, p, i)), NEW q, q = At(t, p, i).leaf \div 2
  PROVE  /\ Kid(t, p, i, q) /\ l \in {0, 1} /\ PlyAt(t, lev, q, l + 1) /\ q \in 0..t.next - 1
         /\ At(t, p, i).bits = BaseLen(l) /\ SlotsOf(q) = PlySlots
<1>1. p \in PlyIds /\ p < t.next /\ LevelOf(lev, p) = l
  BY DEF PlyAt
<1>2. PICK r \in 0..t.next - 1 :
        /\ At(t, p, i).leaf = 2 * r /\ At(t, p, i).bits = BaseLen(LevelOf(lev, p))
        /\ LevelOf(lev, p) \in {0, 1} /\ lev[r] = LevelOf(lev, p) + 1
  BY <1>1 DEF WellFormed, LevelsDown, GoesDown
<1>3. t.next \in Nat /\ t.next <= IP4_PLY_POOL_CAPACITY /\ IP4_PLY_POOL_CAPACITY \in Nat
  BY MtrieAssumption DEF WellFormed, Tries
<1>4. q = r /\ r \in Nat /\ r < t.next
  BY <1>2, <1>3
<1>5. q \in PlyIds /\ SlotsOf(q) = PlySlots
  BY <1>3, <1>4 DEF PlyIds, SlotsOf
<1>6. LevelOf(lev, q) = l + 1
  BY <1>1, <1>2, <1>4 DEF LevelOf
<1>. QED
  BY <1>1, <1>2, <1>4, <1>5, <1>6 DEF Kid, PlyAt

(* A ply is one level below the slot that leads to it. *)
LEMMA KidLevel ==
  ASSUME NEW t, NEW lev, WellFormed(t, lev), NEW p, NEW i, NEW q, Kid(t, p, i, q)
  PROVE  /\ LevelOf(lev, p) \in {0, 1} /\ LevelOf(lev, q) = LevelOf(lev, p) + 1
         /\ q \in 0..t.next - 1 /\ q \in PlyIds /\ SlotsOf(q) = PlySlots
<1>1. p \in PlyIds /\ i \in SlotsOf(p) /\ p < t.next /\ ~ Terminal(At(t, p, i)) /\ At(t, p, i).leaf = 2 * q /\ q \in Int
  BY DEF Kid
<1>2. GoesDown(t, lev, p, i)
  BY <1>1 DEF WellFormed, LevelsDown
<1>3. PICK r \in 0..t.next - 1 :
        At(t, p, i).leaf = 2 * r /\ LevelOf(lev, p) \in {0, 1} /\ lev[r] = LevelOf(lev, p) + 1
  BY <1>2 DEF GoesDown
<1>4. t.next \in Nat /\ t.next <= IP4_PLY_POOL_CAPACITY /\ IP4_PLY_POOL_CAPACITY \in Nat
  BY MtrieAssumption DEF WellFormed, Tries
<1>5. q = r /\ r \in Nat /\ r < t.next
  BY <1>1, <1>3, <1>4
<1>6. q \in PlyIds /\ SlotsOf(q) = PlySlots
  BY <1>4, <1>5 DEF PlyIds, SlotsOf
<1>. QED
  BY <1>3, <1>5, <1>6 DEF LevelOf

(* A slot leads to one ply. *)
LEMMA OneKid ==
  ASSUME NEW t, NEW p, NEW i, NEW q, NEW r, Kid(t, p, i, q), Kid(t, p, i, r)
  PROVE  q = r
  BY DEF Kid

(* Painting keeps the shape. *)
SameKids(t, u) == \A p, i, q : Kid(u, p, i, q) <=> Kid(t, p, i, q)

(* The slots that lead to plies are the same after painting. *)
LEMMA PaintsShape ==
  ASSUME NEW t, NEW lev, WellFormed(t, lev), NEW u, NEW new, NewLeaf(new), NEW P, Paints(t, u, P, new)
  PROVE  WellFormed(u, lev) /\ SameKids(t, u)
<1>1. u \in Tries /\ u.next = t.next
  BY DEF Paints
<1>2. SameKids(t, u)
  <2>. SUFFICES ASSUME NEW p, NEW i, NEW q PROVE Kid(u, p, i, q) <=> Kid(t, p, i, q)
    BY DEF SameKids
  <2>1. CASE p \in PlyIds /\ i \in SlotsOf(p)
    <3>1. /\ Terminal(At(u, p, i)) <=> Terminal(At(t, p, i))
          /\ ~ Terminal(At(t, p, i)) => At(u, p, i) = At(t, p, i)
      BY <2>1, PaintsKeeps
    <3>. QED
      BY <3>1, <1>1 DEF Kid
  <2>2. CASE ~ (p \in PlyIds /\ i \in SlotsOf(p))
    BY <2>2 DEF Kid
  <2>. QED
    BY <2>1, <2>2
<1>3. LevelsDown(u, lev)
  <2>. SUFFICES ASSUME NEW p \in PlyIds, NEW i \in SlotsOf(p), p < u.next, ~ Terminal(At(u, p, i)) PROVE GoesDown(u, lev, p, i)
    BY DEF LevelsDown
  <2>1. ~ Terminal(At(t, p, i)) /\ At(u, p, i) = At(t, p, i)
    BY PaintsKeeps
  <2>2. GoesDown(t, lev, p, i)
    BY <1>1, <2>1 DEF WellFormed, LevelsDown
  <2>. QED
    BY <1>1, <2>1, <2>2 DEF GoesDown
<1>4. HangOnce(u)
  BY <1>2, Zenon DEF WellFormed, HangOnce, SameKids
<1>5. AllHang(u)
  BY <1>1, <1>2, Zenon DEF WellFormed, AllHang, SameKids
<1>. QED
  BY <1>1, <1>2, <1>3, <1>4, <1>5 DEF WellFormed
-----------------------------------------------------------------------------
(* The positions at and below slot i of ply p. *)
IsUnder(t, p, i, q, j) ==
  \/ q = p /\ j = i
  \/ Kid(t, p, i, q)
  \/ \E r, k : Kid(t, p, i, r) /\ Kid(t, r, k, q)
Under(t, p, I) == {x \in Positions : \E i \in I : IsUnder(t, p, i, x[1], x[2])}

(* What is under a slot depends on the shape only. *)
LEMMA UnderSame ==
  ASSUME NEW t, NEW u, SameKids(t, u), NEW p, NEW I
  PROVE  Under(u, p, I) = Under(t, p, I)
<1>1. ASSUME NEW i, NEW q, NEW j PROVE IsUnder(u, p, i, q, j) <=> IsUnder(t, p, i, q, j)
  BY Zenon DEF IsUnder, SameKids
<1>. HIDE DEF IsUnder
<1>. QED
  BY <1>1 DEF Under

(* Being under some slot of a ply, as a formula. *)
LEMMA InUnder ==
  ASSUME NEW t, NEW p, NEW I, NEW q \in PlyIds, NEW j \in SlotsOf(q)
  PROVE  <<q, j>> \in Under(t, p, I) <=> \E i \in I : IsUnder(t, p, i, q, j)
<1>1. <<q, j>> \in Positions
  BY SlotsAreNat DEF Positions
<1>. HIDE DEF IsUnder
<1>. QED
  BY <1>1 DEF Under

(* Nothing is below a terminal slot. *)
LEMMA UnderTerminal ==
  ASSUME NEW t, NEW p \in PlyIds, NEW i \in SlotsOf(p), Terminal(At(t, p, i))
  PROVE  SameTerminals(t, {<<p, i>>}, Under(t, p, {i}))
<1>. SUFFICES ASSUME NEW q \in PlyIds, NEW j \in SlotsOf(q) PROVE <<q, j>> \in {<<p, i>>} <=> <<q, j>> \in Under(t, p, {i})
  BY DEF SameTerminals
<1>1. <<q, j>> \in Under(t, p, {i}) <=> IsUnder(t, p, i, q, j)
  BY InUnder
<1>2. \A r : ~ Kid(t, p, i, r)
  BY DEF Kid
<1>3. IsUnder(t, p, i, q, j) <=> q = p /\ j = i
  BY <1>2 DEF IsUnder
<1>. QED
  BY <1>1, <1>3

(* Below a slot that leads to a ply is that whole ply, and what is below.  *)
LEMMA UnderKid ==
  ASSUME NEW t, NEW lev, WellFormed(t, lev), NEW p, NEW i, NEW q, Kid(t, p, i, q)
  PROVE  SameTerminals(t, Under(t, q, PlySlots), Under(t, p, {i}))
<1>. SUFFICES ASSUME NEW r \in PlyIds, NEW j \in SlotsOf(r), Terminal(At(t, r, j))
              PROVE <<r, j>> \in Under(t, q, PlySlots) <=> <<r, j>> \in Under(t, p, {i})
  BY DEF SameTerminals
<1>1. <<r, j>> \in Under(t, p, {i}) <=> IsUnder(t, p, i, r, j)
  BY InUnder
<1>2. <<r, j>> \in Under(t, q, PlySlots) <=> \E k \in PlySlots : IsUnder(t, q, k, r, j)
  BY InUnder
<1>3. ~ (r = p /\ j = i)
  BY DEF Kid
<1>4. LevelOf(lev, q) \in {1, 2} /\ SlotsOf(q) = PlySlots
  BY KidLevel
<1>5. ASSUME IsUnder(t, p, i, r, j) PROVE \E k \in PlySlots : IsUnder(t, q, k, r, j)
  <2>1. CASE Kid(t, p, i, r)
    <3>1. r = q
      BY <2>1, OneKid
    <3>2. j \in PlySlots /\ IsUnder(t, q, j, r, j)
      BY <3>1, <1>4 DEF IsUnder
    <3>. QED
      BY <3>2
  <2>2. CASE \E s, k : Kid(t, p, i, s) /\ Kid(t, s, k, r)
    <3>1. PICK s, k : Kid(t, p, i, s) /\ Kid(t, s, k, r)
      BY <2>2
    <3>2. s = q
      BY <3>1, OneKid
    <3>3. k \in PlySlots
      BY <3>1, <3>2, <1>4 DEF Kid
    <3>4. IsUnder(t, q, k, r, j)
      BY <3>1, <3>2, Zenon DEF IsUnder
    <3>. QED
      BY <3>3, <3>4
  <2>. QED
    BY <1>3, <1>5, <2>1, <2>2 DEF IsUnder
<1>6. ASSUME NEW k \in PlySlots, IsUnder(t, q, k, r, j) PROVE IsUnder(t, p, i, r, j)
  <2>1. CASE r = q /\ j = k
    BY <2>1 DEF IsUnder
  <2>2. CASE Kid(t, q, k, r)
    BY <2>2, Zenon DEF IsUnder
  <2>3. CASE \E s, m : Kid(t, q, k, s) /\ Kid(t, s, m, r)
    <3>1. PICK s, m : Kid(t, q, k, s) /\ Kid(t, s, m, r)
      BY <2>3
    <3>2. LevelOf(lev, s) = LevelOf(lev, q) + 1 /\ LevelOf(lev, s) \in {0, 1}
      BY <3>1, KidLevel
    <3>. QED
      BY <3>2, <1>4
  <2>. QED
    BY <1>6, <2>1, <2>2, <2>3 DEF IsUnder
<1>. QED
  BY <1>1, <1>2, <1>5, <1>6
-----------------------------------------------------------------------------
(* The loops.  What a trie becomes while a route is painted. *)
PaintedTries(t, new) == {u \in Tries : \E P : Paints(t, u, P, new)}

(* A trie in the middle of the painting has the shape that it had before. *)
LEMMA StillShaped ==
  ASSUME NEW t, NEW lev, WellFormed(t, lev), NEW new, NewLeaf(new), NEW u \in PaintedTries(t, new)
  PROVE  WellFormed(u, lev) /\ SameKids(t, u) /\ u.next = t.next /\ u \in Tries
  BY PaintsShape DEF PaintedTries, Paints

(* Painting a painted trie again stays within the tries that painting can  *)
(* reach.                                                                  *)
LEMMA StillPainted ==
  ASSUME NEW t \in Tries, NEW new, NewLeaf(new), NEW u \in PaintedTries(t, new), NEW v, NEW P, Paints(u, v, P, new)
  PROVE  v \in PaintedTries(t, new)
<1>1. PICK Q : Paints(t, u, Q, new)
  BY DEF PaintedTries
<1>2. Paints(t, v, Q \cup P, new)
  BY <1>1, PaintsTwice
<1>3. v \in Tries
  BY DEF Paints
<1>. HIDE DEF Paints
<1>. QED
  BY <1>2, <1>3 DEF PaintedTries

(* A loop whose steps paint one slot after the other, and what is below.   *)
PaintingSteps(t, new, p, first, n, step) ==
  /\ step \in Steps(n, PaintedTries(t, new))
  /\ \A k \in 1..n : \A u \in PaintedTries(t, new) : Paints(u, step[k][u], Under(t, p, {first + k - 1}), new)

(* By induction over its steps, a loop paints what is under the slots it   *)
(* has gone over.                                                          *)
LEMMA PaintsLoop ==
  ASSUME NEW t \in Tries, NEW new, NewLeaf(new), NEW n \in Nat, NEW first \in Nat, NEW p,
         NEW step, PaintingSteps(t, new, p, first, n, step),
         NEW f, Computes(f, n, PaintedTries(t, new), t, step)
  PROVE  Paints(t, f[n], Under(t, p, first..first + n - 1), new)
<1>. DEFINE T == {k \in 0..n : Paints(t, f[k], Under(t, p, first..first + k - 1), new)}
<1>. HIDE DEF Paints, IsUnder
<1>0. f \in [0..n -> PaintedTries(t, new)] /\ f[0] = t /\ \A k \in 1..n : f[k] = step[k][f[k - 1]]
  BY DEF Computes
<1>1. 0 \in T
  <2>1. first..first + 0 - 1 = {}
    OBVIOUS
  <2>2. Under(t, p, {}) = {}
    BY DEF Under
  <2>3. Paints(t, t, {}, new)
    BY PaintsNothing
  <2>4. Paints(t, f[0], Under(t, p, first..first + 0 - 1), new)
    BY <2>1, <2>2, <2>3, <1>0
  <2>. QED
    BY <2>4
<1>2. ASSUME NEW k \in 0..n - 1, k \in T PROVE k + 1 \in T
  <2>1. k + 1 \in 1..n /\ k \in 0..n /\ (k + 1) - 1 = k /\ k + 1 \in 0..n /\ first + (k + 1) - 1 = first + k
    OBVIOUS
  <2>2. f[k] \in PaintedTries(t, new) /\ f[k + 1] = step[k + 1][f[k]]
    BY <2>1, <1>0
  <2>. PICK A, B : A = Under(t, p, first..first + k - 1) /\ B = Under(t, p, {first + k})
    OBVIOUS
  <2>3. Paints(f[k], f[k + 1], B, new)
    BY <2>1, <2>2 DEF PaintingSteps
  <2>4. Paints(t, f[k], A, new)
    BY <1>2
  <2>5. Paints(t, f[k + 1], A \cup B, new)
    BY <2>3, <2>4, PaintsTwice
  <2>6. first..first + k = (first..first + k - 1) \cup {first + k}
    OBVIOUS
  <2>7. Under(t, p, first..first + k) = A \cup B
    BY <2>6 DEF Under
  <2>. QED
    BY <2>1, <2>5, <2>7
<1>3. \A k \in 0..n : k \in T
  <2>. HIDE DEF T
  <2>. QED
    BY <1>1, <1>2, Induction
<1>. QED
  BY <1>3

(* The function that a loop stands for is the one computed. *)
LEMMA SameLoop ==
  ASSUME NEW n \in Nat, NEW S, NEW t, NEW step, NEW f, Computes(f, n, S, t, step),
         NEW g, g[0] = t, \A k \in 1..n : g[k - 1] \in S => g[k] = step[k][g[k - 1]]
  PROVE  g[n] = f[n]
<1>. DEFINE T == {k \in 0..n : g[k] = f[k]}
<1>0. f \in [0..n -> S] /\ f[0] = t /\ \A k \in 1..n : f[k] = step[k][f[k - 1]]
  BY DEF Computes
<1>1. 0 \in T
  BY <1>0
<1>2. ASSUME NEW k \in 0..n - 1, k \in T PROVE k + 1 \in T
  <2>1. k + 1 \in 1..n /\ k \in 0..n /\ (k + 1) - 1 = k /\ k + 1 \in 0..n
    OBVIOUS
  <2>2. g[k] \in S /\ f[k + 1] = step[k + 1][f[k]]
    BY <2>1, <1>0, <1>2
  <2>3. g[k + 1] = step[k + 1][g[k]]
    BY <2>1, <2>2
  <2>. QED
    BY <2>1, <2>2, <2>3, <1>2
<1>3. \A k \in 0..n : k \in T
  <2>. HIDE DEF T
  <2>. QED
    BY <1>1, <1>2, Induction
<1>. QED
  BY <1>3

(* So the loop paints the slots of p from the first one on.                *)
IsLoop(g, t, n, S, step) == g[0] = t /\ \A k \in 1..n : g[k - 1] \in S => g[k] = step[k][g[k - 1]]

(* The values that a painting loop takes exist. *)
LEMMA LoopExists ==
  ASSUME NEW t \in Tries, NEW new, NEW n \in Nat, NEW first, NEW p, NEW step, PaintingSteps(t, new, p, first, n, step)
  PROVE  \E f : Computes(f, n, PaintedTries(t, new), t, step)
<1>1. Paints(t, t, {}, new)
  BY PaintsNothing
<1>2. t \in PaintedTries(t, new)
  <2>. HIDE DEF Paints
  <2>. QED
    BY <1>1 DEF PaintedTries
<1>. QED
  BY <1>2, Recursion DEF PaintingSteps

(* A function that satisfies the equation of a loop ends with the painted  *)
(* trie.                                                                   *)
LEMMA LoopPaints ==
  ASSUME NEW t \in Tries, NEW new, NewLeaf(new), NEW n \in Nat, NEW first \in Nat, NEW p,
         NEW step, PaintingSteps(t, new, p, first, n, step), NEW g, IsLoop(g, t, n, PaintedTries(t, new), step)
  PROVE  Paints(t, g[n], Under(t, p, first..first + n - 1), new)
<1>1. PICK f : Computes(f, n, PaintedTries(t, new), t, step)
  BY LoopExists
<1>2. g[n] = f[n]
  BY <1>1, SameLoop DEF IsLoop
<1>. QED
  BY <1>1, <1>2, PaintsLoop

(* What the body of a loop does with a terminal slot, ... *)
LEMMA ReplaceBody ==
  ASSUME NEW t, NEW lev, WellFormed(t, lev), NEW new, NewLeaf(new), NEW u \in PaintedTries(t, new),
         NEW p \in PlyIds, NEW i \in SlotsOf(p), Terminal(At(u, p, i))
  PROVE  Paints(u, Replace(u, p, i, new), Under(t, p, {i}), new)
<1>. HIDE DEF Paints
<1>1. SameKids(t, u) /\ u \in Tries
  BY StillShaped
<1>2. Under(u, p, {i}) = Under(t, p, {i})
  BY <1>1, UnderSame
<1>3. Paints(u, Replace(u, p, i, new), {<<p, i>>}, new)
  BY <1>1, PaintsOne
<1>4. SameTerminals(u, {<<p, i>>}, Under(u, p, {i}))
  BY UnderTerminal
<1>. QED
  BY <1>2, <1>3, <1>4, PaintsSame

(* ... and with one that leads to a ply, once it has painted that ply. *)
LEMMA LowerBody ==
  ASSUME NEW t, NEW lev, WellFormed(t, lev), NEW new, NewLeaf(new), NEW u \in PaintedTries(t, new),
         NEW p, NEW i, NEW q, Kid(u, p, i, q), NEW v, Paints(u, v, Under(u, q, PlySlots), new)
  PROVE  Paints(u, v, Under(t, p, {i}), new)
<1>. HIDE DEF Paints
<1>1. SameKids(t, u) /\ WellFormed(u, lev)
  BY StillShaped
<1>2. Under(u, p, {i}) = Under(t, p, {i})
  BY <1>1, UnderSame
<1>3. SameTerminals(u, Under(u, q, PlySlots), Under(u, p, {i}))
  BY <1>1, UnderKid
<1>. QED
  BY <1>2, <1>3, PaintsSame
(* A lowest ply has no slot that leads down. *)
LEMMA LowestTerminal ==
  ASSUME NEW t, NEW lev, WellFormed(t, lev), NEW p, PlyAt(t, lev, p, 2), NEW i \in SlotsOf(p)
  PROVE  Terminal(At(t, p, i))
  BY DEF WellFormed, LevelsDown, GoesDown, PlyAt

(* SetLowestPly paints a lowest ply. *)
LowestBody(u, p, i, new) == IF is_terminal(u.plies[p][i].leaf) THEN Replace(u, p, i, new) ELSE u
LowestEq(g, t, p, new) ==
  g = [k \in 0..TwoTo[PlyBits] |-> IF k = 0 THEN t ELSE LowestBody(g[k - 1], p, 0 + k - 1, new)]

(* The loop of set_ply_with_more_specific_leaf over a ply of the lowest    *)
(* level.                                                                  *)
LEMMA PaintsLowestPly ==
  ASSUME NEW t, NEW lev, WellFormed(t, lev), NEW p, PlyAt(t, lev, p, 2), NEW new, NewLeaf(new)
  PROVE  Paints(t, SetLowestPly(t, p, new), Under(t, p, PlySlots), new)
<1>. PICK n, S : n = TwoTo[PlyBits] /\ S = PaintedTries(t, new)
  OBVIOUS
<1>1. n \in Nat /\ PlySlots = 0..n - 1
  BY Widths, TwoToIs DEF PlySlots
<1>2. p \in PlyIds /\ SlotsOf(p) = PlySlots /\ t \in Tries
  BY PlySlotsOf DEF PlyAt, SlotsAt, WellFormed
<1>. DEFINE step == [k \in 1..n |-> [u \in S |-> LowestBody(u, p, 0 + k - 1, new)]]
<1>3. ASSUME NEW i \in PlySlots, NEW u \in S
      PROVE  Paints(u, LowestBody(u, p, i, new), Under(t, p, {i}), new) /\ LowestBody(u, p, i, new) \in S
  <2>1. WellFormed(u, lev) /\ PlyAt(u, lev, p, 2)
    BY StillShaped DEF PlyAt
  <2>2. Terminal(At(u, p, i))
    BY <2>1, <1>2, LowestTerminal
  <2>3. LowestBody(u, p, i, new) = Replace(u, p, i, new)
    BY <2>2 DEF LowestBody, Terminal, At
  <2>4. Paints(u, Replace(u, p, i, new), Under(t, p, {i}), new)
    BY <2>2, <1>2, ReplaceBody
  <2>. QED
    BY <2>3, <2>4, <1>2, StillPainted
<1>4. \A k \in 1..n : 0 + k - 1 \in PlySlots
  BY <1>1
<1>5. \A k \in 1..n : \A u \in S : step[k][u] = LowestBody(u, p, 0 + k - 1, new)
  OBVIOUS
<1>6. step \in Steps(n, S)
  BY <1>3, <1>4 DEF Steps
<1>. HIDE DEF step
<1>7. PaintingSteps(t, new, p, 0, n, step)
  BY <1>3, <1>4, <1>5, <1>6 DEF PaintingSteps
<1>8. PICK f : Computes(f, n, S, t, step)
  BY <1>1, <1>2, <1>7, LoopExists
<1>9. LowestEq(f, t, p, new)
  <2>1. f \in [0..n -> S] /\ f[0] = t /\ \A k \in 1..n : f[k] = step[k][f[k - 1]]
    BY <1>8 DEF Computes
  <2>2. ASSUME NEW k \in 0..n PROVE f[k] = IF k = 0 THEN t ELSE LowestBody(f[k - 1], p, 0 + k - 1, new)
    <3>1. k # 0 => k \in 1..n /\ k - 1 \in 0..n
      BY <1>1
    <3>. QED
      BY <3>1, <2>1, <1>5
  <2>. QED
    BY <2>1, <2>2 DEF LowestEq
<1>10. PICK g : LowestEq(g, t, p, new) /\ SetLowestPly(t, p, new) = g[n]
  <2>. DEFINE h == CHOOSE g : LowestEq(g, t, p, new)
  <2>1. LowestEq(h, t, p, new)
    BY <1>9
  <2>2. SetLowestPly(t, p, new) = h[n]
    BY DEF SetLowestPly, ForSlots, LowestEq, LowestBody
  <2>. QED
    BY <2>1, <2>2
<1>11. IsLoop(g, t, n, S, step)
  <2>1. \A k \in 0..n : g[k] = IF k = 0 THEN t ELSE LowestBody(g[k - 1], p, 0 + k - 1, new)
    BY <1>10 DEF LowestEq
  <2>2. 0 \in 0..n /\ \A k \in 1..n : k \in 0..n /\ k # 0
    BY <1>1
  <2>. QED
    BY <2>1, <2>2, <1>5 DEF IsLoop
<1>12. Paints(t, g[n], Under(t, p, 0..0 + n - 1), new)
  BY <1>1, <1>2, <1>7, <1>11, LoopPaints
<1>. QED
  BY <1>1, <1>10, <1>12
(* set_ply_with_more_specific_leaf paints a ply and what is below it. *)
PlyBody(u, p, i, new) ==
  LET old == u.plies[p][i] IN
  IF is_terminal(old.leaf) THEN Replace(u, p, i, new) ELSE SetLowestPly(u, old.leaf \div 2, new)
PlyEq(g, t, p, new, first, n) ==
  g = [k \in 0..n |-> IF k = 0 THEN t ELSE PlyBody(g[k - 1], p, first + k - 1, new)]

(* The loop of set_ply_with_more_specific_leaf over a ply, its recursion   *)
(* into plies below included.                                              *)
LEMMA PaintsPly ==
  ASSUME NEW t, NEW lev, WellFormed(t, lev), NEW p, NEW l \in {1, 2}, PlyAt(t, lev, p, l), NEW new, NewLeaf(new)
  PROVE  Paints(t, set_ply_with_more_specific_leaf(t, p, new), Under(t, p, PlySlots), new)
<1>. PICK S : S = PaintedTries(t, new)
  OBVIOUS
<1>. PICK first, n : first = 0 /\ n = TwoTo[PlyBits]
  OBVIOUS
<1>1. n \in Nat /\ first \in Nat /\ PlySlots = first..first + n - 1
  BY Widths, TwoToIs DEF PlySlots
<1>2. p \in PlyIds /\ SlotsOf(p) = PlySlots /\ t \in Tries /\ l \in 0..2
  BY PlySlotsOf DEF PlyAt, SlotsAt, WellFormed
<1>. DEFINE step == [k \in 1..n |-> [u \in S |-> PlyBody(u, p, first + k - 1, new)]]
<1>3. ASSUME NEW i \in PlySlots, NEW u \in S
      PROVE  Paints(u, PlyBody(u, p, i, new), Under(t, p, {i}), new) /\ PlyBody(u, p, i, new) \in S
  <2>1. WellFormed(u, lev) /\ PlyAt(u, lev, p, l)
    BY StillShaped DEF PlyAt
  <2>2. CASE Terminal(At(u, p, i))
    <3>1. PlyBody(u, p, i, new) = Replace(u, p, i, new)
      BY <2>2 DEF PlyBody, Terminal, At
    <3>2. Paints(u, Replace(u, p, i, new), Under(t, p, {i}), new)
      BY <2>2, <1>2, ReplaceBody
    <3>. QED
      BY <3>1, <3>2, <1>2, StillPainted
  <2>3. CASE ~ Terminal(At(u, p, i))
    <3>. PICK q : q = At(u, p, i).leaf \div 2
      OBVIOUS
    <3>1. PlyBody(u, p, i, new) = SetLowestPly(u, q, new)
      BY <2>3 DEF PlyBody, Terminal, At
    <3>2. Kid(u, p, i, q) /\ PlyAt(u, lev, q, 2)
      BY <2>1, <2>3, <1>2, KidBelow
    <3>3. Paints(u, SetLowestPly(u, q, new), Under(u, q, PlySlots), new)
      BY <2>1, <3>2, PaintsLowestPly
    <3>4. Paints(u, SetLowestPly(u, q, new), Under(t, p, {i}), new)
      BY <3>2, <3>3, LowerBody
    <3>. QED
      BY <3>1, <3>4, <1>2, StillPainted
  <2>. QED
    BY <2>2, <2>3
<1>4. \A k \in 1..n : first + k - 1 \in PlySlots
  BY <1>1
<1>5. \A k \in 1..n : \A u \in S : step[k][u] = PlyBody(u, p, first + k - 1, new)
  OBVIOUS
<1>6. step \in Steps(n, S)
  BY <1>3, <1>4 DEF Steps
<1>. HIDE DEF step
<1>7. PaintingSteps(t, new, p, first, n, step)
  BY <1>3, <1>4, <1>5, <1>6 DEF PaintingSteps
<1>8. PICK f : Computes(f, n, S, t, step)
  BY <1>1, <1>2, <1>7, LoopExists
<1>9. PlyEq(f, t, p, new, first, n)
  <2>1. f \in [0..n -> S] /\ f[0] = t /\ \A k \in 1..n : f[k] = step[k][f[k - 1]]
    BY <1>8 DEF Computes
  <2>2. ASSUME NEW k \in 0..n PROVE f[k] = IF k = 0 THEN t ELSE PlyBody(f[k - 1], p, first + k - 1, new)
    <3>1. k # 0 => k \in 1..n /\ k - 1 \in 0..n
      BY <1>1
    <3>. QED
      BY <3>1, <2>1, <1>5
  <2>. QED
    BY <2>1, <2>2 DEF PlyEq
<1>10. PICK g : PlyEq(g, t, p, new, first, n) /\ set_ply_with_more_specific_leaf(t, p, new) = g[n]
  <2>. DEFINE h == CHOOSE g : PlyEq(g, t, p, new, first, n)
  <2>1. PlyEq(h, t, p, new, first, n)
    BY <1>9
  <2>2. set_ply_with_more_specific_leaf(t, p, new) = h[n]
    BY DEF set_ply_with_more_specific_leaf, PlyBody, ForSlots, PlyEq
  <2>. QED
    BY <2>1, <2>2
<1>11. IsLoop(g, t, n, S, step)
  <2>1. \A k \in 0..n : g[k] = IF k = 0 THEN t ELSE PlyBody(g[k - 1], p, first + k - 1, new)
    BY <1>10 DEF PlyEq
  <2>2. 0 \in 0..n /\ \A k \in 1..n : k \in 0..n /\ k # 0
    BY <1>1
  <2>. QED
    BY <2>1, <2>2, <1>5 DEF IsLoop
<1>12. Paints(t, g[n], Under(t, p, first..first + n - 1), new)
  BY <1>1, <1>2, <1>7, <1>11, LoopPaints
<1>. QED
  BY <1>1, <1>10, <1>12

(* The leaf of a route, and the slots of a ply that it goes to. *)
NewOf(a) == [leaf |-> set_adj_index(a.adj), bits |-> a.len]

(* The leaf of a route is terminal, with the length of the route. *)
LEMMA NewOfIs ==
  ASSUME NEW a, IsRoute(a)
  PROVE  NewLeaf(NewOf(a)) /\ NewOf(a).bits = a.len
<1>1. a.adj \in Nat /\ a.len \in Nat
  BY Widths DEF IsRoute
<1>2. ((1 + 2 * a.adj) % 2) = 1
  BY <1>1
<1>. QED
  BY <1>1, <1>2 DEF NewOf, NewLeaf, Slot, Terminal, is_terminal, set_adj_index

(* The slots that the loop of a route goes over are slots of the ply. *)
LEMMA SpanIs ==
  ASSUME NEW a, IsRoute(a), NEW l \in 0..2, a.len <= BaseLen(l)
  PROVE  FirstOf(a, l) \in Nat /\ CountOf(a, l) \in Nat /\ Span(a, l) \subseteq SlotsAt(l)
<1>1. a.addr \in Addresses /\ a.len \in Nat
  BY Widths DEF IsRoute
<1>2. FirstOf(a, l) \in Nat
  <2>1. a.addr \in Nat
    BY <1>1, AddressFits
  <2>2. 2 * PlyBits \in Nat /\ 2 * PlyBits + RootBits <= AddressBits /\ PlyBits + PlyBits <= AddressBits
        /\ 0 + PlyBits <= AddressBits /\ PlyBits \in Nat /\ RootBits \in Nat
    BY Widths
  <2>3. Byte(a.addr, 2 * PlyBits, RootBits) \in 0..TwoTo[RootBits] - 1
    BY <2>1, <2>2, PartIs
  <2>4. Byte(a.addr, PlyBits, PlyBits) \in 0..TwoTo[PlyBits] - 1
    BY <2>1, <2>2, PartIs
  <2>5. Byte(a.addr, 0, PlyBits) \in 0..TwoTo[PlyBits] - 1
    BY <2>1, <2>2, PartIs
  <2>6. \A n \in Nat : 0..n - 1 \subseteq Nat
    OBVIOUS
  <2>7. TwoTo[RootBits] \in Nat /\ TwoTo[PlyBits] \in Nat
    BY Widths, TwoToIs
  <2>8. Byte(a.addr, 2 * PlyBits, RootBits) \in Nat /\ Byte(a.addr, PlyBits, PlyBits) \in Nat /\ Byte(a.addr, 0, PlyBits) \in Nat
    BY <2>3, <2>4, <2>5, <2>6, <2>7
  <2>9. l = 0 \/ l = 1 \/ l = 2
    OBVIOUS
  <2>. QED
    BY <2>8, <2>9, DstBytes DEF FirstOf
<1>3. CountOf(a, l) \in Nat
  <2>. PICK e : e = BaseLen(l) - a.len
    OBVIOUS
  <2>1. e \in Nat /\ Width(l) \in 0..AddressBits
    BY <1>1, Widths
  <2>2. Min({Width(l), e}) \in 0..AddressBits
    <3>1. Width(l) \in Nat
      BY <2>1, Widths
    <3>2. Min({Width(l), e}) = IF Width(l) <= e THEN Width(l) ELSE e
      BY <2>1, <3>1, MinOfTwo
    <3>. QED
      BY <2>1, <3>1, <3>2, Widths
  <2>. QED
    BY <2>2, TwoToIs DEF CountOf
<1>4. CASE l # 0 => a.len > BaseLen(l - 1)
  BY <1>1, <1>2, <1>3, <1>4, Covering
<1>5. CASE l # 0 /\ ~ (a.len > BaseLen(l - 1))
  <2>1. l \in {1, 2} /\ a.len <= BaseLen(l - 1)
    BY <1>1, <1>5, Widths
  <2>2. FirstOf(a, l) = 0 /\ CountOf(a, l) = TwoTo[PlyBits]
    BY <2>1, SpansPly
  <2>3. TwoTo[PlyBits] \in Nat
    BY Widths, TwoToIs
  <2>4. Span(a, l) = PlySlots
    BY <2>2, <2>3 DEF Span, PlySlots
  <2>. QED
    BY <1>2, <1>3, <1>5, <2>4 DEF SlotsAt
<1>. QED
  BY <1>2, <1>3, <1>4, <1>5

(* The recursion into a ply below goes over all of it when the route ends  *)
(* above.                                                                  *)
LEMMA SpanWhole ==
  ASSUME NEW a, IsRoute(a), NEW l \in {1, 2}, a.len <= BaseLen(l - 1)
  PROVE  Span(a, l) = PlySlots
<1>1. TwoTo[PlyBits] \in Nat
  BY Widths, TwoToIs
<1>. QED
  BY <1>1, SpansPly DEF Span, PlySlots

(* The body and the equation of the loop of SetLowestLeaf. *)
LeafBody2(u, a, p, i) ==
  LET old == u.plies[p][i] IN
  IF is_terminal(old.leaf) THEN Replace(u, p, i, NewOf(a))
  ELSE IF a.len >= old.bits
    THEN set_ply_with_more_specific_leaf(u, old.leaf \div 2, NewOf(a))
    ELSE u
LeafEq2(g, t, a, p, first, n) ==
  g = [k \in 0..n |-> IF k = 0 THEN t ELSE LeafBody2(g[k - 1], a, p, first + k - 1)]

(* The loop is the function that its equation describes. *)
LEMMA LeafLoop2 ==
  ASSUME NEW t, NEW a, NEW p, a.len <= BaseLen(2)
  PROVE  SetLowestLeaf(t, a, p) = (CHOOSE g : LeafEq2(g, t, a, p, FirstOf(a, 2), CountOf(a, 2)))[CountOf(a, 2)]
BY DEF SetLowestLeaf, SetLeafAt, LeafBody2, NewOf, FirstOf, CountOf, ForSlots, LeafEq2

(* The loop of set_leaf over the slots of a ply of the lowest level. *)
LEMMA PaintsLowestLeaf ==
  ASSUME NEW t, NEW lev, WellFormed(t, lev), NEW p, PlyAt(t, lev, p, 2), NEW a, IsRoute(a), a.len <= BaseLen(2)
  PROVE  Paints(t, SetLowestLeaf(t, a, p), Under(t, p, Span(a, 2)), NewOf(a))
<1>. PICK new : new = NewOf(a)
  OBVIOUS
<1>. PICK S : S = PaintedTries(t, new)
  OBVIOUS
<1>. PICK first, n : first = FirstOf(a, 2) /\ n = CountOf(a, 2)
  OBVIOUS
<1>0. NewLeaf(new)
  BY NewOfIs
<1>1. n \in Nat /\ first \in Nat /\ Span(a, 2) = first..first + n - 1 /\ Span(a, 2) \subseteq SlotsOf(p)
  BY SpanIs, PlySlotsOf DEF Span
<1>2. p \in PlyIds /\ t \in Tries
  BY DEF PlyAt, WellFormed
<1>. DEFINE step == [k \in 1..n |-> [u \in S |-> LeafBody2(u, a, p, first + k - 1)]]
<1>3. ASSUME NEW i \in Span(a, 2), NEW u \in S
      PROVE  Paints(u, LeafBody2(u, a, p, i), Under(t, p, {i}), new) /\ LeafBody2(u, a, p, i) \in S
  <2>0. i \in SlotsOf(p)
    BY <1>1
  <2>1. WellFormed(u, lev) /\ PlyAt(u, lev, p, 2)
    BY <1>0, StillShaped DEF PlyAt
  <2>2. CASE Terminal(At(u, p, i))
    <3>1. LeafBody2(u, a, p, i) = Replace(u, p, i, new)
      BY <2>2 DEF LeafBody2, Terminal, At
    <3>2. Paints(u, Replace(u, p, i, new), Under(t, p, {i}), new)
      BY <2>0, <2>2, <1>0, <1>2, ReplaceBody
    <3>. QED
      BY <3>1, <3>2, <1>0, <1>2, StillPainted
  <2>3. Terminal(At(u, p, i))
    BY <2>0, <2>1, LowestTerminal
  <2>. QED
    BY <2>2, <2>3
<1>4. \A k \in 1..n : first + k - 1 \in Span(a, 2)
  BY <1>1
<1>5. \A k \in 1..n : \A u \in S : step[k][u] = LeafBody2(u, a, p, first + k - 1)
  OBVIOUS
<1>6. step \in Steps(n, S)
  BY <1>3, <1>4 DEF Steps
<1>. HIDE DEF step
<1>7. PaintingSteps(t, new, p, first, n, step)
  BY <1>3, <1>4, <1>5, <1>6 DEF PaintingSteps
<1>8. PICK f : Computes(f, n, S, t, step)
  BY <1>1, <1>2, <1>7, LoopExists
<1>9. LeafEq2(f, t, a, p, first, n)
  <2>1. f \in [0..n -> S] /\ f[0] = t /\ \A k \in 1..n : f[k] = step[k][f[k - 1]]
    BY <1>8 DEF Computes
  <2>2. ASSUME NEW k \in 0..n PROVE f[k] = IF k = 0 THEN t ELSE LeafBody2(f[k - 1], a, p, first + k - 1)
    <3>1. k # 0 => k \in 1..n /\ k - 1 \in 0..n
      BY <1>1
    <3>. QED
      BY <3>1, <2>1, <1>5
  <2>. QED
    BY <2>1, <2>2 DEF LeafEq2
<1>10. PICK g : LeafEq2(g, t, a, p, first, n) /\ SetLowestLeaf(t, a, p) = g[n]
  <2>. DEFINE h == CHOOSE g : LeafEq2(g, t, a, p, first, n)
  <2>1. LeafEq2(h, t, a, p, first, n)
    BY <1>9
  <2>2. SetLowestLeaf(t, a, p) = h[n]
    BY LeafLoop2
  <2>. QED
    BY <2>1, <2>2
<1>11. IsLoop(g, t, n, S, step)
  <2>1. \A k \in 0..n : g[k] = IF k = 0 THEN t ELSE LeafBody2(g[k - 1], a, p, first + k - 1)
    BY <1>10 DEF LeafEq2
  <2>2. 0 \in 0..n /\ \A k \in 1..n : k \in 0..n /\ k # 0
    BY <1>1
  <2>. QED
    BY <2>1, <2>2, <1>5 DEF IsLoop
<1>12. Paints(t, g[n], Under(t, p, first..first + n - 1), new)
  BY <1>0, <1>1, <1>2, <1>7, <1>11, LoopPaints
<1>. QED
  BY <1>1, <1>10, <1>12

(* The body and the equation of the loop of set_leaf. *)
LeafBody1(u, a, p, i) ==
  LET old == u.plies[p][i] IN
  IF is_terminal(old.leaf) THEN Replace(u, p, i, NewOf(a))
  ELSE IF a.len >= old.bits
    THEN set_ply_with_more_specific_leaf(u, old.leaf \div 2, NewOf(a))
    ELSE SetLowestLeaf(u, a, old.leaf \div 2)
LeafEq1(g, t, a, p, first, n) ==
  g = [k \in 0..n |-> IF k = 0 THEN t ELSE LeafBody1(g[k - 1], a, p, first + k - 1)]

(* The loop is the function that its equation describes. *)
LEMMA LeafLoop1 ==
  ASSUME NEW t, NEW a, NEW p, a.len <= BaseLen(1)
  PROVE  set_leaf(t, a, p) = (CHOOSE g : LeafEq1(g, t, a, p, FirstOf(a, 1), CountOf(a, 1)))[CountOf(a, 1)]
BY DEF set_leaf, SetLeafAt, LeafBody1, NewOf, FirstOf, CountOf, ForSlots, LeafEq1

(* The loop of set_leaf at the middle level, its recursions included: both *)
(* branches for a slot that leads to a ply paint all of that ply.          *)
LEMMA PaintsLeaf ==
  ASSUME NEW t, NEW lev, WellFormed(t, lev), NEW p, PlyAt(t, lev, p, 1), NEW a, IsRoute(a), a.len <= BaseLen(1)
  PROVE  Paints(t, set_leaf(t, a, p), Under(t, p, Span(a, 1)), NewOf(a))
<1>. PICK new : new = NewOf(a)
  OBVIOUS
<1>. PICK S : S = PaintedTries(t, new)
  OBVIOUS
<1>. PICK first, n : first = FirstOf(a, 1) /\ n = CountOf(a, 1)
  OBVIOUS
<1>0. NewLeaf(new)
  BY NewOfIs
<1>1. n \in Nat /\ first \in Nat /\ Span(a, 1) = first..first + n - 1 /\ Span(a, 1) \subseteq SlotsOf(p)
  BY SpanIs, PlySlotsOf DEF Span
<1>2. p \in PlyIds /\ t \in Tries
  BY DEF PlyAt, WellFormed
<1>. DEFINE step == [k \in 1..n |-> [u \in S |-> LeafBody1(u, a, p, first + k - 1)]]
<1>3. ASSUME NEW i \in Span(a, 1), NEW u \in S
      PROVE  Paints(u, LeafBody1(u, a, p, i), Under(t, p, {i}), new) /\ LeafBody1(u, a, p, i) \in S
  <2>0. i \in SlotsOf(p)
    BY <1>1
  <2>1. WellFormed(u, lev) /\ PlyAt(u, lev, p, 1)
    BY <1>0, StillShaped DEF PlyAt
  <2>2. CASE Terminal(At(u, p, i))
    <3>1. LeafBody1(u, a, p, i) = Replace(u, p, i, new)
      BY <2>2 DEF LeafBody1, Terminal, At
    <3>2. Paints(u, Replace(u, p, i, new), Under(t, p, {i}), new)
      BY <2>0, <2>2, <1>0, <1>2, ReplaceBody
    <3>. QED
      BY <3>1, <3>2, <1>0, <1>2, StillPainted
  <2>3. CASE ~ Terminal(At(u, p, i))
    <3>. PICK q : q = At(u, p, i).leaf \div 2
      OBVIOUS
    <3>. PICK v : v = LeafBody1(u, a, p, i)
      OBVIOUS
    <3>1. v = IF a.len >= At(u, p, i).bits THEN set_ply_with_more_specific_leaf(u, q, new) ELSE SetLowestLeaf(u, a, q)
      BY <2>3 DEF LeafBody1, Terminal, At
    <3>2. Kid(u, p, i, q) /\ PlyAt(u, lev, q, 2) /\ At(u, p, i).bits = BaseLen(1)
      BY <2>0, <2>1, <2>3, KidBelow
    <3>3. Paints(u, set_ply_with_more_specific_leaf(u, q, new), Under(u, q, PlySlots), new)
      BY <2>1, <3>2, <1>0, PaintsPly
    <3>4. Paints(u, SetLowestLeaf(u, a, q), Under(u, q, PlySlots), new)
      <4>1. a.len <= BaseLen(2) /\ Span(a, 2) = PlySlots
        <5>1. a.len \in Nat
          BY Widths DEF IsRoute
        <5>. QED
          BY <5>1, Widths, SpanWhole
      <4>. QED
        BY <4>1, <2>1, <3>2, PaintsLowestLeaf
    <3>5. Paints(u, v, Under(u, q, PlySlots), new)
      BY <3>1, <3>3, <3>4
    <3>6. Paints(u, v, Under(t, p, {i}), new)
      BY <3>2, <3>5, <1>0, LowerBody
    <3>. QED
      BY <3>6, <1>0, <1>2, StillPainted
  <2>. QED
    BY <2>2, <2>3
<1>4. \A k \in 1..n : first + k - 1 \in Span(a, 1)
  BY <1>1
<1>5. \A k \in 1..n : \A u \in S : step[k][u] = LeafBody1(u, a, p, first + k - 1)
  OBVIOUS
<1>6. step \in Steps(n, S)
  BY <1>3, <1>4 DEF Steps
<1>. HIDE DEF step
<1>7. PaintingSteps(t, new, p, first, n, step)
  BY <1>3, <1>4, <1>5, <1>6 DEF PaintingSteps
<1>8. PICK f : Computes(f, n, S, t, step)
  BY <1>1, <1>2, <1>7, LoopExists
<1>9. LeafEq1(f, t, a, p, first, n)
  <2>1. f \in [0..n -> S] /\ f[0] = t /\ \A k \in 1..n : f[k] = step[k][f[k - 1]]
    BY <1>8 DEF Computes
  <2>2. ASSUME NEW k \in 0..n PROVE f[k] = IF k = 0 THEN t ELSE LeafBody1(f[k - 1], a, p, first + k - 1)
    <3>1. k # 0 => k \in 1..n /\ k - 1 \in 0..n
      BY <1>1
    <3>. QED
      BY <3>1, <2>1, <1>5
  <2>. QED
    BY <2>1, <2>2 DEF LeafEq1
<1>10. PICK g : LeafEq1(g, t, a, p, first, n) /\ set_leaf(t, a, p) = g[n]
  <2>. DEFINE h == CHOOSE g : LeafEq1(g, t, a, p, first, n)
  <2>1. LeafEq1(h, t, a, p, first, n)
    BY <1>9
  <2>2. set_leaf(t, a, p) = h[n]
    BY LeafLoop1
  <2>. QED
    BY <2>1, <2>2
<1>11. IsLoop(g, t, n, S, step)
  <2>1. \A k \in 0..n : g[k] = IF k = 0 THEN t ELSE LeafBody1(g[k - 1], a, p, first + k - 1)
    BY <1>10 DEF LeafEq1
  <2>2. 0 \in 0..n /\ \A k \in 1..n : k \in 0..n /\ k # 0
    BY <1>1
  <2>. QED
    BY <2>1, <2>2, <1>5 DEF IsLoop
<1>12. Paints(t, g[n], Under(t, p, first..first + n - 1), new)
  BY <1>0, <1>1, <1>2, <1>7, <1>11, LoopPaints
<1>. QED
  BY <1>1, <1>10, <1>12

RootLeaf(t, a, p) == SetLeafAt(t, a, p, 0, LAMBDA u, q : set_leaf(u, a, q))

(* The body and the equation of the loop of set_root_leaf. *)
LeafBody0(u, a, p, i) ==
  LET old == u.plies[p][i] IN
  IF is_terminal(old.leaf) THEN Replace(u, p, i, NewOf(a))
  ELSE IF a.len >= old.bits
    THEN set_ply_with_more_specific_leaf(u, old.leaf \div 2, NewOf(a))
    ELSE set_leaf(u, a, old.leaf \div 2)
LeafEq0(g, t, a, p, first, n) ==
  g = [k \in 0..n |-> IF k = 0 THEN t ELSE LeafBody0(g[k - 1], a, p, first + k - 1)]

(* The loop is the function that its equation describes. *)
LEMMA LeafLoop0 ==
  ASSUME NEW t, NEW a, NEW p, a.len <= BaseLen(0)
  PROVE  RootLeaf(t, a, p) = (CHOOSE g : LeafEq0(g, t, a, p, FirstOf(a, 0), CountOf(a, 0)))[CountOf(a, 0)]
BY DEF RootLeaf, SetLeafAt, LeafBody0, NewOf, FirstOf, CountOf, ForSlots, LeafEq0

(* The loop of set_root_leaf, its recursions included. *)
LEMMA PaintsRoot ==
  ASSUME NEW t, NEW lev, WellFormed(t, lev), NEW p, PlyAt(t, lev, p, 0), NEW a, IsRoute(a), a.len <= BaseLen(0)
  PROVE  Paints(t, RootLeaf(t, a, p), Under(t, p, Span(a, 0)), NewOf(a))
<1>. PICK new : new = NewOf(a)
  OBVIOUS
<1>. PICK S : S = PaintedTries(t, new)
  OBVIOUS
<1>. PICK first, n : first = FirstOf(a, 0) /\ n = CountOf(a, 0)
  OBVIOUS
<1>0. NewLeaf(new)
  BY NewOfIs
<1>1. n \in Nat /\ first \in Nat /\ Span(a, 0) = first..first + n - 1 /\ Span(a, 0) \subseteq SlotsOf(p)
  BY SpanIs, PlySlotsOf DEF Span
<1>2. p \in PlyIds /\ t \in Tries
  BY DEF PlyAt, WellFormed
<1>. DEFINE step == [k \in 1..n |-> [u \in S |-> LeafBody0(u, a, p, first + k - 1)]]
<1>3. ASSUME NEW i \in Span(a, 0), NEW u \in S
      PROVE  Paints(u, LeafBody0(u, a, p, i), Under(t, p, {i}), new) /\ LeafBody0(u, a, p, i) \in S
  <2>0. i \in SlotsOf(p)
    BY <1>1
  <2>1. WellFormed(u, lev) /\ PlyAt(u, lev, p, 0)
    BY <1>0, StillShaped DEF PlyAt
  <2>2. CASE Terminal(At(u, p, i))
    <3>1. LeafBody0(u, a, p, i) = Replace(u, p, i, new)
      BY <2>2 DEF LeafBody0, Terminal, At
    <3>2. Paints(u, Replace(u, p, i, new), Under(t, p, {i}), new)
      BY <2>0, <2>2, <1>0, <1>2, ReplaceBody
    <3>. QED
      BY <3>1, <3>2, <1>0, <1>2, StillPainted
  <2>3. CASE ~ Terminal(At(u, p, i))
    <3>. PICK q : q = At(u, p, i).leaf \div 2
      OBVIOUS
    <3>. PICK v : v = LeafBody0(u, a, p, i)
      OBVIOUS
    <3>1. v = IF a.len >= At(u, p, i).bits THEN set_ply_with_more_specific_leaf(u, q, new) ELSE set_leaf(u, a, q)
      BY <2>3 DEF LeafBody0, Terminal, At
    <3>2. Kid(u, p, i, q) /\ PlyAt(u, lev, q, 1) /\ At(u, p, i).bits = BaseLen(0)
      BY <2>0, <2>1, <2>3, KidBelow
    <3>3. Paints(u, set_ply_with_more_specific_leaf(u, q, new), Under(u, q, PlySlots), new)
      BY <2>1, <3>2, <1>0, PaintsPly
    <3>4. Paints(u, set_leaf(u, a, q), Under(u, q, PlySlots), new)
      <4>1. a.len <= BaseLen(1) /\ Span(a, 1) = PlySlots
        <5>1. a.len \in Nat
          BY Widths DEF IsRoute
        <5>. QED
          BY <5>1, Widths, SpanWhole
      <4>. QED
        BY <4>1, <2>1, <3>2, PaintsLeaf
    <3>5. Paints(u, v, Under(u, q, PlySlots), new)
      BY <3>1, <3>3, <3>4
    <3>6. Paints(u, v, Under(t, p, {i}), new)
      BY <3>2, <3>5, <1>0, LowerBody
    <3>. QED
      BY <3>6, <1>0, <1>2, StillPainted
  <2>. QED
    BY <2>2, <2>3
<1>4. \A k \in 1..n : first + k - 1 \in Span(a, 0)
  BY <1>1
<1>5. \A k \in 1..n : \A u \in S : step[k][u] = LeafBody0(u, a, p, first + k - 1)
  OBVIOUS
<1>6. step \in Steps(n, S)
  BY <1>3, <1>4 DEF Steps
<1>. HIDE DEF step
<1>7. PaintingSteps(t, new, p, first, n, step)
  BY <1>3, <1>4, <1>5, <1>6 DEF PaintingSteps
<1>8. PICK f : Computes(f, n, S, t, step)
  BY <1>1, <1>2, <1>7, LoopExists
<1>9. LeafEq0(f, t, a, p, first, n)
  <2>1. f \in [0..n -> S] /\ f[0] = t /\ \A k \in 1..n : f[k] = step[k][f[k - 1]]
    BY <1>8 DEF Computes
  <2>2. ASSUME NEW k \in 0..n PROVE f[k] = IF k = 0 THEN t ELSE LeafBody0(f[k - 1], a, p, first + k - 1)
    <3>1. k # 0 => k \in 1..n /\ k - 1 \in 0..n
      BY <1>1
    <3>. QED
      BY <3>1, <2>1, <1>5
  <2>. QED
    BY <2>1, <2>2 DEF LeafEq0
<1>10. PICK g : LeafEq0(g, t, a, p, first, n) /\ RootLeaf(t, a, p) = g[n]
  <2>. DEFINE h == CHOOSE g : LeafEq0(g, t, a, p, first, n)
  <2>1. LeafEq0(h, t, a, p, first, n)
    BY <1>9
  <2>2. RootLeaf(t, a, p) = h[n]
    BY LeafLoop0
  <2>. QED
    BY <2>1, <2>2
<1>11. IsLoop(g, t, n, S, step)
  <2>1. \A k \in 0..n : g[k] = IF k = 0 THEN t ELSE LeafBody0(g[k - 1], a, p, first + k - 1)
    BY <1>10 DEF LeafEq0
  <2>2. 0 \in 0..n /\ \A k \in 1..n : k \in 0..n /\ k # 0
    BY <1>1
  <2>. QED
    BY <2>1, <2>2, <1>5 DEF IsLoop
<1>12. Paints(t, g[n], Under(t, p, first..first + n - 1), new)
  BY <1>0, <1>1, <1>2, <1>7, <1>11, LoopPaints
<1>. QED
  BY <1>1, <1>10, <1>12
-----------------------------------------------------------------------------
(* The way of an address through the trie of a device: the ply that it     *)
(* comes to at a level, and the terminal slot where it ends.               *)
WalkTo(t, d, z, l, p) ==
  \/ l = 0 /\ p = Root(d)
  \/ l = 1 /\ Kid(t, Root(d), DstByte(z, 0), p)
  \/ l = 2 /\ \E q : Kid(t, Root(d), DstByte(z, 0), q) /\ Kid(t, q, DstByte(z, 1), p)
Reaches(t, d, z, p, i) == \E l \in 0..2 : WalkTo(t, d, z, l, p) /\ i = DstByte(z, l) /\ Terminal(At(t, p, i))

(* Every device has a root of its own. *)
LEMMA RootIs ==
  ASSUME NEW d \in Devices
  PROVE  Root(d) \in PlyIds /\ Root(d) \in Int /\ Root(d) < 0 /\ \A e \in Devices : Root(e) = Root(d) => e = d
  BY MtrieAssumption DEF Root, PlyIds

(* The ply that an address comes to at a level is of that level and in     *)
(* use.                                                                    *)
LEMMA WalkLevel ==
  ASSUME NEW t, NEW lev, WellFormed(t, lev), NEW d \in Devices, NEW z, NEW l \in 0..2, NEW p, WalkTo(t, d, z, l, p)
  PROVE  PlyAt(t, lev, p, l)
<1>0. t.next \in Nat
  BY DEF WellFormed, Tries
<1>1. CASE l = 0
  <2>1. p = Root(d)
    BY <1>1 DEF WalkTo
  <2>2. Root(d) \in PlyIds /\ Root(d) \in Int /\ Root(d) < 0
    BY RootIs
  <2>. QED
    BY <1>0, <1>1, <2>1, <2>2 DEF PlyAt, LevelOf
<1>2. ASSUME NEW r, NEW k, Kid(t, r, k, p) PROVE p \in PlyIds /\ p < t.next /\ LevelOf(lev, p) = LevelOf(lev, r) + 1
  BY <1>0, <1>2, KidLevel
<1>3. LevelOf(lev, Root(d)) = 0
  BY RootIs DEF LevelOf
<1>4. CASE l = 1
  BY <1>2, <1>3, <1>4 DEF WalkTo, PlyAt
<1>5. CASE l = 2
  <2>1. PICK q : Kid(t, Root(d), DstByte(z, 0), q) /\ Kid(t, q, DstByte(z, 1), p)
    BY <1>5 DEF WalkTo
  <2>2. LevelOf(lev, q) = 1
    BY <2>1, <1>3, KidLevel
  <2>. QED
    BY <1>2, <1>5, <2>1, <2>2 DEF PlyAt
<1>. QED
  BY <1>1, <1>4, <1>5

(* One step up. *)
LEMMA WalkUp ==
  ASSUME NEW t, NEW d, NEW z, NEW l \in {0, 1}, NEW q
  PROVE  WalkTo(t, d, z, l + 1, q) <=> \E p : WalkTo(t, d, z, l, p) /\ Kid(t, p, DstByte(z, l), q)
<1>1. CASE l = 0
  BY <1>1 DEF WalkTo
<1>2. CASE l = 1
  BY <1>2 DEF WalkTo
<1>. QED
  BY <1>1, <1>2

(* There is one way. *)
LEMMA WalkOne ==
  ASSUME NEW t, NEW d, NEW z, NEW l \in 0..2, NEW p, NEW q, WalkTo(t, d, z, l, p), WalkTo(t, d, z, l, q)
  PROVE  p = q
<1>1. CASE l = 0
  BY <1>1 DEF WalkTo
<1>2. CASE l = 1
  BY <1>2, OneKid DEF WalkTo
<1>3. CASE l = 2
  <2>1. PICK r : Kid(t, Root(d), DstByte(z, 0), r) /\ Kid(t, r, DstByte(z, 1), p)
    BY <1>3 DEF WalkTo
  <2>2. PICK s : Kid(t, Root(d), DstByte(z, 0), s) /\ Kid(t, s, DstByte(z, 1), q)
    BY <1>3 DEF WalkTo
  <2>3. r = s
    BY <2>1, <2>2, OneKid
  <2>. QED
    BY <2>1, <2>2, <2>3, OneKid
<1>. QED
  BY <1>1, <1>2, <1>3

(* Addresses that come to the same ply have the same bytes above it, ... *)
LEMMA WalkBack ==
  ASSUME NEW t, HangOnce(t), NEW d \in Devices, NEW e \in Devices, NEW y, NEW z, NEW l \in 0..2, NEW p,
         WalkTo(t, d, z, l, p), WalkTo(t, e, y, l, p)
  PROVE  d = e /\ SameUpper(y, z, l)
<1>0. Root(d) = Root(e) => d = e
  BY RootIs
<1>1. CASE l = 0
  BY <1>0, <1>1 DEF WalkTo, SameUpper
<1>2. ASSUME NEW q, Kid(t, Root(d), DstByte(z, 0), q), Kid(t, Root(e), DstByte(y, 0), q)
      PROVE  d = e /\ DstByte(z, 0) = DstByte(y, 0)
  BY <1>0, <1>2 DEF HangOnce
<1>3. CASE l = 1
  <2>1. d = e /\ DstByte(z, 0) = DstByte(y, 0)
    BY <1>2, <1>3 DEF WalkTo
  <2>2. \A j \in 0..l - 1 : j = 0
    BY <1>3
  <2>. QED
    BY <2>1, <2>2 DEF SameUpper
<1>4. CASE l = 2
  <2>1. PICK r : Kid(t, Root(d), DstByte(z, 0), r) /\ Kid(t, r, DstByte(z, 1), p)
    BY <1>4 DEF WalkTo
  <2>2. PICK s : Kid(t, Root(e), DstByte(y, 0), s) /\ Kid(t, s, DstByte(y, 1), p)
    BY <1>4 DEF WalkTo
  <2>3. r = s /\ DstByte(z, 1) = DstByte(y, 1)
    BY <2>1, <2>2 DEF HangOnce
  <2>4. d = e /\ DstByte(z, 0) = DstByte(y, 0)
    BY <2>1, <2>2, <2>3, <1>2
  <2>5. \A j \in 0..l - 1 : j = 0 \/ j = 1
    BY <1>4
  <2>. QED
    BY <2>3, <2>4, <2>5 DEF SameUpper
<1>. QED
  BY <1>1, <1>3, <1>4

(* ... and addresses with the same bytes come to the same ply. *)
LEMMA WalkSame ==
  ASSUME NEW t, NEW d, NEW y, NEW z, NEW l \in 0..2, NEW p, WalkTo(t, d, y, l, p), SameUpper(y, z, l)
  PROVE  WalkTo(t, d, z, l, p)
<1>1. l > 0 => DstByte(z, 0) = DstByte(y, 0)
  BY DEF SameUpper
<1>2. l > 1 => DstByte(z, 1) = DstByte(y, 1)
  BY DEF SameUpper
<1>3. CASE l = 0
  BY <1>3 DEF WalkTo
<1>4. CASE l = 1
  BY <1>1, <1>4 DEF WalkTo
<1>5. CASE l = 2
  <2>1. PICK q : Kid(t, Root(d), DstByte(y, 0), q) /\ Kid(t, q, DstByte(y, 1), p)
    BY <1>5 DEF WalkTo
  <2>2. DstByte(z, 0) = DstByte(y, 0) /\ DstByte(z, 1) = DstByte(y, 1)
    BY <1>1, <1>2, <1>5
  <2>3. Kid(t, Root(d), DstByte(z, 0), q) /\ Kid(t, q, DstByte(z, 1), p)
    BY <2>1, <2>2
  <2>. QED
    BY <2>3, <1>5 DEF WalkTo
<1>. QED
  BY <1>3, <1>4, <1>5

(* What an address passes is not where it ends. *)
LEMMA WalkThrough ==
  ASSUME NEW t, NEW d, NEW z, NEW l \in 0..2, NEW p, WalkTo(t, d, z, l, p), NEW m \in 0..l - 1, NEW q, WalkTo(t, d, z, m, q)
  PROVE  ~ Terminal(At(t, q, DstByte(z, m)))
<1>0. \A r, k, s : Kid(t, r, k, s) => ~ Terminal(At(t, r, k))
  BY DEF Kid
<1>1. CASE l = 1
  <2>1. m = 0
    BY <1>1
  <2>. QED
    BY <2>1, <1>0, <1>1 DEF WalkTo
<1>2. CASE l = 2
  <2>1. PICK r : Kid(t, Root(d), DstByte(z, 0), r) /\ Kid(t, r, DstByte(z, 1), p)
    BY <1>2 DEF WalkTo
  <2>2. CASE m = 0
    BY <2>1, <2>2, <1>0 DEF WalkTo
  <2>3. CASE m = 1
    <3>1. q = r
      BY <2>1, <2>3, OneKid DEF WalkTo
    <3>. QED
      BY <3>1, <2>1, <2>3, <1>0
  <2>4. m = 0 \/ m = 1
    BY <1>2
  <2>. QED
    BY <2>2, <2>3, <2>4
<1>3. l = 1 \/ l = 2
  OBVIOUS
<1>. QED
  BY <1>1, <1>2, <1>3
(* The addresses that end at or below slots I of a ply are those that come *)
(* to the ply and go through one of the slots.                             *)
LEMMA EndsUnder ==
  ASSUME NEW t, NEW lev, WellFormed(t, lev), NEW d \in Devices, NEW e \in Devices, NEW y, NEW z,
         NEW l \in 0..2, NEW p, WalkTo(t, e, y, l, p), NEW I,
         NEW q \in PlyIds, NEW j \in SlotsOf(q), Reaches(t, d, z, q, j)
  PROVE  <<q, j>> \in Under(t, p, I) <=> d = e /\ SameUpper(y, z, l) /\ DstByte(z, l) \in I
<1>1. PICK m \in 0..2 : WalkTo(t, d, z, m, q) /\ j = DstByte(z, m) /\ Terminal(At(t, q, j))
  BY DEF Reaches
<1>2. <<q, j>> \in Under(t, p, I) <=> \E i \in I : IsUnder(t, p, i, q, j)
  BY InUnder
<1>3. LevelOf(lev, p) = l /\ LevelOf(lev, q) = m
  BY <1>1, WalkLevel DEF PlyAt
<1>4. HangOnce(t)
  BY DEF WellFormed
<1>5. ASSUME NEW i \in I, IsUnder(t, p, i, q, j) PROVE d = e /\ SameUpper(y, z, l) /\ DstByte(z, l) \in I
  <2>1. SUFFICES WalkTo(t, d, z, l, p) /\ i = DstByte(z, l)
    BY <2>1, <1>4, WalkBack
  <2>2. CASE q = p /\ j = i
    BY <2>2, <1>1, <1>3
  <2>3. CASE Kid(t, p, i, q)
    <3>1. m = l + 1 /\ l \in {0, 1}
      BY <2>3, <1>3, KidLevel
    <3>2. PICK r : WalkTo(t, d, z, l, r) /\ Kid(t, r, DstByte(z, l), q)
      BY <3>1, <1>1, WalkUp
    <3>3. r = p /\ DstByte(z, l) = i
      BY <3>2, <2>3, <1>4 DEF HangOnce
    <3>. QED
      BY <3>2, <3>3
  <2>4. CASE \E r, k : Kid(t, p, i, r) /\ Kid(t, r, k, q)
    <3>1. PICK r, k : Kid(t, p, i, r) /\ Kid(t, r, k, q)
      BY <2>4
    <3>2. LevelOf(lev, q) = LevelOf(lev, r) + 1 /\ LevelOf(lev, r) \in {0, 1}
      BY <3>1, KidLevel
    <3>3. LevelOf(lev, r) = LevelOf(lev, p) + 1 /\ LevelOf(lev, p) \in {0, 1}
      BY <3>1, KidLevel
    <3>4. m = 2 /\ l = 0
      BY <3>2, <3>3, <1>3
    <3>5. WalkTo(t, d, z, 1 + 1, q)
      BY <3>4, <1>1
    <3>6. PICK s : WalkTo(t, d, z, 1, s) /\ Kid(t, s, DstByte(z, 1), q)
      BY <3>5, WalkUp
    <3>7. s = r
      BY <3>1, <3>6, <1>4 DEF HangOnce
    <3>8. WalkTo(t, d, z, 0 + 1, r)
      BY <3>6, <3>7
    <3>9. PICK o : WalkTo(t, d, z, 0, o) /\ Kid(t, o, DstByte(z, 0), r)
      BY <3>8, WalkUp
    <3>10. o = p /\ DstByte(z, 0) = i
      BY <3>1, <3>9, <1>4 DEF HangOnce
    <3>. QED
      BY <3>4, <3>9, <3>10
  <2>. QED
    BY <1>5, <2>2, <2>3, <2>4 DEF IsUnder
<1>6. ASSUME d = e, SameUpper(y, z, l), DstByte(z, l) \in I PROVE \E i \in I : IsUnder(t, p, i, q, j)
  <2>. PICK i : i = DstByte(z, l)
    OBVIOUS
  <2>1. WalkTo(t, d, z, l, p)
    BY <1>6, WalkSame
  <2>2. ~ (m \in 0..l - 1)
    BY <2>1, <1>1, WalkThrough
  <2>3. CASE m = l
    <3>1. q = p /\ j = i
      BY <2>1, <2>3, <1>1, WalkOne
    <3>. QED
      BY <3>1, <1>6 DEF IsUnder
  <2>4. CASE m = l + 1
    <3>1. l \in {0, 1}
      BY <2>4
    <3>2. PICK r : WalkTo(t, d, z, l, r) /\ Kid(t, r, DstByte(z, l), q)
      BY <3>1, <2>4, <1>1, WalkUp
    <3>3. r = p
      BY <3>2, <2>1, WalkOne
    <3>4. IsUnder(t, p, i, q, j)
      BY <3>2, <3>3, Zenon DEF IsUnder
    <3>. QED
      BY <3>4, <1>6
  <2>5. CASE m = 2 /\ l = 0
    <3>1. WalkTo(t, d, z, 1 + 1, q)
      BY <2>5, <1>1
    <3>2. PICK s : WalkTo(t, d, z, 1, s) /\ Kid(t, s, DstByte(z, 1), q)
      BY <3>1, WalkUp
    <3>3. WalkTo(t, d, z, 0 + 1, s)
      BY <3>2
    <3>4. PICK o : WalkTo(t, d, z, 0, o) /\ Kid(t, o, DstByte(z, 0), s)
      BY <3>3, WalkUp
    <3>5. o = p /\ i = DstByte(z, 0)
      BY <3>4, <2>1, <2>5, WalkOne
    <3>6. IsUnder(t, p, i, q, j)
      BY <3>2, <3>4, <3>5, Zenon DEF IsUnder
    <3>. QED
      BY <3>6, <1>6
  <2>. QED
    BY <2>2, <2>3, <2>4, <2>5
<1>. QED
  BY <1>2, <1>5, <1>6

(* Painting moves no address. *)
LEMMA PaintsEnds ==
  ASSUME NEW t, NEW lev, WellFormed(t, lev), NEW u, NEW new, NewLeaf(new), NEW P, Paints(t, u, P, new),
         NEW d, NEW z, NEW p \in PlyIds, NEW i \in SlotsOf(p), Reaches(u, d, z, p, i)
  PROVE  Reaches(t, d, z, p, i)
<1>1. SameKids(t, u)
  BY PaintsShape
<1>2. PICK l \in 0..2 : WalkTo(u, d, z, l, p) /\ i = DstByte(z, l) /\ Terminal(At(u, p, i))
  BY DEF Reaches
<1>3. WalkTo(t, d, z, l, p)
  BY <1>1, <1>2 DEF WalkTo, SameKids
<1>4. Terminal(At(t, p, i))
  BY <1>2, PaintsKeeps
<1>. QED
  BY <1>2, <1>3, <1>4 DEF Reaches
-----------------------------------------------------------------------------
(* A ply is created in place of a terminal slot. *)
Grown(t, p, i, base) ==
  [ply_create(t, t.plies[p][i]) EXCEPT !.plies[p][i] = [leaf |-> 2 * t.next, bits |-> base]]
Grows(t, u, p, i, base) ==
  /\ u \in Tries /\ u.next = t.next + 1
  /\ \A q \in PlyIds : \A j \in SlotsOf(q) :
       At(u, q, j) = IF q = p /\ j = i THEN [leaf |-> 2 * t.next, bits |-> base]
                     ELSE IF q = t.next THEN At(t, p, i) ELSE At(t, q, j)

(* What ply_create and the assignment that hangs the new ply change, slot  *)
(* by slot.                                                                *)
LEMMA GrownIs ==
  ASSUME NEW t \in Tries, t.next < IP4_PLY_POOL_CAPACITY, NEW p \in PlyIds, p < t.next, NEW i \in SlotsOf(p), NEW base \in Nat
  PROVE  Grows(t, Grown(t, p, i, base), p, i, base)
<1>. PICK s, f, N : s = At(t, p, i) /\ f = t.plies /\ N = t.next
  OBVIOUS
<1>. PICK u : u = ply_create(t, t.plies[p][i])
  OBVIOUS
<1>0. N \in Nat /\ IP4_PLY_POOL_CAPACITY \in Nat
  BY MtrieAssumption DEF Tries
<1>1. N \in PlyIds /\ SlotsOf(N) = PlySlots /\ p # N
  BY <1>0 DEF PlyIds, SlotsOf
<1>2. s \in Slot /\ [i2 \in PlySlots |-> s] \in [PlySlots -> Slot]
  BY AtIs
<1>3. f \in SomePlies /\ \A q \in PlyIds : f[q] \in [SlotsOf(q) -> Slot]
  BY DEF Tries
<1>. PICK c : c = [i2 \in PlySlots |-> s]
  OBVIOUS
<1>. PICK g : g = [f EXCEPT ![N] = c]
  OBVIOUS
<1>4. u = [plies |-> g, next |-> N + 1]
  BY DEF ply_create, At
<1>5. \A q \in PlyIds : g[q] = IF q = N THEN c ELSE f[q]
  BY <1>3 DEF SomePlies
<1>6. \A q \in PlyIds : g[q] \in [SlotsOf(q) -> Slot]
  BY <1>1, <1>2, <1>3, <1>5
<1>7. g \in SomePlies
  <2>1. g = [q \in PlyIds |-> g[q]]
    BY <1>3 DEF SomePlies
  <2>2. \A q \in PlyIds : [SlotsOf(q) -> Slot] \subseteq [RootSlots -> Slot] \cup [PlySlots -> Slot]
    BY DEF SlotsOf
  <2>. QED
    BY <2>1, <2>2, <1>6 DEF SomePlies
<1>8. u \in Tries /\ u.next = N + 1
  <2>1. u.plies = g /\ u.next = N + 1
    BY <1>4
  <2>2. N + 1 \in Nat
    BY <1>0
  <2>3. u \in [plies : SomePlies, next : Nat]
    BY <2>2, <1>4, <1>7
  <2>. QED
    BY <2>1, <2>3, <1>6 DEF Tries
<1>9. \A q \in PlyIds : \A j \in SlotsOf(q) : At(u, q, j) = IF q = N THEN s ELSE At(t, q, j)
  <2>. SUFFICES ASSUME NEW q \in PlyIds, NEW j \in SlotsOf(q) PROVE At(u, q, j) = IF q = N THEN s ELSE At(t, q, j)
    OBVIOUS
  <2>1. At(u, q, j) = g[q][j] /\ At(t, q, j) = f[q][j]
    BY <1>4 DEF At
  <2>2. CASE q = N
    BY <2>1, <2>2, <1>1, <1>5
  <2>3. CASE q # N
    BY <2>1, <2>3, <1>5
  <2>. QED
    BY <2>2, <2>3
<1>. PICK new : new = [leaf |-> 2 * N, bits |-> base]
  OBVIOUS
<1>10. new \in Slot
  BY <1>0 DEF Slot
<1>. PICK v : v = Grown(t, p, i, base)
  OBVIOUS
<1>11. v = [u EXCEPT !.plies[p][i] = new]
  BY DEF Grown
<1>12. Changes(u, v, p, i, new)
  <2>1. u \in Tries /\ p \in PlyIds /\ i \in SlotsOf(p) /\ new \in Slot
    BY <1>8, <1>10
  <2>. QED
    BY ONLY <2>1, <1>11, SetSlot
<1>. QED
  BY <1>1, <1>8, <1>9, <1>12 DEF Changes, Grows

(* The new ply hangs in the slot, and nothing else changes in the shape. *)
NewLevels(t, lev, l) == [q \in 0..t.next |-> IF q = t.next THEN l + 1 ELSE lev[q]]

(* The slots that lead to plies afterwards: the one that the new ply took, *)
(* and those that did before.                                              *)
LEMMA GrowsKids ==
  ASSUME NEW t, NEW lev, WellFormed(t, lev), NEW p, NEW l \in {0, 1}, PlyAt(t, lev, p, l), NEW i \in SlotsOf(p),
         Terminal(At(t, p, i)), t.next < IP4_PLY_POOL_CAPACITY, NEW u, NEW base, Grows(t, u, p, i, base)
  PROVE  \A r, k, q : Kid(u, r, k, q) <=> (r = p /\ k = i /\ q = t.next) \/ Kid(t, r, k, q)
<1>. SUFFICES ASSUME NEW r, NEW k, NEW q PROVE Kid(u, r, k, q) <=> (r = p /\ k = i /\ q = t.next) \/ Kid(t, r, k, q)
  OBVIOUS
<1>. PICK N : N = t.next
  OBVIOUS
<1>0. N \in Nat /\ u.next = N + 1 /\ p \in PlyIds /\ p \in Int /\ p < N
  BY SlotsAreNat DEF WellFormed, Tries, Grows, PlyAt
<1>1. CASE ~ (r \in PlyIds /\ k \in SlotsOf(r))
  BY <1>0, <1>1 DEF Kid
<1>2. CASE r \in PlyIds /\ k \in SlotsOf(r)
  <2>0. r \in Int
    BY <1>2, SlotsAreNat
  <2>1. At(u, r, k) = IF r = p /\ k = i THEN [leaf |-> 2 * N, bits |-> base] ELSE IF r = N THEN At(t, p, i) ELSE At(t, r, k)
    BY <1>2 DEF Grows
  <2>2. CASE r = p /\ k = i
    <3>1. At(u, r, k).leaf = 2 * N /\ ~ Terminal(At(u, r, k))
      <4>1. At(u, r, k).leaf = 2 * N
        BY <2>1, <2>2
      <4>2. ((2 * N) % 2) = 0
        BY <1>0
      <4>. QED
        BY <4>1, <4>2 DEF Terminal, is_terminal
    <3>2. Kid(u, r, k, q) <=> q = N
      BY <3>1, <1>0, <1>2, <2>2 DEF Kid
    <3>3. ~ Kid(t, r, k, q)
      BY <2>2 DEF Kid
    <3>. QED
      BY <3>2, <3>3, <2>2
  <2>3. CASE ~ (r = p /\ k = i) /\ r = N
    <3>1. Terminal(At(u, r, k))
      BY <2>1, <2>3
    <3>. QED
      BY <3>1, <1>0, <2>3 DEF Kid
  <2>4. CASE ~ (r = p /\ k = i) /\ r # N
    <3>1. At(u, r, k) = At(t, r, k)
      BY <2>1, <2>4
    <3>2. r < u.next <=> r < t.next
      BY <1>0, <2>0, <2>4
    <3>. QED
      BY <3>1, <3>2, <2>4 DEF Kid
  <2>. QED
    BY <2>2, <2>3, <2>4
<1>. QED
  BY <1>1, <1>2

(* The shape of the tries is kept, with the new ply one level below its    *)
(* slot.                                                                   *)
LEMMA GrowsShape ==
  ASSUME NEW t, NEW lev, WellFormed(t, lev), NEW p, NEW l \in {0, 1}, PlyAt(t, lev, p, l), NEW i \in SlotsOf(p),
         Terminal(At(t, p, i)), t.next < IP4_PLY_POOL_CAPACITY, NEW u, Grows(t, u, p, i, BaseLen(l))
  PROVE  WellFormed(u, NewLevels(t, lev, l)) /\ Kid(u, p, i, t.next)
<1>. PICK N, lv : N = t.next /\ lv = NewLevels(t, lev, l)
  OBVIOUS
<1>0. /\ N \in Nat /\ u.next = N + 1 /\ p \in PlyIds /\ p \in Int /\ p < N /\ u \in Tries /\ IP4_PLY_POOL_CAPACITY \in Nat
      /\ LevelOf(lev, p) = l /\ lev \in [0..N - 1 -> {1, 2}]
  BY SlotsAreNat, MtrieAssumption DEF WellFormed, Tries, Grows, PlyAt
<1>1. \A r, k, q : Kid(u, r, k, q) <=> (r = p /\ k = i /\ q = N) \/ Kid(t, r, k, q)
  BY GrowsKids
<1>2. lv \in [0..(N + 1) - 1 -> {1, 2}] /\ lv[N] = l + 1 /\ \A q \in 0..N - 1 : lv[q] = lev[q]
  <2>1. (N + 1) - 1 = N /\ l + 1 \in {1, 2} /\ N \in 0..N
    BY <1>0
  <2>2. lv = [q \in 0..N |-> IF q = N THEN l + 1 ELSE lev[q]]
    BY DEF NewLevels
  <2>3. \A q \in 0..N : q # N => q \in 0..N - 1
    BY <1>0
  <2>4. \A q \in 0..N - 1 : q \in 0..N /\ q # N
    BY <1>0
  <2>. QED
    BY <2>1, <2>2, <2>3, <2>4, <1>0
<1>3. \A r \in PlyIds : r < N => LevelOf(lv, r) = LevelOf(lev, r)
  BY <1>0, <1>2, SlotsAreNat DEF LevelOf
<1>4. \A r, k, q : Kid(t, r, k, q) => q \in 0..N - 1
  BY KidLevel
<1>5. LevelsDown(u, lv)
  <2>. SUFFICES ASSUME NEW r \in PlyIds, NEW k \in SlotsOf(r), r < u.next, ~ Terminal(At(u, r, k)) PROVE GoesDown(u, lv, r, k)
    BY DEF LevelsDown
  <2>0. r \in Int
    BY SlotsAreNat
  <2>1. At(u, r, k) = IF r = p /\ k = i THEN [leaf |-> 2 * N, bits |-> BaseLen(l)] ELSE IF r = N THEN At(t, p, i) ELSE At(t, r, k)
    BY DEF Grows
  <2>2. CASE r = p /\ k = i
    <3>1. At(u, r, k).leaf = 2 * N /\ At(u, r, k).bits = BaseLen(l) /\ LevelOf(lv, r) = l
      BY <2>1, <2>2, <1>0, <1>3
    <3>2. N \in 0..u.next - 1 /\ lv[N] = l + 1
      BY <1>0, <1>2
    <3>. QED
      BY <3>1, <3>2 DEF GoesDown
  <2>3. CASE ~ (r = p /\ k = i)
    <3>1. r # N
      BY <2>1, <2>3
    <3>2. At(u, r, k) = At(t, r, k) /\ r < t.next
      BY <3>1, <2>0, <2>1, <2>3, <1>0
    <3>3. GoesDown(t, lev, r, k)
      BY <3>2 DEF WellFormed, LevelsDown
    <3>4. PICK q \in 0..N - 1 :
            /\ At(t, r, k).leaf = 2 * q /\ At(t, r, k).bits = BaseLen(LevelOf(lev, r))
            /\ LevelOf(lev, r) \in {0, 1} /\ lev[q] = LevelOf(lev, r) + 1
      BY <3>3 DEF GoesDown
    <3>5. q \in 0..u.next - 1 /\ lv[q] = lev[q] /\ LevelOf(lv, r) = LevelOf(lev, r)
      BY <3>2, <1>0, <1>2, <1>3
    <3>. QED
      BY <3>2, <3>4, <3>5 DEF GoesDown
  <2>. QED
    BY <2>2, <2>3
<1>6. HangOnce(u)
  <2>. SUFFICES ASSUME NEW r, NEW k, NEW s, NEW m, NEW q, Kid(u, r, k, q), Kid(u, s, m, q) PROVE r = s /\ k = m
    BY DEF HangOnce
  <2>1. N \notin 0..N - 1
    BY <1>0
  <2>2. CASE q = N
    BY <2>1, <2>2, <1>1, <1>4
  <2>3. CASE q # N
    BY <2>3, <1>1 DEF WellFormed, HangOnce
  <2>. QED
    BY <2>2, <2>3
<1>7. AllHang(u)
  <2>. SUFFICES ASSUME NEW q \in 0..u.next - 1 PROVE \E r, k : Kid(u, r, k, q)
    BY DEF AllHang
  <2>1. q = N \/ q \in 0..N - 1
    BY <1>0
  <2>2. CASE q = N
    BY <2>2, <1>1
  <2>3. CASE q \in 0..N - 1
    <3>1. PICK r, k : Kid(t, r, k, q)
      BY <2>3 DEF WellFormed, AllHang
    <3>. QED
      BY <3>1, <1>1
  <2>. QED
    BY <2>1, <2>2, <2>3
<1>8. Kid(u, p, i, N)
  BY <1>1
<1>9. lv \in [0..u.next - 1 -> {1, 2}] /\ u.next <= IP4_PLY_POOL_CAPACITY
  BY <1>0, <1>2
<1>. QED
  BY <1>0, <1>5, <1>6, <1>7, <1>8, <1>9 DEF WellFormed

(* Every address still ends in the same slot, or in a copy of it. *)
LEMMA GrowsEnds ==
  ASSUME NEW t, NEW lev, WellFormed(t, lev), NEW p, NEW l \in {0, 1}, PlyAt(t, lev, p, l), NEW i \in SlotsOf(p),
         Terminal(At(t, p, i)), t.next < IP4_PLY_POOL_CAPACITY, NEW u, Grows(t, u, p, i, BaseLen(l)),
         NEW d \in Devices, NEW z, NEW q \in PlyIds, NEW j \in SlotsOf(q), Reaches(u, d, z, q, j)
  PROVE  \E r \in PlyIds : \E k \in SlotsOf(r) : Reaches(t, d, z, r, k) /\ At(u, q, j) = At(t, r, k)
<1>. PICK N, lv : N = t.next /\ lv = NewLevels(t, lev, l)
  OBVIOUS
<1>0. N \in Nat /\ u.next = N + 1 /\ p \in PlyIds /\ p \in Int /\ p < N
  BY SlotsAreNat DEF WellFormed, Tries, Grows, PlyAt
<1>1. \A r, k, s : Kid(u, r, k, s) <=> (r = p /\ k = i /\ s = N) \/ Kid(t, r, k, s)
  BY GrowsKids
<1>2. WellFormed(u, lv) /\ Kid(u, p, i, N)
  BY GrowsShape
<1>3. ASSUME NEW m \in 0..2, NEW s, WalkTo(u, d, z, m, s), s # N PROVE WalkTo(t, d, z, m, s)
  <2>1. CASE m = 0
    BY <1>3, <2>1 DEF WalkTo
  <2>2. CASE m = 1
    <3>1. Kid(u, Root(d), DstByte(z, 0), s)
      BY <1>3, <2>2 DEF WalkTo
    <3>2. Kid(t, Root(d), DstByte(z, 0), s)
      BY <3>1, <1>1, <1>3
    <3>. QED
      BY <3>2, <2>2 DEF WalkTo
  <2>3. CASE m = 2
    <3>1. PICK r : Kid(u, Root(d), DstByte(z, 0), r) /\ Kid(u, r, DstByte(z, 1), s)
      BY <1>3, <2>3 DEF WalkTo
    <3>2. Kid(t, r, DstByte(z, 1), s)
      BY <3>1, <1>1, <1>3
    <3>3. r # N
      BY <3>2, <1>0 DEF Kid
    <3>4. Kid(t, Root(d), DstByte(z, 0), r)
      BY <3>1, <3>3, <1>1
    <3>. QED
      BY <3>2, <3>4, <2>3 DEF WalkTo
  <2>. QED
    BY <2>1, <2>2, <2>3
<1>4. PICK m \in 0..2 : WalkTo(u, d, z, m, q) /\ j = DstByte(z, m) /\ Terminal(At(u, q, j))
  BY DEF Reaches
<1>5. At(u, q, j) = IF q = p /\ j = i THEN [leaf |-> 2 * N, bits |-> BaseLen(l)] ELSE IF q = N THEN At(t, p, i) ELSE At(t, q, j)
  BY DEF Grows
<1>6. ~ (q = p /\ j = i)
  BY <1>2, <1>4 DEF Kid
<1>7. CASE q # N
  <2>1. At(u, q, j) = At(t, q, j) /\ WalkTo(t, d, z, m, q)
    BY <1>3, <1>4, <1>5, <1>6, <1>7
  <2>2. Reaches(t, d, z, q, j)
    BY <2>1, <1>4 DEF Reaches
  <2>. QED
    BY <2>1, <2>2
<1>8. CASE q = N
  <2>1. At(u, q, j) = At(t, p, i)
    BY <1>5, <1>6, <1>8
  <2>2. m # 0
    <3>1. Root(d) < 0 /\ Root(d) \in Int
      BY RootIs
    <3>. QED
      BY <3>1, <1>0, <1>4, <1>8 DEF WalkTo
  <2>. PICK o : o = m - 1
    OBVIOUS
  <2>3. o \in {0, 1} /\ m = o + 1 /\ o \in 0..2
    BY <2>2
  <2>4. PICK r : WalkTo(u, d, z, o, r) /\ Kid(u, r, DstByte(z, o), N)
    BY <2>3, <1>4, <1>8, WalkUp
  <2>5. r = p /\ DstByte(z, o) = i
    BY <2>4, <1>2 DEF WellFormed, HangOnce
  <2>6. WalkTo(t, d, z, o, p)
    BY <2>3, <2>4, <2>5, <1>0, <1>3
  <2>7. Reaches(t, d, z, p, i)
    BY <2>3, <2>5, <2>6 DEF Reaches
  <2>. QED
    BY <2>1, <2>7, <1>0
<1>. QED
  BY <1>7, <1>8
-----------------------------------------------------------------------------
(* What the slot of an address must be: that of the best of its routes. *)
RoutesFor(rs, d, z) == {n \in DOMAIN rs : rs[n].dev = d /\ Covers(rs[n], z)}
NoRoute == [leaf |-> set_adj_index(0), bits |-> 0]
Best(rs, d, z, s) ==
  IF RoutesFor(rs, d, z) = {} THEN s = NoRoute
  ELSE \E n \in RoutesFor(rs, d, z) :
         /\ \A m \in RoutesFor(rs, d, z) \ {n} : Beats(rs[n], n, rs[m], m)
         /\ s = NewOf(rs[n])
RouteRecs == [dev : Devices, addr : Addresses, len : 0..AddressBits, adj : Nat]
Fib(t, rs) ==
  \A d \in Devices, z \in Addresses : \A p \in PlyIds : \A i \in SlotsOf(p) :
    Reaches(t, d, z, p, i) => Best(rs, d, z, At(t, p, i))

(* A slot that had the best route has it after one more route if it takes  *)
(* the new leaf exactly when the route covers the address and is not       *)
(* shorter.                                                                *)
LEMMA BestAfter ==
  ASSUME NEW rs \in Seq(RouteRecs), NEW r \in RouteRecs, NEW d, NEW z, NEW s, Best(rs, d, z, s)
  PROVE  Best(Append(rs, r), d, z, IF r.dev = d /\ Covers(r, z) /\ r.len >= s.bits THEN NewOf(r) ELSE s)
<1>. PICK rt, N, C, D : rt = Append(rs, r) /\ N = Len(rs) /\ C = RoutesFor(rs, d, z) /\ D = RoutesFor(Append(rs, r), d, z)
  OBVIOUS
<1>0. N \in Nat /\ DOMAIN rs = 1..N /\ DOMAIN rt = 1..N + 1 /\ rt[N + 1] = r /\ \A n \in 1..N : rt[n] = rs[n] /\ rs[n] \in RouteRecs
  OBVIOUS
<1>1. C \subseteq 1..N /\ \A n \in 1..N : n \in D <=> n \in C
  BY <1>0 DEF RoutesFor
<1>2. D \subseteq 1..N + 1 /\ (N + 1 \in D <=> r.dev = d /\ Covers(r, z)) /\ N + 1 \notin C
  BY <1>0, <1>1 DEF RoutesFor
<1>3. \A n \in D : n = N + 1 \/ n \in C
  BY <1>0, <1>1, <1>2
<1>4. r.len \in Nat /\ \A n \in 1..N : rs[n].len \in Nat
  BY <1>0, Widths DEF RouteRecs
<1>. HIDE DEF Covers
<1>5. CASE ~ (r.dev = d /\ Covers(r, z))
  <2>1. D = C
    BY <1>1, <1>2, <1>3, <1>5
  <2>2. CASE C = {}
    BY <2>1, <2>2, <1>5 DEF Best
  <2>3. CASE C # {}
    <3>1. PICK n \in C : (\A m \in C \ {n} : Beats(rs[n], n, rs[m], m)) /\ s = NewOf(rs[n])
      BY <2>3 DEF Best
    <3>2. (\A m \in D \ {n} : Beats(rt[n], n, rt[m], m)) /\ s = NewOf(rt[n])
      BY <3>1, <2>1, <1>0, <1>1
    <3>. QED
      BY <3>2, <2>1, <2>3, <1>5 DEF Best
  <2>. QED
    BY <2>2, <2>3
<1>6. CASE (r.dev = d /\ Covers(r, z)) /\ C = {}
  <2>1. s.bits = 0
    BY <1>6 DEF Best, NoRoute
  <2>2. D = {N + 1}
    BY <1>2, <1>3, <1>6
  <2>3. \A m \in D \ {N + 1} : Beats(rt[N + 1], N + 1, rt[m], m)
    BY <2>2
  <2>4. r.len >= s.bits
    BY <2>1, <1>4
  <2>. QED
    BY <2>2, <2>3, <2>4, <1>0, <1>6 DEF Best
<1>7. CASE (r.dev = d /\ Covers(r, z)) /\ C # {}
  <2>1. PICK n \in C : (\A m \in C \ {n} : Beats(rs[n], n, rs[m], m)) /\ s = NewOf(rs[n])
    BY <1>7 DEF Best
  <2>2. s.bits = rs[n].len /\ n \in 1..N
    BY <2>1, <1>1 DEF NewOf
  <2>3. N + 1 \in D /\ n \in D
    BY <2>2, <1>1, <1>2, <1>7
  <2>4. CASE r.len >= s.bits
    <3>1. ASSUME NEW m \in D \ {N + 1} PROVE Beats(rt[N + 1], N + 1, rt[m], m)
      <4>1. m \in C /\ m \in 1..N /\ rt[m] = rs[m]
        BY <1>0, <1>1, <1>3
      <4>2. rs[m].len <= rs[n].len
        BY <4>1, <2>1, <2>2, <1>4 DEF Beats
      <4>3. r.len >= rs[m].len /\ N + 1 > m
        BY <4>1, <4>2, <2>2, <2>4, <1>0, <1>4
      <4>. QED
        BY <4>1, <4>3, <1>0, <1>4 DEF Beats
    <3>. QED
      BY <3>1, <2>3, <2>4, <1>0, <1>7 DEF Best
  <2>5. CASE ~ (r.len >= s.bits)
    <3>1. ASSUME NEW m \in D \ {n} PROVE Beats(rt[n], n, rt[m], m)
      <4>1. CASE m = N + 1
        BY <4>1, <2>2, <2>5, <1>0, <1>4 DEF Beats
      <4>2. CASE m # N + 1
        BY <4>2, <2>1, <2>2, <1>0, <1>1, <1>3
      <4>. QED
        BY <4>1, <4>2
    <3>2. s = NewOf(rt[n])
      BY <2>1, <2>2, <1>0
    <3>. QED
      BY <3>1, <3>2, <2>3, <2>5 DEF Best
  <2>. QED
    BY <2>4, <2>5
<1>. QED
  BY <1>5, <1>6, <1>7

(* A new ply changes nothing for any address. *)
LEMMA GrowsFib ==
  ASSUME NEW t, NEW lev, WellFormed(t, lev), NEW p, NEW l \in {0, 1}, PlyAt(t, lev, p, l), NEW i \in SlotsOf(p),
         Terminal(At(t, p, i)), t.next < IP4_PLY_POOL_CAPACITY, NEW u, Grows(t, u, p, i, BaseLen(l)),
         NEW rs, Fib(t, rs)
  PROVE  Fib(u, rs)
<1>. SUFFICES ASSUME NEW d \in Devices, NEW z \in Addresses, NEW q \in PlyIds, NEW j \in SlotsOf(q), Reaches(u, d, z, q, j)
              PROVE  Best(rs, d, z, At(u, q, j))
  BY DEF Fib
<1>0. PICK r \in PlyIds : \E k \in SlotsOf(r) : Reaches(t, d, z, r, k) /\ At(u, q, j) = At(t, r, k)
  BY GrowsEnds
<1>1. PICK k \in SlotsOf(r) : Reaches(t, d, z, r, k) /\ At(u, q, j) = At(t, r, k)
  BY <1>0
<1>. QED
  BY <1>1 DEF Fib

(* A route is painted for the addresses that it covers. *)
AsRoute(dev, a) == [dev |-> dev, addr |-> a.addr, len |-> a.len, adj |-> a.adj]
EndsAt(a, l) == a.len <= BaseLen(l) /\ (l # 0 => a.len > BaseLen(l - 1))

(* If every address ended in the slot of its best route, it does after     *)
(* painting a route into the slots that it covers.                         *)
LEMMA PaintsFib ==
  ASSUME NEW t, NEW lev, WellFormed(t, lev), NEW rs \in Seq(RouteRecs), Fib(t, rs), NEW dev \in Devices,
         NEW a, IsRoute(a), NEW l \in 0..2, EndsAt(a, l), NEW p, WalkTo(t, dev, a.addr, l, p),
         NEW u, Paints(t, u, Under(t, p, Span(a, l)), NewOf(a))
  PROVE  Fib(u, Append(rs, AsRoute(dev, a)))
<1>. SUFFICES ASSUME NEW d \in Devices, NEW z \in Addresses, NEW q \in PlyIds, NEW j \in SlotsOf(q), Reaches(u, d, z, q, j)
              PROVE  Best(Append(rs, AsRoute(dev, a)), d, z, At(u, q, j))
  BY DEF Fib
<1>. PICK r, new, P : r = AsRoute(dev, a) /\ new = NewOf(a) /\ P = Under(t, p, Span(a, l))
  OBVIOUS
<1>0. NewLeaf(new) /\ new.bits = a.len
  BY NewOfIs
<1>1. r \in RouteRecs /\ r.dev = dev /\ r.len = a.len /\ NewOf(r) = new /\ r.addr = a.addr
  BY DEF RouteRecs, AsRoute, IsRoute, NewOf
<1>2. Covers(r, z) <=> Covers(a, z)
  BY <1>1 DEF Covers
<1>3. Reaches(t, d, z, q, j)
  BY <1>0, PaintsEnds
<1>4. <<q, j>> \in P <=> d = dev /\ SameUpper(a.addr, z, l) /\ DstByte(z, l) \in Span(a, l)
  BY <1>3, EndsUnder
<1>5. Covers(a, z) <=> SameUpper(a.addr, z, l) /\ DstByte(z, l) \in Span(a, l)
  BY Covering DEF EndsAt
<1>6. At(u, q, j) = Painted(At(t, q, j), new, <<q, j>> \in P)
  BY DEF Paints
<1>7. Terminal(At(t, q, j))
  BY <1>3 DEF Reaches
<1>. PICK s : s = At(t, q, j)
  OBVIOUS
<1>8. At(u, q, j) = IF r.dev = d /\ Covers(r, z) /\ r.len >= s.bits THEN NewOf(r) ELSE s
  BY <1>0, <1>1, <1>2, <1>4, <1>5, <1>6, <1>7 DEF Painted
<1>9. Best(rs, d, z, s)
  BY <1>3 DEF Fib
<1>. QED
  BY <1>1, <1>8, <1>9, BestAfter
-----------------------------------------------------------------------------
(* The byte of an address selects a slot of the ply. *)
LEMMA ByteIn ==
  ASSUME NEW z \in Addresses, NEW l \in 0..2
  PROVE  DstByte(z, l) \in SlotsAt(l)
<1>1. z \in Nat
  BY AddressFits
<1>2. 2 * PlyBits \in Nat /\ 2 * PlyBits + RootBits <= AddressBits /\ PlyBits + PlyBits <= AddressBits
      /\ 0 + PlyBits <= AddressBits /\ PlyBits \in Nat /\ RootBits \in Nat
  BY Widths
<1>3. Byte(z, 2 * PlyBits, RootBits) \in 0..TwoTo[RootBits] - 1
  BY <1>1, <1>2, PartIs
<1>4. Byte(z, PlyBits, PlyBits) \in 0..TwoTo[PlyBits] - 1
  BY <1>1, <1>2, PartIs
<1>5. Byte(z, 0, PlyBits) \in 0..TwoTo[PlyBits] - 1
  BY <1>1, <1>2, PartIs
<1>6. l = 0 \/ l = 1 \/ l = 2
  OBVIOUS
<1>. QED
  BY <1>3, <1>4, <1>5, <1>6, DstBytes DEF SlotsAt, RootSlots, PlySlots

(* The ply below, created if need be. *)
Lower(t, a, p, l, u, q) ==
  IF Terminal(At(t, p, FirstOf(a, l)))
    THEN u = Grown(t, p, FirstOf(a, l), BaseLen(l)) /\ q = t.next
    ELSE u = t /\ q = At(t, p, FirstOf(a, l)).leaf \div 2
Descends(t, rs, dev, a, p, l, u, q, lv) ==
  /\ Lower(t, a, p, l, u, q) /\ WellFormed(u, lv) /\ Fib(u, rs)
  /\ WalkTo(u, dev, a.addr, l + 1, q) /\ u.next \in t.next..t.next + 1

(* The branch of set_leaf for a longer route: below the slot of the route  *)
(* there is a ply afterwards, and nothing has changed for any address.     *)
LEMMA Descend ==
  ASSUME NEW t, NEW lev, WellFormed(t, lev), t.next < IP4_PLY_POOL_CAPACITY, NEW rs, Fib(t, rs),
         NEW dev \in Devices, NEW a, IsRoute(a), NEW l \in {0, 1}, NEW p, WalkTo(t, dev, a.addr, l, p)
  PROVE  \E u, q, lv : Descends(t, rs, dev, a, p, l, u, q, lv)
<1>. PICK i : i = FirstOf(a, l)
  OBVIOUS
<1>0. t \in Tries /\ t.next \in Nat /\ l \in 0..2 /\ l + 1 \in 0..2
  BY DEF WellFormed, Tries
<1>1. PlyAt(t, lev, p, l)
  BY <1>0, WalkLevel
<1>2. i \in SlotsOf(p) /\ p \in PlyIds /\ p < t.next /\ i = DstByte(a.addr, l)
  BY <1>0, <1>1, ByteIn, PlySlotsOf DEF PlyAt, IsRoute, FirstOf
<1>3. CASE Terminal(At(t, p, i))
  <2>. PICK u : u = Grown(t, p, i, BaseLen(l))
    OBVIOUS
  <2>1. BaseLen(l) \in Nat
    BY Widths
  <2>2. Grows(t, u, p, i, BaseLen(l))
    BY <2>1, <1>0, <1>2, GrownIs
  <2>3. WellFormed(u, NewLevels(t, lev, l)) /\ Kid(u, p, i, t.next)
    BY <2>2, <1>1, <1>2, <1>3, GrowsShape
  <2>4. Fib(u, rs)
    BY <2>2, <1>1, <1>2, <1>3, GrowsFib
  <2>5. \A r, k, q : Kid(t, r, k, q) => Kid(u, r, k, q)
    BY <2>2, <1>1, <1>2, <1>3, GrowsKids
  <2>6. WalkTo(u, dev, a.addr, l, p)
    BY <2>5 DEF WalkTo
  <2>7. WalkTo(u, dev, a.addr, l + 1, t.next)
    BY <2>3, <2>6, <1>2, WalkUp
  <2>8. u.next \in t.next..t.next + 1
    BY <2>2, <1>0 DEF Grows
  <2>9. Lower(t, a, p, l, u, t.next)
    BY <1>3 DEF Lower
  <2>10. Descends(t, rs, dev, a, p, l, u, t.next, NewLevels(t, lev, l))
    BY <2>3, <2>4, <2>7, <2>8, <2>9 DEF Descends
  <2>. QED
    BY <2>10
<1>4. CASE ~ Terminal(At(t, p, i))
  <2>. PICK q : q = At(t, p, i).leaf \div 2
    OBVIOUS
  <2>1. Kid(t, p, i, q)
    BY <1>0, <1>1, <1>2, <1>4, KidBelow
  <2>2. WalkTo(t, dev, a.addr, l + 1, q)
    BY <2>1, <1>2, WalkUp
  <2>3. Lower(t, a, p, l, t, q)
    BY <1>4 DEF Lower
  <2>4. t.next \in t.next..t.next + 1
    BY <1>0
  <2>5. Descends(t, rs, dev, a, p, l, t, q, lev)
    BY <2>2, <2>3, <2>4 DEF Descends
  <2>. QED
    BY <2>5
<1>. QED
  BY <1>3, <1>4

(* A route that is longer than a level goes to the ply below. *)
LEMMA RootGoesDown ==
  ASSUME NEW t, NEW dev, NEW a, IsRoute(a), a.len > BaseLen(0), NEW u, NEW q, Lower(t, a, Root(dev), 0, u, q)
  PROVE  set_root_leaf(t, dev, a) = set_leaf(u, a, q)
<1>1. ~ (a.len <= BaseLen(0))
  BY Widths DEF IsRoute
<1>2. set_root_leaf(t, dev, a) =
        IF Terminal(At(t, Root(dev), FirstOf(a, 0)))
          THEN set_leaf(Grown(t, Root(dev), FirstOf(a, 0), BaseLen(0)), a, t.next)
          ELSE set_leaf(t, a, At(t, Root(dev), FirstOf(a, 0)).leaf \div 2)
  BY <1>1 DEF set_root_leaf, SetLeafAt, Terminal, At, FirstOf, Grown
<1>. QED
  BY <1>2 DEF Lower

(* The same at the middle level. *)
LEMMA LeafGoesDown ==
  ASSUME NEW t, NEW p, NEW a, IsRoute(a), a.len > BaseLen(1), NEW u, NEW q, Lower(t, a, p, 1, u, q)
  PROVE  set_leaf(t, a, p) = SetLowestLeaf(u, a, q)
<1>1. ~ (a.len <= BaseLen(1))
  BY Widths DEF IsRoute
<1>2. set_leaf(t, a, p) =
        IF Terminal(At(t, p, FirstOf(a, 1)))
          THEN SetLowestLeaf(Grown(t, p, FirstOf(a, 1), BaseLen(1)), a, t.next)
          ELSE SetLowestLeaf(t, a, At(t, p, FirstOf(a, 1)).leaf \div 2)
  BY <1>1 DEF set_leaf, SetLeafAt, Terminal, At, FirstOf, Grown
<1>. QED
  BY <1>2 DEF Lower

(* A route added: the shape stays, every address finds its best route, and *)
(* at most two plies are taken from the pool.                              *)
GoodTrie(t, rs, n) == t.next <= n /\ Fib(t, rs) /\ \E lev : WellFormed(t, lev)

(* Painting a route at the level where it ends leaves good tries. *)
LEMMA PaintedGood ==
  ASSUME NEW t, NEW lev, WellFormed(t, lev), NEW rs \in Seq(RouteRecs), Fib(t, rs), NEW dev \in Devices,
         NEW a, IsRoute(a), NEW l \in 0..2, EndsAt(a, l), NEW p, WalkTo(t, dev, a.addr, l, p),
         NEW u, Paints(t, u, Under(t, p, Span(a, l)), NewOf(a)), NEW n, t.next <= n
  PROVE  GoodTrie(u, Append(rs, AsRoute(dev, a)), n)
<1>1. NewLeaf(NewOf(a))
  BY NewOfIs
<1>2. WellFormed(u, lev)
  BY <1>1, PaintsShape
<1>3. Fib(u, Append(rs, AsRoute(dev, a)))
  BY PaintsFib
<1>4. u.next = t.next
  BY DEF Paints
<1>. QED
  BY <1>2, <1>3, <1>4 DEF GoodTrie

(* set_root_leaf as a whole, by the level where the route ends. *)
LEMMA RouteAdded ==
  ASSUME NEW t, NEW lev, WellFormed(t, lev), NEW rs \in Seq(RouteRecs), Fib(t, rs),
         t.next + 2 <= IP4_PLY_POOL_CAPACITY, NEW dev \in Devices, NEW a, IsRoute(a)
  PROVE  GoodTrie(set_root_leaf(t, dev, a), Append(rs, AsRoute(dev, a)), t.next + 2)
<1>. PICK n : n = t.next + 2
  OBVIOUS
<1>0. t.next \in Nat /\ a.len \in Nat /\ IP4_PLY_POOL_CAPACITY \in Nat /\ t.next <= n
  BY Widths, MtrieAssumption DEF WellFormed, Tries, IsRoute
<1>1. WalkTo(t, dev, a.addr, 0, Root(dev))
  BY DEF WalkTo
<1>2. PlyAt(t, lev, Root(dev), 0)
  BY <1>1, WalkLevel
<1>3. CASE a.len <= BaseLen(0)
  <2>1. set_root_leaf(t, dev, a) = RootLeaf(t, a, Root(dev))
    BY DEF set_root_leaf, RootLeaf
  <2>2. Paints(t, RootLeaf(t, a, Root(dev)), Under(t, Root(dev), Span(a, 0)), NewOf(a))
    BY <1>2, <1>3, PaintsRoot
  <2>3. EndsAt(a, 0)
    BY <1>3 DEF EndsAt
  <2>. QED
    BY <2>1, <2>2, <2>3, <1>0, <1>1, PaintedGood
<1>4. CASE a.len > BaseLen(0)
  <2>1. PICK u, q, lv : Descends(t, rs, dev, a, Root(dev), 0, u, q, lv)
    <3>1. t.next < IP4_PLY_POOL_CAPACITY
      BY <1>0
    <3>. QED
      BY <3>1, <1>1, Descend
  <2>2. set_root_leaf(t, dev, a) = set_leaf(u, a, q)
    BY <2>1, <1>4, RootGoesDown DEF Descends
  <2>3. WellFormed(u, lv) /\ Fib(u, rs) /\ WalkTo(u, dev, a.addr, 1, q) /\ u.next \in t.next..t.next + 1
    BY <2>1 DEF Descends
  <2>4. PlyAt(u, lv, q, 1)
    BY <2>3, WalkLevel
  <2>5. u.next \in Nat /\ u.next <= n /\ u.next < IP4_PLY_POOL_CAPACITY
    BY <2>3, <1>0
  <2>6. CASE a.len <= BaseLen(1)
    <3>1. Paints(u, set_leaf(u, a, q), Under(u, q, Span(a, 1)), NewOf(a))
      BY <2>3, <2>4, <2>6, PaintsLeaf
    <3>2. EndsAt(a, 1)
      BY <1>4, <2>6 DEF EndsAt
    <3>. QED
      BY <3>1, <3>2, <2>2, <2>3, <2>5, PaintedGood
  <2>7. CASE a.len > BaseLen(1)
    <3>1. PICK v, r, lw : Descends(u, rs, dev, a, q, 1, v, r, lw)
      BY <2>3, <2>5, Descend
    <3>2. set_leaf(u, a, q) = SetLowestLeaf(v, a, r)
      BY <3>1, <2>7, LeafGoesDown DEF Descends
    <3>3. WellFormed(v, lw) /\ Fib(v, rs) /\ WalkTo(v, dev, a.addr, 2, r) /\ v.next \in u.next..u.next + 1
      BY <3>1 DEF Descends
    <3>4. PlyAt(v, lw, r, 2)
      BY <3>3, WalkLevel
    <3>5. v.next <= n
      BY <3>3, <2>3, <2>5, <1>0
    <3>6. a.len <= BaseLen(2)
      BY <1>0, Widths DEF IsRoute
    <3>7. Paints(v, SetLowestLeaf(v, a, r), Under(v, r, Span(a, 2)), NewOf(a))
      BY <3>3, <3>4, <3>6, PaintsLowestLeaf
    <3>8. EndsAt(a, 2)
      BY <2>7, <3>6 DEF EndsAt
    <3>. QED
      BY <3>2, <3>3, <3>5, <3>7, <3>8, <2>2, PaintedGood
  <2>8. a.len <= BaseLen(1) \/ a.len > BaseLen(1)
    BY <1>0, Widths
  <2>. QED
    BY <2>6, <2>7, <2>8
<1>5. a.len <= BaseLen(0) \/ a.len > BaseLen(0)
  BY <1>0, Widths
<1>. QED
  BY <1>3, <1>4, <1>5
-----------------------------------------------------------------------------
(* Where a lookup ends. *)
LEMMA LookupEnds ==
  ASSUME NEW lev, WellFormed(trie, lev), NEW d \in Devices, NEW z \in Addresses
  PROVE  \E p \in PlyIds : \E i \in SlotsOf(p) : Reaches(trie, d, z, p, i) /\ Lookup(d, z) = At(trie, p, i).leaf \div 2
<1>. PICK p0, i0, i1, i2 : p0 = Root(d) /\ i0 = DstByte(z, 0) /\ i1 = DstByte(z, 1) /\ i2 = DstByte(z, 2)
  OBVIOUS
<1>. DEFINE Ends(p, i) == Reaches(trie, d, z, p, i) /\ Lookup(d, z) = At(trie, p, i).leaf \div 2
<1>0. WalkTo(trie, d, z, 0, p0)
  BY DEF WalkTo
<1>1. PlyAt(trie, lev, p0, 0)
  BY <1>0, WalkLevel
<1>2. i0 \in SlotsAt(0) /\ i1 \in SlotsAt(1) /\ i2 \in SlotsAt(2)
  BY ByteIn
<1>3. p0 \in PlyIds /\ i0 \in SlotsOf(p0)
  BY <1>1, <1>2, PlySlotsOf DEF PlyAt
<1>4. CASE Terminal(At(trie, p0, i0))
  <2>1. Reaches(trie, d, z, p0, i0)
    BY <1>0, <1>4 DEF Reaches
  <2>2. Lookup(d, z) = At(trie, p0, i0).leaf \div 2
    BY <1>4 DEF Lookup, lookup_step, lookup_step_one, Terminal, At
  <2>. QED
    BY <2>1, <2>2, <1>3
<1>5. CASE ~ Terminal(At(trie, p0, i0))
  <2>. PICK p1 : p1 = At(trie, p0, i0).leaf \div 2
    OBVIOUS
  <2>1. Kid(trie, p0, i0, p1) /\ PlyAt(trie, lev, p1, 1)
    BY <1>1, <1>3, <1>5, KidBelow
  <2>2. WalkTo(trie, d, z, 1, p1)
    BY <2>1 DEF WalkTo
  <2>3. p1 \in PlyIds /\ i1 \in SlotsOf(p1)
    BY <2>1, <1>2, PlySlotsOf DEF PlyAt
  <2>4. lookup_step(lookup_step_one(d, z), z, 1) = At(trie, p1, i1).leaf
    BY <1>5 DEF lookup_step, lookup_step_one, Terminal, At
  <2>5. CASE Terminal(At(trie, p1, i1))
    <3>1. Reaches(trie, d, z, p1, i1)
      BY <2>2, <2>5 DEF Reaches
    <3>2. Lookup(d, z) = At(trie, p1, i1).leaf \div 2
      <4>1. lookup_step(At(trie, p1, i1).leaf, z, 2) = At(trie, p1, i1).leaf
        BY <2>5 DEF lookup_step, Terminal
      <4>. QED
        BY <4>1, <2>4 DEF Lookup
    <3>. QED
      BY <3>1, <3>2, <2>3
  <2>6. CASE ~ Terminal(At(trie, p1, i1))
    <3>. PICK p2 : p2 = At(trie, p1, i1).leaf \div 2
      OBVIOUS
    <3>1. Kid(trie, p1, i1, p2) /\ PlyAt(trie, lev, p2, 2)
      BY <2>1, <2>3, <2>6, KidBelow
    <3>2. WalkTo(trie, d, z, 2, p2)
      BY <2>1, <3>1 DEF WalkTo
    <3>3. p2 \in PlyIds /\ i2 \in SlotsOf(p2)
      BY <3>1, <1>2, PlySlotsOf DEF PlyAt
    <3>4. Terminal(At(trie, p2, i2))
      BY <3>1, <3>3, LowestTerminal
    <3>5. Reaches(trie, d, z, p2, i2)
      BY <3>2, <3>4 DEF Reaches
    <3>6. lookup_step(At(trie, p1, i1).leaf, z, 2) = At(trie, p2, i2).leaf
      BY <2>6 DEF lookup_step, Terminal, At
    <3>7. Lookup(d, z) = At(trie, p2, i2).leaf \div 2
      BY <3>6, <2>4 DEF Lookup
    <3>. QED
      BY <3>3, <3>5, <3>7
  <2>. QED
    BY <2>5, <2>6
<1>. QED
  BY <1>4, <1>5

(* The inductive invariant of the forwarding tables: the shape of the      *)
(* tries, the best route of every address in the slot where it ends, and   *)
(* no more plies taken than the routes account for.                        *)
FibIInv ==
  /\ routes \in Seq(RouteRecs) /\ Len(routes) <= MaxRoutes
  /\ GoodTrie(trie, routes, 2 * Len(routes))

(* It implies what the runs check: the lookup finds the best route, ... *)
LEMMA FibIInvLongest ==
  ASSUME FibIInv
  PROVE  FibIsLongestPrefix
<1>. SUFFICES ASSUME NEW d \in Devices, NEW z \in Addresses
              PROVE  LET covering == {n \in DOMAIN routes : routes[n].dev = d /\ Covers(routes[n], z)}
                     IN  IF covering = {} THEN Lookup(d, z) = 0
                         ELSE \E n \in covering :
                                /\ \A m \in covering \ {n} : Beats(routes[n], n, routes[m], m)
                                /\ Lookup(d, z) = routes[n].adj
  BY DEF FibIsLongestPrefix
<1>. PICK C : C = RoutesFor(routes, d, z)
  OBVIOUS
<1>1. C = {n \in DOMAIN routes : routes[n].dev = d /\ Covers(routes[n], z)}
  BY DEF RoutesFor
<1>2. PICK lev : WellFormed(trie, lev)
  BY DEF FibIInv, GoodTrie
<1>3. PICK p \in PlyIds : \E i \in SlotsOf(p) : Reaches(trie, d, z, p, i) /\ Lookup(d, z) = At(trie, p, i).leaf \div 2
  BY <1>2, LookupEnds
<1>4. PICK i \in SlotsOf(p) : Reaches(trie, d, z, p, i) /\ Lookup(d, z) = At(trie, p, i).leaf \div 2
  BY <1>3
<1>5. Best(routes, d, z, At(trie, p, i))
  BY <1>4 DEF FibIInv, GoodTrie, Fib
<1>6. CASE C = {}
  <2>1. At(trie, p, i).leaf = 1 + 2 * 0
    BY <1>5, <1>6 DEF Best, NoRoute, set_adj_index
  <2>2. (1 + 2 * 0) \div 2 = 0
    OBVIOUS
  <2>3. Lookup(d, z) = 0
    BY <2>1, <2>2, <1>4
  <2>. QED
    BY <2>3, <1>1, <1>6
<1>7. CASE C # {}
  <2>1. PICK n \in C : (\A m \in C \ {n} : Beats(routes[n], n, routes[m], m)) /\ At(trie, p, i) = NewOf(routes[n])
    BY <1>5, <1>7 DEF Best
  <2>2. routes[n] \in RouteRecs
    BY <1>1 DEF FibIInv
  <2>3. routes[n].adj \in Nat
    BY <2>2 DEF RouteRecs
  <2>4. At(trie, p, i).leaf = 1 + 2 * routes[n].adj
    BY <2>1 DEF NewOf, set_adj_index
  <2>5. \A k \in Nat : (1 + 2 * k) \div 2 = k
    OBVIOUS
  <2>6. Lookup(d, z) = routes[n].adj
    BY <2>3, <2>4, <2>5, <1>4
  <2>. QED
    BY <2>1, <2>6, <1>1, <1>7
<1>. QED
  BY <1>6, <1>7

(* ... and a ply in use hangs below one slot. *)
LEMMA FibIInvHang ==
  ASSUME FibIInv
  PROVE  PliesHangOnce
<1>. SUFFICES ASSUME NEW q \in 0..IP4_PLY_POOL_CAPACITY - 1
              PROVE  Cardinality(UNION {{<<p, i>> : i \in {j \in Below(p) : trie.plies[p][j].leaf = 2 * q}} : p \in InUse})
                       = IF q < trie.next THEN 1 ELSE 0
  BY DEF PliesHangOnce
<1>. PICK X : X = UNION {{<<p, i>> : i \in {j \in Below(p) : trie.plies[p][j].leaf = 2 * q}} : p \in InUse}
  OBVIOUS
<1>1. PICK lev : WellFormed(trie, lev)
  BY DEF FibIInv, GoodTrie
<1>2. trie \in Tries /\ trie.next \in Nat /\ q \in Nat
  BY <1>1, MtrieAssumption DEF WellFormed, Tries
<1>3. DOMAIN trie.plies = PlyIds /\ \A p \in PlyIds : DOMAIN trie.plies[p] = SlotsOf(p)
  BY <1>2 DEF Tries, SomePlies
<1>4. \A p : p \in InUse <=> p \in PlyIds /\ p < trie.next
  BY <1>3 DEF InUse
<1>5. \A p \in PlyIds : \A i : i \in Below(p) <=> i \in SlotsOf(p) /\ ~ Terminal(At(trie, p, i))
  BY <1>3 DEF Below, Terminal, At
<1>6. \A p, i : p \in InUse /\ i \in Below(p) /\ trie.plies[p][i].leaf = 2 * q <=> Kid(trie, p, i, q)
  BY <1>2, <1>4, <1>5 DEF Kid, At
<1>7. \A x \in X : \E p, i : x = <<p, i>> /\ Kid(trie, p, i, q)
  BY <1>6
<1>8. \A p, i : Kid(trie, p, i, q) => <<p, i>> \in X
  BY <1>6
<1>9. CASE q < trie.next
  <2>1. q \in 0..trie.next - 1
    BY <1>2, <1>9
  <2>2. PICK p, i : Kid(trie, p, i, q)
    BY <2>1, <1>1 DEF WellFormed, AllHang
  <2>3. \A x \in X : x = <<p, i>>
    BY <2>2, <1>1, <1>7 DEF WellFormed, HangOnce
  <2>4. X = {<<p, i>>}
    BY <2>2, <2>3, <1>8
  <2>5. Cardinality(X) = 1
    BY <2>4, FS_Singleton
  <2>. QED
    BY <2>5, <1>9
<1>10. CASE ~ (q < trie.next)
  <2>1. \A p, i : ~ Kid(trie, p, i, q)
    BY <1>1, <1>2, <1>10, KidLevel
  <2>2. X = {}
    BY <2>1, <1>7
  <2>3. Cardinality(X) = 0
    BY <2>2, FS_EmptySet
  <2>. QED
    BY <2>3, <1>10
<1>. QED
  BY <1>9, <1>10
(* The tables at the start. *)
LEMMA FibStart ==
  ASSUME trie = EmptyTries, routes = <<>>
  PROVE  FibIInv
<1>. PICK f, none, zero : f = trie.plies /\ none = NoRoute /\ zero = [leaf |-> 0, bits |-> 0]
  OBVIOUS
<1>1. none \in Slot /\ zero \in Slot /\ Terminal(none) /\ none.bits = 0
  <2>1. set_adj_index(0) = 1 /\ ((1) % 2) = 1
    BY DEF set_adj_index
  <2>. QED
    BY <2>1 DEF NoRoute, Slot, Terminal, is_terminal
<1>2. /\ f = [p \in PlyIds |-> IF p < 0 THEN [i \in RootSlots |-> none] ELSE [i \in PlySlots |-> zero]]
      /\ trie.next = 0 /\ trie = [plies |-> f, next |-> 0]
  BY DEF EmptyTries, PlyIds, RootSlots, NoRoute
<1>3. \A p \in PlyIds : f[p] \in [SlotsOf(p) -> Slot]
  <2>. SUFFICES ASSUME NEW p \in PlyIds PROVE f[p] \in [SlotsOf(p) -> Slot]
    OBVIOUS
  <2>1. CASE p < 0
    BY <2>1, <1>1, <1>2 DEF SlotsOf
  <2>2. CASE ~ (p < 0)
    BY <2>2, <1>1, <1>2 DEF SlotsOf
  <2>. QED
    BY <2>1, <2>2
<1>4. f \in SomePlies
  <2>1. f = [p \in PlyIds |-> f[p]]
    BY <1>2
  <2>2. \A p \in PlyIds : f[p] \in [RootSlots -> Slot] \cup [PlySlots -> Slot]
    BY <1>3 DEF SlotsOf
  <2>. QED
    BY <2>1, <2>2 DEF SomePlies
<1>5. trie \in Tries
  BY <1>2, <1>3, <1>4 DEF Tries
<1>6. \A p \in PlyIds : \A i \in SlotsOf(p) : p < 0 => At(trie, p, i) = none
  BY <1>2 DEF At, SlotsOf
<1>7. \A p, i, q : ~ Kid(trie, p, i, q)
  BY <1>1, <1>2, <1>6 DEF Kid
<1>8. WellFormed(trie, <<>>)
  <2>1. LevelsDown(trie, <<>>)
    BY <1>1, <1>2, <1>6 DEF LevelsDown
  <2>2. HangOnce(trie) /\ AllHang(trie)
    BY <1>2, <1>7 DEF HangOnce, AllHang
  <2>3. <<>> \in [0..0 - 1 -> {1, 2}]
    <3>1. 0..0 - 1 = {} /\ DOMAIN <<>> = {}
      OBVIOUS
    <3>. QED
      BY <3>1
  <2>. QED
    BY <2>1, <2>2, <2>3, <1>2, <1>5, MtrieAssumption DEF WellFormed
<1>9. Fib(trie, routes)
  <2>. SUFFICES ASSUME NEW d \in Devices, NEW z \in Addresses, NEW p \in PlyIds, NEW i \in SlotsOf(p), Reaches(trie, d, z, p, i)
                PROVE  Best(routes, d, z, At(trie, p, i))
    BY DEF Fib
  <2>1. p = Root(d)
    BY <1>7 DEF Reaches, WalkTo
  <2>2. At(trie, p, i) = NoRoute
    BY <2>1, <1>6, RootIs
  <2>3. RoutesFor(routes, d, z) = {}
    BY DEF RoutesFor
  <2>. QED
    BY <2>2, <2>3 DEF Best
<1>10. routes \in Seq(RouteRecs) /\ Len(routes) = 0
  OBVIOUS
<1>. QED
  BY <1>2, <1>8, <1>9, <1>10, MtrieAssumption DEF FibIInv, GoodTrie

(* A masked address is one. *)
LEMMA MaskIs ==
  ASSUME NEW x \in Addresses, NEW len \in 0..AddressBits, NEW b, b = (x \div TwoTo[AddressBits - len]) * TwoTo[AddressBits - len]
  PROVE  b \in Addresses /\ LowBitsMasked(b, AddressBits - len)
<1>. PICK h, c : h = TwoTo[AddressBits - len] /\ c = x \div h
  OBVIOUS
<1>1. h \in Nat \ {0} /\ x \in Nat
  <2>1. AddressBits - len \in 0..AddressBits
    BY Widths
  <2>. QED
    BY <2>1, TwoToIs, AddressFits
<1>2. c \in Nat /\ (x % h) \in 0..h - 1 /\ x = h * c + (x % h) /\ h * c \in Nat
  BY <1>1, Divided
<1>3. b = h * c
  BY <1>1, <1>2
<1>4. b \in Nat /\ b <= x
  <2>. PICK hc, y : hc = h * c /\ y = (x % h)
    OBVIOUS
  <2>1. hc \in Nat /\ y \in Nat /\ x = hc + y
    BY <1>1, <1>2
  <2>2. hc <= x
    BY ONLY <2>1
  <2>. QED
    BY <2>1, <2>2, <1>3
<1>5. TwoTo[AddressBits] \in Nat
  BY Widths, TwoToIs
<1>6. b \in Addresses
  <2>. PICK n : n = TwoTo[AddressBits]
    OBVIOUS
  <2>1. x \in 0..n - 1
    BY DEF Addresses
  <2>2. b \in 0..n - 1
    BY ONLY <2>1, <1>1, <1>4, <1>5, n = TwoTo[AddressBits]
  <2>. QED
    BY <2>2 DEF Addresses
<1>. QED
  BY <1>2, <1>6 DEF LowBitsMasked

(* Adding a route keeps the invariant. *)
LEMMA RouteAddKeeps ==
  ASSUME FibIInv, Len(routes) < MaxRoutes, NEW dev \in Devices, NEW x \in Addresses, NEW len \in 0..AddressBits, NEW adj \in Nat,
         route_add(dev, x, len, adj)
  PROVE  FibIInv'
<1>. PICK b : b = (x \div TwoTo[AddressBits - len]) * TwoTo[AddressBits - len]
  OBVIOUS
<1>. PICK a : a = [addr |-> b, len |-> len, adj |-> adj]
  OBVIOUS
<1>. PICK N : N = Len(routes)
  OBVIOUS
<1>. PICK M, cap : M = MaxRoutes /\ cap = IP4_PLY_POOL_CAPACITY
  OBVIOUS
<1>0. N \in Nat /\ N < M /\ M \in Nat /\ cap \in Nat /\ 2 * M <= cap
  BY MtrieAssumption DEF FibIInv
<1>1. a.addr = b /\ a.len = len /\ a.adj = adj
  OBVIOUS
<1>2. IsRoute(a)
  BY <1>1, MaskIs DEF IsRoute
<1>3. trie' = set_root_leaf(trie, dev, a) /\ routes' = Append(routes, AsRoute(dev, a))
  BY <1>1 DEF route_add, AsRoute
<1>4. AsRoute(dev, a) \in RouteRecs
  BY <1>2 DEF IsRoute, AsRoute, RouteRecs
<1>5. routes' \in Seq(RouteRecs) /\ Len(routes') = N + 1
  BY <1>3, <1>4 DEF FibIInv
<1>6. PICK lev : WellFormed(trie, lev)
  BY DEF FibIInv, GoodTrie
<1>7. Fib(trie, routes) /\ trie.next <= 2 * N /\ trie.next \in Nat
  BY <1>6 DEF FibIInv, GoodTrie, WellFormed, Tries
<1>8. trie.next + 2 <= cap
  BY <1>0, <1>7
<1>9. GoodTrie(trie', routes', trie.next + 2)
  BY <1>2, <1>3, <1>6, <1>7, <1>8, RouteAdded DEF FibIInv
<1>10. trie'.next \in Nat
  <2>1. PICK lv : WellFormed(trie', lv)
    BY <1>9 DEF GoodTrie
  <2>. QED
    BY <2>1 DEF WellFormed, Tries
<1>11. GoodTrie(trie', routes', 2 * Len(routes'))
  <2>1. trie'.next <= trie.next + 2
    BY <1>9 DEF GoodTrie
  <2>2. trie'.next <= 2 * Len(routes')
    BY <2>1, <1>0, <1>5, <1>7, <1>10
  <2>. QED
    BY <2>2, <1>9 DEF GoodTrie
<1>12. Len(routes') <= M
  BY <1>0, <1>5
<1>. QED
  BY <1>5, <1>11, <1>12 DEF FibIInv

(* FibIInv is inductive. *)
LEMMA FibInvariant == Spec => []FibIInv
<1>1. Init => FibIInv
  BY FibStart DEF Init
<1>2. FibIInv /\ [Next]_fwVars => FibIInv'
  <2>. SUFFICES ASSUME FibIInv, [Next]_fwVars PROVE FibIInv'
    OBVIOUS
  <2>0. ASSUME UNCHANGED <<trie, routes>> PROVE FibIInv'
    BY <2>0 DEF FibIInv, GoodTrie, Fib
  <2>1. ASSUME NEW r \in Prefixes, NEW adj \in DOMAIN load_balance_pool, nf_init(r, adj) PROVE FibIInv'
    <3>1. r[1] \in Devices /\ r[2] \in Addresses /\ r[3] \in 0..AddressBits
      BY MtrieAssumption
    <3>2. adj \in Nat
      BY DEF load_balance_pool, DROP, FORWARD
    <3>. QED
      BY <2>1, <3>1, <3>2, RouteAddKeeps DEF nf_init
  <2>2. ASSUME Restart PROVE FibIInv'
    <3>1. trie' = EmptyTries /\ routes' = <<>>
      BY <2>2 DEF Restart
    <3>2. (trie = EmptyTries /\ routes = <<>> => FibIInv)'
      BY FibStart, PTL
    <3>. QED
      BY <3>1, <3>2
  <2>3. CASE nf_init_returns
    BY <2>0, <2>3 DEF nf_init_returns
  <2>4. ASSUME NEW dev \in Devices, NEW src \in Endpoints, NEW dst \in Endpoints, NEW flags \in SUBSET Flags,
               Arrive(dev, src, dst, flags)
        PROVE  FibIInv'
    BY <2>0, <2>4 DEF Arrive
  <2>5. CASE CommitFails
    BY <2>0, <2>5 DEF CommitFails
  <2>6. CASE CommitKnown
    BY <2>0, <2>6 DEF CommitKnown
  <2>7. ASSUME NEW room \in BOOLEAN, CommitUnknown(room) PROVE FibIInv'
    BY <2>0, <2>7 DEF CommitUnknown
  <2>8. ASSUME NEW id \in Ids, FlowExpires(id) PROVE FibIInv'
    BY <2>0, <2>8 DEF FlowExpires
  <2>9. CASE UNCHANGED fwVars
    BY <2>0, <2>9 DEF fwVars
  <2>. QED
    BY <2>1, <2>2, <2>3, <2>4, <2>5, <2>6, <2>7, <2>8, <2>9 DEF Next
<1>. QED
  BY <1>1, <1>2, PTL DEF Spec

(* A ply in use hangs below exactly one slot of the tries, whatever routes *)
(* are added in whatever order.                                            *)
THEOREM PliesHang == Spec => []PliesHangOnce
  BY FibInvariant, FibIInvHang, PTL

(* A lookup finds the longest route that covers the address, the latest of *)
(* equally long ones, for every set of routes, order of adding them and    *)
(* width of the plies.                                                     *)
THEOREM LongestPrefix == Spec => []FibIsLongestPrefix
  BY FibInvariant, FibIInvLongest, PTL
=============================================================================
