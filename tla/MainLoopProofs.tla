--------------------------- MODULE MainLoopProofs ---------------------------
(***************************************************************************)
(* For every batch size, set of packet sets and number of devices: what    *)
(* process_pkt promises of the packets of a batch, however often the       *)
(* transactions abort (Spec), and that the main loop, which runs it on     *)
(* every burst (MainSpec), keeps these promises, releases each mbuf once   *)
(* and sends packets in order.                                             *)
(*                                                                         *)
(* Handler runs cover the batch from left to right: those of committed     *)
(* transactions cover the packets before Base, those of the transaction in *)
(* progress the packets from Base to Top.  A commit moves Base, an abort   *)
(* moves Top back to Base.  The log of a range has an entry for each of    *)
(* its runs, and while a set with a single packet in the range has no      *)
(* entry its state is the one before the range.                            *)
(*                                                                         *)
(* An mbuf is in one place: in freed, or waiting for or taken by the       *)
(* device that its destination names.  The mbufs of a device are in        *)
(* ascending order, and none waits for a device that has taken some.       *)
(***************************************************************************)
EXTENDS MainLoop, SequenceTheorems, ListFacts

Runs == [pkt : Nat \ {0}, kind : {"orphan", "unknown", "registered"}, dst : Decisions]
LogEntries == [id : Ids, state : PktSetStates]

Typing ==
  /\ batch \in Seq(Packets)
  /\ dst_devices \in Seq(Decisions) /\ Len(dst_devices) = Len(batch)
  /\ dst_device \in Decisions
  /\ n \in 1..Len(batch) + 1
  /\ start_n \in Nat /\ end_n \in Nat
  /\ pkt_set_state \in [Ids -> PktSetStates] /\ before \in [Ids -> PktSetStates]
  /\ pkt_set_state_log \in Seq(LogEntries)
  /\ registered \in SUBSET Ids
  /\ add_logged \in BOOLEAN /\ asked \in BOOLEAN
  /\ pc \in {"idle", "orphan", "unknown", "unknown_unlock", "range", "done"}
  /\ txn \in Seq(Runs) /\ done \in Seq(Runs)

(* The first packet of the transaction in progress, and the first that it  *)
(* has not handled.                                                        *)
Base == IF pc = "range" THEN start_n ELSE IF pc = "orphan" THEN 1 ELSE n
Top == IF pc = "unknown_unlock" THEN n + 1 ELSE n

(* The runs r are, in order, those of the packets lo..hi-1 that parse. *)
Covers(b, r, lo, hi) ==
  /\ \A j \in DOMAIN r : lo <= r[j].pkt /\ r[j].pkt < hi /\ r[j].pkt <= Len(b) /\ b[r[j].pkt].parsed
  /\ \A i \in 1..Len(b) : lo <= i /\ i < hi /\ b[i].parsed => \E j \in DOMAIN r : r[j].pkt = i
  /\ \A i, j \in DOMAIN r : i < j => r[i].pkt < r[j].pkt

Progress ==
  /\ n <= Len(batch) => batch[n].parsed
  /\ Covers(batch, done, 1, Base)
  /\ Covers(batch, txn, Base, Top)
  /\ pc \in {"idle", "done"} => n = Len(batch) + 1 /\ txn = <<>>
  /\ pc = "idle" => batch = <<>> /\ done = <<>>
  /\ pc \in {"unknown", "unknown_unlock", "range"} => Base <= Len(batch)

Sent(r) == \A j \in DOMAIN r : r[j].kind = "registered" => dst_devices[r[j].pkt] = r[j].dst

Destinations ==
  /\ \A i \in 1..Len(batch) : ~batch[i].parsed => dst_devices[i] = Device
  /\ Sent(done) /\ Sent(txn)
  /\ pc = "unknown_unlock" => \A j \in DOMAIN txn : txn[j].kind = "unknown"

InRange ==
  pc = "range" =>
    /\ 1 <= start_n /\ start_n <= n /\ n <= end_n /\ end_n <= Len(batch) + 1
    /\ start_n < end_n
    /\ batch[start_n].parsed
    /\ \A i \in start_n..end_n - 1 : batch[i].parsed => batch[i].id \in registered
    /\ end_n <= Len(batch) => batch[end_n].parsed /\ batch[end_n].id \notin registered

Registration ==
  /\ pc \in {"unknown", "unknown_unlock"} => batch[n].id \notin registered
  /\ pc = "unknown_unlock" => add_logged = asked
  /\ registered = wanted

Single(s) == \A i, j \in RangeIds(s) : i = j

Logged ==
  pc = "range" =>
    /\ Len(pkt_set_state_log) = Len(txn)
    /\ \A i \in DOMAIN txn : pkt_set_state_log[i].id = batch[txn[i].pkt].id
    /\ \A s \in Ids : Single(s) =>
         /\ \A i \in DOMAIN txn : pkt_set_state_log[i].id = s => pkt_set_state_log[i].state = before[s]
         /\ (\A i \in DOMAIN txn : pkt_set_state_log[i].id # s) => pkt_set_state[s] = before[s]

(* The inductive invariant. *)
IInv == Typing /\ Progress /\ Destinations /\ InRange /\ Registration /\ Logged
-----------------------------------------------------------------------------
(* NextParsed is the next packet that parses, or the end of the batch. *)
LEMMA NextParsedFacts ==
  ASSUME NEW b \in Seq(Packets), NEW k \in 0..Len(b)
  PROVE  /\ NextParsed(b, k) \in k + 1..Len(b) + 1
         /\ NextParsed(b, k) <= Len(b) => b[NextParsed(b, k)].parsed
         /\ \A i \in 1..Len(b) : k < i /\ i < NextParsed(b, k) => ~b[i].parsed
<1>. DEFINE S == {j \in k + 1..Len(b) : b[j].parsed} \cup {Len(b) + 1}
<1>1. S \in SUBSET Nat /\ Len(b) + 1 \in S /\ Len(b) \in Nat
  OBVIOUS
<1>2. Min(S) \in S /\ \A y \in S : Min(S) <= y
  BY <1>1, MinIsLeast
<1>. DEFINE m == Min(S)
<1>3. NextParsed(b, k) = m
  BY DEF NextParsed
<1>. HIDE DEF m
<1>4. m \in k + 1..Len(b) + 1 /\ (m <= Len(b) => b[m].parsed)
  BY <1>1, <1>2 DEF m
<1>5. ASSUME NEW i \in 1..Len(b), k < i, i < m, b[i].parsed PROVE FALSE
  <2>1. i \in S
    BY <1>5
  <2>. QED
    BY <1>2, <1>4, <1>5, <2>1 DEF m
<1>. QED
  BY <1>3, <1>4, <1>5

(* All packets of a range that parse are in the map, and the one that ends *)
(* it is not.                                                              *)
LEMMA RangeEndFacts ==
  ASSUME NEW map, NEW b \in Seq(Packets), NEW k \in 1..Len(b) + 1
  PROVE  LET end == RangeEnd(map, b, k) IN
         /\ end \in k..Len(b) + 1
         /\ end <= Len(b) => b[end].parsed /\ b[end].id \notin map
         /\ \A i \in k..end - 1 : b[i].parsed => b[i].id \in map
<1>. DEFINE S == {j \in k..Len(b) : b[j].parsed /\ b[j].id \notin map} \cup {Len(b) + 1}
<1>1. S \in SUBSET Nat /\ Len(b) + 1 \in S /\ Len(b) \in Nat
  OBVIOUS
<1>2. Min(S) \in S /\ \A y \in S : Min(S) <= y
  BY <1>1, MinIsLeast
<1>. DEFINE m == Min(S)
<1>3. RangeEnd(map, b, k) = m
  BY DEF RangeEnd
<1>. HIDE DEF m
<1>4. m \in k..Len(b) + 1 /\ (m <= Len(b) => b[m].parsed /\ b[m].id \notin map)
  BY <1>1, <1>2 DEF m
<1>5. ASSUME NEW i \in k..m - 1, b[i].parsed, b[i].id \notin map PROVE FALSE
  <2>1. i \in S
    BY <1>1, <1>4, <1>5
  <2>. QED
    BY <1>2, <1>4, <1>5, <2>1 DEF m
<1>. QED
  BY <1>3, <1>4, <1>5

(* The entries of a sequence of runs are runs. *)
LEMMA RunOfSeq ==
  ASSUME NEW r \in Seq(Runs), NEW j \in DOMAIN r
  PROVE  /\ r[j] \in Runs /\ r[j].pkt \in Nat \ {0} /\ r[j].dst \in Decisions
         /\ j \in 1..Len(r)
<1>1. r[j] \in Runs /\ j \in 1..Len(r)
  BY ElementOfSeq
<1>. QED
  BY <1>1 DEF Runs

(* No run covers the empty interval. *)
LEMMA CoversNothing ==
  ASSUME NEW b \in Seq(Packets), NEW k \in Nat
  PROVE  Covers(b, <<>>, k, k)
<1>1. DOMAIN <<>> = {}
  OBVIOUS
<1>. QED
  BY <1>1 DEF Covers

(* Packets that do not parse need no run. *)
LEMMA CoversSkip ==
  ASSUME NEW b \in Seq(Packets), NEW r \in Seq(Runs), NEW lo \in Nat, NEW hi \in Nat,
         NEW to \in Nat, hi <= to, Covers(b, r, lo, hi),
         \A i \in 1..Len(b) : hi <= i /\ i < to => ~b[i].parsed
  PROVE  Covers(b, r, lo, to)
<1>1. \A j \in DOMAIN r : r[j].pkt \in Nat
  BY RunOfSeq
<1>. QED
  BY <1>1 DEF Covers

(* A run of packet k covers one packet more. *)
LEMMA CoversAppend ==
  ASSUME NEW b \in Seq(Packets), NEW r \in Seq(Runs), NEW lo \in Nat, NEW k \in 1..Len(b),
         NEW e \in Runs, e.pkt = k, lo <= k, b[k].parsed, Covers(b, r, lo, k)
  PROVE  Covers(b, Append(r, e), lo, k + 1)
<1>. DEFINE q == Append(r, e)
<1>1. /\ DOMAIN q = 1..Len(r) + 1 /\ DOMAIN r = 1..Len(r) /\ Len(r) \in Nat
      /\ \A j \in 1..Len(r) : q[j] = r[j]
      /\ q[Len(r) + 1] = e
  OBVIOUS
<1>2. \A j \in DOMAIN r : r[j].pkt \in Nat
  BY RunOfSeq
<1>. HIDE DEF q
<1>3. \A j \in DOMAIN q : lo <= q[j].pkt /\ q[j].pkt < k + 1 /\ q[j].pkt <= Len(b) /\ b[q[j].pkt].parsed
  <2>. TAKE j \in DOMAIN q
  <2>1. CASE j \in DOMAIN r
    BY <2>1, <1>1, <1>2 DEF Covers
  <2>2. CASE j = Len(r) + 1
    BY <2>2, <1>1
  <2>. QED
    BY <2>1, <2>2, <1>1
<1>4. \A i \in 1..Len(b) : lo <= i /\ i < k + 1 /\ b[i].parsed => \E j \in DOMAIN q : q[j].pkt = i
  <2>. SUFFICES ASSUME NEW i \in 1..Len(b), lo <= i, i < k + 1, b[i].parsed
                PROVE  \E j \in DOMAIN q : q[j].pkt = i
    OBVIOUS
  <2>1. CASE i = k
    BY <2>1, <1>1
  <2>2. CASE i < k
    BY <2>2, <1>1 DEF Covers
  <2>. QED
    BY <2>1, <2>2
<1>5. \A i, j \in DOMAIN q : i < j => q[i].pkt < q[j].pkt
  <2>. SUFFICES ASSUME NEW i \in DOMAIN q, NEW j \in DOMAIN q, i < j
                PROVE  q[i].pkt < q[j].pkt
    OBVIOUS
  <2>1. i \in DOMAIN r
    BY <1>1
  <2>2. CASE j \in DOMAIN r
    BY <2>1, <2>2, <1>1 DEF Covers
  <2>3. CASE j = Len(r) + 1
    BY <2>1, <2>3, <1>1 DEF Covers
  <2>. QED
    BY <2>2, <2>3, <1>1
<1>. QED
  BY <1>3, <1>4, <1>5 DEF Covers, q

(* Runs of two adjacent intervals, one after the other, cover both. *)
LEMMA CoversConcat ==
  ASSUME NEW b \in Seq(Packets), NEW r \in Seq(Runs), NEW s \in Seq(Runs),
         NEW lo \in Nat, NEW mid \in Nat, NEW hi \in Nat, lo <= mid, mid <= hi,
         Covers(b, r, lo, mid), Covers(b, s, mid, hi)
  PROVE  Covers(b, r \o s, lo, hi)
<1>. DEFINE q == r \o s
<1>1. /\ DOMAIN q = 1..Len(r) + Len(s)
      /\ DOMAIN r = 1..Len(r) /\ DOMAIN s = 1..Len(s)
      /\ Len(r) \in Nat /\ Len(s) \in Nat
      /\ \A j \in 1..Len(r) : q[j] = r[j]
      /\ \A j \in 1..Len(s) : q[Len(r) + j] = s[j]
  BY ConcatProperties
<1>2. /\ \A j \in DOMAIN r : r[j].pkt \in Nat
      /\ \A j \in DOMAIN s : s[j].pkt \in Nat
  BY RunOfSeq
<1>. HIDE DEF q
<1>3. ASSUME NEW j \in DOMAIN q
      PROVE  \/ j \in DOMAIN r /\ q[j] = r[j]
             \/ j > Len(r) /\ j - Len(r) \in DOMAIN s /\ q[j] = s[j - Len(r)]
  <2>1. CASE j \in 1..Len(r)
    BY <2>1, <1>1
  <2>2. CASE j - Len(r) \in 1..Len(s)
    BY <2>2, <1>1
  <2>. QED
    BY <2>1, <2>2, <1>1
<1>4. \A j \in DOMAIN q : lo <= q[j].pkt /\ q[j].pkt < hi /\ q[j].pkt <= Len(b) /\ b[q[j].pkt].parsed
  BY <1>2, <1>3 DEF Covers
<1>5. \A i \in 1..Len(b) : lo <= i /\ i < hi /\ b[i].parsed => \E j \in DOMAIN q : q[j].pkt = i
  <2>. SUFFICES ASSUME NEW i \in 1..Len(b), lo <= i, i < hi, b[i].parsed
                PROVE  \E j \in DOMAIN q : q[j].pkt = i
    OBVIOUS
  <2>1. CASE i < mid
    BY <2>1, <1>1 DEF Covers
  <2>2. CASE mid <= i
    <3>1. PICK j \in DOMAIN s : s[j].pkt = i
      BY <2>2 DEF Covers
    <3>2. Len(r) + j \in DOMAIN q /\ q[Len(r) + j].pkt = i
      BY <3>1, <1>1
    <3>. QED
      BY <3>2
  <2>. QED
    BY <2>1, <2>2
<1>6. \A i, j \in DOMAIN q : i < j => q[i].pkt < q[j].pkt
  <2>. SUFFICES ASSUME NEW i \in DOMAIN q, NEW j \in DOMAIN q, i < j
                PROVE  q[i].pkt < q[j].pkt
    OBVIOUS
  <2>1. CASE j \in DOMAIN r
    BY <2>1, <1>1 DEF Covers
  <2>2. CASE i \in DOMAIN r /\ j \notin DOMAIN r
    BY <2>2, <1>1, <1>2, <1>3 DEF Covers
  <2>3. CASE i \notin DOMAIN r /\ j \notin DOMAIN r
    <3>1. /\ i - Len(r) \in DOMAIN s /\ q[i] = s[i - Len(r)]
          /\ j - Len(r) \in DOMAIN s /\ q[j] = s[j - Len(r)]
      BY <2>3, <1>3
    <3>. QED
      BY <3>1, <1>1 DEF Covers
  <2>. QED
    BY <2>1, <2>2, <2>3, <1>1
<1>. QED
  BY <1>4, <1>5, <1>6 DEF Covers, q
-----------------------------------------------------------------------------
(* The inductive invariant holds before the first batch. *)
LEMMA Initial == Init => IInv
<1>. SUFFICES ASSUME Init PROVE IInv
  OBVIOUS
<1>1. /\ batch = <<>> /\ Len(batch) = 0 /\ n = 1 /\ pc = "idle"
      /\ done = <<>> /\ txn = <<>> /\ <<>> \in Seq(Packets)
  BY DEF Init
<1>2. Typing
  <2>1. /\ dst_devices \in Seq(Decisions) /\ dst_device \in Decisions
        /\ pkt_set_state_log \in Seq(LogEntries)
        /\ txn \in Seq(Runs) /\ done \in Seq(Runs) /\ Len(dst_devices) = 0
    BY DEF Init, Decisions
  <2>2. add_logged \in BOOLEAN /\ asked \in BOOLEAN /\ registered \in SUBSET Ids
    BY DEF Init
  <2>. QED
    BY <1>1, <2>1, <2>2 DEF Init, Typing
<1>3. Progress
  <2>1. Covers(batch, done, 1, 1) /\ Covers(batch, txn, 1, 1)
    BY <1>1, CoversNothing
  <2>. QED
    BY <1>1, <2>1 DEF Progress, Base, Top
<1>4. Destinations /\ InRange /\ Registration /\ Logged
  BY <1>1 DEF Init, Destinations, Sent, InRange, Registration, Logged
<1>. QED
  BY <1>2, <1>3, <1>4 DEF IInv

(* What the lookup of packet k leads to, from a state in which the packets *)
(* before k are handled and committed.                                     *)
LEMMA DispatchInv ==
  ASSUME NEW b \in Seq(Packets), NEW k \in 1..Len(b) + 1, k <= Len(b) => b[k].parsed,
         Typing, batch' = b,
         dst_devices' \in Seq(Decisions), Len(dst_devices') = Len(b),
         pkt_set_state' \in [Ids -> PktSetStates],
         registered' \in SUBSET Ids, wanted' = registered',
         add_logged' \in BOOLEAN, asked' \in BOOLEAN,
         done' \in Seq(Runs), txn' = <<>>, Covers(b, done', 1, k),
         \A i \in 1..Len(b) : ~b[i].parsed => dst_devices'[i] = Device,
         Sent(done)', Dispatch(b, k)
  PROVE  IInv'
<1>. DEFINE end == RangeEnd(registered', b, k)
<1>1. /\ end \in k..Len(b) + 1
      /\ end <= Len(b) => b[end].parsed /\ b[end].id \notin registered'
      /\ \A i \in k..end - 1 : b[i].parsed => b[i].id \in registered'
  BY RangeEndFacts
<1>. HIDE DEF end
<1>2. Len(b) \in Nat /\ n' = k /\ txn' \in Seq(Runs) /\ Len(txn') = 0 /\ DOMAIN txn' = {}
  BY DEF Dispatch
<1>3. /\ pc' = "done" /\ k = Len(b) + 1 /\ UNCHANGED <<start_n, end_n, pkt_set_state_log, before, dst_device>>
      \/ /\ pc' = "range" /\ k <= Len(b) /\ b[k].id \in registered' /\ start_n' = k /\ end_n' = end
         /\ pkt_set_state_log' = <<>> /\ before' = pkt_set_state' /\ UNCHANGED dst_device
      \/ /\ pc' = "unknown" /\ k <= Len(b) /\ b[k].id \notin registered' /\ dst_device' = Device
         /\ UNCHANGED <<start_n, end_n, pkt_set_state_log, before>>
  BY <1>2 DEF Dispatch, range, end
<1>4. Typing'
  <2>1. dst_device' \in Decisions
    BY <1>3 DEF Decisions, Typing
  <2>2. pkt_set_state_log' \in Seq(LogEntries)
    <3>1. <<>> \in Seq(LogEntries)
      OBVIOUS
    <3>. QED
      BY <1>3, <3>1 DEF Typing
  <2>3. start_n' \in Nat /\ end_n' \in Nat /\ before' \in [Ids -> PktSetStates]
    BY <1>1, <1>2, <1>3 DEF Typing
  <2>. QED
    BY <1>2, <1>3, <2>1, <2>2, <2>3 DEF Typing
<1>5. Base' = k /\ Top' = k
  BY <1>2, <1>3 DEF Base, Top
<1>6. Progress'
  BY <1>2, <1>3, <1>5, CoversNothing DEF Progress
<1>7. Destinations'
  BY <1>2, <1>3 DEF Destinations, Sent
<1>8. InRange'
  BY <1>1, <1>2, <1>3 DEF InRange
<1>9. Registration'
  BY <1>2, <1>3 DEF Registration
<1>10. Logged'
  BY <1>2, <1>3 DEF Logged
<1>. QED
  BY <1>4, <1>6, <1>7, <1>8, <1>9, <1>10 DEF IInv

(* The stateless part of process_pkt, up to the first lookup. *)
LEMMA ReceiveInv ==
  ASSUME IInv, NEW l \in 1..MaxBatch, NEW b \in [1..l -> Packets], NEW h \in BOOLEAN, Receive(b, h)
  PROVE  IInv'
<1>. DEFINE k == NextParsed(b, 0)
<1>1. b \in Seq(Packets) /\ Len(b) = l /\ l \in Nat
  BY DataPlaneAssumption
<1>2. /\ k \in 1..Len(b) + 1
      /\ k <= Len(b) => b[k].parsed
      /\ \A i \in 1..Len(b) : 0 < i /\ i < k => ~b[i].parsed
  BY <1>1, NextParsedFacts
<1>. HIDE DEF k
<1>3. /\ batch' = b /\ pc = "idle" /\ txn = <<>> /\ done = <<>>
      /\ UNCHANGED <<pkt_set_state, registered, wanted, add_logged, asked, txn, done>>
  BY DEF Receive, sets, IInv, Progress
<1>4. DOMAIN done = {} /\ done \in Seq(Runs)
  BY <1>3 DEF IInv, Typing
<1>6. /\ dst_devices' \in Seq(Decisions) /\ Len(dst_devices') = Len(b)
      /\ \A i \in 1..Len(b) : dst_devices'[i] = Device
  BY <1>1 DEF Receive, Decisions
<1>7. Covers(b, <<>>, 1, k)
  <2>1. <<>> \in Seq(Runs) /\ Covers(b, <<>>, 1, 1)
    BY <1>1, CoversNothing
  <2>2. \A i \in 1..Len(b) : 1 <= i /\ i < k => ~b[i].parsed
    BY <1>2
  <2>3. k \in Nat /\ 1 <= k
    BY <1>2
  <2>. QED
    BY <1>1, <2>1, <2>2, <2>3, CoversSkip
<1>8. CASE h
  <2>1. Dispatch(b, k)
    BY <1>8 DEF Receive, k
  <2>2. Sent(done)'
    BY <1>3, <1>4 DEF Sent
  <2>. QED
    BY <1>1, <1>2, <1>3, <1>4, <1>6, <1>7, <2>1, <2>2, DispatchInv
       DEF IInv, Typing, Registration
<1>9. CASE ~h
  <2>1. n' = k /\ pc' = "orphan" /\ UNCHANGED <<dst_device, start_n, end_n, pkt_set_state_log, before>>
    BY <1>9 DEF Receive, k, range
  <2>2. Typing'
    BY <1>1, <1>2, <1>3, <1>6, <2>1 DEF IInv, Typing
  <2>3. Progress'
    BY <1>1, <1>2, <1>3, <1>7, <2>1, CoversNothing DEF Progress, Base, Top
  <2>4. Destinations'
    BY <1>3, <1>6, <2>1 DEF Destinations, Sent
  <2>5. InRange' /\ Registration' /\ Logged'
    BY <1>3, <2>1 DEF IInv, InRange, Registration, Logged
  <2>. QED
    BY <2>2, <2>3, <2>4, <2>5 DEF IInv
<1>. QED
  BY <1>8, <1>9

(* A packet set expires between batches. *)
LEMMA ExpireInv ==
  ASSUME IInv, NEW s \in Ids, Expire(s)
  PROVE  IInv'
<1>1. /\ pc = "idle" /\ registered' = registered \ {s} /\ wanted' = wanted \ {s}
      /\ UNCHANGED <<batch, dst_devices, dst_device, n, start_n, end_n, pkt_set_state_log, before,
                     pkt_set_state, add_logged, asked, pc, txn, done>>
  BY DEF Expire, results, range
<1>2. Typing'
  BY <1>1 DEF IInv, Typing
<1>3. Progress' /\ Destinations'
  BY <1>1 DEF IInv, Progress, Base, Top, Destinations, Sent
<1>4. InRange' /\ Registration' /\ Logged'
  BY <1>1 DEF IInv, InRange, Registration, Logged
<1>. QED
  BY <1>2, <1>3, <1>4 DEF IInv

(* The result of packet n is written. *)
LEMMA WriteDst ==
  ASSUME Typing, n <= Len(batch), NEW d \in Decisions
  PROVE  LET w == [dst_devices EXCEPT ![n] = d] IN
         /\ w \in Seq(Decisions) /\ Len(w) = Len(batch)
         /\ w[n] = d
         /\ \A i \in 1..Len(batch) : i # n => w[i] = dst_devices[i]
  BY DEF Typing

(* A destination chosen by a handler replaces the default. *)
LEMMA DecideType ==
  ASSUME NEW d \in Decisions, NEW default \in Decisions
  PROVE  Decide(d, default) \in Decisions
  BY DEF Decide

(* The runs of the transaction after one more run. *)
LEMMA RanType ==
  ASSUME Typing, NEW d \in Decisions, NEW kind \in {"orphan", "unknown", "registered"}
  PROVE  LET q == Ran(kind, d) IN
         /\ q \in Seq(Runs) /\ Len(q) = Len(txn) + 1
         /\ DOMAIN txn = 1..Len(txn) /\ Len(txn) \in Nat
         /\ DOMAIN q = 1..Len(txn) + 1
         /\ \A j \in 1..Len(txn) : q[j] = txn[j]
         /\ q[Len(txn) + 1].pkt = n /\ q[Len(txn) + 1].kind = kind /\ q[Len(txn) + 1].dst = d
<1>1. [pkt |-> n, kind |-> kind, dst |-> d] \in Runs
  BY DEF Typing, Runs
<1>2. txn \in Seq(Runs)
  BY DEF Typing
<1>. QED
  BY <1>1, <1>2 DEF Ran

(* The step from one packet to the next in a transaction. *)
LEMMA NextCovered ==
  ASSUME IInv, pc \in {"orphan", "range"}, n <= Len(batch),
         NEW d \in Decisions, NEW kind \in {"orphan", "unknown", "registered"}
  PROVE  LET k == NextParsed(batch, n) IN
         /\ k \in n + 1..Len(batch) + 1
         /\ k <= Len(batch) => batch[k].parsed
         /\ \A i \in 1..Len(batch) : n < i /\ i < k => ~batch[i].parsed
         /\ Covers(batch, Ran(kind, d), Base, k)
<1>. DEFINE k == NextParsed(batch, n)
            e == [pkt |-> n, kind |-> kind, dst |-> d]
<1>1. /\ batch \in Seq(Packets) /\ Len(batch) \in Nat /\ n \in 1..Len(batch)
      /\ txn \in Seq(Runs) /\ e \in Runs /\ batch[n].parsed /\ e.pkt = n
  BY DEF IInv, Typing, Progress, Runs
<1>2. Base \in Nat /\ Base <= n /\ Covers(batch, txn, Base, n)
  BY <1>1 DEF IInv, Typing, Progress, Base, Top, InRange
<1>3. /\ k \in n + 1..Len(batch) + 1
      /\ k <= Len(batch) => batch[k].parsed
      /\ \A i \in 1..Len(batch) : n < i /\ i < k => ~batch[i].parsed
  BY <1>1, NextParsedFacts
<1>. HIDE DEF k, e
<1>4. Append(txn, e) \in Seq(Runs) /\ Covers(batch, Append(txn, e), Base, n + 1)
  BY <1>1, <1>2, CoversAppend
<1>5. \A i \in 1..Len(batch) : n + 1 <= i /\ i < k => ~batch[i].parsed
  BY <1>1, <1>3
<1>6. Covers(batch, Append(txn, e), Base, k)
  <2>1. k \in Nat /\ n + 1 \in Nat /\ n + 1 <= k
    BY <1>1, <1>3
  <2>. QED
    BY <1>1, <1>2, <1>4, <1>5, <2>1, CoversSkip
<1>. QED
  BY <1>3, <1>6 DEF Ran, k, e

(* An orphan packet is handled: it was not handled before, and its result  *)
(* is the only one written.                                                *)
LEMMA OrphanHandlerInv ==
  ASSUME IInv, NEW d \in Decisions, OrphanHandler(d)
  PROVE  IInv'
<1>. DEFINE k == NextParsed(batch, n)
            q == Ran("orphan", d)
<1>1. /\ pc = "orphan" /\ n <= Len(batch) /\ n' = k /\ txn' = q
      /\ UNCHANGED <<batch, start_n, end_n, pkt_set_state_log, before, pkt_set_state, registered,
                     add_logged, asked, wanted, pc, done>>
  BY DEF OrphanHandler, range, sets
<1>2. /\ k \in n + 1..Len(batch) + 1
      /\ k <= Len(batch) => batch[k].parsed
      /\ Covers(batch, q, Base, k)
  BY <1>1, NextCovered
<1>3. /\ q \in Seq(Runs) /\ DOMAIN q = 1..Len(txn) + 1 /\ DOMAIN txn = 1..Len(txn)
      /\ \A j \in 1..Len(txn) : q[j] = txn[j]
      /\ q[Len(txn) + 1].kind = "orphan"
  BY RanType DEF IInv
<1>. HIDE DEF k, q
<1>4. /\ dst_device' \in Decisions /\ dst_devices' \in Seq(Decisions) /\ Len(dst_devices') = Len(batch)
      /\ \A i \in 1..Len(batch) : i # n => dst_devices'[i] = dst_devices[i]
  <2>1. dst_devices[n] \in Decisions
    BY <1>1 DEF IInv, Typing
  <2>2. dst_device' \in Decisions
    BY <2>1, DecideType DEF OrphanHandler
  <2>. QED
    BY <1>1, <2>2, WriteDst DEF IInv, OrphanHandler
<1>5. Typing'
  BY <1>1, <1>2, <1>3, <1>4 DEF IInv, Typing
<1>6. Progress'
  BY <1>1, <1>2 DEF IInv, Typing, Progress, Base, Top
<1>7. Destinations'
  <2>1. Sent(done)'
    BY <1>1, <1>4, RunOfSeq DEF IInv, Typing, Progress, Covers, Base, Destinations, Sent
  <2>2. Sent(txn)'
    BY <1>1, <1>3, <1>4, RunOfSeq DEF IInv, Typing, Progress, Covers, Top, Destinations, Sent
  <2>. QED
    BY <1>1, <1>4, <2>1, <2>2 DEF IInv, Typing, Progress, Destinations
<1>8. InRange' /\ Registration' /\ Logged'
  BY <1>1 DEF IInv, InRange, Registration, Logged
<1>. QED
  BY <1>5, <1>6, <1>7, <1>8 DEF IInv

(* The transaction of the orphan packets starts again. *)
LEMMA OrphanAbortsInv ==
  ASSUME IInv, NEW d \in Decisions, OrphanAborts(d)
  PROVE  IInv'
<1>. DEFINE k == NextParsed(batch, 0)
<1>1. /\ pc = "orphan" /\ n' = k /\ txn' = <<>>
      /\ UNCHANGED <<batch, dst_devices, start_n, end_n, pkt_set_state_log, before, pkt_set_state,
                     registered, add_logged, asked, wanted, pc, done>>
  BY DEF OrphanAborts, range, sets
<1>2. /\ k \in 1..Len(batch) + 1
      /\ k <= Len(batch) => batch[k].parsed
      /\ \A i \in 1..Len(batch) : 0 < i /\ i < k => ~batch[i].parsed
      /\ batch \in Seq(Packets) /\ Len(batch) \in Nat
  BY NextParsedFacts DEF IInv, Typing
<1>. HIDE DEF k
<1>3. <<>> \in Seq(Runs) /\ Covers(batch, <<>>, 1, k)
  <2>1. <<>> \in Seq(Runs) /\ Covers(batch, <<>>, 1, 1)
    BY <1>2, CoversNothing
  <2>2. \A i \in 1..Len(batch) : 1 <= i /\ i < k => ~batch[i].parsed
    BY <1>2
  <2>3. k \in Nat /\ 1 <= k
    BY <1>2
  <2>. QED
    BY <1>2, <2>1, <2>2, <2>3, CoversSkip
<1>4. dst_device' \in Decisions
  <2>1. n <= Len(batch) => dst_devices[n] \in Decisions
    BY DEF IInv, Typing
  <2>. QED
    BY <2>1, DecideType DEF OrphanAborts, IInv, Typing
<1>5. Typing'
  BY <1>1, <1>2, <1>3, <1>4 DEF IInv, Typing
<1>6. Progress'
  BY <1>1, <1>2, <1>3 DEF IInv, Typing, Progress, Base, Top
<1>7. Destinations'
  BY <1>1 DEF IInv, Destinations, Sent
<1>8. InRange' /\ Registration' /\ Logged'
  BY <1>1 DEF IInv, InRange, Registration, Logged
<1>. QED
  BY <1>5, <1>6, <1>7, <1>8 DEF IInv

(* A commit: the runs of the transaction are added to the committed ones. *)
LEMMA CommitRuns ==
  ASSUME IInv
  PROVE  LET q == done \o txn IN
         /\ q \in Seq(Runs) /\ Covers(batch, q, 1, Top)
         /\ \A j \in DOMAIN q : \/ \E i \in DOMAIN done : q[j] = done[i]
                                \/ \E i \in DOMAIN txn : q[j] = txn[i]
<1>. DEFINE q == done \o txn
<1>1. done \in Seq(Runs) /\ txn \in Seq(Runs) /\ batch \in Seq(Packets)
  BY DEF IInv, Typing
<1>2. /\ 1 \in Nat /\ Base \in Nat /\ Top \in Nat /\ 1 <= Base /\ Base <= Top
      /\ Covers(batch, done, 1, Base) /\ Covers(batch, txn, Base, Top)
  BY DEF IInv, Typing, Progress, Base, Top, InRange
<1>3. Covers(batch, q, 1, Top)
  BY <1>1, <1>2, CoversConcat
<1>4. q \in Seq(Runs)
  BY <1>1
<1>5. ASSUME NEW j \in DOMAIN q
      PROVE  \/ \E i \in DOMAIN done : q[j] = done[i]
             \/ \E i \in DOMAIN txn : q[j] = txn[i]
  <2>1. /\ Len(q) = Len(done) + Len(txn) /\ DOMAIN q = 1..Len(done) + Len(txn)
        /\ DOMAIN done = 1..Len(done) /\ DOMAIN txn = 1..Len(txn)
        /\ Len(done) \in Nat /\ Len(txn) \in Nat
        /\ \A i \in 1..Len(q) : q[i] = IF i <= Len(done) THEN done[i] ELSE txn[i - Len(done)]
    BY <1>1, ConcatProperties
  <2>. HIDE DEF q
  <2>2. CASE j <= Len(done)
    BY <2>1, <2>2
  <2>3. CASE j > Len(done)
    <3>1. j - Len(done) \in DOMAIN txn /\ q[j] = txn[j - Len(done)]
      BY <2>1, <2>3
    <3>. QED
      BY <3>1
  <2>. QED
    BY <2>1, <2>2, <2>3
<1>. QED
  BY <1>3, <1>4, <1>5

(* The orphan packets are all handled and committed. *)
LEMMA OrphanCommitsInv ==
  ASSUME IInv, OrphanCommits
  PROVE  IInv'
<1>. DEFINE q == done \o txn
<1>1. /\ pc = "orphan" /\ n > Len(batch) /\ done' = q /\ txn' = <<>> /\ pc' = "done"
      /\ UNCHANGED <<batch, dst_devices, dst_device, n, start_n, end_n, pkt_set_state_log, before,
                     pkt_set_state, registered, add_logged, asked, wanted>>
  BY DEF OrphanCommits, results, range, sets
<1>2. /\ q \in Seq(Runs) /\ Covers(batch, q, 1, n)
      /\ \A j \in DOMAIN q : \/ \E i \in DOMAIN done : q[j] = done[i]
                             \/ \E i \in DOMAIN txn : q[j] = txn[i]
  BY <1>1, CommitRuns DEF Top
<1>. HIDE DEF q
<1>3. <<>> \in Seq(Runs) /\ DOMAIN <<>> = {}
  OBVIOUS
<1>4. Typing'
  BY <1>1, <1>2, <1>3 DEF IInv, Typing
<1>5. Progress'
  <2>1. Covers(batch, <<>>, n, n)
    BY CoversNothing DEF IInv, Typing
  <2>2. n = Len(batch) + 1 /\ Len(batch) \in Nat
    BY <1>1 DEF IInv, Typing
  <2>. QED
    BY <1>1, <1>2, <2>1, <2>2 DEF Progress, Base, Top
<1>6. Destinations'
  BY <1>1, <1>2, <1>3 DEF IInv, Destinations, Sent
<1>7. InRange' /\ Registration' /\ Logged'
  BY <1>1 DEF IInv, InRange, Registration, Logged
<1>. QED
  BY <1>4, <1>5, <1>6, <1>7 DEF IInv

(* The handler of a packet of an unknown set; the log of add_pkt_set says  *)
(* what this run asked for.                                                *)
LEMMA UnknownHandlerInv ==
  ASSUME IInv, NEW d \in Decisions, NEW add \in BOOLEAN, UnknownHandler(d, add)
  PROVE  IInv'
<1>. DEFINE q == Ran("unknown", d)
<1>1. /\ pc = "unknown" /\ txn' = q /\ pc' = "unknown_unlock"
      /\ add_logged' = add /\ asked' = add /\ dst_device' = Decide(d, dst_device)
      /\ UNCHANGED <<batch, dst_devices, n, start_n, end_n, pkt_set_state_log, before,
                     pkt_set_state, registered, wanted, done>>
  BY DEF UnknownHandler, range
<1>2. /\ q \in Seq(Runs) /\ DOMAIN q = 1..Len(txn) + 1 /\ Len(txn) \in Nat
      /\ \A j \in 1..Len(txn) : q[j] = txn[j]
      /\ q[Len(txn) + 1].kind = "unknown"
  BY RanType DEF IInv
<1>3. /\ txn \in Seq(Runs) /\ DOMAIN txn = {} /\ Len(txn) = 0
  <2>1. txn \in Seq(Runs) /\ n \in Nat /\ Covers(batch, txn, n, n)
    BY <1>1 DEF IInv, Typing, Progress, Base, Top
  <2>2. \A j \in DOMAIN txn : FALSE
    BY <2>1, RunOfSeq DEF Covers
  <2>. QED
    BY <2>1, <2>2
<1>4. Covers(batch, q, n, n + 1)
  <2>. DEFINE e == [pkt |-> n, kind |-> "unknown", dst |-> d]
  <2>1. /\ batch \in Seq(Packets) /\ n \in 1..Len(batch) /\ n \in Nat /\ e \in Runs /\ e.pkt = n
        /\ batch[n].parsed /\ Covers(batch, txn, n, n) /\ n <= n
    BY <1>1 DEF IInv, Typing, Progress, Base, Top, Runs
  <2>. HIDE DEF e
  <2>2. Covers(batch, Append(txn, e), n, n + 1)
    BY <1>3, <2>1, CoversAppend
  <2>. QED
    BY <2>2 DEF Ran, e
<1>. HIDE DEF q
<1>5. Typing'
  <2>1. dst_device' \in Decisions
    BY <1>1, DecideType DEF IInv, Typing
  <2>. QED
    BY <1>1, <1>2, <2>1 DEF IInv, Typing
<1>6. Progress'
  BY <1>1, <1>4 DEF IInv, Typing, Progress, Base, Top
<1>7. Destinations'
  <2>1. \A j \in DOMAIN q : q[j].kind = "unknown"
    BY <1>2, <1>3
  <2>. QED
    BY <1>1, <2>1 DEF IInv, Destinations, Sent
<1>8. InRange' /\ Registration' /\ Logged'
  BY <1>1 DEF IInv, InRange, Registration, Logged
<1>. QED
  BY <1>5, <1>6, <1>7, <1>8 DEF IInv

(* The handler of an unknown set aborts. *)
LEMMA UnknownHandlerAbortsInv ==
  ASSUME IInv, NEW d \in Decisions, NEW add \in BOOLEAN, UnknownHandlerAborts(d, add)
  PROVE  IInv'
<1>1. /\ pc = "unknown" /\ add_logged' = add /\ dst_device' = Decide(d, dst_device)
      /\ UNCHANGED <<batch, dst_devices, n, start_n, end_n, pkt_set_state_log, before,
                     pkt_set_state, registered, asked, wanted, pc, txn, done>>
  BY DEF UnknownHandlerAborts, range
<1>2. Typing'
  <2>1. dst_device' \in Decisions
    BY <1>1, DecideType DEF IInv, Typing
  <2>. QED
    BY <1>1, <2>1 DEF IInv, Typing
<1>3. Progress' /\ Destinations'
  BY <1>1 DEF IInv, Progress, Base, Top, Destinations, Sent
<1>4. InRange' /\ Registration' /\ Logged'
  BY <1>1 DEF IInv, InRange, Registration, Logged
<1>. QED
  BY <1>2, <1>3, <1>4 DEF IInv

(* The commit after the handler of an unknown set fails. *)
LEMMA UnknownCommitFailsInv ==
  ASSUME IInv, UnknownCommitFails
  PROVE  IInv'
<1>1. /\ pc = "unknown_unlock" /\ pc' = "unknown" /\ txn' = <<>>
      /\ UNCHANGED <<batch, dst_devices, dst_device, n, start_n, end_n, pkt_set_state_log, before,
                     pkt_set_state, registered, add_logged, asked, wanted, done>>
  BY DEF UnknownCommitFails, results, range, sets
<1>2. <<>> \in Seq(Runs) /\ DOMAIN <<>> = {}
  OBVIOUS
<1>3. Typing'
  BY <1>1, <1>2 DEF IInv, Typing
<1>4. Progress'
  <2>1. Covers(batch, <<>>, n, n)
    BY CoversNothing DEF IInv, Typing
  <2>. QED
    BY <1>1, <2>1 DEF IInv, Typing, Progress, Base, Top
<1>5. Destinations'
  BY <1>1, <1>2 DEF IInv, Destinations, Sent
<1>6. InRange' /\ Registration' /\ Logged'
  BY <1>1 DEF IInv, InRange, Registration, Logged
<1>. QED
  BY <1>3, <1>4, <1>5, <1>6 DEF IInv

(* The transaction of a packet of an unknown set commits: its run is       *)
(* added, the set is registered if the run asked for it, and the next      *)
(* packet is looked up.                                                    *)
LEMMA UnknownCommitsInv ==
  ASSUME IInv, NEW v \in PktSetStates, UnknownCommits(v)
  PROVE  IInv'
<1>. DEFINE q == done \o txn
            k == NextParsed(batch, n)
            id == batch[n].id
<1>1. /\ pc = "unknown_unlock" /\ done' = q /\ txn' = <<>>
      /\ registered' = IF add_logged THEN registered \cup {id} ELSE registered
      /\ pkt_set_state' = IF add_logged THEN [pkt_set_state EXCEPT ![id] = v] ELSE pkt_set_state
      /\ wanted' = IF asked THEN wanted \cup {id} ELSE wanted
      /\ dst_devices' = [dst_devices EXCEPT ![n] = dst_device]
      /\ UNCHANGED <<batch, add_logged, asked>>
      /\ Dispatch(batch, k)
  BY DEF UnknownCommits
<1>2. /\ batch \in Seq(Packets) /\ Len(batch) \in Nat /\ n \in 1..Len(batch) /\ n \in 0..Len(batch)
      /\ id \in Ids /\ batch[n].parsed /\ add_logged = asked /\ registered = wanted
      /\ Top = n + 1
  <2>1. batch \in Seq(Packets) /\ Len(batch) \in Nat /\ n \in 1..Len(batch) /\ batch[n].parsed
    BY <1>1 DEF IInv, Typing, Progress, Base
  <2>2. batch[n] \in Packets
    BY <2>1
  <2>. QED
    BY <1>1, <2>1, <2>2 DEF IInv, Registration, Packets, Top
<1>3. /\ k \in n + 1..Len(batch) + 1
      /\ k <= Len(batch) => batch[k].parsed
      /\ \A i \in 1..Len(batch) : n < i /\ i < k => ~batch[i].parsed
  BY <1>2, NextParsedFacts
<1>4. /\ q \in Seq(Runs) /\ Covers(batch, q, 1, n + 1)
      /\ \A j \in DOMAIN q : \/ \E i \in DOMAIN done : q[j] = done[i]
                             \/ \E i \in DOMAIN txn : q[j] = txn[i]
  BY <1>2, CommitRuns
<1>. HIDE DEF k, q, id
<1>5. Covers(batch, q, 1, k)
  <2>1. k \in Nat /\ n + 1 \in Nat /\ n + 1 <= k
    BY <1>2, <1>3
  <2>2. \A i \in 1..Len(batch) : n + 1 <= i /\ i < k => ~batch[i].parsed
    BY <1>2, <1>3
  <2>. QED
    BY <1>2, <1>4, <2>1, <2>2, CoversSkip
<1>6. /\ dst_devices' \in Seq(Decisions) /\ Len(dst_devices') = Len(batch)
      /\ \A i \in 1..Len(batch) : i # n => dst_devices'[i] = dst_devices[i]
  <2>1. dst_device \in Decisions
    BY DEF IInv, Typing
  <2>. QED
    BY <1>1, <1>2, <2>1, WriteDst DEF IInv
<1>7. /\ pkt_set_state' \in [Ids -> PktSetStates]
      /\ registered' \in SUBSET Ids /\ wanted' = registered'
  BY <1>1, <1>2 DEF IInv, Typing
<1>8. \A i \in 1..Len(batch) : ~batch[i].parsed => dst_devices'[i] = Device
  BY <1>2, <1>6 DEF IInv, Destinations
<1>9. Sent(done)'
  <2>. SUFFICES ASSUME NEW j \in DOMAIN q, q[j].kind = "registered"
                PROVE  dst_devices'[q[j].pkt] = q[j].dst
    BY <1>1 DEF Sent
  <2>1. PICK i \in DOMAIN done : q[j] = done[i]
    BY <1>1, <1>4 DEF IInv, Destinations
  <2>2. done[i].pkt \in 1..Len(batch) /\ done[i].pkt # n
    BY <1>1, <1>2, RunOfSeq DEF IInv, Typing, Progress, Covers, Base
  <2>. QED
    BY <1>6, <2>1, <2>2 DEF IInv, Destinations, Sent
<1>10. Typing /\ add_logged' \in BOOLEAN /\ asked' \in BOOLEAN
  BY <1>1 DEF IInv, Typing
<1>11. k \in 1..Len(batch) + 1
  BY <1>2, <1>3
<1>. QED
  BY <1>1, <1>2, <1>3, <1>4, <1>5, <1>6, <1>7, <1>8, <1>9, <1>10, <1>11, DispatchInv
-----------------------------------------------------------------------------
(* Every state of the result of a rollback is that of an entry of its set, *)
(* or unchanged if there is none.                                          *)
LEMMA RollbackFacts ==
  ASSUME NEW states \in [Ids -> PktSetStates], NEW log \in Seq(LogEntries)
  PROVE  /\ Rollback(states, log) \in [Ids -> PktSetStates]
         /\ \A s \in Ids :
              \/ (\A i \in DOMAIN log : log[i].id # s) /\ Rollback(states, log)[s] = states[s]
              \/ \E i \in DOMAIN log : log[i].id = s /\ Rollback(states, log)[s] = log[i].state
<1>. DEFINE E(s) == {i \in DOMAIN log : log[i].id = s}
            R(s) == IF E(s) = {} THEN states[s] ELSE log[Max(E(s))].state
<1>1. Rollback(states, log) = [s \in Ids |-> R(s)]
  BY DEF Rollback
<1>2. ASSUME NEW s \in Ids
      PROVE  /\ R(s) \in PktSetStates
             /\ \/ (\A i \in DOMAIN log : log[i].id # s) /\ R(s) = states[s]
                \/ \E i \in DOMAIN log : log[i].id = s /\ R(s) = log[i].state
  <2>1. CASE E(s) = {}
    BY <2>1
  <2>2. CASE E(s) # {}
    <3>1. Len(log) \in Nat /\ E(s) \in SUBSET (0..Len(log))
      OBVIOUS
    <3>2. Max(E(s)) \in E(s)
      BY <2>2, <3>1, MaxIsGreatest
    <3>3. log[Max(E(s))] \in LogEntries
      BY <3>2, ElementOfSeq
    <3>. QED
      BY <2>2, <3>2, <3>3 DEF LogEntries
  <2>. QED
    BY <2>1, <2>2
<1>. HIDE DEF R
<1>. QED
  BY <1>1, <1>2

(* What a log has to say of the packet sets with one packet in the range. *)
KeepsSingles(log) ==
  \A s \in Ids : Single(s) =>
    /\ \A i \in DOMAIN log : log[i].id = s => log[i].state = before[s]
    /\ (\A i \in DOMAIN log : log[i].id # s) => pkt_set_state[s] = before[s]

(* The log with the entry for packet n. If the set of the packet has no    *)
(* other in the range then it has no earlier entry, so its state is still  *)
(* the one before the range.                                               *)
LEMMA LogOneFacts ==
  ASSUME IInv, pc = "range", n < end_n
  PROVE  LET log == LogOne(batch[n].id) IN
         /\ log \in Seq(LogEntries) /\ Len(log) = Len(txn) + 1 /\ DOMAIN log = 1..Len(txn) + 1
         /\ \A i \in 1..Len(txn) : log[i] = pkt_set_state_log[i]
         /\ log[Len(txn) + 1].id = batch[n].id
         /\ KeepsSingles(log)
         /\ batch[n].id \in Ids /\ n \in 1..Len(batch) /\ batch[n].parsed
         /\ Len(txn) \in Nat /\ DOMAIN txn = 1..Len(txn)
<1>. DEFINE id == batch[n].id
            e == [id |-> id, state |-> pkt_set_state[id]]
            log == LogOne(id)
<1>1. /\ n \in 1..Len(batch) /\ batch[n].parsed /\ batch \in Seq(Packets) /\ Len(batch) \in Nat
      /\ n \in Nat /\ start_n \in Nat /\ end_n \in Nat /\ start_n <= n
      /\ txn \in Seq(Runs) /\ Len(txn) \in Nat /\ DOMAIN txn = 1..Len(txn)
      /\ pkt_set_state_log \in Seq(LogEntries) /\ Len(pkt_set_state_log) = Len(txn)
  BY DEF IInv, Typing, Progress, InRange, Logged
<1>2. id \in Ids
  <2>1. batch[n] \in Packets
    BY <1>1
  <2>. QED
    BY <2>1 DEF Packets
<1>3. e \in LogEntries /\ e.id = id /\ e.state = pkt_set_state[id]
  BY <1>2 DEF LogEntries, IInv, Typing
<1>4. log = Append(pkt_set_state_log, e)
  BY DEF LogOne
<1>. HIDE DEF e, log, id
<1>5. /\ log \in Seq(LogEntries) /\ Len(log) = Len(txn) + 1 /\ DOMAIN log = 1..Len(txn) + 1
      /\ \A i \in 1..Len(txn) : log[i] = pkt_set_state_log[i]
      /\ log[Len(txn) + 1] = e
  BY <1>1, <1>3, <1>4
<1>6. ASSUME NEW s \in Ids, Single(s)
      PROVE  /\ \A i \in DOMAIN log : log[i].id = s => log[i].state = before[s]
             /\ (\A i \in DOMAIN log : log[i].id # s) => pkt_set_state[s] = before[s]
  <2>1. /\ \A i \in DOMAIN txn : pkt_set_state_log[i].id = s => pkt_set_state_log[i].state = before[s]
        /\ (\A i \in DOMAIN txn : pkt_set_state_log[i].id # s) => pkt_set_state[s] = before[s]
        /\ \A i \in DOMAIN txn : pkt_set_state_log[i].id = batch[txn[i].pkt].id
    BY <1>6 DEF IInv, Logged
  <2>2. ASSUME id = s, NEW i \in DOMAIN txn, pkt_set_state_log[i].id = s PROVE FALSE
    <3>1. /\ txn[i].pkt \in Nat /\ start_n <= txn[i].pkt /\ txn[i].pkt < n /\ batch[txn[i].pkt].parsed
      BY <1>1, RunOfSeq DEF IInv, Progress, Covers, Base, Top
    <3>2. txn[i].pkt \in RangeIds(s)
      BY <1>1, <2>1, <2>2, <3>1 DEF RangeIds
    <3>3. n \in RangeIds(s)
      BY <1>1, <2>2 DEF RangeIds, id
    <3>. QED
      BY <1>1, <1>6, <3>1, <3>2, <3>3 DEF Single
  <2>3. ASSUME NEW i \in DOMAIN log, log[i].id = s PROVE log[i].state = before[s]
    <3>1. CASE i \in DOMAIN txn
      BY <1>1, <1>5, <2>1, <2>3, <3>1
    <3>2. CASE i = Len(txn) + 1
      BY <1>3, <1>5, <2>1, <2>2, <2>3, <3>2
    <3>. QED
      BY <1>1, <1>5, <3>1, <3>2
  <2>4. (\A i \in DOMAIN log : log[i].id # s) => pkt_set_state[s] = before[s]
    BY <1>1, <1>5, <2>1
  <2>. QED
    BY <2>3, <2>4
<1>. QED
  BY <1>1, <1>2, <1>3, <1>5, <1>6 DEF KeepsSingles, log, id

(* A packet of a registered set is handled. *)
LEMMA RangeHandlerInv ==
  ASSUME IInv, NEW d \in Decisions, NEW v \in PktSetStates, RangeHandler(d, v)
  PROVE  IInv'
<1>. DEFINE k == NextParsed(batch, n)
            q == Ran("registered", d)
            id == batch[n].id
            log == LogOne(id)
<1>1. /\ pc = "range" /\ n < end_n /\ n' = k /\ txn' = q
      /\ pkt_set_state_log' = log /\ pkt_set_state' = [pkt_set_state EXCEPT ![id] = v]
      /\ UNCHANGED <<batch, start_n, end_n, before, registered, add_logged, asked, wanted, pc, done>>
  BY DEF RangeHandler, sets
<1>2. /\ log \in Seq(LogEntries) /\ Len(log) = Len(txn) + 1 /\ DOMAIN log = 1..Len(txn) + 1
      /\ \A i \in 1..Len(txn) : log[i] = pkt_set_state_log[i]
      /\ log[Len(txn) + 1].id = id
      /\ KeepsSingles(log)
      /\ id \in Ids /\ n \in 1..Len(batch) /\ batch[n].parsed
      /\ Len(txn) \in Nat /\ DOMAIN txn = 1..Len(txn)
  BY <1>1, LogOneFacts
<1>3. /\ k \in n + 1..Len(batch) + 1
      /\ k <= Len(batch) => batch[k].parsed
      /\ \A i \in 1..Len(batch) : n < i /\ i < k => ~batch[i].parsed
      /\ Covers(batch, q, Base, k)
  BY <1>1, <1>2, NextCovered
<1>4. /\ q \in Seq(Runs) /\ Len(q) = Len(txn) + 1 /\ DOMAIN q = 1..Len(txn) + 1
      /\ \A j \in 1..Len(txn) : q[j] = txn[j]
      /\ q[Len(txn) + 1].pkt = n /\ q[Len(txn) + 1].dst = d
  BY RanType DEF IInv
<1>. HIDE DEF k, q, log, id
<1>5. /\ dst_device' = d
      /\ dst_devices' \in Seq(Decisions) /\ Len(dst_devices') = Len(batch)
      /\ dst_devices'[n] = d
      /\ \A i \in 1..Len(batch) : i # n => dst_devices'[i] = dst_devices[i]
  <2>1. dst_device' = d
    BY DEF RangeHandler, Decide
  <2>. QED
    BY <1>2, <2>1, WriteDst DEF RangeHandler, IInv
<1>6. Typing'
  <2>1. pkt_set_state' \in [Ids -> PktSetStates]
    BY <1>1, <1>2 DEF IInv, Typing
  <2>. QED
    BY <1>1, <1>2, <1>3, <1>4, <1>5, <2>1 DEF IInv, Typing
<1>7. Progress'
  BY <1>1, <1>2, <1>3 DEF IInv, Typing, Progress, Base, Top
<1>8. Destinations'
  <2>1. Sent(done)'
    BY <1>1, <1>2, <1>5, RunOfSeq DEF IInv, Typing, Progress, Covers, Base, InRange, Destinations, Sent
  <2>2. Sent(txn)'
    <3>. SUFFICES ASSUME NEW j \in DOMAIN q, q[j].kind = "registered"
                  PROVE  dst_devices'[q[j].pkt] = q[j].dst
      BY <1>1 DEF Sent
    <3>1. CASE j \in DOMAIN txn
      BY <1>1, <1>2, <1>4, <1>5, <3>1, RunOfSeq
         DEF IInv, Typing, Progress, Covers, Top, Destinations, Sent
    <3>2. CASE j = Len(txn) + 1
      BY <1>4, <1>5, <3>2
    <3>. QED
      BY <1>2, <1>4, <3>1, <3>2
  <2>. QED
    BY <1>1, <1>2, <1>5, <2>1, <2>2 DEF IInv, Destinations
<1>9. InRange'
  BY <1>1, <1>2, <1>3 DEF IInv, Typing, InRange
<1>10. Registration'
  BY <1>1 DEF IInv, Registration
<1>11. Logged'
  <2>1. \A i \in DOMAIN q : log[i].id = batch[q[i].pkt].id
    <3>. TAKE i \in DOMAIN q
    <3>1. CASE i \in DOMAIN txn
      BY <1>1, <1>2, <1>4, <3>1 DEF IInv, Logged
    <3>2. CASE i = Len(txn) + 1
      BY <1>2, <1>4, <3>2 DEF id
    <3>. QED
      BY <1>2, <1>4, <3>1, <3>2
  <2>2. ASSUME NEW s \in Ids, Single(s)
        PROVE  /\ \A i \in DOMAIN q : log[i].id = s => log[i].state = before[s]
               /\ (\A i \in DOMAIN q : log[i].id # s) => pkt_set_state'[s] = before[s]
    <3>1. \A i \in DOMAIN log : log[i].id = s => log[i].state = before[s]
      BY <1>2, <2>2 DEF KeepsSingles
    <3>2. ASSUME \A i \in DOMAIN log : log[i].id # s PROVE pkt_set_state'[s] = before[s]
      <4>1. s # id
        BY <1>2, <3>2
      <4>2. pkt_set_state'[s] = pkt_set_state[s]
        BY <1>1, <4>1 DEF IInv, Typing
      <4>. QED
        BY <1>2, <2>2, <3>2, <4>2 DEF KeepsSingles
    <3>. QED
      BY <1>2, <1>4, <3>1, <3>2
  <2>3. \A s \in Ids : Single(s)' = Single(s)
    BY <1>1 DEF Single, RangeIds
  <2>. QED
    BY <1>1, <1>2, <1>4, <2>1, <2>2, <2>3 DEF Logged
<1>. QED
  BY <1>6, <1>7, <1>8, <1>9, <1>10, <1>11 DEF IInv

(* The range starts again after a rollback with a log that keeps the sets  *)
(* with a single packet.                                                   *)
LEMMA RangeRestartsInv ==
  ASSUME IInv, pc = "range", NEW log \in Seq(LogEntries), NEW d \in Decisions,
         KeepsSingles(log), RangeRestarts(log, d)
  PROVE  IInv'
<1>. DEFINE R == Rollback(pkt_set_state, log)
<1>1. /\ pkt_set_state' = R /\ pkt_set_state_log' = <<>> /\ n' = start_n /\ dst_device' = d /\ txn' = <<>>
      /\ UNCHANGED <<batch, dst_devices, start_n, end_n, before, registered, add_logged, asked, wanted, pc, done>>
  BY DEF RangeRestarts, sets
<1>2. /\ R \in [Ids -> PktSetStates]
      /\ \A s \in Ids : \/ (\A i \in DOMAIN log : log[i].id # s) /\ R[s] = pkt_set_state[s]
                        \/ \E i \in DOMAIN log : log[i].id = s /\ R[s] = log[i].state
  BY RollbackFacts DEF IInv, Typing
<1>. HIDE DEF R
<1>3. <<>> \in Seq(Runs) /\ <<>> \in Seq(LogEntries) /\ DOMAIN <<>> = {} /\ Len(<<>>) = 0
  OBVIOUS
<1>4. /\ start_n \in 1..Len(batch) + 1 /\ start_n <= Len(batch) /\ batch[start_n].parsed
      /\ batch \in Seq(Packets) /\ start_n < end_n /\ start_n \in Nat
  BY DEF IInv, Typing, InRange, Progress, Base
<1>5. Typing'
  BY <1>1, <1>2, <1>3, <1>4 DEF IInv, Typing
<1>6. Progress'
  <2>1. Covers(batch, <<>>, start_n, start_n)
    BY <1>4, CoversNothing
  <2>. QED
    BY <1>1, <1>4, <2>1 DEF IInv, Progress, Base, Top
<1>7. Destinations'
  BY <1>1, <1>3 DEF IInv, Destinations, Sent
<1>8. InRange'
  BY <1>1, <1>4 DEF IInv, Typing, InRange
<1>9. Registration'
  BY <1>1 DEF IInv, Registration
<1>10. Logged'
  <2>1. \A s \in Ids : Single(s) => R[s] = before[s]
    BY <1>2 DEF KeepsSingles
  <2>2. \A s \in Ids : Single(s)' = Single(s)
    BY <1>1 DEF Single, RangeIds
  <2>. QED
    BY <1>1, <1>3, <2>1, <2>2 DEF Logged
<1>. QED
  BY <1>5, <1>6, <1>7, <1>8, <1>9, <1>10 DEF IInv

(* A handler of the range aborts. *)
LEMMA RangeHandlerAbortsInv ==
  ASSUME IInv, NEW d \in Decisions, RangeHandlerAborts(d)
  PROVE  IInv'
  BY LogOneFacts, RangeRestartsInv DEF RangeHandlerAborts

(* The commit of the range fails. *)
LEMMA RangeCommitFailsInv ==
  ASSUME IInv, RangeCommitFails
  PROVE  IInv'
<1>1. /\ pkt_set_state_log \in Seq(LogEntries) /\ dst_device \in Decisions /\ pc = "range"
      /\ RangeRestarts(pkt_set_state_log, dst_device)
  BY DEF RangeCommitFails, IInv, Typing
<1>2. KeepsSingles(pkt_set_state_log)
  <2>1. DOMAIN pkt_set_state_log = DOMAIN txn
    BY <1>1 DEF IInv, Typing, Logged
  <2>. QED
    BY <1>1, <2>1 DEF IInv, Logged, KeepsSingles
<1>. QED
  BY <1>1, <1>2, RangeRestartsInv

(* The range is committed; the packet that ended it is of an unknown set. *)
LEMMA RangeCommitsInv ==
  ASSUME IInv, RangeCommits
  PROVE  IInv'
<1>. DEFINE q == done \o txn
<1>1. /\ pc = "range" /\ n >= end_n /\ done' = q /\ txn' = <<>>
      /\ \/ n > Len(batch) /\ pc' = "done" /\ UNCHANGED dst_device
         \/ n <= Len(batch) /\ pc' = "unknown" /\ dst_device' = Device
      /\ UNCHANGED <<batch, dst_devices, n, start_n, end_n, pkt_set_state_log, before,
                     pkt_set_state, registered, add_logged, asked, wanted>>
  BY DEF RangeCommits, range, sets, IInv, Typing
<1>2. /\ q \in Seq(Runs) /\ Covers(batch, q, 1, n)
      /\ \A j \in DOMAIN q : \/ \E i \in DOMAIN done : q[j] = done[i]
                             \/ \E i \in DOMAIN txn : q[j] = txn[i]
  BY <1>1, CommitRuns DEF Top
<1>. HIDE DEF q
<1>3. <<>> \in Seq(Runs) /\ DOMAIN <<>> = {}
  OBVIOUS
<1>4. /\ n = end_n /\ n \in 1..Len(batch) + 1 /\ Len(batch) \in Nat
      /\ n <= Len(batch) => batch[n].id \notin registered
  BY <1>1 DEF IInv, Typing, InRange
<1>5. Typing'
  <2>1. dst_device' \in Decisions
    BY <1>1 DEF IInv, Typing, Decisions
  <2>. QED
    BY <1>1, <1>2, <1>3, <2>1 DEF IInv, Typing
<1>6. Progress'
  <2>1. Covers(batch, <<>>, n, n)
    BY CoversNothing DEF IInv, Typing
  <2>. QED
    BY <1>1, <1>2, <1>4, <2>1 DEF IInv, Progress, Base, Top
<1>7. Destinations'
  BY <1>1, <1>2, <1>3 DEF IInv, Destinations, Sent
<1>8. InRange' /\ Registration' /\ Logged'
  BY <1>1, <1>4 DEF IInv, InRange, Registration, Logged
<1>. QED
  BY <1>5, <1>6, <1>7, <1>8 DEF IInv

(* process_pkt returns. *)
LEMMA ReturnInv ==
  ASSUME IInv, Return
  PROVE  IInv'
<1>1. /\ pc = "done" /\ pc' = "idle" /\ batch' = <<>> /\ dst_devices' = <<>>
      /\ n' = 1 /\ start_n' = 1 /\ end_n' = 1 /\ pkt_set_state_log' = <<>>
      /\ done' = <<>> /\ before' = pkt_set_state /\ asked' = FALSE
      /\ UNCHANGED <<dst_device, pkt_set_state, registered, add_logged, wanted, txn>>
  BY DEF Return
<1>2. /\ <<>> \in Seq(Packets) /\ <<>> \in Seq(Decisions) /\ <<>> \in Seq(LogEntries)
      /\ <<>> \in Seq(Runs) /\ DOMAIN <<>> = {} /\ Len(<<>>) = 0 /\ txn = <<>>
  BY <1>1 DEF IInv, Progress
<1>3. Typing'
  <2>1. asked' \in BOOLEAN
    BY <1>1
  <2>2. Len(batch') = 0 /\ Len(dst_devices') = 0
    BY <1>1, <1>2
  <2>3. n' \in 1..Len(batch') + 1
    BY <1>1, <2>2
  <2>. QED
    BY <1>1, <1>2, <2>1, <2>2, <2>3 DEF IInv, Typing
<1>4. Progress'
  <2>1. Covers(<<>>, <<>>, 1, 1)
    BY <1>2, CoversNothing
  <2>. QED
    BY <1>1, <1>2, <2>1 DEF Progress, Base, Top
<1>5. Destinations' /\ InRange' /\ Registration' /\ Logged'
  BY <1>1, <1>2 DEF IInv, Destinations, Sent, InRange, Registration, Logged
<1>. QED
  BY <1>3, <1>4, <1>5 DEF IInv
-----------------------------------------------------------------------------
(* Every step keeps the inductive invariant. *)
LEMMA Step ==
  ASSUME IInv, [Next]_vars
  PROVE  IInv'
<1>1. CASE \E l \in 1..MaxBatch : \E b \in [1..l -> Packets], h \in BOOLEAN : Receive(b, h)
  BY <1>1, ReceiveInv
<1>2. CASE \E s \in Ids : Expire(s)
  BY <1>2, ExpireInv
<1>3. ASSUME NEW d \in Decisions, OrphanHandler(d) PROVE IInv'
  BY <1>3, OrphanHandlerInv
<1>4. ASSUME NEW d \in Decisions, OrphanAborts(d) PROVE IInv'
  BY <1>4, OrphanAbortsInv
<1>5. ASSUME NEW d \in Decisions, NEW add \in BOOLEAN, UnknownHandler(d, add) PROVE IInv'
  BY <1>5, UnknownHandlerInv
<1>6. ASSUME NEW d \in Decisions, NEW add \in BOOLEAN, UnknownHandlerAborts(d, add) PROVE IInv'
  BY <1>6, UnknownHandlerAbortsInv
<1>7. ASSUME NEW d \in Decisions, NEW v \in PktSetStates, RangeHandler(d, v) PROVE IInv'
  BY <1>7, RangeHandlerInv
<1>8. ASSUME NEW d \in Decisions, RangeHandlerAborts(d) PROVE IInv'
  BY <1>8, RangeHandlerAbortsInv
<1>9. CASE OrphanCommits
  BY <1>9, OrphanCommitsInv
<1>10. CASE UnknownCommitFails
  BY <1>10, UnknownCommitFailsInv
<1>11. CASE \E v \in PktSetStates : UnknownCommits(v)
  BY <1>11, UnknownCommitsInv
<1>12. CASE RangeCommitFails
  BY <1>12, RangeCommitFailsInv
<1>13. CASE RangeCommits
  BY <1>13, RangeCommitsInv
<1>14. CASE Return
  BY <1>14, ReturnInv
<1>15. CASE UNCHANGED vars
  <2>1. UNCHANGED <<batch, dst_devices, dst_device, n, start_n, end_n, pkt_set_state_log, before,
                    pkt_set_state, registered, add_logged, asked, wanted, pc, txn, done>>
    BY <1>15 DEF vars, results, range, sets
  <2>2. Typing' /\ Progress' /\ Destinations'
    BY <2>1 DEF IInv, Typing, Progress, Base, Top, Destinations, Sent
  <2>3. InRange' /\ Registration' /\ Logged'
    BY <2>1 DEF IInv, InRange, Registration, Logged, Single, RangeIds
  <2>. QED
    BY <2>2, <2>3 DEF IInv
<1>. QED
  BY <1>1, <1>2, <1>3, <1>4, <1>5, <1>6, <1>7, <1>8, <1>9, <1>10, <1>11, <1>12, <1>13, <1>14, <1>15
     DEF Next, ProcessBurst

(* A set with at most one element. *)
LEMMA AtMostOne ==
  ASSUME NEW k \in Nat, NEW S \in SUBSET (0..k), Cardinality(S) <= 1, NEW i \in S, NEW j \in S
  PROVE  i = j
<1>1. IsFiniteSet(S)
  <2>1. IsFiniteSet(0..k)
    BY FS_Interval
  <2>. QED
    BY <2>1, FS_Subset
<1>. SUFFICES ASSUME i # j PROVE FALSE
  OBVIOUS
<1>2. IsFiniteSet({i}) /\ Cardinality({i}) = 1
  BY FS_Singleton
<1>3. IsFiniteSet({i} \cup {j}) /\ Cardinality({i} \cup {j}) = 2
  BY <1>2, FS_AddElement
<1>4. {i} \cup {j} \subseteq S
  OBVIOUS
<1>5. Cardinality({i} \cup {j}) <= Cardinality(S) /\ Cardinality(S) \in Nat
  BY <1>1, <1>4, FS_Subset, FS_CardinalityType
<1>. QED
  BY <1>3, <1>5

(* What the inductive invariant says of the results of a batch. *)
LEMMA Results ==
  ASSUME IInv
  PROVE  /\ EachPacketOnce /\ RegisteredSentAsDecided /\ HandlersMatchRegistration
         /\ OnlyCommittedSetsRegistered /\ SingleSetsRolledBack
<1>1. EachPacketOnce
  <2>. SUFFICES ASSUME pc = "done" PROVE EachPacketOnce
    BY DEF EachPacketOnce
  <2>1. Covers(batch, done, 1, Len(batch) + 1) /\ DOMAIN batch = 1..Len(batch) /\ Len(batch) \in Nat
    BY DEF IInv, Typing, Progress, Base
  <2>2. \A i \in DOMAIN batch :
          IF batch[i].parsed THEN \E j \in DOMAIN done : done[j].pkt = i
          ELSE dst_devices[i] = Device
    BY <2>1 DEF Covers, IInv, Destinations
  <2>. QED
    BY <2>1, <2>2 DEF EachPacketOnce, Covers
<1>2. RegisteredSentAsDecided
  BY DEF IInv, Destinations, Sent, RegisteredSentAsDecided
<1>3. HandlersMatchRegistration
  BY DEF IInv, InRange, Registration, HandlersMatchRegistration
<1>4. OnlyCommittedSetsRegistered
  BY DEF IInv, Registration, OnlyCommittedSetsRegistered
<1>5. SingleSetsRolledBack
  <2>. SUFFICES ASSUME pc = "range", pkt_set_state_log = <<>>, NEW s \in Ids,
                       Cardinality(RangeIds(s)) <= 1
                PROVE  pkt_set_state[s] = before[s]
    BY DEF SingleSetsRolledBack
  <2>1. end_n \in Nat /\ RangeIds(s) \in SUBSET (0..end_n)
    BY DEF IInv, Typing, RangeIds
  <2>2. Single(s)
    BY <2>1, AtMostOne DEF Single
  <2>3. DOMAIN txn = {}
    BY DEF IInv, Typing, Logged
  <2>. QED
    BY <2>2, <2>3 DEF IInv, Logged
<1>. QED
  BY <1>1, <1>2, <1>3, <1>4, <1>5

(* The inductive invariant holds in every state of process_pkt: committed  *)
(* runs cover the batch up to the transaction in progress.                 *)
THEOREM Invariance == Spec => []IInv
<1>1. Init => IInv
  BY Initial
<1>2. IInv /\ [Next]_vars => IInv'
  BY Step
<1>. QED
  BY <1>1, <1>2, PTL DEF Spec

(* process_pkt, however its transactions abort and whatever the handlers   *)
(* do: every packet that parses is handled in exactly one committed run,   *)
(* in the order of the batch, and one that does not parse is dropped.      *)
THEOREM PacketsHandledOnce == Spec => []EachPacketOnce
  BY Invariance, Results, PTL

(* What an aborted run of the handler of a registered set chose as a       *)
(* destination never shows.                                                *)
THEOREM RegisteredDestinations == Spec => []RegisteredSentAsDecided
  BY Invariance, Results, PTL

(* The lookups done before a range stay right until its handlers run. *)
THEOREM HandlersMatch == Spec => []HandlersMatchRegistration
  BY Invariance, Results, PTL

(* The log of add_pkt_set of an aborted run is never committed. *)
THEOREM CommittedSets == Spec => []OnlyCommittedSetsRegistered
  BY Invariance, Results, PTL

(* An aborted range leaves the state of a packet set with one packet in    *)
(* the range as it was.                                                    *)
THEOREM SinglesRolledBack == Spec => []SingleSetsRolledBack
  BY Invariance, Results, PTL
-----------------------------------------------------------------------------
(* mbuf i goes to dev. *)
For(i, dev) == i \in 1..Len(batch) /\ dst_devices[i] # Device /\ SendDevice(dst_devices[i]) = dev

Ascending(s) == \A i, j \in DOMAIN s : i < j => s[i] < s[j]
Different(s, t) == \A i \in DOMAIN s, j \in DOMAIN t : s[i] # t[j]

(* Mbufs in order, all for dev. *)
Queue(s, dev) == s \in Seq(Nat) /\ Ascending(s) /\ \A i \in DOMAIN s : For(s[i], dev)

Placed(i) ==
  \/ \E j \in DOMAIN freed : freed[j] = i
  \/ \E dev \in Devices : \E j \in DOMAIN mbufs_to_send[dev] : mbufs_to_send[dev][j] = i
  \/ \E dev \in Devices : \E j \in DOMAIN taken[dev] : taken[dev][j] = i

Released ==
  /\ pc = "done"
  /\ DOMAIN mbufs_to_send = Devices
  /\ freed \in Seq(Nat) 
  /\ \A i, j \in DOMAIN freed : freed[i] = freed[j] => i = j
  /\ \A dev \in Devices :
       /\ Queue(mbufs_to_send[dev], dev) /\ Queue(taken[dev], dev)
       /\ Different(freed, mbufs_to_send[dev]) /\ Different(freed, taken[dev])
       /\ mbufs_to_send[dev] = <<>> \/ taken[dev] = <<>>
  /\ \A i \in 1..Len(batch) : Placed(i)

(* The inductive invariant. *)
MainIInv ==
  /\ Len(batch) <= MaxBatch
  /\ DOMAIN taken = Devices
  /\ mbufs_to_send = NotSorted => freed = <<>> /\ \A dev \in Devices : taken[dev] = <<>>
  /\ mbufs_to_send # NotSorted => Released
-----------------------------------------------------------------------------
(* The main loop takes only the steps of process_pkt. *)
LEMMA MainStep ==
  ASSUME [MainNext]_<<vars, io>>
  PROVE  [Next]_vars
  BY DEF MainNext, SortMbufs, tx_burst, LoopEnd, Next, io

(* process_main around process_pkt is an implementation of process_pkt     *)
(* alone: every theorem about process_pkt holds of the main loop.         *)
THEOREM MainImplementsSpec == MainSpec => Spec
<1>1. MainInit => Init
  BY DEF MainInit
<1>2. [MainNext]_<<vars, io>> => [Next]_vars
  BY MainStep
<1>. QED
  BY <1>1, <1>2, PTL DEF MainSpec, Spec
-----------------------------------------------------------------------------
(* The loop that sorts the mbufs: what it has done after k of them. *)
Records == [freed : Seq(Nat), to_send : [Devices -> Seq(Nat)]]

SortedUpTo(r, k) ==
  /\ r \in Records
  /\ Ascending(r.freed)
  /\ \A j \in DOMAIN r.freed : r.freed[j] \in 1..k /\ dst_devices[r.freed[j]] = Device
  /\ \A dev \in Devices :
       /\ Queue(r.to_send[dev], dev)
       /\ \A j \in DOMAIN r.to_send[dev] : r.to_send[dev][j] <= k
  /\ \A i \in 1..k :
       \/ \E j \in DOMAIN r.freed : r.freed[j] = i
       \/ \E dev \in Devices : \E j \in DOMAIN r.to_send[dev] : r.to_send[dev][j] = i

(* A packet that is sent goes to a device, and not to the one it came      *)
(* from, also when it is flooded.                                          *)
LEMMA DevicesFacts ==
  /\ Device \in Devices /\ Device \in Int
  /\ \A d \in Outputs : SendDevice(d) \in Devices /\ SendDevice(d) # Device
<1>1. Device \in Devices /\ Device \in Int
  BY MainLoopAssumption DEF Devices
<1>2. ASSUME NEW d \in Outputs PROVE SendDevice(d) \in Devices /\ SendDevice(d) # Device
  <2>1. CASE d = FLOOD_PORT
    BY <1>1, <2>1, MainLoopAssumption DEF SendDevice, Devices
  <2>2. CASE d # FLOOD_PORT
    BY <2>2, MainLoopAssumption, DataPlaneAssumption DEF SendDevice
  <2>. QED
    BY <2>1, <2>2
<1>. QED
  BY <1>1, <1>2

(* A number above all others is appended to an ascending sequence. *)
LEMMA AppendAscending ==
  ASSUME NEW s \in Seq(Nat), Ascending(s), NEW k \in Nat, \A j \in DOMAIN s : s[j] < k
  PROVE  LET t == Append(s, k) IN
         /\ t \in Seq(Nat) /\ Ascending(t)
         /\ DOMAIN s = 1..Len(s) /\ Len(s) \in Nat /\ DOMAIN t = 1..Len(s) + 1
         /\ \A j \in DOMAIN s : t[j] = s[j]
         /\ t[Len(s) + 1] = k
<1>. DEFINE t == Append(s, k)
<1>1. /\ t \in Seq(Nat)
      /\ DOMAIN s = 1..Len(s) /\ Len(s) \in Nat /\ DOMAIN t = 1..Len(s) + 1
      /\ \A j \in DOMAIN s : t[j] = s[j] 
      /\ t[Len(s) + 1] = k
  OBVIOUS
<1>. HIDE DEF t
<1>2. ASSUME NEW i \in DOMAIN t, NEW j \in DOMAIN t, i < j PROVE t[i] < t[j]
  <2>1. i \in DOMAIN s
    BY <1>1, <1>2
  <2>2. CASE j \in DOMAIN s
    BY <1>1, <1>2, <2>1, <2>2 DEF Ascending
  <2>3. CASE j = Len(s) + 1
    BY <1>1, <2>1, <2>3
  <2>. QED
    BY <1>1, <2>2, <2>3
<1>. QED
  BY <1>1, <1>2 DEF Ascending, t

(* One iteration of the loop. *)
LEMMA SortOneUpTo ==
  ASSUME Typing, NEW k \in 1..Len(batch), NEW r, SortedUpTo(r, k - 1)
  PROVE  SortedUpTo(SortOne(r, k), k)
<1>. DEFINE q == SortOne(r, k)
<1>1. /\ r \in Records /\ r.freed \in Seq(Nat) /\ r.to_send \in [Devices -> Seq(Nat)]
      /\ k \in Nat
  BY DEF SortedUpTo, Records
<1>2. CASE dst_devices[k] = Device
  <2>. DEFINE s == r.freed
              t == Append(s, k)
  <2>1. q = [freed |-> t, to_send |-> r.to_send]
    BY <1>2 DEF SortOne
  <2>2. /\ t \in Seq(Nat) /\ Ascending(t)
        /\ DOMAIN s = 1..Len(s) /\ Len(s) \in Nat /\ DOMAIN t = 1..Len(s) + 1
        /\ \A j \in DOMAIN s : t[j] = s[j]
        /\ t[Len(s) + 1] = k
    BY <1>1, AppendAscending DEF SortedUpTo
  <2>3. q \in Records /\ q.freed = t /\ q.to_send = r.to_send
    BY <1>1, <2>1, <2>2 DEF Records
  <2>. HIDE DEF q, t
  <2>4. \A j \in DOMAIN t : t[j] \in 1..k /\ dst_devices[t[j]] = Device
    <3>. TAKE j \in DOMAIN t
    <3>1. CASE j \in DOMAIN s
      BY <2>2, <3>1 DEF SortedUpTo
    <3>2. CASE j = Len(s) + 1
      BY <1>2, <2>2, <3>2
    <3>. QED
      BY <2>2, <3>1, <3>2
  <2>5. \A dev \in Devices : /\ Queue(q.to_send[dev], dev)
                             /\ \A j \in DOMAIN q.to_send[dev] : q.to_send[dev][j] <= k
    BY <1>1, <2>3 DEF SortedUpTo, Queue
  <2>6. ASSUME NEW i \in 1..k
        PROVE  \/ \E j \in DOMAIN q.freed : q.freed[j] = i
               \/ \E dev \in Devices : \E j \in DOMAIN q.to_send[dev] : q.to_send[dev][j] = i
    <3>1. CASE i = k
      BY <2>2, <2>3, <3>1
    <3>2. CASE i \in 1..k - 1
      <4>1. CASE \E j \in DOMAIN s : s[j] = i
        BY <2>2, <2>3, <4>1
      <4>2. CASE \E dev \in Devices : \E j \in DOMAIN r.to_send[dev] : r.to_send[dev][j] = i
        BY <2>3, <4>2
      <4>. QED
        BY <3>2, <4>1, <4>2 DEF SortedUpTo
    <3>. QED
      BY <3>1, <3>2
  <2>. QED
    BY <2>2, <2>3, <2>4, <2>5, <2>6 DEF SortedUpTo, q
<1>3. CASE dst_devices[k] # Device
  <2>. DEFINE to == SendDevice(dst_devices[k])
              s == r.to_send[to]
              t == Append(s, k)
  <2>1. to \in Devices /\ For(k, to)
    <3>1. dst_devices[k] \in Decisions
      BY DEF Typing
    <3>. QED
      BY <1>3, <3>1, DevicesFacts DEF Decisions, For
  <2>2. q = [freed |-> r.freed, to_send |-> [r.to_send EXCEPT ![to] = t]]
    BY <1>3 DEF SortOne
  <2>3. s \in Seq(Nat) /\ Ascending(s) /\ \A j \in DOMAIN s : s[j] \in Nat /\ s[j] < k
    BY <1>1, <2>1, ElementOfSeq DEF SortedUpTo, Queue
  <2>. HIDE DEF to
  <2>4. /\ t \in Seq(Nat) /\ Ascending(t)
        /\ DOMAIN s = 1..Len(s) /\ Len(s) \in Nat /\ DOMAIN t = 1..Len(s) + 1
        /\ \A j \in DOMAIN s : t[j] = s[j]
        /\ t[Len(s) + 1] = k
    BY <1>1, <2>3, AppendAscending
  <2>. HIDE DEF t
  <2>5. /\ q \in Records /\ q.freed = r.freed /\ q.to_send[to] = t
        /\ \A dev \in Devices : dev # to => q.to_send[dev] = r.to_send[dev]
    BY <1>1, <2>1, <2>2, <2>4 DEF Records
  <2>. HIDE DEF q
  <2>6. \A j \in DOMAIN t : For(t[j], to) /\ t[j] <= k
    <3>. TAKE j \in DOMAIN t
    <3>1. CASE j \in DOMAIN s
      <4>1. For(s[j], to) /\ s[j] < k /\ s[j] \in Nat
        BY <2>1, <2>3, <3>1 DEF SortedUpTo, Queue
      <4>. QED
        BY <1>1, <2>4, <3>1, <4>1
    <3>2. CASE j = Len(s) + 1
      BY <1>1, <2>1, <2>4, <3>2
    <3>. QED
      BY <2>4, <3>1, <3>2
  <2>7. ASSUME NEW dev \in Devices
        PROVE  /\ Queue(q.to_send[dev], dev)
               /\ \A j \in DOMAIN q.to_send[dev] : q.to_send[dev][j] <= k
    <3>1. CASE dev = to
      BY <2>4, <2>5, <2>6, <3>1 DEF Queue
    <3>2. CASE dev # to
      BY <1>1, <2>5, <3>2, ElementOfSeq DEF SortedUpTo, Queue
    <3>. QED
      BY <3>1, <3>2
  <2>8. ASSUME NEW i \in 1..k
        PROVE  \/ \E j \in DOMAIN q.freed : q.freed[j] = i
               \/ \E dev \in Devices : \E j \in DOMAIN q.to_send[dev] : q.to_send[dev][j] = i
    <3>1. CASE i = k
      <4>1. Len(s) + 1 \in DOMAIN t /\ t[Len(s) + 1] = k
        BY <2>4
      <4>2. Len(s) + 1 \in DOMAIN q.to_send[to] /\ q.to_send[to][Len(s) + 1] = i
        BY <2>5, <3>1, <4>1
      <4>. QED
        BY <2>1, <4>2
    <3>2. CASE i \in 1..k - 1
      <4>1. CASE \E j \in DOMAIN r.freed : r.freed[j] = i
        BY <2>5, <4>1
      <4>2. ASSUME NEW dev \in Devices, NEW j \in DOMAIN r.to_send[dev], r.to_send[dev][j] = i
            PROVE  \E j_1 \in DOMAIN q.to_send[dev] : q.to_send[dev][j_1] = i
        <5>1. CASE dev = to
          <6>1. j \in DOMAIN s /\ s[j] = i
            BY <4>2, <5>1
          <6>2. j \in DOMAIN t /\ t[j] = i
            BY <2>4, <6>1
          <6>. QED
            BY <2>5, <5>1, <6>2
        <5>2. CASE dev # to
          BY <2>5, <4>2, <5>2
        <5>. QED
          BY <5>1, <5>2
      <4>. QED
        BY <3>2, <4>1, <4>2 DEF SortedUpTo
    <3>. QED
      BY <3>1, <3>2
  <2>9. \A j \in DOMAIN q.freed : q.freed[j] \in 1..k /\ dst_devices[q.freed[j]] = Device
    BY <1>1, <2>5 DEF SortedUpTo
  <2>. QED
    BY <2>5, <2>7, <2>8, <2>9 DEF SortedUpTo, q
<1>. QED
  BY <1>2, <1>3

(* The recursive function of the loop is what its equation says. *)
LEMMA SortedEquation ==
  ASSUME Typing
  PROVE  Sorted = [k \in 0..Len(batch) |->
                     IF k = 0 THEN [freed |-> <<>>, to_send |-> [dev \in Devices |-> <<>>]]
                     ELSE SortOne(Sorted[k - 1], k)]
<1>. DEFINE a == [freed |-> <<>>, to_send |-> [dev \in Devices |-> <<>>]]
            step == [k \in 1..Len(batch) |-> [r \in Records |-> SortOne(r, k)]]
            Eq(f) == f = [k \in 0..Len(batch) |-> IF k = 0 THEN a ELSE SortOne(f[k - 1], k)]
<1>1. a \in Records /\ Len(batch) \in Nat
  BY DEF Records, Typing
<1>2. ASSUME NEW k \in 1..Len(batch), NEW r \in Records PROVE SortOne(r, k) \in Records
  <2>1. dst_devices[k] \in Decisions /\ k \in Nat
    BY DEF Typing
  <2>2. r.freed \in Seq(Nat) /\ r.to_send \in [Devices -> Seq(Nat)]
    BY DEF Records
  <2>3. CASE dst_devices[k] = Device
    <3>1. Append(r.freed, k) \in Seq(Nat)
      BY <2>1, <2>2
    <3>. QED
      BY <2>2, <2>3, <3>1 DEF SortOne, Records
  <2>4. CASE dst_devices[k] # Device
    <3>. DEFINE to == SendDevice(dst_devices[k])
    <3>1. to \in Devices
      BY <2>1, <2>4, DevicesFacts DEF Decisions
    <3>. HIDE DEF to
    <3>2. Append(r.to_send[to], k) \in Seq(Nat)
      BY <2>1, <2>2, <3>1
    <3>3. [r.to_send EXCEPT ![to] = Append(r.to_send[to], k)] \in [Devices -> Seq(Nat)]
      BY <2>2, <3>1, <3>2
    <3>. QED
      BY <2>2, <2>4, <3>3 DEF SortOne, Records, to
  <2>. QED
    BY <2>3, <2>4
<1>3. step \in [1..Len(batch) -> [Records -> Records]]
  BY <1>2
<1>. HIDE DEF a
<1>4. PICK f \in [0..Len(batch) -> Records] :
        f[0] = a /\ \A i \in 1..Len(batch) : f[i] = step[i][f[i - 1]]
  <2>1. step \in Steps(Len(batch), Records)
    BY <1>3 DEF Steps
  <2>. HIDE DEF step
  <2>2. \E f : Computes(f, Len(batch), Records, a, step)
    BY <1>1, <2>1, Recursion
  <2>. QED
    BY <2>2 DEF Computes
<1>5. Eq(f)
  <2>1. ASSUME NEW i \in 1..Len(batch) PROVE f[i] = SortOne(f[i - 1], i)
    <3>1. i - 1 \in 0..Len(batch) /\ f[i - 1] \in Records
      BY <1>1
    <3>. QED
      BY <1>4, <3>1
  <2>. QED
    BY <1>1, <1>4, <2>1
<1>6. Sorted = CHOOSE g : Eq(g)
  BY DEF Sorted, a
<1>. HIDE DEF Eq
<1>7. Eq(Sorted)
  BY <1>5, <1>6
<1>. QED
  BY <1>7 DEF Eq, a

(* The whole loop, by induction over its iterations. *)
LEMMA SortedAll ==
  ASSUME Typing
  PROVE  SortedUpTo(Sorted[Len(batch)], Len(batch))
<1>. DEFINE N == Len(batch)
            T == {k \in 0..N : SortedUpTo(Sorted[k], k)}
<1>1. /\ N \in Nat
      /\ Sorted[0] = [freed |-> <<>>, to_send |-> [dev \in Devices |-> <<>>]]
      /\ \A k \in 1..N : Sorted[k] = SortOne(Sorted[k - 1], k)
  BY SortedEquation DEF Typing
<1>2. 0 \in T
  <2>1. /\ <<>> \in Seq(Nat) /\ DOMAIN <<>> = {}
    OBVIOUS
  <2>2. /\ Sorted[0] \in Records /\ Sorted[0].freed = <<>>
        /\ \A dev \in Devices : Sorted[0].to_send[dev] = <<>>
    BY <1>1, <2>1 DEF Records
  <2>3. Ascending(<<>>) /\ \A dev \in Devices : Queue(<<>>, dev)
    BY <2>1 DEF Ascending, Queue
  <2>4. \A i \in 1..0 : FALSE
    OBVIOUS
  <2>. HIDE DEF T
  <2>5. SortedUpTo(Sorted[0], 0)
    BY <2>1, <2>2, <2>3, <2>4, Zenon DEF SortedUpTo
  <2>. QED
    BY <1>1, <2>5 DEF T
<1>3. ASSUME NEW k \in 0..N - 1, k \in T PROVE k + 1 \in T
  <2>1. k + 1 \in 1..N /\ (k + 1) - 1 = k /\ k + 1 \in 0..N
    BY <1>1
  <2>2. Sorted[k + 1] = SortOne(Sorted[(k + 1) - 1], k + 1)
    BY <1>1, <2>1
  <2>3. SortedUpTo(Sorted[(k + 1) - 1], (k + 1) - 1)
    BY <1>3, <2>1
  <2>4. SortedUpTo(Sorted[k + 1], k + 1)
    BY <2>1, <2>2, <2>3, SortOneUpTo
  <2>. QED
    BY <2>1, <2>4
<1>4. \A k \in 0..N : k \in T
  <2>. HIDE DEF T
  <2>. QED
    BY <1>1, <1>2, <1>3, Induction
<1>. QED
  BY <1>1, <1>4
-----------------------------------------------------------------------------
(* The inductive invariant holds before the first burst. *)
LEMMA MainInitial == MainInit => MainIInv
<1>1. Len(<<>>) = 0
  OBVIOUS
<1>. QED
  BY <1>1, DataPlaneAssumption DEF MainInit, Init, MainIInv

(* Whether the mbufs are sorted shows, as there is a device. *)
LEMMA SortedShows ==
  ASSUME NEW f, DOMAIN f = Devices
  PROVE  f # NotSorted
<1>1. DOMAIN NotSorted = {}
  BY DEF NotSorted
<1>. QED
  BY <1>1, DevicesFacts

(* process_pkt does not run once the mbufs are sorted. *)
LEMMA ProcessBurstInv ==
  ASSUME IInv, MainIInv, ProcessBurst, UNCHANGED io
  PROVE  MainIInv'
<1>1. pc # "done"
  BY DEF ProcessBurst, Receive, Expire, OrphanHandler, OrphanAborts, UnknownHandler,
         UnknownHandlerAborts, RangeHandler, RangeHandlerAborts, OrphanCommits,
         UnknownCommitFails, UnknownCommits, RangeCommitFails, RangeCommits
<1>2. mbufs_to_send = NotSorted
  BY <1>1 DEF MainIInv, Released
<1>3. Len(batch') <= MaxBatch
  <2>1. CASE \E l \in 1..MaxBatch : \E b \in [1..l -> Packets], h \in BOOLEAN : Receive(b, h)
    <3>1. PICK l \in 1..MaxBatch : \E b \in [1..l -> Packets], h \in BOOLEAN : Receive(b, h)
      BY <2>1
    <3>2. PICK b \in [1..l -> Packets], h \in BOOLEAN : Receive(b, h)
      BY <3>1
    <3>3. batch' = b /\ Len(b) = l
      BY <3>2, DataPlaneAssumption DEF Receive
    <3>. QED
      BY <3>3, DataPlaneAssumption
  <2>2. CASE UNCHANGED batch
    BY <2>2 DEF MainIInv
  <2>. QED
    BY <2>1, <2>2 DEF ProcessBurst, Expire, OrphanHandler, OrphanAborts, UnknownHandler,
         UnknownHandlerAborts, RangeHandler, RangeHandlerAborts, RangeRestarts, OrphanCommits,
         UnknownCommitFails, UnknownCommits, RangeCommitFails, RangeCommits
<1>. QED
  BY <1>2, <1>3 DEF MainIInv, io

(* After the loop each mbuf is freed or waits for its device. *)
LEMMA SortMbufsInv ==
  ASSUME IInv, MainIInv, SortMbufs
  PROVE  MainIInv'
<1>. DEFINE r == Sorted[Len(batch)]
<1>1. /\ pc = "done" /\ mbufs_to_send = NotSorted
      /\ mbufs_to_send' = r.to_send /\ freed' = r.freed
      /\ UNCHANGED <<batch, dst_devices, pc, taken>>
  BY DEF SortMbufs, vars, results
<1>2. SortedUpTo(r, Len(batch)) /\ Len(batch) \in Nat
  BY SortedAll DEF IInv, Typing
<1>. HIDE DEF r
<1>3. r.freed \in Seq(Nat) /\ DOMAIN r.to_send = Devices
  BY <1>2 DEF SortedUpTo, Records
<1>4. \A dev \in Devices : taken[dev] = <<>> /\ taken'[dev] = <<>>
  BY <1>1 DEF MainIInv
<1>5. ASSUME NEW i \in DOMAIN r.freed, NEW j \in DOMAIN r.freed, r.freed[i] = r.freed[j] PROVE i = j
  <2>1. r.freed[i] \in Nat /\ r.freed[j] \in Nat /\ i \in Nat /\ j \in Nat
    BY <1>3, ElementOfSeq
  <2>. QED
    BY <1>2, <1>5, <2>1 DEF SortedUpTo, Ascending
<1>6. ASSUME NEW dev \in Devices
      PROVE  /\ Queue(mbufs_to_send[dev], dev)' /\ Queue(taken[dev], dev)'
             /\ Different(freed, mbufs_to_send[dev])' /\ Different(freed, taken[dev])'
  <2>1. DOMAIN <<>> = {} /\ <<>> \in Seq(Nat)
    OBVIOUS
  <2>2. Queue(taken[dev], dev)' /\ Different(freed, taken[dev])'
    BY <1>4, <2>1 DEF Queue, Ascending, Different
  <2>3. Queue(r.to_send[dev], dev)
    BY <1>2 DEF SortedUpTo
  <2>4. Queue(mbufs_to_send[dev], dev)'
    BY <1>1, <2>3 DEF Queue, For, Ascending
  <2>5. Different(r.freed, r.to_send[dev])
    BY <1>2, <2>3 DEF SortedUpTo, Queue, For, Different
  <2>6. Different(freed, mbufs_to_send[dev])'
    BY <1>1, <2>5 DEF Different
  <2>. QED
    BY <2>2, <2>4, <2>6
<1>7. ASSUME NEW i \in 1..Len(batch) PROVE Placed(i)'
  BY <1>1, <1>2 DEF SortedUpTo, Placed
<1>8. Released'
  <2>1. pc' = "done" /\ DOMAIN mbufs_to_send' = Devices /\ freed' \in Seq(Nat)
    BY <1>1, <1>3
  <2>2. \A i, j \in DOMAIN freed' : freed'[i] = freed'[j] => i = j
    BY <1>1, <1>5
  <2>. QED
    BY <1>1, <1>4, <1>6, <1>7, <2>1, <2>2 DEF Released
<1>9. mbufs_to_send' # NotSorted'
  BY <1>1, <1>3, SortedShows DEF NotSorted
<1>. QED
  BY <1>1, <1>8, <1>9 DEF MainIInv

(* The iteration ends. *)
LEMMA LoopEndInv ==
  ASSUME IInv, MainIInv, LoopEnd
  PROVE  MainIInv'
<1>1. Len(<<>>) = 0
  OBVIOUS
<1>. QED
  BY <1>1, DataPlaneAssumption DEF LoopEnd, Return, MainIInv

(* What a device takes of the mbufs q offered to it, and the rest. *)
LEMMA Split ==
  ASSUME NEW q \in Seq(Nat), NEW c \in 0..Len(q)
  PROVE  LET head == SubSeq(q, 1, c)
             rest == Rest(q, c)
         IN  /\ head \in Seq(Nat) /\ rest \in Seq(Nat)
             /\ DOMAIN head = 1..c /\ DOMAIN rest = 1..Len(q) - c
             /\ Len(rest) = Len(q) - c /\ Len(q) \in Nat /\ DOMAIN q = 1..Len(q)
             /\ \A i \in 1..c : head[i] = q[i]
             /\ \A i \in 1..Len(q) - c : rest[i] = q[c + i]
<1>1. Len(q) \in Nat /\ 1 \in 1..Len(q) + 1 /\ c \in 0..Len(q) /\ c + 1 \in 1..Len(q) + 1
  OBVIOUS
<1>2. /\ SubSeq(q, 1, c) \in Seq(Nat) /\ Len(SubSeq(q, 1, c)) = c
      /\ \A i \in 1..c : SubSeq(q, 1, c)[i] = q[i]
  BY <1>1
<1>3. /\ Rest(q, c) \in Seq(Nat) /\ Len(Rest(q, c)) = Len(q) - c
      /\ \A i \in 1..Len(q) - c : Rest(q, c)[i] = q[c + i]
  BY <1>1 DEF Rest
<1>. QED
  BY <1>1, <1>2, <1>3

(* A sequence of numbers after another. *)
LEMMA Join ==
  ASSUME NEW s \in Seq(Nat), NEW t \in Seq(Nat)
  PROVE  /\ s \o t \in Seq(Nat) /\ Len(s) \in Nat /\ Len(t) \in Nat
         /\ DOMAIN s = 1..Len(s) /\ DOMAIN (s \o t) = 1..Len(s) + Len(t)
         /\ \A i \in 1..Len(s) : (s \o t)[i] = s[i]
         /\ \A i \in 1..Len(t) : (s \o t)[Len(s) + i] = t[i]
  BY ConcatProperties

(* No number occurs twice in an ascending sequence. *)
LEMMA AscendingInjective ==
  ASSUME NEW s \in Seq(Nat), Ascending(s), NEW x \in DOMAIN s, NEW y \in DOMAIN s, s[x] = s[y]
  PROVE  x = y
<1>1. x \in Nat /\ y \in Nat /\ s[x] \in Nat /\ s[y] \in Nat
  BY ElementOfSeq
<1>2. ~(x < y) /\ ~(y < x)
  BY <1>1 DEF Ascending
<1>. QED
  BY <1>1, <1>2

(* g are the freed mbufs f and those of q after the first c. *)
FreedRest(g, f, q, c) ==
  /\ g \in Seq(Nat)
  /\ \A i \in DOMAIN g :
       \/ i \in DOMAIN f /\ g[i] = f[i]
       \/ \E k \in DOMAIN q : k > c /\ i = Len(f) + k - c /\ g[i] = q[k]
  /\ \A i \in DOMAIN f : i \in DOMAIN g /\ g[i] = f[i]
  /\ \A k \in DOMAIN q : k > c => \E i \in DOMAIN g : g[i] = q[k]

(* The mbufs freed are those freed before and those the device did not     *)
(* take.                                                                   *)
LEMMA FreeRest ==
  ASSUME NEW f \in Seq(Nat), NEW q \in Seq(Nat), NEW c \in 0..Len(q)
  PROVE  FreedRest(f \o Rest(q, c), f, q, c)
<1>. DEFINE rest == Rest(q, c)
            g == f \o Rest(q, c)
<1>1. /\ rest \in Seq(Nat) /\ DOMAIN rest = 1..Len(q) - c /\ Len(rest) = Len(q) - c
      /\ Len(q) \in Nat /\ DOMAIN q = 1..Len(q)
      /\ \A i \in 1..Len(q) - c : rest[i] = q[c + i]
      /\ c \in Nat /\ c <= Len(q) /\ Len(rest) \in Nat
  BY Split
<1>. HIDE DEF rest
<1>2. /\ g \in Seq(Nat) /\ Len(f) \in Nat
      /\ DOMAIN f = 1..Len(f) /\ DOMAIN g = 1..Len(f) + Len(rest)
      /\ \A i \in 1..Len(f) : g[i] = f[i]
      /\ \A i \in 1..Len(rest) : g[Len(f) + i] = rest[i]
  BY <1>1, Join DEF rest
<1>. HIDE DEF g
<1>3. ASSUME NEW k \in DOMAIN q, k > c
      PROVE  Len(f) + (k - c) \in DOMAIN g /\ g[Len(f) + (k - c)] = q[k]
  <2>. DEFINE m == k - c
  <2>1. m \in 1..Len(rest) /\ c + m = k
    BY <1>1, <1>3
  <2>. HIDE DEF m
  <2>2. rest[m] = q[k]
    BY <1>1, <2>1
  <2>3. g[Len(f) + m] = rest[m]
    BY <1>2, <2>1
  <2>4. Len(f) + m \in 1..Len(f) + Len(rest)
    <3>1. \A a, b \in Nat : \A x \in 1..b : a + x \in 1..a + b
      OBVIOUS
    <3>2. Len(f) \in Nat /\ Len(rest) \in Nat
      BY <1>1, <1>2
    <3>. QED
      BY <2>1, <3>1, <3>2
  <2>. QED
    BY <1>2, <2>2, <2>3, <2>4 DEF m
<1>4. ASSUME NEW i \in DOMAIN g, i \notin DOMAIN f
      PROVE  \E k \in DOMAIN q : k > c /\ i = Len(f) + k - c /\ g[i] = q[k]
  <2>. DEFINE k == c + i - Len(f)
  <2>1. i \in Nat /\ i > Len(f) /\ i <= Len(f) + (Len(q) - c)
    BY <1>1, <1>2, <1>4
  <2>2. k \in 1..Len(q) /\ k > c /\ i = Len(f) + k - c /\ i = Len(f) + (k - c)
    <3>1. \A a, b, x, y \in Nat : x <= b /\ y > a /\ y <= a + (b - x) =>
            LET z == x + y - a IN z \in 1..b /\ z > x /\ y = a + z - x /\ y = a + (z - x)
      OBVIOUS
    <3>2. Len(f) \in Nat /\ Len(q) \in Nat /\ c \in Nat /\ c <= Len(q)
      BY <1>1, <1>2
    <3>. QED
      BY <2>1, <3>1, <3>2
  <2>. HIDE DEF k
  <2>. QED
    BY <1>1, <1>3, <2>2
<1>5. \A i \in DOMAIN f : i \in DOMAIN g /\ g[i] = f[i]
  BY <1>1, <1>2
<1>6. \A k \in DOMAIN q : k > c => \E i \in DOMAIN g : g[i] = q[k]
  BY <1>3
<1>7. \A i \in DOMAIN g :
        \/ i \in DOMAIN f /\ g[i] = f[i]
        \/ \E k \in DOMAIN q : k > c /\ i = Len(f) + k - c /\ g[i] = q[k]
  BY <1>4, <1>5
<1>. QED
  BY <1>2, <1>5, <1>6, <1>7 DEF FreedRest, g

(* A device takes some mbufs and the rest are freed. *)
LEMMA TxBurstInv ==
  ASSUME IInv, MainIInv, NEW dev \in DOMAIN mbufs_to_send,
         NEW c \in 0..Len(mbufs_to_send[dev]), tx_burst(dev, c)
  PROVE  MainIInv'
<1>. DEFINE q == mbufs_to_send[dev]
            head == SubSeq(q, 1, c)
<1>1. Released /\ mbufs_to_send # NotSorted /\ DOMAIN taken = Devices
  BY DEF MainIInv, NotSorted
<1>2. /\ dev \in Devices /\ q # <<>>
      /\ taken' = [taken EXCEPT ![dev] = head]
      /\ freed' = freed \o Rest(q, c)
      /\ mbufs_to_send' = [mbufs_to_send EXCEPT ![dev] = <<>>]
      /\ UNCHANGED <<batch, dst_devices, pc>>
  BY <1>1 DEF tx_burst, vars, results, Released
<1>3. /\ q \in Seq(Nat) /\ Ascending(q) /\ \A i \in DOMAIN q : For(q[i], dev) /\ q[i] \in Nat
      /\ Different(freed, q) /\ freed \in Seq(Nat) /\ taken[dev] = <<>>
  <2>1. /\ Queue(q, dev) /\ Different(freed, q) /\ freed \in Seq(Nat) /\ taken[dev] = <<>>
    BY <1>1, <1>2 DEF Released
  <2>. QED
    BY <2>1, ElementOfSeq DEF Queue
<1>4. /\ head \in Seq(Nat) /\ DOMAIN head = 1..c /\ DOMAIN q = 1..Len(q) /\ Len(q) \in Nat
      /\ \A i \in 1..c : head[i] = q[i]
      /\ c \in 0..Len(q)
  BY <1>3, Split
<1>5. FreedRest(freed', freed, q, c)
  BY <1>2, <1>3, <1>4, FreeRest
<1>6. /\ freed' \in Seq(Nat) /\ DOMAIN freed = 1..Len(freed) /\ Len(freed) \in Nat
      /\ \A i \in DOMAIN freed : i \in DOMAIN freed' /\ freed'[i] = freed[i]
      /\ \A k \in DOMAIN q : k > c => \E i \in DOMAIN freed' : freed'[i] = q[k]
  BY <1>3, <1>5 DEF FreedRest
<1>7. \A i \in DOMAIN freed' :
        \/ i \in DOMAIN freed /\ freed'[i] = freed[i]
        \/ \E k \in DOMAIN q : k > c /\ i = Len(freed) + k - c /\ freed'[i] = q[k]
  BY <1>5 DEF FreedRest
<1>. HIDE DEF head, q
<1>8. ASSUME NEW i \in DOMAIN freed', NEW j \in DOMAIN freed', freed'[i] = freed'[j]
      PROVE  i = j
  <2>1. \A x \in DOMAIN freed, k \in DOMAIN q : freed[x] # q[k]
    BY <1>3 DEF Different
  <2>2. CASE i \in DOMAIN freed /\ freed'[i] = freed[i] /\ j \in DOMAIN freed /\ freed'[j] = freed[j]
    BY <1>1, <1>8, <2>2 DEF Released
  <2>3. ASSUME NEW k \in DOMAIN q, i = Len(freed) + k - c, freed'[i] = q[k],
               NEW m \in DOMAIN q, j = Len(freed) + m - c, freed'[j] = q[m]
        PROVE  i = j
    <3>1. k = m
      BY <1>3, <1>8, <2>3, AscendingInjective
    <3>. QED
      BY <2>3, <3>1
  <2>. QED
    BY <1>7, <1>8, <2>1, <2>2, <2>3
<1>9. /\ mbufs_to_send'[dev] = <<>> /\ taken'[dev] = head
      /\ \A d \in Devices : d # dev => mbufs_to_send'[d] = mbufs_to_send[d] /\ taken'[d] = taken[d]
      /\ DOMAIN mbufs_to_send' = Devices /\ DOMAIN taken' = Devices
  BY <1>1, <1>2 DEF Released
<1>10. ASSUME NEW d \in Devices
      PROVE  /\ Queue(mbufs_to_send[d], d)' /\ Queue(taken[d], d)'
             /\ Different(freed, mbufs_to_send[d])' /\ Different(freed, taken[d])'
             /\ mbufs_to_send'[d] = <<>> \/ taken'[d] = <<>>
  <2>1. CASE d = dev
    <3>1. DOMAIN <<>> = {} /\ <<>> \in Seq(Nat)
      OBVIOUS
    <3>2. Queue(mbufs_to_send[d], d)' /\ Different(freed, mbufs_to_send[d])'
      BY <1>9, <2>1, <3>1 DEF Queue, Ascending, Different
    <3>3. Queue(taken[d], d)'
      <4>1. Ascending(head)
        BY <1>3, <1>4 DEF Ascending
      <4>2. \A i \in DOMAIN head : For(head[i], dev)
        BY <1>3, <1>4
      <4>. QED
        BY <1>2, <1>4, <1>9, <2>1, <4>1, <4>2 DEF Queue, Ascending, For
    <3>4. ASSUME NEW i \in DOMAIN freed', NEW j \in DOMAIN head PROVE freed'[i] # head[j]
      <4>1. j \in DOMAIN q /\ head[j] = q[j] /\ j <= c
        BY <1>4
      <4>2. CASE i \in DOMAIN freed /\ freed'[i] = freed[i]
        BY <1>3, <4>1, <4>2 DEF Different
      <4>3. ASSUME NEW k \in DOMAIN q, k > c, freed'[i] = q[k] PROVE freed'[i] # head[j]
        <5>1. k # j
          BY <1>4, <4>1, <4>3
        <5>. QED
          BY <1>3, <4>1, <4>3, <5>1, AscendingInjective
      <4>. QED
        BY <1>7, <4>2, <4>3
    <3>5. Different(freed, taken[d])'
      BY <1>9, <2>1, <3>4 DEF Different
    <3>. QED
      BY <1>9, <2>1, <3>2, <3>3, <3>5
  <2>2. CASE d # dev
    <3>1. /\ Queue(mbufs_to_send[d], d) /\ Queue(taken[d], d)
          /\ Different(freed, mbufs_to_send[d]) /\ Different(freed, taken[d])
          /\ mbufs_to_send[d] = <<>> \/ taken[d] = <<>>
      BY <1>1 DEF Released
    <3>2. Queue(mbufs_to_send[d], d)' /\ Queue(taken[d], d)'
      BY <1>2, <1>9, <2>2, <3>1 DEF Queue, Ascending, For
    <3>3. ASSUME NEW x \in Nat, For(x, d), NEW i \in DOMAIN q PROVE q[i] # x
      BY <1>3, <2>2, <3>3 DEF For
    <3>4. Different(freed, mbufs_to_send[d])'
      <4>. SUFFICES ASSUME NEW i \in DOMAIN freed', NEW j \in DOMAIN mbufs_to_send[d]
                    PROVE  freed'[i] # mbufs_to_send[d][j]
        BY <1>9, <2>2 DEF Different
      <4>1. For(mbufs_to_send[d][j], d) /\ mbufs_to_send[d][j] \in Nat
        BY <3>1, ElementOfSeq DEF Queue
      <4>. QED
        BY <1>7, <3>1, <3>3, <4>1 DEF Different
    <3>5. Different(freed, taken[d])'
      <4>. SUFFICES ASSUME NEW i \in DOMAIN freed', NEW j \in DOMAIN taken[d]
                    PROVE  freed'[i] # taken[d][j]
        BY <1>9, <2>2 DEF Different
      <4>1. For(taken[d][j], d) /\ taken[d][j] \in Nat
        BY <3>1, ElementOfSeq DEF Queue
      <4>. QED
        BY <1>7, <3>1, <3>3, <4>1 DEF Different
    <3>. QED
      BY <1>9, <2>2, <3>1, <3>2, <3>4, <3>5
  <2>. QED
    BY <2>1, <2>2
<1>11. ASSUME NEW i \in 1..Len(batch) PROVE Placed(i)'
  <2>1. Placed(i)
    BY <1>1 DEF Released
  <2>2. CASE \E j \in DOMAIN freed : freed[j] = i
    BY <1>6, <2>2 DEF Placed
  <2>3. ASSUME NEW j \in DOMAIN q, q[j] = i PROVE Placed(i)'
    <3>1. CASE j <= c
      <4>1. j \in DOMAIN taken'[dev] /\ taken'[dev][j] = i
        BY <1>4, <1>9, <2>3, <3>1
      <4>. QED
        BY <1>2, <4>1 DEF Placed
    <3>2. CASE j > c
      BY <1>6, <2>3, <3>2 DEF Placed
    <3>. QED
      BY <1>4, <3>1, <3>2
  <2>4. ASSUME NEW d \in Devices, d # dev, NEW j \in DOMAIN mbufs_to_send[d], mbufs_to_send[d][j] = i
        PROVE  Placed(i)'
    BY <1>9, <2>4 DEF Placed
  <2>5. ASSUME NEW d \in Devices, NEW j \in DOMAIN taken[d], taken[d][j] = i PROVE Placed(i)'
    <3>1. d # dev
      BY <1>3, <2>5
    <3>. QED
      BY <1>9, <2>5, <3>1 DEF Placed
  <2>. QED
    BY <2>1, <2>2, <2>3, <2>4, <2>5 DEF Placed, q
<1>12. Released'
  BY <1>1, <1>2, <1>6, <1>8, <1>9, <1>10, <1>11 DEF Released
<1>13. mbufs_to_send' # NotSorted'
  BY <1>9, SortedShows DEF NotSorted
<1>. QED
  BY <1>2, <1>9, <1>12, <1>13 DEF MainIInv
-----------------------------------------------------------------------------
(* Every step of the main loop keeps the inductive invariant. *)
LEMMA MainStepInv ==
  ASSUME IInv, MainIInv, [MainNext]_<<vars, io>>
  PROVE  MainIInv'
<1>1. CASE ProcessBurst /\ UNCHANGED io
  BY <1>1, ProcessBurstInv
<1>2. CASE SortMbufs
  BY <1>2, SortMbufsInv
<1>3. ASSUME NEW dev \in DOMAIN mbufs_to_send, NEW c \in 0..Len(mbufs_to_send[dev]), tx_burst(dev, c)
      PROVE  MainIInv'
  BY <1>3, TxBurstInv
<1>4. CASE LoopEnd
  BY <1>4, LoopEndInv
<1>5. CASE UNCHANGED <<vars, io>>
  BY <1>5 DEF MainIInv, Released, Queue, Ascending, Different, For, Placed, NotSorted, vars, results, io
<1>. QED
  BY <1>1, <1>2, <1>3, <1>4, <1>5 DEF MainNext

(* The inductive invariant holds in every state of process_main: each mbuf *)
(* of the burst is in one place.                                           *)
THEOREM MainInvariance == MainSpec => [](IInv /\ MainIInv)
<1>1. MainInit => IInv /\ MainIInv
  BY Initial, MainInitial DEF MainInit
<1>2. IInv /\ MainIInv /\ [MainNext]_<<vars, io>> => (IInv /\ MainIInv)'
  BY MainStep, Step, MainStepInv
<1>. QED
  BY <1>1, <1>2, PTL DEF MainSpec

(* An ascending sequence of numbers from 1 to k has at most k of them. *)
LEMMA AscendingShort ==
  ASSUME NEW k \in Nat, NEW s \in Seq(Nat), Ascending(s), \A i \in DOMAIN s : s[i] \in 1..k
  PROVE  Len(s) <= k
<1>. DEFINE T == {i \in 0..Len(s) : i >= 1 => s[i] >= i}
<1>1. Len(s) \in Nat /\ DOMAIN s = 1..Len(s) /\ \A i \in 1..Len(s) : s[i] \in Nat
  BY ElementOfSeq
<1>2. 0 \in T
  BY <1>1
<1>3. ASSUME NEW i \in 0..Len(s) - 1, i \in T PROVE i + 1 \in T
  <2>1. i + 1 \in 1..Len(s) /\ s[i + 1] \in Nat /\ s[i + 1] \in 1..k
    BY <1>1
  <2>2. CASE i = 0
    BY <1>1, <2>1, <2>2
  <2>3. CASE i >= 1
    <3>1. i \in 1..Len(s) /\ s[i] \in Nat /\ s[i] >= i
      BY <1>1, <1>3, <2>3
    <3>2. i \in DOMAIN s /\ i + 1 \in DOMAIN s /\ i < i + 1
      BY <1>1, <2>1, <3>1
    <3>3. s[i] < s[i + 1]
      BY <3>2 DEF Ascending
    <3>. QED
      BY <1>1, <2>1, <3>1, <3>3
  <2>. QED
    BY <2>2, <2>3
<1>4. \A i \in 0..Len(s) : i \in T
  <2>. HIDE DEF T
  <2>. QED
    BY <1>1, <1>2, <1>3, Induction
<1>5. CASE Len(s) = 0
  BY <1>5
<1>6. CASE Len(s) >= 1
  <2>1. Len(s) \in 1..Len(s) /\ s[Len(s)] >= Len(s) /\ s[Len(s)] \in 1..k
    BY <1>1, <1>4, <1>6
  <2>. QED
    BY <1>1, <2>1
<1>. QED
  BY <1>1, <1>5, <1>6

(* In one place and no longer waiting: freed once, or taken once. *)
LEMMA ReleasedOnce ==
  ASSUME IInv, MainIInv
  PROVE  MbufsReleasedOnce
<1>. SUFFICES ASSUME AllOffered, NEW i \in 1..Len(batch)
              PROVE  Cardinality({j \in DOMAIN freed : freed[j] = i})
                       + Cardinality({p \in Devices \X (1..MaxBatch) :
                                        p[2] \in DOMAIN taken[p[1]] /\ taken[p[1]][p[2]] = i}) = 1
  BY DEF MbufsReleasedOnce
<1>. DEFINE F == {j \in DOMAIN freed : freed[j] = i}
            K == {p \in Devices \X (1..MaxBatch) :
                    p[2] \in DOMAIN taken[p[1]] /\ taken[p[1]][p[2]] = i}
<1>1. Released /\ \A dev \in Devices : mbufs_to_send[dev] = <<>>
  BY DEF AllOffered, MainIInv
<1>2. Len(batch) \in Nat /\ Len(batch) <= MaxBatch /\ MaxBatch \in Nat
  BY DataPlaneAssumption DEF MainIInv, IInv, Typing
<1>3. ASSUME NEW dev \in Devices, NEW j \in DOMAIN taken[dev]
      PROVE  j \in 1..MaxBatch /\ For(taken[dev][j], dev) /\ taken[dev] \in Seq(Nat)
  <2>1. Queue(taken[dev], dev)
    BY <1>1 DEF Released
  <2>2. /\ taken[dev] \in Seq(Nat) /\ Ascending(taken[dev])
        /\ \A x \in DOMAIN taken[dev] : taken[dev][x] \in 1..Len(batch)
    BY <2>1 DEF Queue, For
  <2>3. Len(taken[dev]) <= Len(batch)
    BY <1>2, <2>2, AscendingShort
  <2>4. j \in 1..Len(taken[dev]) /\ Len(taken[dev]) \in Nat
    BY <2>2
  <2>. QED
    BY <1>2, <2>1, <2>2, <2>3, <2>4 DEF Queue
<1>4. Cardinality({}) = 0
  BY FS_EmptySet
<1>5. ASSUME NEW j \in DOMAIN freed, freed[j] = i
      PROVE  Cardinality(F) + Cardinality(K) = 1
  <2>1. F = {j}
    BY <1>1, <1>5 DEF Released
  <2>2. K = {}
    BY <1>1, <1>5 DEF Released, Different
  <2>3. Cardinality({j}) = 1
    BY FS_Singleton
  <2>. HIDE DEF F, K
  <2>. QED
    BY <1>4, <2>1, <2>2, <2>3
<1>6. ASSUME NEW dev \in Devices, NEW j \in DOMAIN taken[dev], taken[dev][j] = i
      PROVE  Cardinality(F) + Cardinality(K) = 1
  <2>1. F = {}
    BY <1>1, <1>6 DEF Released, Different
  <2>2. <<dev, j>> \in K
    BY <1>3, <1>6
  <2>3. ASSUME NEW p \in K PROVE p = <<dev, j>>
    <3>1. /\ p[1] \in Devices /\ p[2] \in DOMAIN taken[p[1]] /\ taken[p[1]][p[2]] = i
          /\ p = <<p[1], p[2]>>
      OBVIOUS
    <3>2. p[1] = dev
      BY <1>3, <1>6, <3>1 DEF For
    <3>3. p[2] = j
      <4>1. taken[dev] \in Seq(Nat) /\ Ascending(taken[dev])
        BY <1>1 DEF Released, Queue
      <4>. QED
        BY <1>6, <3>1, <3>2, <4>1, AscendingInjective
    <3>. QED
      BY <3>1, <3>2, <3>3
  <2>4. K = {<<dev, j>>}
    BY <2>2, <2>3
  <2>5. Cardinality({<<dev, j>>}) = 1
    BY FS_Singleton
  <2>. HIDE DEF F, K
  <2>. QED
    BY <1>4, <2>1, <2>4, <2>5
<1>7. Placed(i) /\ DOMAIN <<>> = {}
  BY <1>1 DEF Released
<1>. QED
  BY <1>1, <1>5, <1>6, <1>7 DEF Placed

(* What a device took was sent there by a committed run. *)
LEMMA InOrder ==
  ASSUME IInv, MainIInv
  PROVE  LeavesInOrder
<1>. SUFFICES ASSUME NEW dev \in Devices
              PROVE  /\ \A i, j \in DOMAIN taken[dev] : i < j => taken[dev][i] < taken[dev][j]
                     /\ \A i \in DOMAIN taken[dev] :
                          /\ dev # Device
                          /\ \E r \in ToSet(done) :
                               r.pkt = taken[dev][i] /\ (r.kind = "registered" => SendDevice(r.dst) = dev)
  BY DEF LeavesInOrder
<1>1. CASE taken[dev] = <<>>
  <2>1. DOMAIN <<>> = {}
    OBVIOUS
  <2>. QED
    BY <1>1, <2>1
<1>2. CASE taken[dev] # <<>>
  <2>1. Released
    BY <1>2 DEF MainIInv
  <2>2. pc = "done" /\ Ascending(taken[dev]) /\ \A i \in DOMAIN taken[dev] : For(taken[dev][i], dev)
    BY <2>1 DEF Released, Queue
  <2>3. ASSUME NEW i \in DOMAIN taken[dev]
        PROVE  /\ dev # Device
               /\ \E r \in ToSet(done) :
                    r.pkt = taken[dev][i] /\ (r.kind = "registered" => SendDevice(r.dst) = dev)
    <3>. DEFINE x == taken[dev][i]
    <3>1. /\ x \in 1..Len(batch) /\ x \in DOMAIN batch /\ dst_devices[x] # Device
          /\ SendDevice(dst_devices[x]) = dev /\ dst_devices[x] \in Decisions
      BY <2>2 DEF For, IInv, Typing
    <3>. HIDE DEF x
    <3>2. dev # Device
      BY <3>1, DevicesFacts DEF Decisions
    <3>3. EachPacketOnce /\ RegisteredSentAsDecided
      BY Results
    <3>4. PICK j \in DOMAIN done : done[j].pkt = x
      BY <2>2, <3>1, <3>3 DEF EachPacketOnce
    <3>5. done[j].kind = "registered" => SendDevice(done[j].dst) = dev
      BY <2>2, <3>1, <3>3, <3>4 DEF RegisteredSentAsDecided
    <3>6. done[j] \in ToSet(done)
      BY <3>4 DEF ToSet
    <3>. QED
      BY <3>2, <3>4, <3>5, <3>6 DEF x
  <2>. QED
    BY <2>2, <2>3 DEF Ascending
<1>. QED
  BY <1>1, <1>2

(* process_main never leaks an mbuf, frees one twice or frees one that a   *)
(* device has taken, whatever the devices take.                            *)
THEOREM MbufsReleased == MainSpec => []MbufsReleasedOnce
  BY MainInvariance, ReleasedOnce, PTL

(* process_main sends the packets of a device in the order of their        *)
(* arrival, each after a committed run of a handler, and none back to      *)
(* where it came from.                                                     *)
THEOREM PacketsLeaveInOrder == MainSpec => []LeavesInOrder
  BY MainInvariance, InOrder, PTL
=============================================================================
