----------------------------- MODULE NatsProofs -----------------------------
(***************************************************************************)
(* The sessions of the NATs, for any number of cores, external tuples,     *)
(* endpoints and keys: no external tuple serves two endpoints of one       *)
(* protocol, the session map and the session vector say the same of every  *)
(* session (TableSound), and the source of a packet that leaves names      *)
(* exactly the endpoint that its header named when its committed run began *)
(* (TranslationFaithful).                                                  *)
(*                                                                         *)
(* The two allocators of external tuples are instances of NfosDoubleChain, *)
(* and the lemmas on them and on the maps come from TransactionalProofs by *)
(* instantiation: an allocation takes a free index and no other changes,   *)
(* nfos_map_put keeps a map sound, and nfos_map_get finds exactly the keys *)
(* in a sound map.  TableInv says that the entries of the map              *)
(* and the allocated indexes of the two allocators belong to one another,  *)
(* one to one; it survives a handler because a handler either finds its    *)
(* key in the map and changes links and times only, or adds a key that is  *)
(* not in the map together with an index that was free.  A handler whose   *)
(* commit fails changes nothing but the packet.                            *)
(*                                                                         *)
(* ei-nat also keeps its lists: the sessions of a LAN host are on one      *)
(* list, once each, linked in both directions and counted (UserLists), in  *)
(* the order of last use up to the difference between the clocks of the    *)
(* cores (RecentFirst).  UserInv labels every session with a rank, in the  *)
(* sense of ListFacts: the list of a user goes through the sessions whose  *)
(* user_index it is in the order of their ranks, and of two of them the    *)
(* first was used at most MaxLag before the second.  A session that joins  *)
(* or moves to the head gets the least rank and a time within MaxLag of    *)
(* the latest; the heads are the cells of user_data, so that a link set on *)
(* one list leaves the others alone.  While a session is being opened its  *)
(* user may have an empty list, which is why UserInv names the sessions    *)
(* that are on lists and one user that may have none.                      *)
(***************************************************************************)
EXTENDS Nats, ListFacts
(* The two allocators of external tuples: what TransactionalProofs says    *)
(* of them.                                                                *)
TP == INSTANCE TransactionalProofs WITH Size <- num_avail_ext_tuples

(* There are tuples. *)
LEMMA TupleCount ==
  port_space_size \in Nat \ {0} /\ num_avail_ext_tuples \in Nat \ {0} /\ NUM_EXTERNAL_ADDRS \in Nat \ {0}
<1>1. port_space_size \in Nat \ {0} /\ NUM_EXTERNAL_ADDRS \in Nat \ {0}
  BY NatsAssumption DEF port_space_size
<1>2. \A a, b \in Nat \ {0} : a * b \in Nat \ {0}
  OBVIOUS
<1>. QED
  BY <1>1, <1>2 DEF num_avail_ext_tuples

(* The assumption of the allocator holds. *)
LEMMA TupleChains == TP!DoubleChainAssumption /\ TP!NfosMapAssumption
  BY TupleCount, NatsAssumption, NfosMapAssumption DEF TP!DoubleChainAssumption, TP!NfosMapAssumption

(* The operators of the allocator, with this number of indexes. *)
LEMMA SameAllocator ==
  /\ TP!nfos_dchain_allocate = Tuples!nfos_dchain_allocate
  /\ \A d, c : TP!nfos_dchain_allocate_new_index(d, c) = Tuples!nfos_dchain_allocate_new_index(d, c)
  /\ \A d : TP!ChainSound(d) <=> Tuples!ChainSound(d)
  /\ \A d, i : TP!IsAllocated(d, i) <=> Tuples!IsAllocated(d, i)
  /\ TP!Cores = Cores /\ TP!Indexes = 0..num_avail_ext_tuples - 1 /\ TP!NoIndex = NoIndex
<1>1. TP!nfos_dchain_allocate = Tuples!nfos_dchain_allocate
  BY DEF TP!nfos_dchain_allocate, Tuples!nfos_dchain_allocate, TP!Cells, Tuples!Cells,
         TP!INDEX_SHIFT, Tuples!INDEX_SHIFT, TP!InitLink, Tuples!InitLink,
         TP!GLOBAL_FREE_LIST_HEAD, Tuples!GLOBAL_FREE_LIST_HEAD, TP!FREE_LIST_HEAD, Tuples!FREE_LIST_HEAD
<1>2. ASSUME NEW d, NEW c
      PROVE  TP!nfos_dchain_allocate_new_index(d, c) = Tuples!nfos_dchain_allocate_new_index(d, c)
  BY DEF TP!nfos_dchain_allocate_new_index, Tuples!nfos_dchain_allocate_new_index,
         TP!INDEX_SHIFT, Tuples!INDEX_SHIFT, TP!GLOBAL_FREE_LIST_HEAD, Tuples!GLOBAL_FREE_LIST_HEAD,
         TP!FREE_LIST_HEAD, Tuples!FREE_LIST_HEAD, TP!ALLOC_LIST_HEAD, Tuples!ALLOC_LIST_HEAD,
         TP!Supply, Tuples!Supply, TP!IsEmpty, Tuples!IsEmpty, TP!Refill, Tuples!Refill,
         TP!Migrate, Tuples!Migrate, TP!Pop, Tuples!Pop, TP!Push, Tuples!Push, TP!PointTo, Tuples!PointTo,
         TP!AppendTo, Tuples!AppendTo, TP!NoIndex, Tuples!NoIndex, TP!With, Tuples!With
<1>3. ASSUME NEW d PROVE TP!ChainSound(d) <=> Tuples!ChainSound(d)
  BY DEF TP!ChainSound, Tuples!ChainSound, TP!ListOf, Tuples!ListOf, TP!INDEX_SHIFT, Tuples!INDEX_SHIFT,
         TP!GLOBAL_FREE_LIST_HEAD, Tuples!GLOBAL_FREE_LIST_HEAD, TP!ALLOC_LIST_HEAD, Tuples!ALLOC_LIST_HEAD,
         TP!Cores, Tuples!Cores, TP!Indexes, Tuples!Indexes, TP!ToSet, Tuples!ToSet,
         TP!Cardinality, Tuples!Cardinality, TP!IsFiniteSet, Tuples!IsFiniteSet
<1>4. ASSUME NEW d, NEW i PROVE TP!IsAllocated(d, i) <=> Tuples!IsAllocated(d, i)
  BY DEF TP!IsAllocated, Tuples!IsAllocated, TP!INDEX_SHIFT, Tuples!INDEX_SHIFT,
         TP!GLOBAL_FREE_LIST_HEAD, Tuples!GLOBAL_FREE_LIST_HEAD
<1>5. TP!Cores = Cores /\ TP!Indexes = 0..num_avail_ext_tuples - 1 /\ TP!NoIndex = NoIndex
  BY DEF TP!Cores, Cores, Tuples!Cores, TP!Indexes, TP!NoIndex, NoIndex, Tuples!NoIndex
<1>. QED
  BY <1>1, <1>2, <1>3, <1>4, <1>5

TupleChain(d) == TP!ChainInv(d)
TupleIds == 0..num_avail_ext_tuples - 1

(* A chain d2 in which index i is allocated that was free in d. *)
NewTuple(d, i, d2) ==
  /\ i \in TupleIds /\ TupleChain(d2) /\ ~Tuples!IsAllocated(d, i)
  /\ \A j \in TupleIds : Tuples!IsAllocated(d2, j) <=> j = i \/ Tuples!IsAllocated(d, j)

(* A new chain has no index allocated. *)
LEMMA FirstTuples ==
  /\ TupleChain(Tuples!nfos_dchain_allocate)
  /\ \A i \in TupleIds : ~Tuples!IsAllocated(Tuples!nfos_dchain_allocate, i)
<1>1. /\ TP!ChainInv(TP!nfos_dchain_allocate)
      /\ \A i \in TP!Indexes : ~TP!IsAllocated(TP!nfos_dchain_allocate, i)
  BY TupleChains, TP!NewChain
<1>. QED
  BY <1>1, SameAllocator DEF TupleChain, TupleIds

(* An allocation that succeeds. *)
LEMMA AllocateTuple ==
  ASSUME NEW d, TupleChain(d), NEW c \in Cores, NEW a, a = Tuples!nfos_dchain_allocate_new_index(d, c), a.index # NoIndex
  PROVE  NewTuple(d, a.index, a.chain)
<1>1. TP!Allocates(d, c, TP!nfos_dchain_allocate_new_index(d, c))
  BY SameAllocator, TupleChains, TP!AllocateNewIndex DEF TupleChain
<1>2. TP!Allocates(d, c, a)
  BY <1>1, SameAllocator
<1>. QED
  BY <1>2, SameAllocator DEF TP!Allocates, NewTuple, TupleChain, TupleIds

(* The chains are sound. *)
LEMMA TupleChainSound ==
  ASSUME NEW d, TupleChain(d)
  PROVE  Tuples!ChainSound(d)
<1>1. TP!ChainSound(d)
  BY TupleChains, TP!SoundIfLabelled DEF TupleChain
<1>. QED
  BY <1>1, SameAllocator
-----------------------------------------------------------------------------
(* The maps: their operators here and in the instance are the same.        *)
Keys == DOMAIN KHash

MapOf(m, n) == TP!MapOf(m, n)

NotIn(m, k) == \A x \in Busy(m) : m[x].key # k

(* What put of a new key adds to a map. *)
NewEntry(m, n, k, value, m2, c) ==
  /\ MapOf(m2, n) /\ MapSound(m2)
  /\ c \in 0..n - 1 /\ c \notin Busy(m) /\ Busy(m2) = Busy(m) \cup {c}
  /\ m2[c].key = k /\ m2[c].vals = value
  /\ \A x \in Busy(m) : m2[x].key = m[x].key /\ m2[x].vals = m[x].vals

(* The operators of the map. *)
LEMMA SameMap ==
  /\ TP!Keys = Keys /\ TP!FreeCell = FreeCell /\ TP!NoValue = NoValue
  /\ \A v : TP!next_pow2(v) = next_pow2(v)
  /\ \A m : TP!Busy(m) = Busy(m)
  /\ \A m, k : TP!nfos_map_get(m, k) = nfos_map_get(m, k)
  /\ \A m, k, value : TP!nfos_map_put(m, k, value) = nfos_map_put(m, k, value)
  /\ \A m : TP!MapSound(m) <=> MapSound(m)
<1>1. TP!Keys = Keys /\ TP!FreeCell = FreeCell /\ TP!NoValue = NoValue
  BY DEF TP!Keys, Keys, TP!FreeCell, FreeCell, TP!NoValue, NoValue
<1>2. ASSUME NEW v PROVE TP!next_pow2(v) = next_pow2(v)
  BY DEF TP!next_pow2, next_pow2, TP!Min, Min
<1>3. \A m : TP!Busy(m) = Busy(m)
  BY DEF TP!Busy, Busy
<1>4. \A m : TP!Capacity(m) = Capacity(m)
  BY DEF TP!Capacity, Capacity, TP!Cardinality, Cardinality, TP!IsFiniteSet, IsFiniteSet
<1>5. \A m, k, i : TP!Probe(m, k, i) = Probe(m, k, i)
  BY <1>4 DEF TP!Probe, Probe
<1>6. ASSUME NEW m, NEW k PROVE TP!Distance(m, k) = Distance(m, k)
  BY DEF TP!Distance, Distance, TP!Min, Min, TP!With, With, TP!Holds, Holds, TP!EndOfChain, EndOfChain, TP!SameHash, SameHash,
         TP!Probe, Probe, TP!Capacity, Capacity, TP!Cardinality, Cardinality, TP!IsFiniteSet, IsFiniteSet
<1>7. ASSUME NEW m, NEW k PROVE TP!nfos_map_get(m, k) = nfos_map_get(m, k)
  BY DEF TP!nfos_map_get, nfos_map_get, TP!Distance, Distance, TP!Min, Min, TP!With, With, TP!Holds, Holds, TP!EndOfChain, EndOfChain,
         TP!SameHash, SameHash, TP!Probe, Probe, TP!Capacity, Capacity, TP!Cardinality, Cardinality, TP!IsFiniteSet, IsFiniteSet,
         TP!NoValue, NoValue
<1>8. ASSUME NEW m, NEW k, NEW value PROVE TP!nfos_map_put(m, k, value) = nfos_map_put(m, k, value)
  BY DEF TP!nfos_map_put, nfos_map_put, TP!AddToChains, AddToChains, TP!Min, Min, TP!With, With,
         TP!Probe, Probe, TP!Capacity, Capacity, TP!Cardinality, Cardinality, TP!IsFiniteSet, IsFiniteSet
<1>9. ASSUME NEW m PROVE TP!MapSound(m) <=> MapSound(m)
  BY DEF TP!MapSound, MapSound, TP!Busy, Busy, TP!Distance, Distance, TP!Min, Min, TP!With, With, TP!Holds, Holds,
         TP!EndOfChain, EndOfChain, TP!SameHash, SameHash, TP!Probe, Probe, TP!Capacity, Capacity,
         TP!Cardinality, Cardinality, TP!IsFiniteSet, IsFiniteSet
<1>. QED
  BY <1>1, <1>2, <1>3, <1>7, <1>8, <1>9

(* The cells in use of a map. *)
LEMMA MapFacts ==
  ASSUME NEW m, NEW n, MapOf(m, n)
  PROVE  n \in Nat \ {0} /\ DOMAIN m = 0..n - 1 /\ IsFiniteSet(Busy(m)) /\ \A x \in Busy(m) : m[x].key \in Keys /\ m[x].vals \in Int
<1>1. n \in Nat \ {0} /\ DOMAIN m = 0..n - 1 /\ \A x \in Busy(m) : m[x].key \in Keys
  BY SameMap DEF MapOf, TP!MapOf
<1>2. \A x \in Busy(m) : m[x].vals \in Int
  BY DEF MapOf, TP!MapOf, TP!CellOf, Busy
<1>3. Busy(m) \subseteq 0..n - 1
  BY <1>1 DEF Busy
<1>4. IsFiniteSet(0..n - 1)
  BY <1>1, FS_Interval
<1>. QED
  BY <1>1, <1>2, <1>3, <1>4, FS_Subset

(* get finds the value of every key in the map ... *)
LEMMA GetFinds ==
  ASSUME NEW m, NEW n, MapOf(m, n), MapSound(m), NEW x \in Busy(m)
  PROVE  nfos_map_get(m, m[x].key) = m[x].vals
<1>1. TP!MapSound(m) /\ x \in TP!Busy(m)
  BY SameMap
<1>2. TP!nfos_map_get(m, m[x].key) = m[x].vals
  BY <1>1, TupleChains, TP!GetFinds DEF MapOf
<1>. QED
  BY <1>2, SameMap

(* ... and nothing else. *)
LEMMA GetMisses ==
  ASSUME NEW m, NEW n, MapOf(m, n), NEW k \in Keys, NotIn(m, k)
  PROVE  nfos_map_get(m, k) = NoValue
<1>1. k \in TP!Keys /\ TP!NotIn(m, k)
  BY SameMap DEF NotIn, TP!NotIn
<1>2. TP!nfos_map_get(m, k) = TP!NoValue
  BY <1>1, TupleChains, TP!GetMisses DEF MapOf
<1>. QED
  BY <1>2, SameMap

(* An empty map. *)
LEMMA EmptySound ==
  ASSUME NEW n \in Nat \ {0}, NEW m, m = [x \in 0..n - 1 |-> FreeCell]
  PROVE  MapOf(m, n) /\ MapSound(m) /\ Busy(m) = {}
<1>1. m = [x \in 0..n - 1 |-> TP!FreeCell]
  BY SameMap
<1>2. TP!MapOf(m, n) /\ TP!MapSound(m) /\ TP!Busy(m) = {}
  BY <1>1, TupleChains, TP!EmptySound
<1>. QED
  BY <1>2, SameMap DEF MapOf

(* put of a new key, when not all cells are busy. *)
LEMMA PutNew ==
  ASSUME NEW m, NEW n, MapOf(m, n), MapSound(m), NEW k \in Keys, NEW value \in Int, NotIn(m, k),
         \E x \in 0..n - 1 : x \notin Busy(m)
  PROVE  \E c : NewEntry(m, n, k, value, nfos_map_put(m, k, value), c)
<1>1. TP!MapSound(m) /\ k \in TP!Keys /\ TP!NotIn(m, k) /\ \E x \in 0..n - 1 : x \notin TP!Busy(m)
  BY SameMap DEF NotIn, TP!NotIn
<1>2. PICK c : TP!NewEntry(m, n, k, value, TP!nfos_map_put(m, k, value), c)
  BY <1>1, TupleChains, TP!PutNew DEF MapOf
<1>3. PICK m2 : m2 = nfos_map_put(m, k, value)
  OBVIOUS
<1>4. TP!NewEntry(m, n, k, value, m2, c)
  BY <1>2, <1>3, SameMap
<1>5. NewEntry(m, n, k, value, m2, c)
  BY <1>4, SameMap DEF TP!NewEntry, NewEntry, MapOf
<1>. QED
  BY <1>3, <1>5

(* The capacity of a map is at least what was asked for. *)
LEMMA NextPow2 ==
  ASSUME NEW v \in Nat
  PROVE  next_pow2(v) \in Nat \ {0} /\ next_pow2(v) >= v
<1>1. TP!next_pow2(v) \in Nat \ {0} /\ TP!next_pow2(v) >= v
  BY TupleChains, TP!NextPow2
<1>. QED
  BY <1>1, SameMap

-----------------------------------------------------------------------------
SessionIds == 0..2 * num_avail_ext_tuples - 1

(* nf_state and the elements of session_data are records of these fields.  *)
NatRec(s) ==
  s = [session_map |-> s.session_map, session_data |-> s.session_data,
       sess_indexes_tcp |-> s.sess_indexes_tcp, sess_indexes_udp |-> s.sess_indexes_udp,
       user_map |-> s.user_map, user_data |-> s.user_data, user_indexes |-> s.user_indexes]

NodeRec(r) ==
  r = [next |-> r.next, prev |-> r.prev, last_used |-> r.last_used, int_ip |-> r.int_ip,
       int_port |-> r.int_port, user_index |-> r.user_index]

Nodes(f) == f = [i \in SessionIds |-> f[i]] /\ \A i \in SessionIds : NodeRec(f[i])

(* What a change of one field leaves alone. *)
SetsUser(s, e, t) ==
  \/ t = [s EXCEPT !.user_map = e]
  \/ t = [s EXCEPT !.user_data = e]
  \/ t = [s EXCEPT !.user_indexes = e]

(* A change of one field that belongs to the users leaves the session      *)
(* table alone.                                                            *)
LEMMA SetField ==
  ASSUME NEW s, NatRec(s), NEW e, NEW t, SetsUser(s, e, t)
  PROVE  /\ NatRec(t) /\ t.session_map = s.session_map /\ t.session_data = s.session_data
         /\ t.sess_indexes_tcp = s.sess_indexes_tcp /\ t.sess_indexes_udp = s.sess_indexes_udp
  BY DEF NatRec, SetsUser

(* The same for the fields of the session table. *)
LEMMA SetData ==
  ASSUME NEW s, NatRec(s), NEW e, NEW t, t = [s EXCEPT !.session_data = e]
  PROVE  /\ NatRec(t) /\ t.session_data = e /\ t.session_map = s.session_map
         /\ t.sess_indexes_tcp = s.sess_indexes_tcp /\ t.sess_indexes_udp = s.sess_indexes_udp
         /\ t.user_map = s.user_map /\ t.user_data = s.user_data /\ t.user_indexes = s.user_indexes
  BY DEF NatRec

(* ... the session map, ... *)
LEMMA SetMap ==
  ASSUME NEW s, NatRec(s), NEW e, NEW t, t = [s EXCEPT !.session_map = e]
  PROVE  /\ NatRec(t) /\ t.session_map = e /\ t.session_data = s.session_data
         /\ t.sess_indexes_tcp = s.sess_indexes_tcp /\ t.sess_indexes_udp = s.sess_indexes_udp
         /\ t.user_map = s.user_map /\ t.user_data = s.user_data /\ t.user_indexes = s.user_indexes
  BY DEF NatRec

(* ... the allocator of TCP tuples, ... *)
LEMMA SetTcp ==
  ASSUME NEW s, NatRec(s), NEW e, NEW t, t = [s EXCEPT !.sess_indexes_tcp = e]
  PROVE  /\ NatRec(t) /\ t.sess_indexes_tcp = e /\ t.sess_indexes_udp = s.sess_indexes_udp
         /\ t.session_map = s.session_map /\ t.session_data = s.session_data
         /\ t.user_map = s.user_map /\ t.user_data = s.user_data /\ t.user_indexes = s.user_indexes
  BY DEF NatRec

(* ... and the allocator of UDP tuples. *)
LEMMA SetUdp ==
  ASSUME NEW s, NatRec(s), NEW e, NEW t, t = [s EXCEPT !.sess_indexes_udp = e]
  PROVE  /\ NatRec(t) /\ t.sess_indexes_udp = e /\ t.sess_indexes_tcp = s.sess_indexes_tcp
         /\ t.session_map = s.session_map /\ t.session_data = s.session_data
         /\ t.user_map = s.user_map /\ t.user_data = s.user_data /\ t.user_indexes = s.user_indexes
  BY DEF NatRec

(* A change of the links or of the time of a session. *)
SetsNode(r, e, q) ==
  \/ q = [r EXCEPT !.next = e] \/ q = [r EXCEPT !.prev = e]
  \/ q = [r EXCEPT !.last_used = e] \/ q = [r EXCEPT !.user_index = e]

SameEnd(r, q) == NodeRec(r) => NodeRec(q) /\ q.int_ip = r.int_ip /\ q.int_port = r.int_port

(* Links and times are not part of the endpoint of a session. *)
LEMMA SetNode ==
  ASSUME NEW r, NEW e, NEW q, SetsNode(r, e, q)
  PROVE  SameEnd(r, q)
  BY DEF NodeRec, SetsNode, SameEnd

(* States s and t have the same session table. *)
SameTable(s, t) ==
  /\ NatRec(t) /\ Nodes(t.session_data) /\ t.session_map = s.session_map
  /\ t.sess_indexes_tcp = s.sess_indexes_tcp /\ t.sess_indexes_udp = s.sess_indexes_udp
  /\ \A i \in SessionIds : /\ t.session_data[i].int_ip = s.session_data[i].int_ip
                           /\ t.session_data[i].int_port = s.session_data[i].int_port

Shaped(s) == NatRec(s) /\ Nodes(s.session_data)

(* Two such steps. *)
LEMMA SameTableTwice ==
  ASSUME NEW s, NEW t, NEW u, SameTable(s, t), SameTable(t, u)
  PROVE  SameTable(s, u) /\ Shaped(t) /\ Shaped(u)
  BY DEF SameTable, Shaped

(* A step that leaves the session table alone. *)
LEMMA SameTableField ==
  ASSUME NEW s, Shaped(s), NEW e, NEW t, SetsUser(s, e, t)
  PROVE  SameTable(s, t)
<1>1. /\ NatRec(t) /\ t.session_map = s.session_map /\ t.session_data = s.session_data
      /\ t.sess_indexes_tcp = s.sess_indexes_tcp /\ t.sess_indexes_udp = s.sess_indexes_udp
  BY SetField DEF Shaped
<1>. QED
  BY <1>1 DEF SameTable, Shaped

(* A step that changes the links or the time of a session. *)
SetsElement(s, x, q, t) == t = [s EXCEPT !.session_data = [@ EXCEPT ![x] = q]]

(* Such a change of one session leaves the session table as it was. *)
LEMMA SameTableNode ==
  ASSUME NEW s, Shaped(s), NEW x, NEW q, NEW t, SetsElement(s, x, q, t), SameEnd(s.session_data[x], q)
  PROVE  SameTable(s, t)
<1>. PICK f : f = s.session_data
  OBVIOUS
<1>. PICK g : g = [f EXCEPT ![x] = q]
  OBVIOUS
<1>1. f = [i \in SessionIds |-> f[i]] /\ \A i \in SessionIds : NodeRec(f[i])
  BY DEF Shaped, Nodes
<1>2. t = [s EXCEPT !.session_data = g]
  BY DEF SetsElement
<1>3. /\ NatRec(t) /\ t.session_data = g /\ t.session_map = s.session_map
      /\ t.sess_indexes_tcp = s.sess_indexes_tcp /\ t.sess_indexes_udp = s.sess_indexes_udp
  BY <1>2, SetData DEF Shaped
<1>4. \A i \in SessionIds : g[i] = IF i = x THEN q ELSE f[i]
  BY <1>1
<1>5. g = [i \in SessionIds |-> g[i]]
  BY <1>1
<1>6. \A i \in SessionIds : NodeRec(g[i]) /\ g[i].int_ip = f[i].int_ip /\ g[i].int_port = f[i].int_port
  BY <1>1, <1>4 DEF SameEnd
<1>7. Nodes(g)
  BY <1>5, <1>6 DEF Nodes
<1>. QED
  BY <1>3, <1>6, <1>7 DEF SameTable

(* The links of the lists of users. *)
LEMMA SameSetPrev ==
  ASSUME NEW s, Shaped(s), NEW u, NEW x, NEW to
  PROVE  SameTable(s, SetPrev(s, u, x, to))
<1>1. CASE x = SESS_LIST_HEAD
  <2>1. PICK e : e = [s.user_data EXCEPT ![u].prev = to]
    OBVIOUS
  <2>2. SetsUser(s, e, SetPrev(s, u, x, to))
    BY <1>1, <2>1 DEF SetPrev, SetsUser
  <2>. QED
    BY <2>2, SameTableField
<1>2. CASE x # SESS_LIST_HEAD
  <2>1. PICK q : q = [s.session_data[x] EXCEPT !.prev = to]
    OBVIOUS
  <2>2. SetsElement(s, x, q, SetPrev(s, u, x, to))
    BY <1>2, <2>1 DEF SetPrev, SetsElement
  <2>3. SameEnd(s.session_data[x], q)
    BY <2>1, SetNode DEF SetsNode
  <2>. QED
    BY <2>2, <2>3, SameTableNode
<1>. QED
  BY <1>1, <1>2

(* A session put at the head of a list. *)
LEMMA SameInsert ==
  ASSUME NEW s, Shaped(s), NEW u, NEW sess
  PROVE  SameTable(s, InsertAtHead(s, u, sess))
<1>. PICK first : first = s.user_data[u].next
  OBVIOUS
<1>. PICK t : t = SetPrev(s, u, first, sess)
  OBVIOUS
<1>. PICK r : r = t.session_data[sess]
  OBVIOUS
<1>a. PICK q1 : q1 = [r EXCEPT !.next = first]
  OBVIOUS
<1>b. PICK q : q = [q1 EXCEPT !.prev = SESS_LIST_HEAD]
  OBVIOUS
<1>c. PICK t1 : SetsElement(t, sess, q, t1)
  BY DEF SetsElement
<1>d. PICK e : e = [t1.user_data EXCEPT ![u].next = sess]
  OBVIOUS
<1>1. SameTable(s, t)
  BY SameSetPrev
<1>2. Shaped(t)
  BY <1>1 DEF SameTable, Shaped
<1>3. SameEnd(r, q)
  <2>1. SetsNode(r, first, q1) /\ SetsNode(q1, SESS_LIST_HEAD, q)
    BY <1>a, <1>b DEF SetsNode
  <2>2. SameEnd(r, q1) /\ SameEnd(q1, q)
    BY <2>1, SetNode
  <2>. QED
    BY <2>2 DEF SameEnd
<1>4. SameTable(t, t1)
  BY <1>2, <1>3, <1>c, SameTableNode
<1>5. Shaped(t1)
  BY <1>4 DEF SameTable, Shaped
<1>6. SetsUser(t1, e, InsertAtHead(s, u, sess))
  BY <1>a, <1>b, <1>c, <1>d DEF InsertAtHead, SetsElement, SetsUser
<1>7. SameTable(t1, InsertAtHead(s, u, sess))
  BY <1>5, <1>6, SameTableField
<1>. QED
  BY <1>1, <1>4, <1>7, SameTableTwice

(* A session moved to the head of its list. *)
LEMMA SameMove ==
  ASSUME NEW s, Shaped(s), NEW sess
  PROVE  SameTable(s, MoveToHead(s, sess))
<1>. PICK node : node = s.session_data[sess]
  OBVIOUS
<1>1. CASE node.prev = SESS_LIST_HEAD
  BY <1>1 DEF MoveToHead, SameTable, Shaped
<1>2. CASE node.prev # SESS_LIST_HEAD
  <2>. PICK x : x = node.prev
    OBVIOUS
  <2>a. PICK q : q = [s.session_data[x] EXCEPT !.next = node.next]
    OBVIOUS
  <2>b. PICK t : SetsElement(s, x, q, t)
    BY DEF SetsElement
  <2>c. PICK t1 : t1 = SetPrev(t, node.user_index, node.next, node.prev)
    OBVIOUS
  <2>1. SameEnd(s.session_data[x], q)
    BY <2>a, SetNode DEF SetsNode
  <2>2. SameTable(s, t)
    BY <2>1, <2>b, SameTableNode
  <2>3. Shaped(t)
    BY <2>2 DEF SameTable, Shaped
  <2>4. SameTable(t, t1)
    BY <2>3, <2>c, SameSetPrev
  <2>5. Shaped(t1)
    BY <2>4 DEF SameTable, Shaped
  <2>6. SameTable(t1, InsertAtHead(t1, node.user_index, sess))
    BY <2>5, SameInsert
  <2>7. MoveToHead(s, sess) = InsertAtHead(t1, node.user_index, sess)
    BY <1>2, <2>a, <2>b, <2>c DEF MoveToHead, SetsElement
  <2>. QED
    BY <2>2, <2>4, <2>6, <2>7, SameTableTwice
<1>. QED
  BY <1>1, <1>2

(* A refreshed session. *)
LEMMA SameRefresh ==
  ASSUME NEW s, Shaped(s), NEW sess, NEW now
  PROVE  SameTable(s, Refresh(s, sess, now))
<1>1. CASE now <= s.session_data[sess].last_used + EI_NAT_SECOND
  BY <1>1 DEF Refresh, SameTable, Shaped
<1>2. CASE ~(now <= s.session_data[sess].last_used + EI_NAT_SECOND)
  <2>a. PICK q : q = [s.session_data[sess] EXCEPT !.last_used = now]
    OBVIOUS
  <2>b. PICK t : SetsElement(s, sess, q, t)
    BY DEF SetsElement
  <2>. DEFINE F(v) == IF nf = "fw-nat" THEN v ELSE MoveToHead(v, sess)
              T == {F(v) : v \in {t}}
  <2>1. SameEnd(s.session_data[sess], q)
    BY <2>a, SetNode DEF SetsNode
  <2>2. SameTable(s, t)
    BY <2>1, <2>b, SameTableNode
  <2>3. Shaped(t)
    BY <2>2 DEF SameTable, Shaped
  <2>4. Refresh(s, sess, now) = CHOOSE y \in T : TRUE
    BY <1>2, <2>a, <2>b DEF Refresh, With, SetsElement
  <2>5. T = {F(t)}
    <3>. HIDE DEF F
    <3>. QED
      OBVIOUS
  <2>6. SameTable(t, F(t))
    <3>1. SameTable(t, t)
      BY <2>3 DEF SameTable, Shaped
    <3>2. SameTable(t, MoveToHead(t, sess))
      BY <2>3, SameMove
    <3>. QED
      BY <3>1, <3>2
  <2>7. Refresh(s, sess, now) = F(t)
    <3>. HIDE DEF F, T
    <3>. PICK e : e = F(t)
      OBVIOUS
    <3>. QED
      BY <2>4, <2>5, OnlyChoice
  <2>. HIDE DEF F
  <2>. QED
    BY <2>2, <2>6, <2>7, SameTableTwice
<1>. QED
  BY <1>1, <1>2

(* A new user gets an index, an entry of the map and an empty list. *)
NoSessions == [next |-> SESS_LIST_HEAD, prev |-> SESS_LIST_HEAD, num_sessions |-> 0]
AddsUser(s, addr, a, t) ==
  \E t1, t2 : /\ t1 = [s EXCEPT !.user_indexes = a.chain]
              /\ t2 = [t1 EXCEPT !.user_map = nfos_map_put(t1.user_map, <<addr>>, a.index)]
              /\ t = [t2 EXCEPT !.user_data = [t2.user_data EXCEPT ![a.index] = NoSessions]]

(* alloc_user without With. *)
LEMMA AllocUserIs ==
  ASSUME NEW s, NEW c, NEW addr, NEW a, a = Users!nfos_dchain_allocate_new_index(s.user_indexes, c),
         NEW r, r = alloc_user(s, c, addr)
  PROVE  r.index = a.index /\ AddsUser(s, addr, a, r.nat)
<1>a. PICK t1 : t1 = [s EXCEPT !.user_indexes = a.chain]
  OBVIOUS
<1>. PICK e2 : e2 = nfos_map_put(t1.user_map, <<addr>>, a.index)
  OBVIOUS
<1>b. PICK t2 : t2 = [t1 EXCEPT !.user_map = e2]
  OBVIOUS
<1>. PICK e3 : e3 = [t2.user_data EXCEPT ![a.index] = NoSessions]
  OBVIOUS
<1>c. PICK t3 : t3 = [t2 EXCEPT !.user_data = e3]
  OBVIOUS
<1>. DEFINE F(v) == [index |-> v.index,
                     nat |-> [s EXCEPT !.user_indexes = v.chain,
                               !.user_map = nfos_map_put(@, <<addr>>, v.index),
                               !.user_data[v.index] =
                                 [next |-> SESS_LIST_HEAD, prev |-> SESS_LIST_HEAD, num_sessions |-> 0]]]
            T == {F(v) : v \in {a}}
<1>4. r = CHOOSE y \in T : TRUE
  BY DEF alloc_user, With
<1>5. T = {F(a)}
  <2>. HIDE DEF F
  <2>. QED
    OBVIOUS
<1>6. F(a).nat = t3 /\ F(a).index = a.index
  BY <1>a, <1>b, <1>c DEF NoSessions
<1>7. r = F(a)
  <2>. HIDE DEF F, T
  <2>. PICK e : e = F(a)
    OBVIOUS
  <2>. QED
    BY <1>4, <1>5, OnlyChoice
<1>8. AddsUser(s, addr, a, t3)
  BY <1>a, <1>b, <1>c DEF AddsUser
<1>. HIDE DEF F, T
<1>. QED
  BY <1>6, <1>7, <1>8

(* A new user leaves the session table alone. *)
LEMMA SameAllocUser ==
  ASSUME NEW s, Shaped(s), NEW c, NEW addr
  PROVE  SameTable(s, alloc_user(s, c, addr).nat)
<1>. PICK a : a = Users!nfos_dchain_allocate_new_index(s.user_indexes, c)
  OBVIOUS
<1>. PICK r : r = alloc_user(s, c, addr)
  OBVIOUS
<1>. PICK t3 : t3 = r.nat
  OBVIOUS
<1>0. AddsUser(s, addr, a, t3)
  BY AllocUserIs
<1>. PICK t1, t2 : /\ t1 = [s EXCEPT !.user_indexes = a.chain]
                   /\ t2 = [t1 EXCEPT !.user_map = nfos_map_put(t1.user_map, <<addr>>, a.index)]
                   /\ t3 = [t2 EXCEPT !.user_data = [t2.user_data EXCEPT ![a.index] = NoSessions]]
  BY <1>0 DEF AddsUser
<1>1. SameTable(s, t1)
  <2>1. SetsUser(s, a.chain, t1)
    BY DEF SetsUser
  <2>. QED
    BY <2>1, SameTableField
<1>2. SameTable(t1, t2)
  <2>1. SetsUser(t1, nfos_map_put(t1.user_map, <<addr>>, a.index), t2)
    BY DEF SetsUser
  <2>2. Shaped(t1)
    BY <1>1 DEF SameTable, Shaped
  <2>. QED
    BY <2>1, <2>2, SameTableField
<1>3. SameTable(t2, t3)
  <2>1. SetsUser(t2, [t2.user_data EXCEPT ![a.index] = NoSessions], t3)
    BY DEF SetsUser
  <2>2. Shaped(t2)
    BY <1>2 DEF SameTable, Shaped
  <2>. QED
    BY <2>1, <2>2, SameTableField
<1>. QED
  BY <1>1, <1>2, <1>3, SameTableTwice

(* UserOf without With. *)
LEMMA UserOfIs ==
  ASSUME NEW s, NEW c, NEW addr, NEW u, u = nfos_map_get(s.user_map, <<addr>>)
  PROVE  UserOf(s, c, addr) = IF u = NoValue THEN alloc_user(s, c, addr) ELSE [index |-> u, nat |-> s]
<1>. DEFINE F(v) == IF v = NoValue THEN alloc_user(s, c, addr) ELSE [index |-> v, nat |-> s]
            T == {F(v) : v \in {u}}
<1>1. UserOf(s, c, addr) = CHOOSE y \in T : TRUE
  BY DEF UserOf, With
<1>2. T = {F(u)}
  <2>. HIDE DEF F
  <2>. QED
    OBVIOUS
<1>3. UserOf(s, c, addr) = F(u)
  <2>. HIDE DEF F, T
  <2>. PICK e : e = F(u)
    OBVIOUS
  <2>. QED
    BY <1>1, <1>2, OnlyChoice
<1>. QED
  BY <1>3

(* The user of an address. *)
LEMMA SameUserOf ==
  ASSUME NEW s, Shaped(s), NEW c, NEW addr
  PROVE  SameTable(s, UserOf(s, c, addr).nat)
<1>. PICK n, u : n = alloc_user(s, c, addr) /\ u = nfos_map_get(s.user_map, <<addr>>)
  OBVIOUS
<1>1. UserOf(s, c, addr) = n \/ UserOf(s, c, addr) = [index |-> u, nat |-> s]
  BY UserOfIs
<1>2. SameTable(s, n.nat)
  BY SameAllocUser
<1>3. SameTable(s, s)
  BY DEF SameTable, Shaped
<1>. QED
  BY <1>1, <1>2, <1>3
-----------------------------------------------------------------------------
IsSession(s, i) ==
  IF i < num_avail_ext_tuples
    THEN Tuples!IsAllocated(s.sess_indexes_tcp, i)
    ELSE Tuples!IsAllocated(s.sess_indexes_udp, i - num_avail_ext_tuples)

Cells == next_pow2(2 * MAX_NUM_SESSIONS)

(* Cell x of the map leads to a session of its protocol, with its endpoint. *)
EntryOK(s, x) ==
  LET cell == s.session_map[x]
  IN  /\ cell.vals \in SessionIds /\ IsSession(s, cell.vals)
      /\ cell.key[3] = TCP <=> cell.vals < num_avail_ext_tuples
      /\ s.session_data[cell.vals].int_ip = cell.key[1]
      /\ s.session_data[cell.vals].int_port = cell.key[2]

(* ... every session has one cell. *)
OneEach(s) ==
  LET m == s.session_map
  IN  /\ \A x, y \in Busy(m) : m[x].vals = m[y].vals => x = y
      /\ \A i \in SessionIds : IsSession(s, i) => \E x \in Busy(m) : m[x].vals = i

Allotted(s) == TupleChain(s.sess_indexes_tcp) /\ TupleChain(s.sess_indexes_udp)

TableInv(s) ==
  /\ Shaped(s) /\ Allotted(s)
  /\ MapOf(s.session_map, Cells) /\ MapSound(s.session_map)
  /\ \A x \in Busy(s.session_map) : EntryOK(s, x)
  /\ OneEach(s)

(* Packet p has session i. *)
HasSession(s, p, i) ==
  \E x \in Busy(s.session_map) : s.session_map[x].key = Key(p) /\ s.session_map[x].vals = i

(* The invariant is about the table only. *)
LEMMA SameTableInv ==
  ASSUME NEW s, NEW t, TableInv(s), SameTable(s, t)
  PROVE  /\ TableInv(t)
         /\ \A p, i : HasSession(s, p, i) => HasSession(t, p, i)
<1>1. /\ t.session_map = s.session_map
      /\ t.sess_indexes_tcp = s.sess_indexes_tcp /\ t.sess_indexes_udp = s.sess_indexes_udp
      /\ \A i \in SessionIds : /\ t.session_data[i].int_ip = s.session_data[i].int_ip
                               /\ t.session_data[i].int_port = s.session_data[i].int_port
  BY DEF SameTable
<1>2. Shaped(t)
  BY DEF SameTable, Shaped
<1>3. Allotted(t)
  BY <1>1 DEF TableInv, Allotted
<1>4. \A i : IsSession(t, i) <=> IsSession(s, i)
  BY <1>1 DEF IsSession
<1>5. ASSUME NEW x \in Busy(t.session_map)
      PROVE  EntryOK(t, x)
  <2>1. EntryOK(s, x)
    BY <1>1, <1>5 DEF TableInv
  <2>. QED
    BY <2>1, <1>1, <1>4 DEF EntryOK
<1>6. OneEach(t)
  <2>1. OneEach(s)
    BY DEF TableInv
  <2>. QED
    BY <2>1, <1>1, <1>4 DEF OneEach
<1>7. TableInv(t)
  BY <1>1, <1>2, <1>3, <1>5, <1>6 DEF TableInv
<1>. QED
  BY <1>1, <1>7 DEF HasSession

(* The map has room while a session is free: it has more cells than there  *)
(* are sessions.                                                           *)
LEMMA Room ==
  ASSUME NEW s, TableInv(s), NEW i \in SessionIds, ~IsSession(s, i)
  PROVE  \E x \in 0..Cells - 1 : x \notin Busy(s.session_map)
<1>. SUFFICES ASSUME \A x \in 0..Cells - 1 : x \in Busy(s.session_map)
              PROVE  FALSE
  OBVIOUS
<1>. PICK m : m = s.session_map
  OBVIOUS
<1>. PICK N : N = num_avail_ext_tuples
  OBVIOUS
<1>. DEFINE S == 0..Cells - 1
            f == [x \in S |-> m[x].vals]
<1>1. N \in Nat \ {0} /\ 2 * MAX_NUM_SESSIONS \in Nat /\ 2 * MAX_NUM_SESSIONS >= 2 * N
  BY TupleCount, NatsAssumption
<1>2. Cells \in Nat /\ Cells >= 2 * N
  BY <1>1, NextPow2 DEF Cells
<1>3. IsFiniteSet(S) /\ Cardinality(S) = Cells
  <2>1. IsFiniteSet(S) /\ Cardinality(S) = IF 0 > Cells - 1 THEN 0 ELSE (Cells - 1) - 0 + 1
    BY <1>2, FS_Interval
  <2>. QED
    BY <2>1, <1>1, <1>2
<1>4. IsFiniteSet(SessionIds) /\ Cardinality(SessionIds) = 2 * N
  <2>1. IsFiniteSet(0..2 * N - 1) /\ Cardinality(0..2 * N - 1) = IF 0 > 2 * N - 1 THEN 0 ELSE (2 * N - 1) - 0 + 1
    BY <1>1, FS_Interval
  <2>. QED
    BY <2>1, <1>1 DEF SessionIds
<1>5. IsFiniteSet(SessionIds \ {i}) /\ Cardinality(SessionIds \ {i}) = 2 * N - 1
  BY <1>4, FS_RemoveElement
<1>6. f \in [S -> SessionIds \ {i}]
  <2>1. ASSUME NEW x \in S
        PROVE  m[x].vals \in SessionIds \ {i}
    <3>1. EntryOK(s, x)
      BY DEF TableInv
    <3>. QED
      BY <3>1 DEF EntryOK
  <2>. QED
    BY <2>1
<1>7. PICK x \in S, y \in S : x # y /\ f[x] = f[y]
  <2>1. Cardinality(S) > Cardinality(SessionIds \ {i})
    BY <1>1, <1>2, <1>3, <1>5
  <2>. HIDE DEF f, S
  <2>. QED
    BY <2>1, <1>3, <1>5, <1>6, FS_PigeonHole
<1>8. m[x].vals = m[y].vals
  BY <1>7
<1>. QED
  BY <1>7, <1>8 DEF TableInv, OneEach

(* s and t have the same users. *)
SameUsers(s, t) == t.user_map = s.user_map /\ t.user_indexes = s.user_indexes /\ t.user_data = s.user_data

(* In t session i is allocated, which was free in s; nothing else changed. *)
Enters(s, t, i) ==
  /\ Shaped(t) /\ Allotted(t) /\ t.session_map = s.session_map /\ t.session_data = s.session_data
  /\ SameUsers(s, t)
  /\ i \in SessionIds /\ ~IsSession(s, i)
  /\ \A j \in SessionIds : IsSession(t, j) <=> j = i \/ IsSession(s, j)

(* What Entered changes. *)
LEMMA EnteredIs ==
  ASSUME NEW t, Shaped(t), NEW i \in SessionIds, NEW p, NEW now
  PROVE  LET w == Entered(t, i, p, now)
         IN  /\ Shaped(w)
             /\ w.session_map = nfos_map_put(t.session_map, Key(p), i)
             /\ w.sess_indexes_tcp = t.sess_indexes_tcp /\ w.sess_indexes_udp = t.sess_indexes_udp
             /\ \A j \in SessionIds \ {i} : w.session_data[j] = t.session_data[j]
             /\ w.session_data[i].int_ip = p.addr /\ w.session_data[i].int_port = p.port
             /\ w.session_data[i].last_used = now /\ w.session_data[i].next = t.session_data[i].next
             /\ w.session_data[i].prev = t.session_data[i].prev /\ SameUsers(t, w)
<1>. PICK f : f = t.session_data
  OBVIOUS
<1>. PICK r : r = f[i]
  OBVIOUS
<1>. PICK addr, port : addr = p.addr /\ port = p.port
  OBVIOUS
<1>a. PICK q : q = [r EXCEPT !.last_used = now, !.int_ip = addr, !.int_port = port]
  OBVIOUS
<1>b. PICK g : g = [f EXCEPT ![i] = q]
  OBVIOUS
<1>c. PICK t1 : t1 = [t EXCEPT !.session_data = g]
  OBVIOUS
<1>d. PICK m : m = nfos_map_put(t.session_map, Key(p), i)
  OBVIOUS
<1>e. PICK w : w = [t1 EXCEPT !.session_map = m]
  OBVIOUS
<1>1. f = [j \in SessionIds |-> f[j]] /\ \A j \in SessionIds : NodeRec(f[j])
  BY DEF Shaped, Nodes
<1>2. /\ NodeRec(q) /\ q.int_ip = addr /\ q.int_port = port
      /\ q.last_used = now /\ q.next = r.next /\ q.prev = r.prev
  <2>1. NodeRec(r)
    BY <1>1
  <2>2. r = [next |-> r.next, prev |-> r.prev, last_used |-> r.last_used, int_ip |-> r.int_ip,
             int_port |-> r.int_port, user_index |-> r.user_index]
    BY <2>1 DEF NodeRec
  <2>3. q = [next |-> r.next, prev |-> r.prev, last_used |-> now, int_ip |-> addr,
             int_port |-> port, user_index |-> r.user_index]
    BY <2>2, <1>a
  <2>. QED
    BY <2>3 DEF NodeRec
<1>3. \A j \in SessionIds : g[j] = IF j = i THEN q ELSE f[j]
  BY <1>1, <1>b
<1>4. Nodes(g)
  <2>1. g = [j \in SessionIds |-> g[j]]
    BY <1>1, <1>b
  <2>2. \A j \in SessionIds : NodeRec(g[j])
    BY <1>1, <1>2, <1>3
  <2>. QED
    BY <2>1, <2>2 DEF Nodes
<1>5. /\ NatRec(t1) /\ t1.session_data = g /\ t1.session_map = t.session_map
      /\ t1.sess_indexes_tcp = t.sess_indexes_tcp /\ t1.sess_indexes_udp = t.sess_indexes_udp /\ SameUsers(t, t1)
  BY <1>c, SetData DEF Shaped, SameUsers
<1>6. /\ NatRec(w) /\ w.session_map = m /\ w.session_data = g
      /\ w.sess_indexes_tcp = t.sess_indexes_tcp /\ w.sess_indexes_udp = t.sess_indexes_udp /\ SameUsers(t, w)
  BY <1>5, <1>e, SetMap DEF SameUsers
<1>7. Entered(t, i, p, now) = w
  BY <1>a, <1>b, <1>c, <1>d, <1>e DEF Entered
<1>8. Shaped(w)
  BY <1>4, <1>6 DEF Shaped
<1>. QED
  BY <1>2, <1>3, <1>6, <1>7, <1>8, <1>d

(* The session of a packet that had none. *)
LEMMA EnteredInv ==
  ASSUME NEW s, TableInv(s), NEW t, NEW i, Enters(s, t, i),
         NEW p, Key(p) \in Keys, NotIn(s.session_map, Key(p)), p.proto = TCP <=> i < num_avail_ext_tuples,
         NEW now
  PROVE  TableInv(Entered(t, i, p, now)) /\ HasSession(Entered(t, i, p, now), p, i)
<1>. PICK w : w = Entered(t, i, p, now)
  OBVIOUS
<1>. PICK m : m = s.session_map
  OBVIOUS
<1>. PICK k : k = Key(p)
  OBVIOUS
<1>. PICK m2 : m2 = nfos_map_put(m, k, i)
  OBVIOUS
<1>. PICK N : N = num_avail_ext_tuples
  OBVIOUS
<1>1. i \in SessionIds /\ i \in Int /\ Shaped(t)
  BY TupleCount DEF Enters, SessionIds
<1>2. /\ Shaped(w) /\ w.session_map = m2
      /\ w.sess_indexes_tcp = t.sess_indexes_tcp /\ w.sess_indexes_udp = t.sess_indexes_udp
      /\ \A j \in SessionIds \ {i} : w.session_data[j] = s.session_data[j]
      /\ w.session_data[i].int_ip = p.addr /\ w.session_data[i].int_port = p.port
  <2>1. /\ Shaped(w) /\ w.session_map = nfos_map_put(t.session_map, Key(p), i)
        /\ w.sess_indexes_tcp = t.sess_indexes_tcp /\ w.sess_indexes_udp = t.sess_indexes_udp
        /\ \A j \in SessionIds \ {i} : w.session_data[j] = t.session_data[j]
        /\ w.session_data[i].int_ip = p.addr /\ w.session_data[i].int_port = p.port
    BY <1>1, EnteredIs
  <2>2. t.session_map = m /\ t.session_data = s.session_data
    BY DEF Enters
  <2>. QED
    BY <2>1, <2>2
<1>3. PICK x0 : NewEntry(m, Cells, k, i, m2, x0)
  <2>1. \E x \in 0..Cells - 1 : x \notin Busy(m)
    BY Room DEF Enters
  <2>2. MapOf(m, Cells) /\ MapSound(m)
    BY DEF TableInv
  <2>3. k \in Keys /\ NotIn(m, k)
    OBVIOUS
  <2>. QED
    BY <1>1, <2>1, <2>2, <2>3, PutNew
<1>4. /\ MapOf(m2, Cells) /\ MapSound(m2) /\ x0 \notin Busy(m) /\ Busy(m2) = Busy(m) \cup {x0}
      /\ m2[x0].key = k /\ m2[x0].vals = i
      /\ \A x \in Busy(m) : m2[x].key = m[x].key /\ m2[x].vals = m[x].vals
  BY <1>3 DEF NewEntry
<1>5. \A j : IsSession(w, j) <=> IsSession(t, j)
  BY <1>2 DEF IsSession
<1>6. /\ ~IsSession(s, i)
      /\ \A j \in SessionIds : IsSession(w, j) <=> j = i \/ IsSession(s, j)
  BY <1>5 DEF Enters
<1>7. Allotted(w)
  BY <1>2 DEF Enters, Allotted
<1>8. \A x \in Busy(m) : m[x].vals # i
  BY <1>6 DEF TableInv, EntryOK
<1>9. k[1] = p.addr /\ k[2] = p.port /\ k[3] = p.proto
  BY DEF Key
<1>10. ASSUME NEW x \in Busy(m2)
       PROVE  EntryOK(w, x)
  <2>1. CASE x = x0
    BY <2>1, <1>1, <1>2, <1>4, <1>6, <1>9 DEF EntryOK
  <2>2. CASE x \in Busy(m)
    <3>1. EntryOK(s, x)
      BY <2>2 DEF TableInv
    <3>. PICK v, e : v = m[x].vals /\ e = m[x].key
      OBVIOUS
    <3>2. /\ v \in SessionIds /\ IsSession(s, v) /\ (e[3] = TCP <=> v < num_avail_ext_tuples)
          /\ s.session_data[v].int_ip = e[1] /\ s.session_data[v].int_port = e[2]
      BY <3>1 DEF EntryOK
    <3>3. w.session_map[x].vals = v /\ w.session_map[x].key = e /\ v # i
      BY <2>2, <1>2, <1>4, <1>8
    <3>4. w.session_data[v] = s.session_data[v] /\ IsSession(w, v)
      BY <3>2, <3>3, <1>2, <1>6
    <3>. QED
      BY <3>2, <3>3, <3>4 DEF EntryOK
  <2>. QED
    BY <2>1, <2>2, <1>4
<1>11. OneEach(w)
  <2>1. OneEach(s)
    BY DEF TableInv
  <2>2. \A x, y \in Busy(m2) : m2[x].vals = m2[y].vals => x = y
    BY <2>1, <1>4, <1>8 DEF OneEach
  <2>3. \A j \in SessionIds : IsSession(w, j) => \E x \in Busy(m2) : m2[x].vals = j
    BY <2>1, <1>4, <1>6 DEF OneEach
  <2>. QED
    BY <2>2, <2>3, <1>2 DEF OneEach
<1>12. TableInv(w)
  BY <1>2, <1>4, <1>7, <1>10, <1>11 DEF TableInv
<1>13. HasSession(w, p, i)
  BY <1>2, <1>4 DEF HasSession
<1>. QED
  BY <1>12, <1>13

(* An index of TCP is allocated ... *)
LEMMA EntersTcp ==
  ASSUME NEW s, TableInv(s), NEW i, NEW d, NewTuple(s.sess_indexes_tcp, i, d)
  PROVE  Enters(s, [s EXCEPT !.sess_indexes_tcp = d], i) /\ i < num_avail_ext_tuples
<1>. PICK t : t = [s EXCEPT !.sess_indexes_tcp = d]
  OBVIOUS
<1>. PICK N : N = num_avail_ext_tuples
  OBVIOUS
<1>1. /\ NatRec(t) /\ t.sess_indexes_tcp = d /\ t.sess_indexes_udp = s.sess_indexes_udp
      /\ t.session_map = s.session_map /\ t.session_data = s.session_data /\ SameUsers(s, t)
  BY SetTcp DEF TableInv, Shaped, SameUsers
<1>2. N \in Nat \ {0} /\ i \in 0..N - 1 /\ SessionIds = 0..2 * N - 1
  BY TupleCount DEF NewTuple, TupleIds, SessionIds
<1>3. Shaped(t) /\ Allotted(t)
  BY <1>1 DEF TableInv, Shaped, Allotted, NewTuple
<1>4. ASSUME NEW j \in SessionIds
      PROVE  IsSession(t, j) <=> j = i \/ IsSession(s, j)
  <2>1. CASE j < N
    <3>1. j \in TupleIds
      BY <2>1, <1>2 DEF TupleIds
    <3>2. Tuples!IsAllocated(d, j) <=> j = i \/ Tuples!IsAllocated(s.sess_indexes_tcp, j)
      BY <3>1 DEF NewTuple
    <3>. QED
      BY <3>2, <2>1, <1>1 DEF IsSession
  <2>2. CASE ~(j < N)
    BY <2>2, <1>1, <1>2 DEF IsSession
  <2>. QED
    BY <2>1, <2>2
<1>5. ~IsSession(s, i)
  BY <1>2 DEF NewTuple, IsSession
<1>6. i \in SessionIds /\ i < N
  BY <1>2
<1>. QED
  BY <1>1, <1>3, <1>4, <1>5, <1>6 DEF Enters

(* ... or one of the other protocols, which follow. *)
LEMMA EntersUdp ==
  ASSUME NEW s, TableInv(s), NEW i, NEW d, NewTuple(s.sess_indexes_udp, i, d)
  PROVE  /\ Enters(s, [s EXCEPT !.sess_indexes_udp = d], i + num_avail_ext_tuples)
         /\ ~(i + num_avail_ext_tuples < num_avail_ext_tuples)
<1>. PICK t : t = [s EXCEPT !.sess_indexes_udp = d]
  OBVIOUS
<1>. PICK N : N = num_avail_ext_tuples
  OBVIOUS
<1>1. /\ NatRec(t) /\ t.sess_indexes_udp = d /\ t.sess_indexes_tcp = s.sess_indexes_tcp
      /\ t.session_map = s.session_map /\ t.session_data = s.session_data /\ SameUsers(s, t)
  BY SetUdp DEF TableInv, Shaped, SameUsers
<1>2. N \in Nat \ {0} /\ i \in 0..N - 1 /\ SessionIds = 0..2 * N - 1
  BY TupleCount DEF NewTuple, TupleIds, SessionIds
<1>3. Shaped(t) /\ Allotted(t)
  BY <1>1 DEF TableInv, Shaped, Allotted, NewTuple
<1>4. ASSUME NEW j \in SessionIds
      PROVE  IsSession(t, j) <=> j = i + N \/ IsSession(s, j)
  <2>1. CASE j < N
    BY <2>1, <1>1, <1>2 DEF IsSession
  <2>2. CASE ~(j < N)
    <3>. PICK h : h = j - N
      OBVIOUS
    <3>1. h \in TupleIds /\ (h = i <=> j = i + N)
      BY <2>2, <1>2 DEF TupleIds
    <3>2. Tuples!IsAllocated(d, h) <=> h = i \/ Tuples!IsAllocated(s.sess_indexes_udp, h)
      BY <3>1 DEF NewTuple
    <3>. QED
      BY <3>1, <3>2, <2>2, <1>1 DEF IsSession
  <2>. QED
    BY <2>1, <2>2
<1>5. ~IsSession(s, i + N)
  <2>1. ~(i + N < N) /\ (i + N) - N = i
    BY <1>2
  <2>. QED
    BY <2>1 DEF NewTuple, IsSession
<1>6. i + N \in SessionIds /\ ~(i + N < N)
  BY <1>2
<1>. QED
  BY <1>1, <1>3, <1>4, <1>5, <1>6 DEF Enters

(* What opening a session for packet p gives: a state and its index. *)
Opened(p, r) == TableInv(r.nat) /\ HasSession(r.nat, p, r.index)

(* Packet p has been given the free session of r. *)
Allocates(s, p, now, r) ==
  \E t : /\ Enters(s, t, r.index) /\ r.nat = Entered(t, r.index, p, now)
         /\ p.proto = TCP <=> r.index < num_avail_ext_tuples

(* alloc_session without With, when a tuple is left. *)
LEMMA AllocSessionIs ==
  ASSUME NEW s, TableInv(s), NEW c \in Cores, NEW p, ~Exhausted(s, c, p.proto), NEW now
  PROVE  Allocates(s, p, now, alloc_session(s, c, p, now))
<1>1. CASE p.proto = TCP
  <2>. PICK a : a = Tuples!nfos_dchain_allocate_new_index(s.sess_indexes_tcp, c)
    OBVIOUS
  <2>. DEFINE F(v) == [index |-> v.index, nat |-> Entered([s EXCEPT !.sess_indexes_tcp = v.chain], v.index, p, now)]
              T == {F(v) : v \in {a}}
  <2>1. a.index # NoIndex
    BY <1>1 DEF Exhausted
  <2>2. NewTuple(s.sess_indexes_tcp, a.index, a.chain)
    BY <2>1, AllocateTuple DEF TableInv, Allotted
  <2>3. PICK t : t = [s EXCEPT !.sess_indexes_tcp = a.chain]
    OBVIOUS
  <2>4. Enters(s, t, a.index) /\ a.index < num_avail_ext_tuples
    BY <2>2, <2>3, EntersTcp
  <2>6. alloc_session(s, c, p, now) = CHOOSE y \in T : TRUE
    BY <1>1 DEF alloc_session, With
  <2>7. T = {F(a)}
    <3>. HIDE DEF F
    <3>. QED
      OBVIOUS
  <2>8. F(a).nat = Entered(t, a.index, p, now) /\ F(a).index = a.index
    BY <2>3
  <2>9. alloc_session(s, c, p, now) = F(a)
    <3>. HIDE DEF F, T
    <3>. PICK e : e = F(a)
      OBVIOUS
    <3>. QED
      BY <2>6, <2>7, OnlyChoice
  <2>. HIDE DEF F, T
  <2>. QED
    BY <1>1, <2>4, <2>8, <2>9 DEF Allocates
<1>2. CASE p.proto # TCP
  <2>. PICK a : a = Tuples!nfos_dchain_allocate_new_index(s.sess_indexes_udp, c)
    OBVIOUS
  <2>. DEFINE F(v) == LET index == v.index + num_avail_ext_tuples
                      IN  [index |-> index, nat |-> Entered([s EXCEPT !.sess_indexes_udp = v.chain], index, p, now)]
              T == {F(v) : v \in {a}}
  <2>1. a.index # NoIndex
    BY <1>2 DEF Exhausted
  <2>2. NewTuple(s.sess_indexes_udp, a.index, a.chain)
    BY <2>1, AllocateTuple DEF TableInv, Allotted
  <2>3. PICK t : t = [s EXCEPT !.sess_indexes_udp = a.chain]
    OBVIOUS
  <2>. PICK i : i = a.index + num_avail_ext_tuples
    OBVIOUS
  <2>4. Enters(s, t, i) /\ ~(i < num_avail_ext_tuples)
    BY <2>2, <2>3, EntersUdp
  <2>6. alloc_session(s, c, p, now) = CHOOSE y \in T : TRUE
    BY <1>2 DEF alloc_session, With
  <2>7. T = {F(a)}
    <3>. HIDE DEF F
    <3>. QED
      OBVIOUS
  <2>8. F(a).nat = Entered(t, i, p, now) /\ F(a).index = i
    BY <2>3
  <2>9. alloc_session(s, c, p, now) = F(a)
    <3>. HIDE DEF F, T
    <3>. PICK e : e = F(a)
      OBVIOUS
    <3>. QED
      BY <2>6, <2>7, OnlyChoice
  <2>. HIDE DEF F, T
  <2>. QED
    BY <1>2, <2>4, <2>8, <2>9 DEF Allocates
<1>. QED
  BY <1>1, <1>2

(* alloc_session enters a session of the packet in the table. *)
LEMMA AllocSession ==
  ASSUME NEW s, TableInv(s), NEW c \in Cores, NEW p, Key(p) \in Keys, NotIn(s.session_map, Key(p)),
         ~Exhausted(s, c, p.proto), NEW now
  PROVE  Opened(p, alloc_session(s, c, p, now))
<1>. PICK r : r = alloc_session(s, c, p, now)
  OBVIOUS
<1>1. PICK t : /\ Enters(s, t, r.index) /\ r.nat = Entered(t, r.index, p, now)
               /\ p.proto = TCP <=> r.index < num_avail_ext_tuples
  BY AllocSessionIs DEF Allocates
<1>2. TableInv(Entered(t, r.index, p, now)) /\ HasSession(Entered(t, r.index, p, now), p, r.index)
  BY <1>1, EnteredInv
<1>. QED
  BY <1>1, <1>2 DEF Opened

(* The links of a session that ei-nat opens. *)
Linked(u, i) ==
  [InsertAtHead(u.nat, u.index, i) EXCEPT
     !.user_data[u.index].num_sessions = @ + 1,
     !.session_data[i].user_index = u.index]

(* They leave the table alone. *)
LEMMA SameLinked ==
  ASSUME NEW u, Shaped(u.nat), NEW i
  PROVE  SameTable(u.nat, Linked(u, i))
<1>. PICK s : s = u.nat
  OBVIOUS
<1>. PICK t : t = InsertAtHead(s, u.index, i)
  OBVIOUS
<1>a. PICK e : e = [t.user_data EXCEPT ![u.index].num_sessions = @ + 1]
  OBVIOUS
<1>b. PICK t1 : t1 = [t EXCEPT !.user_data = e]
  OBVIOUS
<1>c. PICK q : q = [t1.session_data[i] EXCEPT !.user_index = u.index]
  OBVIOUS
<1>1. SameTable(s, t)
  BY SameInsert
<1>2. SameTable(t, t1)
  <2>1. SetsUser(t, e, t1)
    BY <1>b DEF SetsUser
  <2>2. Shaped(t)
    BY <1>1 DEF SameTable, Shaped
  <2>. QED
    BY <2>1, <2>2, SameTableField
<1>3. SameTable(t1, Linked(u, i))
  <2>1. Shaped(t1)
    BY <1>2 DEF SameTable, Shaped
  <2>2. SameEnd(t1.session_data[i], q)
    BY <1>c, SetNode DEF SetsNode
  <2>3. SetsElement(t1, i, q, Linked(u, i))
    BY <1>a, <1>b, <1>c DEF Linked, SetsElement
  <2>. QED
    BY <2>1, <2>2, <2>3, SameTableNode
<1>. QED
  BY <1>1, <1>2, <1>3, SameTableTwice

(* NewSession without With. *)
LEMMA NewSessionIs ==
  ASSUME NEW s, NEW c, NEW p, NEW now, NEW a, a = alloc_session(s, c, p, now), NEW u, u = UserOf(a.nat, c, p.addr),
         NEW r, r = NewSession(s, c, p, now)
  PROVE  IF nf = "fw-nat" THEN r = a ELSE r.index = a.index /\ r.nat = Linked(u, a.index)
<1>. DEFINE G(v, w) == [index |-> v.index,
                        nat |-> [InsertAtHead(w.nat, w.index, v.index) EXCEPT
                                   !.user_data[w.index].num_sessions = @ + 1,
                                   !.session_data[v.index].user_index = w.index]]
            U == {G(a, w) : w \in {u}}
            F(v) == IF nf = "fw-nat" THEN v ELSE With(UserOf(v.nat, c, p.addr), LAMBDA w : G(v, w))
            T == {F(v) : v \in {a}}
<1>1. NewSession(s, c, p, now) = CHOOSE y \in T : TRUE
  BY DEF NewSession, With
<1>2. T = {F(a)}
  <2>. HIDE DEF F
  <2>. QED
    OBVIOUS
<1>3. r = F(a)
  <2>. HIDE DEF F, T
  <2>. PICK e : e = F(a)
    OBVIOUS
  <2>. QED
    BY <1>1, <1>2, OnlyChoice
<1>4. CASE nf = "fw-nat"
  <2>1. F(a) = a
    BY <1>4
  <2>. HIDE DEF F, T
  <2>. QED
    BY <1>3, <1>4, <2>1
<1>5. CASE nf # "fw-nat"
  <2>1. F(a) = CHOOSE y \in U : TRUE
    <3>. HIDE DEF G
    <3>. QED
      BY <1>5 DEF With
  <2>2. U = {G(a, u)}
    <3>. HIDE DEF G
    <3>. QED
      OBVIOUS
  <2>3. F(a) = G(a, u)
    <3>. HIDE DEF F, G, U, T
    <3>. PICK e : e = G(a, u)
      OBVIOUS
    <3>. QED
      BY <2>1, <2>2, OnlyChoice
  <2>4. G(a, u).nat = Linked(u, a.index) /\ G(a, u).index = a.index
    BY DEF Linked
  <2>. HIDE DEF F, G, T, U
  <2>. QED
    BY <1>3, <1>5, <2>3, <2>4
<1>. QED
  BY <1>4, <1>5

(* A new session and its place in the list of its user. *)
LEMMA NewSessionOpens ==
  ASSUME NEW s, TableInv(s), NEW c \in Cores, NEW p, Key(p) \in Keys, NotIn(s.session_map, Key(p)),
         ~Exhausted(s, c, p.proto), NEW now
  PROVE  Opened(p, NewSession(s, c, p, now))
<1>. PICK a : a = alloc_session(s, c, p, now)
  OBVIOUS
<1>. PICK u : u = UserOf(a.nat, c, p.addr)
  OBVIOUS
<1>. PICK r : r = NewSession(s, c, p, now)
  OBVIOUS
<1>1. Opened(p, a)
  BY AllocSession
<1>2. TableInv(a.nat) /\ HasSession(a.nat, p, a.index)
  BY <1>1 DEF Opened
<1>3. SameTable(a.nat, u.nat)
  BY <1>2, SameUserOf DEF TableInv
<1>4. TableInv(u.nat) /\ HasSession(u.nat, p, a.index) /\ Shaped(u.nat)
  BY <1>2, <1>3, SameTableInv DEF TableInv
<1>5. SameTable(u.nat, Linked(u, a.index))
  BY <1>4, SameLinked
<1>6. TableInv(Linked(u, a.index)) /\ HasSession(Linked(u, a.index), p, a.index)
  BY <1>4, <1>5, SameTableInv
<1>7. r = a \/ (r.index = a.index /\ r.nat = Linked(u, a.index))
  BY NewSessionIs
<1>. QED
  BY <1>1, <1>6, <1>7 DEF Opened

(* The session that the handler of a packet uses. *)
SessionOf(s, c, p, now) ==
  LET i == nfos_map_get(s.session_map, Key(p))
  IN  IF i = NoValue THEN NewSession(s, c, p, now) ELSE [index |-> i, nat |-> s]

(* It can run on s. *)
CanRun(s, c, p) == nfos_map_get(s.session_map, Key(p)) # NoValue \/ ~Exhausted(s, c, p.proto)

(* A handler that runs finds the session of its packet or opens one. *)
LEMMA SessionOpened ==
  ASSUME NEW s, TableInv(s), NEW c \in Cores, NEW p, Key(p) \in Keys, CanRun(s, c, p), NEW now
  PROVE  Opened(p, SessionOf(s, c, p, now))
<1>. PICK m : m = s.session_map
  OBVIOUS
<1>. PICK k : k = Key(p)
  OBVIOUS
<1>1. MapOf(m, Cells) /\ MapSound(m)
  BY DEF TableInv
<1>2. CASE NotIn(m, k)
  <2>1. nfos_map_get(m, k) = NoValue
    BY <1>1, <1>2, GetMisses
  <2>2. ~Exhausted(s, c, p.proto)
    BY <2>1 DEF CanRun
  <2>3. SessionOf(s, c, p, now) = NewSession(s, c, p, now)
    BY <2>1 DEF SessionOf
  <2>. QED
    BY <1>2, <2>2, <2>3, NewSessionOpens
<1>3. CASE ~NotIn(m, k)
  <2>1. PICK x \in Busy(m) : m[x].key = k
    BY <1>3 DEF NotIn
  <2>2. nfos_map_get(m, k) = m[x].vals
    BY <1>1, <2>1, GetFinds
  <2>3. m[x].vals \in SessionIds
    BY <2>1 DEF TableInv, EntryOK
  <2>4. m[x].vals # NoValue
    BY <2>3 DEF SessionIds, NoValue
  <2>5. SessionOf(s, c, p, now) = [index |-> m[x].vals, nat |-> s]
    BY <2>2, <2>4 DEF SessionOf
  <2>6. HasSession(s, p, m[x].vals)
    BY <2>1 DEF HasSession
  <2>. QED
    BY <2>5, <2>6 DEF Opened
<1>. QED
  BY <1>2, <1>3

(* pkt_handler without With. *)
LEMMA HandlerIs ==
  ASSUME NEW s, NEW c, NEW p, NEW now, NEW r, r = SessionOf(s, c, p, now)
  PROVE  pkt_handler(s, c, p, now) = [nat |-> Refresh(r.nat, r.index, now), pkt |-> Rewritten(p, r.index)]
<1>. PICK i : i = nfos_map_get(s.session_map, Key(p))
  OBVIOUS
<1>. DEFINE F(v) == IF v = NoValue THEN NewSession(s, c, p, now) ELSE [index |-> v, nat |-> s]
            T == {F(v) : v \in {i}}
            G(v) == [nat |-> Refresh(v.nat, v.index, now), pkt |-> Rewritten(p, v.index)]
            U == {G(v) : v \in {CHOOSE y \in T : TRUE}}
            V == {G(v) : v \in {r}}
<1>1. pkt_handler(s, c, p, now) = CHOOSE y \in U : TRUE
  BY DEF pkt_handler, With
<1>2. T = {F(i)} /\ V = {G(r)}
  <2>. HIDE DEF F, G
  <2>. QED
    OBVIOUS
<1>3. F(i) = r
  BY DEF SessionOf
<1>4. (CHOOSE y \in T : TRUE) = r
  <2>. HIDE DEF F, T
  <2>. QED
    BY <1>2, <1>3, OnlyChoice
<1>5. U = V
  <2>. HIDE DEF G, T
  <2>. QED
    BY <1>4
<1>6. (CHOOSE y \in V : TRUE) = G(r)
  <2>. HIDE DEF G, V
  <2>. PICK e : e = G(r)
    OBVIOUS
  <2>. QED
    BY <1>2, OnlyChoice
<1>7. pkt_handler(s, c, p, now) = G(r)
  <2>. HIDE DEF G, U, V
  <2>. QED
    BY <1>1, <1>5, <1>6
<1>. QED
  BY <1>7

(* The handler keeps the table sound and rewrites the packet to the tuple  *)
(* of its session.                                                         *)
LEMMA HandlerKeeps ==
  ASSUME NEW s, TableInv(s), NEW c \in Cores, NEW p, Key(p) \in Keys, CanRun(s, c, p), NEW now,
         NEW h, h = pkt_handler(s, c, p, now)
  PROVE  TableInv(h.nat) /\ \E i : HasSession(h.nat, p, i) /\ h.pkt = Rewritten(p, i)
<1>. PICK r : r = SessionOf(s, c, p, now)
  OBVIOUS
<1>1. TableInv(r.nat) /\ HasSession(r.nat, p, r.index)
  BY SessionOpened DEF Opened
<1>2. h = [nat |-> Refresh(r.nat, r.index, now), pkt |-> Rewritten(p, r.index)]
  BY HandlerIs
<1>3. h.nat = Refresh(r.nat, r.index, now) /\ h.pkt = Rewritten(p, r.index)
  BY <1>2
<1>4. SameTable(r.nat, Refresh(r.nat, r.index, now))
  BY <1>1, SameRefresh DEF TableInv
<1>5. TableInv(h.nat) /\ HasSession(h.nat, p, r.index)
  BY <1>1, <1>3, <1>4, SameTableInv
<1>. QED
  BY <1>3, <1>5
-----------------------------------------------------------------------------
(* Quotient and rest of a number below n * a. *)
LEMMA Split ==
  ASSUME NEW n \in Nat \ {0}, NEW a \in Nat, NEW x \in Nat, x < n * a
  PROVE  /\ x \div n \in Nat /\ x \div n < a
         /\ (x % n) \in 0..n - 1 /\ n * (x \div n) \in Nat /\ x = n * (x \div n) + (x % n)
<1>. PICK q, r : q = x \div n /\ r = (x % n)
  OBVIOUS
<1>1. q \in Nat /\ n * q \in Nat
  BY ChunkBounds
<1>2. r \in 0..n - 1 /\ x = n * q + r
  OBVIOUS
<1>3. q < a
  <2>. SUFFICES ASSUME q >= a PROVE FALSE
    BY <1>1
  <2>1. \A c, d \in Nat : c >= d => n * c >= n * d /\ n * d \in Nat
    OBVIOUS
  <2>2. n * q >= n * a
    BY <2>1, <1>1
  <2>3. n * a \in Nat
    BY <2>1
  <2>. QED
    BY <1>1, <1>2, <2>2, <2>3
<1>. QED
  BY <1>1, <1>2, <1>3

(* Session i of protocol proto. *)
OfProtocol(i, proto) == i \in SessionIds /\ (proto = TCP <=> i < num_avail_ext_tuples)

(* The external tuple of a session belongs to the NAT and leads back to it. *)
LEMMA TupleOfSession ==
  ASSUME NEW i, NEW proto, OfProtocol(i, proto)
  PROVE  /\ sess_id_to_ext_tuple(i, proto) \in ExternalTuples
         /\ ext_tuple_to_sess_id(sess_id_to_ext_tuple(i, proto), proto) = i
<1>. PICK P, A, N : P = port_space_size /\ A = NUM_EXTERNAL_ADDRS /\ N = num_avail_ext_tuples
  OBVIOUS
<1>1. P \in Nat \ {0} /\ A \in Nat \ {0} /\ N \in Nat \ {0} /\ N = P * A
  BY TupleCount DEF num_avail_ext_tuples
<1>. PICK shift : shift = IF proto = TCP THEN 0 ELSE N
  OBVIOUS
<1>. PICK id : id = i - shift
  OBVIOUS
<1>2. i \in Int /\ shift \in Nat /\ id \in 0..N - 1 /\ i = id + shift
  BY <1>1 DEF OfProtocol, SessionIds
<1>. PICK q, r : q = id \div P /\ r = (id % P)
  OBVIOUS
<1>3. q \in Nat /\ q < A /\ r \in 0..P - 1 /\ P * q \in Nat /\ id = P * q + r
  <2>1. P \in Nat \ {0} /\ A \in Nat /\ id \in Nat /\ id < P * A
    BY <1>1, <1>2
  <2>2. /\ id \div P \in Nat /\ id \div P < A
        /\ (id % P) \in 0..P - 1 /\ P * (id \div P) \in Nat /\ id = P * (id \div P) + (id % P)
    BY ONLY <2>1, Split, ZenonT(60)
  <2>. QED
    BY <2>2, Zenon
<1>4. q \in 0..A - 1
  BY <1>1, <1>3
<1>5. sess_id_to_ext_tuple(i, proto) = <<q + EXTERNAL_ADDR, r + EXTERNAL_PORT_LOW>>
  BY <1>1, <1>2 DEF sess_id_to_ext_tuple
<1>6. EXTERNAL_ADDR \in Nat /\ EXTERNAL_PORT_LOW \in Nat /\ EXTERNAL_PORT_HIGH \in Nat
  BY NatsAssumption
<1>7. q + EXTERNAL_ADDR \in EXTERNAL_ADDR..EXTERNAL_ADDR + NUM_EXTERNAL_ADDRS - 1
  BY <1>1, <1>4, <1>6
<1>8. r + EXTERNAL_PORT_LOW \in EXTERNAL_PORT_LOW..EXTERNAL_PORT_HIGH
  <2>1. P = EXTERNAL_PORT_HIGH - EXTERNAL_PORT_LOW + 1
    BY DEF port_space_size
  <2>2. r \in Nat /\ r <= P - 1
    BY <1>1, <1>3
  <2>. QED
    BY <2>1, <2>2, <1>6
<1>9. (r + EXTERNAL_PORT_LOW) - EXTERNAL_PORT_LOW = r /\ (q + EXTERNAL_ADDR) - EXTERNAL_ADDR = q
  BY <1>3, <1>6
<1>10. ext_tuple_to_sess_id(<<q + EXTERNAL_ADDR, r + EXTERNAL_PORT_LOW>>, proto) = r + P * q + shift
  BY <1>9 DEF ext_tuple_to_sess_id
<1>. QED
  BY <1>2, <1>3, <1>5, <1>7, <1>8, <1>10 DEF ExternalTuples

(* A packet of the LAN or one that an earlier run rewrote. *)
Packet(p) ==
  /\ p \in [addr : Nat, port : Nat, proto : Nat, dst : DOMAIN Fib]
  /\ Hashed(<<p.addr, p.port>>, p.proto)
  /\ \A end \in ExternalTuples : Hashed(end, p.proto)

(* The rewritten packet is one again, and names its session. *)
LEMMA RewrittenPacket ==
  ASSUME NEW p, Packet(p), NEW i, OfProtocol(i, p.proto), NEW w, w = Rewritten(p, i)
  PROVE  Packet(w) /\ ext_tuple_to_sess_id(<<w.addr, w.port>>, w.proto) = i
<1>. PICK ext : ext = sess_id_to_ext_tuple(i, p.proto)
  OBVIOUS
<1>1. ext \in ExternalTuples /\ ext_tuple_to_sess_id(ext, p.proto) = i
  BY TupleOfSession
<1>2. ext = <<ext[1], ext[2]>> /\ ext[1] \in Nat /\ ext[2] \in Nat
  BY <1>1, NatsAssumption DEF ExternalTuples
<1>3. p = [addr |-> p.addr, port |-> p.port, proto |-> p.proto, dst |-> p.dst] /\ p.proto \in Nat /\ p.dst \in DOMAIN Fib
  BY DEF Packet
<1>4. w = [p EXCEPT !.addr = ext[1], !.port = ext[2]]
  BY DEF Rewritten
<1>5. w = [addr |-> ext[1], port |-> ext[2], proto |-> p.proto, dst |-> p.dst]
  BY <1>3, <1>4
<1>6. w.addr = ext[1] /\ w.port = ext[2] /\ w.proto = p.proto
  BY <1>5
<1>7. Hashed(ext, p.proto) /\ \A end \in ExternalTuples : Hashed(end, p.proto)
  BY <1>1 DEF Packet
<1>8. w \in [addr : Nat, port : Nat, proto : Nat, dst : DOMAIN Fib]
  BY <1>2, <1>3, <1>5
<1>. QED
  BY <1>1, <1>2, <1>6, <1>7, <1>8 DEF Packet

(* A session has the protocol of its key. *)
LEMMA SessionProtocol ==
  ASSUME NEW s, TableInv(s), NEW p, NEW i, HasSession(s, p, i)
  PROVE  OfProtocol(i, p.proto)
<1>1. PICK x \in Busy(s.session_map) : s.session_map[x].key = Key(p) /\ s.session_map[x].vals = i
  BY DEF HasSession
<1>2. EntryOK(s, x)
  BY DEF TableInv
<1>3. s.session_map[x].key[3] = p.proto
  BY <1>1 DEF Key
<1>. QED
  BY <1>1, <1>2, <1>3 DEF EntryOK, OfProtocol

-----------------------------------------------------------------------------
(* The sessions of the two allocators. *)
LEMMA SessionsAre ==
  ASSUME TRUE
  PROVE  Sessions = {i \in SessionIds : IsSession(nat, i)}
<1>. PICK N : N = num_avail_ext_tuples
  OBVIOUS
<1>1. N \in Nat \ {0} /\ SessionIds = 0..2 * N - 1
  BY TupleCount DEF SessionIds
<1>2. ASSUME NEW i \in Sessions
      PROVE  i \in SessionIds /\ IsSession(nat, i)
  <2>1. CASE i \in Allocated(nat.sess_indexes_tcp)
    <3>1. i \in 0..N - 1 /\ Tuples!IsAllocated(nat.sess_indexes_tcp, i)
      BY <2>1 DEF Allocated
    <3>2. i < N /\ i \in SessionIds
      BY <3>1, <1>1
    <3>. QED
      BY <3>1, <3>2 DEF IsSession
  <2>2. CASE \E j \in Allocated(nat.sess_indexes_udp) : i = j + N
    <3>1. PICK j : j \in 0..N - 1 /\ Tuples!IsAllocated(nat.sess_indexes_udp, j) /\ i = j + N
      BY <2>2 DEF Allocated
    <3>2. ~(i < N) /\ i \in SessionIds /\ i - N = j
      BY <3>1, <1>1
    <3>. QED
      BY <3>1, <3>2 DEF IsSession
  <2>. QED
    BY <2>1, <2>2 DEF Sessions
<1>3. ASSUME NEW i \in SessionIds, IsSession(nat, i)
      PROVE  i \in Sessions
  <2>1. CASE i < N
    <3>1. i \in 0..N - 1 /\ Tuples!IsAllocated(nat.sess_indexes_tcp, i)
      BY <2>1, <1>1, <1>3 DEF IsSession
    <3>2. i \in Allocated(nat.sess_indexes_tcp)
      BY <3>1 DEF Allocated
    <3>. QED
      BY <3>2 DEF Sessions
  <2>2. CASE ~(i < N)
    <3>. PICK j : j = i - N
      OBVIOUS
    <3>1. j \in 0..N - 1 /\ i = j + N
      BY <2>2, <1>1, <1>3
    <3>2. Tuples!IsAllocated(nat.sess_indexes_udp, j)
      BY <2>2, <1>3 DEF IsSession
    <3>3. j \in Allocated(nat.sess_indexes_udp)
      BY <3>1, <3>2 DEF Allocated
    <3>. QED
      BY <3>1, <3>3 DEF Sessions
  <2>. QED
    BY <2>1, <2>2
<1>. QED
  BY <1>2, <1>3

(* The invariant says that the table is sound. *)
LEMMA TableInvSound ==
  ASSUME TableInv(nat)
  PROVE  NatTableSound
<1>. PICK m : m = nat.session_map
  OBVIOUS
<1>. DEFINE f == [x \in Busy(m) |-> m[x].vals]
<1>1. Sessions = {i \in SessionIds : IsSession(nat, i)}
  BY SessionsAre
<1>2. MapOf(m, Cells) /\ MapSound(m) /\ OneEach(nat) /\ Allotted(nat)
  BY DEF TableInv
<1>3. ASSUME NEW x \in Busy(m) PROVE EntryOK(nat, x)
  BY DEF TableInv
<1>4. Cardinality(Busy(m)) = Cardinality(Sessions)
  <2>1. IsFiniteSet(Busy(m))
    BY <1>2, MapFacts
  <2>2. f \in [Busy(m) -> Sessions]
    BY <1>1, <1>3 DEF EntryOK
  <2>3. \A x, y \in Busy(m) : f[x] = f[y] => x = y
    BY <1>2 DEF OneEach
  <2>4. \A i \in Sessions : \E x \in Busy(m) : f[x] = i
    BY <1>1, <1>2 DEF OneEach
  <2>5. f \in Bijection(Busy(m), Sessions)
    <3>. HIDE DEF f
    <3>. QED
      BY <2>2, <2>3, <2>4 DEF Bijection, Injection, Surjection, IsInjective
  <2>6. ExistsBijection(Busy(m), Sessions)
    <3>. HIDE DEF f
    <3>. QED
      BY <2>5 DEF ExistsBijection
  <2>. QED
    BY <2>1, <2>6, FS_Bijection
<1>5. ASSUME NEW i \in Sessions
      PROVE  \E k \in Owner(i) :
               /\ Owner(i) = {k}
               /\ (k[3] = TCP) = (i < num_avail_ext_tuples)
               /\ <<nat.session_data[i].int_ip, nat.session_data[i].int_port>> = <<k[1], k[2]>>
               /\ ext_tuple_to_sess_id(sess_id_to_ext_tuple(i, k[3]), k[3]) = i
  <2>1. PICK x \in Busy(m) : m[x].vals = i
    BY <1>1, <1>2, <1>5 DEF OneEach
  <2>. PICK k : k = m[x].key
    OBVIOUS
  <2>2. Owner(i) = {k}
    <3>1. {y \in Busy(m) : m[y].vals = i} = {x}
      BY <2>1, <1>2 DEF OneEach
    <3>. QED
      BY <3>1 DEF Owner
  <2>3. /\ i \in SessionIds /\ (k[3] = TCP <=> i < num_avail_ext_tuples)
        /\ nat.session_data[i].int_ip = k[1] /\ nat.session_data[i].int_port = k[2]
    <3>1. EntryOK(nat, x)
      BY <1>3
    <3>. QED
      BY <2>1, <3>1 DEF EntryOK
  <2>4. ext_tuple_to_sess_id(sess_id_to_ext_tuple(i, k[3]), k[3]) = i
    <3>1. OfProtocol(i, k[3])
      BY <2>3 DEF OfProtocol
    <3>. QED
      BY <3>1, TupleOfSession
  <2>5. (k[3] = TCP) = (i < num_avail_ext_tuples)
    BY <2>3
  <2>6. k \in Owner(i)
    BY <2>2
  <2>. QED
    BY <2>2, <2>3, <2>4, <2>5, <2>6
<1>6. Tuples!ChainSound(nat.sess_indexes_tcp) /\ Tuples!ChainSound(nat.sess_indexes_udp)
  BY <1>2, TupleChainSound DEF Allotted
<1>. QED
  BY <1>2, <1>4, <1>5, <1>6 DEF NatTableSound
-----------------------------------------------------------------------------
(* The packets to run again are ones that the handler can take. *)
Retries(r) ==
  /\ r = [c \in Cores |-> r[c]]
  /\ \A c \in Cores : r[c] # NotRetried => Packet(r[c].pkt)

(* The inductive invariant. *)
NatInv == TableInv(nat) /\ Retries(retry) /\ TranslatedBySession

(* nf_init. *)
LEMMA NatInvInit == Init => NatInv
<1>. SUFFICES ASSUME Init PROVE NatInv
  OBVIOUS
<1>. PICK m : m = nfos_map_allocate(2 * MAX_NUM_SESSIONS)
  OBVIOUS
<1>. PICK d : d = Tuples!nfos_dchain_allocate
  OBVIOUS
<1>. PICK zero : zero = [next |-> 0, prev |-> 0, last_used |-> 0, int_ip |-> 0, int_port |-> 0, user_index |-> 0]
  OBVIOUS
<1>1. /\ nat.session_map = m /\ nat.sess_indexes_tcp = d /\ nat.sess_indexes_udp = d
      /\ nat.session_data = [i \in SessionIds |-> zero] /\ NatRec(nat)
  BY DEF Init, NatRec, SessionIds
<1>2. MapOf(m, Cells) /\ MapSound(m) /\ Busy(m) = {}
  <2>1. 2 * MAX_NUM_SESSIONS \in Nat
    BY NatsAssumption
  <2>2. Cells \in Nat \ {0}
    BY <2>1, NextPow2 DEF Cells
  <2>3. m = [x \in 0..Cells - 1 |-> FreeCell]
    BY DEF nfos_map_allocate, Cells
  <2>. QED
    BY <2>2, <2>3, EmptySound
<1>3. Shaped(nat)
  <2>1. NodeRec(zero)
    BY DEF NodeRec
  <2>2. Nodes(nat.session_data)
    BY <2>1, <1>1 DEF Nodes
  <2>. QED
    BY <2>2, <1>1 DEF Shaped
<1>4. TupleChain(d) /\ \A i \in TupleIds : ~Tuples!IsAllocated(d, i)
  BY FirstTuples
<1>5. \A i \in SessionIds : ~IsSession(nat, i)
  <2>. PICK N : N = num_avail_ext_tuples
    OBVIOUS
  <2>1. N \in Nat \ {0} /\ SessionIds = 0..2 * N - 1 /\ TupleIds = 0..N - 1
    BY TupleCount DEF SessionIds, TupleIds
  <2>2. \A i \in SessionIds : IF i < N THEN i \in TupleIds ELSE i - N \in TupleIds
    BY <2>1
  <2>. QED
    BY <2>2, <1>1, <1>4 DEF IsSession
<1>6. OneEach(nat)
  BY <1>1, <1>2, <1>5 DEF OneEach
<1>7. TableInv(nat)
  BY <1>1, <1>2, <1>3, <1>4, <1>6 DEF TableInv, Allotted
<1>8. Retries(retry)
  BY DEF Init, Retries
<1>9. TranslatedBySession
  BY NatsAssumption DEF Init, TranslatedBySession, NotSent
<1>. QED
  BY <1>7, <1>8, <1>9 DEF NatInv

(* The key of a packet. *)
LEMMA PacketKey ==
  ASSUME NEW p, Packet(p)
  PROVE  Key(p) \in Keys
<1>1. <<p.addr, p.port>>[1] = p.addr /\ <<p.addr, p.port>>[2] = p.port
  OBVIOUS
<1>. QED
  BY <1>1 DEF Packet, Hashed, Key, Keys

(* A committed run. *)
LEMMA NatInvCommits ==
  ASSUME NatInv, NEW c \in Cores, NEW orig, NEW p, Packet(p), NEW now, Commits(c, orig, p, now)
  PROVE  NatInv'
<1>. PICK h : h = pkt_handler(nat, c, p, now)
  OBVIOUS
<1>1. /\ nat' = h.nat
      /\ sent' = [orig |-> orig, from |-> p, pkt |-> h.pkt, dev |-> Destination(p)]
      /\ retry' = [retry EXCEPT ![c] = NotRetried]
  BY DEF Commits
<1>2. TableInv(h.nat) /\ \E i : HasSession(h.nat, p, i) /\ h.pkt = Rewritten(p, i)
  <2>1. CanRun(nat, c, p)
    BY DEF Commits, Runs, CanRun
  <2>2. TableInv(nat) /\ Key(p) \in Keys
    BY PacketKey DEF NatInv
  <2>. QED
    BY <2>1, <2>2, HandlerKeeps
<1>3. PICK i : HasSession(h.nat, p, i) /\ h.pkt = Rewritten(p, i)
  BY <1>2
<1>4. TableInv(nat') /\ HasSession(nat', p, i)
  BY <1>1, <1>2, <1>3
<1>5. Retries(retry')
  BY <1>1 DEF NatInv, Retries
<1>6. TranslatedBySession'
  <2>1. OfProtocol(i, p.proto)
    BY <1>2, <1>3, SessionProtocol
  <2>2. ext_tuple_to_sess_id(<<h.pkt.addr, h.pkt.port>>, h.pkt.proto) = i
    BY <2>1, <1>3, RewrittenPacket
  <2>3. {nat'.session_map[x].key : x \in {y \in Busy(nat'.session_map) : nat'.session_map[y].vals = i}} = {Key(p)}
    <3>1. PICK x \in Busy(nat'.session_map) : nat'.session_map[x].key = Key(p) /\ nat'.session_map[x].vals = i
      BY <1>4 DEF HasSession
    <3>2. {y \in Busy(nat'.session_map) : nat'.session_map[y].vals = i} = {x}
      BY <3>1, <1>4 DEF TableInv, OneEach
    <3>. QED
      BY <3>1, <3>2
  <2>4. sent'.pkt = h.pkt /\ sent'.from = p
    BY <1>1
  <2>5. Key(sent.from)' = Key(p)
    BY <2>4 DEF Key
  <2>6. Owner(i)' = {Key(p)}
    BY <2>3 DEF Owner
  <2>7. SourceNamesEndpoint(sent.from)'
    BY <2>2, <2>4, <2>5, <2>6 DEF SourceNamesEndpoint
  <2>. QED
    BY <2>7 DEF TranslatedBySession
<1>. QED
  BY <1>4, <1>5, <1>6 DEF NatInv

(* A run whose commit fails. *)
LEMMA NatInvCommitFails ==
  ASSUME NatInv, NEW c \in Cores, NEW orig, NEW p, Packet(p), NEW now, CommitFails(c, orig, p, now)
  PROVE  NatInv'
<1>. PICK h : h = pkt_handler(nat, c, p, now)
  OBVIOUS
<1>. PICK r : r = [orig |-> orig, pkt |-> h.pkt]
  OBVIOUS
<1>1. nat' = nat /\ sent' = NotSent /\ retry' = [retry EXCEPT ![c] = r]
  BY DEF CommitFails
<1>2. TableInv(h.nat) /\ \E i : HasSession(h.nat, p, i) /\ h.pkt = Rewritten(p, i)
  <2>1. CanRun(nat, c, p)
    BY DEF CommitFails, Runs, CanRun
  <2>2. TableInv(nat) /\ Key(p) \in Keys
    BY PacketKey DEF NatInv
  <2>. QED
    BY <2>1, <2>2, HandlerKeeps
<1>3. PICK i : HasSession(h.nat, p, i) /\ h.pkt = Rewritten(p, i)
  BY <1>2
<1>4. Packet(r.pkt)
  <2>1. OfProtocol(i, p.proto)
    BY <1>2, <1>3, SessionProtocol
  <2>2. r.pkt = h.pkt
    OBVIOUS
  <2>. QED
    BY <2>1, <2>2, <1>3, RewrittenPacket
<1>5. Retries(retry')
  BY <1>1, <1>4 DEF NatInv, Retries
<1>6. TranslatedBySession'
  BY <1>1, NatsAssumption DEF TranslatedBySession, NotSent
<1>. QED
  BY <1>1, <1>5, <1>6 DEF NatInv

(* Every step. *)
LEMMA NatInvStep ==
  ASSUME NatInv, [Next]_vars
  PROVE  NatInv'
<1>1. ASSUME NEW now, NEW p \in Packets, Arrives(Rss[p], p, now)
      PROVE  NatInv'
  <2>1. Packet(p) /\ Rss[p] \in Cores
    BY NatsAssumption DEF Packet, Cores, Tuples!Cores
  <2>2. Commits(Rss[p], p, p, now) \/ CommitFails(Rss[p], p, p, now)
    BY <1>1 DEF Arrives
  <2>. QED
    BY <2>1, <2>2, NatInvCommits, NatInvCommitFails
<1>2. ASSUME NEW now, NEW c \in Cores, Restarts(c, now)
      PROVE  NatInv'
  <2>1. Packet(retry[c].pkt)
    BY <1>2 DEF Restarts, NatInv, Retries
  <2>2. Commits(c, retry[c].orig, retry[c].pkt, now) \/ CommitFails(c, retry[c].orig, retry[c].pkt, now)
    BY <1>2 DEF Restarts
  <2>. QED
    BY <2>1, <2>2, NatInvCommits, NatInvCommitFails
<1>3. CASE Advance
  <2>1. nat' = nat /\ retry' = retry /\ sent' = NotSent
    BY <1>3 DEF Advance
  <2>2. TranslatedBySession'
    BY <2>1, NatsAssumption DEF TranslatedBySession, NotSent
  <2>. QED
    BY <2>1, <2>2 DEF NatInv
<1>4. CASE UNCHANGED vars
  <2>1. nat' = nat /\ retry' = retry /\ sent' = sent
    BY <1>4 DEF vars
  <2>2. TranslatedBySession'
    BY <2>1 DEF NatInv, TranslatedBySession, SourceNamesEndpoint, Owner
  <2>. QED
    BY <2>1, <2>2 DEF NatInv
<1>. QED
  BY <1>1, <1>2, <1>3, <1>4 DEF Next

(* The session table of both NATs is sound for any number of cores, ports  *)
(* and addresses, however runs of the handler commit, fail and repeat.     *)
THEOREM TableSound == Spec => []NatTableSound
<1>1. NatInv => NatTableSound
  BY TableInvSound DEF NatInv
<1>. QED
  BY <1>1, NatInvInit, NatInvStep, PTL DEF Spec

(* The source of every packet that leaves names exactly the endpoint that  *)
(* its header named when the committed run of the handler began.           *)
THEOREM TranslationFaithful == Spec => []TranslatedBySession
<1>1. NatInv => TranslatedBySession
  BY DEF NatInv
<1>. QED
  BY <1>1, NatInvInit, NatInvStep, PTL DEF Spec
-----------------------------------------------------------------------------
(* The lists of sessions.  The list of user u goes from its head, which is *)
(* in user_data[u], through session_data.                                  *)
UserIds == 0..MAX_NUM_USERS - 1
ListCells == SessionIds \cup {SESS_LIST_HEAD}

UserRec(r) == r = [next |-> r.next, prev |-> r.prev, num_sessions |-> r.num_sessions]
UserNodes(f) == f = [u \in UserIds |-> f[u]] /\ \A u \in UserIds : UserRec(f[u])
Well(s) == Shaped(s) /\ UserNodes(s.user_data)

After(s, u, x) == IF x = SESS_LIST_HEAD THEN s.user_data[u].next ELSE s.session_data[x].next
Before(s, u, x) == IF x = SESS_LIST_HEAD THEN s.user_data[u].prev ELSE s.session_data[x].prev

(* Cell x of user u's list is cell z of user v's. *)
SameCell(u, x, v, z) == z = x /\ (x = SESS_LIST_HEAD => v = u)

(* From s to t, one link changes. *)
SetsAfter(s, t, u, x, y) ==
  \A v \in UserIds, z \in ListCells :
    /\ After(t, v, z) = IF SameCell(u, x, v, z) THEN y ELSE After(s, v, z)
    /\ Before(t, v, z) = Before(s, v, z)

SetsBefore(s, t, u, x, y) ==
  \A v \in UserIds, z \in ListCells :
    /\ After(t, v, z) = After(s, v, z)
    /\ Before(t, v, z) = IF SameCell(u, x, v, z) THEN y ELSE Before(s, v, z)

(* ... and nothing else. *)
OnlyLinks(s, t) ==
  /\ SameTable(s, t) /\ UserNodes(t.user_data) /\ t.user_map = s.user_map /\ t.user_indexes = s.user_indexes
  /\ \A x \in SessionIds : /\ t.session_data[x].user_index = s.session_data[x].user_index
                           /\ t.session_data[x].last_used = s.session_data[x].last_used
  /\ \A u \in UserIds : t.user_data[u].num_sessions = s.user_data[u].num_sessions

(* Two such steps. *)
LEMMA OnlyLinksTwice ==
  ASSUME NEW s, NEW t, NEW w, OnlyLinks(s, t), OnlyLinks(t, w)
  PROVE  OnlyLinks(s, w) /\ Well(w)
<1>1. SameTable(s, w) /\ Shaped(w)
  BY SameTableTwice DEF OnlyLinks
<1>. QED
  BY <1>1 DEF OnlyLinks, Well

(* The state after such a step. *)
LEMMA OnlyLinksWell ==
  ASSUME NEW s, NEW t, OnlyLinks(s, t)
  PROVE  Well(t)
  BY DEF OnlyLinks, Well, SameTable, Shaped

(* The head is no session. *)
LEMMA HeadApart == SESS_LIST_HEAD \notin SessionIds /\ SESS_LIST_HEAD = -1 /\ 0 \in SessionIds
  BY TupleCount DEF SESS_LIST_HEAD, SessionIds

(* A session gets new links. *)
LEMMA ElementIs ==
  ASSUME NEW s, Well(s), NEW x \in SessionIds, NEW q, NEW t, SetsElement(s, x, q, t)
  PROVE  /\ NatRec(t) /\ t.session_map = s.session_map
         /\ t.sess_indexes_tcp = s.sess_indexes_tcp /\ t.sess_indexes_udp = s.sess_indexes_udp
         /\ t.user_map = s.user_map /\ t.user_data = s.user_data /\ t.user_indexes = s.user_indexes
         /\ t.session_data = [z \in SessionIds |-> t.session_data[z]]
         /\ \A z \in SessionIds : t.session_data[z] = IF z = x THEN q ELSE s.session_data[z]
<1>. PICK f : f = s.session_data
  OBVIOUS
<1>. PICK g : g = [f EXCEPT ![x] = q]
  OBVIOUS
<1>1. f = [i \in SessionIds |-> f[i]]
  BY DEF Well, Shaped, Nodes
<1>2. t = [s EXCEPT !.session_data = g]
  BY DEF SetsElement
<1>3. /\ NatRec(t) /\ t.session_data = g /\ t.session_map = s.session_map
      /\ t.sess_indexes_tcp = s.sess_indexes_tcp /\ t.sess_indexes_udp = s.sess_indexes_udp
      /\ t.user_map = s.user_map /\ t.user_data = s.user_data /\ t.user_indexes = s.user_indexes
  BY <1>2, SetData DEF Well, Shaped
<1>4. g = [z \in SessionIds |-> g[z]] /\ \A z \in SessionIds : g[z] = IF z = x THEN q ELSE f[z]
  BY <1>1
<1>. QED
  BY <1>3, <1>4

SetsHead(s, u, q, t) == t = [s EXCEPT !.user_data = [@ EXCEPT ![u] = q]]

(* A user gets new links or a new count. *)
LEMMA HeadIs ==
  ASSUME NEW s, Well(s), NEW u \in UserIds, NEW q, NEW t, SetsHead(s, u, q, t)
  PROVE  /\ NatRec(t) /\ t.session_map = s.session_map
         /\ t.sess_indexes_tcp = s.sess_indexes_tcp /\ t.sess_indexes_udp = s.sess_indexes_udp
         /\ t.user_map = s.user_map /\ t.session_data = s.session_data /\ t.user_indexes = s.user_indexes
         /\ t.user_data = [z \in UserIds |-> t.user_data[z]]
         /\ \A z \in UserIds : t.user_data[z] = IF z = u THEN q ELSE s.user_data[z]
<1>. PICK f : f = s.user_data
  OBVIOUS
<1>. PICK g : g = [f EXCEPT ![u] = q]
  OBVIOUS
<1>1. f = [i \in UserIds |-> f[i]]
  BY DEF Well, UserNodes
<1>2. t = [s EXCEPT !.user_data = g]
  BY DEF SetsHead
<1>3. /\ NatRec(t) /\ t.session_data = s.session_data /\ t.session_map = s.session_map
      /\ t.sess_indexes_tcp = s.sess_indexes_tcp /\ t.sess_indexes_udp = s.sess_indexes_udp
      /\ t.user_map = s.user_map /\ t.user_data = g /\ t.user_indexes = s.user_indexes
  BY <1>2 DEF Well, Shaped, NatRec
<1>4. g = [z \in UserIds |-> g[z]] /\ \A z \in UserIds : g[z] = IF z = u THEN q ELSE f[z]
  BY <1>1
<1>. QED
  BY <1>3, <1>4

(* The next of a session. *)
LEMMA SetSessionNext ==
  ASSUME NEW s, Well(s), NEW u, NEW x \in SessionIds, NEW y, NEW t,
         SetsElement(s, x, [s.session_data[x] EXCEPT !.next = y], t)
  PROVE  OnlyLinks(s, t) /\ SetsAfter(s, t, u, x, y)
<1>. PICK r : r = s.session_data[x]
  OBVIOUS
<1>. PICK q : q = [r EXCEPT !.next = y]
  OBVIOUS
<1>1. NodeRec(r) /\ NodeRec(q) /\ q.next = y /\ q.prev = r.prev /\ q.last_used = r.last_used /\ q.int_ip = r.int_ip
      /\ q.int_port = r.int_port /\ q.user_index = r.user_index
  <2>1. NodeRec(r)
    BY DEF Well, Shaped, Nodes
  <2>. QED
    BY <2>1 DEF NodeRec
<1>2. /\ NatRec(t) /\ t.session_map = s.session_map
      /\ t.sess_indexes_tcp = s.sess_indexes_tcp /\ t.sess_indexes_udp = s.sess_indexes_udp
      /\ t.user_map = s.user_map /\ t.user_data = s.user_data /\ t.user_indexes = s.user_indexes
      /\ t.session_data = [z \in SessionIds |-> t.session_data[z]]
      /\ \A z \in SessionIds : t.session_data[z] = IF z = x THEN q ELSE s.session_data[z]
  BY ElementIs
<1>3. Nodes(t.session_data)
  <2>1. \A z \in SessionIds : NodeRec(s.session_data[z])
    BY DEF Well, Shaped, Nodes
  <2>. QED
    BY <2>1, <1>1, <1>2 DEF Nodes
<1>4. SameTable(s, t)
  BY <1>1, <1>2, <1>3 DEF SameTable
<1>5. OnlyLinks(s, t)
  BY <1>1, <1>2, <1>4 DEF OnlyLinks, Well
<1>6. SetsAfter(s, t, u, x, y)
  <2>1. \A v \in UserIds : /\ After(t, v, SESS_LIST_HEAD) = After(s, v, SESS_LIST_HEAD)
                           /\ Before(t, v, SESS_LIST_HEAD) = Before(s, v, SESS_LIST_HEAD)
                           /\ ~SameCell(u, x, v, SESS_LIST_HEAD)
    BY <1>2, HeadApart DEF After, Before, SameCell
  <2>2. \A v \in UserIds, z \in SessionIds :
          /\ After(t, v, z) = t.session_data[z].next /\ Before(t, v, z) = t.session_data[z].prev
          /\ After(s, v, z) = s.session_data[z].next /\ Before(s, v, z) = s.session_data[z].prev
          /\ SameCell(u, x, v, z) <=> z = x
    BY HeadApart DEF After, Before, SameCell
  <2>3. \A z \in SessionIds : /\ t.session_data[z].next = IF z = x THEN q.next ELSE s.session_data[z].next
                              /\ t.session_data[z].prev = IF z = x THEN q.prev ELSE s.session_data[z].prev
    BY <1>2
  <2>. QED
    BY <2>1, <2>2, <2>3, <1>1 DEF SetsAfter, ListCells
<1>. QED
  BY <1>5, <1>6

(* The prev of a session. *)
LEMMA SetSessionPrev ==
  ASSUME NEW s, Well(s), NEW u, NEW x \in SessionIds, NEW y, NEW t,
         SetsElement(s, x, [s.session_data[x] EXCEPT !.prev = y], t)
  PROVE  OnlyLinks(s, t) /\ SetsBefore(s, t, u, x, y)
<1>. PICK r : r = s.session_data[x]
  OBVIOUS
<1>. PICK q : q = [r EXCEPT !.prev = y]
  OBVIOUS
<1>1. NodeRec(r) /\ NodeRec(q) /\ q.next = r.next /\ q.prev = y /\ q.last_used = r.last_used /\ q.int_ip = r.int_ip
      /\ q.int_port = r.int_port /\ q.user_index = r.user_index
  <2>1. NodeRec(r)
    BY DEF Well, Shaped, Nodes
  <2>. QED
    BY <2>1 DEF NodeRec
<1>2. /\ NatRec(t) /\ t.session_map = s.session_map
      /\ t.sess_indexes_tcp = s.sess_indexes_tcp /\ t.sess_indexes_udp = s.sess_indexes_udp
      /\ t.user_map = s.user_map /\ t.user_data = s.user_data /\ t.user_indexes = s.user_indexes
      /\ t.session_data = [z \in SessionIds |-> t.session_data[z]]
      /\ \A z \in SessionIds : t.session_data[z] = IF z = x THEN q ELSE s.session_data[z]
  BY ElementIs
<1>3. Nodes(t.session_data)
  <2>1. \A z \in SessionIds : NodeRec(s.session_data[z])
    BY DEF Well, Shaped, Nodes
  <2>. QED
    BY <2>1, <1>1, <1>2 DEF Nodes
<1>4. SameTable(s, t)
  BY <1>1, <1>2, <1>3 DEF SameTable
<1>5. OnlyLinks(s, t)
  BY <1>1, <1>2, <1>4 DEF OnlyLinks, Well
<1>6. SetsBefore(s, t, u, x, y)
  <2>1. \A v \in UserIds : /\ After(t, v, SESS_LIST_HEAD) = After(s, v, SESS_LIST_HEAD)
                           /\ Before(t, v, SESS_LIST_HEAD) = Before(s, v, SESS_LIST_HEAD)
                           /\ ~SameCell(u, x, v, SESS_LIST_HEAD)
    BY <1>2, HeadApart DEF After, Before, SameCell
  <2>2. \A v \in UserIds, z \in SessionIds :
          /\ After(t, v, z) = t.session_data[z].next /\ Before(t, v, z) = t.session_data[z].prev
          /\ After(s, v, z) = s.session_data[z].next /\ Before(s, v, z) = s.session_data[z].prev
          /\ SameCell(u, x, v, z) <=> z = x
    BY HeadApart DEF After, Before, SameCell
  <2>3. \A z \in SessionIds : /\ t.session_data[z].next = IF z = x THEN q.next ELSE s.session_data[z].next
                              /\ t.session_data[z].prev = IF z = x THEN q.prev ELSE s.session_data[z].prev
    BY <1>2
  <2>. QED
    BY <2>1, <2>2, <2>3, <1>1 DEF SetsBefore, ListCells
<1>. QED
  BY <1>5, <1>6

(* The links of a head. *)
LEMMA SetUserNext ==
  ASSUME NEW s, Well(s), NEW u \in UserIds, NEW y, NEW t,
         SetsHead(s, u, [s.user_data[u] EXCEPT !.next = y], t)
  PROVE  OnlyLinks(s, t) /\ SetsAfter(s, t, u, SESS_LIST_HEAD, y)
<1>. PICK r : r = s.user_data[u]
  OBVIOUS
<1>. PICK q : q = [r EXCEPT !.next = y]
  OBVIOUS
<1>1. UserRec(q) /\ q.next = y /\ q.prev = r.prev /\ q.num_sessions = r.num_sessions
  <2>1. UserRec(r)
    BY DEF Well, UserNodes
  <2>. QED
    BY <2>1 DEF UserRec
<1>2. /\ NatRec(t) /\ t.session_map = s.session_map
      /\ t.sess_indexes_tcp = s.sess_indexes_tcp /\ t.sess_indexes_udp = s.sess_indexes_udp
      /\ t.user_map = s.user_map /\ t.session_data = s.session_data /\ t.user_indexes = s.user_indexes
      /\ t.user_data = [z \in UserIds |-> t.user_data[z]]
      /\ \A z \in UserIds : t.user_data[z] = IF z = u THEN q ELSE s.user_data[z]
  BY HeadIs
<1>3. UserNodes(t.user_data)
  BY <1>1, <1>2 DEF Well, UserNodes
<1>4. SameTable(s, t)
  BY <1>2 DEF SameTable, Well, Shaped
<1>5. OnlyLinks(s, t)
  BY <1>1, <1>2, <1>3, <1>4 DEF OnlyLinks
<1>6. SetsAfter(s, t, u, SESS_LIST_HEAD, y)
  BY <1>1, <1>2, HeadApart DEF SetsAfter, After, Before, SameCell, ListCells
<1>. QED
  BY <1>5, <1>6

(* The same for the other direction. *)
LEMMA SetUserPrev ==
  ASSUME NEW s, Well(s), NEW u \in UserIds, NEW y, NEW t,
         SetsHead(s, u, [s.user_data[u] EXCEPT !.prev = y], t)
  PROVE  OnlyLinks(s, t) /\ SetsBefore(s, t, u, SESS_LIST_HEAD, y)
<1>. PICK r : r = s.user_data[u]
  OBVIOUS
<1>. PICK q : q = [r EXCEPT !.prev = y]
  OBVIOUS
<1>1. UserRec(q) /\ q.next = r.next /\ q.prev = y /\ q.num_sessions = r.num_sessions
  <2>1. UserRec(r)
    BY DEF Well, UserNodes
  <2>. QED
    BY <2>1 DEF UserRec
<1>2. /\ NatRec(t) /\ t.session_map = s.session_map
      /\ t.sess_indexes_tcp = s.sess_indexes_tcp /\ t.sess_indexes_udp = s.sess_indexes_udp
      /\ t.user_map = s.user_map /\ t.session_data = s.session_data /\ t.user_indexes = s.user_indexes
      /\ t.user_data = [z \in UserIds |-> t.user_data[z]]
      /\ \A z \in UserIds : t.user_data[z] = IF z = u THEN q ELSE s.user_data[z]
  BY HeadIs
<1>3. UserNodes(t.user_data)
  BY <1>1, <1>2 DEF Well, UserNodes
<1>4. SameTable(s, t)
  BY <1>2 DEF SameTable, Well, Shaped
<1>5. OnlyLinks(s, t)
  BY <1>1, <1>2, <1>3, <1>4 DEF OnlyLinks
<1>6. SetsBefore(s, t, u, SESS_LIST_HEAD, y)
  BY <1>1, <1>2, HeadApart DEF SetsBefore, After, Before, SameCell, ListCells
<1>. QED
  BY <1>5, <1>6

(* SetPrev. *)
LEMMA SetPrevIs ==
  ASSUME NEW s, Well(s), NEW u \in UserIds, NEW x \in ListCells, NEW y, NEW t, t = SetPrev(s, u, x, y)
  PROVE  OnlyLinks(s, t) /\ SetsBefore(s, t, u, x, y)
<1>1. CASE x = SESS_LIST_HEAD
  <2>1. SetsHead(s, u, [s.user_data[u] EXCEPT !.prev = y], t)
    BY <1>1 DEF SetPrev, SetsHead
  <2>. QED
    BY <2>1, <1>1, SetUserPrev
<1>2. CASE x # SESS_LIST_HEAD
  <2>1. SetsElement(s, x, [s.session_data[x] EXCEPT !.prev = y], t)
    BY <1>2 DEF SetPrev, SetsElement
  <2>2. x \in SessionIds
    BY <1>2 DEF ListCells
  <2>. QED
    BY <2>1, <2>2, SetSessionPrev
<1>. QED
  BY <1>1, <1>2

(* Session i goes to the head of the list of user u ... *)
Inserts(s, t, u, i) ==
  \A v \in UserIds, z \in ListCells :
    /\ After(t, v, z) = IF SameCell(u, SESS_LIST_HEAD, v, z) THEN i
                        ELSE IF z = i THEN After(s, u, SESS_LIST_HEAD) ELSE After(s, v, z)
    /\ Before(t, v, z) = IF z = i THEN SESS_LIST_HEAD
                         ELSE IF SameCell(u, After(s, u, SESS_LIST_HEAD), v, z) THEN i ELSE Before(s, v, z)

(* ... in InsertAtHead. *)
LEMMA InsertIs ==
  ASSUME NEW s, Well(s), NEW u \in UserIds, After(s, u, SESS_LIST_HEAD) \in ListCells, NEW i \in SessionIds,
         NEW t, t = InsertAtHead(s, u, i)
  PROVE  OnlyLinks(s, t) /\ Inserts(s, t, u, i)
<1>. PICK first : first = s.user_data[u].next
  OBVIOUS
<1>0. first = After(s, u, SESS_LIST_HEAD) /\ first \in ListCells
  BY DEF After
<1>. PICK t1 : t1 = SetPrev(s, u, first, i)
  OBVIOUS
<1>a. PICK t2 : SetsElement(t1, i, [t1.session_data[i] EXCEPT !.next = first], t2)
  BY DEF SetsElement
<1>b. PICK t3 : SetsElement(t2, i, [t2.session_data[i] EXCEPT !.prev = SESS_LIST_HEAD], t3)
  BY DEF SetsElement
<1>c. PICK t4 : SetsHead(t3, u, [t3.user_data[u] EXCEPT !.next = i], t4)
  BY DEF SetsHead
<1>1. OnlyLinks(s, t1) /\ SetsBefore(s, t1, u, first, i) /\ Well(t1)
  BY <1>0, SetPrevIs, OnlyLinksWell
<1>2. OnlyLinks(t1, t2) /\ SetsAfter(t1, t2, u, i, first) /\ Well(t2)
  BY <1>1, <1>a, SetSessionNext, OnlyLinksWell
<1>3. OnlyLinks(t2, t3) /\ SetsBefore(t2, t3, u, i, SESS_LIST_HEAD) /\ Well(t3)
  BY <1>2, <1>b, SetSessionPrev, OnlyLinksWell
<1>4. OnlyLinks(t3, t4) /\ SetsAfter(t3, t4, u, SESS_LIST_HEAD, i)
  BY <1>3, <1>c, SetUserNext
<1>5. OnlyLinks(s, t4)
  BY <1>1, <1>2, <1>3, <1>4, OnlyLinksTwice
<1>6. t = t4
  <2>1. t = [t1 EXCEPT !.session_data[i] = [@ EXCEPT !.next = first, !.prev = SESS_LIST_HEAD],
                       !.user_data[u].next = i]
    BY DEF InsertAtHead
  <2>2. PICK f : f = t1.session_data
    OBVIOUS
  <2>3. f = [z \in SessionIds |-> f[z]] /\ NatRec(t1)
    BY <2>2, <1>1 DEF Well, Shaped, Nodes
  <2>. PICK q1 : q1 = [f[i] EXCEPT !.next = first]
    OBVIOUS
  <2>. PICK q : q = [q1 EXCEPT !.prev = SESS_LIST_HEAD]
    OBVIOUS
  <2>. PICK g : g = [f EXCEPT ![i] = q1]
    OBVIOUS
  <2>4. t2 = [t1 EXCEPT !.session_data = g]
    BY <1>a, <2>2 DEF SetsElement
  <2>5. t2.session_data = g /\ NatRec(t2)
    BY <2>3, <2>4 DEF NatRec
  <2>6. g[i] = q1 /\ [g EXCEPT ![i] = q] = [f EXCEPT ![i] = q]
    BY <2>3
  <2>7. t3 = [t2 EXCEPT !.session_data = [f EXCEPT ![i] = q]]
    BY <1>b, <2>5, <2>6 DEF SetsElement
  <2>. PICK h : h = [f EXCEPT ![i] = q]
    OBVIOUS
  <2>8. t3 = [t1 EXCEPT !.session_data = h]
    BY <2>3, <2>4, <2>7 DEF NatRec
  <2>. PICK k : k = t3.user_data
    OBVIOUS
  <2>. PICK e : e = [k EXCEPT ![u] = [k[u] EXCEPT !.next = i]]
    OBVIOUS
  <2>9. t4 = [t3 EXCEPT !.user_data = e]
    BY <1>c DEF SetsHead
  <2>10. t1.user_data = k
    BY <2>3, <2>8 DEF NatRec
  <2>11. t = [t3 EXCEPT !.user_data = e]
    BY <2>1, <2>2, <2>8, <2>10
  <2>. QED
    BY <2>9, <2>11
<1>7. Inserts(s, t4, u, i)
  <2>. SUFFICES ASSUME NEW v \in UserIds, NEW z \in ListCells
                PROVE  /\ After(t4, v, z) = IF SameCell(u, SESS_LIST_HEAD, v, z) THEN i
                                            ELSE IF z = i THEN first ELSE After(s, v, z)
                       /\ Before(t4, v, z) = IF z = i THEN SESS_LIST_HEAD
                                             ELSE IF SameCell(u, first, v, z) THEN i ELSE Before(s, v, z)
    BY <1>0 DEF Inserts
  <2>0. SameCell(u, i, v, z) <=> z = i
    BY HeadApart DEF SameCell
  <2>1. After(t1, v, z) = After(s, v, z) /\ Before(t1, v, z) = IF SameCell(u, first, v, z) THEN i ELSE Before(s, v, z)
    BY <1>1 DEF SetsBefore
  <2>2. After(t2, v, z) = (IF z = i THEN first ELSE After(t1, v, z)) /\ Before(t2, v, z) = Before(t1, v, z)
    BY <1>2, <2>0 DEF SetsAfter
  <2>3. After(t3, v, z) = After(t2, v, z) /\ Before(t3, v, z) = IF z = i THEN SESS_LIST_HEAD ELSE Before(t2, v, z)
    BY <1>3, <2>0 DEF SetsBefore
  <2>4. /\ After(t4, v, z) = IF SameCell(u, SESS_LIST_HEAD, v, z) THEN i ELSE After(t3, v, z)
        /\ Before(t4, v, z) = Before(t3, v, z)
    BY <1>4 DEF SetsAfter
  <2>. QED
    BY <2>1, <2>2, <2>3, <2>4
<1>. QED
  BY <1>5, <1>6, <1>7

(* Session i is taken out of the list of user u, where it is not the first. *)
Removes(s, t, u, i) ==
  \A v \in UserIds, z \in ListCells :
    /\ After(t, v, z) = IF z = Before(s, u, i) THEN After(s, u, i) ELSE After(s, v, z)
    /\ Before(t, v, z) = IF SameCell(u, After(s, u, i), v, z) THEN Before(s, u, i) ELSE Before(s, v, z)

(* A session that is not the first one of its list is taken out and put    *)
(* in front.                                                               *)
LEMMA MoveIs ==
  ASSUME NEW s, Well(s), NEW i \in SessionIds, NEW u, u = s.session_data[i].user_index, u \in UserIds,
         Before(s, u, i) \in SessionIds, After(s, u, i) \in ListCells
  PROVE  \E t : OnlyLinks(s, t) /\ Removes(s, t, u, i) /\ MoveToHead(s, i) = InsertAtHead(t, u, i)
<1>. PICK node : node = s.session_data[i]
  OBVIOUS
<1>. PICK x, y : x = node.prev /\ y = node.next
  OBVIOUS
<1>0. x = Before(s, u, i) /\ y = After(s, u, i) /\ x \in SessionIds /\ x # SESS_LIST_HEAD /\ y \in ListCells
  BY HeadApart DEF Before, After
<1>a. PICK t1 : SetsElement(s, x, [s.session_data[x] EXCEPT !.next = y], t1)
  BY DEF SetsElement
<1>b. PICK t : t = SetPrev(t1, u, y, x)
  OBVIOUS
<1>1. OnlyLinks(s, t1) /\ SetsAfter(s, t1, u, x, y) /\ Well(t1)
  BY <1>0, <1>a, SetSessionNext, OnlyLinksWell
<1>2. OnlyLinks(t1, t) /\ SetsBefore(t1, t, u, y, x)
  BY <1>0, <1>1, <1>b, SetPrevIs
<1>3. OnlyLinks(s, t)
  BY <1>1, <1>2, OnlyLinksTwice
<1>4. MoveToHead(s, i) = InsertAtHead(t, u, i)
  BY <1>0, <1>a, <1>b DEF MoveToHead, SetsElement
<1>5. Removes(s, t, u, i)
  <2>. SUFFICES ASSUME NEW v \in UserIds, NEW z \in ListCells
                PROVE  /\ After(t, v, z) = IF z = x THEN y ELSE After(s, v, z)
                       /\ Before(t, v, z) = IF SameCell(u, y, v, z) THEN x ELSE Before(s, v, z)
    BY <1>0 DEF Removes
  <2>0. SameCell(u, x, v, z) <=> z = x
    BY <1>0 DEF SameCell
  <2>1. After(t1, v, z) = (IF z = x THEN y ELSE After(s, v, z)) /\ Before(t1, v, z) = Before(s, v, z)
    BY <1>1, <2>0 DEF SetsAfter
  <2>2. After(t, v, z) = After(t1, v, z) /\ Before(t, v, z) = IF SameCell(u, y, v, z) THEN x ELSE Before(t1, v, z)
    BY <1>2 DEF SetsBefore
  <2>. QED
    BY <2>1, <2>2
<1>. QED
  BY <1>3, <1>4, <1>5

(* The list of user u as ListFacts has it; S are the sessions on lists.    *)
Nx(s, u) == [z \in ListCells |-> After(s, u, z)]
Pv(s, u) == [z \in ListCells |-> Before(s, u, z)]
Mine(s, S, u) == {x \in S : s.session_data[x].user_index = u}
On(s, S, u) == [x \in SessionIds |-> IF x \in Mine(s, S, u) THEN SESS_LIST_HEAD ELSE 0]

UserList(s, S, u, rank) ==
  /\ List(SessionIds, SESS_LIST_HEAD, Nx(s, u), On(s, S, u), rank)
  /\ Doubly(SessionIds, SESS_LIST_HEAD, Nx(s, u), Pv(s, u), On(s, S, u))

LinksOK(s) == \A u \in UserIds, z \in ListCells : After(s, u, z) \in ListCells /\ Before(s, u, z) \in ListCells

(* What these are. *)
LEMMA ListView ==
  ASSUME NEW s, LinksOK(s), NEW S \in SUBSET SessionIds, NEW u \in UserIds
  PROVE  /\ Nx(s, u) \in Links(ListCells) /\ Pv(s, u) \in Links(ListCells)
         /\ On(s, S, u) \in Labels(SessionIds)
         /\ Members(SessionIds, SESS_LIST_HEAD, On(s, S, u)) = Mine(s, S, u)
         /\ \A z \in ListCells : Nx(s, u)[z] = After(s, u, z) /\ Pv(s, u)[z] = Before(s, u, z)
         /\ SessionIds \in SUBSET ListCells /\ SESS_LIST_HEAD \in ListCells \ SessionIds
         /\ Mine(s, S, u) \subseteq SessionIds
<1>1. Nx(s, u) \in Links(ListCells) /\ Pv(s, u) \in Links(ListCells)
  BY DEF Nx, Pv, Links, LinksOK
<1>2. SESS_LIST_HEAD \in Int /\ SESS_LIST_HEAD # 0 /\ 0 \in Int
  BY DEF SESS_LIST_HEAD
<1>3. On(s, S, u) \in Labels(SessionIds)
  BY <1>2 DEF On, Labels
<1>4. Mine(s, S, u) \subseteq SessionIds
  BY DEF Mine
<1>5. Members(SessionIds, SESS_LIST_HEAD, On(s, S, u)) = Mine(s, S, u)
  <2>. PICK M : M = Mine(s, S, u)
    OBVIOUS
  <2>1. On(s, S, u) = [x \in SessionIds |-> IF x \in M THEN SESS_LIST_HEAD ELSE 0]
    BY DEF On
  <2>. QED
    BY <2>1, <1>2, <1>4 DEF Members
<1>. QED
  BY <1>1, <1>3, <1>4, <1>5, HeadApart DEF Nx, Pv, ListCells

(* The cells of a list lead to one another. *)
LEMMA ListLeads ==
  ASSUME NEW s, LinksOK(s), NEW S \in SUBSET SessionIds, NEW u \in UserIds, NEW rank, UserList(s, S, u, rank),
         NEW z \in Mine(s, S, u) \cup {SESS_LIST_HEAD}
  PROVE  After(s, u, z) \in Mine(s, S, u) \cup {SESS_LIST_HEAD} /\ Before(s, u, z) \in Mine(s, S, u) \cup {SESS_LIST_HEAD}
<1>1. z \in ListCells
  BY ListView
<1>2. Nx(s, u)[z] \in Mine(s, S, u) \cup {SESS_LIST_HEAD} /\ Pv(s, u)[z] \in Mine(s, S, u) \cup {SESS_LIST_HEAD}
  BY ListView DEF UserList, List, Leads, Doubly
<1>. QED
  BY <1>1, <1>2, ListView

(* A list whose cells keep their links. *)
LEMMA ListStays ==
  ASSUME NEW s, LinksOK(s), NEW t, LinksOK(t), NEW S \in SUBSET SessionIds, NEW S2 \in SUBSET SessionIds,
         NEW v \in UserIds, NEW rank \in Labels(SessionIds), NEW rank2 \in Labels(SessionIds), UserList(s, S, v, rank),
         Mine(t, S2, v) = Mine(s, S, v),
         \A z \in Mine(s, S, v) \cup {SESS_LIST_HEAD} : After(t, v, z) = After(s, v, z) /\ Before(t, v, z) = Before(s, v, z),
         \A z \in Mine(s, S, v) : rank2[z] = rank[z]
  PROVE  UserList(t, S2, v, rank2)
<1>. PICK nx, pv, on : nx = Nx(s, v) /\ pv = Pv(s, v) /\ on = On(s, S, v)
  OBVIOUS
<1>. PICK nx2, pv2, on2 : nx2 = Nx(t, v) /\ pv2 = Pv(t, v) /\ on2 = On(t, S2, v)
  OBVIOUS
<1>. PICK M : M = Mine(s, S, v)
  OBVIOUS
<1>1. /\ nx \in Links(ListCells) /\ pv \in Links(ListCells) /\ on \in Labels(SessionIds)
      /\ Members(SessionIds, SESS_LIST_HEAD, on) = M
      /\ \A z \in ListCells : nx[z] = After(s, v, z) /\ pv[z] = Before(s, v, z)
      /\ SessionIds \in SUBSET ListCells /\ SESS_LIST_HEAD \in ListCells \ SessionIds /\ M \subseteq SessionIds
  BY ListView
<1>2. /\ nx2 \in Links(ListCells) /\ pv2 \in Links(ListCells) /\ on2 \in Labels(SessionIds)
      /\ Members(SessionIds, SESS_LIST_HEAD, on2) = M
      /\ \A z \in ListCells : nx2[z] = After(t, v, z) /\ pv2[z] = Before(t, v, z)
  BY ListView
<1>3. \A z \in M \cup {SESS_LIST_HEAD} : nx2[z] = nx[z] /\ pv2[z] = pv[z]
  BY <1>1, <1>2
<1>4. List(SessionIds, SESS_LIST_HEAD, nx, on, rank) /\ Doubly(SessionIds, SESS_LIST_HEAD, nx, pv, on)
  BY DEF UserList
<1>5. List(SessionIds, SESS_LIST_HEAD, nx2, on2, rank2)
  BY <1>1, <1>2, <1>3, <1>4, ListFrame
<1>6. Doubly(SessionIds, SESS_LIST_HEAD, nx2, pv2, on2)
  BY <1>1, <1>2, <1>3, <1>4, DoublyFrame
<1>. QED
  BY <1>5, <1>6 DEF UserList

(* Session i in front of the list of user u. *)
LEMMA InsertList ==
  ASSUME NEW s, LinksOK(s), NEW t, NEW S \in SUBSET SessionIds, NEW S2 \in SUBSET SessionIds,
         NEW u \in UserIds, NEW i \in SessionIds, i \notin S, Inserts(s, t, u, i),
         NEW rank \in Labels(SessionIds), NEW rank2,
         Relabels(SessionIds, rank, rank2, i, FrontRank(SESS_LIST_HEAD, Nx(s, u), rank)),
         UserList(s, S, u, rank), Mine(t, S2, u) = Mine(s, S, u) \cup {i}
  PROVE  LinksOK(t) /\ UserList(t, S2, u, rank2) /\ \A y \in Mine(s, S, u) : rank2[i] < rank2[y]
<1>. PICK h : h = SESS_LIST_HEAD
  OBVIOUS
<1>. PICK nx, pv, on : nx = Nx(s, u) /\ pv = Pv(s, u) /\ on = On(s, S, u)
  OBVIOUS
<1>. PICK nx2, pv2, on2 : nx2 = Nx(t, u) /\ pv2 = Pv(t, u) /\ on2 = On(t, S2, u)
  OBVIOUS
<1>. PICK M : M = Mine(s, S, u)
  OBVIOUS
<1>. PICK first : first = After(s, u, h)
  OBVIOUS
<1>1. /\ nx \in Links(ListCells) /\ pv \in Links(ListCells) /\ on \in Labels(SessionIds)
      /\ Members(SessionIds, h, on) = M
      /\ \A z \in ListCells : nx[z] = After(s, u, z) /\ pv[z] = Before(s, u, z)
      /\ SessionIds \in SUBSET ListCells /\ h \in ListCells \ SessionIds /\ M \subseteq SessionIds
  BY ListView
<1>2. LinksOK(t)
  BY <1>1 DEF Inserts, LinksOK
<1>3. /\ nx2 \in Links(ListCells) /\ pv2 \in Links(ListCells) /\ on2 \in Labels(SessionIds)
      /\ Members(SessionIds, h, on2) = M \cup {i}
      /\ \A z \in ListCells : nx2[z] = After(t, u, z) /\ pv2[z] = Before(t, u, z)
  BY <1>2, ListView
<1>4. List(SessionIds, h, nx, on, rank) /\ Doubly(SessionIds, h, nx, pv, on)
  BY DEF UserList
<1>5. /\ FrontRank(h, nx, rank) \in Int
      /\ \A y \in M : FrontRank(h, nx, rank) < rank[y]
  BY <1>1, <1>4, FrontRankLess
<1>6. i \notin M /\ rank2 \in Labels(SessionIds)
  BY DEF Mine, Relabels
<1>7. \A y \in M : rank2[y] = rank[y] /\ rank2[i] < rank[y]
  BY <1>1, <1>5, <1>6 DEF Relabels
<1>8. AddsFirst(SessionIds, h, on, rank, on2, rank2, i)
  BY <1>1, <1>3, <1>6, <1>7 DEF AddsFirst
<1>9. \A z \in ListCells : /\ nx2[z] = IF z = h THEN i ELSE IF z = i THEN first ELSE nx[z]
                           /\ pv2[z] = IF z = i THEN h ELSE IF z = first THEN i ELSE pv[z]
  BY <1>1, <1>3 DEF Inserts, SameCell
<1>10. first = nx[h] /\ first \in ListCells /\ i \in ListCells /\ i # h
  BY <1>1 DEF LinksOK
<1>11. PushLinks(h, nx, pv, nx2, pv2, i)
  <2>1. Pushes(ListCells, h, nx, pv, nx2, pv2, i)
    BY <1>9, <1>10 DEF Pushes
  <2>. QED
    BY <2>1, <1>1, <1>3, PushesLinks
<1>12. List(SessionIds, h, nx2, on2, rank2) /\ Doubly(SessionIds, h, nx2, pv2, on2)
  BY <1>1, <1>3, <1>4, <1>6, <1>8, <1>11, ListInsert
<1>13. UserList(t, S2, u, rank2)
  BY <1>12 DEF UserList
<1>. QED
  BY <1>2, <1>7, <1>13

(* The other lists stay. *)
LEMMA InsertOther ==
  ASSUME NEW s, LinksOK(s), NEW t, LinksOK(t), NEW S \in SUBSET SessionIds, NEW S2 \in SUBSET SessionIds,
         NEW u \in UserIds, NEW i \in SessionIds, i \notin S, Inserts(s, t, u, i),
         NEW rank \in Labels(SessionIds), NEW rank2, NEW n, Relabels(SessionIds, rank, rank2, i, n),
         UserList(s, S, u, rank),
         NEW v \in UserIds, v # u, UserList(s, S, v, rank), Mine(t, S2, v) = Mine(s, S, v)
  PROVE  UserList(t, S2, v, rank2)
<1>. PICK first : first = After(s, u, SESS_LIST_HEAD)
  OBVIOUS
<1>1. first \in Mine(s, S, u) \cup {SESS_LIST_HEAD}
  BY ListLeads
<1>2. Mine(s, S, u) \cap Mine(s, S, v) = {} /\ i \notin Mine(s, S, v) /\ Mine(s, S, v) \subseteq SessionIds
  BY DEF Mine
<1>3. ASSUME NEW z \in Mine(s, S, v) \cup {SESS_LIST_HEAD}
      PROVE  After(t, v, z) = After(s, v, z) /\ Before(t, v, z) = Before(s, v, z)
  <2>1. z \in ListCells /\ z # i /\ ~SameCell(u, SESS_LIST_HEAD, v, z) /\ ~SameCell(u, first, v, z)
    BY <1>1, <1>2, HeadApart DEF SameCell, ListCells
  <2>. QED
    BY <2>1 DEF Inserts
<1>4. rank2 \in Labels(SessionIds) /\ \A z \in Mine(s, S, v) : rank2[z] = rank[z]
  BY <1>2 DEF Relabels
<1>. QED
  BY <1>3, <1>4, ListStays

(* A session is taken out of the list of user u. *)
LEMMA RemoveList ==
  ASSUME NEW s, LinksOK(s), NEW t, NEW S \in SUBSET SessionIds, NEW S2 \in SUBSET SessionIds,
         NEW u \in UserIds, NEW i \in Mine(s, S, u), Removes(s, t, u, i), Before(s, u, i) # SESS_LIST_HEAD,
         NEW rank \in Labels(SessionIds), UserList(s, S, u, rank), Mine(t, S2, u) = Mine(s, S, u) \ {i}
  PROVE  LinksOK(t) /\ UserList(t, S2, u, rank)
<1>. PICK h : h = SESS_LIST_HEAD
  OBVIOUS
<1>. PICK nx, pv, on : nx = Nx(s, u) /\ pv = Pv(s, u) /\ on = On(s, S, u)
  OBVIOUS
<1>. PICK nx2, pv2, on2 : nx2 = Nx(t, u) /\ pv2 = Pv(t, u) /\ on2 = On(t, S2, u)
  OBVIOUS
<1>. PICK M : M = Mine(s, S, u)
  OBVIOUS
<1>. PICK x, y : x = Before(s, u, i) /\ y = After(s, u, i)
  OBVIOUS
<1>1. /\ nx \in Links(ListCells) /\ pv \in Links(ListCells) /\ on \in Labels(SessionIds)
      /\ Members(SessionIds, h, on) = M
      /\ \A z \in ListCells : nx[z] = After(s, u, z) /\ pv[z] = Before(s, u, z)
      /\ SessionIds \in SUBSET ListCells /\ h \in ListCells \ SessionIds /\ M \subseteq SessionIds
  BY ListView
<1>2. LinksOK(t)
  <2>1. i \in ListCells
    BY <1>1
  <2>. QED
    BY <2>1 DEF Removes, LinksOK
<1>3. /\ nx2 \in Links(ListCells) /\ pv2 \in Links(ListCells) /\ on2 \in Labels(SessionIds)
      /\ Members(SessionIds, h, on2) = M \ {i}
      /\ \A z \in ListCells : nx2[z] = After(t, u, z) /\ pv2[z] = Before(t, u, z)
  BY <1>2, ListView
<1>4. List(SessionIds, h, nx, on, rank) /\ Doubly(SessionIds, h, nx, pv, on)
  BY DEF UserList
<1>5. x = pv[i] /\ y = nx[i] /\ x \in ListCells /\ y \in ListCells
  BY <1>1 DEF LinksOK
<1>6. \A z \in ListCells : /\ nx2[z] = IF z = x THEN y ELSE nx[z]
                           /\ pv2[z] = IF z = y THEN x ELSE pv[z]
  BY <1>1, <1>3 DEF Removes, SameCell
<1>7. RemoveLinks(nx, pv, nx2, pv2, i)
  <2>1. Unlinks(ListCells, nx, pv, nx2, pv2, i)
    BY <1>5, <1>6 DEF Unlinks
  <2>. QED
    BY <2>1, <1>1, <1>3, UnlinksLinks
<1>8. i \in Members(SessionIds, h, on) /\ Members(SessionIds, h, on2) = Members(SessionIds, h, on) \ {i}
  BY <1>1, <1>3
<1>9. List(SessionIds, h, nx2, on2, rank) /\ Doubly(SessionIds, h, nx2, pv2, on2)
  BY <1>1, <1>3, <1>4, <1>7, <1>8, ListRemove
<1>10. UserList(t, S2, u, rank)
  BY <1>9 DEF UserList
<1>. QED
  BY <1>2, <1>10

(* The other lists stay. *)
LEMMA RemoveOther ==
  ASSUME NEW s, LinksOK(s), NEW t, LinksOK(t), NEW S \in SUBSET SessionIds, NEW S2 \in SUBSET SessionIds,
         NEW u \in UserIds, NEW i \in Mine(s, S, u), Removes(s, t, u, i), Before(s, u, i) # SESS_LIST_HEAD,
         NEW rank \in Labels(SessionIds), UserList(s, S, u, rank),
         NEW v \in UserIds, v # u, UserList(s, S, v, rank), Mine(t, S2, v) = Mine(s, S, v)
  PROVE  UserList(t, S2, v, rank)
<1>. PICK x, y : x = Before(s, u, i) /\ y = After(s, u, i)
  OBVIOUS
<1>1. x \in Mine(s, S, u) /\ y \in Mine(s, S, u) \cup {SESS_LIST_HEAD}
  BY ListLeads
<1>2. Mine(s, S, u) \cap Mine(s, S, v) = {} /\ Mine(s, S, v) \subseteq SessionIds /\ Mine(s, S, u) \subseteq SessionIds
  BY DEF Mine
<1>3. ASSUME NEW z \in Mine(s, S, v) \cup {SESS_LIST_HEAD}
      PROVE  After(t, v, z) = After(s, v, z) /\ Before(t, v, z) = Before(s, v, z)
  <2>1. z \in ListCells /\ z # x /\ ~SameCell(u, y, v, z)
    BY <1>1, <1>2, HeadApart DEF SameCell, ListCells
  <2>. QED
    BY <2>1 DEF Removes
<1>. QED
  BY <1>3, ListStays

(* The allocator of users, which is another instance. *)
UP == INSTANCE TransactionalProofs WITH Size <- MAX_NUM_USERS

(* There are no fewer users than sessions. *)
LEMMA UserCount ==
  /\ MAX_NUM_USERS \in Nat \ {0} /\ num_avail_ext_tuples \in Nat \ {0} /\ MAX_NUM_USERS >= 2 * num_avail_ext_tuples
  BY TupleCount, NatsAssumption

(* The assumption of the allocator holds of the users. *)
LEMMA UserChains == UP!DoubleChainAssumption /\ UP!NfosMapAssumption
  BY UserCount, NatsAssumption, NfosMapAssumption DEF UP!DoubleChainAssumption, UP!NfosMapAssumption

(* The operators of this allocator. *)
LEMMA SameUserAllocator ==
  /\ UP!nfos_dchain_allocate = Users!nfos_dchain_allocate
  /\ \A d, c : UP!nfos_dchain_allocate_new_index(d, c) = Users!nfos_dchain_allocate_new_index(d, c)
  /\ \A d : UP!ChainSound(d) <=> Users!ChainSound(d)
  /\ \A d, i : UP!IsAllocated(d, i) <=> Users!IsAllocated(d, i)
  /\ UP!Cores = Cores /\ UP!Indexes = UserIds /\ UP!NoIndex = NoIndex
<1>1. UP!nfos_dchain_allocate = Users!nfos_dchain_allocate
  BY DEF UP!nfos_dchain_allocate, Users!nfos_dchain_allocate, UP!Cells, Users!Cells,
         UP!INDEX_SHIFT, Users!INDEX_SHIFT, UP!InitLink, Users!InitLink,
         UP!GLOBAL_FREE_LIST_HEAD, Users!GLOBAL_FREE_LIST_HEAD, UP!FREE_LIST_HEAD, Users!FREE_LIST_HEAD
<1>2. ASSUME NEW d, NEW c
      PROVE  UP!nfos_dchain_allocate_new_index(d, c) = Users!nfos_dchain_allocate_new_index(d, c)
  BY DEF UP!nfos_dchain_allocate_new_index, Users!nfos_dchain_allocate_new_index,
         UP!INDEX_SHIFT, Users!INDEX_SHIFT, UP!GLOBAL_FREE_LIST_HEAD, Users!GLOBAL_FREE_LIST_HEAD,
         UP!FREE_LIST_HEAD, Users!FREE_LIST_HEAD, UP!ALLOC_LIST_HEAD, Users!ALLOC_LIST_HEAD,
         UP!Supply, Users!Supply, UP!IsEmpty, Users!IsEmpty, UP!Refill, Users!Refill,
         UP!Migrate, Users!Migrate, UP!Pop, Users!Pop, UP!Push, Users!Push, UP!PointTo, Users!PointTo,
         UP!AppendTo, Users!AppendTo, UP!NoIndex, Users!NoIndex, UP!With, Users!With
<1>3. ASSUME NEW d PROVE UP!ChainSound(d) <=> Users!ChainSound(d)
  BY DEF UP!ChainSound, Users!ChainSound, UP!ListOf, Users!ListOf, UP!INDEX_SHIFT, Users!INDEX_SHIFT,
         UP!GLOBAL_FREE_LIST_HEAD, Users!GLOBAL_FREE_LIST_HEAD, UP!ALLOC_LIST_HEAD, Users!ALLOC_LIST_HEAD,
         UP!Cores, Users!Cores, UP!Indexes, Users!Indexes, UP!ToSet, Users!ToSet,
         UP!Cardinality, Users!Cardinality, UP!IsFiniteSet, Users!IsFiniteSet
<1>4. ASSUME NEW d, NEW i PROVE UP!IsAllocated(d, i) <=> Users!IsAllocated(d, i)
  BY DEF UP!IsAllocated, Users!IsAllocated, UP!INDEX_SHIFT, Users!INDEX_SHIFT,
         UP!GLOBAL_FREE_LIST_HEAD, Users!GLOBAL_FREE_LIST_HEAD
<1>5. UP!Cores = Cores /\ UP!Indexes = UserIds /\ UP!NoIndex = NoIndex
  BY DEF UP!Cores, Cores, Tuples!Cores, UP!Indexes, UserIds, UP!NoIndex, NoIndex, Tuples!NoIndex
<1>. QED
  BY <1>1, <1>2, <1>3, <1>4, <1>5

UserChain(d) == UP!ChainInv(d)
IsUser(s, u) == Users!IsAllocated(s.user_indexes, u)

(* Index u is taken by an allocation in d, after which there is d2. *)
NewUser(d, u, d2) ==
  /\ u \in UserIds /\ UserChain(d2) /\ ~Users!IsAllocated(d, u)
  /\ \A v \in UserIds : Users!IsAllocated(d2, v) <=> v = u \/ Users!IsAllocated(d, v)

(* There are no users at first. *)
LEMMA FirstUsers ==
  /\ UserChain(Users!nfos_dchain_allocate)
  /\ \A u \in UserIds : ~Users!IsAllocated(Users!nfos_dchain_allocate, u)
<1>1. /\ UP!ChainInv(UP!nfos_dchain_allocate)
      /\ \A u \in UP!Indexes : ~UP!IsAllocated(UP!nfos_dchain_allocate, u)
  BY UserChains, UP!NewChain
<1>. QED
  BY <1>1, SameUserAllocator DEF UserChain

(* An allocation fails only when there are as many users as there can be. *)
LEMMA AllocateUser ==
  ASSUME NEW d, UserChain(d), NEW c \in Cores, NEW a, a = Users!nfos_dchain_allocate_new_index(d, c),
         NEW v \in UserIds, ~Users!IsAllocated(d, v)
  PROVE  NewUser(d, a.index, a.chain)
<1>1. a.index # NoIndex
  <2>1. UP!nfos_dchain_allocate_new_index(d, c).index = UP!NoIndex => \A i \in UP!Indexes : UP!IsAllocated(d, i)
    BY SameUserAllocator, UserChains, UP!AllTaken DEF UserChain
  <2>. QED
    BY <2>1, SameUserAllocator
<1>2. UP!Allocates(d, c, UP!nfos_dchain_allocate_new_index(d, c))
  BY SameUserAllocator, UserChains, UP!AllocateNewIndex DEF UserChain
<1>3. UP!Allocates(d, c, a)
  BY <1>2, SameUserAllocator
<1>. QED
  BY <1>1, <1>3, SameUserAllocator DEF UP!Allocates, NewUser, UserChain

(* The allocator is sound. *)
LEMMA UserChainSound ==
  ASSUME NEW d, UserChain(d)
  PROVE  Users!ChainSound(d)
<1>1. UP!ChainSound(d)
  BY UserChains, UP!SoundIfLabelled DEF UserChain
<1>. QED
  BY <1>1, SameUserAllocator
-----------------------------------------------------------------------------
UserCells == next_pow2(2 * MAX_NUM_USERS)

UserEntry(s, x) ==
  LET cell == s.user_map[x]
  IN  cell.vals \in UserIds /\ IsUser(s, cell.vals) /\ cell.key = <<cell.key[1]>>

(* The map and the allocator of users belong to one another. *)
UserTable(s) ==
  LET m == s.user_map
  IN  /\ UserChain(s.user_indexes) /\ MapOf(m, UserCells) /\ MapSound(m)
      /\ \A x \in Busy(m) : UserEntry(s, x)
      /\ \A x, y \in Busy(m) : m[x].vals = m[y].vals => x = y
      /\ \A u \in UserIds : IsUser(s, u) => \E x \in Busy(m) : m[x].vals = u

HasUser(s, addr, u) == \E x \in Busy(s.user_map) : s.user_map[x].key = <<addr>> /\ s.user_map[x].vals = u

(* The sessions on lists are S, and T is the latest time; the list of user *)
(* e may be empty.                                                         *)
Homes(s, S) == \A i \in S : HasUser(s, s.session_data[i].int_ip, s.session_data[i].user_index)
Counts(s, S) == \A u \in UserIds : IsUser(s, u) => s.user_data[u].num_sessions = Cardinality(Mine(s, S, u))
NoneIdle(s, S, e) == \A u \in UserIds : IsUser(s, u) /\ u # e => Mine(s, S, u) # {}
Times(s, S, T) == \A i \in S : s.session_data[i].last_used \in Nat /\ s.session_data[i].last_used <= T
Recent(s, S, rank) ==
  \A i, j \in S : s.session_data[i].user_index = s.session_data[j].user_index /\ rank[i] < rank[j]
                    => s.session_data[i].last_used + MaxLag >= s.session_data[j].last_used
AllLists(s, S, rank) == \A u \in UserIds : IsUser(s, u) => UserList(s, S, u, rank)
Listing(s, S) == \E rank \in Labels(SessionIds) : AllLists(s, S, rank) /\ Recent(s, S, rank)

UserInv(s, S, e, T) ==
  /\ Well(s) /\ LinksOK(s) /\ UserTable(s)
  /\ Homes(s, S) /\ Counts(s, S) /\ NoneIdle(s, S, e) /\ Times(s, S, T) /\ Listing(s, S)

(* From s to t, the users and the sessions on lists stay as they are. *)
KeepsUsers(s, t) == t.user_map = s.user_map /\ t.user_indexes = s.user_indexes
Keeps(s, t, S) ==
  /\ KeepsUsers(s, t) /\ t.user_data = s.user_data
  /\ \A z \in SessionIds : /\ t.session_data[z].next = s.session_data[z].next
                           /\ t.session_data[z].prev = s.session_data[z].prev
  /\ \A z \in S : /\ t.session_data[z].user_index = s.session_data[z].user_index
                  /\ t.session_data[z].last_used = s.session_data[z].last_used
                  /\ t.session_data[z].int_ip = s.session_data[z].int_ip

(* The users are those of the map and of the allocator. *)
LEMMA UsersStay ==
  ASSUME NEW s, NEW t, KeepsUsers(s, t)
  PROVE  /\ UserTable(s) => UserTable(t)
         /\ \A u : IsUser(t, u) <=> IsUser(s, u)
         /\ \A addr, u : HasUser(t, addr, u) <=> HasUser(s, addr, u)
<1>1. \A u : IsUser(t, u) <=> IsUser(s, u)
  BY DEF KeepsUsers, IsUser
<1>2. \A addr, u : HasUser(t, addr, u) <=> HasUser(s, addr, u)
  BY DEF KeepsUsers, HasUser
<1>3. ASSUME UserTable(s) PROVE UserTable(t)
  <2>1. \A x : UserEntry(t, x) <=> UserEntry(s, x)
    BY <1>1 DEF UserEntry, KeepsUsers
  <2>. QED
    BY <1>1, <1>3, <2>1 DEF UserTable, KeepsUsers
<1>. QED
  BY <1>1, <1>2, <1>3

(* ... and the invariant is about nothing else. *)
LEMMA UserFrame ==
  ASSUME NEW s, NEW S \in SUBSET SessionIds, NEW e, NEW T, UserInv(s, S, e, T), NEW t, Well(t), Keeps(s, t, S)
  PROVE  UserInv(t, S, e, T)
<1>1. UserTable(t) /\ (\A u : IsUser(t, u) <=> IsUser(s, u)) /\ \A addr, u : HasUser(t, addr, u) <=> HasUser(s, addr, u)
  BY UsersStay DEF UserInv, Keeps
<1>2. \A u \in UserIds, z \in ListCells : After(t, u, z) = After(s, u, z) /\ Before(t, u, z) = Before(s, u, z)
  BY DEF Keeps, After, Before, ListCells
<1>3. LinksOK(t)
  BY <1>2 DEF UserInv, LinksOK
<1>4. \A u : Mine(t, S, u) = Mine(s, S, u)
  BY DEF Keeps, Mine
<1>5. Homes(t, S)
  BY <1>1 DEF UserInv, Homes, Keeps
<1>6. Counts(t, S)
  BY <1>1, <1>4 DEF UserInv, Counts, Keeps
<1>7. NoneIdle(t, S, e)
  BY <1>1, <1>4 DEF UserInv, NoneIdle
<1>8. Times(t, S, T)
  BY DEF UserInv, Times, Keeps
<1>9. Listing(t, S)
  <2>1. PICK rank \in Labels(SessionIds) : AllLists(s, S, rank) /\ Recent(s, S, rank)
    BY DEF UserInv, Listing
  <2>2. AllLists(t, S, rank)
    <3>. SUFFICES ASSUME NEW u \in UserIds, IsUser(t, u) PROVE UserList(t, S, u, rank)
      BY DEF AllLists
    <3>1. UserList(s, S, u, rank)
      BY <2>1, <1>1 DEF AllLists
    <3>2. \A z \in Mine(s, S, u) \cup {SESS_LIST_HEAD} : z \in ListCells
      BY DEF Mine, ListCells
    <3>3. \A z \in Mine(s, S, u) \cup {SESS_LIST_HEAD} : After(t, u, z) = After(s, u, z) /\ Before(t, u, z) = Before(s, u, z)
      BY <3>2, <1>2
    <3>4. LinksOK(s)
      BY DEF UserInv
    <3>. QED
      BY <3>1, <3>3, <3>4, <1>3, <1>4, <2>1, ListStays
  <2>3. Recent(t, S, rank)
    BY <2>1 DEF Recent, Keeps
  <2>. QED
    BY <2>1, <2>2, <2>3 DEF Listing
<1>. QED
  BY <1>1, <1>3, <1>5, <1>6, <1>7, <1>8, <1>9 DEF UserInv

(* A user of the map is allocated. *)
LEMMA UserAllocated ==
  ASSUME NEW s, UserTable(s), NEW addr, NEW u, HasUser(s, addr, u)
  PROVE  u \in UserIds /\ IsUser(s, u)
  BY DEF UserTable, HasUser, UserEntry

(* Finite sets of sessions. *)
LEMMA SomeSessions ==
  ASSUME NEW S \in SUBSET SessionIds
  PROVE  /\ IsFiniteSet(S) /\ Cardinality(S) \in Nat /\ Cardinality(S) <= 2 * num_avail_ext_tuples
         /\ \A i \in SessionIds : i \notin S => Cardinality(S) < 2 * num_avail_ext_tuples
<1>. PICK N : N = 2 * num_avail_ext_tuples
  OBVIOUS
<1>1. N \in Nat \ {0} /\ SessionIds = 0..N - 1
  BY TupleCount DEF SessionIds
<1>2. IsFiniteSet(SessionIds) /\ Cardinality(SessionIds) = N
  <2>. PICK last : last = N - 1
    OBVIOUS
  <2>0. last \in Int /\ 0 \in Int /\ ~(0 > last) /\ last - 0 + 1 = N
    BY <1>1
  <2>1. IsFiniteSet(0..last) /\ Cardinality(0..last) = IF 0 > last THEN 0 ELSE last - 0 + 1
    BY <2>0, FS_Interval
  <2>. QED
    BY <2>0, <2>1, <1>1
<1>3. IsFiniteSet(S) /\ Cardinality(S) <= Cardinality(SessionIds)
  BY <1>2, FS_Subset
<1>4. Cardinality(S) \in Nat
  BY <1>3, FS_CardinalityType
<1>5. ASSUME NEW i \in SessionIds, i \notin S PROVE Cardinality(S) < N
  <2>1. Cardinality(S) = Cardinality(SessionIds) => S = SessionIds
    BY <1>2, FS_Subset
  <2>2. Cardinality(S) # N
    BY <2>1, <1>2, <1>5
  <2>. QED
    BY <2>2, <1>1, <1>2, <1>3, <1>4
<1>. QED
  BY <1>2, <1>3, <1>4, <1>5

(* Every user has a session, so that there are users left while there are  *)
(* sessions left.                                                          *)
LEMMA UserLeft ==
  ASSUME NEW s, NEW S \in SUBSET SessionIds, NoneIdle(s, S, NoIndex), NEW i \in SessionIds, i \notin S
  PROVE  \E u \in UserIds : ~IsUser(s, u)
<1>. SUFFICES ASSUME \A u \in UserIds : IsUser(s, u)
              PROVE  FALSE
  OBVIOUS
<1>. DEFINE f == [u \in UserIds |-> CHOOSE x \in SessionIds : x \in Mine(s, S, u)]
<1>1. \A u \in UserIds : u # NoIndex
  BY DEF UserIds, NoIndex, Tuples!NoIndex
<1>2. \A u \in UserIds : f[u] \in Mine(s, S, u)
  <2>1. \A u \in UserIds : \E x \in SessionIds : x \in Mine(s, S, u)
    BY <1>1 DEF NoneIdle, Mine
  <2>. QED
    BY <2>1
<1>3. f \in [UserIds -> S] /\ \A u \in UserIds : s.session_data[f[u]].user_index = u
  <2>1. f = [u \in UserIds |-> f[u]]
    OBVIOUS
  <2>. HIDE DEF f
  <2>2. \A u \in UserIds : f[u] \in S /\ s.session_data[f[u]].user_index = u
    BY <1>2 DEF Mine
  <2>. QED
    BY <2>1, <2>2
<1>4. IsFiniteSet(UserIds) /\ Cardinality(UserIds) = MAX_NUM_USERS
  <2>. PICK last : last = MAX_NUM_USERS - 1
    OBVIOUS
  <2>0. last \in Int /\ 0 \in Int /\ ~(0 > last) /\ last - 0 + 1 = MAX_NUM_USERS /\ UserIds = 0..last
    BY UserCount DEF UserIds
  <2>1. IsFiniteSet(0..last) /\ Cardinality(0..last) = IF 0 > last THEN 0 ELSE last - 0 + 1
    BY <2>0, FS_Interval
  <2>. QED
    BY <2>0, <2>1
<1>5. IsFiniteSet(S) /\ Cardinality(UserIds) > Cardinality(S)
  BY <1>4, UserCount, SomeSessions
<1>. HIDE DEF f
<1>6. PICK x \in UserIds, y \in UserIds : x # y /\ f[x] = f[y]
  BY <1>3, <1>4, <1>5, FS_PigeonHole
<1>. QED
  BY <1>3, <1>6

(* Then the map of users has room as well. *)
LEMMA UserRoom ==
  ASSUME NEW s, UserTable(s), NEW u \in UserIds, ~IsUser(s, u)
  PROVE  \E x \in 0..UserCells - 1 : x \notin Busy(s.user_map)
<1>. SUFFICES ASSUME \A x \in 0..UserCells - 1 : x \in Busy(s.user_map)
              PROVE  FALSE
  OBVIOUS
<1>. PICK m : m = s.user_map
  OBVIOUS
<1>. PICK M : M = MAX_NUM_USERS
  OBVIOUS
<1>. PICK D : D = UserCells
  OBVIOUS
<1>. DEFINE f == [x \in 0..D - 1 |-> m[x].vals]
<1>1. M \in Nat \ {0} /\ 2 * M \in Nat
  BY UserCount
<1>2. D \in Nat /\ D >= 2 * M
  BY <1>1, NextPow2 DEF UserCells
<1>3. IsFiniteSet(0..D - 1) /\ Cardinality(0..D - 1) = D
  <2>. PICK last : last = D - 1
    OBVIOUS
  <2>0. last \in Int /\ 0 \in Int /\ ~(0 > last) /\ last - 0 + 1 = D
    BY <1>1, <1>2
  <2>1. IsFiniteSet(0..last) /\ Cardinality(0..last) = IF 0 > last THEN 0 ELSE last - 0 + 1
    BY <2>0, FS_Interval
  <2>. QED
    BY <2>0, <2>1
<1>4. IsFiniteSet(UserIds) /\ Cardinality(UserIds) = M
  <2>. PICK last : last = M - 1
    OBVIOUS
  <2>0. last \in Int /\ 0 \in Int /\ ~(0 > last) /\ last - 0 + 1 = M /\ UserIds = 0..last
    BY <1>1 DEF UserIds
  <2>1. IsFiniteSet(0..last) /\ Cardinality(0..last) = IF 0 > last THEN 0 ELSE last - 0 + 1
    BY <2>0, FS_Interval
  <2>. QED
    BY <2>0, <2>1
<1>5. f \in [0..D - 1 -> UserIds]
  <2>1. ASSUME NEW x \in 0..D - 1 PROVE m[x].vals \in UserIds
    BY DEF UserTable, UserEntry
  <2>. QED
    BY <2>1
<1>6. PICK x \in 0..D - 1, y \in 0..D - 1 : x # y /\ f[x] = f[y]
  <2>1. Cardinality(0..D - 1) > Cardinality(UserIds)
    BY <1>1, <1>2, <1>3, <1>4
  <2>. PICK I : I = 0..D - 1
    OBVIOUS
  <2>2. /\ IsFiniteSet(I) /\ IsFiniteSet(UserIds) /\ f \in [I -> UserIds] /\ Cardinality(UserIds) < Cardinality(I)
    BY <2>1, <1>1, <1>2, <1>3, <1>4, <1>5
  <2>. HIDE DEF f
  <2>3. \E x, y \in I : x # y /\ f[x] = f[y]
    BY ONLY <2>2, FS_PigeonHole
  <2>. QED
    BY <2>3
<1>7. m[x].vals = m[y].vals
  BY <1>6
<1>. QED
  BY <1>6, <1>7 DEF UserTable

(* The fields after a new user was added. *)
LEMMA AddsUserIs ==
  ASSUME NEW s, Well(s), NEW addr, NEW a, a.index \in UserIds, NEW t, AddsUser(s, addr, a, t)
  PROVE  /\ Well(t) /\ t.session_data = s.session_data /\ t.user_indexes = a.chain
         /\ t.user_map = nfos_map_put(s.user_map, <<addr>>, a.index)
         /\ \A v \in UserIds : t.user_data[v] = IF v = a.index THEN NoSessions ELSE s.user_data[v]
<1>. PICK u : u = a.index
  OBVIOUS
<1>a. PICK t1, t2 : /\ t1 = [s EXCEPT !.user_indexes = a.chain]
                    /\ t2 = [t1 EXCEPT !.user_map = nfos_map_put(t1.user_map, <<addr>>, a.index)]
                    /\ t = [t2 EXCEPT !.user_data = [t2.user_data EXCEPT ![a.index] = NoSessions]]
  BY DEF AddsUser
<1>1. /\ NatRec(t1) /\ t1.user_indexes = a.chain /\ t1.user_map = s.user_map /\ t1.user_data = s.user_data
      /\ t1.session_data = s.session_data
  BY <1>a DEF Well, Shaped, NatRec
<1>. PICK m : m = nfos_map_put(s.user_map, <<addr>>, u)
  OBVIOUS
<1>2. /\ NatRec(t2) /\ t2.user_indexes = a.chain /\ t2.user_map = m /\ t2.user_data = s.user_data
      /\ t2.session_data = s.session_data
  <2>1. t2 = [t1 EXCEPT !.user_map = m]
    BY <1>a, <1>1
  <2>. QED
    BY <2>1, <1>1 DEF NatRec
<1>. PICK f, g : f = s.user_data /\ g = [f EXCEPT ![u] = NoSessions]
  OBVIOUS
<1>3. f = [v \in UserIds |-> f[v]] /\ \A v \in UserIds : UserRec(f[v])
  BY DEF Well, UserNodes
<1>4. g = [v \in UserIds |-> g[v]] /\ \A v \in UserIds : g[v] = IF v = u THEN NoSessions ELSE f[v]
  BY <1>3
<1>5. /\ NatRec(t) /\ t.user_indexes = a.chain /\ t.user_map = m /\ t.user_data = g
      /\ t.session_data = s.session_data
  <2>1. t = [t2 EXCEPT !.user_data = g]
    BY <1>a, <1>2
  <2>. QED
    BY <2>1, <1>2 DEF NatRec
<1>6. UserRec(NoSessions)
  BY DEF UserRec, NoSessions
<1>7. UserNodes(g)
  BY <1>3, <1>4, <1>6 DEF UserNodes
<1>8. Well(t)
  BY <1>5, <1>7 DEF Well, Shaped
<1>. QED
  BY <1>4, <1>5, <1>8

(* A list without sessions. *)
LEMMA EmptyList ==
  ASSUME NEW s, LinksOK(s), NEW S \in SUBSET SessionIds, NEW u \in UserIds, NEW rank \in Labels(SessionIds),
         Mine(s, S, u) = {}, After(s, u, SESS_LIST_HEAD) = SESS_LIST_HEAD, Before(s, u, SESS_LIST_HEAD) = SESS_LIST_HEAD
  PROVE  UserList(s, S, u, rank)
<1>. PICK h, nx, pv, on : h = SESS_LIST_HEAD /\ nx = Nx(s, u) /\ pv = Pv(s, u) /\ on = On(s, S, u)
  OBVIOUS
<1>1. Members(SessionIds, h, on) = {} /\ nx[h] = h /\ pv[h] = h
  BY ListView
<1>2. List(SessionIds, h, nx, on, rank) /\ Doubly(SessionIds, h, nx, pv, on)
  BY <1>1 DEF List, Leads, FirstIsLeast, Ascends, NoneBetween, RanksDiffer, Doubly
<1>. QED
  BY <1>2 DEF UserList

(* A new user, with an empty list. *)
LEMMA UserAdded ==
  ASSUME NEW s, NEW S \in SUBSET SessionIds, NEW T, UserInv(s, S, NoIndex, T),
         NEW addr, <<addr>> \in Keys, NotIn(s.user_map, <<addr>>),
         NEW a, NewUser(s.user_indexes, a.index, a.chain), NEW t, AddsUser(s, addr, a, t)
  PROVE  UserInv(t, S, a.index, T) /\ HasUser(t, addr, a.index) /\ t.session_data = s.session_data
<1>. PICK u : u = a.index
  OBVIOUS
<1>. PICK m, m2, k : m = s.user_map /\ m2 = t.user_map /\ k = <<addr>>
  OBVIOUS
<1>1. u \in UserIds /\ ~IsUser(s, u) /\ UserTable(s) /\ Well(s) /\ LinksOK(s)
  BY DEF NewUser, IsUser, UserInv
<1>2. /\ Well(t) /\ t.session_data = s.session_data /\ t.user_indexes = a.chain
      /\ m2 = nfos_map_put(m, k, u)
      /\ \A v \in UserIds : t.user_data[v] = IF v = u THEN NoSessions ELSE s.user_data[v]
  BY <1>1, AddsUserIs
<1>3. \A v \in UserIds : IsUser(t, v) <=> v = u \/ IsUser(s, v)
  BY <1>2 DEF NewUser, IsUser
<1>4. PICK x0 : NewEntry(m, UserCells, k, u, m2, x0)
  <2>1. MapOf(m, UserCells) /\ MapSound(m) /\ u \in Int
    BY <1>1 DEF UserTable, UserIds
  <2>2. \E x \in 0..UserCells - 1 : x \notin Busy(m)
    BY <1>1, UserRoom
  <2>3. k \in Keys /\ NotIn(m, k)
    OBVIOUS
  <2>. QED
    BY <2>1, <2>2, <2>3, <1>2, PutNew
<1>5. /\ MapOf(m2, UserCells) /\ MapSound(m2) /\ x0 \notin Busy(m) /\ Busy(m2) = Busy(m) \cup {x0}
      /\ m2[x0].key = k /\ m2[x0].vals = u
      /\ \A x \in Busy(m) : m2[x].key = m[x].key /\ m2[x].vals = m[x].vals
  BY <1>4 DEF NewEntry
<1>6. \A x \in Busy(m) : UserEntry(s, x) /\ m[x].vals # u
  BY <1>1 DEF UserTable, UserEntry
<1>7. UserTable(t)
  <2>1. UserChain(t.user_indexes)
    BY <1>2 DEF NewUser
  <2>2. ASSUME NEW x \in Busy(m2) PROVE UserEntry(t, x)
    <3>1. CASE x = x0
      <4>1. k = <<k[1]>>
        OBVIOUS
      <4>. QED
        BY <4>1, <3>1, <1>1, <1>3, <1>5 DEF UserEntry
    <3>2. CASE x \in Busy(m)
      BY <3>2, <1>3, <1>5, <1>6 DEF UserEntry
    <3>. QED
      BY <3>1, <3>2, <1>5
  <2>3. \A x, y \in Busy(m2) : m2[x].vals = m2[y].vals => x = y
    BY <1>1, <1>5, <1>6 DEF UserTable
  <2>4. ASSUME NEW v \in UserIds, IsUser(t, v) PROVE \E x \in Busy(m2) : m2[x].vals = v
    BY <2>4, <1>1, <1>3, <1>5 DEF UserTable
  <2>. QED
    BY <2>1, <2>2, <2>3, <2>4, <1>5 DEF UserTable
<1>8. HasUser(t, addr, u) /\ \A b, v : HasUser(s, b, v) => HasUser(t, b, v)
  BY <1>5 DEF HasUser
<1>9. Homes(t, S)
  BY <1>2, <1>8 DEF Homes, UserInv
<1>10. (\A v : Mine(t, S, v) = Mine(s, S, v)) /\ Mine(s, S, u) = {}
  <2>1. \A i \in S : s.session_data[i].user_index # u
    BY <1>1, UserAllocated DEF UserInv, Homes
  <2>. QED
    BY <2>1, <1>2 DEF Mine
<1>11. Counts(t, S)
  <2>1. NoSessions.num_sessions = 0 /\ Cardinality({}) = 0
    BY FS_EmptySet DEF NoSessions
  <2>2. ASSUME NEW v \in UserIds, IsUser(t, v) PROVE t.user_data[v].num_sessions = Cardinality(Mine(t, S, v))
    BY <2>1, <2>2, <1>2, <1>3, <1>10 DEF UserInv, Counts
  <2>. QED
    BY <2>2 DEF Counts
<1>12. NoneIdle(t, S, u)
  <2>1. \A v \in UserIds : v # NoIndex
    BY DEF UserIds, NoIndex, Tuples!NoIndex
  <2>. QED
    BY <2>1, <1>3, <1>10 DEF UserInv, NoneIdle
<1>13. Times(t, S, T)
  BY <1>2 DEF UserInv, Times
<1>14. \A v \in UserIds, z \in ListCells : ~(v = u /\ z = SESS_LIST_HEAD)
         => After(t, v, z) = After(s, v, z) /\ Before(t, v, z) = Before(s, v, z)
  BY <1>2 DEF After, Before
<1>15. After(t, u, SESS_LIST_HEAD) = SESS_LIST_HEAD /\ Before(t, u, SESS_LIST_HEAD) = SESS_LIST_HEAD
  BY <1>1, <1>2 DEF After, Before, NoSessions
<1>16. LinksOK(t)
  <2>. SUFFICES ASSUME NEW v \in UserIds, NEW z \in ListCells
                PROVE  After(t, v, z) \in ListCells /\ Before(t, v, z) \in ListCells
    BY DEF LinksOK
  <2>1. SESS_LIST_HEAD \in ListCells /\ After(s, v, z) \in ListCells /\ Before(s, v, z) \in ListCells
    BY <1>1 DEF LinksOK, ListCells
  <2>. QED
    BY <2>1, <1>14, <1>15
<1>17. Listing(t, S)
  <2>1. PICK rank \in Labels(SessionIds) : AllLists(s, S, rank) /\ Recent(s, S, rank)
    BY DEF UserInv, Listing
  <2>2. Recent(t, S, rank)
    BY <2>1, <1>2 DEF Recent
  <2>3. UserList(t, S, u, rank)
    BY <1>1, <1>10, <1>15, <1>16, <2>1, EmptyList
  <2>4. ASSUME NEW v \in UserIds, v # u, IsUser(t, v) PROVE UserList(t, S, v, rank)
    <3>1. UserList(s, S, v, rank)
      BY <2>1, <2>4, <1>3 DEF AllLists
    <3>2. \A z \in Mine(s, S, v) \cup {SESS_LIST_HEAD} : z \in ListCells
      BY DEF Mine, ListCells
    <3>3. \A z \in Mine(s, S, v) \cup {SESS_LIST_HEAD} : After(t, v, z) = After(s, v, z) /\ Before(t, v, z) = Before(s, v, z)
      BY <3>2, <2>4, <1>14
    <3>. QED
      BY <3>1, <3>3, <1>1, <1>10, <1>16, <2>1, ListStays
  <2>5. AllLists(t, S, rank)
    BY <2>3, <2>4 DEF AllLists
  <2>. QED
    BY <2>1, <2>2, <2>5 DEF Listing
<1>18. UserInv(t, S, u, T)
  BY <1>2, <1>7, <1>9, <1>11, <1>12, <1>13, <1>16, <1>17 DEF UserInv
<1>. QED
  BY <1>2, <1>8, <1>18

(* The user of an address is in the map, or becomes one of them.  There    *)
(* is always one left.                                                     *)
LEMMA UserOfInv ==
  ASSUME NEW s, NEW S \in SUBSET SessionIds, NEW T, UserInv(s, S, NoIndex, T), NEW i \in SessionIds, i \notin S,
         NEW c \in Cores, NEW addr, <<addr>> \in Keys, NEW r, r = UserOf(s, c, addr)
  PROVE  UserInv(r.nat, S, r.index, T) /\ HasUser(r.nat, addr, r.index) /\ r.nat.session_data = s.session_data
<1>. PICK m, k, u : m = s.user_map /\ k = <<addr>> /\ u = nfos_map_get(s.user_map, <<addr>>)
  OBVIOUS
<1>1. MapOf(m, UserCells) /\ MapSound(m) /\ UserTable(s) /\ k \in Keys
  BY DEF UserInv, UserTable
<1>2. CASE NotIn(m, k)
  <2>. PICK a : a = Users!nfos_dchain_allocate_new_index(s.user_indexes, c)
    OBVIOUS
  <2>. PICK n : n = alloc_user(s, c, addr)
    OBVIOUS
  <2>1. u = NoValue
    BY <1>1, <1>2, GetMisses
  <2>2. r = n
    BY <2>1, UserOfIs
  <2>3. r.index = a.index /\ AddsUser(s, addr, a, r.nat)
    BY <2>2, AllocUserIs
  <2>4. NewUser(s.user_indexes, a.index, a.chain)
    <3>1. PICK v \in UserIds : ~IsUser(s, v)
      BY UserLeft DEF UserInv
    <3>2. UserChain(s.user_indexes) /\ ~Users!IsAllocated(s.user_indexes, v)
      BY <3>1, <1>1 DEF UserTable, IsUser
    <3>. QED
      BY <3>2, AllocateUser
  <2>5. NotIn(s.user_map, <<addr>>)
    BY <1>2
  <2>. QED
    BY <2>3, <2>4, <2>5, UserAdded
<1>3. CASE ~NotIn(m, k)
  <2>1. PICK x \in Busy(m) : m[x].key = k
    BY <1>3 DEF NotIn
  <2>2. u = m[x].vals /\ u \in UserIds
    BY <1>1, <2>1, GetFinds DEF UserTable, UserEntry
  <2>3. u # NoValue
    BY <2>2 DEF UserIds, NoValue
  <2>4. r = [index |-> u, nat |-> s]
    BY <2>3, UserOfIs
  <2>5. HasUser(s, addr, u)
    BY <2>1, <2>2 DEF HasUser
  <2>6. UserInv(s, S, u, T)
    <3>1. \A v \in UserIds : v # NoIndex
      BY DEF UserIds, NoIndex, Tuples!NoIndex
    <3>. QED
      BY <3>1 DEF UserInv, NoneIdle
  <2>. QED
    BY <2>4, <2>5, <2>6
<1>. QED
  BY <1>2, <1>3

(* The numbers of sessions are numbers. *)
LEMMA CountIs ==
  ASSUME NEW s, NEW S \in SUBSET SessionIds, NEW u \in UserIds
  PROVE  IsFiniteSet(Mine(s, S, u)) /\ Cardinality(Mine(s, S, u)) \in Nat /\ Mine(s, S, u) \in SUBSET SessionIds
<1>1. Mine(s, S, u) \in SUBSET SessionIds
  BY DEF Mine
<1>. QED
  BY <1>1, SomeSessions

(* Session i joins the list of user u. *)
JoinsList(s, t, u, i) ==
  /\ KeepsUsers(s, t) /\ Inserts(s, t, u, i)
  /\ \A z \in SessionIds : /\ t.session_data[z].user_index = IF z = i THEN u ELSE s.session_data[z].user_index
                           /\ t.session_data[z].last_used = s.session_data[z].last_used

(* The session is last used now, and not before any other by much. *)
UsedNow(s, i, T) ==
  LET last == s.session_data[i].last_used IN last \in Nat /\ last <= T /\ last + MaxLag >= T

(* What becomes of the sets of sessions. *)
LEMMA MineJoined ==
  ASSUME NEW s, NEW S \in SUBSET SessionIds, NEW u, NEW i \in SessionIds, i \notin S, NEW t, JoinsList(s, t, u, i)
  PROVE  /\ Mine(t, S \cup {i}, u) = Mine(s, S, u) \cup {i} /\ i \notin Mine(s, S, u)
         /\ \A v : v # u => Mine(t, S \cup {i}, v) = Mine(s, S, v)
<1>1. \A z \in S : z \in SessionIds /\ z # i
  OBVIOUS
<1>. QED
  BY <1>1 DEF Mine, JoinsList

(* Every list is in order after a session joined one. *)
LEMMA ListJoined ==
  ASSUME NEW s, NEW S \in SUBSET SessionIds, NEW T \in Nat, LinksOK(s), Listing(s, S), Times(s, S, T),
         NEW u \in UserIds, IsUser(s, u), NEW i \in SessionIds, i \notin S, UsedNow(s, i, T),
         NEW t, JoinsList(s, t, u, i)
  PROVE  LinksOK(t) /\ Listing(t, S \cup {i})
<1>. PICK S2 : S2 = S \cup {i}
  OBVIOUS
<1>. PICK M : M = Mine(s, S, u)
  OBVIOUS
<1>2. \A v : IsUser(t, v) <=> IsUser(s, v)
  BY UsersStay DEF JoinsList
<1>3. Inserts(s, t, u, i) /\ S2 \in SUBSET SessionIds
  BY DEF JoinsList
<1>4. \A z \in SessionIds : /\ t.session_data[z].user_index = IF z = i THEN u ELSE s.session_data[z].user_index
                            /\ t.session_data[z].last_used = s.session_data[z].last_used
  BY DEF JoinsList
<1>5. \A z \in S : z \in SessionIds /\ z # i
  OBVIOUS
<1>1. S \in SUBSET SessionIds /\ i \in SessionIds /\ i \notin S /\ JoinsList(s, t, u, i)
  OBVIOUS
<1>0. /\ Mine(t, S \cup {i}, u) = Mine(s, S, u) \cup {i} /\ i \notin Mine(s, S, u)
      /\ \A v : v # u => Mine(t, S \cup {i}, v) = Mine(s, S, v)
  BY ONLY <1>1, MineJoined
<1>6. Mine(t, S2, u) = M \cup {i} /\ i \notin M
  BY <1>0
<1>7. \A v : v # u => Mine(t, S2, v) = Mine(s, S, v)
  BY <1>0
<1>12. PICK rank \in Labels(SessionIds) : AllLists(s, S, rank) /\ Recent(s, S, rank)
  BY DEF Listing
<1>13. UserList(s, S, u, rank)
  BY <1>12 DEF AllLists
<1>. PICK n : n = FrontRank(SESS_LIST_HEAD, Nx(s, u), rank)
  OBVIOUS
<1>14. PICK rank2 : Relabels(SessionIds, rank, rank2, i, n)
  <2>1. n \in Int
    BY <1>13, ListView, FrontRankLess DEF UserList
  <2>. QED
    BY <2>1, RelabelExists
<1>15. LinksOK(t) /\ UserList(t, S2, u, rank2) /\ \A y \in M : rank2[i] < rank2[y]
  BY <1>3, <1>6, <1>13, <1>14, InsertList
<1>16. AllLists(t, S2, rank2)
  <2>. SUFFICES ASSUME NEW v \in UserIds, IsUser(t, v), v # u PROVE UserList(t, S2, v, rank2)
    BY <1>15 DEF AllLists
  <2>1. UserList(s, S, v, rank)
    BY <1>2, <1>12 DEF AllLists
  <2>2. Mine(t, S2, v) = Mine(s, S, v)
    BY <1>7
  <2>. QED
    BY <2>1, <2>2, <1>3, <1>13, <1>14, <1>15, InsertOther
<1>17. rank2 \in Labels(SessionIds) /\ \A z \in SessionIds : rank2[z] \in Int /\ rank2[z] = IF z = i THEN n ELSE rank[z]
  BY <1>14 DEF Relabels, Labels
<1>18. Recent(t, S2, rank2)
  <2>. PICK last : last = [z \in SessionIds |-> s.session_data[z].last_used]
    OBVIOUS
  <2>. PICK home : home = [z \in SessionIds |-> s.session_data[z].user_index]
    OBVIOUS
  <2>1. \A z \in S2 : /\ t.session_data[z].last_used = last[z] /\ last[z] \in Nat /\ last[z] <= T /\ z \in SessionIds
                      /\ t.session_data[z].user_index = IF z = i THEN u ELSE home[z]
    BY <1>4, <1>5 DEF Times, UsedNow
  <2>2. last[i] + MaxLag >= T /\ MaxLag \in Nat
    BY NatsAssumption DEF UsedNow
  <2>3. \A x, y \in S : home[x] = home[y] /\ rank[x] < rank[y] => last[x] + MaxLag >= last[y]
    BY <1>12 DEF Recent
  <2>4. \A y \in S : home[y] = u => rank2[i] < rank2[y]
    BY <1>15 DEF Mine
  <2>. SUFFICES ASSUME NEW x \in S2, NEW y \in S2, t.session_data[x].user_index = t.session_data[y].user_index,
                       rank2[x] < rank2[y]
                PROVE  last[x] + MaxLag >= last[y]
    BY <2>1 DEF Recent
  <2>5. CASE x = i
    <3>. PICK a, b, l : a = last[i] /\ b = last[y] /\ l = MaxLag
      OBVIOUS
    <3>1. a \in Nat /\ b \in Nat /\ b <= T /\ l \in Nat /\ a + l >= T
      BY <2>1, <2>2
    <3>2. a + l >= b
      BY <3>1
    <3>. QED
      BY <3>2, <2>5
  <2>6. CASE x # i /\ y = i
    <3>1. x \in S /\ home[x] = u
      BY <2>6, <2>1
    <3>2. rank2[i] < rank2[x] /\ rank2[x] \in Int /\ rank2[i] \in Int
      BY <3>1, <2>4, <1>17
    <3>. QED
      BY <3>2, <2>6
  <2>7. CASE x # i /\ y # i
    <3>1. x \in S /\ y \in S /\ home[x] = home[y]
      BY <2>7, <2>1
    <3>2. rank[x] < rank[y]
      BY <2>7, <1>17, <3>1
    <3>. QED
      BY <3>1, <3>2, <2>3
  <2>. QED
    BY <2>5, <2>6, <2>7
<1>19. Listing(t, S2)
  BY <1>16, <1>17, <1>18 DEF Listing
<1>. QED
  BY <1>15, <1>19

(* A new session joins the list of its user, who may have had none. *)
Joins(s, t, u, i) ==
  /\ Well(t) /\ JoinsList(s, t, u, i)
  /\ \A z \in SessionIds : t.session_data[z].int_ip = s.session_data[z].int_ip
  /\ \A v \in UserIds : t.user_data[v].num_sessions = IF v = u THEN s.user_data[v].num_sessions + 1 ELSE s.user_data[v].num_sessions

(* A session that joins the list of its user keeps the lists as they       *)
(* should be.                                                              *)
LEMMA JoinsInv ==
  ASSUME NEW s, NEW S \in SUBSET SessionIds, NEW T \in Nat, NEW u, UserInv(s, S, u, T), NEW i \in SessionIds, i \notin S,
         HasUser(s, s.session_data[i].int_ip, u), UsedNow(s, i, T), NEW t, Joins(s, t, u, i)
  PROVE  UserInv(t, S \cup {i}, NoIndex, T)
<1>. PICK S2 : S2 = S \cup {i}
  OBVIOUS
<1>. PICK M : M = Mine(s, S, u)
  OBVIOUS
<1>1. Well(s) /\ LinksOK(s) /\ UserTable(s) /\ u \in UserIds /\ IsUser(s, u)
  BY UserAllocated DEF UserInv
<1>2. UserTable(t) /\ (\A v : IsUser(t, v) <=> IsUser(s, v)) /\ \A addr, v : HasUser(t, addr, v) <=> HasUser(s, addr, v)
  BY <1>1, UsersStay DEF Joins, JoinsList
<1>3. Well(t) /\ JoinsList(s, t, u, i)
  BY DEF Joins
<1>4. \A z \in SessionIds : /\ t.session_data[z].user_index = IF z = i THEN u ELSE s.session_data[z].user_index
                            /\ t.session_data[z].last_used = s.session_data[z].last_used
                            /\ t.session_data[z].int_ip = s.session_data[z].int_ip
  BY DEF Joins, JoinsList
<1>5. \A z \in S : z \in SessionIds /\ z # i
  OBVIOUS
<1>6. Mine(t, S2, u) = M \cup {i} /\ i \notin M
  BY <1>3, MineJoined
<1>7. \A v : v # u => Mine(t, S2, v) = Mine(s, S, v)
  BY <1>3, MineJoined
<1>8. Homes(t, S2)
  <2>. SUFFICES ASSUME NEW z \in S2
                PROVE  HasUser(t, t.session_data[z].int_ip, t.session_data[z].user_index)
    BY DEF Homes
  <2>1. CASE z = i
    BY <2>1, <1>2, <1>4
  <2>2. CASE z \in S
    <3>1. HasUser(s, s.session_data[z].int_ip, s.session_data[z].user_index)
      BY <2>2 DEF UserInv, Homes
    <3>. QED
      BY <3>1, <2>2, <1>2, <1>4, <1>5
  <2>. QED
    BY <2>1, <2>2
<1>9. Counts(t, S2)
  <2>. SUFFICES ASSUME NEW v \in UserIds, IsUser(t, v)
                PROVE  t.user_data[v].num_sessions = Cardinality(Mine(t, S2, v))
    BY DEF Counts
  <2>1. /\ t.user_data[v].num_sessions = IF v = u THEN s.user_data[v].num_sessions + 1 ELSE s.user_data[v].num_sessions
        /\ s.user_data[v].num_sessions = Cardinality(Mine(s, S, v)) /\ Cardinality(Mine(s, S, v)) \in Nat
    BY <1>2, CountIs DEF Joins, UserInv, Counts
  <2>2. CASE v = u
    <3>1. IsFiniteSet(M)
      BY <1>1, CountIs
    <3>2. Cardinality(M \cup {i}) = Cardinality(M) + 1
      BY <3>1, <1>6, FS_AddElement
    <3>. QED
      BY <2>1, <2>2, <3>2, <1>6
  <2>3. CASE v # u
    <3>1. Mine(t, S2, v) = Mine(s, S, v)
      BY <2>3, <1>7
    <3>2. t.user_data[v].num_sessions = Cardinality(Mine(s, S, v))
      BY <2>1, <2>3
    <3>. QED
      BY <3>1, <3>2
  <2>. QED
    BY <2>2, <2>3
<1>10. NoneIdle(t, S2, NoIndex)
  BY <1>2, <1>6, <1>7 DEF UserInv, NoneIdle
<1>11. Times(t, S2, T)
  BY <1>4, <1>5 DEF UserInv, Times, UsedNow
<1>12. LinksOK(t) /\ Listing(t, S2)
  BY <1>1, <1>3, ListJoined DEF UserInv
<1>. QED
  BY <1>2, <1>3, <1>8, <1>9, <1>10, <1>11, <1>12 DEF UserInv

(* What Linked changes. *)
LEMMA LinkedJoins ==
  ASSUME NEW r, NEW s, NEW u, s = r.nat, u = r.index, Well(s), LinksOK(s), u \in UserIds, NEW i \in SessionIds,
         NEW t, t = Linked(r, i)
  PROVE  Joins(s, t, u, i) /\ SameTable(s, t)
<1>. PICK w : w = InsertAtHead(s, u, i)
  OBVIOUS
<1>. PICK q : q = [w.user_data[u] EXCEPT !.num_sessions = @ + 1]
  OBVIOUS
<1>a. PICK t1 : SetsHead(w, u, q, t1)
  BY DEF SetsHead
<1>. PICK k : k = [t1.session_data[i] EXCEPT !.user_index = u]
  OBVIOUS
<1>1. OnlyLinks(s, w) /\ Inserts(s, w, u, i) /\ Well(w)
  <2>1. After(s, u, SESS_LIST_HEAD) \in ListCells
    BY DEF LinksOK, ListCells
  <2>. QED
    BY <2>1, InsertIs, OnlyLinksWell
<1>2. SetsElement(t1, i, k, t)
  <2>1. t = [w EXCEPT !.user_data[u].num_sessions = @ + 1, !.session_data[i].user_index = u]
    BY DEF Linked
  <2>2. t1 = [w EXCEPT !.user_data = [w.user_data EXCEPT ![u] = q]]
    BY <1>a DEF SetsHead
  <2>. QED
    BY <2>1, <2>2 DEF SetsElement
<1>3. /\ NatRec(t1) /\ t1.user_map = w.user_map /\ t1.session_data = w.session_data /\ t1.user_indexes = w.user_indexes
      /\ t1.user_data = [z \in UserIds |-> t1.user_data[z]]
      /\ \A z \in UserIds : t1.user_data[z] = IF z = u THEN q ELSE w.user_data[z]
  BY <1>1, <1>a, HeadIs
<1>4. UserRec(q) /\ q.next = w.user_data[u].next /\ q.prev = w.user_data[u].prev
      /\ q.num_sessions = w.user_data[u].num_sessions + 1
  <2>1. UserRec(w.user_data[u])
    BY <1>1 DEF Well, UserNodes
  <2>. QED
    BY <2>1 DEF UserRec
<1>5. Well(t1)
  <2>1. UserNodes(t1.user_data)
    BY <1>1, <1>3, <1>4 DEF Well, UserNodes
  <2>. QED
    BY <2>1, <1>1, <1>3 DEF Well, Shaped
<1>6. /\ NatRec(t) /\ t.user_map = t1.user_map /\ t.user_data = t1.user_data /\ t.user_indexes = t1.user_indexes
      /\ t.session_data = [z \in SessionIds |-> t.session_data[z]]
      /\ \A z \in SessionIds : t.session_data[z] = IF z = i THEN k ELSE t1.session_data[z]
  BY <1>2, <1>5, ElementIs
<1>7. /\ NodeRec(k) /\ k.user_index = u /\ k.next = t1.session_data[i].next /\ k.prev = t1.session_data[i].prev
      /\ k.last_used = t1.session_data[i].last_used /\ k.int_ip = t1.session_data[i].int_ip
  <2>1. NodeRec(t1.session_data[i])
    BY <1>5 DEF Well, Shaped, Nodes
  <2>. QED
    BY <2>1 DEF NodeRec
<1>8. Well(t)
  <2>1. Nodes(t.session_data)
    BY <1>5, <1>6, <1>7 DEF Well, Shaped, Nodes
  <2>. QED
    BY <2>1, <1>5, <1>6 DEF Well, Shaped
<1>u. ASSUME NEW v \in UserIds
      PROVE  /\ t.user_data[v].next = w.user_data[v].next /\ t.user_data[v].prev = w.user_data[v].prev
             /\ t.user_data[v].num_sessions = IF v = u THEN w.user_data[v].num_sessions + 1 ELSE w.user_data[v].num_sessions
  <2>. PICK e : e = t.user_data[v]
    OBVIOUS
  <2>1. CASE v = u
    <3>1. e = q
      BY <2>1, <1>3, <1>6
    <3>. QED
      BY <3>1, <2>1, <1>4
  <2>2. CASE v # u
    <3>1. e = w.user_data[v]
      BY <2>2, <1>3, <1>6
    <3>. QED
      BY <3>1, <2>2
  <2>. QED
    BY <2>1, <2>2
<1>s. ASSUME NEW z \in SessionIds
      PROVE  /\ t.session_data[z].next = w.session_data[z].next /\ t.session_data[z].prev = w.session_data[z].prev
             /\ t.session_data[z].user_index = IF z = i THEN u ELSE w.session_data[z].user_index
             /\ t.session_data[z].last_used = w.session_data[z].last_used
             /\ t.session_data[z].int_ip = w.session_data[z].int_ip
  <2>. PICK e : e = t.session_data[z]
    OBVIOUS
  <2>1. CASE z = i
    <3>1. e = k /\ t1.session_data[i] = w.session_data[i]
      BY <2>1, <1>3, <1>6
    <3>. QED
      BY <3>1, <2>1, <1>7
  <2>2. CASE z # i
    <3>1. e = w.session_data[z]
      BY <2>2, <1>3, <1>6
    <3>. QED
      BY <3>1, <2>2
  <2>. QED
    BY <2>1, <2>2
<1>10. Inserts(s, t, u, i)
  <2>1. \A v \in UserIds, z \in ListCells : After(t, v, z) = After(w, v, z) /\ Before(t, v, z) = Before(w, v, z)
    BY <1>u, <1>s DEF After, Before, ListCells
  <2>. QED
    BY <2>1, <1>1 DEF Inserts
<1>11. KeepsUsers(s, t)
  BY <1>1, <1>3, <1>6 DEF OnlyLinks, KeepsUsers
<1>12. \A z \in SessionIds : /\ w.session_data[z].user_index = s.session_data[z].user_index
                             /\ w.session_data[z].last_used = s.session_data[z].last_used
                             /\ w.session_data[z].int_ip = s.session_data[z].int_ip
  BY <1>1 DEF OnlyLinks, SameTable
<1>13. \A z \in SessionIds : /\ t.session_data[z].user_index = IF z = i THEN u ELSE s.session_data[z].user_index
                             /\ t.session_data[z].last_used = s.session_data[z].last_used
                             /\ t.session_data[z].int_ip = s.session_data[z].int_ip
  BY <1>s, <1>12
<1>14. \A v \in UserIds : t.user_data[v].num_sessions = IF v = u THEN s.user_data[v].num_sessions + 1 ELSE s.user_data[v].num_sessions
  <2>1. \A v \in UserIds : w.user_data[v].num_sessions = s.user_data[v].num_sessions
    BY <1>1 DEF OnlyLinks
  <2>. QED
    BY <2>1, <1>u
<1>15. Joins(s, t, u, i)
  BY <1>8, <1>10, <1>11, <1>13, <1>14 DEF Joins, JoinsList
<1>16. SameTable(s, t)
  BY SameLinked DEF Well
<1>. QED
  BY <1>15, <1>16
-----------------------------------------------------------------------------
(* All sessions. *)
Live(s) == {i \in SessionIds : IsSession(s, i)}

(* Two states with one table have the same sessions. *)
LEMMA SameLive ==
  ASSUME NEW s, NEW t, SameTable(s, t)
  PROVE  Live(t) = Live(s)
  BY DEF SameTable, Live, IsSession

(* A session that was entered is on no list yet. *)
LEMMA AllocatesUsers ==
  ASSUME NEW s, NEW T, UserInv(s, Live(s), NoIndex, T), NEW p, NEW now, NEW r, Allocates(s, p, now, r)
  PROVE  /\ UserInv(r.nat, Live(s), NoIndex, T) /\ r.index \in SessionIds /\ r.index \notin Live(s)
         /\ Live(r.nat) = Live(s) \cup {r.index}
         /\ r.nat.session_data[r.index].last_used = now /\ r.nat.session_data[r.index].int_ip = p.addr
<1>. PICK i, w : i = r.index /\ w = r.nat
  OBVIOUS
<1>1. PICK t : Enters(s, t, i) /\ w = Entered(t, i, p, now)
  BY DEF Allocates
<1>2. /\ Shaped(t) /\ t.session_data = s.session_data /\ SameUsers(s, t) /\ i \in SessionIds /\ ~IsSession(s, i)
      /\ \A j \in SessionIds : IsSession(t, j) <=> j = i \/ IsSession(s, j)
  BY <1>1 DEF Enters
<1>3. /\ Shaped(w) /\ w.sess_indexes_tcp = t.sess_indexes_tcp /\ w.sess_indexes_udp = t.sess_indexes_udp
      /\ \A j \in SessionIds \ {i} : w.session_data[j] = t.session_data[j]
      /\ w.session_data[i].int_ip = p.addr
      /\ w.session_data[i].last_used = now /\ w.session_data[i].next = t.session_data[i].next
      /\ w.session_data[i].prev = t.session_data[i].prev /\ SameUsers(t, w)
  BY <1>1, <1>2, EnteredIs
<1>4. Live(w) = Live(s) \cup {i} /\ i \notin Live(s)
  <2>1. \A j : IsSession(w, j) <=> IsSession(t, j)
    BY <1>3 DEF IsSession
  <2>. QED
    BY <2>1, <1>2 DEF Live
<1>5. Well(w)
  BY <1>2, <1>3 DEF Well, UserInv, SameUsers
<1>6. Keeps(s, w, Live(s))
  <2>1. KeepsUsers(s, w) /\ w.user_data = s.user_data
    BY <1>2, <1>3 DEF SameUsers, KeepsUsers
  <2>2. \A z \in SessionIds : z # i => w.session_data[z] = s.session_data[z]
    BY <1>2, <1>3
  <2>3. \A z \in Live(s) : z \in SessionIds /\ z # i
    BY <1>4 DEF Live
  <2>. QED
    BY <2>1, <2>2, <2>3, <1>2, <1>3 DEF Keeps
<1>7. UserInv(w, Live(s), NoIndex, T)
  <2>1. Live(s) \in SUBSET SessionIds
    BY DEF Live
  <2>. QED
    BY <2>1, <1>5, <1>6, UserFrame
<1>. QED
  BY <1>2, <1>3, <1>4, <1>7

(* A new session of ei-nat joins the list of its user. *)
LEMMA NewSessionUsers ==
  ASSUME NEW s, TableInv(s), NEW T \in Nat, UserInv(s, Live(s), NoIndex, T), NEW c \in Cores,
         NEW p, <<p.addr>> \in Keys, ~Exhausted(s, c, p.proto), NEW now \in Nat, now <= T, now + MaxLag >= T,
         nf # "fw-nat", NEW r, r = NewSession(s, c, p, now)
  PROVE  UserInv(r.nat, Live(r.nat), NoIndex, T)
<1>. PICK a : a = alloc_session(s, c, p, now)
  OBVIOUS
<1>. PICK u : u = UserOf(a.nat, c, p.addr)
  OBVIOUS
<1>. PICK S, i, h, w, v, t : S = Live(s) /\ i = a.index /\ h = a.nat /\ w = u.nat /\ v = u.index /\ t = Linked(u, i)
  OBVIOUS
<1>1. Allocates(s, p, now, a)
  BY AllocSessionIs
<1>2. /\ UserInv(h, S, NoIndex, T) /\ i \in SessionIds /\ i \notin S /\ Live(h) = S \cup {i}
      /\ h.session_data[i].last_used = now /\ h.session_data[i].int_ip = p.addr
  BY <1>1, AllocatesUsers
<1>3. S \in SUBSET SessionIds
  BY DEF Live
<1>4. UserInv(w, S, v, T) /\ HasUser(w, p.addr, v) /\ w.session_data = h.session_data
  BY <1>2, <1>3, UserOfInv
<1>5. Well(w) /\ LinksOK(w) /\ v \in UserIds
  BY <1>4, UserAllocated DEF UserInv
<1>6. Joins(w, t, v, i) /\ SameTable(w, t)
  BY <1>2, <1>5, LinkedJoins
<1>7. UsedNow(w, i, T)
  BY <1>2, <1>4 DEF UsedNow
<1>8. HasUser(w, w.session_data[i].int_ip, v)
  BY <1>2, <1>4
<1>9. UserInv(t, S \cup {i}, NoIndex, T)
  BY <1>2, <1>3, <1>4, <1>6, <1>7, <1>8, JoinsInv
<1>10. Live(t) = S \cup {i}
  <2>1. SameTable(h, w)
    BY <1>2, SameUserOf DEF UserInv, Well
  <2>. QED
    BY <2>1, <1>2, <1>6, SameLive
<1>11. r.nat = t
  BY NewSessionIs
<1>. QED
  BY <1>9, <1>10, <1>11

(* A session is used at time now. *)
Stamps(s, t, i, now) == SetsElement(s, i, [s.session_data[i] EXCEPT !.last_used = now], t)

(* Refresh without With. *)
LEMMA RefreshIs ==
  ASSUME NEW s, NEW i, NEW now, NEW r, r = Refresh(s, i, now), nf # "fw-nat"
  PROVE  r = s \/ \E t : Stamps(s, t, i, now) /\ r = MoveToHead(t, i)
<1>. PICK t : t = [s EXCEPT !.session_data[i].last_used = now]
  OBVIOUS
<1>. DEFINE F(v) == IF nf = "fw-nat" THEN v ELSE MoveToHead(v, i)
            T == {F(v) : v \in {t}}
<1>1. r = s \/ r = CHOOSE y \in T : TRUE
  BY DEF Refresh, With
<1>2. T = {F(t)}
  <2>. HIDE DEF F
  <2>. QED
    OBVIOUS
<1>3. r = s \/ r = F(t)
  <2>. HIDE DEF F, T
  <2>. PICK e : e = F(t)
    OBVIOUS
  <2>. QED
    BY <1>1, <1>2, OnlyChoice
<1>4. F(t) = MoveToHead(t, i)
  OBVIOUS
<1>5. Stamps(s, t, i, now)
  BY DEF Stamps, SetsElement
<1>. HIDE DEF F
<1>. QED
  BY <1>3, <1>4, <1>5

(* What this changes. *)
LEMMA StampIs ==
  ASSUME NEW s, Well(s), NEW i \in SessionIds, NEW now, NEW t, Stamps(s, t, i, now)
  PROVE  /\ Well(t) /\ SameUsers(s, t)
         /\ \A z \in SessionIds : /\ t.session_data[z].next = s.session_data[z].next
                                  /\ t.session_data[z].prev = s.session_data[z].prev
                                  /\ t.session_data[z].user_index = s.session_data[z].user_index
                                  /\ t.session_data[z].int_ip = s.session_data[z].int_ip
                                  /\ t.session_data[z].last_used = IF z = i THEN now ELSE s.session_data[z].last_used
<1>. PICK r, q : r = s.session_data[i] /\ q = [r EXCEPT !.last_used = now]
  OBVIOUS
<1>1. NodeRec(q) /\ q.next = r.next /\ q.prev = r.prev /\ q.user_index = r.user_index /\ q.int_ip = r.int_ip /\ q.last_used = now
  <2>1. NodeRec(r)
    BY DEF Well, Shaped, Nodes
  <2>. QED
    BY <2>1 DEF NodeRec
<1>2. SetsElement(s, i, q, t)
  BY DEF Stamps
<1>3. /\ NatRec(t) /\ t.user_map = s.user_map /\ t.user_data = s.user_data /\ t.user_indexes = s.user_indexes
      /\ t.session_data = [z \in SessionIds |-> t.session_data[z]]
      /\ \A z \in SessionIds : t.session_data[z] = IF z = i THEN q ELSE s.session_data[z]
  BY <1>2, ElementIs
<1>4. Well(t)
  <2>1. \A z \in SessionIds : NodeRec(s.session_data[z])
    BY DEF Well, Shaped, Nodes
  <2>2. Nodes(t.session_data)
    BY <2>1, <1>1, <1>3 DEF Nodes
  <2>. QED
    BY <2>2, <1>3 DEF Well, Shaped
<1>5. ASSUME NEW z \in SessionIds
      PROVE  /\ t.session_data[z].next = s.session_data[z].next
             /\ t.session_data[z].prev = s.session_data[z].prev
             /\ t.session_data[z].user_index = s.session_data[z].user_index
             /\ t.session_data[z].int_ip = s.session_data[z].int_ip
             /\ t.session_data[z].last_used = IF z = i THEN now ELSE s.session_data[z].last_used
  <2>. PICK e : e = t.session_data[z]
    OBVIOUS
  <2>1. CASE z = i
    <3>1. e = q
      BY <2>1, <1>3
    <3>. QED
      BY <3>1, <2>1, <1>1
  <2>2. CASE z # i
    <3>1. e = s.session_data[z]
      BY <2>2, <1>3
    <3>. QED
      BY <3>1, <2>2
  <2>. QED
    BY <2>1, <2>2
<1>. QED
  BY <1>3, <1>4, <1>5 DEF SameUsers

(* All but the times are as before. *)
Moves(s, t, S) ==
  /\ Well(t) /\ LinksOK(t) /\ KeepsUsers(s, t)
  /\ \A z \in SessionIds : /\ t.session_data[z].user_index = s.session_data[z].user_index
                           /\ t.session_data[z].int_ip = s.session_data[z].int_ip
  /\ \A u \in UserIds : t.user_data[u].num_sessions = s.user_data[u].num_sessions

(* What remains to be shown then. *)
LEMMA MovesInv ==
  ASSUME NEW s, NEW S \in SUBSET SessionIds, NEW e, NEW T, UserInv(s, S, e, T), NEW t, Moves(s, t, S),
         Times(t, S, T), Listing(t, S)
  PROVE  UserInv(t, S, e, T)
<1>1. UserTable(t) /\ (\A u : IsUser(t, u) <=> IsUser(s, u)) /\ \A addr, u : HasUser(t, addr, u) <=> HasUser(s, addr, u)
  BY UsersStay DEF UserInv, Moves
<1>2. \A z \in S : /\ t.session_data[z].user_index = s.session_data[z].user_index
                   /\ t.session_data[z].int_ip = s.session_data[z].int_ip
  BY DEF Moves
<1>3. \A u : Mine(t, S, u) = Mine(s, S, u)
  BY <1>2 DEF Mine
<1>4. Homes(t, S)
  BY <1>1, <1>2 DEF UserInv, Homes
<1>5. Counts(t, S)
  BY <1>1, <1>3 DEF UserInv, Counts, Moves
<1>6. NoneIdle(t, S, e)
  BY <1>1, <1>3 DEF UserInv, NoneIdle
<1>. QED
  BY <1>1, <1>4, <1>5, <1>6 DEF UserInv, Moves

(* A session is taken out of its list. *)
LEMMA ListTaken ==
  ASSUME NEW s, LinksOK(s), NEW S \in SUBSET SessionIds, NEW rank \in Labels(SessionIds), AllLists(s, S, rank),
         NEW u \in UserIds, IsUser(s, u), NEW i \in Mine(s, S, u), Before(s, u, i) # SESS_LIST_HEAD,
         NEW t, Removes(s, t, u, i), KeepsUsers(s, t),
         \A z \in SessionIds : t.session_data[z].user_index = s.session_data[z].user_index
  PROVE  LinksOK(t) /\ AllLists(t, S \ {i}, rank)
<1>. PICK S2 : S2 = S \ {i}
  OBVIOUS
<1>1. \A z \in S2 : z \in SessionIds
  OBVIOUS
<1>2. Mine(t, S2, u) = Mine(s, S, u) \ {i} /\ \A v : v # u => Mine(t, S2, v) = Mine(s, S, v)
  BY <1>1 DEF Mine
<1>3. S2 \in SUBSET SessionIds /\ UserList(s, S, u, rank)
  BY DEF AllLists
<1>4. LinksOK(t) /\ UserList(t, S2, u, rank)
  BY <1>2, <1>3, RemoveList
<1>5. ASSUME NEW v \in UserIds, v # u, IsUser(t, v) PROVE UserList(t, S2, v, rank)
  <2>1. IsUser(s, v)
    BY <1>5, UsersStay
  <2>2. UserList(s, S, v, rank)
    BY <2>1 DEF AllLists
  <2>3. Mine(t, S2, v) = Mine(s, S, v)
    BY <1>5, <1>2
  <2>. QED
    BY <1>3, <1>4, <1>5, <2>2, <2>3, RemoveOther
<1>. QED
  BY <1>4, <1>5 DEF AllLists

(* The first session of a list is stamped. *)
LEMMA StampFirst ==
  ASSUME NEW s, LinksOK(s), NEW S \in SUBSET SessionIds, NEW rank \in Labels(SessionIds), NEW T \in Nat,
         AllLists(s, S, rank), NEW u \in UserIds, IsUser(s, u), NEW i \in Mine(s, S, u),
         Before(s, u, i) = SESS_LIST_HEAD, Recent(s, S \ {i}, rank), Times(s, S, T), UsedNow(s, i, T)
  PROVE  Listing(s, S)
<1>. PICK nx, pv, on : nx = Nx(s, u) /\ pv = Pv(s, u) /\ on = On(s, S, u)
  OBVIOUS
<1>. PICK h, M : h = SESS_LIST_HEAD /\ M = Mine(s, S, u)
  OBVIOUS
<1>1. UserList(s, S, u, rank)
  BY DEF AllLists
<1>2. Members(SessionIds, h, on) = M /\ M \subseteq SessionIds /\ \A z \in ListCells : pv[z] = Before(s, u, z)
  BY ListView
<1>3. nx[h] = i
  <2>1. i \in ListCells
    BY <1>2 DEF ListCells
  <2>2. pv[i] = h /\ nx[pv[i]] = i
    BY <2>1, <1>1, <1>2 DEF UserList, Doubly
  <2>. QED
    BY <2>2
<1>4. \A y \in M : rank[i] <= rank[y] /\ rank[i] \in Int /\ rank[y] \in Int
  <2>1. \A y \in M : rank[nx[h]] <= rank[y]
    BY <1>1, <1>2 DEF UserList, List, FirstIsLeast
  <2>. QED
    BY <2>1, <1>2, <1>3 DEF Labels
<1>5. Recent(s, S, rank)
  <2>. SUFFICES ASSUME NEW x \in S, NEW y \in S, s.session_data[x].user_index = s.session_data[y].user_index,
                       rank[x] < rank[y]
                PROVE  s.session_data[x].last_used + MaxLag >= s.session_data[y].last_used
    BY DEF Recent
  <2>1. CASE x = i
    <3>. PICK a, b, l : a = s.session_data[i].last_used /\ b = s.session_data[y].last_used /\ l = MaxLag
      OBVIOUS
    <3>1. a \in Nat /\ b \in Nat /\ b <= T /\ l \in Nat /\ a + l >= T
      BY NatsAssumption DEF Times, UsedNow
    <3>2. a + l >= b
      BY <3>1
    <3>. QED
      BY <3>2, <2>1
  <2>2. CASE y = i
    <3>1. x \in M
      BY <2>2 DEF Mine
    <3>. QED
      BY <3>1, <2>2, <1>4
  <2>3. CASE x # i /\ y # i
    BY <2>3 DEF Recent
  <2>. QED
    BY <2>1, <2>2, <2>3
<1>. QED
  BY <1>5 DEF Listing

(* The refresh of a session keeps the lists as they should be. *)
LEMMA RefreshInv ==
  ASSUME NEW s, NEW S \in SUBSET SessionIds, NEW T \in Nat, UserInv(s, S, NoIndex, T), NEW i \in S,
         NEW now \in Nat, now <= T, now + MaxLag >= T, nf # "fw-nat", NEW r, r = Refresh(s, i, now)
  PROVE  UserInv(r, S, NoIndex, T)
<1>. SUFFICES ASSUME NEW t, Stamps(s, t, i, now), r = MoveToHead(t, i)
              PROVE  UserInv(r, S, NoIndex, T)
  BY RefreshIs
<1>. PICK u : u = s.session_data[i].user_index
  OBVIOUS
<1>. PICK R : R = S \ {i}
  OBVIOUS
<1>1. Well(s) /\ LinksOK(s) /\ u \in UserIds /\ IsUser(s, u) /\ i \in SessionIds
  BY UserAllocated DEF UserInv, Homes
<1>2. /\ Well(t) /\ SameUsers(s, t)
      /\ \A z \in SessionIds : /\ t.session_data[z].next = s.session_data[z].next
                               /\ t.session_data[z].prev = s.session_data[z].prev
                               /\ t.session_data[z].user_index = s.session_data[z].user_index
                               /\ t.session_data[z].int_ip = s.session_data[z].int_ip
                               /\ t.session_data[z].last_used = IF z = i THEN now ELSE s.session_data[z].last_used
  BY <1>1, StampIs
<1>3. KeepsUsers(s, t) /\ t.user_data = s.user_data
  BY <1>2 DEF SameUsers, KeepsUsers
<1>4. \A v \in UserIds, z \in ListCells : After(t, v, z) = After(s, v, z) /\ Before(t, v, z) = Before(s, v, z)
  BY <1>2, <1>3 DEF After, Before, ListCells
<1>5. LinksOK(t)
  BY <1>1, <1>4 DEF LinksOK
<1>6. \A v : IsUser(t, v) <=> IsUser(s, v)
  BY <1>3, UsersStay
<1>7. (\A v : Mine(t, S, v) = Mine(s, S, v)) /\ i \in Mine(t, S, u)
  <2>1. \A z \in S : t.session_data[z].user_index = s.session_data[z].user_index
    BY <1>2
  <2>. QED
    BY <2>1 DEF Mine
<1>8. PICK rank \in Labels(SessionIds) : AllLists(s, S, rank) /\ Recent(s, S, rank)
  BY DEF UserInv, Listing
<1>9. AllLists(t, S, rank)
  <2>. SUFFICES ASSUME NEW v \in UserIds, IsUser(t, v) PROVE UserList(t, S, v, rank)
    BY DEF AllLists
  <2>1. UserList(s, S, v, rank)
    BY <1>6, <1>8 DEF AllLists
  <2>2. \A z \in Mine(s, S, v) \cup {SESS_LIST_HEAD} : z \in ListCells
    BY DEF Mine, ListCells
  <2>3. \A z \in Mine(s, S, v) \cup {SESS_LIST_HEAD} : After(t, v, z) = After(s, v, z) /\ Before(t, v, z) = Before(s, v, z)
    BY <2>2, <1>4
  <2>. QED
    BY <2>1, <2>3, <1>1, <1>5, <1>7, <1>8, ListStays
<1>10. Times(t, S, T)
  BY <1>2 DEF UserInv, Times
<1>11. Recent(t, R, rank)
  <2>1. \A z \in R : /\ t.session_data[z].user_index = s.session_data[z].user_index
                     /\ t.session_data[z].last_used = s.session_data[z].last_used /\ z \in S
    BY <1>2
  <2>. QED
    BY <2>1, <1>8 DEF Recent
<1>12. UsedNow(t, i, T)
  BY <1>1, <1>2 DEF UsedNow
<1>13. Before(t, u, i) = t.session_data[i].prev /\ t.session_data[i].user_index = u
  BY <1>1, <1>2, HeadApart DEF Before
<1>14. CASE Before(t, u, i) = SESS_LIST_HEAD
  <2>1. r = t
    BY <1>13, <1>14 DEF MoveToHead
  <2>2. Listing(t, S)
    BY <1>1, <1>5, <1>6, <1>7, <1>8, <1>9, <1>10, <1>11, <1>12, <1>14, StampFirst
  <2>3. Moves(s, t, S)
    BY <1>2, <1>3, <1>5 DEF Moves
  <2>. QED
    BY <2>1, <2>2, <2>3, <1>10, MovesInv
<1>15. CASE Before(t, u, i) # SESS_LIST_HEAD
  <2>1. UserList(t, S, u, rank)
    BY <1>1, <1>6, <1>9 DEF AllLists
  <2>2. Before(t, u, i) \in SessionIds /\ After(t, u, i) \in ListCells
    <3>1. Before(t, u, i) \in Mine(t, S, u) \cup {SESS_LIST_HEAD}
      BY <2>1, <1>1, <1>5, <1>7, ListLeads
    <3>2. i \in ListCells
      BY <1>1 DEF ListCells
    <3>. QED
      BY <3>1, <3>2, <1>1, <1>5, <1>15 DEF Mine, LinksOK
  <2>3. PICK w : OnlyLinks(t, w) /\ Removes(t, w, u, i) /\ r = InsertAtHead(w, u, i)
    BY <2>2, <1>1, <1>2, <1>13, MoveIs
  <2>4. /\ Well(w) /\ KeepsUsers(t, w)
        /\ \A z \in SessionIds : /\ w.session_data[z].user_index = t.session_data[z].user_index
                                 /\ w.session_data[z].last_used = t.session_data[z].last_used
                                 /\ w.session_data[z].int_ip = t.session_data[z].int_ip
        /\ \A v \in UserIds : w.user_data[v].num_sessions = t.user_data[v].num_sessions
    BY <2>3, OnlyLinksWell DEF OnlyLinks, KeepsUsers, SameTable
  <2>5. LinksOK(w) /\ AllLists(w, R, rank)
    BY <2>3, <2>4, <1>1, <1>5, <1>6, <1>7, <1>8, <1>9, <1>15, ListTaken
  <2>6. Recent(w, R, rank) /\ Times(w, R, T) /\ UsedNow(w, i, T)
    <3>1. \A z \in R : /\ w.session_data[z].user_index = t.session_data[z].user_index
                       /\ w.session_data[z].last_used = t.session_data[z].last_used /\ z \in S
      BY <2>4
    <3>2. w.session_data[i].last_used = t.session_data[i].last_used
      BY <2>4, <1>1
    <3>. QED
      BY <3>1, <3>2, <1>10, <1>11, <1>12 DEF Recent, Times, UsedNow
  <2>7. Listing(w, R)
    BY <2>5, <2>6, <1>8 DEF Listing
  <2>8. OnlyLinks(w, r) /\ Inserts(w, r, u, i) /\ Well(r)
    <3>1. After(w, u, SESS_LIST_HEAD) \in ListCells
      BY <2>5, <1>1 DEF LinksOK, ListCells
    <3>. QED
      BY <3>1, <2>3, <2>4, <1>1, InsertIs, OnlyLinksWell
  <2>9. /\ KeepsUsers(w, r)
        /\ \A z \in SessionIds : /\ r.session_data[z].user_index = w.session_data[z].user_index
                                 /\ r.session_data[z].last_used = w.session_data[z].last_used
                                 /\ r.session_data[z].int_ip = w.session_data[z].int_ip
        /\ \A v \in UserIds : r.user_data[v].num_sessions = w.user_data[v].num_sessions
    BY <2>8 DEF OnlyLinks, KeepsUsers, SameTable
  <2>10. JoinsList(w, r, u, i)
    <3>1. w.session_data[i].user_index = u
      BY <2>4, <1>1, <1>13
    <3>. QED
      BY <3>1, <2>8, <2>9 DEF JoinsList
  <2>11. LinksOK(r) /\ Listing(r, S)
    <3>1. R \in SUBSET SessionIds /\ i \notin R /\ R \cup {i} = S
      OBVIOUS
    <3>2. IsUser(w, u)
      BY <2>4, <1>1, <1>6, UsersStay
    <3>3. LinksOK(r) /\ Listing(r, R \cup {i})
      BY <3>1, <3>2, <2>5, <2>6, <2>7, <2>10, <1>1, ListJoined
    <3>. QED
      BY <3>1, <3>3
  <2>12. Times(r, S, T)
    <3>1. \A z \in S : r.session_data[z].last_used = t.session_data[z].last_used
      BY <2>4, <2>9
    <3>. QED
      BY <3>1, <1>10 DEF Times
  <2>13. Moves(s, r, S)
    <3>1. KeepsUsers(s, r)
      BY <2>4, <2>9, <1>3 DEF KeepsUsers
    <3>2. \A z \in SessionIds : /\ r.session_data[z].user_index = s.session_data[z].user_index
                                /\ r.session_data[z].int_ip = s.session_data[z].int_ip
      BY <2>4, <2>9, <1>2
    <3>3. \A v \in UserIds : r.user_data[v].num_sessions = s.user_data[v].num_sessions
      BY <2>4, <2>9, <1>3
    <3>. QED
      BY <3>1, <3>2, <3>3, <2>8, <2>11 DEF Moves
  <2>. QED
    BY <2>11, <2>12, <2>13, MovesInv
<1>. QED
  BY <1>14, <1>15

(* A handler of ei-nat keeps the lists as they should be. *)
LEMMA HandlerUsers ==
  ASSUME NEW s, TableInv(s), NEW T \in Nat, UserInv(s, Live(s), NoIndex, T), NEW c \in Cores,
         NEW p, Key(p) \in Keys, <<p.addr>> \in Keys, CanRun(s, c, p),
         NEW now \in Nat, now <= T, now + MaxLag >= T, nf # "fw-nat", NEW h, h = pkt_handler(s, c, p, now)
  PROVE  UserInv(h.nat, Live(h.nat), NoIndex, T)
<1>. PICK r : r = SessionOf(s, c, p, now)
  OBVIOUS
<1>. PICK t, i, w : t = r.nat /\ i = r.index /\ w = Refresh(t, i, now)
  OBVIOUS
<1>1. TableInv(t) /\ HasSession(t, p, i)
  BY SessionOpened DEF Opened
<1>2. h.nat = w
  BY HandlerIs
<1>3. UserInv(t, Live(t), NoIndex, T)
  <2>1. CASE nfos_map_get(s.session_map, Key(p)) = NoValue
    <3>1. ~Exhausted(s, c, p.proto) /\ r = NewSession(s, c, p, now)
      BY <2>1 DEF CanRun, SessionOf
    <3>. QED
      BY <3>1, NewSessionUsers
  <2>2. CASE nfos_map_get(s.session_map, Key(p)) # NoValue
    <3>1. t = s
      BY <2>2 DEF SessionOf
    <3>. QED
      BY <3>1
  <2>. QED
    BY <2>1, <2>2
<1>4. i \in Live(t)
  <2>1. PICK x \in Busy(t.session_map) : t.session_map[x].vals = i
    BY <1>1 DEF HasSession
  <2>2. EntryOK(t, x)
    BY <1>1 DEF TableInv
  <2>. QED
    BY <2>1, <2>2 DEF EntryOK, Live
<1>5. UserInv(w, Live(t), NoIndex, T)
  <2>1. Live(t) \in SUBSET SessionIds
    BY DEF Live
  <2>. QED
    BY <2>1, <1>3, <1>4, RefreshInv
<1>6. SameTable(t, w)
  BY <1>1, SameRefresh DEF TableInv
<1>7. Live(w) = Live(t)
  BY <1>6, SameLive
<1>. QED
  BY <1>2, <1>5, <1>7
-----------------------------------------------------------------------------
(* The walk that ListOf(u) takes. *)
AtEq(u, g) ==
  g = [n \in 0..2 * num_avail_ext_tuples |->
         IF n = 0 THEN nat.user_data[u].next
         ELSE IF g[n - 1] = SESS_LIST_HEAD THEN SESS_LIST_HEAD ELSE nat.session_data[g[n - 1]].next]

At(u) == CHOOSE g : AtEq(u, g)

(* ListOf in these words. *)
LEMMA ListOfIs ==
  ASSUME NEW u
  PROVE  ListOf(u) = [n \in 1..Cardinality({m \in DOMAIN At(u) : At(u)[m] # SESS_LIST_HEAD}) |-> At(u)[n - 1]]
  BY DEF ListOf, At, AtEq

(* It goes through the links of Nx. *)
LEMMA ListOfListed ==
  ASSUME LinksOK(nat), NEW u \in UserIds
  PROVE  ListOf(u) = Listed(Nx(nat, u), SESS_LIST_HEAD, 2 * num_avail_ext_tuples)
<1>. PICK N, h, nx, W : N = 2 * num_avail_ext_tuples /\ h = SESS_LIST_HEAD /\ nx = Nx(nat, u) /\ W = Walk(nx, h, N)
  OBVIOUS
<1>1. N \in Nat
  BY TupleCount
<1>2. nx \in Links(ListCells) /\ h \in ListCells /\ nx[h] = nat.user_data[u].next
      /\ \A z \in ListCells : z # h => nx[z] = nat.session_data[z].next
  BY DEF Links, Nx, LinksOK, ListCells, After
<1>3. WalkEq(W, nx, h, N)
  BY <1>1, <1>2, WalkEquation
<1>4. \A n \in 0..N : W[n] = IF n = 0 THEN nx[h] ELSE IF W[n - 1] = h THEN h ELSE nx[W[n - 1]]
  BY <1>3 DEF WalkEq
<1>5. \A n \in 0..N : W[n] \in ListCells
  <2>. DEFINE T == {n \in 0..N : W[n] \in ListCells}
  <2>1. 0 \in T
    BY <1>1, <1>2, <1>4 DEF Links
  <2>2. ASSUME NEW n \in 0..N - 1, n \in T PROVE n + 1 \in T
    <3>1. n + 1 \in 0..N /\ n + 1 # 0 /\ (n + 1) - 1 = n
      BY <1>1
    <3>2. W[n + 1] = IF W[n] = h THEN h ELSE nx[W[n]]
      BY <3>1, <1>4
    <3>. QED
      BY <3>1, <3>2, <2>2, <1>2 DEF Links
  <2>3. \A n \in 0..N : n \in T
    <3>. HIDE DEF T
    <3>. QED
      BY <1>1, <2>1, <2>2, Induction
  <2>. QED
    BY <2>3
<1>6. AtEq(u, W)
  <2>1. ASSUME NEW n \in 0..N
        PROVE  W[n] = IF n = 0 THEN nat.user_data[u].next ELSE IF W[n - 1] = h THEN h ELSE nat.session_data[W[n - 1]].next
    <3>1. CASE n = 0
      BY <3>1, <1>2, <1>4
    <3>2. CASE n # 0
      <4>1. n - 1 \in 0..N
        BY <3>2, <1>1
      <4>. QED
        BY <4>1, <3>2, <1>2, <1>4, <1>5
    <3>. QED
      BY <3>1, <3>2
  <2>2. W = [n \in 0..N |-> W[n]]
    BY <1>3 DEF WalkEq
  <2>. QED
    BY <2>1, <2>2 DEF AtEq
<1>7. AtEq(u, At(u))
  BY <1>6 DEF At
<1>. PICK G : G = At(u)
  OBVIOUS
<1>8. G = [n \in 0..N |-> G[n]]
      /\ \A n \in 0..N : G[n] = IF n = 0 THEN nat.user_data[u].next
                                ELSE IF G[n - 1] = h THEN h ELSE nat.session_data[G[n - 1]].next
  BY <1>7 DEF AtEq
<1>9. \A n \in 0..N : W[n] = IF n = 0 THEN nat.user_data[u].next
                             ELSE IF W[n - 1] = h THEN h ELSE nat.session_data[W[n - 1]].next
  BY <1>6 DEF AtEq
<1>10. \A n \in 0..N : G[n] = W[n]
  <2>. DEFINE T == {n \in 0..N : G[n] = W[n]}
  <2>1. 0 \in T
    <3>1. 0 \in 0..N
      BY <1>1
    <3>2. G[0] = nat.user_data[u].next /\ W[0] = nat.user_data[u].next
      BY <3>1, <1>8, <1>9
    <3>. QED
      BY <3>1, <3>2
  <2>2. ASSUME NEW n \in 0..N - 1, n \in T PROVE n + 1 \in T
    <3>1. n + 1 \in 0..N /\ n + 1 # 0 /\ (n + 1) - 1 = n
      BY <1>1
    <3>2. G[n + 1] = IF G[n] = h THEN h ELSE nat.session_data[G[n]].next
      BY <3>1, <1>8
    <3>3. W[n + 1] = IF W[n] = h THEN h ELSE nat.session_data[W[n]].next
      BY <3>1, <1>9
    <3>. QED
      BY <3>1, <3>2, <3>3, <2>2
  <2>3. \A n \in 0..N : n \in T
    <3>. HIDE DEF T
    <3>. QED
      BY <1>1, <2>1, <2>2, Induction
  <2>. QED
    BY <2>3
<1>11. W = [n \in 0..N |-> W[n]]
  BY <1>3 DEF WalkEq
<1>12. G = W /\ DOMAIN W = 0..N
  BY <1>8, <1>10, <1>11
<1>13. ListOf(u) = [n \in 1..Cardinality({m \in 0..N : W[m] # h}) |-> W[n - 1]]
  BY <1>12, ListOfIs
<1>. QED
  BY <1>13 DEF Listed

(* How many there are on an enumerated list. *)
LEMMA EnumeratesCount ==
  ASSUME NEW C, NEW h, NEW on, NEW rank \in Labels(C), NEW L, Enumerates(C, L, h, on, rank),
         NEW k \in Nat, L = [n \in 1..k |-> L[n]]
  PROVE  Len(L) = k /\ ToSet(L) = Members(C, h, on) /\ Cardinality(Members(C, h, on)) = k
<1>. PICK M : M = Members(C, h, on)
  OBVIOUS
<1>1. DOMAIN L = 1..k /\ M \subseteq C
  BY DEF Members
<1>2. (\A n \in 1..k : L[n] \in M) /\ (\A x \in M : \E n \in 1..k : L[n] = x)
      /\ \A m, n \in 1..k : m < n => rank[L[m]] < rank[L[n]]
  BY <1>1 DEF Enumerates
<1>3. L \in [1..k -> M]
  BY <1>2
<1>4. Len(L) = k
  <2>1. L \in Seq(M)
    BY <1>3
  <2>2. Len(L) \in Nat /\ DOMAIN L = 1..Len(L)
    BY <2>1
  <2>. QED
    BY <2>2, <1>1
<1>5. ToSet(L) = M
  BY <1>1, <1>2 DEF ToSet
<1>6. \A m, n \in 1..k : L[m] = L[n] => m = n
  <2>1. \A n \in 1..k : rank[L[n]] \in Int
    BY <1>1, <1>2 DEF Labels
  <2>. QED
    BY <2>1, <1>2
<1>7. L \in Bijection(1..k, M)
  BY <1>2, <1>3, <1>6 DEF Bijection, Injection, Surjection, IsInjective
<1>8. Cardinality(M) = k
  <2>1. ExistsBijection(1..k, M)
    BY <1>7 DEF ExistsBijection
  <2>. QED
    BY <2>1, FS_CountingElements
<1>. QED
  BY <1>4, <1>5, <1>8

(* There are as many entries of the map as there are users. *)
LEMMA KnownCount ==
  ASSUME UserTable(nat)
  PROVE  Cardinality(KnownUsers) = Cardinality({u \in UserIds : IsUser(nat, u)})
<1>. PICK m : m = nat.user_map
  OBVIOUS
<1>. PICK B, U : B = Busy(m) /\ U = {u \in UserIds : IsUser(nat, u)}
  OBVIOUS
<1>1. /\ MapOf(m, UserCells) /\ \A x \in B : m[x].vals \in U
      /\ \A x, y \in B : m[x].vals = m[y].vals => x = y
      /\ \A u \in U : \E x \in B : m[x].vals = u
  BY DEF UserTable, UserEntry
<1>2. IsFiniteSet(B)
  BY <1>1, MapFacts
<1>3. Cardinality(U) = Cardinality(B)
  <2>. PICK f : f = [x \in B |-> m[x].vals]
    OBVIOUS
  <2>1. f \in [B -> U] /\ (\A x, y \in B : f[x] = f[y] => x = y) /\ \A u \in U : \E x \in B : f[x] = u
    BY <1>1
  <2>2. f \in Bijection(B, U)
    BY ONLY <2>1 DEF Bijection, Injection, Surjection, IsInjective
  <2>3. ExistsBijection(B, U)
    BY ONLY <2>2 DEF ExistsBijection
  <2>. QED
    BY <2>3, <1>2, FS_Bijection
<1>4. Cardinality(KnownUsers) = Cardinality(B)
  <2>. PICK f : f = [x \in B |-> m[x]]
    OBVIOUS
  <2>. PICK K : K = KnownUsers
    OBVIOUS
  <2>1. K = {m[x] : x \in B}
    BY DEF KnownUsers
  <2>2. f \in [B -> K] /\ (\A x, y \in B : f[x] = f[y] => x = y) /\ \A u \in K : \E x \in B : f[x] = u
    BY <1>1, <2>1
  <2>3. f \in Bijection(B, K)
    BY ONLY <2>2 DEF Bijection, Injection, Surjection, IsInjective
  <2>4. ExistsBijection(B, K)
    BY ONLY <2>3 DEF ExistsBijection
  <2>. QED
    BY <2>4, <1>2, FS_Bijection
<1>. QED
  BY <1>3, <1>4

(* The sessions of a user are those of its address. *)
LEMMA MineIs ==
  ASSUME NEW s, NEW S, UserTable(s), Homes(s, S), NEW x \in Busy(s.user_map), NEW cell, cell = s.user_map[x]
  PROVE  Mine(s, S, cell.vals) = {i \in S : s.session_data[i].int_ip = cell.key[1]}
<1>. PICK m : m = s.user_map
  OBVIOUS
<1>1. /\ MapSound(m) /\ MapOf(m, UserCells) /\ cell.key = <<cell.key[1]>>
      /\ \A y, z \in Busy(m) : m[y].vals = m[z].vals => y = z
  BY DEF UserTable, UserEntry
<1>2. \A y, z \in Busy(m) : m[y].key = m[z].key => y = z
  BY <1>1 DEF MapSound
<1>3. ASSUME NEW i \in S PROVE s.session_data[i].user_index = cell.vals <=> s.session_data[i].int_ip = cell.key[1]
  <2>. PICK a, v : a = s.session_data[i].int_ip /\ v = s.session_data[i].user_index
    OBVIOUS
  <2>1. PICK y \in Busy(m) : m[y].key = <<a>> /\ m[y].vals = v
    BY DEF Homes, HasUser
  <2>2. v = cell.vals => a = cell.key[1]
    <3>1. v = cell.vals => y = x
      BY <1>1, <2>1
    <3>2. <<a>>[1] = a
      OBVIOUS
    <3>. QED
      BY <3>1, <3>2, <2>1
  <2>3. a = cell.key[1] => v = cell.vals
    <3>1. a = cell.key[1] => m[y].key = cell.key
      BY <1>1, <2>1
    <3>. QED
      BY <3>1, <1>2, <2>1
  <2>. QED
    BY <2>2, <2>3
<1>. QED
  BY <1>3 DEF Mine

(* What UserListsSound and MostRecentFirst say of one user. *)
ListSound(cell) ==
  LET u == cell.vals
      L == ListOf(u)
  IN  /\ ToSet(L) = {i \in Sessions : nat.session_data[i].int_ip = cell.key[1]}
      /\ Len(L) = Cardinality(ToSet(L)) /\ Len(L) = nat.user_data[u].num_sessions
      /\ \A n \in DOMAIN L :
           /\ nat.session_data[L[n]].user_index = u
           /\ nat.session_data[L[n]].prev = IF n = 1 THEN SESS_LIST_HEAD ELSE L[n - 1]
      /\ nat.user_data[u].prev = L[Len(L)]

InOrder(u) ==
  LET L == ListOf(u) IN
  \A m, n \in DOMAIN L : m < n => nat.session_data[L[m]].last_used + MaxLag >= nat.session_data[L[n]].last_used

(* The list that the links of a user make. *)
LEMMA ListIs ==
  ASSUME NEW T, UserInv(nat, Live(nat), NoIndex, T), NEW x \in Busy(nat.user_map), NEW cell, cell = nat.user_map[x]
  PROVE  ListSound(cell) /\ InOrder(cell.vals)
<1>. PICK u, S, L, N, h : u = cell.vals /\ S = Live(nat) /\ L = ListOf(u) /\ N = 2 * num_avail_ext_tuples /\ h = SESS_LIST_HEAD
  OBVIOUS
<1>1. S \in SUBSET SessionIds /\ S = Sessions
  BY SessionsAre DEF Live
<1>2. LinksOK(nat) /\ UserTable(nat) /\ Homes(nat, S) /\ Counts(nat, S) /\ NoneIdle(nat, S, NoIndex)
  BY DEF UserInv
<1>3. u \in UserIds /\ IsUser(nat, u) /\ u # NoIndex
  <2>1. u \in UserIds /\ IsUser(nat, u)
    BY <1>2 DEF UserTable, UserEntry
  <2>2. NoIndex \notin UserIds
    BY UserCount DEF UserIds, NoIndex, Tuples!NoIndex
  <2>. QED
    BY <2>1, <2>2
<1>. PICK M : M = Mine(nat, S, u)
  OBVIOUS
<1>4. M = {i \in S : nat.session_data[i].int_ip = cell.key[1]} /\ M # {} /\ nat.user_data[u].num_sessions = Cardinality(M)
  BY <1>2, <1>3, MineIs DEF Counts, NoneIdle
<1>5. PICK rank \in Labels(SessionIds) : AllLists(nat, S, rank) /\ Recent(nat, S, rank)
  BY DEF UserInv, Listing
<1>. PICK nx, pv, on : nx = Nx(nat, u) /\ pv = Pv(nat, u) /\ on = On(nat, S, u)
  OBVIOUS
<1>6. List(SessionIds, h, nx, on, rank) /\ Doubly(SessionIds, h, nx, pv, on)
  BY <1>3, <1>5 DEF AllLists, UserList
<1>7. /\ nx \in Links(ListCells) /\ pv \in Links(ListCells) /\ on \in Labels(SessionIds)
      /\ Members(SessionIds, h, on) = M /\ \A z \in ListCells : pv[z] = Before(nat, u, z)
      /\ SessionIds \in SUBSET ListCells /\ h \in ListCells \ SessionIds /\ M \subseteq SessionIds
  <2>1. LinksOK(nat) /\ S \in SUBSET SessionIds /\ u \in UserIds
    BY <1>1, <1>2, <1>3
  <2>2. PICK s : s = nat
    OBVIOUS
  <2>3. /\ Nx(s, u) \in Links(ListCells) /\ Pv(s, u) \in Links(ListCells)
        /\ On(s, S, u) \in Labels(SessionIds)
        /\ Members(SessionIds, SESS_LIST_HEAD, On(s, S, u)) = Mine(s, S, u)
        /\ \A z \in ListCells : Nx(s, u)[z] = After(s, u, z) /\ Pv(s, u)[z] = Before(s, u, z)
        /\ SessionIds \in SUBSET ListCells /\ SESS_LIST_HEAD \in ListCells \ SessionIds
        /\ Mine(s, S, u) \subseteq SessionIds
    BY ONLY <2>1, <2>2, ListView
  <2>. QED
    BY <2>2, <2>3
<1>8. N \in Nat /\ Fits(SessionIds, N)
  <2>1. SessionIds \in SUBSET SessionIds
    OBVIOUS
  <2>. QED
    BY <2>1, TupleCount, SomeSessions DEF Fits
<1>9. L = Listed(nx, h, N)
  BY <1>2, <1>3, ListOfListed
<1>10. Enumerates(SessionIds, L, h, on, rank)
  BY <1>6, <1>7, <1>8, <1>9, ListedEnumerates
<1>11. PICK k \in Nat : DOMAIN L = 1..k
  BY <1>10 DEF Enumerates
<1>12. L = [n \in 1..k |-> L[n]]
  <2>. PICK j : j = Cardinality({m \in 0..N : Walk(nx, h, N)[m] # h})
    OBVIOUS
  <2>1. L = [n \in 1..j |-> Walk(nx, h, N)[n - 1]]
    BY <1>9 DEF Listed
  <2>2. L = [n \in DOMAIN L |-> L[n]]
    BY <2>1
  <2>. QED
    BY <2>2, <1>11
<1>13. Len(L) = k /\ ToSet(L) = M /\ Cardinality(M) = k
  BY <1>7, <1>10, <1>12, EnumeratesCount
<1>14. /\ \A n \in 1..k : pv[L[n]] = IF n = 1 THEN h ELSE L[n - 1]
       /\ k # 0 => pv[h] = L[k]
  BY <1>6, <1>7, <1>10, <1>11, Precedes
<1>15. (\A n \in 1..k : L[n] \in M) /\ \A m, n \in 1..k : m < n => rank[L[m]] < rank[L[n]]
  BY <1>7, <1>10, <1>11 DEF Enumerates
<1>16. k # 0
  <2>1. PICK y : y \in M
    BY <1>4
  <2>2. \E n \in 1..k : L[n] = y
    BY <2>1, <1>7, <1>10, <1>11 DEF Enumerates
  <2>. QED
    BY <2>2
<1>17. ASSUME NEW n \in 1..k
       PROVE  /\ nat.session_data[L[n]].user_index = u
              /\ nat.session_data[L[n]].prev = IF n = 1 THEN h ELSE L[n - 1]
  <2>. PICK y : y = L[n]
    OBVIOUS
  <2>1. y \in M /\ y \in SessionIds /\ y \in ListCells /\ y # h
    BY <1>7, <1>15
  <2>2. pv[y] = nat.session_data[y].prev
    BY <2>1, <1>7 DEF Before
  <2>3. nat.session_data[y].user_index = u
    BY <2>1 DEF Mine
  <2>4. pv[y] = IF n = 1 THEN h ELSE L[n - 1]
    BY <1>14
  <2>. QED
    BY <2>2, <2>3, <2>4
<1>18. nat.user_data[u].prev = L[Len(L)]
  <2>1. pv[h] = nat.user_data[u].prev
    BY <1>7 DEF Before
  <2>. QED
    BY <2>1, <1>13, <1>14, <1>16
<1>19. ListSound(cell)
  BY <1>1, <1>4, <1>11, <1>13, <1>17, <1>18 DEF ListSound
<1>20. ASSUME NEW m \in 1..k, NEW n \in 1..k, m < n
       PROVE  nat.session_data[L[m]].last_used + MaxLag >= nat.session_data[L[n]].last_used
  <2>. PICK y, z : y = L[m] /\ z = L[n]
    OBVIOUS
  <2>1. y \in S /\ z \in S /\ nat.session_data[y].user_index = nat.session_data[z].user_index /\ rank[y] < rank[z]
    BY <1>15, <1>20 DEF Mine
  <2>2. nat.session_data[y].last_used + MaxLag >= nat.session_data[z].last_used
    BY <2>1, <1>5 DEF Recent
  <2>. QED
    BY <2>2
<1>21. InOrder(u)
  BY <1>11, <1>20 DEF InOrder
<1>. QED
  BY <1>19, <1>21

(* The invariant of the lists says both. *)
LEMMA UserInvSound ==
  ASSUME NEW T, nf = "ei-nat" => UserInv(nat, Live(nat), NoIndex, T)
  PROVE  UserListsSound /\ MostRecentFirst
<1>. SUFFICES ASSUME UserInv(nat, Live(nat), NoIndex, T)
              PROVE  UserListsSound /\ MostRecentFirst
  BY DEF UserListsSound, MostRecentFirst
<1>1. UserTable(nat)
  BY DEF UserInv
<1>2. Users!ChainSound(nat.user_indexes) /\ MapSound(nat.user_map)
  BY <1>1, UserChainSound DEF UserTable
<1>3. Cardinality(KnownUsers) = Cardinality({u \in 0..MAX_NUM_USERS - 1 : Users!IsAllocated(nat.user_indexes, u)})
  BY <1>1, KnownCount DEF IsUser, UserIds
<1>4. ASSUME NEW cell \in KnownUsers PROVE ListSound(cell) /\ InOrder(cell.vals)
  <2>1. PICK x \in Busy(nat.user_map) : cell = nat.user_map[x]
    BY DEF KnownUsers
  <2>. QED
    BY <2>1, ListIs
<1>5. UserListsSound
  BY <1>2, <1>3, <1>4 DEF UserListsSound, ListSound
<1>6. MostRecentFirst
  BY <1>4 DEF MostRecentFirst, InOrder
<1>. QED
  BY <1>5, <1>6
-----------------------------------------------------------------------------
(* The inductive invariant of ei-nat. *)
ListsInv ==
  /\ NatInv /\ clock \in Nat /\ nf \in {"ei-nat", "fw-nat"}
  /\ nf = "ei-nat" => UserInv(nat, Live(nat), NoIndex, clock)

(* nf_init: there are no users and no sessions. *)
LEMMA UserInvInit == Init => UserInv(nat, Live(nat), NoIndex, 0)
<1>. SUFFICES ASSUME Init PROVE UserInv(nat, Live(nat), NoIndex, 0)
  OBVIOUS
<1>. PICK m, d, e : m = nfos_map_allocate(2 * MAX_NUM_USERS) /\ d = Users!nfos_dchain_allocate /\ e = Tuples!nfos_dchain_allocate
  OBVIOUS
<1>. PICK zero : zero = [next |-> 0, prev |-> 0, last_used |-> 0, int_ip |-> 0, int_port |-> 0, user_index |-> 0]
  OBVIOUS
<1>. PICK none : none = [next |-> 0, prev |-> 0, num_sessions |-> 0]
  OBVIOUS
<1>1. /\ nat.user_map = m /\ nat.user_indexes = d /\ nat.sess_indexes_tcp = e /\ nat.sess_indexes_udp = e
      /\ nat.session_data = [i \in SessionIds |-> zero] /\ nat.user_data = [u \in UserIds |-> none]
  BY DEF Init, SessionIds, UserIds
<1>2. MapOf(m, UserCells) /\ MapSound(m) /\ Busy(m) = {}
  <2>1. 2 * MAX_NUM_USERS \in Nat
    BY UserCount
  <2>2. UserCells \in Nat \ {0}
    BY <2>1, NextPow2 DEF UserCells
  <2>3. m = [x \in 0..UserCells - 1 |-> FreeCell]
    BY DEF nfos_map_allocate, UserCells
  <2>. QED
    BY <2>2, <2>3, EmptySound
<1>3. UserChain(d) /\ \A u \in UserIds : ~Users!IsAllocated(d, u)
  BY FirstUsers
<1>4. \A u \in UserIds : ~IsUser(nat, u)
  BY <1>1, <1>3 DEF IsUser
<1>5. Live(nat) = {}
  <2>. PICK N : N = num_avail_ext_tuples
    OBVIOUS
  <2>1. N \in Nat \ {0} /\ SessionIds = 0..2 * N - 1 /\ TupleIds = 0..N - 1
    BY TupleCount DEF SessionIds, TupleIds
  <2>2. \A i \in SessionIds : IF i < N THEN i \in TupleIds ELSE i - N \in TupleIds
    BY <2>1
  <2>3. \A i \in SessionIds : ~IsSession(nat, i)
    BY <2>2, <1>1, FirstTuples DEF IsSession
  <2>. QED
    BY <2>3 DEF Live
<1>6. Well(nat)
  <2>1. Shaped(nat)
    BY NatInvInit DEF NatInv, TableInv
  <2>2. UserRec(none)
    BY DEF UserRec
  <2>. QED
    BY <2>1, <2>2, <1>1 DEF Well, UserNodes
<1>7. LinksOK(nat)
  <2>. SUFFICES ASSUME NEW u \in UserIds, NEW z \in ListCells
                PROVE  After(nat, u, z) \in ListCells /\ Before(nat, u, z) \in ListCells
    BY DEF LinksOK
  <2>1. nat.user_data[u].next = 0 /\ nat.user_data[u].prev = 0
    BY <1>1
  <2>2. z \in SessionIds => nat.session_data[z].next = 0 /\ nat.session_data[z].prev = 0
    BY <1>1
  <2>3. 0 \in ListCells
    BY HeadApart DEF ListCells
  <2>. QED
    BY <2>1, <2>2, <2>3 DEF After, Before, ListCells
<1>8. UserTable(nat)
  BY <1>1, <1>2, <1>3, <1>4 DEF UserTable
<1>. PICK S : S = Live(nat)
  OBVIOUS
<1>9. Homes(nat, S) /\ Counts(nat, S) /\ NoneIdle(nat, S, NoIndex) /\ Times(nat, S, 0)
  BY <1>4, <1>5 DEF Homes, Counts, NoneIdle, Times
<1>10. Listing(nat, S)
  <2>. PICK rank : rank = [i \in SessionIds |-> 0]
    OBVIOUS
  <2>1. rank \in Labels(SessionIds)
    BY DEF Labels
  <2>2. AllLists(nat, S, rank) /\ Recent(nat, S, rank)
    BY <1>4, <1>5 DEF AllLists, Recent
  <2>. QED
    BY <2>1, <2>2 DEF Listing
<1>. QED
  BY <1>6, <1>7, <1>8, <1>9, <1>10 DEF UserInv

(* Time passes. *)
LEMMA UserInvLater ==
  ASSUME NEW s, NEW S, NEW e, NEW T \in Nat, UserInv(s, S, e, T), NEW T2 \in Nat, T <= T2
  PROVE  UserInv(s, S, e, T2)
<1>1. Times(s, S, T2)
  <2>1. \A i \in S : s.session_data[i].last_used \in Nat /\ s.session_data[i].last_used <= T
    BY DEF UserInv, Times
  <2>. QED
    BY <2>1 DEF Times
<1>. QED
  BY <1>1 DEF UserInv

(* A run of the handler, committed or not. *)
LEMMA ListsInvRun ==
  ASSUME ListsInv, NEW c \in Cores, NEW orig, NEW p, Packet(p), NEW now \in CurrTimes,
         Commits(c, orig, p, now) \/ CommitFails(c, orig, p, now)
  PROVE  clock' = clock /\ nf' = nf /\ (nf = "ei-nat" => UserInv(nat, Live(nat), NoIndex, clock)')
<1>1. clock' = clock /\ nf' = nf
  BY DEF Commits, CommitFails
<1>. SUFFICES ASSUME nf = "ei-nat" PROVE UserInv(nat, Live(nat), NoIndex, clock)'
  BY <1>1
<1>2. UserInv(nat, Live(nat), NoIndex, clock) /\ TableInv(nat) /\ clock \in Nat /\ nf # "fw-nat"
  BY DEF ListsInv, NatInv
<1>3. CASE Commits(c, orig, p, now)
  <2>. PICK h, T : h = pkt_handler(nat, c, p, now) /\ T = clock
    OBVIOUS
  <2>1. nat' = h.nat
    BY <1>3 DEF Commits
  <2>2. CanRun(nat, c, p)
    BY <1>3 DEF Commits, Runs, CanRun
  <2>3. Key(p) \in Keys /\ <<p.addr>> \in Keys
    <3>1. <<p.addr, p.port>>[1] = p.addr
      OBVIOUS
    <3>. QED
      BY <3>1, PacketKey DEF Packet, Hashed, Keys
  <2>4. now \in Nat /\ now <= T /\ now + MaxLag >= T
    BY <1>2, NatsAssumption DEF CurrTimes
  <2>5. UserInv(h.nat, Live(h.nat), NoIndex, T)
    BY <1>2, <2>2, <2>3, <2>4, HandlerUsers
  <2>. QED
    BY <2>1, <2>5, <1>1 DEF ListsInv
<1>4. CASE CommitFails(c, orig, p, now)
  <2>1. nat' = nat
    BY <1>4 DEF CommitFails
  <2>. QED
    BY <2>1, <1>1, <1>2
<1>. QED
  BY <1>3, <1>4

(* Every step. *)
LEMMA ListsInvStep ==
  ASSUME ListsInv, [Next]_vars
  PROVE  ListsInv'
<1>1. NatInv'
  BY NatInvStep DEF ListsInv
<1>. SUFFICES clock' \in Nat /\ nf' = nf /\ (nf = "ei-nat" => UserInv(nat, Live(nat), NoIndex, clock)')
  BY <1>1 DEF ListsInv
<1>2. ASSUME NEW now \in CurrTimes, NEW p \in Packets, Arrives(Rss[p], p, now)
      PROVE  clock' \in Nat /\ nf' = nf /\ (nf = "ei-nat" => UserInv(nat, Live(nat), NoIndex, clock)')
  <2>1. Packet(p) /\ Rss[p] \in Cores
    BY NatsAssumption DEF Packet, Cores, Tuples!Cores
  <2>2. Commits(Rss[p], p, p, now) \/ CommitFails(Rss[p], p, p, now)
    BY <1>2 DEF Arrives
  <2>. QED
    BY <2>1, <2>2, ListsInvRun DEF ListsInv
<1>3. ASSUME NEW now \in CurrTimes, NEW c \in Cores, Restarts(c, now)
      PROVE  clock' \in Nat /\ nf' = nf /\ (nf = "ei-nat" => UserInv(nat, Live(nat), NoIndex, clock)')
  <2>1. Packet(retry[c].pkt)
    BY <1>3 DEF Restarts, ListsInv, NatInv, Retries
  <2>2. Commits(c, retry[c].orig, retry[c].pkt, now) \/ CommitFails(c, retry[c].orig, retry[c].pkt, now)
    BY <1>3 DEF Restarts
  <2>. QED
    BY <2>1, <2>2, ListsInvRun DEF ListsInv
<1>4. CASE Advance
  <2>1. nat' = nat /\ nf' = nf /\ clock' = clock + 1
    BY <1>4 DEF Advance
  <2>2. clock' \in Nat /\ clock \in Nat /\ clock <= clock'
    BY <2>1 DEF ListsInv
  <2>3. nf = "ei-nat" => UserInv(nat, Live(nat), NoIndex, clock')
    BY <2>2, UserInvLater DEF ListsInv
  <2>. QED
    BY <2>1, <2>2, <2>3
<1>5. CASE UNCHANGED vars
  <2>1. nat' = nat /\ nf' = nf /\ clock' = clock
    BY <1>5 DEF vars
  <2>. QED
    BY <2>1 DEF ListsInv
<1>. QED
  BY <1>2, <1>3, <1>4, <1>5 DEF Next

(* The invariant always holds. *)
LEMMA ListsAlways == Spec => []ListsInv
<1>1. Init => ListsInv
  BY NatInvInit, UserInvInit DEF Init, ListsInv
<1>. QED
  BY <1>1, ListsInvStep, PTL DEF Spec

(* The list of every user of ei-nat holds exactly the sessions of its      *)
(* address, once each, is linked in both directions and counted right, for *)
(* any number of cores, users and sessions, in whatever order sessions are *)
(* opened and refreshed.                                                   *)
THEOREM UserLists == Spec => []UserListsSound
<1>1. ListsInv => UserListsSound
  BY UserInvSound DEF ListsInv
<1>. QED
  BY <1>1, ListsAlways, PTL

(* The list is in the order of last use, up to the difference between the  *)
(* clocks of the cores, although cores with different times refresh its    *)
(* sessions and refreshes within EI_NAT_SECOND are left out.               *)
THEOREM RecentFirst == Spec => []MostRecentFirst
<1>1. ListsInv => MostRecentFirst
  BY UserInvSound DEF ListsInv
<1>. QED
  BY <1>1, ListsAlways, PTL
=============================================================================
