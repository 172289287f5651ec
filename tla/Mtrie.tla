-------------------------------- MODULE Mtrie -------------------------------
(***************************************************************************)
(* The forwarding tables of the network functions (src/nf/common/mtrie.c): *)
(* every device has a trie with a wide root ply and two levels of narrower *)
(* plies, which all tries take from one pool and never give back.  Routes  *)
(* are added while nf_init runs, before any core starts.                   *)
(*                                                                         *)
(* A slot of a ply has a leaf, odd for the index of a load-balance object  *)
(* and even for the index of a ply, and the prefix length of the route it  *)
(* came from.  The widths 16, 8 and 8 are parameters.                      *)
(***************************************************************************)
EXTENDS Integers, Sequences, FiniteSetsExt

CONSTANTS
  Devices,
  RootBits, PlyBits,        \* 16 and 8
  IP4_PLY_POOL_CAPACITY,
  Prefixes,                 \* the routes that are tried: <<device, address, length>>
  MaxRoutes                 \* bound on their number

AddressBits == RootBits + 2 * PlyBits
TwoTo[k \in 0..AddressBits] == IF k = 0 THEN 1 ELSE 2 * TwoTo[k - 1]
Addresses == 0..TwoTo[AddressBits] - 1

(* The mask of a route of length 0 is a shift by the width of the address, *)
(* which C leaves undefined; the address is 0 in the code, and that makes  *)
(* every outcome the same.                                                 *)
ASSUME MtrieAssumption ==
  /\ RootBits \in Nat \ {0} /\ PlyBits \in Nat \ {0}
  /\ Devices \subseteq Nat
  /\ Prefixes \subseteq Devices \X Addresses \X (0..AddressBits)
  /\ \A r \in Prefixes : r[3] = 0 => r[2] = 0
  /\ MaxRoutes \in Nat /\ IP4_PLY_POOL_CAPACITY \in Nat /\ 2 * MaxRoutes <= IP4_PLY_POOL_CAPACITY

VARIABLES
  trie,    \* [plies, next]: the root plies and the pool, and ip4_ply_pool_index
  routes   \* history: the routes added, [dev, addr, len, adj]

Root(dev) == -1 - dev
PlySlots == 0..TwoTo[PlyBits] - 1
is_terminal(leaf) == leaf % 2 = 1
set_adj_index(adj) == 1 + 2 * adj

(* ip4_mtrie_init of every table: adjacency 0, the one that drops. *)
EmptyTries ==
  [plies |-> [p \in {Root(dev) : dev \in Devices} \cup 0..IP4_PLY_POOL_CAPACITY - 1 |->
                IF p < 0 THEN [i \in 0..TwoTo[RootBits] - 1 |-> [leaf |-> set_adj_index(0), bits |-> 0]]
                ELSE [i \in PlySlots |-> [leaf |-> 0, bits |-> 0]]],
   next |-> 0]
-----------------------------------------------------------------------------
(* A level is a depth, 0 at the root: the bits of an address that select   *)
(* the slot of a ply, and the length of the prefix that they complete.     *)
Width(level) == IF level = 0 THEN RootBits ELSE PlyBits
BaseLen(level) == RootBits + level * PlyBits
DstByte(addr, level) == (addr \div TwoTo[AddressBits - BaseLen(level)]) % TwoTo[Width(level)]

(* A new ply whose slots are copies of the one it takes the place of.      *)
(* Fault: the length of the route in the slot is lost.                     *)
FaultPlyCreateNoLength(t, slot) ==
  [plies |-> [t.plies EXCEPT ![t.next] = [i \in PlySlots |-> [slot EXCEPT !.bits = 0]]], next |-> t.next + 1]

(* Fault: the pool index stays. *)
FaultPlyCreateSameIndex(t, slot) ==
  [plies |-> [t.plies EXCEPT ![t.next] = [i \in PlySlots |-> slot]], next |-> t.next]

ply_create(t, slot) ==
  [plies |-> [t.plies EXCEPT ![t.next] = [i \in PlySlots |-> slot]], next |-> t.next + 1]

(* The loops over n slots from the first one on. *)
ForSlots(first, n, t, Body(_, _)) ==
  LET after[k \in 0..n] == IF k = 0 THEN t ELSE Body(after[k - 1], first + k - 1)
  IN  after[n]

(* A terminal leaf takes the place of one that is not more specific. *)
Replace(t, p, i, new) ==
  IF new.bits >= t.plies[p][i].bits THEN [t EXCEPT !.plies[p][i] = new] ELSE t

(* Replaces the less specific terminal leaves of ply p and below it.  The  *)
(* code recurses; a ply below the root has at most one level below it.     *)
SetLowestPly(t, p, new) ==
  ForSlots(0, TwoTo[PlyBits], t, LAMBDA u, i :
    IF is_terminal(u.plies[p][i].leaf) THEN Replace(u, p, i, new) ELSE u)

set_ply_with_more_specific_leaf(t, p, new) ==
  ForSlots(0, TwoTo[PlyBits], t, LAMBDA u, i :
    LET old == u.plies[p][i] IN
    IF is_terminal(old.leaf) THEN Replace(u, p, i, new) ELSE SetLowestPly(u, old.leaf \div 2, new))

(* set_leaf puts a route into the slots of ply p that it covers, or, when  *)
(* it is longer, into a ply below the one slot it goes through, by Deeper: *)
(* the code recurses through the three levels.                             *)
SetLeafAt(t, a, p, level, Deeper(_, _)) ==
  LET base == BaseLen(level)
      byte == DstByte(a.addr, level)
      new == [leaf |-> set_adj_index(a.adj), bits |-> a.len]
  IN  IF a.len <= base
        THEN ForSlots(byte, TwoTo[Min({Width(level), base - a.len})], t, LAMBDA u, i :
               LET old == u.plies[p][i] IN
               IF is_terminal(old.leaf) THEN Replace(u, p, i, new)
               ELSE IF a.len >= old.bits
                 THEN set_ply_with_more_specific_leaf(u, old.leaf \div 2, new)
                 ELSE Deeper(u, old.leaf \div 2))
      ELSE LET old == t.plies[p][byte] IN
           IF is_terminal(old.leaf)
             THEN Deeper([ply_create(t, old) EXCEPT !.plies[p][byte] = [leaf |-> 2 * t.next, bits |-> base]],
                         t.next)
             ELSE Deeper(t, old.leaf \div 2)

SetLowestLeaf(t, a, p) == SetLeafAt(t, a, p, 2, LAMBDA u, q : u)

set_leaf(t, a, p) == SetLeafAt(t, a, p, 1, LAMBDA u, q : SetLowestLeaf(u, a, q))

(* set_root_leaf is the same code for the wider ply. *)
set_root_leaf(t, dev, a) == SetLeafAt(t, a, Root(dev), 0, LAMBDA u, p : set_leaf(u, a, p))

(* ip4_fib_mtrie_route_add, which masks the address. *)
route_add(dev, addr, len, adj) ==
  LET host == TwoTo[AddressBits - len]
      a == [addr |-> (addr \div host) * host, len |-> len, adj |-> adj]
  IN  /\ trie' = set_root_leaf(trie, dev, a)
      /\ routes' = Append(routes, [dev |-> dev, addr |-> a.addr, len |-> len, adj |-> adj])
-----------------------------------------------------------------------------
lookup_step_one(dev, addr) == trie.plies[Root(dev)][DstByte(addr, 0)].leaf

lookup_step(leaf, addr, level) ==
  IF is_terminal(leaf) THEN leaf ELSE trie.plies[leaf \div 2][DstByte(addr, level)].leaf

(* The three steps of the handlers. *)
Lookup(dev, addr) ==
  lookup_step(lookup_step(lookup_step_one(dev, addr), addr, 1), addr, 2) \div 2
-----------------------------------------------------------------------------
Covers(r, addr) == r.addr = (addr \div TwoTo[AddressBits - r.len]) * TwoTo[AddressBits - r.len]

Beats(r, n, s, m) == r.len > s.len \/ (r.len = s.len /\ n > m)

(* Every table finds the longest route for an address, the latest of equal *)
(* ones and adjacency 0 if there is none, in whatever order the routes of  *)
(* both tables were added to the plies that they share a pool of.          *)
FibIsLongestPrefix ==
  \A dev \in Devices, addr \in Addresses :
    LET covering == {n \in DOMAIN routes : routes[n].dev = dev /\ Covers(routes[n], addr)}
    IN  IF covering = {} THEN Lookup(dev, addr) = 0
        ELSE \E n \in covering :
               /\ \A m \in covering \ {n} : Beats(routes[n], n, routes[m], m)
               /\ Lookup(dev, addr) = routes[n].adj

(* A ply in use hangs below exactly one slot, so that a route changes the  *)
(* addresses it covers and no others, and a ply that is not is below none. *)
Below(p) == {i \in DOMAIN trie.plies[p] : ~is_terminal(trie.plies[p][i].leaf)}
InUse == {p \in DOMAIN trie.plies : p < trie.next}
PliesHangOnce ==
  \A q \in 0..IP4_PLY_POOL_CAPACITY - 1 :
    Cardinality(UNION {{<<p, i>> : i \in {j \in Below(p) : trie.plies[p][j].leaf = 2 * q}} : p \in InUse})
      = IF q < trie.next THEN 1 ELSE 0
=============================================================================
