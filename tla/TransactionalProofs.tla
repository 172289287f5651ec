------------------------ MODULE TransactionalProofs -------------------------
(***************************************************************************)
(* The transactional index allocator and the transactional map, for every  *)
(* number of cores, indexes and keys: what their operations do to a chain  *)
(* and to a map.                                                           *)
(*                                                                         *)
(* A chain is described by a labelling, in the sense of ListFacts: on[x]   *)
(* is the head of the list where cell x is and rank orders the cells of    *)
(* each list as the links do (ChainInv).  An operation is one step, so     *)
(* every cell is always on a list, and the labels of one cell change at a  *)
(* time: when a refill moves the first cell of a free list to the global   *)
(* list, and when the cell of the new index goes to the allocated list of  *)
(* the core.  That a labelled chain is sound in the sense of ChainSound,   *)
(* which walks along the links, is SoundIfLabelled.  An allocation fails   *)
(* only when every index is allocated (AllTaken).                          *)
(*                                                                         *)
(* A map is sound if every key in use is within reach of its hash along    *)
(* cells whose chain counts are positive (SoundMeans); nfos_map_put of a   *)
(* new key keeps that (PutNew), and nfos_map_get then finds exactly the    *)
(* keys in use (GetFinds, GetMisses).                                      *)
(***************************************************************************)
EXTENDS NfosDoubleChain, NfosMap, ListFacts

Heads == 0..GLOBAL_FREE_LIST_HEAD
IndexCells == INDEX_SHIFT..INDEX_SHIFT + Size - 1

Chains == [next : Links(Cells), prev : Links(Cells), list_ind : [Cells -> Cores \cup {-1}]]

(* The labels say which cells are allocated, and to what core. *)
Marked(d, on, x) == on[x] \in Heads /\ d.list_ind[x] = IF on[x] \in Cores THEN on[x] ELSE -1

Placed(d, on, rank) ==
  /\ on \in Labels(IndexCells) /\ rank \in Labels(IndexCells)
  /\ \A x \in IndexCells : Marked(d, on, x)
  /\ \A h \in Heads : List(IndexCells, h, d.next, on, rank)
  /\ \A c \in Cores : Doubly(IndexCells, c, d.next, d.prev, on)

ChainInv(d) == d \in Chains /\ \E on, rank : Placed(d, on, rank)

(* Arithmetic of cell numbers. *)
LEMMA CellFacts ==
  /\ Heads \cap IndexCells = {} /\ Heads \subseteq Cells /\ IndexCells \subseteq Cells
  /\ Cores \subseteq Heads /\ GLOBAL_FREE_LIST_HEAD \in Heads /\ GLOBAL_FREE_LIST_HEAD \notin Cores
  /\ \A c \in Cores : FREE_LIST_HEAD(c) \in Heads /\ FREE_LIST_HEAD(c) \notin Cores
                      /\ FREE_LIST_HEAD(c) # GLOBAL_FREE_LIST_HEAD
  /\ \A i \in Indexes : i + INDEX_SHIFT \in IndexCells
  /\ \A x \in IndexCells : x - INDEX_SHIFT \in Indexes /\ (x - INDEX_SHIFT) + INDEX_SHIFT = x
  /\ Heads \subseteq Int /\ -1 \notin Cores
  BY DoubleChainAssumption DEF Heads, IndexCells, Cells, INDEX_SHIFT, GLOBAL_FREE_LIST_HEAD, FREE_LIST_HEAD, Cores, Indexes

(* Every head can be the head of a list of index cells. *)
LEMMA HeadOfList ==
  ASSUME NEW h \in Heads
  PROVE  h \in Cells \ IndexCells /\ IndexCells \in SUBSET Cells
  BY CellFacts

(* A step from chain d to d2 that works on the lists of T only. *)
Works(d, on, rank, d2, on2, rank2, T) ==
  /\ on2 \in Labels(IndexCells) /\ rank2 \in Labels(IndexCells)
  /\ \A h \in Heads \ T : d2.next[h] = d.next[h] /\ d2.prev[h] = d.prev[h]
  /\ \A x \in IndexCells : on[x] \in T => on2[x] \in T
  /\ \A x \in IndexCells : on[x] \notin T =>
       /\ on2[x] = on[x] /\ rank2[x] = rank[x]
       /\ d2.next[x] = d.next[x] /\ d2.prev[x] = d.prev[x] /\ d2.list_ind[x] = d.list_ind[x]

(* The other lists stay as they are, and it is enough to look at those. *)
LEMMA WorksPlaced ==
  ASSUME NEW d \in Chains, NEW on, NEW rank, Placed(d, on, rank), NEW d2 \in Chains, NEW on2, NEW rank2, NEW T,
         Works(d, on, rank, d2, on2, rank2, T),
         \A x \in IndexCells : on[x] \in T => Marked(d2, on2, x),
         \A h \in Heads : h \in T => List(IndexCells, h, d2.next, on2, rank2),
         \A c \in Cores : c \in T => Doubly(IndexCells, c, d2.next, d2.prev, on2)
  PROVE  Placed(d2, on2, rank2)
<1>1. /\ on \in Labels(IndexCells) /\ rank \in Labels(IndexCells)
      /\ on2 \in Labels(IndexCells) /\ rank2 \in Labels(IndexCells)
      /\ d.next \in Links(Cells) /\ d.prev \in Links(Cells) /\ d2.next \in Links(Cells) /\ d2.prev \in Links(Cells)
  BY DEF Placed, Works, Chains
<1>2. ASSUME NEW h \in Heads, h \notin T
      PROVE  /\ Members(IndexCells, h, on2) = Members(IndexCells, h, on)
             /\ \A x \in Members(IndexCells, h, on) \cup {h} : d2.next[x] = d.next[x] /\ d2.prev[x] = d.prev[x]
             /\ \A x \in Members(IndexCells, h, on) : rank2[x] = rank[x]
  BY <1>2 DEF Works, Members
<1>3. ASSUME NEW h \in Heads, h \notin T PROVE List(IndexCells, h, d2.next, on2, rank2)
  <2>1. List(IndexCells, h, d.next, on, rank)
    BY DEF Placed
  <2>. QED
    BY <1>1, <1>2, <1>3, <2>1, HeadOfList, ListFrame
<1>4. ASSUME NEW h \in Cores, h \notin T PROVE Doubly(IndexCells, h, d2.next, d2.prev, on2)
  <2>1. h \in Heads
    BY CellFacts
  <2>2. List(IndexCells, h, d.next, on, rank) /\ Doubly(IndexCells, h, d.next, d.prev, on)
    BY <2>1 DEF Placed
  <2>3. /\ Members(IndexCells, h, on2) = Members(IndexCells, h, on)
        /\ \A x \in Members(IndexCells, h, on) \cup {h} : d2.next[x] = d.next[x] /\ d2.prev[x] = d.prev[x]
    BY <1>2, <1>4, <2>1
  <2>. QED
    BY <2>2, <2>3 DEF List, Leads, Doubly
<1>5. ASSUME NEW x \in IndexCells PROVE Marked(d2, on2, x)
  <2>1. CASE on[x] \in T
    BY <2>1
  <2>2. CASE on[x] \notin T
    BY <2>2 DEF Placed, Marked, Works
  <2>. QED
    BY <2>1, <2>2
<1>. QED
  BY <1>1, <1>3, <1>4, <1>5 DEF Placed
-----------------------------------------------------------------------------
ChainOf(a, b, l) == [next |-> a, prev |-> b, list_ind |-> l]

(* The fields of a chain after each of the operations on its links. *)
LEMMA PointToIs ==
  ASSUME NEW a, NEW b, NEW l, NEW x, NEW y, NEW d, d = ChainOf(a, b, l)
  PROVE  PointTo(d, x, y) = ChainOf([a EXCEPT ![x] = y], [b EXCEPT ![x] = y], l)
<1>0. d.next = a 
  BY DEF ChainOf
<1>. PICK d1 : d1 = [d EXCEPT !.next[x] = y]
  OBVIOUS
<1>. PICK e, f : e = [a EXCEPT ![x] = y] /\ f = [b EXCEPT ![x] = y]
  OBVIOUS
<1>1. d1 = ChainOf(e, b, l)
  BY <1>0 DEF ChainOf
<1>2. d1.prev = b
  BY <1>1 DEF ChainOf
<1>3. PointTo(d, x, y) = [d1 EXCEPT !.prev = f]
  BY <1>2 DEF PointTo
<1>. QED
  BY <1>1, <1>3 DEF ChainOf

(* The same for a cell that is pushed in front of a list ... *)
LEMMA PushIs ==
  ASSUME NEW a, NEW b, NEW l, NEW h, NEW x, NEW d, d = ChainOf(a, b, l)
  PROVE  Push(d, h, x) = ChainOf([a EXCEPT ![x] = a[h], ![h] = x], [b EXCEPT ![x] = a[h], ![h] = x], l)
<1>0. d.next = a 
  BY DEF ChainOf
<1>. PICK e, f : e = [a EXCEPT ![x] = a[h], ![h] = x] /\ f = [b EXCEPT ![x] = a[h], ![h] = x]
  OBVIOUS
<1>. PICK d1 : d1 = [d EXCEPT !.next = e]
  OBVIOUS
<1>1. d1 = ChainOf(e, b, l)
  BY DEF ChainOf
<1>2. d1.prev = b
  BY <1>1 DEF ChainOf
<1>3. Push(d, h, x) = [d1 EXCEPT !.prev = f]
  BY <1>0, <1>2 DEF Push
<1>. QED
  BY <1>1, <1>3 DEF ChainOf

(* ... and for one that is appended. *)
LEMMA AppendToIs ==
  ASSUME NEW a, NEW b, NEW l, NEW c, NEW x, NEW d, d = ChainOf(a, b, l)
  PROVE  AppendTo(d, c, x) = ChainOf([a EXCEPT ![x] = c, ![b[c]] = x], [b EXCEPT ![x] = b[c], ![c] = x], [l EXCEPT ![x] = c])
<1>0. d.next = a /\ d.prev = b
  BY DEF ChainOf
<1>. PICK e, f, g : e = [a EXCEPT ![x] = c, ![b[c]] = x] /\ f = [b EXCEPT ![x] = b[c], ![c] = x] /\ g = [l EXCEPT ![x] = c]
  OBVIOUS
<1>. PICK d1 : d1 = [d EXCEPT !.next = e]
  OBVIOUS
<1>. PICK d2 : d2 = [d1 EXCEPT !.prev = f]
  OBVIOUS
<1>1. d1 = ChainOf(e, b, l)
  BY DEF ChainOf
<1>2. d1.prev = b
  BY <1>1 DEF ChainOf
<1>3. d2 = ChainOf(e, f, l)
  BY <1>1 DEF ChainOf
<1>4. d2.list_ind = l
  BY <1>3 DEF ChainOf
<1>5. AppendTo(d, c, x) = [d2 EXCEPT !.list_ind = g]
  BY <1>0, <1>2, <1>4 DEF AppendTo, ALLOC_LIST_HEAD
<1>. QED
  BY <1>3, <1>5 DEF ChainOf
-----------------------------------------------------------------------------
(* Cell x, the first of list h, is now the first of the global list. *)
Migrated(d, d2, h, x) ==
  /\ d2 \in Chains
  /\ d2.next[h] = d.next[x] /\ d2.next[x] = d.next[GLOBAL_FREE_LIST_HEAD] /\ d2.next[GLOBAL_FREE_LIST_HEAD] = x
  /\ \A y \in Cells \ {h, x, GLOBAL_FREE_LIST_HEAD} : d2.next[y] = d.next[y] /\ d2.prev[y] = d.prev[y]
  /\ \A y \in Cells : d2.list_ind[y] = IF y = x THEN -1 ELSE d.list_ind[y]

(* What a step of the migrating loop does with a list that is not empty. *)
LEMMA MigrateMoves ==
  ASSUME NEW d \in Chains, NEW c \in Cores, ~IsEmpty(d, FREE_LIST_HEAD(c)),
         d.next[FREE_LIST_HEAD(c)] \in IndexCells
  PROVE  Migrated(d, Migrate(d, c), FREE_LIST_HEAD(c), d.next[FREE_LIST_HEAD(c)])
<1>. DEFINE h == FREE_LIST_HEAD(c)
            g == GLOBAL_FREE_LIST_HEAD
            x == d.next[h]
            p == Pop(d, h)
            F(q) == [Push(q, g, x) EXCEPT !.list_ind[x] = -1]
            T == {F(q) : q \in {p}}
<1>1. h \in Cells /\ g \in Cells /\ x \in Cells /\ x # h /\ x # g /\ g # h
  BY CellFacts
<1>2. /\ d = [next |-> d.next, prev |-> d.prev, list_ind |-> d.list_ind]
      /\ d.next \in [Cells -> Cells] /\ d.prev \in [Cells -> Cells] /\ d.list_ind \in [Cells -> Cores \cup {-1}]
  BY DEF Chains, Links
<1>3. Migrate(d, c) = CHOOSE y \in T : TRUE
  BY DEF Migrate, With
<1>4. T = {F(p)}
  <2>. HIDE DEF F, p
  <2>. QED
    OBVIOUS
<1>5. Migrate(d, c) = F(p)
  <2>. HIDE DEF F, p
  <2>. PICK e : e = F(p)
    OBVIOUS
  <2>. HIDE DEF T
  <2>. QED
    BY <1>3, <1>4, OnlyChoice
<1>6. /\ p = ChainOf(p.next, p.prev, d.list_ind)
      /\ p.next = [d.next EXCEPT ![h] = d.next[x]] /\ p.prev = [d.prev EXCEPT ![h] = d.next[x]]
  <2>1. p = ChainOf([d.next EXCEPT ![h] = d.next[x]], [d.prev EXCEPT ![h] = d.next[x]], d.list_ind)
    <3>1. d = ChainOf(d.next, d.prev, d.list_ind)
      BY <1>2 DEF ChainOf
    <3>. QED
      BY <3>1, PointToIs DEF Pop
  <2>. HIDE DEF p
  <2>. QED
    BY <2>1 DEF ChainOf
<1>7. p.next \in [Cells -> Cells] /\ p.prev \in [Cells -> Cells] /\ p.next[g] = d.next[g]
  BY <1>1, <1>2, <1>6
<1>. HIDE DEF p
<1>8. F(p) = [next |-> [p.next EXCEPT ![x] = p.next[g], ![g] = x], prev |-> [p.prev EXCEPT ![x] = p.next[g], ![g] = x],
              list_ind |-> [d.list_ind EXCEPT ![x] = -1]]
  <2>1. PICK a, b, l : a = [p.next EXCEPT ![x] = p.next[g], ![g] = x] /\ b = [p.prev EXCEPT ![x] = p.next[g], ![g] = x] /\ l = d.list_ind
    OBVIOUS
  <2>2. Push(p, g, x) = ChainOf(a, b, l)
    <3>. HIDE DEF x, g
    <3>1. \A n, q : p = ChainOf(n, q, d.list_ind) =>
            Push(p, g, x) = ChainOf([n EXCEPT ![x] = n[g], ![g] = x], [q EXCEPT ![x] = n[g], ![g] = x], d.list_ind)
      BY PushIs
    <3>2. p = ChainOf(p.next, p.prev, d.list_ind)
      BY <1>6
    <3>. QED
      BY <2>1, <3>1, <3>2, Zenon
  <2>3. F(p) = [ChainOf(a, b, l) EXCEPT !.list_ind[x] = -1]
    BY <2>2
  <2>4. F(p) = [next |-> a, prev |-> b, list_ind |-> [l EXCEPT ![x] = -1]]
    <3>. HIDE DEF F, x
    <3>. QED
      BY <2>3 DEF ChainOf
  <2>. HIDE DEF F
  <2>. QED
    BY <2>1, <2>4
<1>9. F(p) \in Chains
  BY <1>1, <1>2, <1>7, <1>8 DEF Chains, Links
<1>10. F(p).next[h] = d.next[x] /\ F(p).next[x] = d.next[g] /\ F(p).next[g] = x
  BY <1>1, <1>2, <1>6, <1>7, <1>8
<1>11. \A y \in Cells \ {h, x, g} : F(p).next[y] = d.next[y] /\ F(p).prev[y] = d.prev[y]
  BY <1>1, <1>2, <1>6, <1>7, <1>8
<1>12. \A y \in Cells : F(p).list_ind[y] = IF y = x THEN -1 ELSE d.list_ind[y]
  BY <1>1, <1>2, <1>8
<1>. HIDE DEF F, g, h, x
<1>. QED
  BY <1>5, <1>9, <1>10, <1>11, <1>12 DEF Migrated, g, h, x

(* The same indexes are allocated, and their lists stay as they are. *)
SameAllocated(d, d2) ==
  /\ \A x \in IndexCells : d2.list_ind[x] = d.list_ind[x] /\ (d.list_ind[x] # -1 => d2.next[x] = d.next[x] /\ d2.prev[x] = d.prev[x])
  /\ \A c \in Cores : d2.next[c] = d.next[c] /\ d2.prev[c] = d.prev[c]

(* Moving the first cell of a free list to the global list keeps the chain *)
(* sound and allocates nothing.                                            *)
LEMMA MigrateInv ==
  ASSUME NEW d, ChainInv(d), NEW c \in Cores
  PROVE  ChainInv(Migrate(d, c)) /\ SameAllocated(d, Migrate(d, c))
<1>. DEFINE h == FREE_LIST_HEAD(c)
            g == GLOBAL_FREE_LIST_HEAD
            x == d.next[h]
            T == {h, g}
<1>0. CASE IsEmpty(d, h)
  BY <1>0 DEF Migrate, SameAllocated
<1>a. CASE ~IsEmpty(d, h)
  <2>. PICK on, rank : Placed(d, on, rank)
    BY DEF ChainInv
  <2>1. /\ d \in Chains /\ on \in Labels(IndexCells) /\ rank \in Labels(IndexCells) /\ d.next \in Links(Cells)
        /\ h \in Heads /\ g \in Heads /\ h # g /\ h \in Cells /\ g \in Cells /\ T \cap Cores = {}
    BY CellFacts DEF ChainInv, Placed, Chains
  <2>2. List(IndexCells, h, d.next, on, rank) /\ List(IndexCells, g, d.next, on, rank)
    BY <2>1 DEF Placed
  <2>3. x # h /\ x \in IndexCells /\ on[x] = h /\ x # g /\ x \in Cells
    BY <1>a, <2>1, <2>2, CellFacts DEF IsEmpty, List, Leads, Members
  <2>4. PICK d2 : d2 = Migrate(d, c) /\ Migrated(d, d2, h, x)
    BY <1>a, <2>1, <2>3, MigrateMoves
  <2>5. FrontRank(g, d.next, rank) \in Int /\ \A y \in Members(IndexCells, g, on) : FrontRank(g, d.next, rank) < rank[y]
    BY <2>1, <2>2, HeadOfList, FrontRankLess
  <2>6. PICK on2 : Relabels(IndexCells, on, on2, x, g)
    BY <2>1, <2>3, CellFacts, RelabelExists
  <2>7. PICK rank2 : Relabels(IndexCells, rank, rank2, x, FrontRank(g, d.next, rank))
    BY <2>1, <2>3, <2>5, RelabelExists
  <2>8. /\ on2 \in Labels(IndexCells) /\ rank2 \in Labels(IndexCells)
        /\ \A y \in IndexCells : on2[y] = (IF y = x THEN g ELSE on[y]) /\ (y # x => rank2[y] = rank[y])
        /\ rank2[x] = FrontRank(g, d.next, rank)
    BY <2>3, <2>6, <2>7 DEF Relabels
  <2>9. Members(IndexCells, g, on2) = Members(IndexCells, g, on) \cup {x} /\ Members(IndexCells, h, on2) = Members(IndexCells, h, on) \ {x}
    BY <2>1, <2>3, <2>6, MembersMove
  <2>. HIDE DEF x, h, g
  <2>10. /\ d2 \in Chains /\ d2.next \in Links(Cells)
         /\ d2.next[h] = d.next[x] /\ d2.next[x] = d.next[g] /\ d2.next[g] = x
         /\ \A y \in Cells \ {h, x, g} : d2.next[y] = d.next[y] /\ d2.prev[y] = d.prev[y]
         /\ \A y \in Cells : d2.list_ind[y] = IF y = x THEN -1 ELSE d.list_ind[y]
    BY <2>4 DEF Migrated, Chains, g
  <2>11. /\ x \notin Members(IndexCells, g, on)
         /\ \A y \in Members(IndexCells, h, on2) \cup Members(IndexCells, g, on) :
              y \in Cells \ {h, x, g} /\ y \in IndexCells
    BY <2>1, <2>3, <2>9, CellFacts DEF Members
  <2>12. Works(d, on, rank, d2, on2, rank2, T)
    <3>1. \A y \in Heads \ T : d2.next[y] = d.next[y] /\ d2.prev[y] = d.prev[y]
      BY <2>3, <2>10, CellFacts
    <3>2. \A y \in IndexCells : on[y] \in T => on2[y] \in T
      BY <2>8
    <3>3. ASSUME NEW y \in IndexCells, on[y] \notin T
          PROVE  /\ on2[y] = on[y] /\ rank2[y] = rank[y]
                 /\ d2.next[y] = d.next[y] /\ d2.prev[y] = d.prev[y] /\ d2.list_ind[y] = d.list_ind[y]
      <4>1. y \in Cells \ {h, x, g} /\ y # x
        BY <2>1, <2>3, <3>3, CellFacts
      <4>. QED
        BY <4>1, <2>8, <2>10
    <3>. HIDE DEF T
    <3>. QED
      BY <2>8, <3>1, <3>2, <3>3 DEF Works
  <2>13. List(IndexCells, h, d2.next, on2, rank2)
    <3>1. TakesFirst(IndexCells, h, d.next, on, d2.next, on2)
      BY <2>3, <2>9, <2>10, <2>11 DEF TakesFirst, x
    <3>2. List(IndexCells, h, d2.next, on2, rank)
      BY <2>1, <2>2, <2>8, <2>10, <3>1, HeadOfList, ListPop
    <3>3. \A y \in Members(IndexCells, h, on2) : rank2[y] = rank[y]
      BY <2>8, <2>11
    <3>. QED
      BY <2>1, <2>8, <2>10, <3>2, <3>3, HeadOfList, ListFrame
  <2>14. List(IndexCells, g, d2.next, on2, rank2)
    <3>1. \A y \in Members(IndexCells, g, on) : d2.next[y] = d.next[y] /\ rank2[y] = rank[y] /\ rank2[x] < rank[y]
      BY <2>5, <2>8, <2>10, <2>11
    <3>. QED
      BY <2>1, <2>2, <2>3, <2>8, <2>9, <2>10, <2>11, <3>1, HeadOfList, ListPush
  <2>15. ASSUME NEW y \in IndexCells, on[y] \in T PROVE Marked(d2, on2, y) /\ d.list_ind[y] = -1
    <3>1. Marked(d, on, y) /\ on[y] \notin Cores /\ y \in Cells
      BY <2>1, <2>15, CellFacts DEF Placed
    <3>2. on2[y] \in T /\ on2[y] \in Heads /\ on2[y] \notin Cores
      BY <2>1, <2>8, <2>15
    <3>3. d.list_ind[y] = -1 /\ d2.list_ind[y] = -1
      BY <3>1, <2>10 DEF Marked
    <3>. QED
      BY <3>2, <3>3 DEF Marked
  <2>16. Placed(d2, on2, rank2)
    <3>1. \A y \in IndexCells : on[y] \in T => Marked(d2, on2, y)
      BY <2>15
    <3>2. \A k \in Heads : k \in T => List(IndexCells, k, d2.next, on2, rank2)
      BY <2>13, <2>14
    <3>3. \A k \in Cores : k \in T => Doubly(IndexCells, k, d2.next, d2.prev, on2)
      BY <2>1
    <3>. HIDE DEF T
    <3>. QED
      BY <2>1, <2>10, <2>12, <3>1, <3>2, <3>3, WorksPlaced
  <2>17. SameAllocated(d, d2)
    <3>1. d.list_ind[x] = -1
      BY <2>3, <2>15
    <3>2. \A y \in IndexCells : d2.list_ind[y] = d.list_ind[y] /\ (d.list_ind[y] # -1 => y \in Cells \ {h, x, g})
      BY <2>1, <2>10, <3>1, CellFacts
    <3>3. \A k \in Cores : k \in Cells \ {h, x, g}
      BY <2>1, <2>3, CellFacts
    <3>. QED
      BY <2>10, <3>2, <3>3 DEF SameAllocated
  <2>. QED
    BY <2>4, <2>10, <2>16, <2>17 DEF ChainInv
<1>. QED
  BY <1>0, <1>a

(* The chains that a refill of d passes through. *)
RefillOf(d) == {e \in Chains : ChainInv(e) /\ SameAllocated(d, e)}

RefillStep(s, k) == With(s, LAMBDA e : Migrate(e, k))

RefillEq(d, g) == g = [n \in 0..NumCores |-> IF n = 0 THEN d ELSE RefillStep(g[n - 1], n - 1)]

(* One more core. *)
LEMMA RefillStepIs ==
  ASSUME NEW d, NEW s \in RefillOf(d), NEW k \in Cores
  PROVE  RefillStep(s, k) = Migrate(s, k) /\ Migrate(s, k) \in RefillOf(d)
<1>1. RefillStep(s, k) = Migrate(s, k)
  <2>. DEFINE T == {Migrate(e, k) : e \in {s}}
  <2>1. RefillStep(s, k) = CHOOSE y \in T : TRUE
    BY DEF RefillStep, With
  <2>2. T = {Migrate(s, k)}
    OBVIOUS
  <2>. HIDE DEF T
  <2>. QED
    BY <2>1, <2>2, OnlyChoice
<1>2. ChainInv(Migrate(s, k)) /\ SameAllocated(s, Migrate(s, k)) /\ SameAllocated(d, s)
  BY MigrateInv DEF RefillOf
<1>3. SameAllocated(d, Migrate(s, k))
  BY <1>2 DEF SameAllocated
<1>. QED
  BY <1>1, <1>2, <1>3 DEF RefillOf, ChainInv

(* f are the chains after each step of the migrating loop. *)
RefillRun(d, f) ==
  /\ f[0] = d /\ Refill(d) = f[NumCores]
  /\ \A n \in 0..NumCores : f[n] \in RefillOf(d)
  /\ \A k \in Cores : f[k + 1] = Migrate(f[k], k)

(* The loop runs through all cores. *)
LEMMA RefillRuns ==
  ASSUME NEW d, ChainInv(d)
  PROVE  \E f : RefillRun(d, f)
<1>. DEFINE S == RefillOf(d)
            hop(n) == [s \in S |-> Migrate(s, n - 1)]
            step == [n \in 1..NumCores |-> hop(n)]
            after == CHOOSE g : RefillEq(d, g)
<1>1. NumCores \in Nat /\ \A n \in 1..NumCores : n - 1 \in Cores /\ n - 1 \in 0..NumCores
  BY DoubleChainAssumption DEF Cores
<1>2. d \in S
  BY DEF RefillOf, ChainInv, SameAllocated
<1>3. step \in Steps(NumCores, S)
  <2>1. ASSUME NEW n \in 1..NumCores PROVE hop(n) \in [S -> S]
    <3>1. \A s \in S : Migrate(s, n - 1) \in S
      BY <1>1, RefillStepIs
    <3>. HIDE DEF S
    <3>. QED
      BY <3>1
  <2>. HIDE DEF hop, S
  <2>. QED
    BY <2>1 DEF Steps
<1>. HIDE DEF S
<1>4. PICK f : Computes(f, NumCores, S, d, step)
  <2>. HIDE DEF step
  <2>. QED
    BY <1>1, <1>2, <1>3, Recursion
<1>5. f \in [0..NumCores -> S] /\ f[0] = d /\ \A n \in 1..NumCores : f[n] = step[n][f[n - 1]]
  <2>. HIDE DEF step
  <2>. QED
    BY <1>4 DEF Computes
<1>6. ASSUME NEW n \in 1..NumCores PROVE f[n - 1] \in S /\ f[n] = RefillStep(f[n - 1], n - 1)
  <2>1. f[n - 1] \in S
    BY <1>1, <1>5
  <2>2. step[n] = hop(n)
    <3>. HIDE DEF hop
    <3>. QED
      OBVIOUS
  <2>3. f[n] = Migrate(f[n - 1], n - 1)
    BY <1>5, <2>1, <2>2
  <2>. QED
    BY <1>1, <2>1, <2>3, RefillStepIs DEF S
<1>7. RefillEq(d, f)
  <2>1. \A n \in 0..NumCores : f[n] = IF n = 0 THEN d ELSE RefillStep(f[n - 1], n - 1)
    BY <1>1, <1>5, <1>6
  <2>. QED
    BY <1>5, <2>1 DEF RefillEq
<1>8. RefillEq(d, after)
  BY <1>7
<1>9. Refill(d) = after[NumCores]
  BY DEF Refill, RefillEq, RefillStep
<1>. HIDE DEF after
<1>10. \A n \in 0..NumCores : after[n] = IF n = 0 THEN d ELSE RefillStep(after[n - 1], n - 1)
  BY <1>8 DEF RefillEq
<1>11. \A n \in 0..NumCores : n \in {i \in 0..NumCores : after[i] \in S}
  <2>. DEFINE T == {i \in 0..NumCores : after[i] \in S}
  <2>1. 0 \in T
    BY <1>1, <1>2, <1>10
  <2>2. ASSUME NEW i \in 0..NumCores - 1, i \in T PROVE i + 1 \in T
    <3>1. i + 1 \in 0..NumCores /\ (i + 1) - 1 = i /\ i + 1 # 0 /\ i \in Cores /\ after[i] \in S
      BY <1>1, <2>2 DEF Cores
    <3>2. after[i + 1] = RefillStep(after[i], i)
      BY <1>10, <3>1
    <3>3. RefillStep(after[i], i) \in S
      BY <3>1, RefillStepIs DEF S
    <3>. QED
      BY <3>1, <3>2, <3>3
  <2>. HIDE DEF T
  <2>3. \A i \in 0..NumCores - 1 : i \in T => i + 1 \in T
    BY <2>2
  <2>4. \A n \in 0..NumCores : n \in T
    BY <1>1, <2>1, <2>3, Induction
  <2>. QED
    BY <2>4 DEF T
<1>12. \A n \in 0..NumCores : after[n] \in S
  BY <1>11
<1>13. ASSUME NEW k \in Cores
       PROVE  after[k + 1] = Migrate(after[k], k)
  <2>1. k + 1 \in 0..NumCores /\ (k + 1) - 1 = k /\ k + 1 # 0 /\ k \in 0..NumCores
    BY <1>1 DEF Cores
  <2>2. after[k + 1] = RefillStep(after[k], k) /\ after[k] \in S
    BY <1>10, <1>12, <2>1
  <2>. QED
    BY <2>2, RefillStepIs DEF S
<1>14. after[0] = d
  BY <1>1, <1>10
<1>. QED
  BY <1>9, <1>12, <1>13, <1>14 DEF S, RefillRun

(* A refill keeps the chain labelled and allocates nothing. *)
LEMMA RefillInv ==
  ASSUME NEW d, ChainInv(d)
  PROVE  ChainInv(Refill(d)) /\ SameAllocated(d, Refill(d))
<1>1. PICK f : RefillRun(d, f)
  BY RefillRuns
<1>2. NumCores \in 0..NumCores
  BY DoubleChainAssumption
<1>. QED
  BY <1>1, <1>2 DEF RefillRun, RefillOf

(* A step of the loop does nothing to a core without free indexes and      *)
(* leaves the global list with one in all other cases.                     *)
LEMMA MigrateFinds ==
  ASSUME NEW d, ChainInv(d), NEW c \in Cores
  PROVE  /\ IsEmpty(d, FREE_LIST_HEAD(c)) => Migrate(d, c) = d
         /\ ~IsEmpty(d, FREE_LIST_HEAD(c)) => ~IsEmpty(Migrate(d, c), GLOBAL_FREE_LIST_HEAD)
<1>. PICK h, g : h = FREE_LIST_HEAD(c) /\ g = GLOBAL_FREE_LIST_HEAD
  OBVIOUS
<1>1. CASE IsEmpty(d, h)
  BY <1>1 DEF Migrate
<1>2. CASE ~IsEmpty(d, h)
  <2>. PICK on, rank : Placed(d, on, rank)
    BY DEF ChainInv
  <2>1. List(IndexCells, h, d.next, on, rank) /\ g \notin IndexCells /\ d \in Chains
    BY CellFacts DEF Placed, ChainInv
  <2>2. d.next[h] \in IndexCells
    BY <1>2, <2>1 DEF IsEmpty, List, Leads, Members
  <2>3. Migrated(d, Migrate(d, c), h, d.next[h])
    BY <1>2, <2>1, <2>2, MigrateMoves
  <2>. QED
    BY <1>2, <2>1, <2>2, <2>3 DEF Migrated, IsEmpty
<1>. QED
  BY <1>1, <1>2

(* A refill that finds nothing has looked at all free lists. *)
LEMMA RefillFinds ==
  ASSUME NEW d, ChainInv(d), IsEmpty(Refill(d), GLOBAL_FREE_LIST_HEAD), NEW c \in Cores
  PROVE  IsEmpty(d, FREE_LIST_HEAD(c))
<1>1. PICK f : RefillRun(d, f)
  BY RefillRuns
<1>. DEFINE Nothing(n) == f[n] = d /\ \A k \in Cores : k < n => IsEmpty(d, FREE_LIST_HEAD(k))
            Something(n) == ~IsEmpty(f[n], GLOBAL_FREE_LIST_HEAD)
            T == {n \in 0..NumCores : Nothing(n) \/ Something(n)}
<1>2. NumCores \in Nat
  BY DoubleChainAssumption
<1>3. 0 \in T
  BY <1>1, <1>2 DEF RefillRun, Cores
<1>4. ASSUME NEW n \in 0..NumCores - 1, n \in T
      PROVE  n + 1 \in T
  <2>1. n \in Cores /\ n + 1 \in 0..NumCores /\ n \in 0..NumCores /\ \A k \in Cores : k < n + 1 => k < n \/ k = n
    BY <1>2 DEF Cores
  <2>2. f[n + 1] = Migrate(f[n], n) /\ ChainInv(f[n])
    BY <1>1, <2>1 DEF RefillRun, RefillOf
  <2>3. CASE IsEmpty(f[n], FREE_LIST_HEAD(n))
    <3>1. f[n + 1] = f[n]
      BY <2>1, <2>2, <2>3, MigrateFinds
    <3>2. Nothing(n + 1) \/ Something(n + 1)
      BY <1>4, <2>1, <2>3, <3>1
    <3>. QED
      BY <2>1, <3>2
  <2>4. CASE ~IsEmpty(f[n], FREE_LIST_HEAD(n))
    <3>1. Something(n + 1)
      BY <2>1, <2>2, <2>4, MigrateFinds
    <3>. QED
      BY <2>1, <3>1
  <2>. QED
    BY <2>3, <2>4
<1>5. NumCores \in T
  <2>1. \A n \in 0..NumCores - 1 : n \in T => n + 1 \in T
    BY <1>4
  <2>. HIDE DEF T
  <2>2. \A n \in 0..NumCores : n \in T
    BY <1>2, <1>3, <2>1, Induction
  <2>. QED
    BY <1>2, <2>2
<1>6. ~Something(NumCores)
  BY <1>1 DEF RefillRun
<1>7. c < NumCores
  BY <1>2 DEF Cores
<1>. QED
  BY <1>5, <1>6, <1>7
-----------------------------------------------------------------------------
(* Cell x, the first of list h, is now the last of the list of core c. *)
MovesToAlloc(d, d2, h, x, c) ==
  /\ d2 \in Chains
  /\ \E nx \in Links(Cells), pv \in Links(Cells) :
       /\ nx = [d.next EXCEPT ![h] = d.next[x]] /\ pv = [d.prev EXCEPT ![h] = d.next[x]]
       /\ AppendLinks(c, nx, pv, d2.next, d2.prev, x)
  /\ d2.list_ind = [d.list_ind EXCEPT ![x] = c]

TakenBy(d, h, c) == With(Pop(d, h), LAMBDA p : AppendTo(p, c, d.next[h]))

(* What taking the first cell off and appending it does to the links. *)
LEMMA TakenByMoves ==
  ASSUME NEW d \in Chains, NEW c \in Cores, NEW h \in Heads, NEW x \in IndexCells, x = d.next[h]
  PROVE  MovesToAlloc(d, TakenBy(d, h, c), h, x, c)
<1>. DEFINE p == Pop(d, h)
            F(q) == AppendTo(q, c, d.next[h])
            T == {F(q) : q \in {p}}
<1>1. h \in Cells /\ x \in Cells /\ c \in Cells
  BY CellFacts
<1>2. /\ d = ChainOf(d.next, d.prev, d.list_ind)
      /\ d.next \in [Cells -> Cells] /\ d.prev \in [Cells -> Cells] /\ d.list_ind \in [Cells -> Cores \cup {-1}]
  BY DEF Chains, Links, ChainOf
<1>3. TakenBy(d, h, c) = F(p)
  <2>1. TakenBy(d, h, c) = CHOOSE y \in T : TRUE
    BY DEF TakenBy, With
  <2>2. T = {F(p)}
    <3>. HIDE DEF F, p
    <3>. QED
      OBVIOUS
  <2>. HIDE DEF F, p, T
  <2>. PICK e : e = F(p)
    OBVIOUS
  <2>. QED
    BY <2>1, <2>2, OnlyChoice
<1>4. PICK nx, pv, l : nx = [d.next EXCEPT ![h] = d.next[x]] /\ pv = [d.prev EXCEPT ![h] = d.next[x]] /\ l = d.list_ind
  OBVIOUS
<1>5. p = ChainOf(nx, pv, l)
  BY <1>2, <1>4, PointToIs DEF Pop
<1>6. nx \in Links(Cells) /\ pv \in Links(Cells) /\ l \in [Cells -> Cores \cup {-1}]
  BY <1>1, <1>2, <1>4 DEF Links
<1>. HIDE DEF p
<1>7. F(p) = ChainOf([nx EXCEPT ![x] = c, ![pv[c]] = x], [pv EXCEPT ![x] = pv[c], ![c] = x], [l EXCEPT ![x] = c])
  BY <1>5, AppendToIs
<1>8. PICK d2 : d2 = F(p)
  OBVIOUS
<1>. HIDE DEF F
<1>9. /\ d2.next = [nx EXCEPT ![x] = c, ![pv[c]] = x] /\ d2.prev = [pv EXCEPT ![x] = pv[c], ![c] = x]
      /\ d2.list_ind = [l EXCEPT ![x] = c] /\ d2 = [next |-> d2.next, prev |-> d2.prev, list_ind |-> d2.list_ind]
  BY <1>7, <1>8 DEF ChainOf
<1>10. d2.next \in Links(Cells) /\ d2.prev \in Links(Cells) /\ d2.list_ind \in [Cells -> Cores \cup {-1}]
  BY <1>1, <1>6, <1>9 DEF Links
<1>11. d2 \in Chains
  BY <1>9, <1>10 DEF Chains
<1>12. AppendLinks(c, nx, pv, d2.next, d2.prev, x)
  BY <1>9 DEF AppendLinks
<1>. QED
  BY <1>3, <1>4, <1>6, <1>8, <1>9, <1>11, <1>12 DEF MovesToAlloc

(* Cell x is allocated to c, and the others are as before. *)
NowAllocated(d, d2, x, c) ==
  d2.list_ind[x] = c /\ d.list_ind[x] = -1 /\ \A y \in IndexCells \ {x} : d2.list_ind[y] = d.list_ind[y]

(* Cell x joins the list of core c as its last cell, and the cells of the  *)
(* other allocated lists keep their places.                                *)
Joins(on, rank, on2, rank2, x, c) ==
  /\ x \in IndexCells /\ on[x] \notin Cores /\ on2[x] = c
  /\ \A y \in IndexCells \ {x} :
       /\ (on[y] \in Cores <=> on2[y] \in Cores) /\ (on2[y] \in Cores => on2[y] = on[y] /\ rank2[y] = rank[y])
       /\ on2[y] = c => rank2[y] < rank2[x]

(* Then the chain is labelled again. *)
LEMMA TakenByPlaced ==
  ASSUME NEW d \in Chains, NEW on, NEW rank, Placed(d, on, rank), NEW c \in Cores, NEW h \in Heads, h \notin Cores, ~IsEmpty(d, h)
  PROVE  /\ d.next[h] \in IndexCells /\ TakenBy(d, h, c) \in Chains /\ NowAllocated(d, TakenBy(d, h, c), d.next[h], c)
         /\ \E on2, rank2 : Placed(TakenBy(d, h, c), on2, rank2) /\ Joins(on, rank, on2, rank2, d.next[h], c)
<1>. DEFINE x == d.next[h]
            T == {h, c}
<1>1. /\ d \in Chains /\ on \in Labels(IndexCells) /\ rank \in Labels(IndexCells)
      /\ d.next \in Links(Cells) /\ d.prev \in Links(Cells) /\ d.list_ind \in [Cells -> Cores \cup {-1}]
      /\ c \in Heads /\ h # c /\ h \in Cells /\ c \in Cells /\ c \notin IndexCells /\ h \notin IndexCells
  BY CellFacts DEF Placed, Chains
<1>2. /\ List(IndexCells, h, d.next, on, rank) /\ List(IndexCells, c, d.next, on, rank)
      /\ Doubly(IndexCells, c, d.next, d.prev, on)
  BY <1>1 DEF Placed
<1>3. x # h /\ x \in IndexCells /\ on[x] = h /\ x # c /\ x \in Cells
  BY <1>1, <1>2, CellFacts DEF IsEmpty, List, Leads, Members
<1>4. PICK d2 : d2 = TakenBy(d, h, c) /\ MovesToAlloc(d, d2, h, x, c)
  BY <1>1, <1>3, TakenByMoves
<1>. HIDE DEF x
<1>5. PICK nx \in Links(Cells), pv \in Links(Cells) :
         /\ nx = [d.next EXCEPT ![h] = d.next[x]] /\ pv = [d.prev EXCEPT ![h] = d.next[x]]
         /\ AppendLinks(c, nx, pv, d2.next, d2.prev, x)
  BY <1>4 DEF MovesToAlloc
<1>6. d2 \in Chains /\ d2.next \in Links(Cells) /\ d2.prev \in Links(Cells) /\ d2.list_ind = [d.list_ind EXCEPT ![x] = c]
  BY <1>4 DEF MovesToAlloc, Chains
<1>7. /\ nx[h] = d.next[x] /\ \A y \in Cells \ {h} : nx[y] = d.next[y] /\ pv[y] = d.prev[y]
  BY <1>1, <1>5 DEF Links
<1>8. \A y \in Members(IndexCells, c, on) \cup {c} : y \in Cells \ {h} /\ y # x
  BY <1>1, <1>3, CellFacts DEF Members
<1>9. List(IndexCells, c, nx, on, rank) /\ Doubly(IndexCells, c, nx, pv, on)
  <2>1. \A y \in Members(IndexCells, c, on) \cup {c} : nx[y] = d.next[y] /\ pv[y] = d.prev[y]
    BY <1>7, <1>8
  <2>2. List(IndexCells, c, nx, on, rank)
    <3>1. c \in Cells \ IndexCells /\ IndexCells \in SUBSET Cells
      BY <1>1, HeadOfList
    <3>2. on \in Labels(IndexCells) /\ rank \in Labels(IndexCells) /\ d.next \in Links(Cells)
      BY <1>1
    <3>3. \A y \in Members(IndexCells, c, on) \cup {c} : nx[y] = d.next[y]
      BY <2>1
    <3>. QED
      BY <1>2, <3>1, <3>2, <3>3, ListFrame
  <2>3. Doubly(IndexCells, c, nx, pv, on)
    BY <1>2, <2>1 DEF List, Leads, Doubly
  <2>. QED
    BY <2>2, <2>3
<1>10. BackRank(c, pv, rank) \in Int /\ \A y \in Members(IndexCells, c, on) : rank[y] < BackRank(c, pv, rank)
  BY <1>1, <1>5, <1>9, HeadOfList, BackRankGreater
<1>11. PICK on2 : Relabels(IndexCells, on, on2, x, c)
  BY <1>1, <1>3, CellFacts, RelabelExists
<1>12. PICK rank2 : Relabels(IndexCells, rank, rank2, x, BackRank(c, pv, rank))
  BY <1>1, <1>3, <1>10, RelabelExists
<1>13. /\ on2 \in Labels(IndexCells) /\ rank2 \in Labels(IndexCells)
       /\ \A y \in IndexCells : on2[y] = (IF y = x THEN c ELSE on[y]) /\ (y # x => rank2[y] = rank[y])
       /\ rank2[x] = BackRank(c, pv, rank)
  BY <1>3, <1>11, <1>12 DEF Relabels
<1>14. Members(IndexCells, c, on2) = Members(IndexCells, c, on) \cup {x} /\ Members(IndexCells, h, on2) = Members(IndexCells, h, on) \ {x}
  BY <1>1, <1>3, <1>11, MembersMove
<1>15. List(IndexCells, c, d2.next, on2, rank2) /\ Doubly(IndexCells, c, d2.next, d2.prev, on2)
  <2>1. AddsLast(IndexCells, c, on, rank, on2, rank2, x)
    BY <1>8, <1>10, <1>13, <1>14 DEF AddsLast, Members
  <2>2. c \in Cells \ IndexCells /\ IndexCells \in SUBSET Cells
    BY <1>1, HeadOfList
  <2>3. /\ on \in Labels(IndexCells) /\ rank \in Labels(IndexCells) /\ on2 \in Labels(IndexCells)
        /\ rank2 \in Labels(IndexCells) /\ x \in IndexCells /\ d2.next \in Links(Cells) /\ d2.prev \in Links(Cells)
    BY <1>1, <1>3, <1>6, <1>13
  <2>4. AppendLinks(c, nx, pv, d2.next, d2.prev, x)
    BY <1>5
  <2>. QED
    BY <1>9, <2>1, <2>2, <2>3, <2>4, ListAppend
<1>16. pv[c] \in Members(IndexCells, c, on) \cup {c}
  BY <1>9 DEF Doubly
<1>17. ASSUME NEW y \in Cells, y # x, y # c, y \notin Members(IndexCells, c, on), y # h
       PROVE  d2.next[y] = d.next[y] /\ d2.prev[y] = d.prev[y]
  <2>1. d2.next[y] = nx[y] /\ d2.prev[y] = pv[y]
    BY <1>5, <1>16, <1>17 DEF AppendLinks, Links
  <2>. QED
    BY <2>1, <1>7, <1>17
<1>18. d2.next[h] = d.next[x]
  <2>1. d2.next[h] = nx[h]
    BY <1>1, <1>3, <1>5, <1>8, <1>16 DEF AppendLinks, Links
  <2>. QED
    BY <2>1, <1>7
<1>19. \A y \in IndexCells : d2.list_ind[y] = IF y = x THEN c ELSE d.list_ind[y]
  BY <1>1, <1>6, CellFacts
<1>20. List(IndexCells, h, d2.next, on2, rank2)
  <2>1. ASSUME NEW y \in Members(IndexCells, h, on2)
        PROVE  y \in IndexCells /\ y # x /\ d2.next[y] = d.next[y] /\ rank2[y] = rank[y]
    <3>1. y \in IndexCells /\ y # x /\ on[y] = h /\ y \in Cells
      BY <1>14, CellFacts DEF Members
    <3>2. y # c /\ y # h /\ y \notin Members(IndexCells, c, on)
      BY <1>1, <3>1 DEF Members
    <3>. QED
      BY <3>1, <3>2, <1>13, <1>17
  <2>2. TakesFirst(IndexCells, h, d.next, on, d2.next, on2)
    BY <1>3, <1>14, <1>18, <2>1 DEF TakesFirst, x
  <2>3. List(IndexCells, h, d2.next, on2, rank)
    BY <1>1, <1>2, <1>6, <1>13, <2>2, HeadOfList, ListPop
  <2>4. \A y \in Members(IndexCells, h, on2) : rank2[y] = rank[y]
    BY <2>1
  <2>. QED
    BY <1>1, <1>6, <1>13, <2>3, <2>4, HeadOfList, ListFrame
<1>21. Works(d, on, rank, d2, on2, rank2, T)
  <2>1. ASSUME NEW y \in Heads \ T PROVE d2.next[y] = d.next[y] /\ d2.prev[y] = d.prev[y]
    <3>1. y \in Cells /\ y # x /\ y \notin Members(IndexCells, c, on) /\ y # c /\ y # h
      BY <1>3, CellFacts DEF Members
    <3>. QED
      BY <3>1, <1>17
  <2>2. \A y \in IndexCells : on[y] \in T => on2[y] \in T
    BY <1>13
  <2>3. ASSUME NEW y \in IndexCells, on[y] \notin T
        PROVE  /\ on2[y] = on[y] /\ rank2[y] = rank[y]
               /\ d2.next[y] = d.next[y] /\ d2.prev[y] = d.prev[y] /\ d2.list_ind[y] = d.list_ind[y]
    <3>1. y \in Cells /\ y # x /\ y \notin Members(IndexCells, c, on) /\ y # c /\ y # h
      BY <1>1, <1>3, <2>3, CellFacts DEF Members
    <3>. QED
      BY <3>1, <1>13, <1>17, <1>19
  <2>. HIDE DEF T
  <2>. QED
    BY <1>13, <2>1, <2>2, <2>3 DEF Works
<1>22. \A y \in IndexCells : Marked(d, on, y)
  BY DEF Placed
<1>23. ASSUME NEW y \in IndexCells, on[y] \in T PROVE Marked(d2, on2, y)
  BY <1>1, <1>13, <1>19, <1>22, <1>23 DEF Marked
<1>24. Placed(d2, on2, rank2)
  <2>1. \A k \in Heads : k \in T => List(IndexCells, k, d2.next, on2, rank2)
    BY <1>15, <1>20
  <2>2. \A k \in Cores : k \in T => Doubly(IndexCells, k, d2.next, d2.prev, on2)
    BY <1>15
  <2>3. \A y \in IndexCells : on[y] \in T => Marked(d2, on2, y)
    BY <1>23
  <2>. HIDE DEF T
  <2>. QED
    BY <1>1, <1>6, <1>21, <2>1, <2>2, <2>3, WorksPlaced
<1>25. d.list_ind[x] = -1
  BY <1>3, <1>22 DEF Marked
<1>26. NowAllocated(d, d2, x, c)
  BY <1>3, <1>19, <1>25 DEF NowAllocated
<1>27. Joins(on, rank, on2, rank2, x, c)
  BY <1>3, <1>10, <1>13 DEF Joins, Members
<1>. QED
  BY <1>3, <1>4, <1>6, <1>24, <1>26, <1>27 DEF x

(* The same without labels. *)
LEMMA TakenByInv ==
  ASSUME NEW d, ChainInv(d), NEW c \in Cores, NEW h \in Heads, h \notin Cores, ~IsEmpty(d, h)
  PROVE  d.next[h] \in IndexCells /\ ChainInv(TakenBy(d, h, c)) /\ NowAllocated(d, TakenBy(d, h, c), d.next[h], c)
<1>. PICK on, rank : Placed(d, on, rank)
  BY DEF ChainInv
<1>1. d \in Chains
  BY DEF ChainInv
<1>. QED
  BY <1>1, TakenByPlaced DEF ChainInv

(* Labels of a chain fit the allocated lists of another one in which these *)
(* are the same.                                                           *)
Relabelled(d2, on, rank, on2, rank2) ==
  /\ Placed(d2, on2, rank2)
  /\ \A y \in IndexCells : (on[y] \in Cores <=> on2[y] \in Cores) /\ (on2[y] \in Cores => on2[y] = on[y] /\ rank2[y] = rank[y])

(* If a change leaves the allocated lists alone, there are such labels.    *)
LEMMA RelabelCores ==
  ASSUME NEW d \in Chains, NEW on, NEW rank, Placed(d, on, rank), NEW d2, ChainInv(d2), SameAllocated(d, d2)
  PROVE  \E on2, rank2 : Relabelled(d2, on, rank, on2, rank2)
<1>. PICK on2, r : Placed(d2, on2, r)
  BY DEF ChainInv
<1>. DEFINE rank2 == [y \in IndexCells |-> IF on2[y] \in Cores THEN rank[y] ELSE r[y]]
<1>1. /\ on \in Labels(IndexCells) /\ rank \in Labels(IndexCells) /\ on2 \in Labels(IndexCells) /\ r \in Labels(IndexCells)
      /\ d2 \in Chains /\ d.next \in Links(Cells) /\ d2.next \in Links(Cells)
  BY DEF Placed, Chains, ChainInv
<1>2. rank2 \in Labels(IndexCells)
  BY <1>1 DEF Labels
<1>3. ASSUME NEW y \in IndexCells
      PROVE  (on[y] \in Cores <=> on2[y] \in Cores) /\ (on2[y] \in Cores => on2[y] = on[y])
  <2>1. Marked(d, on, y) /\ Marked(d2, on2, y) /\ d2.list_ind[y] = d.list_ind[y]
    BY DEF Placed, SameAllocated
  <2>. QED
    BY <2>1, CellFacts DEF Marked
<1>4. ASSUME NEW y \in IndexCells
      PROVE  rank2[y] = IF on2[y] \in Cores THEN rank[y] ELSE r[y]
  OBVIOUS
<1>. HIDE DEF rank2
<1>5. ASSUME NEW h \in Heads PROVE List(IndexCells, h, d2.next, on2, rank2)
  <2>1. CASE h \in Cores
    <3>1. Members(IndexCells, h, on2) = Members(IndexCells, h, on)
      BY <1>3, <2>1 DEF Members
    <3>2. \A y \in Members(IndexCells, h, on) : d2.next[y] = d.next[y] /\ rank2[y] = rank[y]
      <4>. SUFFICES ASSUME NEW y \in IndexCells, on[y] = h PROVE d2.next[y] = d.next[y] /\ rank2[y] = rank[y]
        BY DEF Members
      <4>1. Marked(d, on, y)
        BY DEF Placed
      <4>2. d.list_ind[y] # -1 /\ on2[y] \in Cores
        BY <4>1, <2>1, <1>3, CellFacts DEF Marked
      <4>. QED
        BY <4>2, <1>4 DEF SameAllocated
    <3>3. d2.next[h] = d.next[h] /\ List(IndexCells, h, d.next, on, rank)
      BY <2>1 DEF SameAllocated, Placed
    <3>4. \A y \in Members(IndexCells, h, on) \cup {h} : d2.next[y] = d.next[y]
      BY <3>2, <3>3
    <3>. QED
      BY <1>1, <1>2, <3>1, <3>2, <3>3, <3>4, HeadOfList, ListFrame
  <2>2. CASE h \notin Cores
    <3>1. \A y \in Members(IndexCells, h, on2) : rank2[y] = r[y]
      BY <1>4, <2>2 DEF Members
    <3>2. List(IndexCells, h, d2.next, on2, r)
      BY DEF Placed
    <3>. QED
      BY <1>1, <1>2, <3>1, <3>2, HeadOfList, ListFrame
  <2>. QED
    BY <2>1, <2>2
<1>6. Placed(d2, on2, rank2)
  BY <1>1, <1>2, <1>5 DEF Placed
<1>. QED
  BY <1>3, <1>4, <1>6 DEF Relabelled

(* The chain with an index to allocate, if there is one, is labelled, and  *)
(* what is allocated does not change.                                      *)
Supplied(d, s) ==
  s.head \in Heads /\ s.head \notin Cores /\ ChainInv(s.chain) /\ SameAllocated(d, s.chain)

(* The list of the core, the global list or what a refill made of it. *)
LEMMA SupplyInv ==
  ASSUME NEW d, ChainInv(d), NEW c \in Cores
  PROVE  Supplied(d, Supply(d, c))
<1>1. SameAllocated(d, d)
  BY DEF SameAllocated
<1>2. ChainInv(Refill(d)) /\ SameAllocated(d, Refill(d))
  BY RefillInv
<1>3. /\ FREE_LIST_HEAD(c) \in Heads /\ FREE_LIST_HEAD(c) \notin Cores
      /\ GLOBAL_FREE_LIST_HEAD \in Heads /\ GLOBAL_FREE_LIST_HEAD \notin Cores
  BY CellFacts
<1>4. CASE ~IsEmpty(d, FREE_LIST_HEAD(c))
  BY <1>1, <1>3, <1>4 DEF Supply, Supplied
<1>5. CASE IsEmpty(d, FREE_LIST_HEAD(c))
  <2>. PICK e : e = IF IsEmpty(d, GLOBAL_FREE_LIST_HEAD) THEN Refill(d) ELSE d
    OBVIOUS
  <2>1. ChainInv(e) /\ SameAllocated(d, e)
    BY <1>1, <1>2
  <2>2. Supply(d, c) = [chain |-> e, head |-> GLOBAL_FREE_LIST_HEAD]
    BY <1>5 DEF Supply
  <2>. QED
    BY <1>3, <2>1, <2>2 DEF Supplied
<1>. QED
  BY <1>4, <1>5

(* The outcome of an allocation: nothing happens, or an index that was     *)
(* free is the only one that is allocated now and was not before, the last *)
(* one of the list of the core.                                            *)
Allocates(d, c, a) ==
  /\ a.index = NoIndex => a.chain = d
  /\ a.index # NoIndex => \A on, rank : Placed(d, on, rank) =>
       \E on2, rank2 : Placed(a.chain, on2, rank2) /\ Joins(on, rank, on2, rank2, a.index + INDEX_SHIFT, c)
  /\ a.index # NoIndex =>
       /\ a.index \in Indexes /\ ChainInv(a.chain)
       /\ \A i \in Indexes : IsAllocated(a.chain, i) <=> i = a.index \/ IsAllocated(d, i)
       /\ ~IsAllocated(d, a.index)

(* nfos_dchain_allocate_new_index keeps the chain labelled and gives out   *)
(* an index that nobody has.                                               *)
LEMMA AllocateNewIndex ==
  ASSUME NEW d, ChainInv(d), NEW c \in Cores
  PROVE  Allocates(d, c, nfos_dchain_allocate_new_index(d, c))
<1>. DEFINE s == Supply(d, c)
            F(e) == IF e.chain.next[e.head] = e.head THEN [index |-> NoIndex, chain |-> d]
                    ELSE [index |-> e.chain.next[e.head] - INDEX_SHIFT, chain |-> TakenBy(e.chain, e.head, c)]
            T == {F(e) : e \in {s}}
<1>1. Supplied(d, s)
  BY SupplyInv
<1>2. nfos_dchain_allocate_new_index(d, c) = CHOOSE y \in T : TRUE
  BY DEF nfos_dchain_allocate_new_index, With, TakenBy
<1>3. T = {F(s)}
  <2>. HIDE DEF F, s
  <2>. QED
    OBVIOUS
<1>4. nfos_dchain_allocate_new_index(d, c) = F(s)
  <2>. HIDE DEF F, s, T
  <2>. PICK e : e = F(s)
    OBVIOUS
  <2>. QED
    BY <1>2, <1>3, OnlyChoice
<1>. HIDE DEF s
<1>5. CASE IsEmpty(s.chain, s.head)
  <2>1. F(s) = [index |-> NoIndex, chain |-> d]
    BY <1>5 DEF IsEmpty
  <2>. HIDE DEF F
  <2>. QED
    BY <1>4, <2>1 DEF Allocates
<1>6. CASE ~IsEmpty(s.chain, s.head)
  <2>. DEFINE x == s.chain.next[s.head]
  <2>1. PICK e : e = TakenBy(s.chain, s.head, c)
    OBVIOUS
  <2>2. x \in IndexCells /\ ChainInv(e) /\ NowAllocated(s.chain, e, x, c)
    BY <1>1, <1>6, <2>1, TakenByInv DEF Supplied
  <2>3. F(s) = [index |-> x - INDEX_SHIFT, chain |-> e]
    BY <1>6, <2>1 DEF IsEmpty
  <2>. HIDE DEF F, x
  <2>. PICK i \in Indexes : i = x - INDEX_SHIFT /\ i + INDEX_SHIFT = x
    BY <2>2, CellFacts
  <2>4. i # NoIndex
    BY DoubleChainAssumption DEF Indexes, NoIndex
  <2>5. ASSUME NEW j \in Indexes PROVE j + INDEX_SHIFT \in IndexCells /\ (j = i <=> j + INDEX_SHIFT = x)
    <3>1. j \in Int /\ i \in Int /\ INDEX_SHIFT \in Int
      BY DoubleChainAssumption DEF Indexes, INDEX_SHIFT, GLOBAL_FREE_LIST_HEAD
    <3>. QED
      BY <3>1, CellFacts
  <2>6. /\ e.list_ind[x] = c /\ c # -1 /\ d.list_ind[x] = -1
        /\ \A y \in IndexCells : y # x => e.list_ind[y] = d.list_ind[y]
    <3>1. SameAllocated(d, s.chain)
      BY <1>1 DEF Supplied
    <3>. QED
      BY <2>2, <3>1, CellFacts DEF NowAllocated, SameAllocated
  <2>7. \A j \in Indexes : IsAllocated(e, j) <=> j = i \/ IsAllocated(d, j)
    BY <2>5, <2>6 DEF IsAllocated
  <2>8. ~IsAllocated(d, i)
    BY <2>6 DEF IsAllocated
  <2>9. F(s) = [index |-> i, chain |-> e]
    BY <2>3
  <2>10. ASSUME NEW on, NEW rank, Placed(d, on, rank)
         PROVE  \E on2, rank2 : Placed(e, on2, rank2) /\ Joins(on, rank, on2, rank2, x, c)
    <3>1. d \in Chains /\ ChainInv(s.chain) /\ SameAllocated(d, s.chain) /\ s.chain \in Chains
      BY <1>1 DEF Supplied, ChainInv
    <3>2. PICK on1, rank1 : Relabelled(s.chain, on, rank, on1, rank1)
      BY <2>10, <3>1, RelabelCores
    <3>3. PICK on2, rank2 : Placed(e, on2, rank2) /\ Joins(on1, rank1, on2, rank2, x, c)
      BY <1>1, <1>6, <2>1, <3>1, <3>2, TakenByPlaced DEF Supplied, Relabelled, x
    <3>4. Joins(on, rank, on2, rank2, x, c)
      BY <3>2, <3>3 DEF Relabelled, Joins
    <3>. QED
      BY <3>3, <3>4
  <2>. QED
    BY <1>4, <2>2, <2>4, <2>7, <2>8, <2>9, <2>10 DEF Allocates
<1>. QED
  BY <1>5, <1>6

(* It fails only when every index is taken, by whatever core. *)
LEMMA AllTaken ==
  ASSUME NEW d, ChainInv(d), NEW c \in Cores, nfos_dchain_allocate_new_index(d, c).index = NoIndex
  PROVE  \A i \in Indexes : IsAllocated(d, i)
<1>. PICK s : s = Supply(d, c)
  OBVIOUS
<1>. PICK g : g = GLOBAL_FREE_LIST_HEAD
  OBVIOUS
<1>. DEFINE F(e) == IF e.chain.next[e.head] = e.head THEN [index |-> NoIndex, chain |-> d]
                    ELSE [index |-> e.chain.next[e.head] - INDEX_SHIFT, chain |-> TakenBy(e.chain, e.head, c)]
            T == {F(e) : e \in {s}}
<1>1. nfos_dchain_allocate_new_index(d, c) = CHOOSE y \in T : TRUE
  BY DEF nfos_dchain_allocate_new_index, With, TakenBy
<1>2. T = {F(s)}
  <2>. HIDE DEF F
  <2>. QED
    OBVIOUS
<1>3. nfos_dchain_allocate_new_index(d, c) = F(s)
  <2>. HIDE DEF F, T
  <2>. PICK e : e = F(s)
    OBVIOUS
  <2>. QED
    BY <1>1, <1>2, OnlyChoice
<1>4. Supplied(d, s)
  BY SupplyInv
<1>5. IsEmpty(s.chain, s.head)
  <2>. SUFFICES ASSUME ~IsEmpty(s.chain, s.head) PROVE FALSE
    OBVIOUS
  <2>1. s.chain.next[s.head] \in IndexCells
    BY <1>4, TakenByInv DEF Supplied
  <2>2. s.chain.next[s.head] - INDEX_SHIFT \in Indexes
    BY <2>1, CellFacts
  <2>3. s.chain.next[s.head] - INDEX_SHIFT # NoIndex
    BY <2>2, DoubleChainAssumption DEF Indexes, NoIndex
  <2>4. F(s).index = s.chain.next[s.head] - INDEX_SHIFT
    BY DEF IsEmpty
  <2>. HIDE DEF F
  <2>. QED
    BY <1>3, <2>3, <2>4
<1>6. IsEmpty(d, FREE_LIST_HEAD(c)) /\ IsEmpty(d, g) /\ IsEmpty(Refill(d), g)
  <2>1. IsEmpty(d, FREE_LIST_HEAD(c))
    BY <1>5 DEF Supply
  <2>2. s = [chain |-> IF IsEmpty(d, g) THEN Refill(d) ELSE d, head |-> g]
    BY <2>1 DEF Supply
  <2>. QED
    BY <1>5, <2>1, <2>2
<1>7. \A k \in Cores : IsEmpty(d, FREE_LIST_HEAD(k))
  BY <1>6, RefillFinds
<1>8. PICK on, rank : Placed(d, on, rank)
  BY DEF ChainInv
<1>9. ASSUME NEW h \in Heads, IsEmpty(d, h), NEW x \in IndexCells
      PROVE  on[x] # h
  <2>1. List(IndexCells, h, d.next, on, rank)
    BY <1>8 DEF Placed
  <2>. QED
    BY <1>9, <2>1 DEF List, FirstIsLeast, Members, IsEmpty
<1>10. \A h \in Heads : h \in Cores \/ h = g \/ \E k \in Cores : h = FREE_LIST_HEAD(k)
  <2>. SUFFICES ASSUME NEW h \in Heads, h \notin Cores, h # g
                PROVE  \E k \in Cores : h = FREE_LIST_HEAD(k)
    OBVIOUS
  <2>1. h - NumCores \in Cores /\ h = NumCores + (h - NumCores)
    BY DoubleChainAssumption DEF Heads, Cores, GLOBAL_FREE_LIST_HEAD
  <2>. QED
    BY <2>1 DEF FREE_LIST_HEAD
<1>11. ASSUME NEW x \in IndexCells
       PROVE  d.list_ind[x] # -1
  <2>1. Marked(d, on, x)
    BY <1>8 DEF Placed
  <2>2. on[x] \in Heads
    BY <2>1 DEF Marked
  <2>3. on[x] # g /\ \A k \in Cores : on[x] # FREE_LIST_HEAD(k)
    BY <1>6, <1>7, <1>9, CellFacts
  <2>4. on[x] \in Cores
    BY <1>10, <2>2, <2>3
  <2>. QED
    BY <2>1, <2>4, CellFacts DEF Marked
<1>. QED
  BY <1>11, CellFacts DEF IsAllocated
-----------------------------------------------------------------------------
Chunk == Size \div NumCores

(* Every core gets the same positive number of indexes. *)
LEMMA ChunkPositive == Chunk \in Nat \ {0} /\ Chunk * NumCores <= Size
<1>1. Size = NumCores * (Size \div NumCores) + (Size % NumCores)
  BY DoubleChainAssumption
<1>2. Size \div NumCores \in Nat
  BY DoubleChainAssumption
<1>3. Size = NumCores * Chunk /\ Chunk \in Nat /\ NumCores \in Nat /\ Size > 0
  BY <1>1, <1>2, DoubleChainAssumption DEF Chunk
<1>. QED
  BY <1>3

(* The lists that nfos_dchain_allocate builds are labelled by the chunks,  *)
(* and no index is allocated.                                              *)
LEMMA NewChain ==
  ChainInv(nfos_dchain_allocate) /\ \A i \in Indexes : ~IsAllocated(nfos_dchain_allocate, i)
<1>. DEFINE Part(x) == ChunkOf(x, INDEX_SHIFT, Chunk)
            on == [x \in IndexCells |-> FREE_LIST_HEAD(Part(x))]
            rank == [x \in IndexCells |-> x]
            g == GLOBAL_FREE_LIST_HEAD
<1>. PICK d : d = nfos_dchain_allocate
  OBVIOUS
<1>0. /\ d.next = [x \in Cells |-> InitLink(x)] /\ d.prev = [x \in Cells |-> InitLink(x)]
      /\ d.list_ind = [x \in Cells |-> IF x < g THEN x % NumCores ELSE -1]
      /\ d = [next |-> d.next, prev |-> d.prev, list_ind |-> d.list_ind]
  BY DEF nfos_dchain_allocate
<1>1. INDEX_SHIFT \in Nat /\ Size \in Nat \ {0} /\ NumCores \in Nat \ {0} /\ g \in Nat /\ g < INDEX_SHIFT /\ g = 2 * NumCores
  BY DoubleChainAssumption DEF INDEX_SHIFT, GLOBAL_FREE_LIST_HEAD
<1>2. ASSUME NEW x \in IndexCells PROVE x - INDEX_SHIFT \in 0..Size - 1 /\ Part(x) \in Cores /\ x \in Int /\ x \in Cells
  <2>1. x - INDEX_SHIFT \in 0..Size - 1 /\ x - INDEX_SHIFT \in Nat /\ x \in Int /\ x \in Cells
    BY <1>1, CellFacts DEF IndexCells
  <2>2. Part(x) \in Nat
    BY <2>1, ChunkPositive, ChunkBounds DEF ChunkOf
  <2>3. (x - INDEX_SHIFT) \div (Size \div NumCores) < NumCores
    <3>1. Size % NumCores = 0 /\ Size \div NumCores > 0
      BY DoubleChainAssumption, ChunkPositive DEF Chunk
    <3>. QED
      BY <1>1, <2>1, <3>1, AllChunksTaken
  <2>. QED
    BY <1>1, <2>1, <2>2, <2>3 DEF ChunkOf, Chunk, Cores
<1>. HIDE DEF Part
<1>3. ASSUME NEW x \in IndexCells PROVE (x - INDEX_SHIFT) % Chunk = Chunk - 1 <=> EndsChunk(x, INDEX_SHIFT, Size, Chunk)
  <2>1. CASE x - INDEX_SHIFT # Size - 1
    BY <2>1 DEF EndsChunk
  <2>2. CASE x - INDEX_SHIFT = Size - 1
    <3>1. Size = NumCores * (Size \div NumCores) + (Size % NumCores)
      BY <1>1
    <3>2. Size - 1 = Chunk * (NumCores - 1) + (Chunk - 1) /\ NumCores - 1 \in Nat
      <4>1. Size = NumCores * Chunk /\ Chunk \in Nat \ {0}
        BY <1>1, <3>1, ChunkPositive, DoubleChainAssumption DEF Chunk
      <4>2. \A a, b \in Nat : a * b - 1 = b * (a - 1) + (b - 1)
        OBVIOUS
      <4>. QED
        BY <1>1, <4>1, <4>2
    <3>3. \A a, b \in Nat : a > 0 => ((a * b) + (a - 1)) % a = a - 1
      OBVIOUS
    <3>. QED
      BY <2>2, <3>2, <3>3, ChunkPositive DEF EndsChunk
  <2>. QED
    BY <2>1, <2>2
<1>4. ASSUME NEW x \in IndexCells
      PROVE  InitLink(x) = IF EndsChunk(x, INDEX_SHIFT, Size, Chunk) THEN FREE_LIST_HEAD(Part(x)) ELSE x + 1
  <2>1. x >= INDEX_SHIFT /\ ~(x < NumCores \/ x = g) /\ ~(x < g)
    BY <1>1 DEF IndexCells
  <2>. QED
    BY <2>1, <1>3 DEF InitLink, Chunk, Part, ChunkOf
<1>5. ASSUME NEW k \in Cores PROVE InitLink(FREE_LIST_HEAD(k)) = INDEX_SHIFT + Chunk * k /\ k \in Nat /\ k < NumCores
                                   /\ FREE_LIST_HEAD(k) \in Cells /\ Chunk * (k + 1) <= Size
  <2>1. k \in Nat /\ k < NumCores /\ FREE_LIST_HEAD(k) = NumCores + k /\ FREE_LIST_HEAD(k) \in Cells
    BY <1>1, CellFacts DEF Cores, FREE_LIST_HEAD
  <2>2. Chunk * (k + 1) <= Size
    <3>1. Chunk * (k + 1) <= Chunk * NumCores /\ Chunk * (k + 1) \in Nat /\ Chunk * NumCores \in Nat
      BY <1>1, <2>1, ChunkPositive
    <3>. QED
      BY <1>1, <3>1, ChunkPositive
  <2>3. (NumCores + k) - NumCores = k
    BY <1>1, <2>1
  <2>4. ~(NumCores + k < NumCores \/ NumCores + k = g) /\ NumCores + k < g
    BY <1>1, <2>1
  <2>. QED
    BY <2>1, <2>2, <2>3, <2>4 DEF InitLink, Chunk
<1>6. \A h \in Heads : (\A k \in Cores : h # FREE_LIST_HEAD(k)) => InitLink(h) = h
  <2>. SUFFICES ASSUME NEW h \in Heads, \A k \in Cores : h # FREE_LIST_HEAD(k) PROVE InitLink(h) = h
    OBVIOUS
  <2>1. h < NumCores \/ h = g
    <3>1. CASE h \in NumCores..g - 1
      <4>1. h - NumCores \in Cores /\ h = FREE_LIST_HEAD(h - NumCores)
        BY <3>1, <1>1 DEF Cores, FREE_LIST_HEAD
      <4>. QED
        BY <4>1
    <3>. QED
      BY <3>1, <1>1 DEF Heads
  <2>. QED
    BY <2>1 DEF InitLink
<1>7. ASSUME NEW x \in Cells PROVE InitLink(x) \in Cells
  <2>1. CASE x \in IndexCells
    <3>1. x + 1 \in Cells \/ EndsChunk(x, INDEX_SHIFT, Size, Chunk)
      BY <1>1, <2>1 DEF EndsChunk, IndexCells, Cells
    <3>. QED
      BY <1>2, <1>4, <1>5, <2>1, <3>1
  <2>2. CASE x \in Heads
    <3>1. CASE \E k \in Cores : x = FREE_LIST_HEAD(k)
      <4>. PICK k \in Cores : x = FREE_LIST_HEAD(k)
        BY <3>1
      <4>1. Chunk * k \in Nat /\ Chunk * k < Size
        <5>1. \A a, b, s \in Nat : a >= 1 /\ a * (b + 1) <= s => a * b < s /\ a * b \in Nat
          OBVIOUS
        <5>. QED
          BY <1>1, <1>5, <5>1, ChunkPositive
      <4>2. INDEX_SHIFT + Chunk * k \in Cells
        BY <1>1, <4>1 DEF Cells
      <4>. QED
        BY <1>5, <4>2
    <3>. QED
      BY <1>6, <2>2, <3>1
  <2>3. x \in IndexCells \/ x \in Heads
    BY <1>1 DEF IndexCells, Heads, Cells, INDEX_SHIFT
  <2>. QED
    BY <2>1, <2>2, <2>3
<1>8. d \in Chains
  <2>1. \A x \in Cells : (IF x < g THEN x % NumCores ELSE -1) \in Cores \cup {-1}
    BY <1>1 DEF Cells, Cores
  <2>. QED
    BY <1>0, <1>7, <2>1 DEF Chains, Links
<1>9. \A x \in IndexCells : on[x] = FREE_LIST_HEAD(Part(x)) /\ rank[x] = x /\ d.list_ind[x] = -1
  <2>1. \A x \in IndexCells : ~(x < g)
    BY <1>1 DEF IndexCells
  <2>. QED
    BY <1>0, <1>2, <2>1
<1>10. on \in Labels(IndexCells) /\ rank \in Labels(IndexCells)
  BY <1>2, CellFacts DEF Labels
<1>. HIDE DEF on, rank
<1>11. \A h \in Heads : d.next[h] = InitLink(h) /\ d.prev[h] = InitLink(h)
  BY <1>0, CellFacts
<1>12. \A x \in IndexCells : Marked(d, on, x)
  <2>. SUFFICES ASSUME NEW x \in IndexCells PROVE Marked(d, on, x)
    OBVIOUS
  <2>1. on[x] \in Heads /\ on[x] \notin Cores
    <3>. PICK q \in Cores : q = Part(x)
      BY <1>2
    <3>1. on[x] = FREE_LIST_HEAD(q)
      BY <1>9
    <3>. QED
      BY <3>1, CellFacts
  <2>2. d.list_ind[x] = -1
    BY <1>9
  <2>. QED
    BY <2>1, <2>2 DEF Marked
<1>13. ASSUME NEW h \in Heads, \A k \in Cores : h # FREE_LIST_HEAD(k)
       PROVE  List(IndexCells, h, d.next, on, rank) /\ Doubly(IndexCells, h, d.next, d.prev, on)
  <2>1. Members(IndexCells, h, on) = {}
    BY <1>2, <1>9, <1>13 DEF Members
  <2>2. d.next[h] = h /\ d.prev[h] = h
    BY <1>6, <1>11, <1>13
  <2>. QED
    BY <2>1, <2>2 DEF List, Leads, FirstIsLeast, Ascends, NoneBetween, RanksDiffer, Doubly
<1>14. ASSUME NEW k \in Cores PROVE List(IndexCells, FREE_LIST_HEAD(k), d.next, on, rank)
  <2>. PICK h \in Heads : h = FREE_LIST_HEAD(k)
    BY CellFacts
  <2>1. h \notin INDEX_SHIFT..INDEX_SHIFT + Size - 1 /\ IndexCells = INDEX_SHIFT..INDEX_SHIFT + Size - 1
    BY CellFacts DEF IndexCells
  <2>2. d.next[h] = INDEX_SHIFT + Chunk * k /\ k \in Nat /\ Chunk * (k + 1) <= Size
    BY <1>5, <1>11
  <2>3. ASSUME NEW x \in IndexCells
        PROVE  /\ on[x] = h <=> Part(x) = k
               /\ Part(x) = k => d.next[x] = IF EndsChunk(x, INDEX_SHIFT, Size, Chunk) THEN h ELSE x + 1
               /\ rank[x] = x
    <3>1. on[x] = h <=> Part(x) = k
      <4>1. Part(x) \in Int /\ k \in Int /\ NumCores \in Int
        BY <1>1, <1>2 DEF Cores
      <4>2. on[x] = NumCores + Part(x) /\ h = NumCores + k
        BY <1>9 DEF FREE_LIST_HEAD
      <4>. PICK q, o : q = Part(x) /\ o = on[x]
        OBVIOUS
      <4>3. o = h <=> q = k
        BY <4>1, <4>2
      <4>. QED
        BY <4>3
    <3>2. d.next[x] = InitLink(x)
      BY <1>0, <1>2
    <3>. QED
      BY <1>4, <1>9, <3>1, <3>2
  <2>4. InChunk(h, d.next, on, rank, INDEX_SHIFT, Size, Chunk, k)
    BY <2>1, <2>2, <2>3 DEF InChunk, Part
  <2>5. List(INDEX_SHIFT..INDEX_SHIFT + Size - 1, h, d.next, on, rank)
    BY <1>1, <2>1, <2>2, <2>4, ChunkPositive, ChunkList
  <2>. QED
    BY <2>1, <2>5
<1>15. Placed(d, on, rank)
  <2>1. \A h \in Heads : List(IndexCells, h, d.next, on, rank)
    BY <1>13, <1>14
  <2>2. ASSUME NEW c \in Cores PROVE Doubly(IndexCells, c, d.next, d.prev, on)
    <3>1. c \in Heads /\ \A k \in Cores : c # FREE_LIST_HEAD(k)
      BY CellFacts
    <3>. QED
      BY <1>13, <3>1
  <2>. QED
    BY <1>10, <1>12, <2>1, <2>2 DEF Placed
<1>16. \A i \in Indexes : ~IsAllocated(d, i)
  BY <1>9, CellFacts DEF IsAllocated
<1>. QED
  BY <1>8, <1>15, <1>16 DEF ChainInv
-----------------------------------------------------------------------------
(* ListOf enumerates the cells of a labelled list, in the order of their   *)
(* ranks, and is no longer than the bound of ChainSound.                   *)
LEMMA ListOfEnumerates ==
  ASSUME NEW d \in Chains, NEW h \in Heads, NEW on \in Labels(IndexCells), NEW rank \in Labels(IndexCells),
         List(IndexCells, h, d.next, on, rank)
  PROVE  /\ Enumerates(IndexCells, ListOf(d, h), h, on, rank) /\ ToSet(ListOf(d, h)) = Members(IndexCells, h, on)
         /\ DOMAIN ListOf(d, h) \subseteq 1..Size + 1
<1>1. Size \in Nat /\ Fits(IndexCells, Size)
  <2>1. Size \in Nat /\ IsFiniteSet(IndexCells) /\ Cardinality(IndexCells) = Size
    BY DoubleChainAssumption, FS_Interval DEF IndexCells, INDEX_SHIFT, GLOBAL_FREE_LIST_HEAD
  <2>. QED
    BY <2>1 DEF Fits
<1>2. ListOf(d, h) = Listed(d.next, h, Size)
  BY DEF ListOf, Listed, Walk, WalkEq
<1>3. h \in Cells \ IndexCells /\ IndexCells \in SUBSET Cells /\ d.next \in Links(Cells)
  BY HeadOfList DEF Chains
<1>4. /\ Enumerates(IndexCells, Listed(d.next, h, Size), h, on, rank)
      /\ Range(Listed(d.next, h, Size)) = Members(IndexCells, h, on)
  BY <1>1, <1>3, ListedEnumerates
<1>5. DOMAIN Listed(d.next, h, Size) \subseteq 1..Size + 1
  <2>. DEFINE A == {m \in 0..Size : Walk(d.next, h, Size)[m] # h}
  <2>1. IsFiniteSet(0..Size) /\ Cardinality(0..Size) = Size + 1
    BY <1>1, FS_Interval
  <2>2. IsFiniteSet(A) /\ Cardinality(A) <= Size + 1 /\ Cardinality(A) \in Nat
    BY <2>1, FS_Subset, FS_CardinalityType
  <2>3. DOMAIN Listed(d.next, h, Size) = 1..Cardinality(A)
    BY DEF Listed
  <2>. HIDE DEF A
  <2>. QED
    BY <1>1, <2>2, <2>3
<1>. QED
  BY <1>2, <1>4, <1>5 DEF ToSet, Range

(* A labelled chain is sound. *)
LEMMA SoundIfLabelled ==
  ASSUME NEW d, ChainInv(d)
  PROVE  ChainSound(d)
<1>. PICK on, rank : Placed(d, on, rank)
  BY DEF ChainInv
<1>. DEFINE lists == [h \in 0..GLOBAL_FREE_LIST_HEAD |-> ListOf(d, h)]
            Spots(x) == {p \in (DOMAIN lists) \X (1..Size + 1) :
                           p[2] \in DOMAIN lists[p[1]] /\ lists[p[1]][p[2]] = x}
<1>1. d \in Chains /\ on \in Labels(IndexCells) /\ rank \in Labels(IndexCells)
  BY DEF Placed, ChainInv
<1>2. DOMAIN lists = Heads /\ \A h \in Heads : lists[h] = ListOf(d, h)
  BY DEF Heads
<1>3. ASSUME NEW h \in Heads
      PROVE  /\ Enumerates(IndexCells, lists[h], h, on, rank) /\ ToSet(lists[h]) = Members(IndexCells, h, on)
             /\ DOMAIN lists[h] \subseteq 1..Size + 1
  <2>1. List(IndexCells, h, d.next, on, rank)
    BY DEF Placed
  <2>. HIDE DEF lists
  <2>. QED
    BY <1>1, <1>2, <2>1, ListOfEnumerates
<1>. HIDE DEF lists
<1>4. ASSUME NEW x \in IndexCells PROVE Cardinality(Spots(x)) = 1
  <2>. PICK h \in Heads : h = on[x]
    BY DEF Placed, Marked
  <2>. PICK L : L = lists[h]
    OBVIOUS
  <2>1. Enumerates(IndexCells, L, h, on, rank) /\ DOMAIN L \subseteq 1..Size + 1
    BY <1>3
  <2>2. x \in Members(IndexCells, h, on)
    BY DEF Members
  <2>3. PICK n \in DOMAIN L : L[n] = x
    BY <2>1, <2>2 DEF Enumerates
  <2>4. ASSUME NEW m \in DOMAIN L, L[m] = x PROVE m = n
    <3>1. m \in Int /\ n \in Int
      BY <2>1, DoubleChainAssumption
    <3>2. \A y \in IndexCells : rank[y] \in Int
      BY <1>1 DEF Labels
    <3>3. ~(rank[x] < rank[x])
      BY <3>2
    <3>4. ~(m < n) /\ ~(n < m)
      BY <2>1, <2>3, <2>4, <3>3 DEF Enumerates
    <3>. QED
      BY <3>1, <3>4
  <2>5. ASSUME NEW g \in Heads, NEW m \in DOMAIN lists[g], lists[g][m] = x PROVE g = h
    <3>1. lists[g][m] \in Members(IndexCells, g, on)
      BY <1>3 DEF Enumerates
    <3>. QED
      BY <2>5, <3>1 DEF Members
  <2>6. <<h, n>> \in Spots(x)
    BY <1>2, <2>1, <2>3
  <2>7. ASSUME NEW p \in Spots(x) PROVE p = <<h, n>>
    <3>1. p[1] \in Heads /\ p[2] \in DOMAIN lists[p[1]] /\ lists[p[1]][p[2]] = x /\ p = <<p[1], p[2]>>
      BY <1>2, <2>7
    <3>2. p[1] = h
      BY <2>5, <3>1
    <3>3. p[2] = n
      BY <2>4, <3>1, <3>2
    <3>. QED
      BY <3>1, <3>2, <3>3
  <2>8. Spots(x) = {<<h, n>>}
    <3>. HIDE DEF Spots
    <3>. QED
      BY <2>6, <2>7
  <2>. HIDE DEF Spots
  <2>. QED
    BY <2>8, FS_Singleton
<1>5. ASSUME NEW c \in Cores
      PROVE  /\ \A n \in DOMAIN lists[c] : d.list_ind[lists[c][n]] = c /\ d.prev[d.next[lists[c][n]]] = lists[c][n]
             /\ d.prev[d.next[c]] = c
             /\ \A i \in Indexes : d.list_ind[i + INDEX_SHIFT] = c => i + INDEX_SHIFT \in ToSet(lists[c])
  <2>1. c \in Heads
    BY CellFacts
  <2>2. Enumerates(IndexCells, lists[c], c, on, rank) /\ ToSet(lists[c]) = Members(IndexCells, c, on)
    BY <1>3, <2>1
  <2>3. Doubly(IndexCells, c, d.next, d.prev, on)
    BY DEF Placed
  <2>4. \A x \in IndexCells : d.list_ind[x] = c <=> on[x] = c
    BY CellFacts DEF Placed, Marked
  <2>5. \A n \in DOMAIN lists[c] : lists[c][n] \in Members(IndexCells, c, on)
    BY <2>2 DEF Enumerates
  <2>6. \A x \in Members(IndexCells, c, on) : d.list_ind[x] = c /\ d.prev[d.next[x]] = x
    BY <2>3, <2>4 DEF Doubly, Members
  <2>7. \A i \in Indexes : d.list_ind[i + INDEX_SHIFT] = c => i + INDEX_SHIFT \in Members(IndexCells, c, on)
    BY <2>4, CellFacts DEF Members
  <2>8. d.prev[d.next[c]] = c
    BY <2>3 DEF Doubly
  <2>. QED
    BY <2>2, <2>5, <2>6, <2>7, <2>8
<1>6. \A x \in INDEX_SHIFT..INDEX_SHIFT + Size - 1 : Cardinality(Spots(x)) = 1
  BY <1>4 DEF IndexCells
<1>. QED
  BY <1>5, <1>6 DEF ChainSound, ALLOC_LIST_HEAD, lists
-----------------------------------------------------------------------------
Keys == DOMAIN KHash

CellOf == [busybits : {0, 1}, key : Keys \cup {NoKey}, vals : Int, chns : Nat]

(* A map of n cells; the cells in use have keys. *)
MapOf(m, n) ==
  /\ n \in Nat \ {0}
  /\ m \in [0..n - 1 -> CellOf]
  /\ \A x \in Busy(m) : m[x].key \in Keys

(* Numbers less than n apart have different remainders. *)
LEMMA SameRest ==
  ASSUME NEW n \in Nat \ {0}, NEW a \in Nat, NEW b \in Nat,
         (a % n) = (b % n), a - b < n, b - a < n
  PROVE  a = b
<1>1. PICK q : q = a \div n
  OBVIOUS
<1>2. PICK r : r = b \div n
  OBVIOUS
<1>3. q \in Int /\ r \in Int
  BY <1>1, <1>2
<1>4. a = n * q + (a % n) /\ b = n * r + (b % n) /\ (a % n) \in Int
  BY <1>1, <1>2
<1>5. a - b = n * (q - r)
  BY <1>3, <1>4
<1>6. CASE q - r >= 1
  <2>1. n * (q - r) >= n
    BY <1>3, <1>6
  <2>. QED
    BY <1>5, <2>1
<1>7. CASE q - r <= -1
  <2>1. n * (r - q) >= n
    BY <1>3, <1>7
  <2>2. n * (r - q) = b - a
    BY <1>3, <1>5
  <2>. QED
    BY <2>1, <2>2
<1>8. CASE q = r
  BY <1>4, <1>8
<1>. QED
  BY <1>3, <1>6, <1>7, <1>8

(* The number of cells of a map. *)
LEMMA CapacityIs ==
  ASSUME NEW m, NEW n, MapOf(m, n)
  PROVE  Capacity(m) = n /\ DOMAIN m = 0..n - 1
<1>1. DOMAIN m = 0..n - 1 /\ n \in Nat \ {0}
  BY DEF MapOf
<1>2. Cardinality(0..n - 1) = n
  BY <1>1, FS_Interval
<1>. QED
  BY <1>1, <1>2 DEF Capacity

(* The probes of a key are n different cells. *)
LEMMA ProbeFacts ==
  ASSUME NEW m, NEW n, MapOf(m, n), NEW k \in Keys
  PROVE  /\ \A i \in Nat : Probe(m, k, i) \in 0..n - 1
         /\ \A i, j \in 0..n - 1 : Probe(m, k, i) = Probe(m, k, j) => i = j
<1>1. Capacity(m) = n /\ n \in Nat \ {0} /\ KHash[k] \in Nat
  BY CapacityIs, NfosMapAssumption DEF MapOf, Keys
<1>2. ASSUME NEW i \in Nat PROVE Probe(m, k, i) \in 0..n - 1
  BY <1>1 DEF Probe
<1>3. ASSUME NEW i \in 0..n - 1, NEW j \in 0..n - 1, Probe(m, k, i) = Probe(m, k, j) PROVE i = j
  <2>1. i \in Nat /\ j \in Nat /\ i - j < n /\ j - i < n
    BY <1>1
  <2>2. PICK a \in Nat : a = KHash[k] + i
    BY <1>1, <2>1
  <2>3. PICK b \in Nat : b = KHash[k] + j
    BY <1>1, <2>1
  <2>4. (a % n) = (b % n)
    BY <1>1, <1>3, <2>2, <2>3 DEF Probe
  <2>5. a - b < n /\ b - a < n
    BY <1>1, <2>1, <2>2, <2>3
  <2>6. a = b
    BY <1>1, <2>4, <2>5, SameRest
  <2>. QED
    BY <1>1, <2>1, <2>2, <2>3, <2>6
<1>. QED
  BY <1>2, <1>3
-----------------------------------------------------------------------------
(* The search for k ends with the i-th probe, where it finds the key. *)
FoundAt(m, n, k, i) ==
  /\ i \in 0..n - 1
  /\ Holds(m[Probe(m, k, i)], k)
  /\ \A j \in 0..i - 1 : ~Holds(m[Probe(m, k, j)], k) /\ ~EndOfChain(m[Probe(m, k, j)], k)

NotIn(m, k) == \A x \in Busy(m) : m[x].key # k

Ends(m, n, k) == {i \in 0..n - 1 : Holds(m[Probe(m, k, i)], k) \/ EndOfChain(m[Probe(m, k, i)], k)}

(* Distance without With. *)
LEMMA DistanceIs ==
  ASSUME NEW m, NEW n, MapOf(m, n), NEW k \in Keys, NEW e, e = Min(Ends(m, n, k) \cup {n})
  PROVE  Distance(m, k) = IF e < n /\ Holds(m[Probe(m, k, e)], k) THEN e ELSE n
<1>1. Capacity(m) = n
  BY CapacityIs
<1>2. Distance(m, k) = With(e, LAMBDA i : IF i < Capacity(m) /\ Holds(m[Probe(m, k, i)], k) THEN i ELSE Capacity(m))
  BY <1>1 DEF Distance, Ends
<1>3. PICK d : d = IF e < n /\ Holds(m[Probe(m, k, e)], k) THEN e ELSE n
  OBVIOUS
<1>. DEFINE T == {IF v < Capacity(m) /\ Holds(m[Probe(m, k, v)], k) THEN v ELSE Capacity(m) : v \in {e}}
<1>4. T = {d}
  BY <1>1, <1>3
<1>5. Distance(m, k) = CHOOSE y \in T : TRUE
  BY <1>2 DEF With
<1>. HIDE DEF T
<1>. QED
  BY <1>3, <1>4, <1>5, OnlyChoice

(* The least place where the search can end. *)
LEMMA EndFacts ==
  ASSUME NEW m, NEW n, MapOf(m, n), NEW k \in Keys, NEW e, e = Min(Ends(m, n, k) \cup {n})
  PROVE  /\ e \in 0..n /\ (e < n => e \in Ends(m, n, k))
         /\ \A j \in Ends(m, n, k) : e <= j
<1>. DEFINE T == Ends(m, n, k) \cup {n}
<1>1. n \in Nat /\ Ends(m, n, k) \subseteq 0..n - 1
  BY DEF MapOf, Ends
<1>2. T \in SUBSET Nat /\ T # {}
  BY <1>1
<1>3. e \in T /\ \A y \in T : e <= y
  BY <1>2, MinIsLeast
<1>. QED
  BY <1>1, <1>3

(* What the search returns when it finds the key at distance i. *)
LEMMA FoundDistance ==
  ASSUME NEW m, NEW n, MapOf(m, n), NEW k \in Keys, NEW i, FoundAt(m, n, k, i)
  PROVE  Distance(m, k) = i
<1>1. PICK e : e = Min(Ends(m, n, k) \cup {n})
  OBVIOUS
<1>2. /\ e \in 0..n /\ (e < n => e \in Ends(m, n, k))
      /\ \A j \in Ends(m, n, k) : e <= j
  BY <1>1, EndFacts
<1>3. i \in 0..n - 1 /\ i \in Ends(m, n, k) /\ n \in Nat
  BY DEF FoundAt, Ends, MapOf
<1>4. e = i
  <2>1. e <= i /\ e < n /\ e \in Ends(m, n, k)
    BY <1>2, <1>3
  <2>2. ~(e < i)
    BY <2>1, <1>2, <1>3 DEF FoundAt, Ends
  <2>. QED
    BY <2>1, <2>2, <1>2, <1>3
<1>5. Distance(m, k) = IF e < n /\ Holds(m[Probe(m, k, e)], k) THEN e ELSE n
  BY <1>1, DistanceIs
<1>. QED
  BY <1>3, <1>4, <1>5 DEF FoundAt

(* ... and when the key is not there. *)
LEMMA MissDistance ==
  ASSUME NEW m, NEW n, MapOf(m, n), NEW k \in Keys, NotIn(m, k)
  PROVE  Distance(m, k) = n
<1>1. PICK e : e = Min(Ends(m, n, k) \cup {n})
  OBVIOUS
<1>2. e \in 0..n /\ n \in Nat
  BY <1>1, EndFacts DEF MapOf
<1>3. e < n => Probe(m, k, e) \in DOMAIN m
  BY <1>2, ProbeFacts, CapacityIs
<1>4. e < n => ~Holds(m[Probe(m, k, e)], k)
  BY <1>3 DEF NotIn, Busy, Holds
<1>. QED
  BY <1>1, <1>4, DistanceIs

(* The distance is that of a key that is found, or the capacity. *)
LEMMA DistanceFound ==
  ASSUME NEW m, NEW n, MapOf(m, n), NEW k \in Keys
  PROVE  Distance(m, k) = n \/ FoundAt(m, n, k, Distance(m, k))
<1>1. PICK e : e = Min(Ends(m, n, k) \cup {n})
  OBVIOUS
<1>2. /\ e \in 0..n /\ (e < n => e \in Ends(m, n, k))
      /\ \A j \in Ends(m, n, k) : e <= j
  BY <1>1, EndFacts
<1>3. Distance(m, k) = IF e < n /\ Holds(m[Probe(m, k, e)], k) THEN e ELSE n
  BY <1>1, DistanceIs
<1>4. CASE e < n /\ Holds(m[Probe(m, k, e)], k)
  <2>1. n \in Nat /\ e \in 0..n - 1
    BY <1>2, <1>4 DEF MapOf
  <2>2. ASSUME NEW j \in 0..e - 1 PROVE j \notin Ends(m, n, k) /\ j \in 0..n - 1
    BY <2>1, <1>2
  <2>3. FoundAt(m, n, k, e)
    BY <2>1, <2>2, <1>4 DEF FoundAt, Ends
  <2>. QED
    BY <2>3, <1>3, <1>4
<1>. QED
  BY <1>3, <1>4

(* A cell whose key the search finds there. *)
ReachedAt(m, n, x, i) == FoundAt(m, n, m[x].key, i) /\ Probe(m, m[x].key, i) = x
Reached(m, n, x) == \E i \in 0..n - 1 : ReachedAt(m, n, x, i)

(* The keys whose search passes cell x. *)
Passing(m, x) == {y \in Busy(m) : \E i \in 0..Distance(m, m[y].key) - 1 : Probe(m, m[y].key, i) = x}

(* MapSound says, in these words: *)
LEMMA SoundMeans ==
  ASSUME NEW m, NEW n, MapOf(m, n)
  PROVE  MapSound(m) <=>
           /\ \A x, y \in Busy(m) : m[x].key = m[y].key => x = y
           /\ \A x \in Busy(m) : Reached(m, n, x)
           /\ \A x \in 0..n - 1 : m[x].chns = Cardinality(Passing(m, x))
<1>1. Capacity(m) = n /\ DOMAIN m = 0..n - 1 /\ n \in Nat
  BY CapacityIs DEF MapOf
<1>2. ASSUME NEW x \in Busy(m)
      PROVE  (Distance(m, m[x].key) < Capacity(m) /\ Probe(m, m[x].key, Distance(m, m[x].key)) = x)
               <=> Reached(m, n, x)
  <2>1. m[x].key \in Keys
    BY DEF MapOf
  <2>2. ASSUME Reached(m, n, x)
        PROVE  Distance(m, m[x].key) < Capacity(m) /\ Probe(m, m[x].key, Distance(m, m[x].key)) = x
    <3>1. PICK i \in 0..n - 1 : FoundAt(m, n, m[x].key, i) /\ Probe(m, m[x].key, i) = x
      BY <2>2 DEF Reached, ReachedAt
    <3>2. Distance(m, m[x].key) = i
      BY <2>1, <3>1, FoundDistance
    <3>. QED
      BY <3>1, <3>2, <1>1
  <2>3. ASSUME Distance(m, m[x].key) < Capacity(m), Probe(m, m[x].key, Distance(m, m[x].key)) = x
        PROVE  Reached(m, n, x)
    <3>1. FoundAt(m, n, m[x].key, Distance(m, m[x].key))
      BY <2>1, <2>3, <1>1, DistanceFound
    <3>. QED
      BY <3>1, <2>3 DEF Reached, ReachedAt, FoundAt
  <2>. QED
    BY <2>2, <2>3
<1>. QED
  BY <1>1, <1>2 DEF MapSound, Passing

(* nfos_map_get without With. *)
LEMMA GetIs ==
  ASSUME NEW m, NEW n, MapOf(m, n), NEW k \in Keys
  PROVE  nfos_map_get(m, k) =
           IF Distance(m, k) < n THEN m[Probe(m, k, Distance(m, k))].vals ELSE NoValue
<1>1. Capacity(m) = n
  BY CapacityIs
<1>2. PICK d : d = Distance(m, k)
  OBVIOUS
<1>3. PICK v : v = IF d < n THEN m[Probe(m, k, d)].vals ELSE NoValue
  OBVIOUS
<1>. DEFINE T == {IF i < Capacity(m) THEN m[Probe(m, k, i)].vals ELSE NoValue : i \in {d}}
<1>4. T = {v}
  BY <1>1, <1>3
<1>5. nfos_map_get(m, k) = CHOOSE y \in T : TRUE
  BY <1>2 DEF nfos_map_get, With
<1>. HIDE DEF T
<1>. QED
  BY <1>2, <1>3, <1>4, <1>5, OnlyChoice

(* get finds the value of every key in the map ... *)
LEMMA GetFinds ==
  ASSUME NEW m, NEW n, MapOf(m, n), MapSound(m), NEW x \in Busy(m)
  PROVE  nfos_map_get(m, m[x].key) = m[x].vals
<1>1. Reached(m, n, x) /\ m[x].key \in Keys
  BY SoundMeans DEF MapOf
<1>2. PICK i \in 0..n - 1 : FoundAt(m, n, m[x].key, i) /\ Probe(m, m[x].key, i) = x
  BY <1>1 DEF Reached, ReachedAt
<1>3. Distance(m, m[x].key) = i
  BY <1>1, <1>2, FoundDistance
<1>4. i < n
  BY <1>2 DEF MapOf
<1>. QED
  BY <1>1, <1>2, <1>3, <1>4, GetIs

(* ... and nothing else. *)
LEMMA GetMisses ==
  ASSUME NEW m, NEW n, MapOf(m, n), NEW k \in Keys, NotIn(m, k)
  PROVE  nfos_map_get(m, k) = NoValue
<1>1. Distance(m, k) = n /\ n \in Nat
  BY MissDistance DEF MapOf
<1>. QED
  BY <1>1, GetIs
-----------------------------------------------------------------------------
(* An empty map. *)
LEMMA EmptySound ==
  ASSUME NEW n \in Nat \ {0}, NEW m, m = [x \in 0..n - 1 |-> FreeCell]
  PROVE  MapOf(m, n) /\ MapSound(m) /\ Busy(m) = {}
<1>1. FreeCell \in CellOf
  BY DEF FreeCell, CellOf, NoValue
<1>2. Busy(m) = {}
  BY DEF Busy, FreeCell
<1>3. MapOf(m, n)
  BY <1>1, <1>2 DEF MapOf
<1>4. \A x \in 0..n - 1 : m[x].chns = 0 /\ Passing(m, x) = {}
  BY <1>2 DEF FreeCell, Passing
<1>5. Cardinality({}) = 0
  BY FS_EmptySet
<1>. QED
  BY <1>2, <1>3, <1>4, <1>5, SoundMeans

(* The first cell of the search for k that is not busy. *)
FreeAt(m, n, k, f) ==
  /\ f \in 0..n - 1
  /\ m[Probe(m, k, f)].busybits = 0
  /\ \A j \in 0..f - 1 : m[Probe(m, k, j)].busybits # 0

Passed(m, k, f) == {Probe(m, k, j) : j \in 0..f - 1}

(* put changes this. *)
PutInto(m, n, k, value, f, m2) ==
  /\ MapOf(m2, n)
  /\ \A x \in 0..n - 1 :
       /\ m2[x].chns = m[x].chns + (IF x \in Passed(m, k, f) THEN 1 ELSE 0)
       /\ x # Probe(m, k, f) =>
            m2[x].busybits = m[x].busybits /\ m2[x].key = m[x].key /\ m2[x].vals = m[x].vals
  /\ m2[Probe(m, k, f)].busybits = 1
  /\ m2[Probe(m, k, f)].key = k
  /\ m2[Probe(m, k, f)].vals = value

(* A map that has a free cell has one on the way of every key.             *)
LEMMA PutIs ==
  ASSUME NEW m, NEW n, MapOf(m, n), NEW k \in Keys, NEW value \in Int,
         NEW f, FreeAt(m, n, k, f)
  PROVE  PutInto(m, n, k, value, f, nfos_map_put(m, k, value))
<1>1. Capacity(m) = n /\ DOMAIN m = 0..n - 1 /\ n \in Nat \ {0}
  BY CapacityIs DEF MapOf
<1>. DEFINE free == {i \in 0..n - 1 : m[Probe(m, k, i)].busybits = 0}
<1>2. Min(free) = f /\ free # {}
  <2>1. free \in SUBSET Nat /\ f \in free
    BY DEF FreeAt
  <2>2. Min(free) \in free /\ \A y \in free : Min(free) <= y
    BY <2>1, MinIsLeast
  <2>3. ~(Min(free) < f)
    BY <2>1, <2>2 DEF FreeAt
  <2>. QED
    BY <2>1, <2>2, <2>3
<1>. DEFINE A == [x \in DOMAIN m |-> IF x \in Passed(m, k, f) THEN [m[x] EXCEPT !.chns = @ + 1] ELSE m[x]]
            P == [A EXCEPT ![Probe(m, k, f)] = [@ EXCEPT !.busybits = 1, !.key = k, !.vals = value]]
<1>3. AddToChains(m, k, f, 1) = A
  <2>. DEFINE T == {[x \in DOMAIN m |-> IF x \in p THEN [m[x] EXCEPT !.chns = @ + 1] ELSE m[x]] : p \in {Passed(m, k, f)}}
  <2>1. AddToChains(m, k, f, 1) = CHOOSE y \in T : TRUE
    BY DEF AddToChains, With, Passed
  <2>2. T = {A}
    OBVIOUS
  <2>. HIDE DEF T, A
  <2>. QED
    BY <2>1, <2>2, OnlyChoice
<1>4. nfos_map_put(m, k, value) = P
  <2>. DEFINE F(p) == IF p = {} THEN m
                ELSE [AddToChains(m, k, Min(p), 1) EXCEPT ![Probe(m, k, Min(p))] =
                        [@ EXCEPT !.busybits = 1, !.key = k, !.vals = value]]
              T == {F(p) : p \in {free}}
  <2>1. nfos_map_put(m, k, value) = CHOOSE y \in T : TRUE
    BY <1>1 DEF nfos_map_put, With
  <2>2. F(free) = P
    BY <1>2, <1>3
  <2>3. T = {P}
    <3>. HIDE DEF F, free, P
    <3>. QED
      BY <2>2
  <2>. HIDE DEF T, P
  <2>. QED
    BY <2>1, <2>3, OnlyChoice
<1>5. ASSUME NEW x \in 0..n - 1
      PROVE  /\ m[x] \in CellOf
             /\ A[x] \in CellOf /\ A[x].busybits = m[x].busybits /\ A[x].key = m[x].key /\ A[x].vals = m[x].vals
             /\ A[x].chns = m[x].chns + (IF x \in Passed(m, k, f) THEN 1 ELSE 0)
  <2>1. m[x] \in CellOf
    BY DEF MapOf
  <2>. QED
    BY <1>1, <2>1 DEF CellOf
<1>6. Probe(m, k, f) \in 0..n - 1
  BY ProbeFacts DEF FreeAt
<1>7. Probe(m, k, f) \notin Passed(m, k, f)
  BY DEF Passed, FreeAt
<1>8. PICK y : y = Probe(m, k, f)
  OBVIOUS
<1>. DEFINE c == [A[y] EXCEPT !.busybits = 1, !.key = k, !.vals = value]
<1>9. /\ c \in CellOf /\ c.chns = m[y].chns /\ c.busybits = 1 /\ c.key = k /\ c.vals = value
  <2>1. A[y] \in CellOf /\ A[y].chns = m[y].chns /\ A[y].chns \in Nat
    BY <1>5, <1>6, <1>7, <1>8 DEF CellOf, MapOf
  <2>. HIDE DEF A
  <2>. QED
    BY <2>1 DEF CellOf
<1>10. P = [A EXCEPT ![y] = c] /\ DOMAIN A = 0..n - 1
  BY <1>1, <1>8
<1>. HIDE DEF A, c, P
<1>11. ASSUME NEW x \in 0..n - 1 PROVE P[x] = IF x = y THEN c ELSE A[x]
  BY <1>10
<1>12. P \in [0..n - 1 -> CellOf]
  <2>1. DOMAIN P = 0..n - 1 /\ P = [x \in 0..n - 1 |-> P[x]]
    BY <1>10
  <2>2. \A x \in 0..n - 1 : P[x] \in CellOf
    BY <1>5, <1>9, <1>11
  <2>. QED
    BY <2>1, <2>2
<1>13. MapOf(P, n)
  <2>1. ASSUME NEW x \in Busy(P) PROVE P[x].key \in Keys
    <3>1. x \in 0..n - 1 /\ P[x].busybits # 0
      BY <1>12 DEF Busy
    <3>2. CASE x = y
      BY <3>1, <3>2, <1>11, <1>9
    <3>3. CASE x # y
      <4>1. P[x] = A[x] /\ m[x].busybits # 0 /\ P[x].key = m[x].key
        BY <3>1, <3>3, <1>11, <1>5
      <4>. QED
        BY <4>1, <3>1, <1>1 DEF MapOf, Busy
    <3>. QED
      BY <3>2, <3>3
  <2>. QED
    BY <2>1, <1>12, <1>1 DEF MapOf
<1>14. ASSUME NEW x \in 0..n - 1
       PROVE  /\ P[x].chns = m[x].chns + (IF x \in Passed(m, k, f) THEN 1 ELSE 0)
              /\ x # y => P[x].busybits = m[x].busybits /\ P[x].key = m[x].key /\ P[x].vals = m[x].vals
  <2>1. CASE x = y
    BY <2>1, <1>11, <1>9, <1>7, <1>8, <1>5 DEF CellOf
  <2>2. CASE x # y
    BY <2>2, <1>11, <1>5
  <2>. QED
    BY <2>1, <2>2
<1>15. P[y].busybits = 1 /\ P[y].key = k /\ P[y].vals = value
  BY <1>6, <1>8, <1>11, <1>9
<1>. QED
  BY <1>4, <1>8, <1>13, <1>14, <1>15 DEF PutInto

(* The remainder of a sum of multiples. *)
LEMMA RestOf ==
  ASSUME NEW n \in Nat \ {0}, NEW q \in Nat, NEW x \in 0..n - 1
  PROVE  ((n * q + x) % n) = x
<1>1. PICK a \in Nat : a = n * q + x
  OBVIOUS
<1>2. PICK d : d = a \div n
  OBVIOUS
<1>3. d \in Int /\ a = n * d + (a % n) /\ (a % n) \in 0..n - 1
  BY <1>1, <1>2
<1>4. n * (q - d) = (a % n) - x
  BY <1>1, <1>3
<1>5. CASE q - d >= 1
  <2>1. n * (q - d) >= n
    BY <1>3, <1>5
  <2>. QED
    BY <1>3, <1>4, <2>1
<1>6. CASE q - d <= -1
  <2>1. n * (q - d) <= -n
    BY <1>3, <1>6
  <2>. QED
    BY <1>3, <1>4, <2>1
<1>7. CASE q = d
  BY <1>1, <1>3, <1>7
<1>. QED
  BY <1>3, <1>5, <1>6, <1>7

(* The search for a key comes by every cell. *)
LEMMA ProbeReaches ==
  ASSUME NEW m, NEW n, MapOf(m, n), NEW k \in Keys, NEW x \in 0..n - 1
  PROVE  \E i \in 0..n - 1 : Probe(m, k, i) = x
<1>1. Capacity(m) = n /\ n \in Nat \ {0} /\ KHash[k] \in Nat
  BY CapacityIs, NfosMapAssumption DEF MapOf, Keys
<1>2. PICK q : q = KHash[k] \div n
  OBVIOUS
<1>3. PICK h : h = (KHash[k] % n)
  OBVIOUS
<1>4. q \in Nat /\ h \in 0..n - 1 /\ KHash[k] = n * q + h
  BY <1>1, <1>2, <1>3
<1>5. CASE x >= h
  <2>1. x - h \in 0..n - 1 /\ KHash[k] + (x - h) = n * q + x
    BY <1>1, <1>4, <1>5
  <2>2. ((n * q + x) % n) = x
    BY <1>1, <1>4, RestOf
  <2>3. Probe(m, k, x - h) = x
    BY <2>1, <2>2, <1>1 DEF Probe
  <2>. QED
    BY <2>1, <2>3
<1>6. CASE x < h
  <2>1. x - h + n \in 0..n - 1 /\ KHash[k] + (x - h + n) = n * (q + 1) + x
    BY <1>1, <1>4, <1>6
  <2>2. ((n * (q + 1) + x) % n) = x
    <3>1. q + 1 \in Nat
      BY <1>4
    <3>. QED
      BY <1>1, <3>1, RestOf
  <2>3. Probe(m, k, x - h + n) = x
    BY <2>1, <2>2, <1>1 DEF Probe
  <2>. QED
    BY <2>1, <2>3
<1>. QED
  BY <1>1, <1>4, <1>5, <1>6

(* put finds a cell unless all are busy. *)
LEMMA FreeExists ==
  ASSUME NEW m, NEW n, MapOf(m, n), NEW k \in Keys, NEW x \in 0..n - 1, x \notin Busy(m)
  PROVE  \E f : FreeAt(m, n, k, f)
<1>1. n \in Nat /\ DOMAIN m = 0..n - 1
  BY DEF MapOf
<1>2. PICK i \in 0..n - 1 : Probe(m, k, i) = x
  BY ProbeReaches
<1>. DEFINE T == {j \in 0..n - 1 : m[Probe(m, k, j)].busybits = 0}
<1>3. i \in T /\ T \in SUBSET Nat
  BY <1>1, <1>2 DEF Busy
<1>4. PICK f \in T : \A y \in T : f <= y
  BY <1>3, Least
<1>5. ASSUME NEW j \in 0..f - 1 PROVE m[Probe(m, k, j)].busybits # 0
  <2>1. j \in 0..n - 1 /\ ~(f <= j)
    BY <1>1, <1>4
  <2>. QED
    BY <2>1, <1>4
<1>6. FreeAt(m, n, k, f)
  BY <1>4, <1>5 DEF FreeAt
<1>. QED
  BY <1>6

(* Probes depend on the size of the map only. *)
LEMMA SameProbe ==
  ASSUME NEW m, NEW n, MapOf(m, n), NEW m2, MapOf(m2, n), NEW k, NEW i
  PROVE  Probe(m2, k, i) = Probe(m, k, i)
  BY CapacityIs DEF Probe

(* What put leaves in use. *)
LEMMA PutBusy ==
  ASSUME NEW m, NEW n, MapOf(m, n), NEW k \in Keys, NEW value, NEW f, FreeAt(m, n, k, f),
         NEW m2, PutInto(m, n, k, value, f, m2)
  PROVE  /\ Probe(m, k, f) \in 0..n - 1
         /\ Busy(m2) = Busy(m) \cup {Probe(m, k, f)}
         /\ Probe(m, k, f) \notin Busy(m)
<1>1. Probe(m, k, f) \in 0..n - 1
  BY ProbeFacts DEF FreeAt
<1>2. DOMAIN m = 0..n - 1 /\ DOMAIN m2 = 0..n - 1
  BY DEF PutInto, MapOf
<1>. QED
  BY <1>1, <1>2 DEF Busy, PutInto, FreeAt

(* put keeps the searches of the other keys. *)
LEMMA PutKeeps ==
  ASSUME NEW m, NEW n, MapOf(m, n), NEW k \in Keys, NEW value, NEW f, FreeAt(m, n, k, f),
         NEW m2, PutInto(m, n, k, value, f, m2),
         NEW x \in Busy(m), m[x].key # k, NEW i, ReachedAt(m, n, x, i)
  PROVE  m2[x].key = m[x].key /\ ReachedAt(m2, n, x, i)
<1>. USE DEF ReachedAt
<1>. DEFINE c == Probe(m, k, f)
<1>1. c \in 0..n - 1 /\ x # c /\ DOMAIN m = 0..n - 1
  BY PutBusy, CapacityIs
<1>2. x \in 0..n - 1 /\ MapOf(m2, n) /\ m[x].busybits # 0
  BY <1>1 DEF PutInto, Busy
<1>3. m2[x].key = m[x].key /\ m2[x].busybits = m[x].busybits
  BY <1>1, <1>2 DEF PutInto
<1>4. PICK kx : kx = m[x].key
  OBVIOUS
<1>5. kx \in Keys /\ kx # k
  BY <1>4 DEF MapOf
<1>6. ASSUME NEW j PROVE Probe(m2, kx, j) = Probe(m, kx, j)
  BY <1>2, SameProbe
<1>7. i \in 0..n - 1 /\ Holds(m2[Probe(m2, kx, i)], kx)
  BY <1>2, <1>3, <1>4, <1>6 DEF FoundAt, Holds
<1>8. ASSUME NEW j \in 0..i - 1
      PROVE  ~Holds(m2[Probe(m2, kx, j)], kx) /\ ~EndOfChain(m2[Probe(m2, kx, j)], kx)
  <2>1. PICK y : y = Probe(m, kx, j)
    OBVIOUS
  <2>2. j \in Nat /\ y \in 0..n - 1
    BY <2>1, <1>5, <1>7, ProbeFacts
  <2>3. ~Holds(m[y], kx) /\ ~EndOfChain(m[y], kx)
    BY <2>1, <1>4 DEF FoundAt
  <2>4. m[y].chns \in Nat /\ m2[y].chns >= m[y].chns /\ m2[y].chns \in Nat
    <3>1. m[y] \in CellOf /\ m2[y] \in CellOf
      BY <2>2, <1>2 DEF MapOf
    <3>2. m2[y].chns = m[y].chns + (IF y \in Passed(m, k, f) THEN 1 ELSE 0)
      BY <2>2 DEF PutInto
    <3>. QED
      BY <3>1, <3>2 DEF CellOf
  <2>5. CASE y = c
    <3>1. m2[y].key = k /\ m[y].busybits = 0
      BY <2>5 DEF PutInto, FreeAt
    <3>2. m2[y].chns # 0
      BY <2>3, <2>4, <3>1 DEF EndOfChain, SameHash
    <3>. QED
      BY <3>1, <3>2, <2>1, <1>5, <1>6 DEF Holds, EndOfChain
  <2>6. CASE y # c
    <3>1. m2[y].key = m[y].key /\ m2[y].busybits = m[y].busybits
      BY <2>2, <2>6 DEF PutInto
    <3>. QED
      BY <3>1, <2>1, <2>3, <2>4, <1>6 DEF Holds, EndOfChain, SameHash
  <2>. QED
    BY <2>5, <2>6
<1>. QED
  BY <1>3, <1>4, <1>6, <1>7, <1>8 DEF FoundAt

(* put makes the new key one that is found. *)
LEMMA PutFound ==
  ASSUME NEW m, NEW n, MapOf(m, n), NEW k \in Keys, NEW value, NEW f, FreeAt(m, n, k, f), NotIn(m, k),
         NEW m2, PutInto(m, n, k, value, f, m2)
  PROVE  FoundAt(m2, n, k, f)
<1>1. MapOf(m2, n) /\ f \in 0..n - 1
  BY DEF PutInto, FreeAt
<1>2. ASSUME NEW j PROVE Probe(m2, k, j) = Probe(m, k, j)
  BY <1>1, SameProbe
<1>3. Holds(m2[Probe(m2, k, f)], k)
  BY <1>2 DEF PutInto, Holds
<1>4. ASSUME NEW j \in 0..f - 1
      PROVE  ~Holds(m2[Probe(m2, k, j)], k) /\ ~EndOfChain(m2[Probe(m2, k, j)], k)
  <2>1. PICK y : y = Probe(m, k, j)
    OBVIOUS
  <2>2. j \in Nat /\ y \in 0..n - 1 /\ y \in Passed(m, k, f)
    BY <2>1, <1>1, ProbeFacts DEF Passed
  <2>3. m[y].busybits # 0 /\ m[Probe(m, k, f)].busybits = 0
    BY <2>1 DEF FreeAt
  <2>4. m2[y].key = m[y].key /\ m2[y].chns = m[y].chns + 1
    BY <2>2, <2>3 DEF PutInto
  <2>5. m[y].key # k /\ m[y].chns \in Nat
    BY <2>2, <2>3 DEF NotIn, Busy, MapOf, CellOf
  <2>. QED
    BY <2>1, <2>4, <2>5, <1>2 DEF Holds, EndOfChain
<1>. QED
  BY <1>1, <1>3, <1>4 DEF FoundAt

(* Sets of cells are finite. *)
LEMMA PassingFinite ==
  ASSUME NEW m, NEW n, MapOf(m, n), NEW x
  PROVE  IsFiniteSet(Passing(m, x)) /\ IsFiniteSet(Busy(m))
<1>1. Passing(m, x) \subseteq 0..n - 1 /\ Busy(m) \subseteq 0..n - 1 /\ n \in Nat
  BY CapacityIs DEF Passing, Busy, MapOf
<1>2. IsFiniteSet(0..n - 1)
  BY <1>1, FS_Interval
<1>. QED
  BY <1>1, <1>2, FS_Subset

(* put of a key that is not in the map keeps it sound. *)
LEMMA PutSound ==
  ASSUME NEW m, NEW n, MapOf(m, n), MapSound(m), NEW k \in Keys, NEW value, NEW f, FreeAt(m, n, k, f), NotIn(m, k),
         NEW m2, PutInto(m, n, k, value, f, m2)
  PROVE  MapSound(m2)
<1>. DEFINE c == Probe(m, k, f)
<1>1. MapOf(m2, n) /\ DOMAIN m = 0..n - 1 /\ n \in Nat
  BY CapacityIs DEF PutInto, MapOf
<1>2. c \in 0..n - 1 /\ Busy(m2) = Busy(m) \cup {c} /\ c \notin Busy(m) /\ m2[c].key = k
  <2>1. m2[c].key = k
    BY DEF PutInto
  <2>. QED
    BY <2>1, PutBusy
<1>3. /\ \A x, y \in Busy(m) : m[x].key = m[y].key => x = y
      /\ \A x \in Busy(m) : Reached(m, n, x)
      /\ \A x \in 0..n - 1 : m[x].chns = Cardinality(Passing(m, x))
  BY SoundMeans
<1>4. ASSUME NEW x \in Busy(m)
      PROVE  x \in 0..n - 1 /\ m2[x].key = m[x].key /\ m[x].key # k /\ m[x].key \in Keys
  BY <1>1, <1>2 DEF PutInto, NotIn, Busy, MapOf
<1>5. \A x, y \in Busy(m2) : m2[x].key = m2[y].key => x = y
  BY <1>2, <1>3, <1>4
<1>6. ASSUME NEW x \in Busy(m)
      PROVE  Reached(m2, n, x) /\ Distance(m2, m2[x].key) = Distance(m, m[x].key)
  <2>1. Reached(m, n, x) /\ m[x].key # k /\ m2[x].key = m[x].key /\ m[x].key \in Keys
    BY <1>3, <1>4
  <2>2. PICK i \in 0..n - 1 : ReachedAt(m, n, x, i)
    BY <2>1 DEF Reached
  <2>3. ReachedAt(m2, n, x, i)
    BY <2>1, <2>2, PutKeeps
  <2>4. Distance(m, m[x].key) = i
    BY <2>1, <2>2, FoundDistance DEF ReachedAt
  <2>5. Distance(m2, m2[x].key) = i
    BY <2>1, <2>3, <1>1, FoundDistance DEF ReachedAt
  <2>. QED
    BY <2>2, <2>3, <2>4, <2>5 DEF Reached
<1>7. FoundAt(m2, n, k, f) /\ f \in 0..n - 1
  BY PutFound DEF FreeAt
<1>8. Reached(m2, n, c) /\ Distance(m2, m2[c].key) = f
  <2>1. Probe(m2, k, f) = c
    BY <1>1, SameProbe
  <2>. QED
    BY <2>1, <1>1, <1>2, <1>7, FoundDistance DEF Reached, ReachedAt
<1>9. ASSUME NEW x \in 0..n - 1 PROVE m2[x].chns = Cardinality(Passing(m2, x))
  <2>1. ASSUME NEW y \in Busy(m) PROVE y \in Passing(m2, x) <=> y \in Passing(m, x)
    <3>1. m2[y].key = m[y].key /\ Distance(m2, m2[y].key) = Distance(m, m[y].key) /\ y \in Busy(m2)
      BY <1>2, <1>4, <1>6
    <3>2. ASSUME NEW i PROVE Probe(m2, m2[y].key, i) = Probe(m, m[y].key, i)
      BY <3>1, <1>1, SameProbe
    <3>. QED
      BY <3>1, <3>2 DEF Passing
  <2>2. c \in Passing(m2, x) <=> x \in Passed(m, k, f)
    <3>1. ASSUME NEW i PROVE Probe(m2, m2[c].key, i) = Probe(m, k, i)
      BY <1>1, <1>2, SameProbe
    <3>. QED
      BY <3>1, <1>2, <1>8 DEF Passing, Passed
  <2>3. Passing(m2, x) \subseteq Busy(m) \cup {c} /\ Passing(m, x) \subseteq Busy(m)
    BY <1>2 DEF Passing
  <2>4. m2[x].chns = m[x].chns + (IF x \in Passed(m, k, f) THEN 1 ELSE 0)
    BY DEF PutInto
  <2>5. IsFiniteSet(Passing(m, x)) /\ m[x].chns = Cardinality(Passing(m, x)) /\ m[x].chns \in Nat
    <3>1. m[x] \in CellOf
      BY DEF MapOf
    <3>. QED
      BY <3>1, <1>3, PassingFinite DEF CellOf
  <2>6. CASE x \in Passed(m, k, f)
    <3>1. Passing(m2, x) = Passing(m, x) \cup {c} /\ c \notin Passing(m, x)
      BY <2>1, <2>2, <2>3, <2>6, <1>2
    <3>2. Cardinality(Passing(m, x) \cup {c}) = Cardinality(Passing(m, x)) + 1
      BY <3>1, <2>5, FS_AddElement
    <3>. QED
      BY <3>1, <3>2, <2>4, <2>5, <2>6
  <2>7. CASE x \notin Passed(m, k, f)
    <3>1. Passing(m2, x) = Passing(m, x)
      BY <2>1, <2>2, <2>3, <2>7
    <3>. QED
      BY <3>1, <2>4, <2>5, <2>7
  <2>. QED
    BY <2>6, <2>7
<1>10. \A x \in Busy(m2) : Reached(m2, n, x)
  BY <1>2, <1>6, <1>8
<1>. QED
  BY <1>1, <1>5, <1>9, <1>10, SoundMeans

(* What put of a new key adds to a map. *)
NewEntry(m, n, k, value, m2, c) ==
  /\ MapOf(m2, n) /\ MapSound(m2)
  /\ c \in 0..n - 1 /\ c \notin Busy(m) /\ Busy(m2) = Busy(m) \cup {c}
  /\ m2[c].key = k /\ m2[c].vals = value
  /\ \A x \in Busy(m) : m2[x].key = m[x].key /\ m2[x].vals = m[x].vals

(* put of a new key, when not all cells are busy. *)
LEMMA PutNew ==
  ASSUME NEW m, NEW n, MapOf(m, n), MapSound(m), NEW k \in Keys, NEW value \in Int, NotIn(m, k),
         \E x \in 0..n - 1 : x \notin Busy(m)
  PROVE  \E c : NewEntry(m, n, k, value, nfos_map_put(m, k, value), c)
<1>. PICK m2 : m2 = nfos_map_put(m, k, value)
  OBVIOUS
<1>1. PICK f : FreeAt(m, n, k, f)
  BY FreeExists
<1>2. PutInto(m, n, k, value, f, m2)
  BY <1>1, PutIs
<1>3. MapSound(m2)
  BY <1>1, <1>2, PutSound
<1>. PICK c : c = Probe(m, k, f)
  OBVIOUS
<1>4. c \in 0..n - 1 /\ Busy(m2) = Busy(m) \cup {c} /\ c \notin Busy(m)
  BY <1>1, <1>2, PutBusy
<1>5. \A x \in Busy(m) : x \in 0..n - 1 /\ x # c
  BY <1>4 DEF Busy, MapOf
<1>6. NewEntry(m, n, k, value, m2, c)
  BY <1>2, <1>3, <1>4, <1>5 DEF NewEntry, PutInto
<1>. QED
  BY <1>6

PowEq(g, v) == g = [i \in 0..v |-> IF i = 0 THEN 1 ELSE 2 * g[i - 1]]

(* The capacity of a map is at least what was asked for. *)
LEMMA NextPow2 ==
  ASSUME NEW v \in Nat
  PROVE  next_pow2(v) \in Nat \ {0} /\ next_pow2(v) >= v
<1>. DEFINE twice == [q \in Nat |-> 2 * q]
            step == [i \in 1..v |-> twice]
            pow == CHOOSE g : PowEq(g, v)
            T == {p \in {pow[i] : i \in 0..v} : p >= v}
<1>1. twice \in [Nat -> Nat] /\ \A i \in 1..v : step[i] = twice
  OBVIOUS
<1>2. step \in Steps(v, Nat)
  <2>. HIDE DEF twice
  <2>. QED
    BY <1>1 DEF Steps
<1>. HIDE DEF step
<1>3. PICK f : Computes(f, v, Nat, 1, step)
  BY <1>2, Recursion
<1>4. f \in [0..v -> Nat] /\ f[0] = 1 /\ \A i \in 1..v : f[i] = twice[f[i - 1]]
  BY <1>1, <1>3 DEF Computes
<1>5. ASSUME NEW i \in 1..v PROVE i - 1 \in 0..v /\ f[i] = 2 * f[i - 1]
  <2>1. i - 1 \in 0..v /\ f[i - 1] \in Nat
    BY <1>4
  <2>2. f[i] = twice[f[i - 1]]
    BY <1>4
  <2>. QED
    BY <2>1, <2>2
<1>6. PowEq(f, v)
  <2>1. \A i \in 0..v : f[i] = IF i = 0 THEN 1 ELSE 2 * f[i - 1]
    BY <1>4, <1>5
  <2>. QED
    BY <1>4, <2>1 DEF PowEq
<1>7. PowEq(pow, v)
  BY <1>6
<1>8. next_pow2(v) = Min(T)
  BY DEF next_pow2, PowEq
<1>. HIDE DEF pow
<1>9. \A i \in 0..v : pow[i] = IF i = 0 THEN 1 ELSE 2 * pow[i - 1]
  BY <1>7 DEF PowEq
<1>10. \A i \in 0..v : i \in {j \in 0..v : pow[j] \in Nat /\ pow[j] > j}
  <2>. DEFINE U == {j \in 0..v : pow[j] \in Nat /\ pow[j] > j}
  <2>1. 0 \in U
    BY <1>9
  <2>2. ASSUME NEW i \in 0..v - 1, i \in U PROVE i + 1 \in U
    <3>1. i + 1 \in 0..v /\ (i + 1) - 1 = i /\ i + 1 # 0 /\ pow[i] \in Nat /\ pow[i] > i
      BY <2>2
    <3>2. pow[i + 1] = 2 * pow[i]
      BY <1>9, <3>1
    <3>. QED
      BY <3>1, <3>2
  <2>. HIDE DEF U
  <2>3. \A i \in 0..v - 1 : i \in U => i + 1 \in U
    BY <2>2
  <2>4. \A i \in 0..v : i \in U
    BY <2>1, <2>3, Induction
  <2>. QED
    BY <2>4 DEF U
<1>11. T \in SUBSET Nat /\ pow[v] \in T /\ \A p \in T : p > 0
  <2>1. \A i \in 0..v : pow[i] \in Nat /\ pow[i] > i
    BY <1>10
  <2>2. v \in 0..v
    OBVIOUS
  <2>. QED
    BY <2>1, <2>2
<1>12. Min(T) \in T
  <2>. HIDE DEF T
  <2>. QED
    BY <1>11, MinIsLeast
<1>. QED
  BY <1>8, <1>11, <1>12
=============================================================================
