-------------------------- MODULE ExpiringNfProofs --------------------------
(***************************************************************************)
(* The bridge and the load balancer, for any number of cores, indexes,     *)
(* stations, backends, flows and buckets.  Both keep a table that expires, *)
(* and most of what is proved is about that table; the theorems on the     *)
(* bridge use BridgeAssumption and those on the load balancer              *)
(* MaglevAssumption, and none uses both.                                   *)
(*                                                                         *)
(* A heap is a labelled chain (TransactionalProofs) in which the times of  *)
(* the cells of an allocated list are sorted up to the lag of the clocks,  *)
(* and none is after the latest time that a core can have given (HeapInv). *)
(* Renewing moves a cell to the end of its list, with a time that is       *)
(* within the lag of all others.  A table is a heap and a map that leads   *)
(* from the key of every allocated index to it, and from nothing else      *)
(* (TableInv).                                                             *)
(*                                                                         *)
(* A pass of the periodic handler is a loop, and ExpireAll its state after *)
(* Size + NumCores steps.  Every step frees the oldest index of a list or  *)
(* leaves the list behind, so these steps are enough (PassProgress); a     *)
(* list that is left behind holds nothing that is overdue by more than the *)
(* lag, because its times are sorted, and nobody joins it within the       *)
(* transaction.  What a pass leaves keeps its entry, its list and its time *)
(* (ExpireAllDoes).                                                        *)
(*                                                                         *)
(* The bridge: with TableInv, an index has a device, and a station was     *)
(* last seen at most REFRESH_INTERVAL after the time of its entry          *)
(* (BridgeInv).  The table is therefore sound (BridgeTable), a pass leaves *)
(* nothing overdue (BridgePass), and the bridge implements MacTable        *)
(* (BridgeIsMacTable): the entries that a pass leaves are those that       *)
(* MacTable keeps, and a station that is removed was quiet for longer than *)
(* the comment on the refresh says.                                        *)
(*                                                                         *)
(* The load balancer: nfos_cht_fill_cht gives every backend a place on the *)
(* list of every bucket (BucketsListAll), because the multiples of a       *)
(* number below a prime height have different rests.  With TableInv,       *)
(* whoever served a flow is alive and is still the backend of the flow     *)
(* (MaglevInv): an index is not given to another backend while a flow that *)
(* it served is marked as served.                                          *)
(***************************************************************************)
EXTENDS Bridge, Maglev, TransactionalProofs
-----------------------------------------------------------------------------
(* Moving cells between the lists of a chain.                              *)

(* The fields of a chain after a cell is taken off its list. *)
LEMMA UnlinkIs ==
  ASSUME NEW a, NEW b, NEW l, NEW x, NEW d, d = ChainOf(a, b, l)
  PROVE  Unlink(d, x) = ChainOf([a EXCEPT ![b[x]] = a[x]], [b EXCEPT ![a[x]] = b[x]], l)
<1>0. d.next = a /\ d.prev = b
  BY DEF ChainOf
<1>. PICK e, f : e = [a EXCEPT ![b[x]] = a[x]] /\ f = [b EXCEPT ![a[x]] = b[x]]
  OBVIOUS
<1>. PICK d1 : d1 = [d EXCEPT !.next[b[x]] = a[x]]
  OBVIOUS
<1>1. d1 = ChainOf(e, b, l)
  BY <1>0 DEF ChainOf
<1>2. d1.prev = b
  BY <1>1 DEF ChainOf
<1>3. Unlink(d, x) = [d1 EXCEPT !.prev = f]
  BY <1>0, <1>2 DEF Unlink
<1>. QED
  BY <1>1, <1>3 DEF ChainOf

(* Cell x is off its list, with the links nx and pv. *)
Detached(d, x, nx, pv) ==
  nx \in Links(Cells) /\ pv \in Links(Cells) /\ RemoveLinks(d.next, d.prev, nx, pv, x)

(* They are those of Unlink. *)
LEMMA UnlinkDetaches ==
  ASSUME NEW d \in Chains, NEW x \in IndexCells
  PROVE  \E nx, pv : Detached(d, x, nx, pv) /\ Unlink(d, x) = ChainOf(nx, pv, d.list_ind)
<1>. PICK a, b, l : a = d.next /\ b = d.prev /\ l = d.list_ind
  OBVIOUS
<1>1. d = ChainOf(a, b, l) /\ a \in Links(Cells) /\ b \in Links(Cells)
  BY DEF Chains, ChainOf
<1>2. a \in [Cells -> Cells] /\ b \in [Cells -> Cells] /\ x \in Cells
  BY <1>1, CellFacts DEF Links
<1>. PICK nx, pv : nx = [a EXCEPT ![b[x]] = a[x]] /\ pv = [b EXCEPT ![a[x]] = b[x]]
  OBVIOUS
<1>3. nx \in Links(Cells) /\ pv \in Links(Cells)
  BY <1>2 DEF Links
<1>4. Unlink(d, x) = ChainOf(nx, pv, l)
  BY <1>1, UnlinkIs
<1>5. Detached(d, x, nx, pv)
  BY <1>3 DEF Detached, RemoveLinks
<1>. QED
  BY <1>4, <1>5

(* Other lists than that of x keep their links. *)
LEMMA DetachedElsewhere ==
  ASSUME NEW d \in Chains, NEW on, NEW rank, Placed(d, on, rank), NEW c \in Cores, NEW x \in IndexCells, on[x] = c,
         NEW nx, NEW pv, Detached(d, x, nx, pv)
  PROVE  \A y \in Cells : y # c /\ y \notin Members(IndexCells, c, on) => nx[y] = d.next[y] /\ pv[y] = d.prev[y]
<1>1. d.next \in [Cells -> Cells] /\ d.prev \in [Cells -> Cells]
  BY DEF Chains, Links
<1>2. c \in Heads /\ x \in Members(IndexCells, c, on)
  BY CellFacts DEF Members
<1>3. List(IndexCells, c, d.next, on, rank) /\ Doubly(IndexCells, c, d.next, d.prev, on)
  BY <1>2 DEF Placed
<1>4. d.next[x] \in Members(IndexCells, c, on) \cup {c} /\ d.prev[x] \in Members(IndexCells, c, on) \cup {c}
  BY <1>2, <1>3 DEF List, Leads, Doubly
<1>. QED
  BY <1>1, <1>4 DEF Detached, RemoveLinks

Rest(nx, pv, on, on2, rank, x, c) ==
  /\ Members(IndexCells, c, on2) = Members(IndexCells, c, on) \ {x}
  /\ List(IndexCells, c, nx, on2, rank) /\ Doubly(IndexCells, c, nx, pv, on2)

(* The rest of the list is one, with labels that put x elsewhere. *)
LEMMA DetachedList ==
  ASSUME NEW d \in Chains, NEW on, NEW rank, Placed(d, on, rank), NEW c \in Cores, NEW x \in IndexCells, on[x] = c,
         NEW nx, NEW pv, Detached(d, x, nx, pv), NEW p, p # c, NEW on2, Relabels(IndexCells, on, on2, x, p)
  PROVE  Rest(nx, pv, on, on2, rank, x, c)
<1>1. Members(IndexCells, c, on2) = Members(IndexCells, c, on) \ {x}
  BY MembersMove
<1>2. c \in Heads /\ x \in Members(IndexCells, c, on)
  BY CellFacts DEF Members
<1>3. List(IndexCells, c, d.next, on, rank) /\ Doubly(IndexCells, c, d.next, d.prev, on)
  BY <1>2 DEF Placed
<1>4. /\ d.next \in Links(Cells) /\ d.prev \in Links(Cells) /\ on \in Labels(IndexCells) /\ rank \in Labels(IndexCells)
      /\ on2 \in Labels(IndexCells) /\ nx \in Links(Cells) /\ pv \in Links(Cells)
  BY DEF Chains, Placed, Relabels, Detached
<1>5. RemoveLinks(d.next, d.prev, nx, pv, x)
  BY DEF Detached
<1>6. c \in Cells \ IndexCells /\ IndexCells \in SUBSET Cells
  BY <1>2, HeadOfList
<1>. QED
  BY <1>1, <1>2, <1>3, <1>4, <1>5, <1>6, ListRemove DEF Rest
-----------------------------------------------------------------------------
Renewed(d, x, c) == With(Unlink(d, x), LAMBDA u : AppendTo(u, c, x))

(* What renewing does to the links. *)
LEMMA RenewedIs ==
  ASSUME NEW d \in Chains, NEW c \in Cores, NEW x \in IndexCells, d.list_ind[x] = c
  PROVE  /\ Renewed(d, x, c) \in Chains /\ Renewed(d, x, c).list_ind = d.list_ind
         /\ \E nx, pv : Detached(d, x, nx, pv) /\ AppendLinks(c, nx, pv, Renewed(d, x, c).next, Renewed(d, x, c).prev, x)
<1>. DEFINE u == Unlink(d, x)
            F(q) == AppendTo(q, c, x)
            T == {F(q) : q \in {u}}
<1>1. x \in Cells /\ c \in Cells
  BY CellFacts
<1>2. Renewed(d, x, c) = F(u)
  <2>1. Renewed(d, x, c) = CHOOSE y \in T : TRUE
    BY DEF Renewed, With
  <2>2. T = {F(u)}
    <3>. HIDE DEF F, u
    <3>. QED
      OBVIOUS
  <2>. HIDE DEF F, u, T
  <2>. PICK e : e = F(u)
    OBVIOUS
  <2>. QED
    BY <2>1, <2>2, OnlyChoice
<1>3. PICK nx, pv : Detached(d, x, nx, pv) /\ u = ChainOf(nx, pv, d.list_ind)
  BY UnlinkDetaches
<1>. PICK l : l = d.list_ind
  OBVIOUS
<1>. HIDE DEF u
<1>4. F(u) = ChainOf([nx EXCEPT ![x] = c, ![pv[c]] = x], [pv EXCEPT ![x] = pv[c], ![c] = x], [l EXCEPT ![x] = c])
  BY <1>3, AppendToIs
<1>5. PICK d2 : d2 = F(u)
  OBVIOUS
<1>. HIDE DEF F
<1>6. nx \in [Cells -> Cells] /\ pv \in [Cells -> Cells] /\ l \in [Cells -> Cores \cup {-1}]
  BY <1>3 DEF Detached, Links, Chains
<1>7. [l EXCEPT ![x] = c] = l
  BY <1>1, <1>6
<1>8. /\ d2.next = [nx EXCEPT ![x] = c, ![pv[c]] = x] /\ d2.prev = [pv EXCEPT ![x] = pv[c], ![c] = x]
      /\ d2.list_ind = l /\ d2 = [next |-> d2.next, prev |-> d2.prev, list_ind |-> d2.list_ind]
  BY <1>4, <1>5, <1>7 DEF ChainOf
<1>9. d2.next \in Links(Cells) /\ d2.prev \in Links(Cells)
  BY <1>1, <1>6, <1>8 DEF Links
<1>10. d2 \in Chains
  BY <1>6, <1>8, <1>9 DEF Chains
<1>11. AppendLinks(c, nx, pv, d2.next, d2.prev, x)
  BY <1>8 DEF AppendLinks
<1>. QED
  BY <1>2, <1>3, <1>5, <1>8, <1>10, <1>11

(* Cell x gets the last rank of its list. *)
GoesLast(on, rank, rank2, x) ==
  \A y \in IndexCells \ {x} : rank2[y] = rank[y] /\ (on[y] = on[x] => rank2[y] < rank2[x])

(* The chain is labelled again. *)
LEMMA RenewedPlaced ==
  ASSUME NEW d \in Chains, NEW on, NEW rank, Placed(d, on, rank), NEW c \in Cores, NEW x \in IndexCells, on[x] = c
  PROVE  /\ Renewed(d, x, c) \in Chains /\ Renewed(d, x, c).list_ind = d.list_ind
         /\ \E rank2 : Placed(Renewed(d, x, c), on, rank2) /\ GoesLast(on, rank, rank2, x)
<1>. DEFINE M == Members(IndexCells, c, on)
            T == {c}
<1>1. /\ on \in Labels(IndexCells) /\ rank \in Labels(IndexCells) /\ c \in Heads /\ c \in Cells \ IndexCells
      /\ IndexCells \in SUBSET Cells /\ x \in M /\ x \in Cells /\ -1 # c
      /\ d.next \in Links(Cells) /\ d.prev \in Links(Cells)
  BY CellFacts, HeadOfList DEF Placed, Members, Chains
<1>2. d.list_ind[x] = c
  BY DEF Placed, Marked
<1>3. PICK d2 : d2 = Renewed(d, x, c)
  OBVIOUS
<1>4. d2 \in Chains /\ d2.list_ind = d.list_ind
  BY <1>2, <1>3, RenewedIs
<1>5. PICK nx, pv : Detached(d, x, nx, pv) /\ AppendLinks(c, nx, pv, d2.next, d2.prev, x)
  BY <1>2, <1>3, RenewedIs
<1>. PICK p \in Int : p # c
  BY <1>1
<1>6. PICK on1 : Relabels(IndexCells, on, on1, x, p)
  BY <1>1, RelabelExists
<1>7. /\ Members(IndexCells, c, on1) = M \ {x} /\ List(IndexCells, c, nx, on1, rank) /\ Doubly(IndexCells, c, nx, pv, on1)
  <2>1. Rest(nx, pv, on, on1, rank, x, c)
    BY <1>5, <1>6, DetachedList
  <2>. QED
    BY <2>1 DEF Rest
<1>8. nx \in Links(Cells) /\ pv \in Links(Cells) /\ on1 \in Labels(IndexCells)
  BY <1>5, <1>6 DEF Detached, Relabels
<1>9. BackRank(c, pv, rank) \in Int /\ \A y \in M \ {x} : rank[y] < BackRank(c, pv, rank)
  BY <1>1, <1>7, <1>8, BackRankGreater
<1>10. PICK rank2 : Relabels(IndexCells, rank, rank2, x, BackRank(c, pv, rank))
  BY <1>1, <1>9, RelabelExists
<1>11. /\ rank2 \in Labels(IndexCells) /\ rank2[x] = BackRank(c, pv, rank)
       /\ \A y \in IndexCells : y # x => rank2[y] = rank[y]
  BY <1>10 DEF Relabels
<1>12. AddsLast(IndexCells, c, on1, rank, on, rank2, x)
  BY <1>1, <1>7, <1>9, <1>11 DEF AddsLast, Members
<1>13. d2.next \in Links(Cells) /\ d2.prev \in Links(Cells)
  BY <1>4 DEF Chains
<1>14. List(IndexCells, c, d2.next, on, rank2) /\ Doubly(IndexCells, c, d2.next, d2.prev, on)
  <2>1. IndexCells \in SUBSET Cells /\ c \in Cells \ IndexCells /\ x \in IndexCells
    BY <1>1 DEF Members
  <2>2. on1 \in Labels(IndexCells) /\ rank \in Labels(IndexCells) /\ on \in Labels(IndexCells) /\ rank2 \in Labels(IndexCells)
    BY <1>1, <1>8, <1>11
  <2>. QED
    BY <1>5, <1>7, <1>8, <1>12, <1>13, <2>1, <2>2, ListAppend, Zenon
<1>15. pv[c] \in M \cup {c}
  BY <1>7 DEF Doubly
<1>16. ASSUME NEW y \in Cells, y # c, y \notin M PROVE d2.next[y] = d.next[y] /\ d2.prev[y] = d.prev[y]
  <2>1. nx[y] = d.next[y] /\ pv[y] = d.prev[y]
    BY <1>5, <1>16, DetachedElsewhere
  <2>2. d2.next[y] = nx[y] /\ d2.prev[y] = pv[y]
    BY <1>1, <1>5, <1>8, <1>15, <1>16 DEF AppendLinks, Links
  <2>. QED
    BY <2>1, <2>2
<1>17. Works(d, on, rank, d2, on, rank2, T)
  <2>1. \A y \in Heads \ T : d2.next[y] = d.next[y] /\ d2.prev[y] = d.prev[y]
    BY <1>16, CellFacts DEF Members
  <2>2. ASSUME NEW y \in IndexCells, on[y] \notin T
        PROVE  rank2[y] = rank[y] /\ d2.next[y] = d.next[y] /\ d2.prev[y] = d.prev[y] /\ d2.list_ind[y] = d.list_ind[y]
    <3>1. y \in Cells /\ y # c /\ y \notin M /\ y # x
      BY <2>2, <1>1, CellFacts DEF Members
    <3>. QED
      BY <3>1, <1>4, <1>11, <1>16
  <2>. HIDE DEF T
  <2>. QED
    BY <1>1, <1>11, <2>1, <2>2 DEF Works
<1>18. \A y \in IndexCells : Marked(d2, on, y)
  BY <1>4 DEF Placed, Marked
<1>19. Placed(d2, on, rank2)
  <2>1. \A k \in Heads : k \in T => List(IndexCells, k, d2.next, on, rank2)
    BY <1>14
  <2>2. \A k \in Cores : k \in T => Doubly(IndexCells, k, d2.next, d2.prev, on)
    BY <1>14
  <2>. HIDE DEF T
  <2>. QED
    BY <1>4, <1>17, <1>18, <2>1, <2>2, WorksPlaced
<1>20. GoesLast(on, rank, rank2, x)
  BY <1>9, <1>11 DEF GoesLast, Members
<1>. QED
  BY <1>3, <1>4, <1>19, <1>20
-----------------------------------------------------------------------------
Dropped(d, x, c) ==
  With(Unlink(d, x), LAMBDA u : [Push(u, FREE_LIST_HEAD(c), x) EXCEPT !.list_ind[x] = -1])

(* Cell x is in front of the free list h, by the links from nx to nx2. *)
PushedFree(h, nx, nx2, x) == nx2 = [nx EXCEPT ![x] = nx[h], ![h] = x]

DropsTo(d, d2, x, h) ==
  \E nx, pv : /\ Detached(d, x, nx, pv) /\ PushedFree(h, nx, d2.next, x)
              /\ \A y \in Cells \ {x, h} : d2.prev[y] = pv[y]

(* What dropping a cell does to the links. *)
LEMMA DroppedIs ==
  ASSUME NEW d \in Chains, NEW c \in Cores, NEW x \in IndexCells, NEW h, h = FREE_LIST_HEAD(c)
  PROVE  /\ Dropped(d, x, c) \in Chains /\ Dropped(d, x, c).list_ind = [d.list_ind EXCEPT ![x] = -1]
         /\ DropsTo(d, Dropped(d, x, c), x, h)
<1>. DEFINE u == Unlink(d, x)
            F(q) == [Push(q, FREE_LIST_HEAD(c), x) EXCEPT !.list_ind[x] = -1]
            T == {F(q) : q \in {u}}
<1>1. x \in Cells /\ h \in Cells
  BY CellFacts
<1>2. Dropped(d, x, c) = F(u)
  <2>1. Dropped(d, x, c) = CHOOSE y \in T : TRUE
    BY DEF Dropped, With
  <2>2. T = {F(u)}
    <3>. HIDE DEF F, u
    <3>. QED
      OBVIOUS
  <2>. HIDE DEF F, u, T
  <2>. PICK e : e = F(u)
    OBVIOUS
  <2>. QED
    BY <2>1, <2>2, OnlyChoice
<1>3. PICK nx, pv : Detached(d, x, nx, pv) /\ u = ChainOf(nx, pv, d.list_ind)
  BY UnlinkDetaches
<1>. PICK l : l = d.list_ind
  OBVIOUS
<1>. HIDE DEF u
<1>4. PICK a, b : a = [nx EXCEPT ![x] = nx[h], ![h] = x] /\ b = [pv EXCEPT ![x] = nx[h], ![h] = x]
  OBVIOUS
<1>5. Push(u, h, x) = ChainOf(a, b, l)
  <2>1. Push(u, h, x) = ChainOf([nx EXCEPT ![x] = nx[h], ![h] = x], [pv EXCEPT ![x] = nx[h], ![h] = x], l)
    BY <1>3, PushIs
  <2>. QED
    BY <1>4, <2>1
<1>6. F(u) = [ChainOf(a, b, l) EXCEPT !.list_ind[x] = -1]
  BY <1>5
<1>7. PICK d2 : d2 = F(u)
  OBVIOUS
<1>. HIDE DEF F
<1>8. /\ d2.next = a /\ d2.prev = b
      /\ d2.list_ind = [l EXCEPT ![x] = -1] /\ d2 = [next |-> d2.next, prev |-> d2.prev, list_ind |-> d2.list_ind]
  BY <1>6, <1>7 DEF ChainOf
<1>9. nx \in [Cells -> Cells] /\ pv \in [Cells -> Cells] /\ l \in [Cells -> Cores \cup {-1}]
  BY <1>3 DEF Detached, Links, Chains
<1>10. d2.next \in Links(Cells) /\ d2.prev \in Links(Cells) /\ d2.list_ind \in [Cells -> Cores \cup {-1}]
  BY <1>1, <1>4, <1>8, <1>9 DEF Links
<1>11. d2 \in Chains
  BY <1>8, <1>10 DEF Chains
<1>12. PushedFree(h, nx, d2.next, x) /\ \A y \in Cells \ {x, h} : d2.prev[y] = pv[y]
  BY <1>4, <1>8, <1>9 DEF PushedFree
<1>13. DropsTo(d, d2, x, h)
  BY <1>3, <1>12 DEF DropsTo
<1>. QED
  BY <1>2, <1>7, <1>8, <1>11, <1>13

(* Cell x leaves its allocated list, and the others keep their places. *)
Leaves(on, rank, on2, rank2, x) ==
  /\ on2[x] \notin Cores
  /\ \A y \in IndexCells \ {x} : on2[y] = on[y] /\ rank2[y] = rank[y]

(* The chain is labelled again. *)
LEMMA DroppedPlaced ==
  ASSUME NEW d \in Chains, NEW on, NEW rank, Placed(d, on, rank), NEW c \in Cores, NEW x \in IndexCells, on[x] = c
  PROVE  /\ Dropped(d, x, c) \in Chains
         /\ \A y \in IndexCells : Dropped(d, x, c).list_ind[y] = IF y = x THEN -1 ELSE d.list_ind[y]
         /\ \E on2, rank2 : Placed(Dropped(d, x, c), on2, rank2) /\ Leaves(on, rank, on2, rank2, x)
<1>. PICK h : h = FREE_LIST_HEAD(c)
  OBVIOUS
<1>. DEFINE M == Members(IndexCells, c, on)
            T == {c, h}
<1>1. /\ on \in Labels(IndexCells) /\ rank \in Labels(IndexCells) /\ c \in Heads /\ c \in Cells \ IndexCells
      /\ IndexCells \in SUBSET Cells /\ x \in M /\ x \in Cells /\ h \in Heads /\ h \notin Cores /\ h # c /\ h \in Cells \ IndexCells
      /\ h \in Int /\ d.next \in Links(Cells) /\ d.prev \in Links(Cells) /\ x # h /\ h \notin M
  BY CellFacts, HeadOfList DEF Placed, Members, Chains
<1>3. PICK d2 : d2 = Dropped(d, x, c)
  OBVIOUS
<1>4. d2 \in Chains /\ d2.list_ind = [d.list_ind EXCEPT ![x] = -1]
  BY <1>3, DroppedIs
<1>5. PICK nx, pv : /\ Detached(d, x, nx, pv) /\ PushedFree(h, nx, d2.next, x)
                    /\ \A y \in Cells \ {x, h} : d2.prev[y] = pv[y]
  <2>1. DropsTo(d, d2, x, h)
    BY <1>3, DroppedIs
  <2>. QED
    BY <2>1 DEF DropsTo
<1>6. PICK on2 : Relabels(IndexCells, on, on2, x, h)
  BY <1>1, RelabelExists
<1>7. /\ Members(IndexCells, c, on2) = M \ {x} /\ List(IndexCells, c, nx, on2, rank) /\ Doubly(IndexCells, c, nx, pv, on2)
  <2>1. Rest(nx, pv, on, on2, rank, x, c)
    BY <1>1, <1>5, <1>6, DetachedList
  <2>. QED
    BY <2>1 DEF Rest
<1>8. nx \in Links(Cells) /\ pv \in Links(Cells) /\ on2 \in Labels(IndexCells)
  BY <1>5, <1>6 DEF Detached, Relabels
<1>9. List(IndexCells, h, d.next, on, rank)
  BY <1>1 DEF Placed
<1>10. FrontRank(h, d.next, rank) \in Int /\ \A y \in Members(IndexCells, h, on) : FrontRank(h, d.next, rank) < rank[y]
  BY <1>1, <1>9, FrontRankLess
<1>11. PICK rank2 : Relabels(IndexCells, rank, rank2, x, FrontRank(h, d.next, rank))
  BY <1>1, <1>10, RelabelExists
<1>12. /\ rank2 \in Labels(IndexCells) /\ rank2[x] = FrontRank(h, d.next, rank)
       /\ \A y \in IndexCells : y # x => rank2[y] = rank[y]
       /\ \A y \in IndexCells : on2[y] = IF y = x THEN h ELSE on[y]
  BY <1>6, <1>11 DEF Relabels
<1>13. d2.next \in Links(Cells) /\ d2.prev \in Links(Cells)
  BY <1>4 DEF Chains
<1>14. /\ d2.next[x] = nx[h] /\ d2.next[h] = x
       /\ \A y \in Cells \ {x, h} : d2.next[y] = nx[y] /\ d2.prev[y] = pv[y]
  BY <1>1, <1>5, <1>8 DEF PushedFree, Links
<1>15. \A y \in Cells : y # c /\ y \notin M => nx[y] = d.next[y] /\ pv[y] = d.prev[y]
  BY <1>5, DetachedElsewhere
<1>16. ASSUME NEW y \in Cells, y # c, y \notin M, y # h PROVE d2.next[y] = d.next[y] /\ d2.prev[y] = d.prev[y]
  BY <1>1, <1>14, <1>15, <1>16
<1>17. List(IndexCells, c, d2.next, on2, rank2) /\ Doubly(IndexCells, c, d2.next, d2.prev, on2)
  <2>1. \A y \in Members(IndexCells, c, on2) \cup {c} : y \in Cells \ {x, h}
    BY <1>1, <1>7 DEF Members
  <2>2. \A y \in Members(IndexCells, c, on2) \cup {c} : d2.next[y] = nx[y] /\ d2.prev[y] = pv[y]
    BY <2>1, <1>14
  <2>3. \A y \in Members(IndexCells, c, on2) : rank2[y] = rank[y]
    BY <2>1, <1>12 DEF Members
  <2>4. List(IndexCells, c, d2.next, on2, rank2)
    <3>1. PICK nx2 : nx2 = d2.next
      OBVIOUS
    <3>2. /\ IndexCells \in SUBSET Cells /\ c \in Cells \ IndexCells /\ nx \in Links(Cells) /\ nx2 \in Links(Cells)
          /\ on2 \in Labels(IndexCells) /\ rank \in Labels(IndexCells) /\ rank2 \in Labels(IndexCells)
          /\ List(IndexCells, c, nx, on2, rank)
      BY <1>1, <1>7, <1>8, <1>12, <1>13, <3>1
    <3>3. \A y \in Members(IndexCells, c, on2) \cup {c} : nx2[y] = nx[y]
      BY <2>2, <3>1
    <3>4. List(IndexCells, c, nx2, on2, rank2)
      BY <2>3, <3>2, <3>3, ListFrame
    <3>. QED
      BY <3>1, <3>4
  <2>5. Doubly(IndexCells, c, d2.next, d2.prev, on2)
    BY <1>1, <1>7, <1>8, <1>13, <2>2, DoublyFrame
  <2>. QED
    BY <2>4, <2>5
<1>18. List(IndexCells, h, d2.next, on2, rank2)
  <2>1. Members(IndexCells, h, on2) = Members(IndexCells, h, on) \cup {x} /\ x \notin Members(IndexCells, h, on)
    BY <1>1, <1>6, MembersMove DEF Members
  <2>2. nx[h] = d.next[h]
    BY <1>1, <1>15
  <2>3. ASSUME NEW y \in Members(IndexCells, h, on)
        PROVE  d2.next[y] = d.next[y] /\ rank2[y] = rank[y] /\ rank2[x] < rank[y]
    <3>1. y \in Cells /\ y # c /\ y \notin M /\ y # h /\ y # x /\ y \in IndexCells
      BY <1>1, <2>1 DEF Members
    <3>. QED
      BY <3>1, <1>10, <1>12, <1>16
  <2>4. \A y \in Members(IndexCells, h, on) : d2.next[y] = d.next[y] /\ rank2[y] = rank[y] /\ rank2[x] < rank[y]
    BY <2>3
  <2>5. d2.next[h] = x /\ d2.next[x] = d.next[h]
    BY <1>14, <2>2
  <2>6. /\ h \in Cells \ IndexCells /\ IndexCells \in SUBSET Cells /\ d.next \in Links(Cells) /\ on \in Labels(IndexCells)
        /\ rank \in Labels(IndexCells) /\ on2 \in Labels(IndexCells) /\ rank2 \in Labels(IndexCells) /\ d2.next \in Links(Cells)
    BY <1>1, <1>8, <1>12, <1>13
  <2>. QED
    BY <1>9, <2>1, <2>4, <2>5, <2>6, ListPush
<1>19. \A y \in IndexCells : d2.list_ind[y] = IF y = x THEN -1 ELSE d.list_ind[y]
  BY <1>1, <1>4 DEF Chains
<1>20. Works(d, on, rank, d2, on2, rank2, T)
  <2>1. \A y \in Heads \ T : d2.next[y] = d.next[y] /\ d2.prev[y] = d.prev[y]
    BY <1>16, CellFacts DEF Members
  <2>2. ASSUME NEW y \in IndexCells, on[y] \notin T
        PROVE  /\ on2[y] = on[y] /\ rank2[y] = rank[y]
               /\ d2.next[y] = d.next[y] /\ d2.prev[y] = d.prev[y] /\ d2.list_ind[y] = d.list_ind[y]
    <3>1. y \in Cells /\ y # c /\ y \notin M /\ y # x /\ y # h
      BY <2>2, <1>1, CellFacts DEF Members
    <3>. QED
      BY <3>1, <1>12, <1>16, <1>19
  <2>3. \A y \in IndexCells : on[y] \in T => on2[y] \in T
    BY <1>12
  <2>. HIDE DEF T
  <2>. QED
    BY <1>8, <1>12, <2>1, <2>2, <2>3 DEF Works
<1>21. \A y \in IndexCells : Marked(d2, on2, y)
  BY <1>1, <1>12, <1>19 DEF Placed, Marked
<1>22. Placed(d2, on2, rank2)
  <2>1. \A k \in Heads : k \in T => List(IndexCells, k, d2.next, on2, rank2)
    BY <1>17, <1>18
  <2>2. \A k \in Cores : k \in T => Doubly(IndexCells, k, d2.next, d2.prev, on2)
    BY <1>1, <1>17
  <2>. HIDE DEF T
  <2>. QED
    BY <1>4, <1>20, <1>21, <2>1, <2>2, WorksPlaced
<1>23. Leaves(on, rank, on2, rank2, x)
  BY <1>1, <1>12 DEF Leaves
<1>. QED
  BY <1>3, <1>4, <1>19, <1>22, <1>23
-----------------------------------------------------------------------------
(* Heaps.                                                                  *)

Heaps == [chain : Chains, time : [Cells -> Int]]

(* The cells of an allocated list are to expire in its order, up to lag. *)
Sorted(time, on, rank, lag) ==
  \A x, y \in IndexCells : on[x] \in Cores /\ on[y] = on[x] /\ rank[x] < rank[y] => time[x] <= time[y] + lag

(* The times of allocated cells are not after latest. *)
NotAfter(h, latest) == \A x \in IndexCells : h.chain.list_ind[x] # -1 => h.time[x] <= latest

HeapInv(h, latest, lag) ==
  /\ h \in Heaps /\ latest \in Int /\ lag \in Int /\ lag >= 0
  /\ \E on, rank : Placed(h.chain, on, rank) /\ Sorted(h.time, on, rank, lag)
  /\ NotAfter(h, latest)

(* The chain of a heap is labelled. *)
LEMMA HeapChain ==
  ASSUME NEW h, NEW latest, NEW lag, HeapInv(h, latest, lag)
  PROVE  ChainInv(h.chain)
  BY DEF HeapInv, Heaps, ChainInv

(* The latest time may be later. *)
LEMMA HeapLater ==
  ASSUME NEW h, NEW latest, NEW lag, HeapInv(h, latest, lag), NEW l2 \in Int, latest <= l2
  PROVE  HeapInv(h, l2, lag)
<1>1. ASSUME NEW x \in IndexCells PROVE h.time[x] \in Int
  BY CellFacts DEF HeapInv, Heaps
<1>2. NotAfter(h, l2)
  BY <1>1 DEF HeapInv, NotAfter
<1>. QED
  BY <1>2 DEF HeapInv

(* A new heap. *)
LEMMA NewHeap ==
  ASSUME NEW latest \in Int, NEW lag \in Int, lag >= 0
  PROVE  /\ HeapInv(nfos_dchain_exp_allocate, latest, lag)
         /\ \A i \in Indexes : ~IsAllocated(nfos_dchain_exp_allocate.chain, i)
<1>. PICK h : h = nfos_dchain_exp_allocate
  OBVIOUS
<1>. PICK d : d = nfos_dchain_allocate
  OBVIOUS
<1>1. ChainInv(d) /\ \A i \in Indexes : ~IsAllocated(d, i)
  BY NewChain
<1>2. h = [chain |-> d, time |-> [x \in Cells |-> INT64_MAX]]
  BY DEF nfos_dchain_exp_allocate
<1>3. h \in Heaps
  BY <1>1, <1>2, DoubleChainExpAssumption DEF Heaps, ChainInv
<1>4. ASSUME NEW x \in IndexCells PROVE d.list_ind[x] = -1
  BY <1>1, CellFacts DEF IsAllocated
<1>5. PICK on, rank : Placed(d, on, rank)
  BY <1>1 DEF ChainInv
<1>6. \A x \in IndexCells : on[x] \notin Cores
  BY <1>4, <1>5, CellFacts DEF Placed, Marked
<1>7. h.chain = d
  BY <1>2
<1>8. Sorted(h.time, on, rank, lag) /\ NotAfter(h, latest)
  BY <1>4, <1>6, <1>7 DEF Sorted, NotAfter
<1>. QED
  BY <1>1, <1>3, <1>5, <1>7, <1>8 DEF HeapInv

(* A cell that goes last with a time that is at most lag before the others *)
(* keeps the lists sorted.                                                 *)
LastLate(h, h2, x, t, latest, lag) ==
  /\ h2 \in Heaps /\ h2.time = [h.time EXCEPT ![x] = t]
  /\ t \in Int /\ t <= latest /\ latest <= t + lag

(* Wherever it was before. *)
LEMMA LastSorted ==
  ASSUME NEW h, NEW latest, NEW lag, HeapInv(h, latest, lag), NEW h2, NEW x \in IndexCells, NEW t,
         LastLate(h, h2, x, t, latest, lag),
         NEW on, NEW rank, Placed(h.chain, on, rank), Sorted(h.time, on, rank, lag),
         NEW on2, NEW rank2, Placed(h2.chain, on2, rank2),
         \A y \in IndexCells \ {x} :
           on2[y] \in Cores => on2[y] = on[y] /\ rank2[y] = rank[y] /\ (on2[y] = on2[x] => rank2[y] < rank2[x])
  PROVE  HeapInv(h2, latest, lag)
<1>1. /\ h.time \in [Cells -> Int] /\ h2.time = [h.time EXCEPT ![x] = t] /\ h2 \in Heaps
      /\ t \in Int /\ t <= latest /\ latest <= t + lag /\ latest \in Int /\ lag \in Int /\ lag >= 0
      /\ x \in Cells /\ IndexCells \subseteq Cells
  BY CellFacts DEF HeapInv, Heaps, LastLate
<1>2. ASSUME NEW y \in IndexCells PROVE h.time[y] \in Int /\ h2.time[y] = (IF y = x THEN t ELSE h.time[y]) /\ rank2[y] \in Int
  BY <1>1 DEF Placed, Labels
<1>3. ASSUME NEW y \in IndexCells, y # x, on2[y] \in Cores PROVE h2.time[y] <= latest /\ on[y] \in Cores
  <2>1. Marked(h.chain, on, y) /\ on[y] \in Cores
    BY <1>3 DEF Placed
  <2>2. h.chain.list_ind[y] # -1
    BY <2>1, CellFacts DEF Marked
  <2>. QED
    BY <2>1, <2>2, <1>2, <1>3 DEF HeapInv, NotAfter
<1>4. ASSUME NEW y \in IndexCells, NEW z \in IndexCells, on2[y] \in Cores, on2[z] = on2[y], rank2[y] < rank2[z]
      PROVE  h2.time[y] <= h2.time[z] + lag
  <2>1. CASE y = x
    <3>1. z # x
      BY <2>1, <1>2, <1>4
    <3>2. rank2[z] < rank2[x]
      BY <2>1, <3>1, <1>4
    <3>. QED
      BY <2>1, <3>2, <1>2, <1>4
  <2>2. CASE y # x /\ z = x
    BY <2>2, <1>1, <1>2, <1>3, <1>4
  <2>3. CASE y # x /\ z # x
    <3>1. on[y] \in Cores /\ on[z] = on[y] /\ rank[y] < rank[z]
      BY <2>3, <1>4
    <3>2. h.time[y] <= h.time[z] + lag
      BY <3>1 DEF Sorted
    <3>. QED
      BY <2>3, <3>2, <1>2
  <2>. QED
    BY <2>1, <2>2, <2>3
<1>5. Sorted(h2.time, on2, rank2, lag)
  BY <1>4 DEF Sorted
<1>6. ASSUME NEW y \in IndexCells, h2.chain.list_ind[y] # -1 PROVE h2.time[y] <= latest
  <2>1. CASE y = x
    BY <2>1, <1>1, <1>2
  <2>2. CASE y # x
    <3>1. Marked(h2.chain, on2, y)
      BY DEF Placed
    <3>2. on2[y] \in Cores
      BY <3>1, <1>6 DEF Marked
    <3>. QED
      BY <2>2, <3>2, <1>3
  <2>. QED
    BY <2>1, <2>2
<1>. QED
  BY <1>1, <1>5, <1>6 DEF HeapInv, NotAfter

(* The outcome of an allocation with a time. *)
ExpAllocates(h, c, t, a, latest, lag) ==
  /\ a.index = NoIndex => a.heap = h /\ \A i \in Indexes : IsAllocated(h.chain, i)
  /\ a.index # NoIndex =>
       /\ a.index \in Indexes /\ HeapInv(a.heap, latest, lag)
       /\ a.heap.time = [h.time EXCEPT ![a.index + INDEX_SHIFT] = t]
       /\ \A i \in Indexes : IsAllocated(a.heap.chain, i) <=> i = a.index \/ IsAllocated(h.chain, i)
       /\ ~IsAllocated(h.chain, a.index)

(* nfos_dchain_exp_allocate_new_index gives out an index that nobody has,  *)
(* and fails only when there is none.                                      *)
LEMMA ExpAllocateNewIndex ==
  ASSUME NEW h, NEW latest, NEW lag, HeapInv(h, latest, lag), NEW c \in Cores, NEW now, NEW t \in Int,
         t = now + validity_duration, t <= latest, latest <= t + lag
  PROVE  ExpAllocates(h, c, t, nfos_dchain_exp_allocate_new_index(h, c, now), latest, lag)
<1>. PICK a : a = nfos_dchain_allocate_new_index(h.chain, c)
  OBVIOUS
<1>. DEFINE F(b) == [index |-> b.index,
                     heap |-> IF b.index = NoIndex THEN h
                              ELSE [chain |-> b.chain, time |-> [h.time EXCEPT ![b.index + INDEX_SHIFT] = now + validity_duration]]]
            T == {F(b) : b \in {a}}
            E == nfos_dchain_exp_allocate_new_index(h, c, now)
<1>1. ChainInv(h.chain) /\ Allocates(h.chain, c, a)
  BY HeapChain, AllocateNewIndex
<1>2. E = F(a)
  <2>1. E = CHOOSE y \in T : TRUE
    BY DEF nfos_dchain_exp_allocate_new_index, With
  <2>2. T = {F(a)}
    <3>. HIDE DEF F
    <3>. QED
      OBVIOUS
  <2>. PICK e : e = F(a)
    OBVIOUS
  <2>. HIDE DEF F, T, E
  <2>. QED
    BY <2>1, <2>2, OnlyChoice
<1>. HIDE DEF E
<1>3. CASE a.index = NoIndex
  <2>1. E.index = NoIndex /\ E.heap = h
    BY <1>2, <1>3
  <2>2. \A i \in Indexes : IsAllocated(h.chain, i)
    BY <1>1, <1>3, AllTaken
  <2>. QED
    BY <2>1, <2>2 DEF ExpAllocates, E
<1>4. CASE a.index # NoIndex
  <2>. PICK i \in Indexes : i = a.index
    BY <1>1, <1>4 DEF Allocates
  <2>. PICK x \in IndexCells : x = i + INDEX_SHIFT
    BY CellFacts
  <2>1. E.index = i /\ E.heap = [chain |-> a.chain, time |-> [h.time EXCEPT ![x] = t]]
    BY <1>2, <1>4
  <2>. PICK h2 : h2 = E.heap
    OBVIOUS
  <2>2. h2.chain = a.chain /\ h2.time = [h.time EXCEPT ![x] = t]
    BY <2>1
  <2>3. /\ ChainInv(a.chain) /\ \A j \in Indexes : IsAllocated(a.chain, j) <=> j = i \/ IsAllocated(h.chain, j)
        /\ ~IsAllocated(h.chain, i)
    BY <1>1, <1>4 DEF Allocates
  <2>4. h2 \in Heaps
    <3>1. h.time \in [Cells -> Int] /\ a.chain \in Chains
      BY <2>3 DEF HeapInv, Heaps, ChainInv
    <3>2. [h.time EXCEPT ![x] = t] \in [Cells -> Int]
      BY <3>1
    <3>. QED
      BY <2>1, <3>1, <3>2 DEF Heaps
  <2>5. PICK on, rank : Placed(h.chain, on, rank) /\ Sorted(h.time, on, rank, lag)
    BY DEF HeapInv
  <2>6. PICK on2, rank2 : Placed(a.chain, on2, rank2) /\ Joins(on, rank, on2, rank2, x, c)
    BY <1>1, <1>4, <2>5 DEF Allocates
  <2>7. LastLate(h, h2, x, t, latest, lag)
    BY <2>2, <2>4 DEF LastLate
  <2>8. \A y \in IndexCells \ {x} :
           on2[y] \in Cores => on2[y] = on[y] /\ rank2[y] = rank[y] /\ (on2[y] = on2[x] => rank2[y] < rank2[x])
    BY <2>6 DEF Joins
  <2>9. HeapInv(h2, latest, lag)
    <3>1. Placed(h2.chain, on2, rank2)
      BY <2>2, <2>6
    <3>. QED
      BY <2>5, <2>7, <2>8, <3>1, LastSorted
  <2>10. i # NoIndex
    BY <1>4
  <2>. QED
    BY <2>1, <2>2, <2>3, <2>9, <2>10 DEF ExpAllocates, E
<1>. QED
  BY <1>3, <1>4

(* Renewing the time of an allocated index keeps the heap, and everybody   *)
(* else's time.                                                            *)
Rejuvenates(h, h2, i, t, latest, lag) ==
  /\ HeapInv(h2, latest, lag) /\ h2.time = [h.time EXCEPT ![i + INDEX_SHIFT] = t]
  /\ h2.chain.list_ind = h.chain.list_ind

(* nfos_dchain_exp_rejuvenate_index does that. *)
LEMMA Rejuvenate ==
  ASSUME NEW h, NEW latest, NEW lag, HeapInv(h, latest, lag), NEW i \in Indexes, IsAllocated(h.chain, i), NEW now, NEW t \in Int,
         t = now + validity_duration, t <= latest, latest <= t + lag
  PROVE  Rejuvenates(h, nfos_dchain_exp_rejuvenate_index(h, i, now), i, t, latest, lag)
<1>. PICK x \in IndexCells : x = i + INDEX_SHIFT
  BY CellFacts
<1>. PICK d, c : d = h.chain /\ c = d.list_ind[x]
  OBVIOUS
<1>. PICK h2 : h2 = nfos_dchain_exp_rejuvenate_index(h, i, now)
  OBVIOUS
<1>1. PICK on, rank : Placed(d, on, rank) /\ Sorted(h.time, on, rank, lag)
  BY DEF HeapInv
<1>2. d \in Chains /\ c # -1 /\ on[x] = c /\ c \in Cores /\ h.time \in [Cells -> Int]
  <2>1. c # -1 /\ Marked(d, on, x)
    BY <1>1 DEF IsAllocated, Placed
  <2>. QED
    BY <2>1 DEF Marked, HeapInv, Heaps
<1>3. PICK e : e = IF d.next[x] = c THEN d ELSE Renewed(d, x, c)
  OBVIOUS
<1>4. h2 = [chain |-> e, time |-> [h.time EXCEPT ![x] = t]]
  BY <1>2, <1>3 DEF nfos_dchain_exp_rejuvenate_index, ALLOC_LIST_HEAD, Renewed
<1>5. h2.chain = e /\ h2.time = [h.time EXCEPT ![x] = t]
  BY <1>4
<1>6. /\ e \in Chains /\ e.list_ind = d.list_ind
      /\ \E rank2 : Placed(e, on, rank2) /\ GoesLast(on, rank, rank2, x)
  <2>1. CASE d.next[x] = c
    <3>1. List(IndexCells, c, d.next, on, rank)
      BY <1>1, <1>2, CellFacts DEF Placed
    <3>2. ASSUME NEW y \in IndexCells \ {x}, on[y] = on[x] PROVE rank[y] < rank[x]
      <4>1. x \in Members(IndexCells, c, on) /\ y \in Members(IndexCells, c, on)
        BY <1>2, <3>2 DEF Members
      <4>2. ~(rank[x] < rank[y]) /\ rank[x] # rank[y]
        BY <2>1, <3>1, <4>1 DEF List, NoneBetween, RanksDiffer
      <4>3. rank[x] \in Int /\ rank[y] \in Int
        BY <1>1 DEF Placed, Labels
      <4>. QED
        BY <4>2, <4>3
    <3>3. GoesLast(on, rank, rank, x)
      BY <3>2 DEF GoesLast
    <3>. QED
      BY <1>1, <1>2, <1>3, <2>1, <3>3
  <2>2. CASE d.next[x] # c
    BY <1>1, <1>2, <1>3, <2>2, RenewedPlaced
  <2>. QED
    BY <2>1, <2>2
<1>7. PICK rank2 : Placed(e, on, rank2) /\ GoesLast(on, rank, rank2, x)
  BY <1>6
<1>8. h2 \in Heaps
  <2>1. [h.time EXCEPT ![x] = t] \in [Cells -> Int]
    BY <1>2
  <2>. QED
    BY <1>4, <1>6, <2>1 DEF Heaps
<1>9. LastLate(h, h2, x, t, latest, lag)
  BY <1>5, <1>8 DEF LastLate
<1>10. \A y \in IndexCells \ {x} :
           on[y] \in Cores => on[y] = on[y] /\ rank2[y] = rank[y] /\ (on[y] = on[x] => rank2[y] < rank2[x])
  BY <1>7 DEF GoesLast
<1>11. HeapInv(h2, latest, lag)
  <2>1. Placed(h2.chain, on, rank2) /\ Placed(h.chain, on, rank) /\ Sorted(h.time, on, rank, lag)
    BY <1>1, <1>5, <1>7
  <2>. QED
    BY <1>9, <1>10, <2>1, LastSorted
<1>. QED
  BY <1>5, <1>6, <1>11 DEF Rejuvenates
-----------------------------------------------------------------------------
(* Of the indexes allocated to core c, none was to expire more than lag    *)
(* before now.                                                             *)
Clean(h, c, now, lag) == \A x \in IndexCells : h.chain.list_ind[x] = c => now <= h.time[x] + lag

(* Index i is free now, and nothing else has changed. *)
Expires(h, h2, i) ==
  /\ i \in Indexes /\ IsAllocated(h.chain, i)
  /\ \A x \in IndexCells : h2.chain.list_ind[x] = IF x = i + INDEX_SHIFT THEN -1 ELSE h.chain.list_ind[x]
  /\ \A x \in IndexCells : x # i + INDEX_SHIFT => h2.time[x] = h.time[x]

(* Taking the oldest index off a list. *)
LEMMA ExpireFirst ==
  ASSUME NEW h, NEW latest, NEW lag, HeapInv(h, latest, lag), NEW c \in Cores, NEW x, x = h.chain.next[ALLOC_LIST_HEAD(c)], x # c
  PROVE  HeapInv(ExpireOldest(h, c), latest, lag) /\ Expires(h, ExpireOldest(h, c), x - INDEX_SHIFT) /\ h.chain.list_ind[x] = c
         /\ x \in IndexCells
<1>. PICK d : d = h.chain
  OBVIOUS
<1>. PICK h2, e : h2 = ExpireOldest(h, c) /\ e = Dropped(d, x, c)
  OBVIOUS
<1>1. PICK on, rank : Placed(d, on, rank) /\ Sorted(h.time, on, rank, lag)
  BY DEF HeapInv
<1>2. d \in Chains /\ h.time \in [Cells -> Int] /\ c \in Heads /\ c # -1
  BY CellFacts DEF HeapInv, Heaps
<1>3. List(IndexCells, c, d.next, on, rank)
  BY <1>1, <1>2 DEF Placed
<1>4. x \in IndexCells /\ on[x] = c
  BY <1>3 DEF List, Leads, Members, ALLOC_LIST_HEAD
<1>5. d.list_ind[x] = c
  BY <1>1, <1>4 DEF Placed, Marked
<1>6. h2 = [chain |-> e, time |-> [h.time EXCEPT ![x] = INT64_MAX]]
  BY DEF ExpireOldest, Dropped
<1>7. h2.chain = e /\ h2.time = [h.time EXCEPT ![x] = INT64_MAX]
  BY <1>6
<1>8. e \in Chains /\ \A y \in IndexCells : e.list_ind[y] = IF y = x THEN -1 ELSE d.list_ind[y]
  BY <1>1, <1>2, <1>4, DroppedPlaced
<1>9. PICK on2, rank2 : Placed(e, on2, rank2) /\ Leaves(on, rank, on2, rank2, x)
  BY <1>1, <1>2, <1>4, DroppedPlaced
<1>10. h2 \in Heaps
  <2>1. [h.time EXCEPT ![x] = INT64_MAX] \in [Cells -> Int]
    <3>1. INT64_MAX \in Int
      BY DoubleChainExpAssumption
    <3>. QED
      BY <1>2, <3>1
  <2>. QED
    BY <1>6, <1>8, <2>1 DEF Heaps
<1>11. ASSUME NEW y \in IndexCells
       PROVE  /\ e.list_ind[y] = (IF y = x THEN -1 ELSE d.list_ind[y])
              /\ y # x => h2.time[y] = h.time[y]
  BY <1>2, <1>7, <1>8, CellFacts DEF Chains
<1>12. Sorted(h2.time, on2, rank2, lag)
  <2>. SUFFICES ASSUME NEW y \in IndexCells, NEW z \in IndexCells, on2[y] \in Cores, on2[z] = on2[y], rank2[y] < rank2[z]
                PROVE  h2.time[y] <= h2.time[z] + lag
    BY DEF Sorted
  <2>1. y # x /\ z # x
    BY <1>9 DEF Leaves
  <2>2. on2[y] = on[y] /\ on2[z] = on[z] /\ rank2[y] = rank[y] /\ rank2[z] = rank[z]
    BY <2>1, <1>9 DEF Leaves
  <2>3. h.time[y] <= h.time[z] + lag
    BY <2>2, <1>1 DEF Sorted
  <2>. QED
    BY <2>1, <2>3, <1>11
<1>13. NotAfter(h2, latest)
  BY <1>7, <1>11 DEF NotAfter, HeapInv
<1>14. HeapInv(h2, latest, lag)
  BY <1>7, <1>9, <1>10, <1>12, <1>13 DEF HeapInv
<1>15. x - INDEX_SHIFT \in Indexes /\ (x - INDEX_SHIFT) + INDEX_SHIFT = x
  BY <1>4, CellFacts
<1>16. Expires(h, h2, x - INDEX_SHIFT)
  BY <1>2, <1>5, <1>7, <1>11, <1>15 DEF Expires, IsAllocated
<1>. QED
  BY <1>4, <1>5, <1>14, <1>16

(* A step of the expiration: the list of core c is clean and the next one  *)
(* is due, or the overdue index at its front is freed.                     *)
ExpireOne(h, c, now, e, latest, lag) ==
  \/ /\ e.index = NoIndex /\ e.heap = h /\ Clean(h, c, now, lag)
     /\ e.curr_free_list = (c + 1) % NumCores /\ e.expiration_done = (c + 1 >= NumCores)
  \/ /\ e.index # NoIndex /\ Expires(h, e.heap, e.index) /\ HeapInv(e.heap, latest, lag)
     /\ h.time[e.index + INDEX_SHIFT] < now
     /\ e.curr_free_list = c /\ e.expiration_done = FALSE

(* nfos_dchain_exp_expire_one_index is such a step. *)
LEMMA ExpireOneIndex ==
  ASSUME NEW h, NEW latest, NEW lag, HeapInv(h, latest, lag), NEW c \in Cores, NEW now \in Int
  PROVE  ExpireOne(h, c, now, nfos_dchain_exp_expire_one_index(h, c, now), latest, lag)
<1>. PICK d : d = h.chain
  OBVIOUS
<1>. PICK x : x = d.next[ALLOC_LIST_HEAD(c)]
  OBVIOUS
<1>. PICK e : e = nfos_dchain_exp_expire_one_index(h, c, now)
  OBVIOUS
<1>0. ALLOC_LIST_HEAD(c) = c
  BY DEF ALLOC_LIST_HEAD
<1>1. CASE x = c \/ h.time[x] >= now
  <2>1. e = [index |-> NoIndex, heap |-> h, curr_free_list |-> (c + 1) % NumCores, expiration_done |-> c + 1 >= NumCores]
    BY <1>0, <1>1 DEF nfos_dchain_exp_expire_one_index
  <2>2. PICK on, rank : Placed(d, on, rank) /\ Sorted(h.time, on, rank, lag)
    BY DEF HeapInv
  <2>3. List(IndexCells, c, d.next, on, rank) /\ h.time \in [Cells -> Int] /\ lag \in Int /\ lag >= 0
    BY <2>2, CellFacts DEF Placed, HeapInv, Heaps
  <2>4. ASSUME NEW y \in IndexCells, d.list_ind[y] = c PROVE now <= h.time[y] + lag
    <3>1. on[y] = c
      <4>1. Marked(d, on, y)
        BY <2>2 DEF Placed
      <4>. QED
        BY <4>1, <2>4, CellFacts DEF Marked
    <3>2. y \in Members(IndexCells, c, on) /\ d.next[c] # c /\ rank[d.next[c]] <= rank[y]
      BY <3>1, <2>3 DEF List, FirstIsLeast, Members
    <3>3. x = d.next[c] /\ x # c /\ h.time[x] >= now
      BY <3>2, <1>0, <1>1
    <3>4. x \in Members(IndexCells, c, on) /\ x \in IndexCells /\ on[x] = c
      BY <3>3, <2>3 DEF List, Leads, Members
    <3>5. h.time[x] \in Int /\ h.time[y] \in Int /\ rank[x] \in Int /\ rank[y] \in Int
      BY <2>2, <2>3, <3>4, CellFacts DEF Placed, Labels
    <3>6. CASE x = y
      BY <3>3, <3>5, <3>6, <2>3
    <3>7. CASE x # y
      <4>1. rank[x] # rank[y]
        BY <3>2, <3>4, <3>7, <2>3 DEF List, RanksDiffer
      <4>2. rank[x] < rank[y]
        BY <4>1, <3>2, <3>3, <3>5
      <4>3. h.time[x] <= h.time[y] + lag
        BY <4>2, <3>1, <3>4, <2>2 DEF Sorted
      <4>. QED
        BY <4>3, <3>3, <3>5, <2>3
    <3>. QED
      BY <3>6, <3>7
  <2>5. Clean(h, c, now, lag)
    BY <2>4 DEF Clean
  <2>6. /\ e.index = NoIndex /\ e.heap = h 
        /\ e.curr_free_list = (c + 1) % NumCores /\ e.expiration_done = (c + 1 >= NumCores)
    BY <2>1
  <2>. QED
    BY <2>5, <2>6 DEF ExpireOne
<1>2. CASE ~(x = c \/ h.time[x] >= now)
  <2>1. e = [index |-> x - INDEX_SHIFT, heap |-> ExpireOldest(h, c), curr_free_list |-> c, expiration_done |-> FALSE]
    BY <1>0, <1>2 DEF nfos_dchain_exp_expire_one_index
  <2>. PICK h2 : h2 = ExpireOldest(h, c)
    OBVIOUS
  <2>2. HeapInv(h2, latest, lag) /\ Expires(h, h2, x - INDEX_SHIFT) /\ x \in IndexCells
    BY <1>2, ExpireFirst
  <2>3. PICK i \in Indexes : i = x - INDEX_SHIFT /\ i + INDEX_SHIFT = x
    BY <2>2, CellFacts
  <2>4. i # NoIndex
    BY DoubleChainAssumption DEF Indexes, NoIndex
  <2>5. h.time[x] < now
    <3>1. h.time[x] \in Int
      BY <2>2, CellFacts DEF HeapInv, Heaps
    <3>. QED
      BY <3>1, <1>2
  <2>6. e.index = i /\ e.heap = h2 /\ e.curr_free_list = c /\ e.expiration_done = FALSE
    BY <2>1, <2>3
  <2>. QED
    BY <2>2, <2>3, <2>4, <2>5, <2>6 DEF ExpireOne
<1>. QED
  BY <1>1, <1>2
-----------------------------------------------------------------------------
(* Erasing from a map.                                                     *)

(* erase changes this. *)
EraseFrom(m, n, k, f, m2) ==
  /\ MapOf(m2, n)
  /\ \A x \in 0..n - 1 :
       /\ m2[x].chns = m[x].chns - (IF x \in Passed(m, k, f) THEN 1 ELSE 0)
       /\ x # Probe(m, k, f) =>
            m2[x].busybits = m[x].busybits /\ m2[x].key = m[x].key /\ m2[x].vals = m[x].vals
  /\ m2[Probe(m, k, f)].busybits = 0

(* The key of a busy cell is counted by the cells that its search passes. *)
LEMMA CountsPassing ==
  ASSUME NEW m, NEW n, MapOf(m, n), NEW y \in Busy(m), NEW j, ReachedAt(m, n, y, j), NEW x \in Passed(m, m[y].key, j)
  PROVE  y \in Passing(m, x) /\ x \in 0..n - 1
<1>1. m[y].key \in Keys /\ j \in 0..n - 1
  BY DEF MapOf, ReachedAt, FoundAt
<1>2. Distance(m, m[y].key) = j
  BY <1>1, FoundDistance DEF ReachedAt
<1>3. PICK i \in 0..j - 1 : x = Probe(m, m[y].key, i)
  BY DEF Passed
<1>4. i \in Nat
  BY <1>1
<1>5. x \in 0..n - 1
  BY <1>1, <1>3, <1>4, ProbeFacts
<1>. QED
  BY <1>2, <1>3, <1>5 DEF Passing

(* erase of a key that is found, without With. *)
LEMMA EraseIs ==
  ASSUME NEW m, NEW n, MapOf(m, n), NEW k \in Keys, NEW f, FoundAt(m, n, k, f), \A x \in Passed(m, k, f) : m[x].chns # 0
  PROVE  EraseFrom(m, n, k, f, nfos_map_erase(m, k))
<1>1. Capacity(m) = n /\ DOMAIN m = 0..n - 1 /\ n \in Nat \ {0} /\ f \in 0..n - 1
  BY CapacityIs DEF MapOf, FoundAt
<1>2. Distance(m, k) = f /\ f # n
  BY <1>1, FoundDistance
<1>. DEFINE A == [x \in DOMAIN m |-> IF x \in Passed(m, k, f) THEN [m[x] EXCEPT !.chns = @ + (-1)] ELSE m[x]]
            P == [A EXCEPT ![Probe(m, k, f)] = Freed(@)]
<1>3. AddToChains(m, k, f, -1) = A
  <2>. DEFINE T == {[x \in DOMAIN m |-> IF x \in p THEN [m[x] EXCEPT !.chns = @ + (-1)] ELSE m[x]] : p \in {Passed(m, k, f)}}
  <2>1. AddToChains(m, k, f, -1) = CHOOSE y \in T : TRUE
    BY DEF AddToChains, With, Passed
  <2>2. T = {A}
    OBVIOUS
  <2>. HIDE DEF T, A
  <2>. QED
    BY <2>1, <2>2, OnlyChoice
<1>4. nfos_map_erase(m, k) = P
  <2>. DEFINE F(i) == IF i = Capacity(m) THEN m
                      ELSE [AddToChains(m, k, i, -1) EXCEPT ![Probe(m, k, i)] = Freed(@)]
              T == {F(i) : i \in {Distance(m, k)}}
  <2>1. nfos_map_erase(m, k) = CHOOSE y \in T : TRUE
    BY DEF nfos_map_erase, With
  <2>2. F(f) = P
    BY <1>1, <1>2, <1>3
  <2>3. T = {P}
    <3>. HIDE DEF F, P
    <3>. QED
      BY <1>2, <2>2
  <2>. HIDE DEF T, P
  <2>. QED
    BY <2>1, <2>3, OnlyChoice
<1>5. ASSUME NEW x \in 0..n - 1
      PROVE  /\ m[x] \in CellOf
             /\ A[x] \in CellOf /\ A[x].busybits = m[x].busybits /\ A[x].key = m[x].key /\ A[x].vals = m[x].vals
             /\ A[x].chns = m[x].chns - (IF x \in Passed(m, k, f) THEN 1 ELSE 0)
  <2>1. m[x] \in CellOf
    BY DEF MapOf
  <2>2. x \in Passed(m, k, f) => m[x].chns + (-1) \in Nat /\ m[x].chns + (-1) = m[x].chns - 1
    BY <2>1 DEF CellOf
  <2>. QED
    BY <1>1, <2>1, <2>2 DEF CellOf
<1>6. Probe(m, k, f) \in 0..n - 1
  BY <1>1, ProbeFacts
<1>7. Probe(m, k, f) \notin Passed(m, k, f)
  <2>. SUFFICES ASSUME NEW j \in 0..f - 1, Probe(m, k, j) = Probe(m, k, f) PROVE FALSE
    BY DEF Passed
  <2>1. j \in 0..n - 1 /\ j # f
    BY <1>1
  <2>. QED
    BY <2>1, <1>1, ProbeFacts
<1>8. PICK y : y = Probe(m, k, f)
  OBVIOUS
<1>. DEFINE c == Freed(A[y])
<1>9. c \in CellOf /\ c.chns = m[y].chns /\ c.busybits = 0
  <2>1. A[y] \in CellOf /\ A[y].chns = m[y].chns /\ A[y].chns \in Nat
    BY <1>5, <1>6, <1>7, <1>8 DEF CellOf, MapOf
  <2>2. PICK v \in Int : v = NoValue
    BY DEF NoValue
  <2>3. c = [A[y] EXCEPT !.busybits = 0, !.key = NoKey, !.vals = v]
    BY <2>2 DEF Freed
  <2>. HIDE DEF A, c
  <2>. QED
    BY <2>1, <2>3 DEF CellOf
<1>10. P = [A EXCEPT ![y] = c] /\ DOMAIN A = 0..n - 1
  BY <1>1, <1>8
<1>. HIDE DEF A, c, P
<1>11. ASSUME NEW x \in 0..n - 1 PROVE P[x] = IF x = y THEN c ELSE A[x]
  BY <1>10
<1>12. P \in [0..n - 1 -> CellOf]
  <2>1. DOMAIN P = 0..n - 1 /\ P = [x \in 0..n - 1 |-> P[x]]
    BY <1>10
  <2>2. \A x \in 0..n - 1 : P[x] \in CellOf
    BY <1>5, <1>9, <1>11
  <2>. QED
    BY <2>1, <2>2
<1>13. MapOf(P, n)
  <2>1. ASSUME NEW x \in Busy(P) PROVE P[x].key \in Keys
    <3>1. x \in 0..n - 1 /\ P[x].busybits # 0
      BY <1>12 DEF Busy
    <3>2. x # y
      BY <3>1, <1>9, <1>11
    <3>3. P[x] = A[x] /\ m[x].busybits # 0 /\ P[x].key = m[x].key
      BY <3>1, <3>2, <1>11, <1>5
    <3>. QED
      BY <3>3, <3>1, <1>1 DEF MapOf, Busy
  <2>. QED
    BY <2>1, <1>12, <1>1 DEF MapOf
<1>14. ASSUME NEW x \in 0..n - 1
       PROVE  /\ P[x].chns = m[x].chns - (IF x \in Passed(m, k, f) THEN 1 ELSE 0)
              /\ x # y => P[x].busybits = m[x].busybits /\ P[x].key = m[x].key /\ P[x].vals = m[x].vals
  <2>1. CASE x = y
    BY <2>1, <1>11, <1>9, <1>7, <1>8, <1>5 DEF CellOf
  <2>2. CASE x # y
    BY <2>2, <1>11, <1>5
  <2>. QED
    BY <2>1, <2>2
<1>15. P[y].busybits = 0
  BY <1>6, <1>8, <1>11, <1>9
<1>. QED
  BY <1>4, <1>8, <1>13, <1>14, <1>15 DEF EraseFrom

(* A cell that the searches of two keys pass counts both. *)
LEMMA TwoPassing ==
  ASSUME NEW m, NEW n, MapOf(m, n), NEW x \in 0..n - 1, m[x].chns = Cardinality(Passing(m, x)), NEW y \in Passing(m, x)
  PROVE  m[x].chns >= 1 /\ \A z \in Passing(m, x) : z # y => m[x].chns >= 2
<1>1. IsFiniteSet(Passing(m, x))
  BY PassingFinite
<1>2. Cardinality(Passing(m, x)) \in Nat /\ Cardinality(Passing(m, x)) # 0
  BY <1>1, FS_CardinalityType, FS_EmptySet
<1>3. ASSUME NEW z \in Passing(m, x), z # y PROVE m[x].chns >= 2
  <2>. DEFINE R == Passing(m, x) \ {y}
  <2>1. IsFiniteSet(R) /\ Cardinality(R) = Cardinality(Passing(m, x)) - 1
    BY <1>1, FS_RemoveElement
  <2>2. Cardinality(R) \in Nat /\ R # {}
    BY <2>1, <1>3, FS_CardinalityType
  <2>3. Cardinality(R) # 0
    BY <2>1, <2>2, FS_EmptySet
  <2>. HIDE DEF R
  <2>. QED
    BY <2>1, <2>2, <2>3, <1>2
<1>. QED
  BY <1>2, <1>3

(* erase keeps the searches of the other keys. *)
LEMMA EraseKeeps ==
  ASSUME NEW m, NEW n, MapOf(m, n), MapSound(m), NEW c \in Busy(m), NEW f, ReachedAt(m, n, c, f),
         NEW m2, EraseFrom(m, n, m[c].key, f, m2),
         NEW x \in Busy(m), x # c, NEW i, ReachedAt(m, n, x, i)
  PROVE  m2[x].key = m[x].key /\ ReachedAt(m2, n, x, i)
<1>. USE DEF ReachedAt
<1>. PICK k : k = m[c].key
  OBVIOUS
<1>1. Probe(m, k, f) = c /\ c \in 0..n - 1 /\ DOMAIN m = 0..n - 1 /\ k \in Keys
  BY CapacityIs DEF Busy, MapOf
<1>2. x \in 0..n - 1 /\ MapOf(m2, n) /\ m[x].busybits # 0
  BY <1>1 DEF EraseFrom, Busy
<1>3. m2[x].key = m[x].key /\ m2[x].busybits = m[x].busybits
  BY <1>1, <1>2 DEF EraseFrom
<1>4. PICK kx : kx = m[x].key
  OBVIOUS
<1>5. kx \in Keys
  BY <1>4 DEF MapOf
<1>6. ASSUME NEW j PROVE Probe(m2, kx, j) = Probe(m, kx, j)
  BY <1>2, SameProbe
<1>7. i \in 0..n - 1 /\ Holds(m2[Probe(m2, kx, i)], kx)
  BY <1>2, <1>3, <1>4, <1>6 DEF FoundAt, Holds
<1>8. ASSUME NEW j \in 0..i - 1
      PROVE  ~Holds(m2[Probe(m2, kx, j)], kx) /\ ~EndOfChain(m2[Probe(m2, kx, j)], kx)
  <2>1. PICK y : y = Probe(m, kx, j)
    OBVIOUS
  <2>2. j \in Nat /\ y \in 0..n - 1 /\ y \in Passed(m, kx, i)
    BY <2>1, <1>5, <1>7, ProbeFacts DEF Passed
  <2>3. ~Holds(m[y], kx)
    BY <2>1, <1>4 DEF FoundAt
  <2>4. m[y].chns = Cardinality(Passing(m, y)) /\ m[y].chns \in Nat
    <3>1. m[y] \in CellOf
      BY <2>2 DEF MapOf
    <3>. QED
      BY <3>1, <2>2, SoundMeans DEF CellOf
  <2>5. x \in Passing(m, y)
    BY <2>2, <1>4, CountsPassing
  <2>6. m2[y].chns = m[y].chns - (IF y \in Passed(m, k, f) THEN 1 ELSE 0)
    BY <2>2 DEF EraseFrom
  <2>7. m2[y].chns >= 1
    <3>1. CASE y \in Passed(m, k, f)
      <4>1. c \in Passing(m, y)
        BY <3>1, CountsPassing
      <4>2. m[y].chns >= 2
        BY <4>1, <2>2, <2>4, <2>5, TwoPassing
      <4>. QED
        BY <4>2, <2>4, <2>6, <3>1
    <3>2. CASE y \notin Passed(m, k, f)
      <4>1. m[y].chns >= 1
        BY <2>2, <2>4, <2>5, TwoPassing
      <4>. QED
        BY <4>1, <2>4, <2>6, <3>2
    <3>. QED
      BY <3>1, <3>2
  <2>8. ~Holds(m2[y], kx)
    <3>1. CASE y = c
      BY <3>1, <1>1 DEF EraseFrom, Holds
    <3>2. CASE y # c
      <4>1. m2[y].key = m[y].key /\ m2[y].busybits = m[y].busybits
        BY <3>2, <2>2, <1>1 DEF EraseFrom
      <4>. QED
        BY <4>1, <2>3 DEF Holds
    <3>. QED
      BY <3>1, <3>2
  <2>. QED
    BY <2>1, <2>7, <2>8, <1>6 DEF EndOfChain
<1>. QED
  BY <1>3, <1>4, <1>6, <1>7, <1>8 DEF FoundAt

(* What erase of a key takes out of a map. *)
LostEntry(m, n, c, m2) ==
  /\ MapOf(m2, n) /\ MapSound(m2) /\ Busy(m2) = Busy(m) \ {c}
  /\ \A x \in Busy(m2) : m2[x].key = m[x].key /\ m2[x].vals = m[x].vals

(* erase of a key that is in the map keeps it sound. *)
LEMMA EraseSound ==
  ASSUME NEW m, NEW n, MapOf(m, n), MapSound(m), NEW c \in Busy(m)
  PROVE  LostEntry(m, n, c, nfos_map_erase(m, m[c].key))
<1>. PICK k : k = m[c].key
  OBVIOUS
<1>. PICK m2 : m2 = nfos_map_erase(m, k)
  OBVIOUS
<1>1. DOMAIN m = 0..n - 1 /\ n \in Nat /\ k \in Keys /\ c \in 0..n - 1
  BY CapacityIs DEF MapOf, Busy
<1>2. /\ \A x, y \in Busy(m) : m[x].key = m[y].key => x = y
      /\ \A x \in Busy(m) : Reached(m, n, x)
      /\ \A x \in 0..n - 1 : m[x].chns = Cardinality(Passing(m, x))
  BY SoundMeans
<1>3. PICK f \in 0..n - 1 : ReachedAt(m, n, c, f)
  BY <1>2 DEF Reached
<1>4. FoundAt(m, n, k, f) /\ Probe(m, k, f) = c
  BY <1>3 DEF ReachedAt
<1>5. ASSUME NEW x \in Passed(m, k, f) PROVE m[x].chns # 0
  <2>1. c \in Passing(m, x) /\ x \in 0..n - 1
    BY <1>3, CountsPassing
  <2>2. m[x].chns >= 1
    BY <2>1, <1>2, TwoPassing
  <2>. QED
    BY <2>2
<1>6. EraseFrom(m, n, k, f, m2)
  BY <1>1, <1>4, <1>5, EraseIs
<1>7. MapOf(m2, n) /\ DOMAIN m2 = 0..n - 1 /\ m2[c].busybits = 0
  BY <1>4, <1>6, CapacityIs DEF EraseFrom
<1>8. ASSUME NEW x \in 0..n - 1, x # c
      PROVE  m2[x].busybits = m[x].busybits /\ m2[x].key = m[x].key /\ m2[x].vals = m[x].vals
  BY <1>4, <1>6, <1>8 DEF EraseFrom
<1>9. Busy(m2) = Busy(m) \ {c}
  BY <1>1, <1>7, <1>8 DEF Busy
<1>10. ASSUME NEW x \in Busy(m2) PROVE m2[x].key = m[x].key /\ m2[x].vals = m[x].vals /\ x \in Busy(m) /\ x # c
  <2>1. x \in Busy(m) /\ x # c /\ x \in 0..n - 1
    BY <1>1, <1>9 DEF Busy
  <2>. QED
    BY <2>1, <1>8
<1>11. \A x, y \in Busy(m2) : m2[x].key = m2[y].key => x = y
  BY <1>2, <1>10
<1>12. ASSUME NEW x \in Busy(m2)
       PROVE  Reached(m2, n, x) /\ Distance(m2, m2[x].key) = Distance(m, m[x].key)
  <2>1. Reached(m, n, x) /\ m2[x].key = m[x].key /\ m[x].key \in Keys /\ x \in Busy(m) /\ x # c
    BY <1>2, <1>10 DEF MapOf
  <2>2. PICK i \in 0..n - 1 : ReachedAt(m, n, x, i)
    BY <2>1 DEF Reached
  <2>3. ReachedAt(m2, n, x, i)
    BY <1>3, <1>6, <2>1, <2>2, EraseKeeps
  <2>4. Distance(m, m[x].key) = i
    BY <2>1, <2>2, FoundDistance DEF ReachedAt
  <2>5. Distance(m2, m2[x].key) = i
    BY <2>1, <2>3, <1>7, FoundDistance DEF ReachedAt
  <2>. QED
    BY <2>2, <2>3, <2>4, <2>5 DEF Reached
<1>13. ASSUME NEW x \in 0..n - 1 PROVE m2[x].chns = Cardinality(Passing(m2, x))
  <2>1. ASSUME NEW y \in Busy(m2) PROVE y \in Passing(m2, x) <=> y \in Passing(m, x)
    <3>1. m2[y].key = m[y].key /\ Distance(m2, m2[y].key) = Distance(m, m[y].key) /\ y \in Busy(m)
      BY <1>10, <1>12
    <3>2. ASSUME NEW i PROVE Probe(m2, m2[y].key, i) = Probe(m, m[y].key, i)
      BY <3>1, <1>7, SameProbe
    <3>. QED
      BY <3>1, <3>2 DEF Passing
  <2>2. c \in Passing(m, x) <=> x \in Passed(m, k, f)
    <3>1. Distance(m, k) = f
      BY <1>1, <1>4, FoundDistance
    <3>. QED
      BY <3>1 DEF Passing, Passed
  <2>3. Passing(m2, x) \subseteq Busy(m2) /\ Passing(m, x) \subseteq Busy(m2) \cup {c}
    BY <1>9 DEF Passing
  <2>4. m2[x].chns = m[x].chns - (IF x \in Passed(m, k, f) THEN 1 ELSE 0)
    BY <1>6 DEF EraseFrom
  <2>5. IsFiniteSet(Passing(m, x)) /\ m[x].chns = Cardinality(Passing(m, x)) /\ m[x].chns \in Nat
    <3>1. m[x] \in CellOf
      BY DEF MapOf
    <3>. QED
      BY <3>1, <1>2, PassingFinite DEF CellOf
  <2>6. CASE x \in Passed(m, k, f)
    <3>1. Passing(m2, x) = Passing(m, x) \ {c} /\ c \in Passing(m, x)
      BY <2>1, <2>2, <2>3, <2>6, <1>9
    <3>2. Cardinality(Passing(m, x) \ {c}) = Cardinality(Passing(m, x)) - 1
      BY <3>1, <2>5, FS_RemoveElement
    <3>. QED
      BY <3>1, <3>2, <2>4, <2>5, <2>6
  <2>7. CASE x \notin Passed(m, k, f)
    <3>1. Passing(m2, x) = Passing(m, x)
      BY <2>1, <2>2, <2>3, <2>7, <1>9
    <3>. QED
      BY <3>1, <2>4, <2>5, <2>7
  <2>. QED
    BY <2>6, <2>7
<1>14. MapSound(m2)
  BY <1>7, <1>11, <1>12, <1>13, SoundMeans
<1>. QED
  BY <1>7, <1>9, <1>10, <1>14 DEF LostEntry
-----------------------------------------------------------------------------
(* Tables.                                                                 *)

MapSize == next_pow2(Size)

(* The entries of the map are the allocated indexes, under their keys. *)
Entries(h, m, keys) ==
  \A x \in Busy(m) : m[x].vals \in Indexes /\ IsAllocated(h.chain, m[x].vals) /\ keys[m[x].vals] = m[x].key
Listing(h, m) == \A i \in Indexes : IsAllocated(h.chain, i) => \E x \in Busy(m) : m[x].vals = i

TableInv(h, m, keys, latest, lag) ==
  /\ HeapInv(h, latest, lag) /\ MapOf(m, MapSize) /\ MapSound(m) /\ keys \in [Indexes -> Keys \cup {NoKey}]
  /\ Entries(h, m, keys) /\ Listing(h, m)

Taken(h) == {i \in Indexes : IsAllocated(h.chain, i)}

(* The indexes are finitely many. *)
LEMMA TakenFinite ==
  ASSUME NEW h
  PROVE  IsFiniteSet(Taken(h)) /\ Cardinality(Taken(h)) \in 0..Size
<1>1. IsFiniteSet(Indexes) /\ Cardinality(Indexes) = Size
  BY DoubleChainAssumption, FS_Interval DEF Indexes
<1>2. Taken(h) \in SUBSET Indexes
  BY DEF Taken
<1>3. IsFiniteSet(Taken(h)) /\ Cardinality(Taken(h)) <= Size
  BY <1>1, <1>2, FS_Subset
<1>. QED
  BY <1>3, DoubleChainAssumption, FS_CardinalityType

(* No two entries have the same index. *)
LEMMA EntriesDiffer ==
  ASSUME NEW h, NEW m, NEW keys, NEW latest, NEW lag, TableInv(h, m, keys, latest, lag),
         NEW x \in Busy(m), NEW y \in Busy(m), m[x].vals = m[y].vals
  PROVE  x = y
<1>1. m[x].key = m[y].key
  BY DEF TableInv, Entries
<1>. QED
  BY <1>1 DEF TableInv, MapSound

(* There are as many entries as allocated indexes. *)
LEMMA SameNumber ==
  ASSUME NEW h, NEW m, NEW keys, NEW latest, NEW lag, TableInv(h, m, keys, latest, lag)
  PROVE  IsFiniteSet(Busy(m)) /\ Cardinality(Busy(m)) = Cardinality(Taken(h))
<1>. DEFINE f == [x \in Busy(m) |-> m[x].vals]
<1>1. IsFiniteSet(Busy(m))
  BY PassingFinite DEF TableInv
<1>2. f \in [Busy(m) -> Taken(h)]
  BY DEF TableInv, Entries, Taken
<1>3. \A x, y \in Busy(m) : f[x] = f[y] => x = y
  BY EntriesDiffer
<1>4. \A i \in Taken(h) : \E x \in Busy(m) : f[x] = i
  BY DEF TableInv, Listing, Taken
<1>. HIDE DEF f
<1>5. ExistsBijection(Busy(m), Taken(h))
  BY <1>2, <1>3, <1>4 DEF ExistsBijection, Bijection, Injection, Surjection, IsInjective
<1>. QED
  BY <1>1, <1>5, FS_Bijection

(* Such a table is sound. *)
LEMMA TableIsSound ==
  ASSUME NEW h, NEW m, NEW keys, NEW latest, NEW lag, TableInv(h, m, keys, latest, lag)
  PROVE  TableSound(h, m, keys)
<1>1. ChainSound(h.chain)
  BY HeapChain, SoundIfLabelled DEF TableInv
<1>2. Cardinality(Busy(m)) = Cardinality({i \in Indexes : nfos_dchain_exp_is_index_allocated(h, i)})
  BY SameNumber DEF Taken, nfos_dchain_exp_is_index_allocated
<1>. QED
  BY <1>1, <1>2 DEF TableSound, TableInv, Entries, nfos_dchain_exp_is_index_allocated

(* A new table. *)
LEMMA NewTable ==
  ASSUME NEW latest \in Int, NEW lag \in Int, lag >= 0, NEW keys \in [Indexes -> Keys \cup {NoKey}]
  PROVE  TableInv(nfos_dchain_exp_allocate, nfos_map_allocate(Size), keys, latest, lag)
<1>. PICK h, m : h = nfos_dchain_exp_allocate /\ m = nfos_map_allocate(Size)
  OBVIOUS
<1>1. HeapInv(h, latest, lag) /\ \A i \in Indexes : ~IsAllocated(h.chain, i)
  BY NewHeap
<1>2. MapSize \in Nat \ {0}
  BY DoubleChainAssumption, NextPow2 DEF MapSize
<1>3. m = [x \in 0..MapSize - 1 |-> FreeCell]
  BY DEF nfos_map_allocate, MapSize
<1>4. MapOf(m, MapSize) /\ MapSound(m) /\ Busy(m) = {}
  BY <1>2, <1>3, EmptySound
<1>. QED
  BY <1>1, <1>4 DEF TableInv, Entries, Listing

(* What get returns: an allocated index under the key, or nothing. *)
LEMMA TableGet ==
  ASSUME NEW h, NEW m, NEW keys, NEW latest, NEW lag, TableInv(h, m, keys, latest, lag), NEW k \in Keys
  PROVE  \/ nfos_map_get(m, k) = NoValue /\ NotIn(m, k)
         \/ /\ nfos_map_get(m, k) # NoValue /\ nfos_map_get(m, k) \in Indexes /\ IsAllocated(h.chain, nfos_map_get(m, k))
            /\ \E x \in Busy(m) : m[x].key = k /\ m[x].vals = nfos_map_get(m, k)
<1>1. MapOf(m, MapSize) /\ MapSound(m) /\ NoValue \notin Indexes
  BY DoubleChainAssumption DEF TableInv, NoValue, Indexes
<1>2. CASE NotIn(m, k)
  BY <1>1, <1>2, GetMisses
<1>3. CASE ~NotIn(m, k)
  <2>1. PICK x \in Busy(m) : m[x].key = k
    BY <1>3 DEF NotIn
  <2>2. nfos_map_get(m, k) = m[x].vals
    BY <1>1, <2>1, GetFinds
  <2>. QED
    BY <1>1, <2>1, <2>2 DEF TableInv, Entries
<1>. QED
  BY <1>2, <1>3

(* The map has room for an index that is not allocated. *)
LEMMA MapHasRoom ==
  ASSUME NEW h, NEW m, NEW keys, NEW latest, NEW lag, TableInv(h, m, keys, latest, lag), NEW i \in Indexes, ~IsAllocated(h.chain, i)
  PROVE  \E x \in 0..MapSize - 1 : x \notin Busy(m)
<1>. SUFFICES ASSUME \A x \in 0..MapSize - 1 : x \in Busy(m) PROVE FALSE
  OBVIOUS
<1>1. MapSize \in Nat \ {0} /\ MapSize >= Size /\ Size \in Nat
  BY DoubleChainAssumption, NextPow2 DEF MapSize
<1>2. Busy(m) = 0..MapSize - 1
  BY CapacityIs DEF TableInv, Busy
<1>3. Cardinality(Busy(m)) = MapSize
  BY <1>1, <1>2, FS_Interval
<1>4. Cardinality(Taken(h)) = MapSize
  BY <1>3, SameNumber
<1>5. IsFiniteSet(Indexes) /\ Cardinality(Indexes) = Size /\ Taken(h) \in SUBSET Indexes
  BY DoubleChainAssumption, FS_Interval DEF Indexes, Taken
<1>6. Cardinality(Taken(h)) <= Size /\ (Cardinality(Indexes) = Cardinality(Taken(h)) => Indexes = Taken(h))
  BY <1>5, FS_Subset
<1>7. Indexes = Taken(h)
  BY <1>1, <1>4, <1>5, <1>6
<1>. QED
  BY <1>7 DEF Taken

(* An index that is allocated for a new key. *)
LEMMA TableInsert ==
  ASSUME NEW h, NEW m, NEW keys, NEW latest, NEW lag, TableInv(h, m, keys, latest, lag), NEW k \in Keys, NotIn(m, k),
         NEW c, NEW t, NEW a, ExpAllocates(h, c, t, a, latest, lag), a.index # NoIndex
  PROVE  /\ TableInv(a.heap, nfos_map_put(m, k, a.index), BorrowMut(keys, a.index, k), latest, lag)
         /\ \E y : NewEntry(m, MapSize, k, a.index, nfos_map_put(m, k, a.index), y)
<1>. PICK i : i = a.index
  OBVIOUS
<1>. PICK m2, keys2, h2 : m2 = nfos_map_put(m, k, i) /\ keys2 = BorrowMut(keys, i, k) /\ h2 = a.heap
  OBVIOUS
<1>1. /\ i \in Indexes /\ HeapInv(h2, latest, lag) /\ ~IsAllocated(h.chain, i)
      /\ \A j \in Indexes : IsAllocated(h2.chain, j) <=> j = i \/ IsAllocated(h.chain, j)
  BY DEF ExpAllocates
<1>2. i \in Int /\ MapOf(m, MapSize) /\ MapSound(m)
  BY <1>1, DoubleChainAssumption DEF Indexes, TableInv
<1>3. \E x \in 0..MapSize - 1 : x \notin Busy(m)
  BY <1>1, MapHasRoom
<1>4. PICK y : NewEntry(m, MapSize, k, i, m2, y)
  BY <1>2, <1>3, PutNew
<1>5. /\ MapOf(m2, MapSize) /\ MapSound(m2) /\ y \notin Busy(m) /\ Busy(m2) = Busy(m) \cup {y}
      /\ m2[y].key = k /\ m2[y].vals = i
      /\ \A x \in Busy(m) : m2[x].key = m[x].key /\ m2[x].vals = m[x].vals
  BY <1>4 DEF NewEntry
<1>6. keys \in [Indexes -> Keys \cup {NoKey}]
  BY DEF TableInv
<1>7. keys2 \in [Indexes -> Keys \cup {NoKey}] /\ \A j \in Indexes : keys2[j] = IF j = i THEN k ELSE keys[j]
  BY <1>1, <1>6 DEF BorrowMut
<1>8. Entries(h2, m2, keys2)
  <2>1. ASSUME NEW x \in Busy(m)
        PROVE  m2[x].vals \in Indexes /\ IsAllocated(h2.chain, m2[x].vals) /\ keys2[m2[x].vals] = m2[x].key
    <3>1. m[x].vals \in Indexes /\ IsAllocated(h.chain, m[x].vals) /\ keys[m[x].vals] = m[x].key
      BY DEF TableInv, Entries
    <3>2. m[x].vals # i
      BY <3>1, <1>1
    <3>. QED
      BY <3>1, <3>2, <1>1, <1>5, <1>7
  <2>2. m2[y].vals \in Indexes /\ IsAllocated(h2.chain, m2[y].vals) /\ keys2[m2[y].vals] = m2[y].key
    BY <1>1, <1>5, <1>7
  <2>. QED
    BY <2>1, <2>2, <1>5 DEF Entries
<1>9. Listing(h2, m2)
  <2>. SUFFICES ASSUME NEW j \in Indexes, IsAllocated(h2.chain, j) PROVE \E x \in Busy(m2) : m2[x].vals = j
    BY DEF Listing
  <2>1. CASE j = i
    BY <2>1, <1>5
  <2>2. CASE j # i
    <3>1. PICK x \in Busy(m) : m[x].vals = j
      BY <2>2, <1>1 DEF TableInv, Listing
    <3>. QED
      BY <3>1, <1>5
  <2>. QED
    BY <2>1, <2>2
<1>. QED
  BY <1>1, <1>4, <1>5, <1>7, <1>8, <1>9 DEF TableInv

(* An index that is rejuvenated. *)
LEMMA TableRefresh ==
  ASSUME NEW h, NEW m, NEW keys, NEW latest, NEW lag, TableInv(h, m, keys, latest, lag), NEW i \in Indexes,
         NEW t, NEW h2, Rejuvenates(h, h2, i, t, latest, lag)
  PROVE  TableInv(h2, m, keys, latest, lag)
<1>1. HeapInv(h2, latest, lag) /\ \A j : IsAllocated(h2.chain, j) <=> IsAllocated(h.chain, j)
  BY DEF Rejuvenates, IsAllocated
<1>. QED
  BY <1>1 DEF TableInv, Entries, Listing

(* An index that expires, with its key. *)
LEMMA TableErase ==
  ASSUME NEW h, NEW m, NEW keys, NEW latest, NEW lag, TableInv(h, m, keys, latest, lag),
         NEW i, NEW h2, Expires(h, h2, i), HeapInv(h2, latest, lag)
  PROVE  /\ TableInv(h2, nfos_map_erase(m, keys[i]), keys, latest, lag)
         /\ \E y \in Busy(m) : m[y].vals = i /\ LostEntry(m, MapSize, y, nfos_map_erase(m, keys[i]))
<1>1. /\ i \in Indexes /\ IsAllocated(h.chain, i)
      /\ \A j \in Indexes : IsAllocated(h2.chain, j) <=> j # i /\ IsAllocated(h.chain, j)
  <2>1. ASSUME NEW j \in Indexes PROVE j + INDEX_SHIFT \in IndexCells /\ (j + INDEX_SHIFT = i + INDEX_SHIFT <=> j = i)
    <3>1. j \in Int /\ i \in Int /\ INDEX_SHIFT \in Int
      BY DoubleChainAssumption DEF Indexes, Expires, INDEX_SHIFT, GLOBAL_FREE_LIST_HEAD
    <3>. QED
      BY <3>1, CellFacts
  <2>. QED
    BY <2>1 DEF Expires, IsAllocated
<1>2. PICK y \in Busy(m) : m[y].vals = i
  BY <1>1 DEF TableInv, Listing
<1>3. keys[i] = m[y].key
  BY <1>2 DEF TableInv, Entries
<1>. PICK m2 : m2 = nfos_map_erase(m, keys[i])
  OBVIOUS
<1>4. LostEntry(m, MapSize, y, m2)
  BY <1>3, EraseSound DEF TableInv
<1>5. /\ MapOf(m2, MapSize) /\ MapSound(m2) /\ Busy(m2) = Busy(m) \ {y}
      /\ \A x \in Busy(m2) : m2[x].key = m[x].key /\ m2[x].vals = m[x].vals
  BY <1>4 DEF LostEntry
<1>6. Entries(h2, m2, keys)
  <2>. SUFFICES ASSUME NEW x \in Busy(m2)
                PROVE  m2[x].vals \in Indexes /\ IsAllocated(h2.chain, m2[x].vals) /\ keys[m2[x].vals] = m2[x].key
    BY DEF Entries
  <2>1. x \in Busy(m) /\ x # y /\ m2[x].key = m[x].key /\ m2[x].vals = m[x].vals
    BY <1>5
  <2>2. m[x].vals # i
    BY <2>1, <1>2, EntriesDiffer
  <2>3. m[x].vals \in Indexes /\ IsAllocated(h.chain, m[x].vals) /\ keys[m[x].vals] = m[x].key
    BY <2>1 DEF TableInv, Entries
  <2>. QED
    BY <2>1, <2>2, <2>3, <1>1
<1>7. Listing(h2, m2)
  <2>. SUFFICES ASSUME NEW j \in Indexes, IsAllocated(h2.chain, j) PROVE \E x \in Busy(m2) : m2[x].vals = j
    BY DEF Listing
  <2>1. j # i /\ IsAllocated(h.chain, j)
    BY <1>1
  <2>2. PICK x \in Busy(m) : m[x].vals = j
    BY <2>1 DEF TableInv, Listing
  <2>3. x # y
    BY <2>1, <2>2, <1>2
  <2>. QED
    BY <2>2, <2>3, <1>5
<1>. QED
  BY <1>2, <1>4, <1>5, <1>6, <1>7 DEF TableInv
-----------------------------------------------------------------------------
(* A pass of the periodic handler.                                         *)

(* Nothing was done to the table but to free cells that were overdue, and  *)
(* their entries with them.                                                *)
Survives(h, h2, now) ==
  \A x \in IndexCells :
    /\ h2.chain.list_ind[x] # -1 => h2.chain.list_ind[x] = h.chain.list_ind[x] /\ h2.time[x] = h.time[x]
    /\ h.chain.list_ind[x] # -1 /\ h2.chain.list_ind[x] = -1 => h.time[x] < now

Keeps(m, m2) == Busy(m2) \subseteq Busy(m) /\ \A x \in Busy(m2) : m2[x].key = m[x].key /\ m2[x].vals = m[x].vals

(* The states that a pass over a table goes through. *)
PassStates == [heap : Heaps, map : [0..MapSize - 1 -> CellOf], curr_free_list : Cores, expiration_done : BOOLEAN]

PassOf(h, m, keys, now, latest, lag) ==
  {s \in PassStates : TableInv(s.heap, s.map, keys, latest, lag) /\ Survives(h, s.heap, now) /\ Keeps(m, s.map)}

(* One step of it: the list of a core is clean, or an index expires. *)
PassMoves(s, s2, now, lag) ==
  \/ s.expiration_done /\ s2 = s
  \/ /\ ~s.expiration_done /\ s2.heap = s.heap /\ Clean(s.heap, s.curr_free_list, now, lag)
     /\ \/ ~s2.expiration_done /\ s2.curr_free_list = s.curr_free_list + 1
        \/ s2.expiration_done /\ s.curr_free_list + 1 = NumCores
  \/ /\ ~s.expiration_done /\ ~s2.expiration_done /\ s2.curr_free_list = s.curr_free_list
     /\ \E i : Expires(s.heap, s2.heap, i)

(* ExpireStep without With. *)
LEMMA ExpireStepIs ==
  ASSUME NEW s, NEW keys, NEW now, NEW e, e = nfos_dchain_exp_expire_one_index(s.heap, s.curr_free_list, now), ~s.expiration_done
  PROVE  ExpireStep(s, keys, now) =
           [heap |-> e.heap,
            map |-> IF e.index = NoIndex THEN s.map ELSE nfos_map_erase(s.map, keys[e.index]),
            curr_free_list |-> e.curr_free_list,
            expiration_done |-> e.expiration_done]
<1>. DEFINE F(q) == [heap |-> q.heap,
                     map |-> IF q.index = NoIndex THEN s.map ELSE nfos_map_erase(s.map, keys[q.index]),
                     curr_free_list |-> q.curr_free_list,
                     expiration_done |-> q.expiration_done]
            T == {F(q) : q \in {e}}
<1>1. ExpireStep(s, keys, now) = CHOOSE y \in T : TRUE
  BY DEF ExpireStep, With
<1>2. T = {F(e)}
  <2>. HIDE DEF F
  <2>. QED
    OBVIOUS
<1>3. ExpireStep(s, keys, now) = F(e)
  <2>. HIDE DEF F, T
  <2>. PICK r : r = F(e)
    OBVIOUS
  <2>. QED
    BY <1>1, <1>2, OnlyChoice
<1>. QED
  BY <1>3

(* A step stays within the pass. *)
LEMMA PassStep ==
  ASSUME NEW h, NEW m, NEW keys, NEW now \in Int, NEW latest, NEW lag, NEW s \in PassOf(h, m, keys, now, latest, lag)
  PROVE  ExpireStep(s, keys, now) \in PassOf(h, m, keys, now, latest, lag) /\ PassMoves(s, ExpireStep(s, keys, now), now, lag)
<1>. PICK s2 : s2 = ExpireStep(s, keys, now)
  OBVIOUS
<1>1. CASE s.expiration_done
  BY <1>1 DEF ExpireStep, PassMoves
<1>2. CASE ~s.expiration_done
  <2>. PICK c, g, p : c = s.curr_free_list /\ g = s.heap /\ p = s.map
    OBVIOUS
  <2>1. c \in Cores /\ TableInv(g, p, keys, latest, lag) /\ HeapInv(g, latest, lag) /\ Survives(h, g, now) /\ Keeps(m, p)
    BY DEF PassOf, PassStates, TableInv
  <2>2. PICK e : e = nfos_dchain_exp_expire_one_index(g, c, now)
    OBVIOUS
  <2>3. ExpireOne(g, c, now, e, latest, lag)
    BY <2>1, <2>2, ExpireOneIndex
  <2>4. s2 = [heap |-> e.heap,
              map |-> IF e.index = NoIndex THEN p ELSE nfos_map_erase(p, keys[e.index]),
              curr_free_list |-> e.curr_free_list,
              expiration_done |-> e.expiration_done]
    BY <1>2, <2>2, ExpireStepIs
  <2>5. CASE /\ e.index = NoIndex /\ e.heap = g /\ Clean(g, c, now, lag)
             /\ e.curr_free_list = (c + 1) % NumCores /\ e.expiration_done = (c + 1 >= NumCores)
    <3>1. PICK c2 : c2 = (c + 1) % NumCores
      OBVIOUS
    <3>1a. PICK done \in BOOLEAN : done = e.expiration_done /\ (done <=> c + 1 >= NumCores)
      <4>0. c \in Int /\ NumCores \in Int
        BY <2>1, DoubleChainAssumption DEF Cores
      <4>1. CASE c + 1 >= NumCores
        <5>1. e.expiration_done = TRUE
          BY <2>5, <4>1
        <5>. QED
          BY <4>1, <5>1
      <4>2. CASE ~(c + 1 >= NumCores)
        <5>1. e.expiration_done = (c + 1 >= NumCores)
          BY <2>5
        <5>2. (c + 1 >= NumCores) = FALSE
          BY <4>0, <4>2
        <5>3. e.expiration_done = FALSE
          BY <5>1, <5>2, Zenon
        <5>. QED
          BY <4>2, <5>3
      <4>. QED
        BY <4>1, <4>2
    <3>2. s2 = [heap |-> g, map |-> p, curr_free_list |-> c2, expiration_done |-> done]
      BY <2>4, <2>5, <3>1, <3>1a
    <3>3. s2.heap = g /\ s2.map = p /\ s2.curr_free_list = c2 /\ s2.expiration_done = done
      BY <3>2
    <3>4. c2 \in Cores /\ (~done => c2 = c + 1) /\ (done => c + 1 = NumCores) /\ done \in BOOLEAN
      <4>1. NumCores \in Nat /\ NumCores > 0 /\ c \in 0..NumCores - 1 /\ Cores = 0..NumCores - 1
        BY <2>1, DoubleChainAssumption DEF Cores
      <4>2. PICK n \in Nat : n = NumCores
        BY <4>1
      <4>3. CASE c + 1 >= n
        <5>1. c + 1 = n /\ n > 0
          BY <4>1, <4>2, <4>3
        <5>2. n % n = 0
          BY <5>1
        <5>3. c2 = 0 /\ 0 \in Cores
          BY <3>1, <4>1, <4>2, <5>1, <5>2
        <5>. QED
          BY <3>1a, <4>2, <4>3, <5>1, <5>3
      <4>4. CASE ~(c + 1 >= n)
        <5>1. c + 1 \in 0..n - 1
          BY <4>1, <4>2, <4>4
        <5>2. (c + 1) % n = c + 1
          BY <5>1
        <5>. QED
          BY <3>1, <3>1a, <4>1, <4>2, <4>4, <5>1, <5>2
      <4>. QED
        BY <4>3, <4>4
    <3>5. s2 \in PassStates
      <4>1. g \in Heaps /\ p \in [0..MapSize - 1 -> CellOf]
        BY DEF PassOf, PassStates
      <4>. QED
        BY <3>2, <3>4, <4>1 DEF PassStates
    <3>6. s2 \in PassOf(h, m, keys, now, latest, lag)
      BY <2>1, <3>3, <3>5 DEF PassOf
    <3>7. PassMoves(s, s2, now, lag)
      BY <1>2, <2>5, <3>3, <3>4 DEF PassMoves
    <3>. QED
      BY <3>6, <3>7
  <2>6. CASE /\ e.index # NoIndex /\ Expires(g, e.heap, e.index) /\ HeapInv(e.heap, latest, lag)
             /\ g.time[e.index + INDEX_SHIFT] < now
             /\ e.curr_free_list = c /\ e.expiration_done = FALSE
    <3>1. PICK i, g2, p2 : i = e.index /\ g2 = e.heap /\ p2 = nfos_map_erase(p, keys[i])
      OBVIOUS
    <3>2. s2 = [heap |-> g2, map |-> p2, curr_free_list |-> c, expiration_done |-> FALSE]
      BY <2>4, <2>6, <3>1
    <3>3. s2.heap = g2 /\ s2.map = p2 /\ s2.curr_free_list = c /\ s2.expiration_done = FALSE
      BY <3>2
    <3>4. Expires(g, g2, i) /\ HeapInv(g2, latest, lag) /\ g.time[i + INDEX_SHIFT] < now
      BY <2>6, <3>1
    <3>5. /\ TableInv(g2, p2, keys, latest, lag)
          /\ \E y \in Busy(p) : p[y].vals = i /\ LostEntry(p, MapSize, y, p2)
      BY <2>1, <3>1, <3>4, TableErase
    <3>6. g2 \in Heaps /\ p2 \in [0..MapSize - 1 -> CellOf]
      BY <3>5 DEF TableInv, HeapInv, MapOf
    <3>7. s2 \in PassStates
      BY <2>1, <3>2, <3>6 DEF PassStates
    <3>8. Keeps(m, p2)
      BY <2>1, <3>5 DEF Keeps, LostEntry
    <3>9. Survives(h, g2, now)
      <4>. SUFFICES ASSUME NEW x \in IndexCells
                    PROVE  /\ g2.chain.list_ind[x] # -1 => g2.chain.list_ind[x] = h.chain.list_ind[x] /\ g2.time[x] = h.time[x]
                           /\ h.chain.list_ind[x] # -1 /\ g2.chain.list_ind[x] = -1 => h.time[x] < now
        BY DEF Survives
      <4>1. /\ g.chain.list_ind[x] # -1 => g.chain.list_ind[x] = h.chain.list_ind[x] /\ g.time[x] = h.time[x]
            /\ h.chain.list_ind[x] # -1 /\ g.chain.list_ind[x] = -1 => h.time[x] < now
        BY <2>1 DEF Survives
      <4>2. CASE x = i + INDEX_SHIFT
        <5>1. g.chain.list_ind[x] # -1 /\ g2.chain.list_ind[x] = -1
          BY <3>4, <4>2 DEF Expires, IsAllocated
        <5>2. g.time[x] < now
          BY <3>4, <4>2
        <5>. QED
          BY <4>1, <5>1, <5>2
      <4>3. CASE x # i + INDEX_SHIFT
        <5>1. g2.chain.list_ind[x] = g.chain.list_ind[x] /\ g2.time[x] = g.time[x]
          BY <3>4, <4>3 DEF Expires
        <5>. QED
          BY <4>1, <5>1
      <4>. QED
        BY <4>2, <4>3
    <3>10. s2 \in PassOf(h, m, keys, now, latest, lag)
      BY <3>3, <3>5, <3>7, <3>8, <3>9 DEF PassOf
    <3>11. PassMoves(s, s2, now, lag)
      BY <1>2, <3>3, <3>4 DEF PassMoves
    <3>. QED
      BY <3>10, <3>11
  <2>. QED
    BY <2>3, <2>5, <2>6 DEF ExpireOne
<1>. QED
  BY <1>1, <1>2

PassSteps == Size + NumCores

PassStart(h, m) == [heap |-> h, map |-> m, curr_free_list |-> 0, expiration_done |-> FALSE]

PassHop(r, keys, now) == With(r, LAMBDA s : ExpireStep(s, keys, now))

PassEq(h, m, keys, now, g) ==
  g = [n \in 0..Size + NumCores |-> IF n = 0 THEN [heap |-> h, map |-> m, curr_free_list |-> 0, expiration_done |-> FALSE]
                                            ELSE PassHop(g[n - 1], keys, now)]

(* PassHop without With. *)
LEMMA PassHopIs ==
  ASSUME NEW s, NEW keys, NEW now
  PROVE  PassHop(s, keys, now) = ExpireStep(s, keys, now)
<1>. DEFINE T == {ExpireStep(q, keys, now) : q \in {s}}
<1>1. PassHop(s, keys, now) = CHOOSE y \in T : TRUE
  BY DEF PassHop, With
<1>2. T = {ExpireStep(s, keys, now)}
  OBVIOUS
<1>. HIDE DEF T
<1>. QED
  BY <1>1, <1>2, OnlyChoice

(* f are the states after each step of the loop of the handler. *)
PassRun(h, m, keys, now, latest, lag, f) ==
  /\ f[0] = PassStart(h, m) /\ ExpireAll(h, m, keys, now) = f[PassSteps]
  /\ \A n \in 0..PassSteps : f[n] \in PassOf(h, m, keys, now, latest, lag)
  /\ \A n \in 0..PassSteps - 1 : f[n + 1] = ExpireStep(f[n], keys, now)

(* The loop makes as many steps as the model gives it. *)
LEMMA PassRuns ==
  ASSUME NEW h, NEW m, NEW keys, NEW now \in Int, NEW latest, NEW lag, TableInv(h, m, keys, latest, lag)
  PROVE  \E f : PassRun(h, m, keys, now, latest, lag, f)
<1>. DEFINE S == PassOf(h, m, keys, now, latest, lag)
            hop == [s \in S |-> ExpireStep(s, keys, now)]
            step == [n \in 1..PassSteps |-> hop]
            after == CHOOSE g : PassEq(h, m, keys, now, g)
<1>. PICK a : a = PassStart(h, m)
  OBVIOUS
<1>1. PassSteps \in Nat /\ PassSteps = Size + NumCores /\ \A n \in 1..PassSteps : n - 1 \in 0..PassSteps
  BY DoubleChainAssumption DEF PassSteps
<1>2. a \in S
  <2>1. h \in Heaps /\ m \in [0..MapSize - 1 -> CellOf] /\ 0 \in Cores
    BY DoubleChainAssumption DEF TableInv, HeapInv, MapOf, Cores
  <2>2. a \in PassStates /\ a.heap = h /\ a.map = m
    BY <2>1 DEF PassStates, PassStart
  <2>3. Survives(h, h, now) /\ Keeps(m, m)
    BY DEF Survives, Keeps
  <2>. QED
    BY <2>2, <2>3 DEF PassOf
<1>3. step \in Steps(PassSteps, S)
  <2>1. \A s \in S : ExpireStep(s, keys, now) \in S
    BY PassStep
  <2>. HIDE DEF S
  <2>2. hop \in [S -> S]
    BY <2>1
  <2>. HIDE DEF hop
  <2>. QED
    BY <2>2 DEF Steps
<1>. HIDE DEF S
<1>4. PICK f : Computes(f, PassSteps, S, a, step)
  <2>. HIDE DEF step
  <2>. QED
    BY <1>1, <1>2, <1>3, Recursion
<1>5. f \in [0..PassSteps -> S] /\ f[0] = a /\ \A n \in 1..PassSteps : f[n] = step[n][f[n - 1]]
  <2>. HIDE DEF step
  <2>. QED
    BY <1>4 DEF Computes
<1>6. ASSUME NEW n \in 1..PassSteps PROVE f[n - 1] \in S /\ f[n] = PassHop(f[n - 1], keys, now)
  <2>1. f[n - 1] \in S
    BY <1>1, <1>5
  <2>2. step[n] = hop
    <3>. HIDE DEF hop
    <3>. QED
      OBVIOUS
  <2>3. f[n] = ExpireStep(f[n - 1], keys, now)
    BY <1>5, <2>1, <2>2
  <2>. QED
    BY <2>1, <2>3, PassHopIs
<1>7. PassEq(h, m, keys, now, f)
  <2>1. \A n \in 0..PassSteps : f[n] = IF n = 0 THEN a ELSE PassHop(f[n - 1], keys, now)
    BY <1>1, <1>5, <1>6
  <2>2. f = [n \in 0..PassSteps |-> IF n = 0 THEN a ELSE PassHop(f[n - 1], keys, now)]
    BY <1>5, <2>1
  <2>. QED
    BY <1>1, <2>2 DEF PassEq, PassStart
<1>8. PassEq(h, m, keys, now, after)
  BY <1>7
<1>9. ExpireAll(h, m, keys, now) = after[PassSteps]
  BY DEF ExpireAll, PassEq, PassHop, PassSteps
<1>. HIDE DEF after
<1>10. \A n \in 0..PassSteps : after[n] = IF n = 0 THEN a ELSE PassHop(after[n - 1], keys, now)
  BY <1>1, <1>8 DEF PassEq, PassStart
<1>11. \A n \in 0..PassSteps : after[n] \in S
  <2>. DEFINE T == {i \in 0..PassSteps : after[i] \in S}
  <2>1. 0 \in T
    BY <1>1, <1>2, <1>10
  <2>2. ASSUME NEW i \in 0..PassSteps - 1, i \in T PROVE i + 1 \in T
    <3>1. i + 1 \in 0..PassSteps /\ (i + 1) - 1 = i /\ i + 1 # 0 /\ after[i] \in S
      BY <1>1, <2>2
    <3>2. after[i + 1] = PassHop(after[i], keys, now)
      BY <1>10, <3>1
    <3>3. ExpireStep(after[i], keys, now) \in S
      BY <3>1, PassStep DEF S
    <3>. QED
      BY <3>1, <3>2, <3>3, PassHopIs
  <2>3. \A i \in 0..PassSteps - 1 : i \in T => i + 1 \in T
    BY <2>2
  <2>4. \A n \in 0..PassSteps : n \in T
    <3>. HIDE DEF T
    <3>. QED
      BY <1>1, <2>1, <2>3, Induction
  <2>. QED
    BY <2>4
<1>12. ASSUME NEW n \in 0..PassSteps - 1 PROVE after[n + 1] = ExpireStep(after[n], keys, now)
  <2>1. n + 1 \in 0..PassSteps /\ (n + 1) - 1 = n /\ n + 1 # 0
    BY <1>1
  <2>2. after[n + 1] = PassHop(after[n], keys, now)
    BY <1>10, <2>1
  <2>. QED
    BY <2>2, PassHopIs
<1>13. after[0] = a
  BY <1>1, <1>10
<1>. QED
  BY <1>9, <1>11, <1>12, <1>13 DEF S, PassRun

(* How far a pass is after n steps: the lists it has passed are clean, and *)
(* every step either passed a list or freed an index.                      *)
PassFar(s, n, now, lag) ==
  /\ \A c \in Cores : c < s.curr_free_list \/ s.expiration_done => Clean(s.heap, c, now, lag)
  /\ s.expiration_done \/ n <= (Size - Cardinality(Taken(s.heap))) + s.curr_free_list

(* A step makes progress. *)
LEMMA PassProgress ==
  ASSUME NEW h, NEW m, NEW keys, NEW now \in Int, NEW latest, NEW lag, NEW s \in PassOf(h, m, keys, now, latest, lag),
         NEW s2 \in PassOf(h, m, keys, now, latest, lag), PassMoves(s, s2, now, lag), NEW n \in Nat, PassFar(s, n, now, lag)
  PROVE  PassFar(s2, n + 1, now, lag)
<1>. PICK c, c2, g, g2 : c = s.curr_free_list /\ c2 = s2.curr_free_list /\ g = s.heap /\ g2 = s2.heap
  OBVIOUS
<1>. PICK k, k2 : k = Cardinality(Taken(g)) /\ k2 = Cardinality(Taken(g2))
  OBVIOUS
<1>1. c \in 0..NumCores - 1 /\ c2 \in 0..NumCores - 1 /\ NumCores \in Nat /\ Size \in Nat /\ Cores = 0..NumCores - 1
  BY DoubleChainAssumption DEF PassOf, PassStates, Cores
<1>2. k \in 0..Size /\ k2 \in 0..Size
  BY TakenFinite
<1>3. /\ \A d \in Cores : d < c \/ s.expiration_done => Clean(g, d, now, lag)
      /\ s.expiration_done \/ n <= (Size - k) + c
  BY DEF PassFar
<1>4. CASE s.expiration_done /\ s2 = s
  BY <1>3, <1>4 DEF PassFar
<1>5. CASE ~s.expiration_done /\ g2 = g /\ Clean(g, c, now, lag) /\ ~s2.expiration_done /\ c2 = c + 1
  <2>1. \A d \in Cores : d < c2 => d < c \/ d = c
    BY <1>1, <1>5
  <2>2. n + 1 <= (Size - k2) + c2
    <3>1. k2 = k /\ c2 = c + 1 /\ n <= (Size - k) + c
      BY <1>3, <1>5
    <3>2. k \in Int /\ c \in Int /\ n \in Int /\ Size \in Int
      BY <1>1, <1>2
    <3>. QED
      BY <3>1, <3>2
  <2>. QED
    BY <1>3, <1>5, <2>1, <2>2 DEF PassFar
<1>6. CASE ~s.expiration_done /\ g2 = g /\ Clean(g, c, now, lag) /\ s2.expiration_done /\ c + 1 = NumCores
  <2>1. \A d \in Cores : d < c \/ d = c
    BY <1>1, <1>6
  <2>. QED
    BY <1>3, <1>6, <2>1 DEF PassFar
<1>7. CASE ~s.expiration_done /\ ~s2.expiration_done /\ c2 = c /\ \E i : Expires(g, g2, i)
  <2>1. PICK i : Expires(g, g2, i)
    BY <1>7
  <2>2. i \in Indexes /\ i \in Taken(g)
    BY <2>1 DEF Expires, Taken
  <2>3. Taken(g2) = Taken(g) \ {i}
    <3>1. ASSUME NEW j \in Indexes PROVE IsAllocated(g2.chain, j) <=> j # i /\ IsAllocated(g.chain, j)
      <4>1. j \in Int /\ i \in Int /\ INDEX_SHIFT \in Int
        BY <2>2, DoubleChainAssumption DEF Indexes, INDEX_SHIFT, GLOBAL_FREE_LIST_HEAD
      <4>2. j + INDEX_SHIFT \in IndexCells /\ (j + INDEX_SHIFT = i + INDEX_SHIFT <=> j = i)
        BY <4>1, CellFacts
      <4>. QED
        BY <2>1, <4>2 DEF Expires, IsAllocated
    <3>. QED
      BY <3>1 DEF Taken
  <2>4. k2 = k - 1
    BY <2>2, <2>3, TakenFinite, FS_RemoveElement
  <2>5. n + 1 <= (Size - k2) + c2
    <3>1. k2 = k - 1 /\ c2 = c /\ n <= (Size - k) + c
      BY <1>3, <1>7, <2>4
    <3>2. k \in Int /\ c \in Int /\ n \in Int /\ Size \in Int
      BY <1>1, <1>2
    <3>. QED
      BY <3>1, <3>2
  <2>6. ASSUME NEW d \in Cores, Clean(g, d, now, lag) PROVE Clean(g2, d, now, lag)
    <3>. SUFFICES ASSUME NEW x \in IndexCells, g2.chain.list_ind[x] = d PROVE now <= g2.time[x] + lag
      BY DEF Clean
    <3>1. d # -1
      BY <1>1
    <3>2. x # i + INDEX_SHIFT
      BY <2>1, <3>1 DEF Expires
    <3>3. g2.chain.list_ind[x] = g.chain.list_ind[x] /\ g2.time[x] = g.time[x]
      BY <2>1, <3>2 DEF Expires
    <3>. QED
      BY <2>6, <3>3 DEF Clean
  <2>. QED
    BY <1>3, <1>7, <2>5, <2>6 DEF PassFar
<1>. QED
  BY <1>4, <1>5, <1>6, <1>7 DEF PassMoves

(* The whole pass: the table is sound, every list is clean, and only       *)
(* overdue entries are gone.                                               *)
PassDoes(h, m, s, keys, now, latest, lag) ==
  /\ TableInv(s.heap, s.map, keys, latest, lag) /\ Survives(h, s.heap, now) /\ Keeps(m, s.map)
  /\ \A c \in Cores : Clean(s.heap, c, now, lag)

(* ExpireAll is one. *)
LEMMA ExpireAllDoes ==
  ASSUME NEW h, NEW m, NEW keys, NEW now \in Int, NEW latest, NEW lag, TableInv(h, m, keys, latest, lag)
  PROVE  PassDoes(h, m, ExpireAll(h, m, keys, now), keys, now, latest, lag)
<1>. PICK k : k = PassSteps
  OBVIOUS
<1>1. k \in Nat /\ k = Size + NumCores /\ Size \in Nat /\ NumCores \in Nat /\ Cores = 0..NumCores - 1
  BY DoubleChainAssumption DEF PassSteps, Cores
<1>2. PICK f : PassRun(h, m, keys, now, latest, lag, f)
  BY PassRuns
<1>3. /\ f[0] = PassStart(h, m) /\ ExpireAll(h, m, keys, now) = f[k]
      /\ \A n \in 0..k : f[n] \in PassOf(h, m, keys, now, latest, lag)
      /\ \A n \in 0..k - 1 : f[n + 1] = ExpireStep(f[n], keys, now)
  BY <1>2 DEF PassRun
<1>. DEFINE T == {n \in 0..k : PassFar(f[n], n, now, lag)}
<1>4. 0 \in T
  <2>1. f[0].curr_free_list = 0 /\ f[0].expiration_done = FALSE
    BY <1>3 DEF PassStart
  <2>2. PICK q : q = Cardinality(Taken(f[0].heap))
    OBVIOUS
  <2>3. q \in 0..Size
    BY <2>2, TakenFinite
  <2>4. 0 <= (Size - q) + 0
    BY <1>1, <2>3
  <2>5. \A c \in Cores : ~(c < 0)
    BY <1>1
  <2>6. PassFar(f[0], 0, now, lag)
    BY <2>1, <2>2, <2>4, <2>5 DEF PassFar
  <2>. QED
    BY <1>1, <2>6
<1>5. ASSUME NEW n \in 0..k - 1, n \in T PROVE n + 1 \in T
  <2>1. n \in 0..k /\ n + 1 \in 0..k /\ n \in Nat /\ PassFar(f[n], n, now, lag)
    BY <1>1, <1>5
  <2>2. f[n] \in PassOf(h, m, keys, now, latest, lag) /\ f[n + 1] \in PassOf(h, m, keys, now, latest, lag)
    BY <1>3, <2>1
  <2>3. PassMoves(f[n], f[n + 1], now, lag)
    BY <1>3, <2>2, PassStep
  <2>4. PassFar(f[n + 1], n + 1, now, lag)
    BY <2>1, <2>2, <2>3, PassProgress
  <2>. QED
    BY <2>1, <2>4
<1>6. k \in T
  <2>1. \A n \in 0..k - 1 : n \in T => n + 1 \in T
    BY <1>5
  <2>2. \A n \in 0..k : n \in T
    <3>. HIDE DEF T
    <3>. QED
      BY <1>1, <1>4, <2>1, Induction
  <2>. QED
    BY <1>1, <2>2
<1>7. PICK s : s = f[k]
  OBVIOUS
<1>8. PassFar(s, k, now, lag) /\ s \in PassOf(h, m, keys, now, latest, lag)
  BY <1>1, <1>3, <1>6, <1>7
<1>9. s.expiration_done
  <2>1. PICK q, c : q = Cardinality(Taken(s.heap)) /\ c = s.curr_free_list
    OBVIOUS
  <2>2. q \in 0..Size /\ c \in Cores
    BY <1>8, <2>1, TakenFinite DEF PassOf, PassStates
  <2>3. ~(k <= (Size - q) + c)
    BY <1>1, <2>2
  <2>. QED
    BY <1>8, <2>1, <2>3 DEF PassFar
<1>. QED
  BY <1>3, <1>7, <1>8, <1>9 DEF PassDoes, PassOf, PassFar
-----------------------------------------------------------------------------
(* The bridge.                                                             *)

Latest == clock + validity_duration

(* The table of addresses, with the latest time of an entry. *)
Sound == TableInv(dyn_heap, dyn_map, dyn_macs, Latest, MaxLag)

(* The values of the indexes: that of an allocated one has a device and    *)
(* the time from which the time in the heap is counted.                    *)
ValuesInv ==
  /\ dyn_vals \in [Indexes -> [dev : Devices \cup {0}, time : Int]]
  /\ \A i \in Indexes : IsAllocated(dyn_heap.chain, i) =>
       dyn_vals[i].dev \in Devices /\ dyn_heap.time[i + INDEX_SHIFT] = dyn_vals[i].time + validity_duration

(* A known station was last seen at most a refresh interval after the time *)
(* of its value.                                                           *)
SeenInv ==
  /\ last_seen \in [Macs -> Nat]
  /\ \A x \in Busy(dyn_map) :
       /\ last_seen[dyn_map[x].key] <= clock
       /\ last_seen[dyn_map[x].key] <= dyn_vals[dyn_map[x].vals].time + REFRESH_INTERVAL
  /\ \A k \in Macs : NotIn(dyn_map, k) => last_seen[k] = 0

TimeInv == clock \in Nat /\ exp_now \in {NoTime} \cup 0..clock

BridgeInv == TimeInv /\ Sound /\ ValuesInv /\ SeenInv

(* The constants of the bridge. *)
LEMMA BridgeConstants ==
  /\ Keys = Macs /\ Devices \subseteq Nat /\ validity_duration \in Nat /\ MaxLag \in Nat
  /\ REFRESH_INTERVAL \in Nat /\ INT64_MAX \in Int
  /\ \A f \in Frames : f[1] \in Macs /\ f[2] \in Macs /\ f[3] \in Devices /\ f = <<f[1], f[2], f[3]>>
  BY BridgeAssumption, PeriodicExpiryAssumption, DoubleChainExpAssumption DEF Keys

(* The initial table is empty. *)
LEMMA BridgeStarts ==
  ASSUME BridgeInit PROVE BridgeInv
<1>1. TimeInv
  BY DEF BridgeInit, TimeInv
<1>2. Latest \in Int /\ MaxLag \in Int /\ MaxLag >= 0 /\ Size \in Nat
  BY BridgeConstants, DoubleChainAssumption DEF BridgeInit, Latest
<1>3. dyn_macs \in [Indexes -> Keys \cup {NoKey}]
  BY <1>2 DEF BridgeInit, nfos_vector_allocate, Indexes
<1>4. Sound
  BY <1>2, <1>3, NewTable DEF BridgeInit, Sound
<1>5. \A i \in Indexes : ~IsAllocated(dyn_heap.chain, i)
  BY <1>2, NewHeap DEF BridgeInit
<1>6. ValuesInv
  BY <1>2, <1>5, BridgeConstants DEF BridgeInit, nfos_vector_allocate, ValuesInv, Indexes
<1>7. Busy(dyn_map) = {}
  <2>1. ASSUME NEW x \in Busy(dyn_map) PROVE FALSE
    BY <1>4, <1>5 DEF Sound, TableInv, Entries
  <2>. QED
    BY <2>1
<1>8. SeenInv
  BY <1>7 DEF BridgeInit, SeenInv
<1>. QED
  BY <1>1, <1>4, <1>6, <1>8 DEF BridgeInv

(* What a time that a core reads is good for. *)
LEMMA ReadTime ==
  ASSUME BridgeInv, NEW now \in CurrTimes
  PROVE  /\ now \in Nat /\ now <= clock /\ clock <= now + MaxLag
         /\ now + validity_duration \in Int /\ now + validity_duration <= Latest /\ Latest <= (now + validity_duration) + MaxLag
  BY BridgeConstants DEF BridgeInv, TimeInv, CurrTimes, Latest

(* A frame of a known station. *)
LEMMA KnownFrame ==
  ASSUME BridgeInv, NEW src \in Macs, NEW dst, NEW dev, NEW now \in CurrTimes, pkt_handler_known(src, dst, dev, now)
  PROVE  BridgeInv'
<1>. PICK i : i = nfos_map_get(dyn_map, src)
  OBVIOUS
<1>. PICK t : t = now + validity_duration
  OBVIOUS
<1>1. /\ i # NoValue /\ Refresh(i, now) /\ UNCHANGED <<dyn_map, dyn_macs, clock, expiry>> /\ Seen(src, now)
  BY DEF pkt_handler_known
<1>2. /\ now \in Nat /\ now <= clock /\ clock <= now + MaxLag
      /\ t \in Int /\ t <= Latest /\ Latest <= t + MaxLag
  BY ReadTime
<1>3. Sound /\ ValuesInv /\ SeenInv /\ src \in Keys /\ clock \in Nat
  BY BridgeConstants DEF BridgeInv, TimeInv
<1>4. PICK x \in Busy(dyn_map) : i \in Indexes /\ IsAllocated(dyn_heap.chain, i) /\ dyn_map[x].key = src /\ dyn_map[x].vals = i
  BY <1>1, <1>3, TableGet DEF Sound
<1>5. TimeInv'
  BY <1>1 DEF BridgeInv, TimeInv, expiry
<1>6. Latest' = Latest
  BY <1>1 DEF Latest
<1>. PICK v : v = dyn_vals[i]
  OBVIOUS
<1>7. v \in [dev : Devices \cup {0}, time : Int] /\ v.dev \in Devices /\ v.time \in Int /\ REFRESH_INTERVAL \in Int
  BY <1>3, <1>4, BridgeConstants DEF ValuesInv
<1>8. last_seen' = [last_seen EXCEPT ![src] = IF last_seen[src] > now THEN last_seen[src] ELSE now]
  BY <1>1 DEF Seen
<1>9. last_seen' \in [Macs -> Nat] /\ last_seen'[src] = (IF last_seen[src] > now THEN last_seen[src] ELSE now)
      /\ \A k \in Macs : k # src => last_seen'[k] = last_seen[k]
  <2>1. last_seen \in [Macs -> Nat]
    BY <1>3 DEF SeenInv
  <2>2. (IF last_seen[src] > now THEN last_seen[src] ELSE now) \in Nat
    BY <1>2, <2>1
  <2>. QED
    BY <1>8, <2>1, <2>2
<1>10. last_seen[src] \in Nat /\ last_seen[src] <= clock /\ last_seen[src] <= v.time + REFRESH_INTERVAL
  BY <1>3, <1>4 DEF SeenInv
<1>11. /\ Sound'
       /\ ValuesInv'
       /\ last_seen'[src] <= dyn_vals'[i].time + REFRESH_INTERVAL
       /\ \A j \in Indexes : j # i => dyn_vals'[j] = dyn_vals[j]
  <2>1. CASE now > v.time + REFRESH_INTERVAL
    <3>1. dyn_heap' = nfos_dchain_exp_rejuvenate_index(dyn_heap, i, now)
      BY <1>1, <2>1 DEF Refresh
    <3>2. dyn_vals' = [dyn_vals EXCEPT ![i] = [v EXCEPT !.time = now]]
      BY <1>1, <2>1 DEF Refresh, BorrowMut
    <3>3. HeapInv(dyn_heap, Latest, MaxLag)
      BY <1>3 DEF Sound, TableInv
    <3>4. Rejuvenates(dyn_heap, dyn_heap', i, t, Latest, MaxLag)
      BY <1>2, <1>4, <3>1, <3>3, Rejuvenate
    <3>5. TableInv(dyn_heap', dyn_map, dyn_macs, Latest, MaxLag)
      BY <1>3, <1>4, <3>4, TableRefresh DEF Sound
    <3>6. Sound'
      BY <1>1, <1>6, <3>5 DEF Sound
    <3>7. PICK w : w = [v EXCEPT !.time = now]
      OBVIOUS
    <3>8. w \in [dev : Devices \cup {0}, time : Int] /\ w.dev = v.dev /\ w.time = now
      BY <1>2, <1>7, <3>7
    <3>9. dyn_vals \in [Indexes -> [dev : Devices \cup {0}, time : Int]]
      BY <1>3 DEF ValuesInv
    <3>10. /\ dyn_vals' \in [Indexes -> [dev : Devices \cup {0}, time : Int]] /\ dyn_vals'[i] = w
           /\ \A j \in Indexes : j # i => dyn_vals'[j] = dyn_vals[j]
      BY <1>4, <3>2, <3>7, <3>8, <3>9
    <3>11. ASSUME NEW j \in Indexes, IsAllocated(dyn_heap'.chain, j)
           PROVE  dyn_vals'[j].dev \in Devices /\ dyn_heap'.time[j + INDEX_SHIFT] = dyn_vals'[j].time + validity_duration
      <4>1. IsAllocated(dyn_heap.chain, j) /\ dyn_heap'.time = [dyn_heap.time EXCEPT ![i + INDEX_SHIFT] = t]
        BY <3>4, <3>11 DEF Rejuvenates, IsAllocated
      <4>2. dyn_heap.time \in [Cells -> Int] /\ j + INDEX_SHIFT \in Cells /\ i + INDEX_SHIFT \in Cells
        BY <1>4, <3>3, CellFacts DEF HeapInv, Heaps
      <4>3. CASE j = i
        BY <1>7, <3>8, <3>10, <4>1, <4>2, <4>3
      <4>4. CASE j # i
        <5>1. j + INDEX_SHIFT # i + INDEX_SHIFT
          <6>1. j \in Int /\ i \in Int /\ INDEX_SHIFT \in Int
            BY <1>4, DoubleChainAssumption DEF Indexes, INDEX_SHIFT, GLOBAL_FREE_LIST_HEAD
          <6>. QED
            BY <4>4, <6>1
        <5>2. dyn_heap'.time[j + INDEX_SHIFT] = dyn_heap.time[j + INDEX_SHIFT] /\ dyn_vals'[j] = dyn_vals[j]
          BY <3>10, <4>1, <4>2, <4>4, <5>1
        <5>. QED
          BY <1>3, <4>1, <5>2 DEF ValuesInv
      <4>. QED
        BY <4>3, <4>4
    <3>12. ValuesInv'
      BY <3>10, <3>11 DEF ValuesInv
    <3>13. last_seen'[src] = now
      BY <1>2, <1>7, <1>9, <1>10, <2>1
    <3>14. last_seen'[src] <= dyn_vals'[i].time + REFRESH_INTERVAL
      BY <1>2, <3>8, <3>10, <3>13, BridgeConstants
    <3>. QED
      BY <3>6, <3>10, <3>12, <3>14
  <2>2. CASE ~(now > v.time + REFRESH_INTERVAL)
    <3>1. dyn_heap' = dyn_heap /\ dyn_vals' = dyn_vals
      BY <1>1, <2>2 DEF Refresh
    <3>2. Sound' /\ ValuesInv'
      BY <1>1, <1>3, <1>6, <3>1 DEF Sound, ValuesInv
    <3>3. last_seen'[src] <= v.time + REFRESH_INTERVAL
      BY <1>2, <1>7, <1>9, <1>10, <2>2
    <3>. QED
      BY <3>1, <3>2, <3>3
  <2>. QED
    BY <2>1, <2>2
<1>12. SeenInv'
  <2>1. ASSUME NEW y \in Busy(dyn_map')
        PROVE  /\ last_seen'[dyn_map'[y].key] <= clock'
               /\ last_seen'[dyn_map'[y].key] <= dyn_vals'[dyn_map'[y].vals].time + REFRESH_INTERVAL
    <3>1. y \in Busy(dyn_map) /\ dyn_map' = dyn_map /\ clock' = clock
      BY <1>1
    <3>2. dyn_map[y].key \in Macs /\ dyn_map[y].vals \in Indexes
      BY <1>3, <3>1, BridgeConstants DEF Sound, TableInv, MapOf, Entries
    <3>3. CASE y = x
      <4>1. last_seen'[src] <= clock
        BY <1>2, <1>9, <1>10
      <4>. QED
        BY <1>4, <1>11, <3>1, <3>3, <4>1
    <3>4. CASE y # x
      <4>1. dyn_map[y].vals # i
        BY <1>3, <1>4, <3>1, <3>4, EntriesDiffer DEF Sound
      <4>2. dyn_map[y].key # src
        BY <1>3, <1>4, <3>1, <3>4 DEF Sound, TableInv, MapSound
      <4>3. last_seen'[dyn_map[y].key] = last_seen[dyn_map[y].key] /\ dyn_vals'[dyn_map[y].vals] = dyn_vals[dyn_map[y].vals]
        BY <1>9, <1>11, <3>2, <4>1, <4>2
      <4>. QED
        BY <1>3, <3>1, <4>3 DEF SeenInv
    <3>. QED
      BY <3>3, <3>4
  <2>2. ASSUME NEW k \in Macs, NotIn(dyn_map', k) PROVE last_seen'[k] = 0
    <3>1. NotIn(dyn_map, k) /\ k # src
      BY <1>1, <1>4, <2>2 DEF NotIn
    <3>. QED
      BY <1>3, <1>9, <3>1 DEF SeenInv
  <2>. QED
    BY <1>9, <2>1, <2>2 DEF SeenInv
<1>. QED
  BY <1>5, <1>11, <1>12 DEF BridgeInv

(* What learning a station changes. *)
Learns(a, src, dev, now) ==
  /\ a.index # NoIndex /\ dyn_heap' = a.heap
  /\ dyn_macs' = BorrowMut(dyn_macs, a.index, src)
  /\ dyn_vals' = BorrowMut(dyn_vals, a.index, [dev |-> dev, time |-> now])
  /\ dyn_map' = nfos_map_put(dyn_map, src, a.index)

(* Cell y of the new map is the entry of the new station. *)
NewStation(a, src, dev, now, y) ==
  /\ NewEntry(dyn_map, MapSize, src, a.index, dyn_map', y)
  /\ a.index \in Indexes /\ ~IsAllocated(dyn_heap.chain, a.index)
  /\ dyn_vals'[a.index] = [dev |-> dev, time |-> now]
  /\ \A j \in Indexes : j # a.index => dyn_vals'[j] = dyn_vals[j]
  /\ last_seen' \in [Macs -> Nat] /\ last_seen'[src] = now /\ \A k \in Macs : k # src => last_seen'[k] = last_seen[k]

(* A frame of a new station. *)
LEMMA NewFrame ==
  ASSUME BridgeInv, NEW src \in Macs, NEW dst, NEW dev \in Devices, NEW now \in CurrTimes, NEW c \in Cores,
         pkt_handler_new(c, src, dst, dev, now)
  PROVE  BridgeInv' /\ NotIn(dyn_map, src) /\ \E a, y : NewStation(a, src, dev, now, y)
<1>1. PICK a : a = nfos_dchain_exp_allocate_new_index(dyn_heap, c, now) /\ Learns(a, src, dev, now)
  BY DEF pkt_handler_new, Learns
<1>. PICK i, t : i = a.index /\ t = now + validity_duration
  OBVIOUS
<1>2. UNCHANGED <<clock, expiry>> /\ Seen(src, now) /\ nfos_map_get(dyn_map, src) = NoValue
  BY DEF pkt_handler_new
<1>3. /\ now \in Nat /\ now <= clock /\ clock <= now + MaxLag
      /\ t \in Int /\ t <= Latest /\ Latest <= t + MaxLag
  BY ReadTime
<1>4. Sound /\ ValuesInv /\ SeenInv /\ src \in Keys /\ clock \in Nat /\ HeapInv(dyn_heap, Latest, MaxLag)
  BY BridgeConstants DEF BridgeInv, TimeInv, Sound, TableInv
<1>5. NotIn(dyn_map, src)
  BY <1>2, <1>4, TableGet DEF Sound
<1>6. ExpAllocates(dyn_heap, c, t, a, Latest, MaxLag)
  BY <1>1, <1>3, <1>4, ExpAllocateNewIndex
<1>7. a.index # NoIndex /\ i \in Indexes /\ ~IsAllocated(dyn_heap.chain, i)
      /\ dyn_heap'.time = [dyn_heap.time EXCEPT ![i + INDEX_SHIFT] = t]
      /\ \A j \in Indexes : IsAllocated(dyn_heap'.chain, j) <=> j = i \/ IsAllocated(dyn_heap.chain, j)
  BY <1>1, <1>6 DEF Learns, ExpAllocates
<1>8. /\ TableInv(a.heap, nfos_map_put(dyn_map, src, a.index), BorrowMut(dyn_macs, a.index, src), Latest, MaxLag)
      /\ \E y : NewEntry(dyn_map, MapSize, src, a.index, nfos_map_put(dyn_map, src, a.index), y)
  BY <1>4, <1>5, <1>6, <1>7, TableInsert DEF Sound
<1>9. Latest' = Latest
  BY <1>2 DEF Latest
<1>10. Sound'
  BY <1>1, <1>8, <1>9 DEF Sound, Learns
<1>11. PICK y : NewEntry(dyn_map, MapSize, src, i, dyn_map', y)
  BY <1>1, <1>8 DEF Learns
<1>12. TimeInv'
  BY <1>2 DEF BridgeInv, TimeInv, expiry
<1>13. PICK w : w = [dev |-> dev, time |-> now]
  OBVIOUS
<1>14. w \in [dev : Devices \cup {0}, time : Int] /\ w.dev = dev /\ w.time = now
  BY <1>3, <1>13
<1>15. /\ dyn_vals' \in [Indexes -> [dev : Devices \cup {0}, time : Int]] /\ dyn_vals'[i] = w
       /\ \A j \in Indexes : j # i => dyn_vals'[j] = dyn_vals[j]
  <2>1. dyn_vals \in [Indexes -> [dev : Devices \cup {0}, time : Int]]
    BY <1>4 DEF ValuesInv
  <2>2. dyn_vals' = [dyn_vals EXCEPT ![i] = w]
    BY <1>1, <1>13 DEF Learns, BorrowMut
  <2>. QED
    BY <1>7, <1>14, <2>1, <2>2
<1>16. ASSUME NEW j \in Indexes, IsAllocated(dyn_heap'.chain, j)
       PROVE  dyn_vals'[j].dev \in Devices /\ dyn_heap'.time[j + INDEX_SHIFT] = dyn_vals'[j].time + validity_duration
  <2>2. dyn_heap.time \in [Cells -> Int] /\ j + INDEX_SHIFT \in Cells /\ i + INDEX_SHIFT \in Cells
    BY <1>4, <1>7, CellFacts DEF HeapInv, Heaps
  <2>3. CASE j = i
    BY <1>7, <1>14, <1>15, <2>2, <2>3
  <2>4. CASE j # i
    <3>1. j + INDEX_SHIFT # i + INDEX_SHIFT
      <4>1. j \in Int /\ i \in Int /\ INDEX_SHIFT \in Int
        BY <1>7, DoubleChainAssumption DEF Indexes, INDEX_SHIFT, GLOBAL_FREE_LIST_HEAD
      <4>. QED
        BY <2>4, <4>1
    <3>2. dyn_heap'.time[j + INDEX_SHIFT] = dyn_heap.time[j + INDEX_SHIFT] /\ dyn_vals'[j] = dyn_vals[j]
      BY <1>7, <1>15, <2>2, <2>4, <3>1
    <3>3. IsAllocated(dyn_heap.chain, j)
      BY <1>7, <1>16, <2>4
    <3>. QED
      BY <1>4, <3>2, <3>3 DEF ValuesInv
  <2>. QED
    BY <2>3, <2>4
<1>17. ValuesInv'
  BY <1>15, <1>16 DEF ValuesInv
<1>18. last_seen' \in [Macs -> Nat] /\ last_seen'[src] = now /\ \A k \in Macs : k # src => last_seen'[k] = last_seen[k]
  <2>1. last_seen \in [Macs -> Nat]
    BY <1>4 DEF SeenInv
  <2>2. last_seen' = [last_seen EXCEPT ![src] = now]
    BY <1>2 DEF Seen
  <2>. QED
    BY <1>3, <2>1, <2>2
<1>19. /\ Busy(dyn_map') = Busy(dyn_map) \cup {y} /\ dyn_map'[y].key = src /\ dyn_map'[y].vals = i
       /\ \A x \in Busy(dyn_map) : dyn_map'[x].key = dyn_map[x].key /\ dyn_map'[x].vals = dyn_map[x].vals
  BY <1>11 DEF NewEntry
<1>20. SeenInv'
  <2>1. ASSUME NEW x \in Busy(dyn_map')
        PROVE  /\ last_seen'[dyn_map'[x].key] <= clock'
               /\ last_seen'[dyn_map'[x].key] <= dyn_vals'[dyn_map'[x].vals].time + REFRESH_INTERVAL
    <3>1. CASE x = y
      <4>1. last_seen'[src] <= clock' /\ last_seen'[src] <= dyn_vals'[i].time + REFRESH_INTERVAL
        BY <1>2, <1>3, <1>14, <1>15, <1>18, BridgeConstants
      <4>. QED
        BY <1>19, <3>1, <4>1
    <3>2. CASE x # y
      <4>1. x \in Busy(dyn_map) /\ dyn_map'[x].key = dyn_map[x].key /\ dyn_map'[x].vals = dyn_map[x].vals
        BY <1>19, <3>2
      <4>2. dyn_map[x].key \in Macs /\ dyn_map[x].vals \in Indexes /\ IsAllocated(dyn_heap.chain, dyn_map[x].vals)
        BY <1>4, <4>1, BridgeConstants DEF Sound, TableInv, MapOf, Entries
      <4>3. dyn_map[x].key # src /\ dyn_map[x].vals # i
        BY <1>5, <1>7, <4>1, <4>2 DEF NotIn
      <4>4. last_seen'[dyn_map[x].key] = last_seen[dyn_map[x].key] /\ dyn_vals'[dyn_map[x].vals] = dyn_vals[dyn_map[x].vals]
        BY <1>15, <1>18, <4>2, <4>3
      <4>. QED
        BY <1>2, <1>4, <4>1, <4>4 DEF SeenInv
    <3>. QED
      BY <3>1, <3>2
  <2>2. ASSUME NEW k \in Macs, NotIn(dyn_map', k) PROVE last_seen'[k] = 0
    <3>1. NotIn(dyn_map, k) /\ k # src
      BY <1>19, <2>2 DEF NotIn
    <3>. QED
      BY <1>4, <1>18, <3>1 DEF SeenInv
  <2>. QED
    BY <1>18, <2>1, <2>2 DEF SeenInv
<1>21. NewStation(a, src, dev, now, y)
  BY <1>7, <1>11, <1>13, <1>15, <1>18 DEF NewStation
<1>. QED
  BY <1>5, <1>10, <1>12, <1>17, <1>20, <1>21 DEF BridgeInv

(* What a pass does to the table. *)
LEMMA PassCommits ==
  ASSUME BridgeInv, exp_mac_commits
  PROVE  /\ BridgeInv' /\ Survives(dyn_heap, dyn_heap', exp_now) /\ Keeps(dyn_map, dyn_map')
         /\ exp_now \in Nat /\ exp_now <= clock
         /\ \A c \in Cores : Clean(dyn_heap', c, exp_now, MaxLag)
<1>1. PICK s : s = ExpireAll(dyn_heap, dyn_map, dyn_macs, exp_now) /\ dyn_heap' = s.heap /\ dyn_map' = s.map
  BY DEF exp_mac_commits
<1>2. /\ exp_now # NoTime /\ exp_now' = NoTime /\ UNCHANGED <<dyn_macs, dyn_vals, clock, expiration_done, sent>>
      /\ last_seen' = [m \in Macs |-> IF nfos_map_get(dyn_map', m) = NoValue THEN 0 ELSE last_seen[m]]
  BY DEF exp_mac_commits
<1>3. Sound /\ ValuesInv /\ SeenInv /\ clock \in Nat /\ exp_now \in Nat /\ exp_now <= clock
  BY <1>2 DEF BridgeInv, TimeInv
<1>4. PassDoes(dyn_heap, dyn_map, s, dyn_macs, exp_now, Latest, MaxLag)
  BY <1>1, <1>3, ExpireAllDoes DEF Sound
<1>5. /\ TableInv(dyn_heap', dyn_map', dyn_macs, Latest, MaxLag) /\ Survives(dyn_heap, dyn_heap', exp_now) /\ Keeps(dyn_map, dyn_map')
      /\ \A c \in Cores : Clean(dyn_heap', c, exp_now, MaxLag)
  BY <1>1, <1>4 DEF PassDoes
<1>6. Sound'
  BY <1>2, <1>5 DEF Sound, Latest
<1>7. TimeInv'
  BY <1>2, <1>3 DEF TimeInv
<1>8. ASSUME NEW j \in Indexes, IsAllocated(dyn_heap'.chain, j)
      PROVE  dyn_vals'[j].dev \in Devices /\ dyn_heap'.time[j + INDEX_SHIFT] = dyn_vals'[j].time + validity_duration
  <2>1. j + INDEX_SHIFT \in IndexCells
    BY CellFacts
  <2>2. IsAllocated(dyn_heap.chain, j) /\ dyn_heap'.time[j + INDEX_SHIFT] = dyn_heap.time[j + INDEX_SHIFT]
    BY <1>5, <1>8, <2>1 DEF Survives, IsAllocated
  <2>. QED
    BY <1>2, <1>3, <2>2 DEF ValuesInv
<1>9. ValuesInv'
  BY <1>2, <1>3, <1>8 DEF ValuesInv
<1>10. last_seen \in [Macs -> Nat]
  BY <1>3 DEF SeenInv
<1>11. ASSUME NEW x \in Busy(dyn_map')
       PROVE  /\ last_seen'[dyn_map'[x].key] <= clock'
              /\ last_seen'[dyn_map'[x].key] <= dyn_vals'[dyn_map'[x].vals].time + REFRESH_INTERVAL
  <2>. PICK k : k = dyn_map'[x].key
    OBVIOUS
  <2>1. x \in Busy(dyn_map) /\ dyn_map'[x].key = dyn_map[x].key /\ dyn_map'[x].vals = dyn_map[x].vals
    BY <1>5 DEF Keeps
  <2>2. k \in Macs /\ dyn_map[x].key = k
    BY <1>3, <2>1, BridgeConstants DEF Sound, TableInv, MapOf
  <2>3. last_seen'[k] = 0 \/ last_seen'[k] = last_seen[k]
    BY <1>2, <2>2
  <2>4. last_seen[k] <= clock /\ last_seen[k] <= dyn_vals[dyn_map[x].vals].time + REFRESH_INTERVAL
    BY <1>3, <2>1, <2>2 DEF SeenInv
  <2>5. last_seen[k] \in Nat /\ dyn_vals[dyn_map[x].vals].time \in Int /\ REFRESH_INTERVAL \in Int
    BY <1>3, <1>10, <2>1, <2>2, BridgeConstants DEF ValuesInv, Sound, TableInv, Entries
  <2>6. last_seen'[k] <= clock /\ last_seen'[k] <= dyn_vals[dyn_map[x].vals].time + REFRESH_INTERVAL
    BY <1>3, <2>3, <2>4, <2>5
  <2>. QED
    BY <1>2, <2>1, <2>6
<1>12. ASSUME NEW k \in Macs, NotIn(dyn_map', k) PROVE last_seen'[k] = 0
  <2>1. MapOf(dyn_map', MapSize) /\ k \in Keys
    BY <1>5, BridgeConstants DEF TableInv
  <2>2. nfos_map_get(dyn_map', k) = NoValue
    BY <1>12, <2>1, GetMisses
  <2>. QED
    BY <1>2, <2>2
<1>13. last_seen' \in [Macs -> Nat]
  BY <1>2, <1>10
<1>14. SeenInv'
  BY <1>11, <1>12, <1>13 DEF SeenInv
<1>. QED
  BY <1>3, <1>5, <1>6, <1>7, <1>9, <1>14 DEF BridgeInv

(* Time passes. *)
LEMMA ClockAdvances ==
  ASSUME BridgeInv, BridgeAdvance
  PROVE  BridgeInv'
<1>1. clock \in Nat /\ clock' = clock + 1 /\ UNCHANGED <<table, expiry, history>> /\ Sound /\ ValuesInv /\ SeenInv /\ TimeInv
  BY DEF BridgeAdvance, BridgeInv, TimeInv
<1>2. TimeInv'
  BY <1>1 DEF TimeInv, expiry
<1>3. Latest' \in Int /\ Latest <= Latest'
  BY <1>1, BridgeConstants DEF Latest
<1>4. HeapInv(dyn_heap, Latest', MaxLag)
  BY <1>1, <1>3, HeapLater DEF Sound, TableInv
<1>5. Sound'
  BY <1>1, <1>4 DEF Sound, TableInv, table
<1>6. ValuesInv'
  BY <1>1 DEF ValuesInv, table
<1>7. SeenInv'
  <2>1. ASSUME NEW x \in Busy(dyn_map) PROVE last_seen[dyn_map[x].key] <= clock + 1
    <3>1. dyn_map[x].key \in Macs
      BY <1>1, BridgeConstants DEF Sound, TableInv, MapOf
    <3>2. last_seen[dyn_map[x].key] \in Nat /\ last_seen[dyn_map[x].key] <= clock
      BY <1>1, <3>1 DEF SeenInv
    <3>. QED
      BY <1>1, <3>2
  <2>. QED
    BY <1>1, <2>1 DEF SeenInv, table, history
<1>. QED
  BY <1>2, <1>5, <1>6, <1>7 DEF BridgeInv

(* The other steps leave the table and the clock alone. *)
LEMMA TableUnchanged ==
  ASSUME BridgeInv, UNCHANGED <<table, clock, last_seen>>, exp_now' \in {exp_now, NoTime, clock}
  PROVE  BridgeInv'
<1>1. TimeInv'
  BY DEF BridgeInv, TimeInv
<1>2. Sound'
  BY DEF BridgeInv, Sound, Latest, table
<1>3. ValuesInv'
  BY DEF BridgeInv, ValuesInv, table
<1>4. SeenInv'
  BY DEF BridgeInv, SeenInv, table
<1>. QED
  BY <1>1, <1>2, <1>3, <1>4 DEF BridgeInv

(* Every step keeps the invariant. *)
LEMMA BridgeSteps ==
  ASSUME BridgeInv, [BridgeNext]_bridge_vars
  PROVE  BridgeInv'
<1>1. CASE \E f \in Frames, now \in CurrTimes : pkt_handler_known(f[1], f[2], f[3], now)
  BY <1>1, BridgeConstants, KnownFrame
<1>2. CASE \E f \in Frames, now \in CurrTimes, c \in Cores : pkt_handler_new(c, f[1], f[2], f[3], now)
  BY <1>2, BridgeConstants, NewFrame
<1>3. CASE \E f \in Frames, now \in CurrTimes, c \in Cores : pkt_handler_full(c, f[1], f[2], f[3], now)
  BY <1>3, TableUnchanged DEF pkt_handler_full, expiry
<1>4. CASE exp_mac
  BY <1>4, TableUnchanged DEF exp_mac, history
<1>5. CASE exp_mac_commits
  BY <1>5, PassCommits
<1>6. CASE exp_mac_commit_fails
  BY <1>6, TableUnchanged DEF exp_mac_commit_fails, history
<1>7. CASE exp_mac_retry_commits
  BY <1>7, TableUnchanged DEF exp_mac_retry_commits, history
<1>8. CASE BridgeAdvance
  BY <1>8, ClockAdvances
<1>9. CASE UNCHANGED bridge_vars
  BY <1>9, TableUnchanged DEF bridge_vars, expiry, history
<1>. QED
  BY <1>1, <1>2, <1>3, <1>4, <1>5, <1>6, <1>7, <1>8, <1>9 DEF BridgeNext

(* The strengthened invariant holds always. *)
LEMMA BridgeAlways == BridgeSpec => []BridgeInv
  BY BridgeStarts, BridgeSteps, PTL DEF BridgeSpec

(* The bridge's map of stations, its heap of indexes and its vector of     *)
(* addresses say the same, in every state: a station is found in the map   *)
(* exactly while its index is allocated, after any frames of any cores,    *)
(* passes, failed passes and retries.                                      *)
THEOREM BridgeTable == BridgeSpec => []BridgeTableSound
<1>1. BridgeInv => BridgeTableSound
  BY TableIsSound DEF BridgeInv, Sound, BridgeTableSound
<1>. QED
  BY <1>1, BridgeAlways, PTL

(* A pass of exp_mac whose loop ran, and was not skipped by                *)
(* expiration_done, leaves no entry that was overdue by more than the lag  *)
(* of the clocks when the pass began: the loop does not stop early, and no *)
(* entry hides behind a younger one on its list.                           *)
THEOREM BridgePass == BridgeSpec => PassRemovesOverdue
<1>. DEFINE Clears == exp_now # NoTime /\ exp_now' = NoTime /\ ~expiration_done =>
       \A i \in Indexes : nfos_dchain_exp_is_index_allocated(dyn_heap, i)' => dyn_heap'.time[i + INDEX_SHIFT] + MaxLag >= exp_now
<1>1. ASSUME BridgeInv, BridgeInv', BridgeNext, exp_now # NoTime, exp_now' = NoTime, ~expiration_done,
             NEW i \in Indexes, IsAllocated(dyn_heap'.chain, i)
      PROVE  dyn_heap'.time[i + INDEX_SHIFT] + MaxLag >= exp_now
  <2>1. exp_mac_commits
    BY <1>1 DEF BridgeNext, pkt_handler_known, pkt_handler_new, pkt_handler_full, exp_mac, exp_mac_commit_fails, exp_mac_retry_commits,
                BridgeAdvance, expiry
  <2>2. \A c \in Cores : Clean(dyn_heap', c, exp_now, MaxLag)
    BY <1>1, <2>1, PassCommits
  <2>3. i + INDEX_SHIFT \in IndexCells /\ dyn_heap'.chain.list_ind[i + INDEX_SHIFT] # -1
    BY <1>1, CellFacts DEF IsAllocated
  <2>4. dyn_heap' \in Heaps
    BY <1>1 DEF BridgeInv, Sound, TableInv, HeapInv
  <2>5. dyn_heap'.chain.list_ind[i + INDEX_SHIFT] \in Cores
    BY <2>3, <2>4, CellFacts DEF Heaps, Chains
  <2>6. exp_now <= dyn_heap'.time[i + INDEX_SHIFT] + MaxLag
    BY <2>2, <2>3, <2>5 DEF Clean
  <2>7. dyn_heap'.time[i + INDEX_SHIFT] \in Int /\ exp_now \in Int /\ MaxLag \in Int
    <3>1. exp_now \in Nat /\ MaxLag \in Nat
      BY <1>1, <2>1, PassCommits, BridgeConstants
    <3>2. dyn_heap'.time \in [Cells -> Int]
      BY <2>4 DEF Heaps
    <3>3. i + INDEX_SHIFT \in Cells
      BY <2>3, CellFacts
    <3>. PICK tm, x : tm = dyn_heap'.time /\ x = i + INDEX_SHIFT
      OBVIOUS
    <3>4. tm[x] \in Int
      BY <3>2, <3>3
    <3>. QED
      BY <3>1, <3>4
  <2>. QED
    BY <2>6, <2>7
<1>2. BridgeInv /\ BridgeInv' /\ [BridgeNext]_bridge_vars => [Clears]_bridge_vars
  BY <1>1 DEF nfos_dchain_exp_is_index_allocated
<1>. QED
  BY <1>2, BridgeAlways, PTL DEF BridgeSpec, PassRemovesOverdue
-----------------------------------------------------------------------------
(* The bridge implements MacTable.                                         *)

(* What the abstract table says of a station. *)
LEMMA LearnedIs ==
  ASSUME NEW h, NEW m, NEW keys, NEW latest, NEW lag, TableInv(h, m, keys, latest, lag), NEW vals, NEW k \in Macs
  PROVE  /\ NotIn(m, k) => LearnedBy(m, vals)[k] = NoValue /\ RenewedBy(m, vals)[k] = 0 /\ nfos_map_get(m, k) = NoValue
         /\ \A x \in Busy(m) : m[x].key = k =>
              /\ LearnedBy(m, vals)[k] = vals[m[x].vals].dev /\ RenewedBy(m, vals)[k] = vals[m[x].vals].time
              /\ nfos_map_get(m, k) = m[x].vals
<1>1. MapOf(m, MapSize) /\ MapSound(m) /\ k \in Keys
  BY BridgeConstants DEF TableInv
<1>2. ASSUME NEW x \in DOMAIN m PROVE Holds(m[x], k) <=> x \in Busy(m) /\ m[x].key = k
  BY DEF Holds, Busy
<1>3. ASSUME NotIn(m, k)
      PROVE  LearnedBy(m, vals)[k] = NoValue /\ RenewedBy(m, vals)[k] = 0 /\ nfos_map_get(m, k) = NoValue
  <2>1. ~\E x \in DOMAIN m : Holds(m[x], k)
    BY <1>2, <1>3 DEF NotIn
  <2>. QED
    BY <1>1, <1>3, <2>1, GetMisses DEF LearnedBy, RenewedBy
<1>4. ASSUME NEW x \in Busy(m), m[x].key = k
      PROVE  /\ LearnedBy(m, vals)[k] = vals[m[x].vals].dev /\ RenewedBy(m, vals)[k] = vals[m[x].vals].time
             /\ nfos_map_get(m, k) = m[x].vals
  <2>1. x \in DOMAIN m /\ Holds(m[x], k)
    BY <1>2, <1>4 DEF Busy
  <2>2. PICK y : y = CHOOSE z \in DOMAIN m : Holds(m[z], k)
    OBVIOUS
  <2>3. y \in DOMAIN m /\ Holds(m[y], k)
    BY <2>1, <2>2
  <2>4. y \in Busy(m) /\ m[y].key = k
    BY <1>2, <2>3
  <2>5. y = x
    BY <1>1, <1>4, <2>4 DEF MapSound
  <2>6. LearnedBy(m, vals)[k] = vals[m[y].vals].dev /\ RenewedBy(m, vals)[k] = vals[m[y].vals].time
    BY <2>1, <2>2 DEF LearnedBy, RenewedBy, ValueOf
  <2>. QED
    BY <1>1, <1>4, <2>5, <2>6, GetFinds
<1>. QED
  BY <1>3, <1>4

(* The abstract bridge counts with the same cardinality. *)
LEMMA SameCardinality ==
  ASSUME NEW S
  PROVE  Abstract!Cardinality(S) = Cardinality(S)
  BY DEF Cardinality, Abstract!Cardinality

(* The keys in the map. *)
KeysIn(m) == {k \in Macs : ~NotIn(m, k)}

(* A table whose values have devices. *)
Fine(h, m, keys, vals, latest, lag) ==
  TableInv(h, m, keys, latest, lag) /\ \A i \in Indexes : IsAllocated(h.chain, i) => vals[i].dev \in Devices

(* The table is one, before and after a step. *)
LEMMA TableFine ==
  /\ BridgeInv => Fine(dyn_heap, dyn_map, dyn_macs, dyn_vals, Latest, MaxLag)
  /\ BridgeInv' => Fine(dyn_heap', dyn_map', dyn_macs', dyn_vals', Latest', MaxLag)
  BY DEF BridgeInv, Sound, ValuesInv, Fine

(* The abstract table knows the stations in the map. *)
LEMMA KnownAre ==
  ASSUME NEW h, NEW m, NEW keys, NEW vals, NEW latest, NEW lag, Fine(h, m, keys, vals, latest, lag)
  PROVE  /\ \A k \in Macs : LearnedBy(m, vals)[k] # NoValue <=> ~NotIn(m, k)
         /\ \A k \in Macs : LearnedBy(m, vals)[k] # NoValue => LearnedBy(m, vals)[k] \in Devices
         /\ Abstract!Known(LearnedBy(m, vals)) = KeysIn(m)
<1>0. TableInv(h, m, keys, latest, lag) /\ NoValue \notin Devices
  BY BridgeConstants DEF Fine, NoValue
<1>2. ASSUME NEW k \in Macs
      PROVE  /\ LearnedBy(m, vals)[k] # NoValue <=> ~NotIn(m, k)
             /\ LearnedBy(m, vals)[k] # NoValue => LearnedBy(m, vals)[k] \in Devices
  <2>1. CASE NotIn(m, k)
    BY <1>0, <2>1, LearnedIs
  <2>2. CASE ~NotIn(m, k)
    <3>1. PICK x \in Busy(m) : m[x].key = k
      BY <2>2 DEF NotIn
    <3>2. LearnedBy(m, vals)[k] = vals[m[x].vals].dev
      BY <1>0, <3>1, LearnedIs
    <3>3. vals[m[x].vals].dev \in Devices
      BY <3>1 DEF Fine, TableInv, Entries
    <3>. QED
      BY <1>0, <2>2, <3>2, <3>3
  <2>. QED
    BY <2>1, <2>2
<1>3. Abstract!Known(LearnedBy(m, vals)) = KeysIn(m)
  BY <1>2 DEF Abstract!Known, KeysIn
<1>. QED
  BY <1>2, <1>3

(* There are as many of them as allocated indexes. *)
LEMMA KnownNumber ==
  ASSUME BridgeInv
  PROVE  Cardinality(Abstract!Known(Learned)) = Cardinality(Taken(dyn_heap))
<1>. DEFINE f == [x \in Busy(dyn_map) |-> dyn_map[x].key]
<1>1. Sound
  BY DEF BridgeInv
<1>2. IsFiniteSet(Busy(dyn_map)) /\ Cardinality(Busy(dyn_map)) = Cardinality(Taken(dyn_heap))
  BY <1>1, SameNumber DEF Sound
<1>3. f \in [Busy(dyn_map) -> KeysIn(dyn_map)]
  <2>1. \A x \in Busy(dyn_map) : dyn_map[x].key \in Macs
    BY <1>1, BridgeConstants DEF Sound, TableInv, MapOf
  <2>. QED
    BY <2>1 DEF KeysIn, NotIn
<1>4. \A x, y \in Busy(dyn_map) : f[x] = f[y] => x = y
  BY <1>1 DEF Sound, TableInv, MapSound
<1>5. \A k \in KeysIn(dyn_map) : \E x \in Busy(dyn_map) : f[x] = k
  BY DEF KeysIn, NotIn
<1>. HIDE DEF f
<1>6. ExistsBijection(Busy(dyn_map), KeysIn(dyn_map))
  BY <1>3, <1>4, <1>5 DEF ExistsBijection, Bijection, Injection, Surjection, IsInjective
<1>7. Cardinality(KeysIn(dyn_map)) = Cardinality(Busy(dyn_map))
  BY <1>2, <1>6, FS_Bijection
<1>8. Abstract!Known(Learned) = KeysIn(dyn_map)
  BY TableFine, KnownAre DEF Learned
<1>. QED
  BY <1>2, <1>7, <1>8

(* The frame goes where the abstract table says. *)
LEMMA ForwardIs ==
  ASSUME NEW h, NEW m, NEW keys, NEW vals, NEW latest, NEW lag, Fine(h, m, keys, vals, latest, lag), NEW dst \in Macs
  PROVE  Forward(m, vals, dst) = Abstract!Fate(LearnedBy(m, vals), dst)
<1>1. TableInv(h, m, keys, latest, lag)
  BY DEF Fine
<1>2. CASE NotIn(m, dst)
  <2>1. LearnedBy(m, vals)[dst] = NoValue /\ nfos_map_get(m, dst) = NoValue
    BY <1>1, <1>2, LearnedIs
  <2>. QED
    BY <2>1 DEF Forward, Abstract!Fate
<1>3. CASE ~NotIn(m, dst)
  <2>1. PICK x \in Busy(m) : m[x].key = dst
    BY <1>3 DEF NotIn
  <2>2. LearnedBy(m, vals)[dst] = vals[m[x].vals].dev /\ nfos_map_get(m, dst) = m[x].vals
    BY <1>1, <2>1, LearnedIs
  <2>3. m[x].vals # NoValue
    BY <1>1, <2>1, DoubleChainAssumption DEF TableInv, Entries, Indexes, NoValue
  <2>4. LearnedBy(m, vals)[dst] # NoValue
    BY <1>3, KnownAre
  <2>. QED
    BY <2>2, <2>3, <2>4 DEF Forward, Abstract!Fate
<1>. QED
  BY <1>2, <1>3

(* Two tables that say the same of every station. *)
LEMMA SameLearned ==
  ASSUME NEW m, NEW vals, NEW m2, NEW vals2, \A k \in Macs : LearnedBy(m2, vals2)[k] = LearnedBy(m, vals)[k]
  PROVE  LearnedBy(m2, vals2) = LearnedBy(m, vals)
<1>1. /\ LearnedBy(m, vals) = [k \in Macs |-> LearnedBy(m, vals)[k]]
      /\ LearnedBy(m2, vals2) = [k \in Macs |-> LearnedBy(m2, vals2)[k]]
  BY DEF LearnedBy
<1>. QED
  BY <1>1

(* A frame of a known station is one of the abstract bridge. *)
LEMMA KnownRefines ==
  ASSUME BridgeInv, BridgeInv', NEW src \in Macs, NEW dst \in Macs, NEW dev, NEW now \in CurrTimes,
         pkt_handler_known(src, dst, dev, now)
  PROVE  Abstract!Renew(<<src, dst, dev>>, now)
<1>. PICK i : i = nfos_map_get(dyn_map, src)
  OBVIOUS
<1>1. /\ i # NoValue /\ Refresh(i, now) /\ UNCHANGED <<dyn_map, dyn_macs, clock, expiry>> /\ Seen(src, now)
      /\ sent' = <<<<src, dst, dev>>, Forward(dyn_map, dyn_vals, dst)>>
  BY DEF pkt_handler_known
<1>2. Sound /\ src \in Keys /\ now \in Nat /\ now <= clock /\ clock \in Nat
  BY ReadTime, BridgeConstants DEF BridgeInv, TimeInv
<1>3. PICK x \in Busy(dyn_map) : i \in Indexes /\ IsAllocated(dyn_heap.chain, i) /\ dyn_map[x].key = src /\ dyn_map[x].vals = i
  BY <1>1, <1>2, TableGet DEF Sound
<1>4. ASSUME NEW j \in Indexes
      PROVE  /\ dyn_vals'[j].dev = dyn_vals[j].dev
             /\ dyn_vals'[j].time = IF j = i /\ now > dyn_vals[i].time + REFRESH_INTERVAL THEN now ELSE dyn_vals[j].time
  <2>1. dyn_vals \in [Indexes -> [dev : Devices \cup {0}, time : Int]]
    BY DEF BridgeInv, ValuesInv
  <2>2. CASE now > dyn_vals[i].time + REFRESH_INTERVAL
    <3>1. dyn_vals' = [dyn_vals EXCEPT ![i] = [dyn_vals[i] EXCEPT !.time = now]]
      BY <1>1, <2>2 DEF Refresh, BorrowMut
    <3>. QED
      BY <1>3, <2>1, <2>2, <3>1
  <2>3. CASE ~(now > dyn_vals[i].time + REFRESH_INTERVAL)
    BY <1>1, <2>3 DEF Refresh
  <2>. QED
    BY <2>2, <2>3
<1>5. Learned' = Learned
  <2>1. ASSUME NEW k \in Macs PROVE LearnedBy(dyn_map, dyn_vals')[k] = LearnedBy(dyn_map, dyn_vals)[k]
    <3>1. CASE NotIn(dyn_map, k)
      BY <1>2, <3>1, LearnedIs DEF Sound
    <3>2. CASE ~NotIn(dyn_map, k)
      <4>1. PICK y \in Busy(dyn_map) : dyn_map[y].key = k
        BY <3>2 DEF NotIn
      <4>2. dyn_map[y].vals \in Indexes
        BY <1>2, <4>1 DEF Sound, TableInv, Entries
      <4>3. LearnedBy(dyn_map, dyn_vals)[k] = dyn_vals[dyn_map[y].vals].dev
        BY <1>2, <4>1, LearnedIs DEF Sound
      <4>4. LearnedBy(dyn_map, dyn_vals')[k] = dyn_vals'[dyn_map[y].vals].dev
        BY <1>2, <4>1, LearnedIs DEF Sound
      <4>. QED
        BY <1>4, <4>2, <4>3, <4>4
    <3>. QED
      BY <3>1, <3>2
  <2>2. LearnedBy(dyn_map, dyn_vals') = LearnedBy(dyn_map, dyn_vals)
    BY <2>1, SameLearned
  <2>. QED
    BY <1>1, <2>2 DEF Learned
<1>6. Learned[src] # NoValue
  <2>1. ~NotIn(dyn_map, src)
    BY <1>3 DEF NotIn
  <2>. QED
    BY <2>1, TableFine, KnownAre DEF Learned
<1>7. sent' = <<<<src, dst, dev>>, Abstract!Fate(Learned, dst)>>
  BY <1>1, TableFine, ForwardIs DEF Learned
<1>8. last_seen \in [Macs -> Nat] /\ last_seen[src] <= clock
  BY <1>3 DEF BridgeInv, SeenInv
<1>9. last_seen' = [last_seen EXCEPT ![src] = Abstract!Later(last_seen[src], now)]
  BY <1>1, <1>8 DEF Seen, Abstract!Later
<1>10. RenewedAt' = IF now > RenewedAt[src] + REFRESH_INTERVAL THEN [RenewedAt EXCEPT ![src] = now] ELSE RenewedAt
  <2>. DEFINE w == now > dyn_vals[i].time + REFRESH_INTERVAL
  <2>1. RenewedAt[src] = dyn_vals[i].time
    BY <1>2, <1>3, LearnedIs DEF Sound, RenewedAt
  <2>. HIDE DEF w
  <2>2. ASSUME NEW k \in Macs PROVE RenewedAt'[k] = IF k = src /\ w THEN now ELSE RenewedAt[k]
    <3>1. CASE NotIn(dyn_map, k)
      <4>1. k # src
        BY <1>3, <3>1 DEF NotIn
      <4>2. RenewedBy(dyn_map, dyn_vals)[k] = 0 /\ RenewedBy(dyn_map, dyn_vals')[k] = 0
        BY <1>2, <3>1, LearnedIs DEF Sound
      <4>. QED
        BY <1>1, <4>1, <4>2 DEF RenewedAt
    <3>2. CASE ~NotIn(dyn_map, k)
      <4>1. PICK y \in Busy(dyn_map) : dyn_map[y].key = k
        BY <3>2 DEF NotIn
      <4>2. dyn_map[y].vals \in Indexes /\ (k # src => dyn_map[y].vals # i) /\ (k = src => dyn_map[y].vals = i)
        BY <1>2, <1>3, <4>1, EntriesDiffer DEF Sound, TableInv, Entries, MapSound
      <4>3. RenewedBy(dyn_map, dyn_vals)[k] = dyn_vals[dyn_map[y].vals].time
        BY <1>2, <4>1, LearnedIs DEF Sound
      <4>4. RenewedBy(dyn_map, dyn_vals')[k] = dyn_vals'[dyn_map[y].vals].time
        BY <1>2, <4>1, LearnedIs DEF Sound
      <4>5. dyn_vals'[dyn_map[y].vals].time = IF dyn_map[y].vals = i /\ w THEN now ELSE dyn_vals[dyn_map[y].vals].time
        BY <1>4, <4>2 DEF w
      <4>6. (k = src) <=> (dyn_map[y].vals = i)
        BY <4>2
      <4>. QED
        BY <1>1, <4>3, <4>4, <4>5, <4>6 DEF RenewedAt
    <3>. QED
      BY <3>1, <3>2
  <2>3. RenewedAt = [k \in Macs |-> RenewedAt[k]] /\ RenewedAt' = [k \in Macs |-> RenewedAt'[k]]
    BY DEF RenewedAt, RenewedBy
  <2>4. RenewedAt' = IF w THEN [RenewedAt EXCEPT ![src] = now] ELSE RenewedAt
    BY <2>2, <2>3
  <2>. QED
    BY <2>1, <2>4 DEF w
<1>11. UNCHANGED <<clock, exp_now, expiration_done>>
  BY <1>1 DEF expiry
<1>. QED
  BY <1>5, <1>6, <1>7, <1>9, <1>10, <1>11 DEF Abstract!Renew

(* So is one of a new station. *)
LEMMA NewRefines ==
  ASSUME BridgeInv, BridgeInv', NEW src \in Macs, NEW dst \in Macs, NEW dev \in Devices, NEW now \in CurrTimes, NEW c \in Cores,
         pkt_handler_new(c, src, dst, dev, now)
  PROVE  Abstract!Learn(<<src, dst, dev>>, now)
<1>1. /\ UNCHANGED <<clock, exp_now, expiration_done>> /\ Seen(src, now) /\ nfos_map_get(dyn_map, src) = NoValue
      /\ sent' = <<<<src, dst, dev>>, Forward(dyn_map', dyn_vals', dst)>>
  BY DEF pkt_handler_new, expiry
<1>2. Sound /\ Sound' /\ now \in Nat /\ now <= clock /\ clock <= now + MaxLag /\ clock \in Nat /\ MaxLag \in Nat
  BY ReadTime, BridgeConstants DEF BridgeInv, TimeInv
<1>3. PICK a, y : NewStation(a, src, dev, now, y) /\ NotIn(dyn_map, src)
  BY NewFrame
<1>. PICK i : i = a.index
  OBVIOUS
<1>4. /\ i \in Indexes /\ ~IsAllocated(dyn_heap.chain, i)
      /\ dyn_vals'[i].dev = dev /\ dyn_vals'[i].time = now
      /\ \A j \in Indexes : j # i => dyn_vals'[j] = dyn_vals[j]
      /\ y \in Busy(dyn_map') /\ Busy(dyn_map') = Busy(dyn_map) \cup {y} /\ dyn_map'[y].key = src /\ dyn_map'[y].vals = i
      /\ \A x \in Busy(dyn_map) : dyn_map'[x].key = dyn_map[x].key /\ dyn_map'[x].vals = dyn_map[x].vals
  BY <1>3 DEF NewStation, NewEntry
<1>5. Learned'[src] = dev /\ RenewedAt'[src] = now
  BY <1>2, <1>4, LearnedIs DEF Sound, Learned, RenewedAt
<1>6. ASSUME NEW k \in Macs, k # src PROVE Learned'[k] = Learned[k] /\ RenewedAt'[k] = RenewedAt[k]
  <2>1. CASE NotIn(dyn_map, k)
    <3>1. NotIn(dyn_map', k)
      BY <1>4, <1>6, <2>1 DEF NotIn
    <3>2. Learned'[k] = NoValue /\ RenewedAt'[k] = 0
      BY <1>2, <3>1, LearnedIs DEF Sound, Learned, RenewedAt
    <3>3. Learned[k] = NoValue /\ RenewedAt[k] = 0
      BY <1>2, <2>1, LearnedIs DEF Sound, Learned, RenewedAt
    <3>. QED
      BY <3>2, <3>3
  <2>2. CASE ~NotIn(dyn_map, k)
    <3>1. PICK x \in Busy(dyn_map) : dyn_map[x].key = k
      BY <2>2 DEF NotIn
    <3>2. dyn_map[x].vals \in Indexes /\ dyn_map[x].vals # i
      BY <1>2, <1>4, <3>1 DEF Sound, TableInv, Entries
    <3>3. x \in Busy(dyn_map') /\ dyn_map'[x].key = k /\ dyn_map'[x].vals = dyn_map[x].vals
      BY <1>4, <3>1
    <3>4. Learned[k] = dyn_vals[dyn_map[x].vals].dev /\ RenewedAt[k] = dyn_vals[dyn_map[x].vals].time
      BY <1>2, <3>1, LearnedIs DEF Sound, Learned, RenewedAt
    <3>5. Learned'[k] = dyn_vals'[dyn_map[x].vals].dev /\ RenewedAt'[k] = dyn_vals'[dyn_map[x].vals].time
      BY <1>2, <3>3, LearnedIs DEF Sound, Learned, RenewedAt
    <3>. QED
      BY <1>4, <3>2, <3>4, <3>5
  <2>. QED
    BY <2>1, <2>2
<1>7. Learned' = [Learned EXCEPT ![src] = dev] /\ RenewedAt' = [RenewedAt EXCEPT ![src] = now]
  <2>1. /\ Learned = [k \in Macs |-> Learned[k]] /\ Learned' = [k \in Macs |-> Learned'[k]]
        /\ RenewedAt = [k \in Macs |-> RenewedAt[k]] /\ RenewedAt' = [k \in Macs |-> RenewedAt'[k]]
    BY DEF Learned, LearnedBy, RenewedAt, RenewedBy
  <2>2. Learned' = [Learned EXCEPT ![src] = dev]
    BY <1>5, <1>6, <2>1
  <2>3. RenewedAt' = [RenewedAt EXCEPT ![src] = now]
    BY <1>5, <1>6, <2>1
  <2>. QED
    BY <2>2, <2>3
<1>8. Learned[src] = NoValue
  BY <1>2, <1>3, LearnedIs DEF Sound, Learned
<1>9. sent' = <<<<src, dst, dev>>, Abstract!Fate(Learned', dst)>>
  BY <1>1, TableFine, ForwardIs DEF Learned
<1>10. Cardinality(Abstract!Known(Learned)) < Size
  <2>1. i \notin Taken(dyn_heap) /\ Taken(dyn_heap) \in SUBSET Indexes
    BY <1>4 DEF Taken
  <2>2. IsFiniteSet(Indexes) /\ Cardinality(Indexes) = Size /\ Size \in Nat
    BY DoubleChainAssumption, FS_Interval DEF Indexes
  <2>3. Cardinality(Taken(dyn_heap)) <= Size /\ (Cardinality(Indexes) = Cardinality(Taken(dyn_heap)) => Indexes = Taken(dyn_heap))
    BY <2>1, <2>2, FS_Subset
  <2>4. Cardinality(Taken(dyn_heap)) # Size
    BY <1>4, <2>1, <2>2, <2>3
  <2>5. Cardinality(Taken(dyn_heap)) \in 0..Size
    BY TakenFinite
  <2>. QED
    BY <2>2, <2>4, <2>5, KnownNumber
<1>11. last_seen' = [last_seen EXCEPT ![src] = now]
  <2>1. last_seen \in [Macs -> Nat]
    BY DEF BridgeInv, SeenInv
  <2>. QED
    BY <1>1, <2>1 DEF Seen
<1>12. UNCHANGED <<clock, exp_now, expiration_done>>
  BY <1>1
<1>13. sent' = <<<<src, dst, dev>>, Abstract!Fate([Learned EXCEPT ![src] = dev], dst)>>
  BY <1>7, <1>9
<1>. QED
  BY <1>7, <1>8, <1>10, <1>11, <1>12, <1>13, SameCardinality DEF Abstract!Learn

(* A frame is dropped when the abstract table has no room. *)
LEMMA FullRefines ==
  ASSUME BridgeInv, NEW src \in Macs, NEW dst, NEW dev, NEW now \in CurrTimes, NEW c \in Cores,
         pkt_handler_full(c, src, dst, dev, now)
  PROVE  Abstract!NoRoom(<<src, dst, dev>>)
<1>. PICK t, a : t = now + validity_duration /\ a = nfos_dchain_exp_allocate_new_index(dyn_heap, c, now)
  OBVIOUS
<1>1. /\ nfos_map_get(dyn_map, src) = NoValue /\ a.index = NoIndex /\ sent' = <<<<src, dst, dev>>, Drop>>
      /\ UNCHANGED <<table, clock, expiry, last_seen>>
  BY DEF pkt_handler_full
<1>2. Sound /\ HeapInv(dyn_heap, Latest, MaxLag) /\ t \in Int /\ t <= Latest /\ Latest <= t + MaxLag /\ src \in Keys
  BY ReadTime, BridgeConstants DEF BridgeInv, Sound, TableInv
<1>3. ExpAllocates(dyn_heap, c, t, a, Latest, MaxLag)
  BY <1>2, ExpAllocateNewIndex
<1>4. Taken(dyn_heap) = Indexes
  BY <1>1, <1>3 DEF ExpAllocates, Taken
<1>5. Cardinality(Abstract!Known(Learned)) = Size
  BY <1>4, KnownNumber, DoubleChainAssumption, FS_Interval DEF Indexes
<1>6. NotIn(dyn_map, src)
  BY <1>1, <1>2, TableGet DEF Sound
<1>7. Learned[src] = NoValue
  BY <1>2, <1>6, LearnedIs DEF Sound, Learned
<1>8. Learned' = Learned /\ RenewedAt' = RenewedAt
  BY <1>1 DEF Learned, RenewedAt, table
<1>9. clock' = clock /\ exp_now' = exp_now /\ expiration_done' = expiration_done
  BY <1>1 DEF expiry
<1>10. last_seen' = last_seen
  BY <1>1
<1>11. sent' = <<<<src, dst, dev>>, Drop>>
  BY <1>1
<1>. QED
  BY <1>5, <1>7, <1>8, <1>9, <1>10, <1>11, SameCardinality DEF Abstract!NoRoom

(* A pass forgets stations that have been quiet long enough. *)
LEMMA PassRefines ==
  ASSUME BridgeInv, exp_mac_commits
  PROVE  Abstract!Forget
<1>1. /\ BridgeInv' /\ Survives(dyn_heap, dyn_heap', exp_now) /\ Keeps(dyn_map, dyn_map')
      /\ exp_now \in Nat /\ exp_now <= clock
      /\ \A c \in Cores : Clean(dyn_heap', c, exp_now, MaxLag)
  BY PassCommits
<1>2. /\ exp_now # NoTime /\ exp_now' = NoTime /\ ~expiration_done
      /\ UNCHANGED <<dyn_macs, dyn_vals, clock, expiration_done, sent>>
      /\ last_seen' = [m \in Macs |-> IF nfos_map_get(dyn_map', m) = NoValue THEN 0 ELSE last_seen[m]]
  BY DEF exp_mac_commits
<1>3. Sound /\ ValuesInv /\ SeenInv /\ Sound' /\ ValuesInv' /\ clock \in Nat
  BY <1>1 DEF BridgeInv, TimeInv
<1>. DEFINE Out == Abstract!Known(Learned) \ Abstract!Known(Learned')
<1>4. \A k \in Macs : k \in Out <=> ~NotIn(dyn_map, k) /\ NotIn(dyn_map', k)
  <2>1. Abstract!Known(Learned) = KeysIn(dyn_map)
    BY TableFine, KnownAre DEF Learned
  <2>2. Abstract!Known(Learned') = KeysIn(dyn_map')
    BY <1>1, TableFine, KnownAre DEF Learned
  <2>. QED
    BY <2>1, <2>2 DEF KeysIn
<1>5. ASSUME NEW k \in Macs, ~NotIn(dyn_map', k)
      PROVE  Learned'[k] = Learned[k] /\ RenewedAt'[k] = RenewedAt[k] /\ ~NotIn(dyn_map, k) /\ nfos_map_get(dyn_map', k) # NoValue
  <2>1. PICK x \in Busy(dyn_map') : dyn_map'[x].key = k
    BY <1>5 DEF NotIn
  <2>2. x \in Busy(dyn_map) /\ dyn_map[x].key = k /\ dyn_map[x].vals = dyn_map'[x].vals
    BY <1>1, <2>1 DEF Keeps
  <2>3. Learned[k] = dyn_vals[dyn_map[x].vals].dev /\ RenewedAt[k] = dyn_vals[dyn_map[x].vals].time
    BY <1>3, <2>2, LearnedIs DEF Sound, Learned, RenewedAt
  <2>4. /\ Learned'[k] = dyn_vals'[dyn_map'[x].vals].dev /\ RenewedAt'[k] = dyn_vals'[dyn_map'[x].vals].time
        /\ nfos_map_get(dyn_map', k) = dyn_map'[x].vals
    BY <1>3, <2>1, LearnedIs DEF Sound, Learned, RenewedAt
  <2>5. dyn_map[x].vals # NoValue
    BY <1>3, <2>2, DoubleChainAssumption DEF Sound, TableInv, Entries, Indexes, NoValue
  <2>. QED
    BY <1>2, <2>2, <2>3, <2>4, <2>5 DEF NotIn
<1>6. ASSUME NEW k \in Macs, NotIn(dyn_map', k)
      PROVE  Learned'[k] = NoValue /\ RenewedAt'[k] = 0 /\ nfos_map_get(dyn_map', k) = NoValue
  BY <1>3, <1>6, LearnedIs DEF Sound, Learned, RenewedAt
<1>7. ASSUME NEW k \in Macs, NotIn(dyn_map, k)
      PROVE  Learned[k] = NoValue /\ RenewedAt[k] = 0 /\ last_seen[k] = 0
  BY <1>3, <1>7, LearnedIs DEF Sound, Learned, RenewedAt, SeenInv
<1>8. Learned' = [k \in Macs |-> IF k \in Out THEN NoValue ELSE Learned[k]]
  <2>1. Learned' = [k \in Macs |-> Learned'[k]]
    BY DEF Learned, LearnedBy
  <2>2. ASSUME NEW k \in Macs PROVE Learned'[k] = IF k \in Out THEN NoValue ELSE Learned[k]
    <3>. HIDE DEF Out
    <3>. QED
      BY <1>4, <1>5, <1>6, <1>7
  <2>. HIDE DEF Out
  <2>. QED
    BY <2>1, <2>2
<1>12. RenewedAt' = [k \in Macs |-> IF k \in Out THEN 0 ELSE RenewedAt[k]]
  <2>1. RenewedAt' = [k \in Macs |-> RenewedAt'[k]]
    BY DEF RenewedAt, RenewedBy
  <2>2. ASSUME NEW k \in Macs PROVE RenewedAt'[k] = IF k \in Out THEN 0 ELSE RenewedAt[k]
    <3>. HIDE DEF Out
    <3>. QED
      BY <1>4, <1>5, <1>6, <1>7
  <2>. HIDE DEF Out
  <2>. QED
    BY <2>1, <2>2
<1>9. last_seen' = [k \in Macs |-> IF k \in Out THEN 0 ELSE last_seen[k]]
  <2>1. ASSUME NEW k \in Macs
        PROVE  (IF nfos_map_get(dyn_map', k) = NoValue THEN 0 ELSE last_seen[k]) = (IF k \in Out THEN 0 ELSE last_seen[k])
    <3>. HIDE DEF Out
    <3>. QED
      BY <1>4, <1>5, <1>6, <1>7
  <2>. HIDE DEF Out
  <2>. QED
    BY <1>2, <2>1
<1>10. ASSUME NEW k \in Out
       PROVE  RenewedAt[k] + validity_duration < exp_now /\ last_seen[k] + validity_duration - REFRESH_INTERVAL < exp_now
  <2>1. k \in Macs
    BY DEF Abstract!Known
  <2>2. ~NotIn(dyn_map, k) /\ NotIn(dyn_map', k)
    BY <1>4, <2>1
  <2>3. PICK x \in Busy(dyn_map) : dyn_map[x].key = k
    BY <2>2 DEF NotIn
  <2>. PICK i : i = dyn_map[x].vals
    OBVIOUS
  <2>4. i \in Indexes /\ IsAllocated(dyn_heap.chain, i)
    BY <1>3, <2>3 DEF Sound, TableInv, Entries
  <2>5. ~IsAllocated(dyn_heap'.chain, i)
    <3>. SUFFICES ASSUME IsAllocated(dyn_heap'.chain, i) PROVE FALSE
      OBVIOUS
    <3>1. PICK z \in Busy(dyn_map') : dyn_map'[z].vals = i
      BY <1>3, <2>4 DEF Sound, TableInv, Listing
    <3>2. z \in Busy(dyn_map) /\ dyn_map[z].vals = i /\ dyn_map[z].key = dyn_map'[z].key
      BY <1>1, <3>1 DEF Keeps
    <3>3. z = x
      BY <1>3, <2>3, <3>2, EntriesDiffer DEF Sound
    <3>. QED
      BY <2>2, <2>3, <3>1, <3>2, <3>3 DEF NotIn
  <2>6. dyn_heap.time[i + INDEX_SHIFT] < exp_now
    <3>1. i + INDEX_SHIFT \in IndexCells
      BY <2>4, CellFacts
    <3>. QED
      BY <1>1, <2>4, <2>5, <3>1 DEF Survives, IsAllocated
  <2>7. dyn_heap.time[i + INDEX_SHIFT] = dyn_vals[i].time + validity_duration /\ dyn_vals[i].time \in Int
    BY <1>3, <2>4 DEF ValuesInv
  <2>8. last_seen[k] <= dyn_vals[i].time + REFRESH_INTERVAL /\ last_seen[k] \in Nat
    BY <1>3, <2>1, <2>3 DEF SeenInv
  <2>9. PICK s, v \in Int : s = last_seen[k] /\ v = dyn_vals[i].time
    BY <2>7, <2>8
  <2>10. v + validity_duration < exp_now /\ s <= v + REFRESH_INTERVAL /\ s \in Int
    BY <2>6, <2>7, <2>8, <2>9
  <2>11. s + validity_duration - REFRESH_INTERVAL < exp_now
    BY <1>1, <2>10, BridgeConstants
  <2>12. RenewedAt[k] = v
    BY <1>3, <2>1, <2>3, <2>9, LearnedIs DEF Sound, RenewedAt
  <2>. QED
    BY <2>9, <2>10, <2>11, <2>12
<1>13. ASSUME NEW k \in Abstract!Known(Learned') PROVE RenewedAt[k] + validity_duration + MaxLag >= exp_now
  <2>1. k \in Macs /\ ~NotIn(dyn_map', k)
    <3>1. Abstract!Known(Learned') = KeysIn(dyn_map')
      BY <1>1, TableFine, KnownAre DEF Learned
    <3>. QED
      BY <1>13, <3>1 DEF KeysIn
  <2>2. PICK x \in Busy(dyn_map') : dyn_map'[x].key = k
    BY <2>1 DEF NotIn
  <2>. PICK i : i = dyn_map'[x].vals
    OBVIOUS
  <2>3. i \in Indexes /\ IsAllocated(dyn_heap'.chain, i)
    BY <1>3, <2>2 DEF Sound, TableInv, Entries
  <2>4. PICK v : v = dyn_vals[i].time /\ v \in Int
    BY <1>3, <2>3 DEF ValuesInv
  <2>5. dyn_heap'.time[i + INDEX_SHIFT] = v + validity_duration
    BY <1>2, <1>3, <2>3, <2>4 DEF ValuesInv
  <2>6. i + INDEX_SHIFT \in IndexCells /\ dyn_heap'.chain.list_ind[i + INDEX_SHIFT] \in Cores
    <3>1. dyn_heap' \in Heaps
      BY <1>3 DEF Sound, TableInv, HeapInv
    <3>. QED
      BY <2>3, <3>1, CellFacts DEF Heaps, Chains, IsAllocated
  <2>7. exp_now <= dyn_heap'.time[i + INDEX_SHIFT] + MaxLag
    BY <1>1, <2>6 DEF Clean
  <2>8. RenewedAt'[k] = v
    BY <1>2, <1>3, <2>1, <2>2, <2>4, LearnedIs DEF Sound, RenewedAt
  <2>9. RenewedAt[k] = v
    BY <1>5, <2>1, <2>8
  <2>10. exp_now <= (v + validity_duration) + MaxLag
    BY <2>5, <2>7
  <2>. QED
    BY <1>1, <2>4, <2>9, <2>10, BridgeConstants
<1>11. UNCHANGED <<clock, expiration_done, sent>> /\ exp_now # NoTime /\ ~expiration_done /\ exp_now' = NoTime
  BY <1>2
<1>. QED
  BY <1>8, <1>9, <1>10, <1>11, <1>12, <1>13 DEF Abstract!Forget

(* Every step is one of the abstract bridge, or none. *)
LEMMA BridgeRefines ==
  ASSUME BridgeInv, BridgeInv', [BridgeNext]_bridge_vars
  PROVE  Abstract!Next \/ UNCHANGED <<Learned, RenewedAt, last_seen, clock, exp_now, expiration_done, sent>>
<1>. DEFINE same == <<Learned, RenewedAt, last_seen, clock, sent>>
<1>0. ASSUME NEW now \in CurrTimes PROVE now \in clock - MaxLag..clock
  BY DEF CurrTimes
<1>1. CASE \E f \in Frames, now \in CurrTimes : pkt_handler_known(f[1], f[2], f[3], now)
  <2>1. PICK f \in Frames, now \in CurrTimes : pkt_handler_known(f[1], f[2], f[3], now)
    BY <1>1
  <2>2. Abstract!Renew(f, now)
    BY <2>1, BridgeConstants, KnownRefines
  <2>. QED
    BY <1>0, <2>2 DEF Abstract!Next
<1>2. CASE \E f \in Frames, now \in CurrTimes, c \in Cores : pkt_handler_new(c, f[1], f[2], f[3], now)
  <2>1. PICK f \in Frames, now \in CurrTimes, c \in Cores : pkt_handler_new(c, f[1], f[2], f[3], now)
    BY <1>2
  <2>2. Abstract!Learn(f, now)
    BY <2>1, BridgeConstants, NewRefines
  <2>. QED
    BY <1>0, <2>2 DEF Abstract!Next
<1>3. CASE \E f \in Frames, now \in CurrTimes, c \in Cores : pkt_handler_full(c, f[1], f[2], f[3], now)
  <2>1. PICK f \in Frames, now \in CurrTimes, c \in Cores : pkt_handler_full(c, f[1], f[2], f[3], now)
    BY <1>3
  <2>2. Abstract!NoRoom(f)
    BY <2>1, BridgeConstants, FullRefines
  <2>. QED
    BY <2>2 DEF Abstract!Next
<1>4. CASE exp_mac
  <2>1. UNCHANGED same /\ exp_now = NoTime /\ exp_now' = clock /\ expiration_done' = FALSE
    BY <1>4 DEF exp_mac, table, history, Learned, RenewedAt
  <2>. QED
    BY <2>1 DEF Abstract!Next, Abstract!Start
<1>5. CASE exp_mac_commits
  BY <1>5, PassRefines DEF Abstract!Next
<1>6. CASE exp_mac_commit_fails
  <2>1. UNCHANGED same /\ exp_now # NoTime /\ exp_now' = exp_now /\ expiration_done' = TRUE
    BY <1>6 DEF exp_mac_commit_fails, table, history, Learned, RenewedAt
  <2>. QED
    BY <2>1 DEF Abstract!Next, Abstract!Fail
<1>7. CASE exp_mac_retry_commits
  <2>1. UNCHANGED same /\ exp_now # NoTime /\ expiration_done /\ exp_now' = NoTime /\ expiration_done' = FALSE
    BY <1>7 DEF exp_mac_retry_commits, table, history, Learned, RenewedAt
  <2>. QED
    BY <2>1 DEF Abstract!Next, Abstract!GiveUp
<1>8. CASE BridgeAdvance
  <2>1. UNCHANGED <<Learned, RenewedAt, last_seen, exp_now, expiration_done, sent>> /\ clock' = clock + 1
    BY <1>8 DEF BridgeAdvance, table, history, expiry, Learned, RenewedAt
  <2>. QED
    BY <2>1 DEF Abstract!Next, Abstract!Advance
<1>9. CASE UNCHANGED bridge_vars
  BY <1>9 DEF bridge_vars, table, history, expiry, Learned, RenewedAt
<1>. QED
  BY <1>1, <1>2, <1>3, <1>4, <1>5, <1>6, <1>7, <1>8, <1>9 DEF BridgeNext

(* The bridge implements the table of addresses MacTable, for every        *)
(* REFRESH_INTERVAL: pkt_handler sends a frame to the device behind which  *)
(* its own destination was learned, or everywhere, and learns its source   *)
(* behind the device it came from if there is room; a pass of exp_mac      *)
(* whose loop ran and committed removes the entries that were not          *)
(* refreshed for the validity, up to the lag of the clocks, and no others; *)
(* a station that it removes was quiet for longer than the validity less   *)
(* the refresh interval.                                                   *)
THEOREM BridgeIsMacTable == BridgeSpec => ImplementsMacTable
<1>1. BridgeInit => Abstract!Init
  <2>. SUFFICES ASSUME BridgeInit PROVE Abstract!Init
    OBVIOUS
  <2>1. Sound
    BY BridgeStarts DEF BridgeInv
  <2>2. \A i \in Indexes : ~IsAllocated(dyn_heap.chain, i)
    BY BridgeConstants, NewHeap DEF BridgeInit
  <2>3. \A k \in Macs : NotIn(dyn_map, k)
    BY <2>1, <2>2 DEF Sound, TableInv, Entries, NotIn
  <2>4. \A k \in Macs : Learned[k] = NoValue /\ RenewedAt[k] = 0
    BY <2>1, <2>3, LearnedIs DEF Sound, Learned, RenewedAt
  <2>5. Learned = [k \in Macs |-> Learned[k]] /\ RenewedAt = [k \in Macs |-> RenewedAt[k]]
    BY DEF Learned, LearnedBy, RenewedAt, RenewedBy
  <2>6. Learned = [k \in Macs |-> NoValue] /\ RenewedAt = [k \in Macs |-> 0]
    BY <2>4, <2>5
  <2>. QED
    BY <2>6 DEF Abstract!Init, BridgeInit
<1>2. BridgeInv /\ BridgeInv' /\ [BridgeNext]_bridge_vars => [Abstract!Next]_<<Learned, RenewedAt, last_seen, clock, exp_now, expiration_done, sent>>
  BY BridgeRefines
<1>3. BridgeSpec => BridgeInit /\ [][BridgeNext]_bridge_vars
  BY DEF BridgeSpec
<1>4. Abstract!Init /\ [][Abstract!Next]_<<Learned, RenewedAt, last_seen, clock, exp_now, expiration_done, sent>> => Abstract!Spec
  BY DEF Abstract!Spec, Abstract!vars
<1>. QED
  BY <1>1, <1>2, <1>3, <1>4, BridgeAlways, PTL DEF ImplementsMacTable
-----------------------------------------------------------------------------
(* The consistent hash table.                                              *)

(* Quotient and rest are determined. *)
LEMMA SameQuotient ==
  ASSUME NEW n \in Nat \ {0}, NEW q \in Int, NEW r \in Int, NEW x \in 0..n - 1, NEW y \in 0..n - 1, n * q + x = n * r + y
  PROVE  q = r /\ x = y
<1>1. n * (q - r) = y - x
  OBVIOUS
<1>2. CASE q - r >= 1
  <2>1. n * (q - r) >= n
    BY <1>2
  <2>. QED
    BY <1>1, <2>1
<1>3. CASE q - r <= -1
  <2>1. n * (q - r) <= -n
    BY <1>3
  <2>. QED
    BY <1>1, <2>1
<1>4. CASE q = r
  BY <1>4
<1>. QED
  BY <1>2, <1>3, <1>4

(* What is left of a dividend that is divided by a divisor of e * d.       *)
LEMMA RestTimes ==
  ASSUME NEW p \in Int, NEW e \in Int, NEW q \in Int, NEW r \in Int, NEW d \in Int, NEW m \in Int, p = e * q + r, e * d = p * m
  PROVE  r * d = p * (d - q * m)
<1>1. r = p - e * q
  OBVIOUS
<1>2. r * d = (p - e * q) * d
  BY <1>1
<1>3. (p - e * q) * d = p * d - q * (e * d)
  OBVIOUS
<1>4. q * (e * d) = q * (p * m)
  OBVIOUS
<1>5. q * (p * m) = p * (q * m)
  OBVIOUS
<1>6. p * (d - q * m) = p * d - p * (q * m)
  OBVIOUS
<1>. QED
  BY <1>2, <1>3, <1>4, <1>5, <1>6

(* Division. *)
LEMMA Divided ==
  ASSUME NEW n \in Nat \ {0}, NEW a \in Nat
  PROVE  a \div n \in Int /\ (a % n) \in 0..n - 1 /\ a = n * (a \div n) + (a % n)
  OBVIOUS

(* Numbers with the same rest differ by a multiple. *)
LEMMA SameRemainder ==
  ASSUME NEW n \in Nat \ {0}, NEW u \in Nat, NEW v \in Nat, (u % n) = (v % n)
  PROVE  \E a \in Int, b \in Int : u - v = n * (a - b)
<1>1. PICK a \in Int : u = n * a + (u % n)
  BY Divided
<1>2. PICK b \in Int : v = n * b + (v % n)
  BY Divided
<1>3. (u % n) \in Int
  BY Divided
<1>4. u - v = n * (a - b)
  BY <1>1, <1>2, <1>3
<1>. QED
  BY <1>4

(* The prime cht_height divides no product of smaller numbers.  Of the     *)
(* least a for which it divides a * d, the rest of cht_height by a would   *)
(* be a smaller one.                                                       *)
LEMMA PrimeHeight ==
  ASSUME NEW d \in 1..cht_height - 1, NEW a \in 1..cht_height - 1, NEW k \in Int, a * d = cht_height * k
  PROVE  FALSE
<1>. DEFINE T == {e \in 1..cht_height - 1 : \E m \in Int : e * d = cht_height * m}
<1>. PICK p : p = cht_height
  OBVIOUS
<1>1. p \in Nat /\ p > 2 /\ \A n \in 2..p - 1 : p % n # 0
  BY ChtAssumption
<1>2. T \in SUBSET Nat /\ T # {}
  OBVIOUS
<1>3. PICK e \in T : \A f \in T : e <= f
  BY <1>2, Least
<1>4. PICK m \in Int : e * d = p * m
  BY <1>3
<1>5. e \in Nat /\ e >= 1 /\ e < p /\ d \in Nat /\ d >= 1 /\ d < p
  BY <1>1
<1>6. CASE e = 1
  <2>1. d = p * m
    BY <1>4, <1>5, <1>6
  <2>2. p * 0 + d = p * m + 0 /\ d \in 0..p - 1 /\ 0 \in 0..p - 1
    BY <1>1, <1>5, <2>1
  <2>3. d = 0
    BY <1>1, <2>2, SameQuotient
  <2>. QED
    BY <1>5, <2>3
<1>7. CASE e # 1
  <2>0. PICK q, r : q = p \div e /\ r = p % e
    OBVIOUS
  <2>1. q \in Int /\ r \in 0..e - 1 /\ p = e * q + r
    BY <1>1, <1>5, <2>0
  <2>2. r # 0
    BY <1>1, <1>5, <1>7, <2>0
  <2>3. p \in Int /\ e \in Int /\ q \in Int /\ r \in Int /\ d \in Int /\ m \in Int
    BY <1>1, <1>4, <1>5, <2>1
  <2>4. r * d = p * (d - q * m)
    BY <1>4, <2>1, <2>3, RestTimes
  <2>5. d - q * m \in Int
    BY <1>5, <2>1
  <2>6. r \in 1..cht_height - 1 /\ r < e
    BY <1>1, <1>5, <2>1, <2>2
  <2>7. r \in T
    BY <2>4, <2>5, <2>6
  <2>. QED
    BY <1>3, <1>5, <2>6, <2>7
<1>. QED
  BY <1>6, <1>7

(* The buckets that a backend enters are different ...                     *)
LEMMA PermutationDiffers ==
  ASSUME NEW j \in Candidates, NEW i \in Buckets, NEW k \in Buckets, k < i
  PROVE  Permutation(j, i) # Permutation(j, k)
<1>. SUFFICES ASSUME Permutation(j, i) = Permutation(j, k) PROVE FALSE
  OBVIOUS
<1>1. PICK p, o, s : p = cht_height /\ o = ((31 * j) % cht_height) /\ s = (j % (cht_height - 1)) + 1
  OBVIOUS
<1>2. p \in Nat /\ p > 2 /\ j \in Nat
  BY <1>1, ChtAssumption DEF Candidates
<1>3. o \in Nat /\ s \in 1..p - 1
  BY <1>1, <1>2
<1>4. i \in Nat /\ k \in Nat /\ i < p
  BY <1>1, <1>2 DEF Buckets
<1>5. PICK u, v : u = o + s * i /\ v = o + s * k
  OBVIOUS
<1>6. u \in Nat /\ v \in Nat
  BY <1>3, <1>4, <1>5
<1>7. (u % p) = (v % p)
  BY <1>1, <1>5 DEF Permutation
<1>8. p \in Nat \ {0}
  BY <1>2
<1>9. PICK a \in Int, b \in Int : u - v = p * (a - b)
  BY <1>6, <1>7, <1>8, SameRemainder
<1>10. s * (i - k) = u - v
  BY <1>3, <1>4, <1>5
<1>11. s * (i - k) = cht_height * (a - b) /\ a - b \in Int
  BY <1>1, <1>9, <1>10
<1>12. i - k \in 1..cht_height - 1
  BY <1>1, <1>2, <1>4
<1>. QED
  BY <1>1, <1>3, <1>11, <1>12, PrimeHeight

(* ... and therefore all buckets.                                          *)
LEMMA PermutationReaches ==
  ASSUME NEW j \in Candidates, NEW b \in Buckets
  PROVE  \E i \in Buckets : Permutation(j, i) = b
<1>. DEFINE f == [i \in Buckets |-> Permutation(j, i)]
<1>1. cht_height \in Nat /\ cht_height > 2 /\ j \in Nat
  BY ChtAssumption DEF Candidates
<1>2. ASSUME NEW i \in Buckets PROVE Permutation(j, i) \in Buckets
  <2>. PICK u : u = ((31 * j) % cht_height) + ((j % (cht_height - 1)) + 1) * i
    OBVIOUS
  <2>1. ((31 * j) % cht_height) \in Int /\ ((j % (cht_height - 1)) + 1) \in Int /\ i \in Int
    BY <1>1 DEF Buckets
  <2>2. u \in Int
    BY <2>1
  <2>3. (u % cht_height) \in 0..cht_height - 1
    BY <1>1, <2>2
  <2>. QED
    BY <2>3 DEF Permutation, Buckets
<1>3. \A i, k \in Buckets : i # k => Permutation(j, i) # Permutation(j, k)
  <2>1. \A i, k \in Buckets : i # k => i < k \/ k < i
    BY <1>1 DEF Buckets
  <2>. QED
    BY <2>1, PermutationDiffers
<1>4. f \in Injection(Buckets, Buckets)
  BY <1>2, <1>3 DEF Injection, IsInjective
<1>5. IsFiniteSet(Buckets)
  BY <1>1, FS_Interval DEF Buckets
<1>6. f \in Surjection(Buckets, Buckets)
  BY <1>4, <1>5, FS_Injection
<1>. QED
  BY <1>6 DEF Surjection

FillSteps == cht_height * backend_capacity

FillStates == [next : [Buckets -> Nat], cht : [0..FillSteps - 1 -> Candidates]]

(* The backends that have entered bucket b in n steps of the filling. *)
Entered(n, b) == {j \in Candidates : \E i \in Buckets : backend_capacity * i + j < n /\ Permutation(j, i) = b}

(* They are on the list of the bucket. *)
Filled(s, n) ==
  \A b \in Buckets :
    /\ s.next[b] = Cardinality(Entered(n, b))
    /\ \A j \in Entered(n, b) : \E q \in Nat : q < s.next[b] /\ s.cht[backend_capacity * b + q] = j

(* The constants of the table. *)
LEMMA ChtConstants ==
  /\ cht_height \in Nat \ {0} /\ backend_capacity \in Nat \ {0} /\ FillSteps \in Nat \ {0} /\ FillSteps = backend_capacity * cht_height
  /\ \A b \in Buckets, q \in Candidates : backend_capacity * b + q \in 0..FillSteps - 1
  /\ 0 \in Candidates /\ Candidates \subseteq Nat /\ Buckets \subseteq Nat /\ Candidates = 0..backend_capacity - 1
<1>. PICK h, c : h = cht_height /\ c = backend_capacity
  OBVIOUS
<1>1. h \in Nat \ {0} /\ c \in Nat \ {0}
  BY ChtAssumption
<1>2. h * c \in Nat \ {0} /\ h * c = c * h
  BY <1>1
<1>3. ASSUME NEW b \in Buckets, NEW q \in Candidates PROVE c * b + q \in 0..(c * h) - 1
  <2>1. b \in Nat /\ b <= h - 1 /\ q \in Nat /\ q <= c - 1
    BY <1>1 DEF Buckets, Candidates
  <2>2. c * b \in Nat /\ c * b <= c * (h - 1)
    BY <1>1, <2>1
  <2>3. c * (h - 1) = c * h - c
    BY <1>1
  <2>. QED
    BY <1>1, <1>2, <2>1, <2>2, <2>3
<1>. QED
  BY <1>1, <1>2, <1>3 DEF FillSteps, Candidates, Buckets

(* The m-th step. *)
LEMMA StepOf ==
  ASSUME NEW m \in 0..FillSteps - 1
  PROVE  /\ m \div backend_capacity \in Buckets /\ (m % backend_capacity) \in Candidates
         /\ m = backend_capacity * (m \div backend_capacity) + (m % backend_capacity)
<1>1. PICK c, h, q, r : c = backend_capacity /\ h = cht_height /\ q = m \div backend_capacity /\ r = (m % backend_capacity)
  OBVIOUS
<1>2. c \in Nat \ {0} /\ h \in Nat \ {0} /\ m \in Nat /\ m < c * h
  BY <1>1, ChtConstants
<1>3. q \in Int /\ r \in 0..c - 1 /\ m = c * q + r
  BY <1>1, <1>2, Divided
<1>4. q >= 0
  <2>1. CASE q <= -1
    <3>1. c * q <= -c
      BY <1>2, <1>3, <2>1
    <3>. QED
      BY <1>2, <1>3, <3>1
  <2>. QED
    BY <1>3, <2>1
<1>5. q < h
  <2>1. CASE q >= h
    <3>1. c * q >= c * h
      BY <1>2, <1>3, <2>1
    <3>. QED
      BY <1>2, <1>3, <3>1
  <2>. QED
    BY <1>2, <1>3, <2>1
<1>. QED
  BY <1>1, <1>2, <1>3, <1>4, <1>5 DEF Buckets, Candidates

(* The buckets of a backend. *)
LEMMA PermutationType ==
  ASSUME NEW j \in Candidates, NEW i \in Buckets
  PROVE  Permutation(j, i) \in Buckets
<1>1. cht_height \in Nat /\ cht_height > 2 /\ j \in Nat
  BY ChtAssumption DEF Candidates
<1>. PICK u : u = ((31 * j) % cht_height) + ((j % (cht_height - 1)) + 1) * i
  OBVIOUS
<1>2. ((31 * j) % cht_height) \in Int /\ ((j % (cht_height - 1)) + 1) \in Int /\ i \in Int
  BY <1>1 DEF Buckets
<1>3. u \in Int
  BY <1>2
<1>4. (u % cht_height) \in 0..cht_height - 1
  BY <1>1, <1>3
<1>. QED
  BY <1>4 DEF Permutation, Buckets

(* Who has entered after one more step. *)
LEMMA EnteredNext ==
  ASSUME NEW m \in Nat, NEW i \in Buckets, NEW j \in Candidates, m = backend_capacity * i + j
  PROVE  /\ Entered(m + 1, Permutation(j, i)) = Entered(m, Permutation(j, i)) \cup {j}
         /\ j \notin Entered(m, Permutation(j, i))
         /\ \A b \in Buckets : b # Permutation(j, i) => Entered(m + 1, b) = Entered(m, b)
<1>0. PICK c : c = backend_capacity
  OBVIOUS
<1>1. c \in Nat \ {0} /\ Candidates = 0..c - 1 /\ Buckets \subseteq Nat /\ Candidates \subseteq Nat
  BY <1>0, ChtConstants
<1>2. ASSUME NEW b, NEW k \in Candidates
      PROVE  k \in Entered(m + 1, b) <=> k \in Entered(m, b) \/ (k = j /\ b = Permutation(j, i))
  <2>1. ASSUME NEW l \in Buckets, c * l + k < m + 1, Permutation(k, l) = b
        PROVE  k \in Entered(m, b) \/ (k = j /\ b = Permutation(j, i))
    <3>1. c * l + k \in Nat /\ l \in Int /\ i \in Int /\ k \in 0..c - 1 /\ j \in 0..c - 1
      BY <1>1
    <3>2. CASE c * l + k < m
      BY <1>0, <2>1, <3>2 DEF Entered
    <3>3. CASE c * l + k = m
      <4>1. c * l + k = c * i + j
        BY <1>0, <3>3
      <4>2. l = i /\ k = j
        BY <1>1, <3>1, <4>1, SameQuotient
      <4>. QED
        BY <2>1, <4>2
    <3>. QED
      BY <2>1, <3>1, <3>2, <3>3
  <2>2. ASSUME k \in Entered(m, b) PROVE k \in Entered(m + 1, b)
    <3>1. PICK l \in Buckets : c * l + k < m /\ Permutation(k, l) = b
      BY <1>0, <2>2 DEF Entered
    <3>2. c * l + k \in Int
      BY <1>1
    <3>3. c * l + k < m + 1
      BY <3>1, <3>2
    <3>. QED
      BY <1>0, <3>1, <3>3 DEF Entered
  <2>3. j \in Entered(m + 1, Permutation(j, i))
    BY DEF Entered
  <2>. QED
    BY <1>0, <2>1, <2>2, <2>3 DEF Entered
<1>3. \A b : Entered(m, b) \subseteq Candidates /\ Entered(m + 1, b) \subseteq Candidates
  BY DEF Entered
<1>4. j \notin Entered(m, Permutation(j, i))
  <2>1. ASSUME NEW l \in Buckets, c * l + j < m, Permutation(j, l) = Permutation(j, i) PROVE FALSE
    <3>1. l \in Nat /\ i \in Nat /\ j \in Nat /\ c * l < c * i
      BY <1>0, <1>1, <2>1
    <3>2. CASE l >= i
      <4>1. c * l >= c * i
        BY <1>1, <3>1, <3>2
      <4>2. c * l \in Int /\ c * i \in Int
        BY <1>1, <3>1
      <4>. QED
        BY <3>1, <4>1, <4>2
    <3>3. CASE l < i
      BY <2>1, <3>3, PermutationDiffers
    <3>. QED
      BY <3>1, <3>2, <3>3
  <2>. QED
    BY <1>0, <2>1 DEF Entered
<1>. QED
  BY <1>2, <1>3, <1>4

(* A bucket has place for all. *)
LEMMA EnteredFew ==
  ASSUME NEW n, NEW b
  PROVE  Cardinality(Entered(n, b)) <= backend_capacity
<1>1. Entered(n, b) \subseteq Candidates
  BY DEF Entered
<1>2. PICK c : c = backend_capacity
  OBVIOUS
<1>3. c \in Nat \ {0} /\ Candidates = 0..c - 1
  BY <1>2, ChtConstants
<1>4. IsFiniteSet(0..c - 1) /\ Cardinality(0..c - 1) = IF 0 > c - 1 THEN 0 ELSE (c - 1) - 0 + 1
  BY <1>3, FS_Interval
<1>5. IsFiniteSet(Candidates) /\ Cardinality(Candidates) = c
  BY <1>3, <1>4
<1>. QED
  BY <1>1, <1>2, <1>5, FS_Subset

(* A step of the filling. *)
LEMMA FillStep ==
  ASSUME NEW m \in 0..FillSteps - 1, NEW s \in FillStates, Filled(s, m), NEW i \in Buckets, NEW j \in Candidates,
         m = backend_capacity * i + j
  PROVE  Filled(Enter(s, i, j), m + 1)
<1>0. PICK c, b, t, e, x : /\ c = backend_capacity /\ b = Permutation(j, i) /\ t = Enter(s, i, j) /\ e = Entered(m, b)
                           /\ x = backend_capacity * b + s.next[b]
  OBVIOUS
<1>1. c \in Nat \ {0} /\ Candidates = 0..c - 1 /\ Buckets \subseteq Nat /\ Candidates \subseteq Nat /\ m \in Nat /\ b \in Buckets
  BY <1>0, ChtConstants, PermutationType
<1>2. /\ Entered(m + 1, b) = e \cup {j} /\ j \notin e /\ e \subseteq Candidates
      /\ \A d \in Buckets : d # b => Entered(m + 1, d) = Entered(m, d)
  <2>1. e \subseteq Candidates
    BY <1>0 DEF Entered
  <2>. QED
    BY <1>0, <1>1, <2>1, EnteredNext
<1>3. s.next \in [Buckets -> Nat] /\ s.cht \in [0..FillSteps - 1 -> Candidates]
  BY DEF FillStates
<1>4. IsFiniteSet(e) /\ Cardinality(e) \in Nat /\ Cardinality(e \cup {j}) = Cardinality(e) + 1 /\ Cardinality(e) + 1 <= c
  <2>1. IsFiniteSet(Candidates) /\ Cardinality(Candidates) = c
    <3>1. IsFiniteSet(0..c - 1) /\ Cardinality(0..c - 1) = IF 0 > c - 1 THEN 0 ELSE (c - 1) - 0 + 1
      BY <1>1, FS_Interval
    <3>. QED
      BY <1>1, <3>1
  <2>2. IsFiniteSet(e) /\ Cardinality(e) \in Nat
    BY <1>2, <2>1, FS_Subset, FS_CardinalityType
  <2>3. Cardinality(e \cup {j}) = Cardinality(e) + 1
    BY <1>2, <2>2, FS_AddElement
  <2>4. e \cup {j} \subseteq Candidates
    BY <1>2
  <2>5. Cardinality(e \cup {j}) <= Cardinality(Candidates)
    BY <2>1, <2>4, FS_Subset
  <2>. QED
    BY <2>1, <2>2, <2>3, <2>5
<1>5. s.next[b] = Cardinality(e) /\ s.next[b] \in Candidates
  <2>1. s.next[b] = Cardinality(e)
    BY <1>0, <1>1 DEF Filled
  <2>. QED
    BY <1>1, <1>4, <2>1
<1>6. x \in 0..FillSteps - 1
  BY <1>0, <1>1, <1>5, ChtConstants
<1>7. /\ t.next[b] = s.next[b] + 1 /\ \A d \in Buckets : d # b => t.next[d] = s.next[d]
      /\ t.cht[x] = j /\ \A y \in 0..FillSteps - 1 : y # x => t.cht[y] = s.cht[y]
  <2>1. t.next = [s.next EXCEPT ![b] = s.next[b] + 1] /\ t.cht = [s.cht EXCEPT ![x] = j]
    BY <1>0 DEF Enter
  <2>. QED
    BY <1>1, <1>3, <1>6, <2>1
<1>8. ASSUME NEW d \in Buckets, NEW k \in Entered(m, d)
      PROVE  \E q \in Nat : q < s.next[d] /\ t.cht[c * d + q] = k
  <2>1. PICK q \in Nat : q < s.next[d] /\ s.cht[c * d + q] = k
    BY <1>0, <1>8 DEF Filled
  <2>2. s.next[d] = Cardinality(Entered(m, d)) /\ s.next[d] \in Nat
    BY <1>3 DEF Filled
  <2>3. s.next[d] <= c
    BY <1>0, <2>2, EnteredFew
  <2>4. q \in Candidates
    BY <1>1, <2>1, <2>2, <2>3
  <2>5. c * d + q \in 0..FillSteps - 1
    BY <1>0, <2>4, ChtConstants
  <2>6. c * d + q # x
    <3>1. CASE c * d + q = x
      <4>1. c * d + q = c * b + s.next[b] /\ d \in Int /\ b \in Int /\ q \in 0..c - 1 /\ s.next[b] \in 0..c - 1
        BY <1>0, <1>1, <1>5, <2>4, <3>1
      <4>2. d = b /\ q = s.next[b]
        BY <1>1, <4>1, SameQuotient
      <4>. QED
        BY <2>1, <2>2, <4>2
    <3>. QED
      BY <3>1
  <2>. QED
    BY <1>7, <2>1, <2>5, <2>6
<1>9. ASSUME NEW d \in Buckets
      PROVE  /\ t.next[d] = Cardinality(Entered(m + 1, d))
             /\ \A k \in Entered(m + 1, d) : \E q \in Nat : q < t.next[d] /\ t.cht[c * d + q] = k
  <2>1. CASE d = b
    <3>1. t.next[d] = Cardinality(Entered(m + 1, d))
      BY <1>2, <1>4, <1>5, <1>7, <2>1
    <3>2. ASSUME NEW k \in Entered(m + 1, d) PROVE \E q \in Nat : q < t.next[d] /\ t.cht[c * d + q] = k
      <4>1. CASE k = j
        <5>1. s.next[b] \in Nat /\ s.next[b] < t.next[d] /\ t.cht[c * d + s.next[b]] = k
          BY <1>0, <1>1, <1>3, <1>7, <2>1, <4>1
        <5>. QED
          BY <5>1
      <4>2. CASE k # j
        <5>1. k \in Entered(m, d)
          BY <1>0, <1>2, <2>1, <3>2, <4>2
        <5>2. PICK q \in Nat : q < s.next[d] /\ t.cht[c * d + q] = k
          BY <1>8, <5>1
        <5>3. s.next[d] \in Nat /\ t.next[d] = s.next[d] + 1
          BY <1>3, <1>7, <2>1
        <5>4. q < t.next[d]
          BY <5>2, <5>3
        <5>. QED
          BY <5>2, <5>4
      <4>. QED
        BY <4>1, <4>2
    <3>. QED
      BY <3>1, <3>2
  <2>2. CASE d # b
    <3>1. Entered(m + 1, d) = Entered(m, d) /\ t.next[d] = s.next[d]
      BY <1>2, <1>7, <2>2
    <3>2. s.next[d] = Cardinality(Entered(m, d))
      BY DEF Filled
    <3>. QED
      BY <1>8, <3>1, <3>2
  <2>. QED
    BY <2>1, <2>2
<1>. QED
  BY <1>0, <1>9 DEF Filled

FillStart == [next |-> [b \in Buckets |-> 0], cht |-> [x \in 0..(cht_height * backend_capacity) - 1 |-> 0]]

FillHop(r, n) == With(r, LAMBDA s : Enter(s, (n - 1) \div backend_capacity, (n - 1) % backend_capacity))

FillEq(g) == g = [n \in 0..cht_height * backend_capacity |-> IF n = 0 THEN FillStart ELSE FillHop(g[n - 1], n)]

(* FillHop without With. *)
LEMMA FillHopIs ==
  ASSUME NEW s, NEW n
  PROVE  FillHop(s, n) = Enter(s, (n - 1) \div backend_capacity, (n - 1) % backend_capacity)
<1>. DEFINE E(q) == Enter(q, (n - 1) \div backend_capacity, (n - 1) % backend_capacity)
            T == {E(q) : q \in {s}}
<1>1. FillHop(s, n) = CHOOSE y \in T : TRUE
  BY DEF FillHop, With
<1>2. T = {E(s)}
  OBVIOUS
<1>. HIDE DEF T
<1>. QED
  BY <1>1, <1>2, OnlyChoice

(* The states of the filling. *)
LEMMA EnterType ==
  ASSUME NEW s \in FillStates, NEW i \in Buckets, NEW j \in Candidates
  PROVE  Enter(s, i, j) \in FillStates
<1>0. PICK b, x : b = Permutation(j, i) /\ x = backend_capacity * b + s.next[b]
  OBVIOUS
<1>1. b \in Buckets
  BY <1>0, PermutationType
<1>2. s.next \in [Buckets -> Nat] /\ s.cht \in [0..FillSteps - 1 -> Candidates]
  BY DEF FillStates
<1>3. [s.next EXCEPT ![b] = s.next[b] + 1] \in [Buckets -> Nat] /\ [s.cht EXCEPT ![x] = j] \in [0..FillSteps - 1 -> Candidates]
  <2>1. PICK f, g : f = s.next /\ g = s.cht
    OBVIOUS
  <2>2. f \in [Buckets -> Nat] /\ f[b] + 1 \in Nat /\ g \in [0..FillSteps - 1 -> Candidates]
    BY <1>1, <1>2, <2>1
  <2>3. [f EXCEPT ![b] = f[b] + 1] \in [Buckets -> Nat]
    BY <1>1, <2>2
  <2>4. [g EXCEPT ![x] = j] \in [0..FillSteps - 1 -> Candidates]
    BY <2>2
  <2>. QED
    BY <2>1, <2>3, <2>4
<1>4. Enter(s, i, j) = [next |-> [s.next EXCEPT ![b] = s.next[b] + 1], cht |-> [s.cht EXCEPT ![x] = j]]
  BY <1>0 DEF Enter
<1>. QED
  BY <1>3, <1>4 DEF FillStates

(* f are the states after each step. *)
FillRun(f) ==
  /\ f[0] = FillStart /\ nfos_cht_fill_cht = f[FillSteps].cht
  /\ \A n \in 0..FillSteps : f[n] \in FillStates
  /\ \A n \in 0..FillSteps - 1 : f[n + 1] = Enter(f[n], n \div backend_capacity, n % backend_capacity)

(* There are such states. *)
LEMMA FillRuns == \E f : FillRun(f)
<1>. DEFINE S == FillStates
            hop(n) == [s \in S |-> Enter(s, (n - 1) \div backend_capacity, (n - 1) % backend_capacity)]
            step == [n \in 1..FillSteps |-> hop(n)]
            after == CHOOSE g : FillEq(g)
<1>1. FillSteps \in Nat /\ FillSteps = cht_height * backend_capacity /\ \A n \in 1..FillSteps : n - 1 \in 0..FillSteps /\ n - 1 \in 0..FillSteps - 1
  BY ChtConstants DEF FillSteps
<1>2. FillStart \in S
  BY <1>1, ChtConstants DEF FillStart, FillStates
<1>3. \A n \in 1..FillSteps, s \in S : Enter(s, (n - 1) \div backend_capacity, (n - 1) % backend_capacity) \in S
  BY <1>1, StepOf, EnterType
<1>4. step \in Steps(FillSteps, S)
  <2>. HIDE DEF S
  <2>1. \A n \in 1..FillSteps : hop(n) \in [S -> S]
    BY <1>3
  <2>. HIDE DEF hop
  <2>. QED
    BY <2>1 DEF Steps
<1>. HIDE DEF S
<1>5. PICK f : Computes(f, FillSteps, S, FillStart, step)
  <2>. HIDE DEF step
  <2>. QED
    BY <1>1, <1>2, <1>4, Recursion
<1>6. f \in [0..FillSteps -> S] /\ f[0] = FillStart /\ \A n \in 1..FillSteps : f[n] = step[n][f[n - 1]]
  <2>. HIDE DEF step
  <2>. QED
    BY <1>5 DEF Computes
<1>7. ASSUME NEW n \in 1..FillSteps PROVE f[n] = FillHop(f[n - 1], n)
  <2>1. f[n - 1] \in S
    BY <1>1, <1>6
  <2>2. step[n] = hop(n)
    <3>. HIDE DEF hop
    <3>. QED
      OBVIOUS
  <2>3. f[n] = Enter(f[n - 1], (n - 1) \div backend_capacity, (n - 1) % backend_capacity)
    BY <1>6, <2>1, <2>2
  <2>. QED
    BY <2>3, FillHopIs
<1>8. FillEq(f)
  <2>1. \A n \in 0..FillSteps : f[n] = IF n = 0 THEN FillStart ELSE FillHop(f[n - 1], n)
    BY <1>1, <1>6, <1>7
  <2>2. f = [n \in 0..FillSteps |-> IF n = 0 THEN FillStart ELSE FillHop(f[n - 1], n)]
    BY <1>6, <2>1
  <2>. QED
    BY <1>1, <2>2 DEF FillEq
<1>9. FillEq(after)
  BY <1>8
<1>10. nfos_cht_fill_cht = after[FillSteps].cht
  BY DEF nfos_cht_fill_cht, FillEq, FillStart, FillHop, FillSteps
<1>. HIDE DEF after
<1>11. \A n \in 0..FillSteps : after[n] = IF n = 0 THEN FillStart ELSE FillHop(after[n - 1], n)
  BY <1>1, <1>9 DEF FillEq
<1>12. ASSUME NEW n \in 0..FillSteps - 1 PROVE after[n + 1] = Enter(after[n], n \div backend_capacity, n % backend_capacity)
  <2>1. n + 1 \in 0..FillSteps /\ (n + 1) - 1 = n /\ n + 1 # 0
    BY <1>1
  <2>2. after[n + 1] = FillHop(after[n], n + 1)
    BY <1>11, <2>1
  <2>. QED
    BY <2>1, <2>2, FillHopIs
<1>13. \A n \in 0..FillSteps : after[n] \in S
  <2>. DEFINE T == {i \in 0..FillSteps : after[i] \in S}
  <2>1. 0 \in T
    BY <1>1, <1>2, <1>11
  <2>2. ASSUME NEW i \in 0..FillSteps - 1, i \in T PROVE i + 1 \in T
    <3>1. i + 1 \in 1..FillSteps /\ i + 1 \in 0..FillSteps /\ (i + 1) - 1 = i /\ after[i] \in S
      BY <1>1, <2>2
    <3>2. Enter(after[i], i \div backend_capacity, i % backend_capacity) \in S
      BY <1>3, <3>1
    <3>. QED
      BY <1>12, <3>1, <3>2
  <2>3. \A i \in 0..FillSteps - 1 : i \in T => i + 1 \in T
    BY <2>2
  <2>4. \A n \in 0..FillSteps : n \in T
    <3>. HIDE DEF T
    <3>. QED
      BY <1>1, <2>1, <2>3, Induction
  <2>. QED
    BY <2>4
<1>14. after[0] = FillStart
  BY <1>1, <1>11
<1>. QED
  BY <1>10, <1>12, <1>13, <1>14 DEF S, FillRun

(* After nfos_cht_fill_cht the list of every bucket names every backend,   *)
(* for every prime height and every number of backends.  A list has as     *)
(* many places as there are backends, so each of them is on it once.       *)
THEOREM BucketsListAll ==
  \A b \in Buckets, j \in Candidates : \E q \in Candidates : nfos_cht_fill_cht[backend_capacity * b + q] = j
<1>1. PICK f : FillRun(f)
  BY FillRuns
<1>2. FillSteps \in Nat /\ FillSteps \in 0..FillSteps
  BY ChtConstants
<1>3. \A n \in 0..FillSteps : Filled(f[n], n)
  <2>. DEFINE T == {n \in 0..FillSteps : Filled(f[n], n)}
  <2>1. Filled(f[0], 0)
    <3>1. ASSUME NEW b \in Buckets PROVE Entered(0, b) = {}
      <4>1. ASSUME NEW i \in Buckets, NEW j \in Candidates PROVE ~(backend_capacity * i + j < 0)
        <5>1. backend_capacity \in Nat /\ i \in Nat /\ j \in Nat
          BY ChtConstants
        <5>. QED
          BY <5>1
      <4>. QED
        BY <4>1 DEF Entered
    <3>2. Cardinality({}) = 0
      BY FS_EmptySet
    <3>3. \A b \in Buckets : f[0].next[b] = 0
      BY <1>1 DEF FillRun, FillStart
    <3>. QED
      BY <3>1, <3>2, <3>3 DEF Filled
  <2>2. ASSUME NEW n \in 0..FillSteps - 1, n \in T PROVE n + 1 \in T
    <3>1. n \div backend_capacity \in Buckets /\ (n % backend_capacity) \in Candidates
          /\ n = backend_capacity * (n \div backend_capacity) + (n % backend_capacity)
      BY StepOf
    <3>2. n \in 0..FillSteps /\ n + 1 \in 0..FillSteps
      BY <1>2
    <3>3. f[n] \in FillStates /\ Filled(f[n], n) /\ f[n + 1] = Enter(f[n], n \div backend_capacity, n % backend_capacity)
      BY <1>1, <2>2, <3>2 DEF FillRun
    <3>4. Filled(f[n + 1], n + 1)
      BY <3>1, <3>3, FillStep
    <3>. QED
      BY <3>2, <3>4
  <2>3. 0 \in T /\ \A n \in 0..FillSteps - 1 : n \in T => n + 1 \in T
    BY <1>2, <2>1, <2>2
  <2>4. \A n \in 0..FillSteps : n \in T
    <3>. HIDE DEF T
    <3>. QED
      BY <1>2, <2>3, Induction
  <2>. QED
    BY <2>4
<1>4. ASSUME NEW b \in Buckets, NEW j \in Candidates
      PROVE  \E q \in Candidates : nfos_cht_fill_cht[backend_capacity * b + q] = j
  <2>0. PICK s : s = f[FillSteps]
    OBVIOUS
  <2>1. Filled(s, FillSteps) /\ s \in FillStates /\ nfos_cht_fill_cht = s.cht
    BY <1>1, <1>2, <1>3, <2>0 DEF FillRun
  <2>2. PICK i \in Buckets : Permutation(j, i) = b
    BY PermutationReaches
  <2>3. backend_capacity * i + j < FillSteps
    BY <1>2, ChtConstants
  <2>4. j \in Entered(FillSteps, b)
    BY <2>2, <2>3 DEF Entered
  <2>5. PICK q \in Nat : q < s.next[b] /\ s.cht[backend_capacity * b + q] = j
    BY <2>1, <2>4 DEF Filled
  <2>6. s.next[b] = Cardinality(Entered(FillSteps, b)) /\ s.next[b] \in Nat
    BY <2>1 DEF Filled, FillStates
  <2>7. s.next[b] <= backend_capacity
    BY <2>6, EnteredFew
  <2>8. q \in Candidates
    BY <2>5, <2>6, <2>7, ChtConstants
  <2>. QED
    BY <2>1, <2>5, <2>8
<1>. QED
  BY <1>4
-----------------------------------------------------------------------------
(* The load balancer.                                                      *)

(* The table of backends. *)
PoolSound == TableInv(backends, backend_ip_to_backend_id, backend_ips, Latest, MaxLag)

Dests == [dev : LanDevices \cup {NoDevice}, ip : Backends \cup {Nobody}]

(* The backend of a live index is known by the address in the table, and   *)
(* it is on a LAN device.                                                  *)
InfoInv ==
  /\ backend_info \in [Indexes -> Dests]
  /\ \A i \in Indexes : IsAllocated(backends.chain, i) => backend_info[i].ip = backend_ips[i] /\ backend_info[i].dev \in LanDevices

(* Whoever served a flow is the live backend that the flow has. *)
FlowInv ==
  /\ flows \in [Flows -> Indexes \cup {NoFlow}] /\ served \in [Flows -> Backends \cup {Nobody}]
  /\ \A f \in Flows : served[f] # Nobody =>
       flows[f] \in Indexes /\ IsAllocated(backends.chain, flows[f]) /\ backend_ips[flows[f]] = served[f]

(* The packet in progress knows whether its flow is registered. *)
Pkts == [flow : Flows, dst_addr : DOMAIN Fib, known : BOOLEAN, dst : Dests]

PktInv == pkt # NoPkt => pkt \in Pkts /\ (pkt.known <=> flows[pkt.flow] # NoFlow)

MaglevInv == TimeInv /\ PoolSound /\ InfoInv /\ FlowInv /\ PktInv /\ cht = nfos_cht_fill_cht

(* The constants of the load balancer. *)
LEMMA MaglevConstants ==
  /\ Keys = Backends /\ validity_duration \in Nat /\ MaxLag \in Nat /\ Nobody \notin Backends /\ NoDevice \notin LanDevices
  /\ DstOf \in [Flows -> DOMAIN Fib] /\ Backends \subseteq DOMAIN Fib /\ backend_capacity = Size /\ Size \in Nat \ {0}
  /\ Candidates = Indexes /\ NoFlow \notin Indexes /\ NotFound \notin Indexes /\ NotFound = NoFlow /\ NoFlow = -1
  BY MaglevAssumption, PeriodicExpiryAssumption, DoubleChainExpAssumption, DoubleChainAssumption, NfosMapAssumption
     DEF Keys, Nobody, Candidates, Indexes, NoFlow, NotFound

(* The live backends. *)
LEMMA AliveIs ==
  /\ Alive = Taken(backends) /\ Alive' = Taken(backends')
  /\ Alive \subseteq Indexes /\ Alive' \subseteq Indexes
  BY DEF Alive, Taken, nfos_dchain_exp_is_index_allocated

(* The first live backend on a list. *)
LEMMA PreferredIs ==
  ASSUME NEW table2, NEW hash, NEW S
  PROVE  LET p == nfos_cht_find_preferred_available_backend(table2, hash, S)
             at(i) == table2[(hash % cht_height) * backend_capacity + i]
         IN  \/ p = NotFound /\ \A i \in Candidates : at(i) \notin S
             \/ p \in S /\ \E i \in Candidates : p = at(i) /\ \A k \in Candidates : at(k) \in S => i <= k
<1>. PICK start : start = (hash % cht_height) * backend_capacity
  OBVIOUS
<1>. PICK p : p = nfos_cht_find_preferred_available_backend(table2, hash, S)
  OBVIOUS
<1>. DEFINE found == {i \in Candidates : table2[start + i] \in S}
            first == CHOOSE i \in found : \A k \in found : i <= k
<1>1. CASE found = {}
  BY <1>1 DEF nfos_cht_find_preferred_available_backend
<1>2. CASE found # {}
  <2>1. p = table2[start + first]
    BY <1>2 DEF nfos_cht_find_preferred_available_backend
  <2>2. found \in SUBSET Nat
    BY DEF Candidates
  <2>3. \E i \in found : \A k \in found : i <= k
    BY <1>2, <2>2, Least
  <2>4. first \in found /\ \A k \in found : first <= k
    BY <2>3
  <2>. HIDE DEF first
  <2>. QED
    BY <2>1, <2>4
<1>. QED
  BY <1>1, <1>2

(* The address of a live backend is a backend's. *)
LEMMA LiveAddress ==
  ASSUME PoolSound, NEW i \in Indexes, IsAllocated(backends.chain, i)
  PROVE  backend_ips[i] \in Backends
<1>. PICK m : m = backend_ip_to_backend_id
  OBVIOUS
<1>1. PICK x \in Busy(m) : m[x].vals = i
  BY DEF PoolSound, TableInv, Listing
<1>2. backend_ips[i] = m[x].key /\ m[x].key \in Keys
  BY <1>1 DEF PoolSound, TableInv, Entries, MapOf
<1>. QED
  BY <1>2, MaglevConstants

(* What a handler makes of a packet. *)
Handled(r) ==
  /\ r.addr \in DOMAIN Fib /\ r.dst \in Dests
  /\ \/ r.id \in Alive /\ r.dst = backend_info[r.id]
     \/ r.dst = NotSent /\ pkt.known /\ r.id = flows[pkt.flow]
     \/ r.id = NoFlow /\ ~pkt.known
  /\ pkt.known /\ flows[pkt.flow] \in Alive => r.id = flows[pkt.flow]

(* The handlers do that. *)
LEMMA HandlerHandles ==
  ASSUME MaglevInv, pkt # NoPkt
  PROVE  Handled(Handler)
<1>. PICK r, b : r = Handler /\ b = flows[pkt.flow]
  OBVIOUS
<1>1. pkt \in Pkts /\ PoolSound /\ InfoInv
  BY DEF MaglevInv, PktInv
<1>2. pkt.dst_addr \in DOMAIN Fib /\ pkt.dst \in Dests /\ NotSent \in Dests
  BY <1>1 DEF Pkts, Dests, NotSent
<1>3. Prefer(pkt) = NotFound \/ Prefer(pkt) \in Alive
  BY PreferredIs DEF Prefer
<1>4. NotFound \notin Alive
  BY AliveIs, MaglevConstants
<1>5. ASSUME NEW i \in Alive PROVE backend_info[i] \in Dests /\ backend_info[i].ip \in DOMAIN Fib
  <2>1. i \in Indexes /\ IsAllocated(backends.chain, i)
    BY AliveIs DEF Taken
  <2>2. backend_info[i] \in Dests /\ backend_info[i].ip = backend_ips[i]
    BY <1>1, <2>1 DEF InfoInv
  <2>. QED
    BY <1>1, <2>1, <2>2, LiveAddress, MaglevConstants
<1>6. CASE pkt.known
  <2>. PICK id : id = IF b \in Alive THEN b ELSE Prefer(pkt)
    OBVIOUS
  <2>1. id = NotFound \/ id \in Alive
    BY <1>3
  <2>2. CASE Fib[pkt.dst_addr] # "LB" \/ id = NotFound
    <3>1. r = [id |-> b, addr |-> pkt.dst_addr, dst |-> NotSent]
      BY <1>6, <2>2 DEF Handler, client_pkt_handler
    <3>2. r.id = b /\ r.addr = pkt.dst_addr /\ r.dst = NotSent
      BY <3>1
    <3>. QED
      BY <1>2, <1>6, <3>2 DEF Handled
  <2>3. CASE ~(Fib[pkt.dst_addr] # "LB" \/ id = NotFound)
    <3>1. r = [id |-> id, addr |-> backend_info[id].ip, dst |-> backend_info[id]]
      BY <1>6, <2>3 DEF Handler, client_pkt_handler, ToBackend
    <3>2. r.id = id /\ r.addr = backend_info[id].ip /\ r.dst = backend_info[id]
      BY <3>1
    <3>. QED
      BY <1>5, <2>1, <2>3, <3>2 DEF Handled
  <2>. QED
    BY <2>2, <2>3
<1>7. CASE ~pkt.known
  <2>. PICK id : id = Prefer(pkt)
    OBVIOUS
  <2>1. CASE id = NotFound
    <3>1. r = [id |-> NoFlow, addr |-> pkt.dst_addr, dst |-> pkt.dst]
      BY <1>7, <2>1 DEF Handler, nf_unknown_pkt_set_handler
    <3>2. r.id = NoFlow /\ r.addr = pkt.dst_addr /\ r.dst = pkt.dst
      BY <3>1
    <3>. QED
      BY <1>2, <1>7, <3>2 DEF Handled
  <2>2. CASE id # NotFound
    <3>1. r = [id |-> id, addr |-> backend_info[id].ip, dst |-> backend_info[id]]
      BY <1>7, <2>2 DEF Handler, nf_unknown_pkt_set_handler, ToBackend
    <3>2. r.id = id /\ r.addr = backend_info[id].ip /\ r.dst = backend_info[id]
      BY <3>1
    <3>. QED
      BY <1>3, <1>5, <1>7, <2>2, <3>2 DEF Handled
  <2>. QED
    BY <2>1, <2>2
<1>. QED
  BY <1>6, <1>7

(* The initial state. *)
LEMMA MaglevStarts ==
  ASSUME MaglevInit PROVE MaglevInv
<1>1. TimeInv
  BY DEF MaglevInit, TimeInv
<1>2. Latest \in Int /\ MaxLag \in Int /\ MaxLag >= 0 /\ Size \in Nat /\ Indexes = 0..Size - 1
  BY MaglevConstants DEF MaglevInit, Latest, Indexes
<1>3. backend_ips \in [Indexes -> Keys \cup {NoKey}]
  BY <1>2 DEF MaglevInit, nfos_vector_allocate, Nobody
<1>4. PoolSound
  BY <1>2, <1>3, NewTable DEF MaglevInit, PoolSound
<1>5. \A i \in Indexes : ~IsAllocated(backends.chain, i)
  BY <1>2, NewHeap DEF MaglevInit
<1>6. InfoInv
  <2>1. NotSent \in Dests
    BY DEF NotSent, Dests
  <2>2. backend_info \in [Indexes -> Dests]
    BY <1>2, <2>1 DEF MaglevInit, nfos_vector_allocate
  <2>. QED
    BY <1>5, <2>2 DEF InfoInv
<1>7. FlowInv
  BY DEF MaglevInit, FlowInv
<1>8. PktInv
  BY DEF MaglevInit, PktInv
<1>. QED
  BY <1>1, <1>4, <1>6, <1>7, <1>8 DEF MaglevInv, MaglevInit

(* A heartbeat of a new backend. *)
LEMMA NewBackend ==
  ASSUME MaglevInv, NEW ip \in Backends, NEW dev \in LanDevices, NEW now \in CurrTimes, NEW c \in Cores, heartbeat_new(c, ip, dev, now)
  PROVE  MaglevInv'
<1>1. PICK a : /\ a = nfos_dchain_exp_allocate_new_index(backends, c, now) /\ a.index # NoIndex /\ backends' = a.heap
               /\ backend_info' = BorrowMut(backend_info, a.index, [dev |-> dev, ip |-> ip])
               /\ backend_ips' = BorrowMut(backend_ips, a.index, ip)
               /\ backend_ip_to_backend_id' = nfos_map_put(backend_ip_to_backend_id, ip, a.index)
  BY DEF heartbeat_new
<1>. PICK i, t : i = a.index /\ t = now + validity_duration
  OBVIOUS
<1>2. UNCHANGED <<cht, flows, pkt, clock, expiry, served>> /\ nfos_map_get(backend_ip_to_backend_id, ip) = NoValue
  BY DEF heartbeat_new
<1>3. t \in Int /\ t <= Latest /\ Latest <= t + MaxLag
  BY MaglevConstants DEF MaglevInv, TimeInv, CurrTimes, Latest
<1>4. PoolSound /\ InfoInv /\ FlowInv /\ PktInv /\ ip \in Keys /\ HeapInv(backends, Latest, MaxLag)
  BY MaglevConstants DEF MaglevInv, PoolSound, TableInv
<1>5. NotIn(backend_ip_to_backend_id, ip)
  BY <1>2, <1>4, TableGet DEF PoolSound
<1>6. ExpAllocates(backends, c, t, a, Latest, MaxLag)
  BY <1>1, <1>3, <1>4, ExpAllocateNewIndex
<1>7. i \in Indexes /\ ~IsAllocated(backends.chain, i)
      /\ \A j \in Indexes : IsAllocated(backends'.chain, j) <=> j = i \/ IsAllocated(backends.chain, j)
  BY <1>1, <1>6 DEF ExpAllocates
<1>8. TableInv(a.heap, nfos_map_put(backend_ip_to_backend_id, ip, a.index), BorrowMut(backend_ips, a.index, ip), Latest, MaxLag)
  BY <1>1, <1>4, <1>5, <1>6, TableInsert DEF PoolSound
<1>9. PoolSound' /\ TimeInv'
  BY <1>1, <1>2, <1>8 DEF PoolSound, Latest, MaglevInv, TimeInv, expiry
<1>10. PICK w : w = [dev |-> dev, ip |-> ip]
  OBVIOUS
<1>11. w \in Dests /\ w.ip = ip /\ w.dev = dev
  BY <1>10 DEF Dests
<1>12. /\ backend_info' \in [Indexes -> Dests] /\ backend_info'[i] = w
       /\ \A j \in Indexes : j # i => backend_info'[j] = backend_info[j]
  <2>1. backend_info \in [Indexes -> Dests] /\ backend_info' = [backend_info EXCEPT ![i] = w]
    BY <1>1, <1>4, <1>10 DEF InfoInv, BorrowMut
  <2>. QED
    BY <1>7, <1>11, <2>1
<1>13. backend_ips'[i] = ip /\ \A j \in Indexes : j # i => backend_ips'[j] = backend_ips[j]
  <2>1. backend_ips \in [Indexes -> Keys \cup {NoKey}] /\ backend_ips' = [backend_ips EXCEPT ![i] = ip]
    BY <1>1, <1>4 DEF PoolSound, TableInv, BorrowMut
  <2>. QED
    BY <1>7, <2>1
<1>14. InfoInv'
  <2>1. ASSUME NEW j \in Indexes, IsAllocated(backends'.chain, j)
        PROVE  backend_info'[j].ip = backend_ips'[j] /\ backend_info'[j].dev \in LanDevices
    <3>1. CASE j = i
      BY <1>11, <1>12, <1>13, <3>1
    <3>2. CASE j # i
      BY <1>4, <1>7, <1>12, <1>13, <2>1, <3>2 DEF InfoInv
    <3>. QED
      BY <3>1, <3>2
  <2>. QED
    BY <1>12, <2>1 DEF InfoInv
<1>15. FlowInv'
  <2>1. ASSUME NEW f \in Flows, served[f] # Nobody
        PROVE  flows[f] \in Indexes /\ IsAllocated(backends'.chain, flows[f]) /\ backend_ips'[flows[f]] = served[f]
    <3>1. flows[f] \in Indexes /\ IsAllocated(backends.chain, flows[f]) /\ backend_ips[flows[f]] = served[f]
      BY <1>4, <2>1 DEF FlowInv
    <3>. QED
      BY <1>7, <1>13, <3>1
  <2>. QED
    BY <1>2, <1>4, <2>1 DEF FlowInv
<1>16. PktInv'
  BY <1>2, <1>4 DEF PktInv
<1>. QED
  BY <1>2, <1>9, <1>14, <1>15, <1>16 DEF MaglevInv

(* A heartbeat of a known one. *)
LEMMA KnownBackend ==
  ASSUME MaglevInv, NEW ip \in Backends, NEW now \in CurrTimes, heartbeat_known(ip, now)
  PROVE  MaglevInv'
<1>. PICK i, t : i = nfos_map_get(backend_ip_to_backend_id, ip) /\ t = now + validity_duration
  OBVIOUS
<1>1. /\ i # NoValue /\ backends' = nfos_dchain_exp_rejuvenate_index(backends, i, now)
      /\ UNCHANGED <<backend_ip_to_backend_id, backend_ips, backend_info>>
      /\ UNCHANGED <<cht, flows, pkt, clock, expiry, served>>
  BY DEF heartbeat_known
<1>2. t \in Int /\ t <= Latest /\ Latest <= t + MaxLag
  BY MaglevConstants DEF MaglevInv, TimeInv, CurrTimes, Latest
<1>3. PoolSound /\ InfoInv /\ FlowInv /\ PktInv /\ ip \in Keys /\ HeapInv(backends, Latest, MaxLag)
  BY MaglevConstants DEF MaglevInv, PoolSound, TableInv
<1>4. i \in Indexes /\ IsAllocated(backends.chain, i)
  BY <1>1, <1>3, TableGet DEF PoolSound
<1>5. Rejuvenates(backends, backends', i, t, Latest, MaxLag)
  BY <1>1, <1>2, <1>3, <1>4, Rejuvenate
<1>6. TableInv(backends', backend_ip_to_backend_id, backend_ips, Latest, MaxLag)
  BY <1>3, <1>4, <1>5, TableRefresh DEF PoolSound
<1>7. PoolSound' /\ TimeInv'
  BY <1>1, <1>6 DEF PoolSound, Latest, MaglevInv, TimeInv, expiry
<1>8. \A j : IsAllocated(backends'.chain, j) <=> IsAllocated(backends.chain, j)
  BY <1>5 DEF Rejuvenates, IsAllocated
<1>9. InfoInv' /\ FlowInv' /\ PktInv'
  BY <1>1, <1>3, <1>8 DEF InfoInv, FlowInv, PktInv
<1>. QED
  BY <1>1, <1>7, <1>9 DEF MaglevInv

(* What leaves the pool and the clock alone. *)
LEMMA PoolStays ==
  ASSUME MaglevInv, UNCHANGED <<pool, cht, clock>>, exp_now' \in {exp_now, NoTime, clock}
  PROVE  TimeInv' /\ PoolSound' /\ InfoInv' /\ cht' = nfos_cht_fill_cht
<1>1. TimeInv'
  BY DEF MaglevInv, TimeInv
<1>2. PoolSound' /\ InfoInv'
  BY DEF MaglevInv, PoolSound, InfoInv, Latest, pool
<1>. QED
  BY <1>1, <1>2 DEF MaglevInv

(* And the packets, too. *)
LEMMA AllStays ==
  ASSUME MaglevInv, UNCHANGED <<pool, cht, clock, flows, pkt, served>>, exp_now' \in {exp_now, NoTime, clock}
  PROVE  MaglevInv'
<1>1. TimeInv' /\ PoolSound' /\ InfoInv' /\ cht' = nfos_cht_fill_cht
  BY PoolStays
<1>2. FlowInv' /\ PktInv'
  BY DEF MaglevInv, FlowInv, PktInv, pool
<1>. QED
  BY <1>1, <1>2 DEF MaglevInv

(* A packet arrives. *)
LEMMA PacketArrives ==
  ASSUME MaglevInv, NEW f \in Flows, Arrive(f)
  PROVE  MaglevInv'
<1>1. /\ pkt' = [flow |-> f, dst_addr |-> DstOf[f], known |-> flows[f] # NoFlow, dst |-> NotSent]
      /\ UNCHANGED <<pool, cht, flows, clock, expiry, served>>
  BY DEF Arrive
<1>2. TimeInv' /\ PoolSound' /\ InfoInv' /\ cht' = nfos_cht_fill_cht
  BY <1>1, PoolStays DEF expiry
<1>3. FlowInv'
  BY <1>1 DEF MaglevInv, FlowInv, pool
<1>4. NotSent \in Dests /\ DstOf[f] \in DOMAIN Fib
  BY MaglevConstants DEF NotSent, Dests
<1>5. pkt' \in Pkts /\ pkt'.flow = f /\ (pkt'.known <=> flows[f] # NoFlow)
  BY <1>1, <1>4 DEF Pkts
<1>6. PktInv'
  BY <1>1, <1>5 DEF PktInv
<1>. QED
  BY <1>2, <1>3, <1>6 DEF MaglevInv

(* A run of the handler is aborted. *)
LEMMA PacketAborts ==
  ASSUME MaglevInv, Abort
  PROVE  MaglevInv'
<1>1. PICK r : /\ r = Handler /\ pkt' = [pkt EXCEPT !.dst_addr = r.addr, !.dst = r.dst]
               /\ flows' = IF pkt.known THEN [flows EXCEPT ![pkt.flow] = r.id] ELSE flows
  BY DEF Abort
<1>. PICK f : f = pkt.flow
  OBVIOUS
<1>2. pkt # NoPkt /\ UNCHANGED <<pool, cht, clock, expiry, served>>
  BY DEF Abort
<1>3. TimeInv' /\ PoolSound' /\ InfoInv' /\ cht' = nfos_cht_fill_cht
  BY <1>2, PoolStays DEF expiry
<1>4. Handled(r)
  BY <1>1, <1>2, HandlerHandles
<1>5. pkt \in Pkts /\ f \in Flows /\ (pkt.known <=> flows[f] # NoFlow) /\ FlowInv
  BY <1>2 DEF MaglevInv, PktInv, Pkts
<1>6. pkt' \in Pkts /\ pkt'.flow = f /\ pkt'.known = pkt.known
  BY <1>1, <1>4, <1>5 DEF Handled, Pkts
<1>7. CASE pkt.known
  <2>1. flows[f] \in Indexes /\ flows \in [Flows -> Indexes \cup {NoFlow}]
    BY <1>5, <1>7 DEF FlowInv
  <2>2. r.id \in Indexes
    BY <1>4, <1>7, <2>1, AliveIs DEF Handled
  <2>3. flows' \in [Flows -> Indexes \cup {NoFlow}] /\ flows'[f] = r.id /\ \A g \in Flows : g # f => flows'[g] = flows[g]
    BY <1>1, <1>5, <1>7, <2>1, <2>2
  <2>4. ASSUME NEW g \in Flows, served[g] # Nobody PROVE flows'[g] = flows[g]
    <3>1. flows[g] \in Alive
      BY <1>5, <2>4, AliveIs DEF FlowInv, Taken
    <3>. QED
      BY <1>4, <1>7, <2>3, <3>1 DEF Handled
  <2>5. FlowInv'
    BY <1>2, <1>5, <2>3, <2>4 DEF FlowInv, pool
  <2>6. PktInv'
    BY <1>6, <1>7, <2>2, <2>3, MaglevConstants DEF PktInv
  <2>. QED
    BY <1>3, <2>5, <2>6 DEF MaglevInv
<1>8. CASE ~pkt.known
  <2>1. FlowInv' /\ PktInv'
    BY <1>1, <1>2, <1>5, <1>6, <1>8 DEF FlowInv, PktInv, pool
  <2>. QED
    BY <1>3, <2>1 DEF MaglevInv
<1>. QED
  BY <1>7, <1>8

(* The run of the handler commits. *)
LEMMA PacketCommits ==
  ASSUME MaglevInv, NEW added \in BOOLEAN, Commit(added)
  PROVE  MaglevInv'
<1>. PICK r, f : r = Handler /\ f = pkt.flow
  OBVIOUS
<1>1. /\ pkt # NoPkt /\ pkt' = NoPkt /\ UNCHANGED <<pool, cht, clock, expiry>>
      /\ flows' = IF pkt.known \/ (added /\ r.id # NoFlow) THEN [flows EXCEPT ![f] = r.id] ELSE flows
      /\ served' = IF flows'[f] # NoFlow /\ r.dst # NotSent THEN [served EXCEPT ![f] = r.dst.ip] ELSE served
  BY DEF Commit
<1>2. TimeInv' /\ PoolSound' /\ InfoInv' /\ cht' = nfos_cht_fill_cht
  BY <1>1, PoolStays DEF expiry
<1>3. Handled(r)
  BY <1>1, HandlerHandles
<1>4. pkt \in Pkts /\ f \in Flows /\ (pkt.known <=> flows[f] # NoFlow) /\ FlowInv /\ InfoInv /\ PoolSound
  BY <1>1 DEF MaglevInv, PktInv, Pkts
<1>5. PktInv'
  BY <1>1 DEF PktInv
<1>6. flows \in [Flows -> Indexes \cup {NoFlow}] /\ served \in [Flows -> Backends \cup {Nobody}]
  BY <1>4 DEF FlowInv
<1>7. ASSUME NEW g \in Flows, served[g] # Nobody
      PROVE  flows[g] \in Alive /\ flows[g] \in Indexes /\ IsAllocated(backends.chain, flows[g]) /\ backend_ips[flows[g]] = served[g]
  BY <1>4, <1>7, AliveIs DEF FlowInv, Taken
<1>8. backend_ips' = backend_ips /\ backends' = backends
  BY <1>1 DEF pool
<1>9. CASE pkt.known \/ (added /\ r.id # NoFlow)
  <2>1. r.id \in Indexes
    BY <1>3, <1>4, <1>6, <1>9, AliveIs DEF Handled
  <2>2. flows' \in [Flows -> Indexes \cup {NoFlow}] /\ flows'[f] = r.id /\ \A g \in Flows : g # f => flows'[g] = flows[g]
    BY <1>1, <1>4, <1>6, <1>9, <2>1
  <2>3. r.id # NoFlow
    BY <2>1, MaglevConstants
  <2>4. CASE r.dst # NotSent
    <3>1. r.id \in Alive /\ r.dst = backend_info[r.id]
      BY <1>3, <2>3, <2>4 DEF Handled
    <3>2. IsAllocated(backends.chain, r.id)
      BY <3>1, AliveIs DEF Taken
    <3>3. r.dst.ip = backend_ips[r.id] /\ backend_ips[r.id] \in Backends
      BY <1>4, <2>1, <3>1, <3>2, LiveAddress DEF InfoInv
    <3>4. served' = [served EXCEPT ![f] = r.dst.ip]
      BY <1>1, <2>2, <2>3, <2>4
    <3>5. /\ served' \in [Flows -> Backends \cup {Nobody}] /\ served'[f] = backend_ips[r.id]
          /\ \A g \in Flows : g # f => served'[g] = served[g]
      BY <1>4, <1>6, <3>3, <3>4
    <3>6. ASSUME NEW g \in Flows, served'[g] # Nobody
          PROVE  flows'[g] \in Indexes /\ IsAllocated(backends.chain, flows'[g]) /\ backend_ips[flows'[g]] = served'[g]
      <4>1. CASE g = f
        BY <2>1, <2>2, <3>2, <3>5, <4>1
      <4>2. CASE g # f
        BY <1>7, <2>2, <3>5, <3>6, <4>2
      <4>. QED
        BY <4>1, <4>2
    <3>7. FlowInv'
      BY <1>8, <2>2, <3>5, <3>6 DEF FlowInv
    <3>. QED
      BY <1>2, <1>5, <3>7 DEF MaglevInv
  <2>5. CASE r.dst = NotSent
    <3>1. served' = served
      BY <1>1, <2>5
    <3>2. ASSUME NEW g \in Flows, served[g] # Nobody PROVE flows'[g] = flows[g]
      <4>1. flows[g] \in Alive /\ flows[g] # NoFlow
        BY <1>7, <3>2, MaglevConstants
      <4>. QED
        BY <1>3, <1>4, <2>2, <4>1 DEF Handled
    <3>3. FlowInv'
      BY <1>6, <1>7, <1>8, <2>2, <3>1, <3>2 DEF FlowInv
    <3>. QED
      BY <1>2, <1>5, <3>3 DEF MaglevInv
  <2>. QED
    BY <2>4, <2>5
<1>10. CASE ~(pkt.known \/ (added /\ r.id # NoFlow))
  <2>1. flows' = flows /\ served' = served
    BY <1>1, <1>4, <1>10
  <2>2. FlowInv'
    BY <1>4, <1>8, <2>1 DEF FlowInv
  <2>. QED
    BY <1>2, <1>5, <2>2 DEF MaglevInv
<1>. QED
  BY <1>9, <1>10

(* A flow expires. *)
LEMMA FlowGoes ==
  ASSUME MaglevInv, NEW f \in Flows, FlowExpires(f)
  PROVE  MaglevInv'
<1>1. /\ pkt = NoPkt /\ flows' = [flows EXCEPT ![f] = NoFlow] /\ served' = [served EXCEPT ![f] = Nobody]
      /\ UNCHANGED <<pool, cht, pkt, clock, expiry>>
  BY DEF FlowExpires
<1>2. TimeInv' /\ PoolSound' /\ InfoInv' /\ cht' = nfos_cht_fill_cht
  BY <1>1, PoolStays DEF expiry
<1>3. flows \in [Flows -> Indexes \cup {NoFlow}] /\ served \in [Flows -> Backends \cup {Nobody}] /\ FlowInv
  BY DEF MaglevInv, FlowInv
<1>4. /\ flows' \in [Flows -> Indexes \cup {NoFlow}] /\ served' \in [Flows -> Backends \cup {Nobody}]
      /\ served'[f] = Nobody /\ \A g \in Flows : g # f => flows'[g] = flows[g] /\ served'[g] = served[g]
  BY <1>1, <1>3
<1>5. ASSUME NEW g \in Flows, served'[g] # Nobody
      PROVE  flows'[g] \in Indexes /\ IsAllocated(backends.chain, flows'[g]) /\ backend_ips[flows'[g]] = served'[g]
  BY <1>3, <1>4, <1>5 DEF FlowInv
<1>6. FlowInv'
  BY <1>1, <1>4, <1>5 DEF FlowInv, pool
<1>7. PktInv'
  BY <1>1 DEF PktInv
<1>. QED
  BY <1>2, <1>6, <1>7 DEF MaglevInv

(* A pass removes silent backends; a flow whose backend is removed has no  *)
(* longer been served.                                                     *)
LEMMA BackendsExpire ==
  ASSUME MaglevInv, expire_backend_commits
  PROVE  MaglevInv'
<1>1. PICK s : s = ExpireAll(backends, backend_ip_to_backend_id, backend_ips, exp_now) /\ backends' = s.heap /\ backend_ip_to_backend_id' = s.map
  BY DEF expire_backend_commits
<1>. PICK gone : gone = {backend_ips[i] : i \in Alive \ Alive'}
  OBVIOUS
<1>2. /\ exp_now # NoTime /\ exp_now' = NoTime /\ UNCHANGED <<backend_ips, backend_info, cht, flows, pkt, clock, expiration_done>>
      /\ served' = [f \in Flows |-> IF served[f] \in gone THEN Nobody ELSE served[f]]
  BY DEF expire_backend_commits
<1>3. PoolSound /\ InfoInv /\ FlowInv /\ PktInv /\ clock \in Nat /\ exp_now \in Nat /\ exp_now <= clock
  BY <1>2 DEF MaglevInv, TimeInv
<1>4. PassDoes(backends, backend_ip_to_backend_id, s, backend_ips, exp_now, Latest, MaxLag)
  BY <1>1, <1>3, ExpireAllDoes DEF PoolSound
<1>5. TableInv(backends', backend_ip_to_backend_id', backend_ips, Latest, MaxLag) /\ Survives(backends, backends', exp_now)
  BY <1>1, <1>4 DEF PassDoes
<1>6. PoolSound'
  BY <1>2, <1>5 DEF PoolSound, Latest
<1>7. TimeInv'
  BY <1>2, <1>3 DEF TimeInv
<1>8. ASSUME NEW j \in Indexes, IsAllocated(backends'.chain, j) PROVE IsAllocated(backends.chain, j)
  <2>1. j + INDEX_SHIFT \in IndexCells
    BY CellFacts
  <2>. QED
    BY <1>5, <1>8, <2>1 DEF Survives, IsAllocated
<1>9. InfoInv'
  BY <1>2, <1>3, <1>8 DEF InfoInv
<1>10. served \in [Flows -> Backends \cup {Nobody}] /\ flows \in [Flows -> Indexes \cup {NoFlow}]
  BY <1>3 DEF FlowInv
<1>11. served' \in [Flows -> Backends \cup {Nobody}]
  BY <1>2, <1>10
<1>12. ASSUME NEW f \in Flows, served'[f] # Nobody
       PROVE  flows[f] \in Indexes /\ IsAllocated(backends'.chain, flows[f]) /\ backend_ips[flows[f]] = served'[f]
  <2>1. served'[f] = served[f] /\ served[f] \notin gone
    BY <1>2, <1>12
  <2>2. flows[f] \in Indexes /\ IsAllocated(backends.chain, flows[f]) /\ backend_ips[flows[f]] = served[f]
    BY <1>3, <1>12, <2>1 DEF FlowInv
  <2>3. flows[f] \in Alive /\ flows[f] \notin Alive \ Alive'
    BY <2>1, <2>2, AliveIs DEF Taken
  <2>4. flows[f] \in Taken(backends')
    BY <2>3, AliveIs
  <2>. QED
    BY <2>1, <2>2, <2>4 DEF Taken
<1>13. FlowInv'
  BY <1>2, <1>10, <1>11, <1>12 DEF FlowInv
<1>14. PktInv'
  BY <1>2, <1>3 DEF PktInv
<1>. QED
  BY <1>2, <1>6, <1>7, <1>9, <1>13, <1>14 DEF MaglevInv

(* Time passes. *)
LEMMA TimePasses ==
  ASSUME MaglevInv, MaglevAdvance
  PROVE  MaglevInv'
<1>1. clock \in Nat /\ clock' = clock + 1 /\ UNCHANGED <<pool, cht, flows, pkt, expiry, served>> /\ PoolSound /\ TimeInv
  BY DEF MaglevAdvance, MaglevInv, TimeInv
<1>2. TimeInv'
  BY <1>1 DEF TimeInv, expiry
<1>3. Latest' \in Int /\ Latest <= Latest'
  BY <1>1, MaglevConstants DEF Latest
<1>4. HeapInv(backends, Latest', MaxLag)
  BY <1>1, <1>3, HeapLater DEF PoolSound, TableInv
<1>5. PoolSound'
  BY <1>1, <1>4 DEF PoolSound, TableInv, pool
<1>6. InfoInv' /\ FlowInv' /\ PktInv'
  BY <1>1 DEF MaglevInv, InfoInv, FlowInv, PktInv, pool
<1>. QED
  BY <1>1, <1>2, <1>5, <1>6 DEF MaglevInv

(* Every step keeps the invariant. *)
LEMMA MaglevSteps ==
  ASSUME MaglevInv, [MaglevNext]_maglev_vars
  PROVE  MaglevInv'
<1>1. CASE \E ip \in Backends, now \in CurrTimes, c \in Cores, dev \in LanDevices : heartbeat_new(c, ip, dev, now)
  BY <1>1, NewBackend
<1>2. CASE \E ip \in Backends, now \in CurrTimes : heartbeat_known(ip, now)
  BY <1>2, KnownBackend
<1>3. CASE \E f \in Flows : Arrive(f)
  BY <1>3, PacketArrives
<1>4. CASE \E f \in Flows : FlowExpires(f)
  BY <1>4, FlowGoes
<1>5. CASE Abort
  BY <1>5, PacketAborts
<1>6. CASE \E added \in BOOLEAN : Commit(added)
  BY <1>6, PacketCommits
<1>7. CASE expire_backend
  BY <1>7, AllStays DEF expire_backend
<1>8. CASE expire_backend_commits
  BY <1>8, BackendsExpire
<1>9. CASE expire_backend_commit_fails
  BY <1>9, AllStays DEF expire_backend_commit_fails
<1>10. CASE expire_backend_retry_commits
  BY <1>10, AllStays DEF expire_backend_retry_commits
<1>11. CASE MaglevAdvance
  BY <1>11, TimePasses
<1>12. CASE UNCHANGED maglev_vars
  BY <1>12, AllStays DEF maglev_vars, expiry
<1>. QED
  BY <1>1, <1>2, <1>3, <1>4, <1>5, <1>6, <1>7, <1>8, <1>9, <1>10, <1>11, <1>12 DEF MaglevNext

(* The strengthened invariant holds always. *)
LEMMA MaglevAlways == MaglevSpec => []MaglevInv
  BY MaglevStarts, MaglevSteps, PTL DEF MaglevSpec

(* The load balancer's map of backends, its heap of indexes and its        *)
(* vectors say the same, in every state, and the address that packets to a *)
(* live backend are rewritten to is the one its heartbeats came from.      *)
THEOREM BackendTable == MaglevSpec => []BackendTableSound
<1>1. ASSUME MaglevInv PROVE BackendTableSound
  <2>1. TableSound(backends, backend_ip_to_backend_id, backend_ips)
    BY <1>1, TableIsSound DEF MaglevInv, PoolSound
  <2>2. \A i \in Alive : backend_info[i].ip = backend_ips[i]
    BY <1>1, AliveIs DEF MaglevInv, InfoInv, Taken
  <2>. QED
    BY <2>1, <2>2 DEF BackendTableSound
<1>. QED
  BY <1>1, MaglevAlways, PTL

(* Connection affinity: the packets of a registered flow go to the backend *)
(* that has served it as long as that backend is alive, and to a live one  *)
(* otherwise, however often client_pkt_handler is aborted and started      *)
(* again.                                                                  *)
THEOREM Affinity == MaglevSpec => FlowAffinity
<1>. DEFINE Same == Committed /\ pkt.known /\ Handler.dst # NotSent =>
              IF served[pkt.flow] # Nobody THEN Handler.dst.ip = served[pkt.flow]
              ELSE \E i \in Alive : backend_ips[i] = Handler.dst.ip
<1>1. ASSUME MaglevInv, Committed, pkt.known, Handler.dst # NotSent
      PROVE  IF served[pkt.flow] # Nobody THEN Handler.dst.ip = served[pkt.flow]
             ELSE \E i \in Alive : backend_ips[i] = Handler.dst.ip
  <2>. PICK r, f : r = Handler /\ f = pkt.flow
    OBVIOUS
  <2>1. pkt # NoPkt /\ pkt \in Pkts /\ f \in Flows /\ FlowInv /\ InfoInv /\ flows[f] # NoFlow
    BY <1>1 DEF Committed, MaglevInv, PktInv, Pkts
  <2>2. Handled(r)
    BY <1>1, <2>1, HandlerHandles
  <2>3. r.id \in Alive /\ r.dst = backend_info[r.id]
    BY <1>1, <2>2 DEF Handled
  <2>4. r.dst.ip = backend_ips[r.id]
    BY <2>1, <2>3, AliveIs DEF InfoInv, Taken
  <2>5. CASE served[f] # Nobody
    <3>1. flows[f] \in Alive /\ backend_ips[flows[f]] = served[f]
      BY <2>1, <2>5, AliveIs DEF FlowInv, Taken
    <3>2. r.id = flows[f]
      BY <1>1, <2>2, <3>1 DEF Handled
    <3>. QED
      BY <2>4, <2>5, <3>1, <3>2
  <2>6. CASE served[f] = Nobody
    BY <2>3, <2>4, <2>6
  <2>. QED
    BY <2>5, <2>6
<1>2. MaglevInv => Same
  BY <1>1
<1>3. MaglevInv /\ [MaglevNext]_maglev_vars => [Same]_maglev_vars
  BY <1>2
<1>. QED
  BY <1>3, MaglevAlways, PTL DEF MaglevSpec, FlowAffinity

(* Minimal disruption: when heartbeats and passes change the set of live   *)
(* backends, nfos_cht_find_preferred_available_backend changes its answer  *)
(* for a hash only if the backend it gave before is gone or the new one is *)
(* a newcomer.                                                             *)
THEOREM Disruption == MaglevSpec => MinimalDisruption
<1>. DEFINE Minimal == \A h \in Buckets :
              PreferredAt(h)' # PreferredAt(h) => PreferredAt(h) \notin Alive' \/ PreferredAt(h)' \notin Alive
<1>1. ASSUME MaglevInv, MaglevInv', NEW h \in Buckets, PreferredAt(h) \in Alive', PreferredAt(h)' \in Alive
      PROVE  PreferredAt(h)' = PreferredAt(h)
  <2>. PICK A, B, p, q, T : A = Alive /\ B = Alive' /\ p = PreferredAt(h) /\ q = PreferredAt(h)' /\ T = nfos_cht_fill_cht
    OBVIOUS
  <2>. DEFINE at(i) == T[(h % cht_height) * backend_capacity + i]
  <2>1. p = nfos_cht_find_preferred_available_backend(T, h, A) /\ q = nfos_cht_find_preferred_available_backend(T, h, B)
    BY <1>1 DEF MaglevInv, PreferredAt
  <2>2. p # NotFound /\ q # NotFound /\ p \in B /\ q \in A
    BY <1>1, AliveIs, MaglevConstants
  <2>3. PICK i \in Candidates : p = at(i) /\ \A k \in Candidates : at(k) \in A => i <= k
    BY <2>1, <2>2, PreferredIs
  <2>4. PICK j \in Candidates : q = at(j) /\ \A k \in Candidates : at(k) \in B => j <= k
    BY <2>1, <2>2, PreferredIs
  <2>5. i <= j /\ j <= i
    BY <2>2, <2>3, <2>4
  <2>6. i = j
    BY <2>5 DEF Candidates
  <2>. QED
    BY <2>3, <2>4, <2>6
<1>2. MaglevInv /\ MaglevInv' => Minimal
  BY <1>1
<1>3. MaglevInv /\ MaglevInv' /\ [MaglevNext]_maglev_vars => [Minimal]_maglev_vars
  BY <1>2
<1>. QED
  BY <1>3, MaglevAlways, PTL DEF MaglevSpec, MinimalDisruption

(* As long as a backend is alive, one is found. *)
LEMMA SomebodyPreferred ==
  ASSUME NEW hash \in Nat, NEW S \in SUBSET Candidates, S # {}
  PROVE  nfos_cht_find_preferred_available_backend(nfos_cht_fill_cht, hash, S) # NotFound
<1>0. PICK b, j : b = (hash % cht_height) /\ j \in S
  OBVIOUS
<1>1. b \in Buckets /\ cht_height \in Nat \ {0} /\ backend_capacity \in Nat \ {0} /\ j \in Candidates
  BY <1>0, ChtConstants DEF Buckets
<1>2. PICK q \in Candidates : nfos_cht_fill_cht[backend_capacity * b + q] = j
  BY <1>1, BucketsListAll
<1>3. backend_capacity * b = b * backend_capacity
  BY <1>1 DEF Buckets
<1>4. nfos_cht_fill_cht[(hash % cht_height) * backend_capacity + q] \in S
  BY <1>0, <1>2, <1>3
<1>5. NotFound \notin S
  BY ChtConstants DEF NotFound
<1>. QED
  BY <1>4, <1>5, PreferredIs

(* As long as a backend is alive, no packet whose destination the FIB      *)
(* sends to the pool is dropped, whatever hash it has.                     *)
THEOREM ServesAll == MaglevSpec => PoolServesAll
<1>. DEFINE Serves == Committed /\ Fib[pkt.dst_addr] = "LB" /\ Alive # {} => Handler.dst # NotSent
<1>1. ASSUME MaglevInv, Committed, Fib[pkt.dst_addr] = "LB", Alive # {} PROVE Handler.dst # NotSent
  <2>0. PICK r, b : r = Handler /\ b = flows[pkt.flow]
    OBVIOUS
  <2>1. pkt \in Pkts /\ InfoInv /\ cht = nfos_cht_fill_cht
    BY <1>1 DEF Committed, MaglevInv, PktInv
  <2>2. Alive \subseteq Candidates /\ NotFound \notin Alive
    BY AliveIs, MaglevConstants
  <2>3. PktHash[<<pkt.flow, pkt.dst_addr>>] \in Nat
    <3>1. <<pkt.flow, pkt.dst_addr>> \in Flows \X DOMAIN Fib
      BY <2>1 DEF Pkts
    <3>. QED
      BY <3>1, MaglevAssumption
  <2>4. Prefer(pkt) # NotFound
    BY <1>1, <2>1, <2>2, <2>3, SomebodyPreferred DEF Prefer
  <2>5. Prefer(pkt) \in Alive
    BY <2>4, PreferredIs DEF Prefer
  <2>6. ASSUME NEW i \in Alive PROVE backend_info[i] # NotSent
    <3>1. backend_info[i].dev \in LanDevices
      BY <2>1, AliveIs DEF InfoInv, Taken
    <3>2. NotSent.dev = NoDevice
      BY DEF NotSent
    <3>. QED
      BY <3>1, <3>2, MaglevConstants
  <2>7. CASE pkt.known
    <3>1. PICK id : id = IF b \in Alive THEN b ELSE Prefer(pkt)
      OBVIOUS
    <3>2. id \in Alive /\ id # NotFound
      BY <2>2, <2>5, <3>1
    <3>3. r = [id |-> id, addr |-> backend_info[id].ip, dst |-> backend_info[id]]
      BY <1>1, <2>0, <2>7, <3>1, <3>2 DEF Handler, client_pkt_handler, ToBackend
    <3>4. r.dst = backend_info[id]
      BY <3>3
    <3>. QED
      BY <2>0, <2>6, <3>2, <3>4
  <2>8. CASE ~pkt.known
    <3>1. r = [id |-> Prefer(pkt), addr |-> backend_info[Prefer(pkt)].ip, dst |-> backend_info[Prefer(pkt)]]
      BY <2>0, <2>4, <2>8 DEF Handler, nf_unknown_pkt_set_handler, ToBackend
    <3>2. r.dst = backend_info[Prefer(pkt)]
      BY <3>1
    <3>. QED
      BY <2>0, <2>5, <2>6, <3>2
  <2>. QED
    BY <2>7, <2>8
<1>2. MaglevInv => Serves
  BY <1>1
<1>3. MaglevInv /\ [MaglevNext]_maglev_vars => [Serves]_maglev_vars
  BY <1>2
<1>. QED
  BY <1>3, MaglevAlways, PTL DEF MaglevSpec, PoolServesAll
=============================================================================
