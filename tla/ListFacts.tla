----------------------------- MODULE ListFacts ------------------------------
(***************************************************************************)
(* Facts that the proofs about several components share, none of which     *)
(* mentions the program.                                                   *)
(*                                                                         *)
(* Least and greatest elements of sets of naturals, and the induction that *)
(* follows from them: the provers cannot instantiate the library's         *)
(* induction theorems, which take the induction predicate as an operator;  *)
(* here it is a set, and the argument is the least counterexample.         *)
(*                                                                         *)
(* Circular linked lists threaded through the cells of an array.  C are    *)
(* the cells that can be on lists and D all cells, the heads too.  A       *)
(* labelling says of every cell on what list it is and with what rank,     *)
(* which makes the shape of the lists a local matter: that a list is       *)
(* acyclic, complete and disjoint from the others follows from what the    *)
(* labels say of a cell and of its successor.                              *)
(***************************************************************************)
EXTENDS Integers, FiniteSetsExt, Functions, WellFoundedInduction, FiniteSetTheorems, TLAPS

(* What is chosen from a set of one element. *)
LEMMA OnlyChoice ==
  ASSUME NEW e, NEW T, T = {e}
  PROVE  (CHOOSE y \in T : TRUE) = e
  OBVIOUS

LessRel == {ss \in Nat \X Nat : ss[1] < ss[2]}

(* The order of the naturals is well-founded. *)
LEMMA LessWellFounded == IsWellFoundedOn(LessRel, Nat)
<1>1. OpToRel(<, Nat) = LessRel
  BY Zenon DEF OpToRel, LessRel
<1>. QED
  BY NatLessThanWellFounded, <1>1, Zenon

(* A nonempty set of naturals has a least element. *)
LEMMA Least ==
  ASSUME NEW T \in SUBSET Nat, T # {}
  PROVE  \E x \in T : \A y \in T : x <= y
<1>1. PICK x \in T : \A y \in T : ~ (<<y, x>> \in LessRel)
  BY WFMin, LessWellFounded
<1>2. ASSUME NEW y \in T PROVE x <= y
  <2>1. x \in Nat /\ y \in Nat
    OBVIOUS
  <2>2. y < x => <<y, x>> \in LessRel
    BY <2>1 DEF LessRel
  <2>. QED
    BY <1>1, <2>1, <2>2
<1>. QED
  BY <1>2

(* What Min of FiniteSetsExt chooses. *)
LEMMA MinIsLeast ==
  ASSUME NEW T \in SUBSET Nat, T # {}
  PROVE  Min(T) \in T /\ \A y \in T : Min(T) <= y
  BY Least DEF Min

(* What Max chooses, of a bounded set. *)
LEMMA MaxIsGreatest ==
  ASSUME NEW k \in Nat, NEW T \in SUBSET (0..k), T # {}
  PROVE  Max(T) \in T /\ \A y \in T : y <= Max(T)
<1>. DEFINE U == {u \in 0..k : k - u \in T}
<1>1. U \in SUBSET Nat /\ U # {}
  <2>1. PICK t \in T : TRUE
    OBVIOUS
  <2>2. k - t \in U
    BY <2>1
  <2>3. U # {}
    BY <2>2, Zenon
  <2>. QED
    BY <2>3
<1>2. PICK x \in U : \A y \in U : x <= y
  BY <1>1, Least
<1>3. k - x \in T /\ x \in 0..k
  OBVIOUS
<1>4. ASSUME NEW y \in T PROVE y <= k - x
  <2>1. y \in 0..k /\ k - y \in U
    OBVIOUS
  <2>. QED
    BY <2>1, <1>2, <1>3
<1>. QED
  BY <1>3, <1>4 DEF Max

(* Induction over an interval: the induction predicate is the set T. *)
LEMMA Induction ==
  ASSUME NEW k \in Nat, NEW T, 0 \in T, \A i \in 0..k - 1 : i \in T => i + 1 \in T
  PROVE  \A i \in 0..k : i \in T
<1>. DEFINE U == {i \in 0..k : i \notin T}
<1>. SUFFICES ASSUME U # {} PROVE FALSE
  OBVIOUS
<1>1. U \in SUBSET Nat
  OBVIOUS
<1>2. PICK x \in U : \A y \in U : x <= y
  BY <1>1, Least
<1>3. x \in 1..k /\ x \notin T
  OBVIOUS
<1>4. x - 1 \in T
  BY <1>2, <1>3
<1>. QED
  BY <1>3, <1>4

(* A function defined by recursion over an interval exists: step i takes   *)
(* the value for i - 1 to the value for i.                                 *)
Steps(k, S) == [1..k -> [S -> S]]

Computes(f, k, S, a, step) ==
  f \in [0..k -> S] /\ f[0] = a /\ \A i \in 1..k : f[i] = step[i][f[i - 1]]

(* A recursively defined function on an initial segment of the naturals    *)
(* exists.                                                                 *)
LEMMA Recursion ==
  ASSUME NEW k \in Nat, NEW S, NEW a \in S, NEW step \in Steps(k, S)
  PROVE  \E f : Computes(f, k, S, a, step)
<1>. USE DEF Steps
<1>. DEFINE UpTo(j) == \E f \in [0..j -> S] : f[0] = a /\ \A i \in 1..j : f[i] = step[i][f[i - 1]]
            T == {j \in 0..k : UpTo(j)}
<1>1. 0 \in T
  <2>. DEFINE f == [i \in 0..0 |-> a]
  <2>1. f \in [0..0 -> S] /\ f[0] = a /\ \A i \in 1..0 : f[i] = step[i][f[i - 1]]
    OBVIOUS
  <2>. HIDE DEF f
  <2>2. UpTo(0)
    BY <2>1
  <2>. QED
    BY <2>2
<1>2. ASSUME NEW j \in 0..k - 1, j \in T PROVE j + 1 \in T
  <2>1. PICK f \in [0..j -> S] : f[0] = a /\ \A i \in 1..j : f[i] = step[i][f[i - 1]]
    BY <1>2
  <2>. DEFINE g == [i \in 0..j + 1 |-> IF i = j + 1 THEN step[j + 1][f[j]] ELSE f[i]]
  <2>2. j \in 0..j /\ f[j] \in S /\ j + 1 \in 1..k
    OBVIOUS
  <2>3. step[j + 1][f[j]] \in S
    BY <2>2
  <2>4. g \in [0..j + 1 -> S] /\ g[0] = a
    BY <2>1, <2>3
  <2>5. \A i \in 1..j + 1 : g[i] = step[i][g[i - 1]]
    BY <2>1
  <2>. HIDE DEF g
  <2>6. UpTo(j + 1)
    BY <2>4, <2>5
  <2>7. j + 1 \in 0..k
    OBVIOUS
  <2>. HIDE DEF UpTo
  <2>. QED
    BY <2>6, <2>7
<1>. HIDE DEF UpTo
<1>3. \A i \in 0..k : i \in T
  <2>. HIDE DEF T
  <2>. QED
    BY <1>1, <1>2, Induction
<1>4. UpTo(k)
  BY <1>3
<1>. QED
  BY <1>4 DEF UpTo, Computes
-----------------------------------------------------------------------------
Links(D) == [D -> D]
Labels(C) == [C -> Int]

(* A function that differs from another in one value, ... *)
Differs(D, f, g, x, y) == \A z \in D : g[z] = IF z = x THEN y ELSE f[z]
DiffersTwice(D, f, g, x, y, x2, y2) == \A z \in D : g[z] = IF z = x2 THEN y2 ELSE IF z = x THEN y ELSE f[z]
Updates(f, g, x, y) == g = [f EXCEPT ![x] = y]
UpdatesTwice(f, g, x, y, x2, y2) == g = [f EXCEPT ![x] = y, ![x2] = y2]

(* ... is an EXCEPT of it. *)
LEMMA ExceptIs ==
  ASSUME NEW D, NEW f \in Links(D), NEW g \in Links(D), NEW x, NEW y, Differs(D, f, g, x, y)
  PROVE  Updates(f, g, x, y)
<1>1. f = [z \in D |-> f[z]] /\ g = [z \in D |-> g[z]]
  BY DEF Links
<1>2. [f EXCEPT ![x] = y] = [z \in D |-> IF z = x THEN y ELSE f[z]]
  BY <1>1
<1>. QED
  BY <1>1, <1>2 DEF Differs, Updates

(* ... or in two. *)
LEMMA ExceptBoth ==
  ASSUME NEW D, NEW f \in Links(D), NEW g \in Links(D), NEW x, NEW y, NEW x2, NEW y2,
         DiffersTwice(D, f, g, x, y, x2, y2)
  PROVE  UpdatesTwice(f, g, x, y, x2, y2)
<1>1. f = [z \in D |-> f[z]] /\ g = [z \in D |-> g[z]]
  BY DEF Links
<1>2. [f EXCEPT ![x] = y] = [z \in D |-> IF z = x THEN y ELSE f[z]]
  BY <1>1
<1>. PICK e : e = [f EXCEPT ![x] = y]
  OBVIOUS
<1>3. [e EXCEPT ![x2] = y2] = [z \in D |-> IF z = x2 THEN y2 ELSE IF z = x THEN y ELSE f[z]]
  BY <1>2
<1>4. [f EXCEPT ![x] = y, ![x2] = y2] = [e EXCEPT ![x2] = y2]
  OBVIOUS
<1>. QED
  BY <1>1, <1>3, <1>4 DEF DiffersTwice, UpdatesTwice

(* The list of head h among the cells C, of which on says what cells are   *)
(* there and rank in what order: h leads to the cell of least rank, every  *)
(* cell to the one of next rank, and the last one back to h.               *)
Members(C, h, on) == {x \in C : on[x] = h}

Leads(C, h, nx, on) == \A x \in Members(C, h, on) \cup {h} : nx[x] \in Members(C, h, on) \cup {h}

FirstIsLeast(C, h, nx, on, rank) ==
  \A y \in Members(C, h, on) : nx[h] # h /\ rank[nx[h]] <= rank[y]

Ascends(C, h, nx, on, rank) ==
  \A x \in Members(C, h, on) : nx[x] # h => rank[x] < rank[nx[x]]

NoneBetween(C, h, nx, on, rank) ==
  \A x, y \in Members(C, h, on) : rank[x] < rank[y] => nx[x] # h /\ rank[nx[x]] <= rank[y]

RanksDiffer(C, h, on, rank) ==
  \A x, y \in Members(C, h, on) : rank[x] = rank[y] => x = y

List(C, h, nx, on, rank) ==
  /\ Leads(C, h, nx, on) /\ FirstIsLeast(C, h, nx, on, rank) /\ Ascends(C, h, nx, on, rank)
  /\ NoneBetween(C, h, nx, on, rank) /\ RanksDiffer(C, h, on, rank)

(* The links in both directions agree. *)
Doubly(C, h, nx, pv, on) ==
  \A x \in Members(C, h, on) \cup {h} :
    pv[x] \in Members(C, h, on) \cup {h} /\ pv[nx[x]] = x /\ nx[pv[x]] = x
-----------------------------------------------------------------------------
(* A list whose cells keep their links and ranks stays a list. *)
LEMMA ListFrame ==
  ASSUME NEW D, NEW C \in SUBSET D, NEW h \in D \ C,
         NEW nx \in Links(D), NEW on \in Labels(C), NEW rank \in Labels(C),
         NEW nx2 \in Links(D), NEW on2 \in Labels(C), NEW rank2 \in Labels(C),
         List(C, h, nx, on, rank),
         Members(C, h, on2) = Members(C, h, on),
         \A x \in Members(C, h, on) \cup {h} : nx2[x] = nx[x],
         \A x \in Members(C, h, on) : rank2[x] = rank[x]
  PROVE  List(C, h, nx2, on2, rank2)
<1>1. h \notin Members(C, h, on)
  BY DEF Members
<1>. QED
  BY <1>1 DEF List, Leads, FirstIsLeast, Ascends, NoneBetween, RanksDiffer

(* The same for the links in both directions. *)
LEMMA DoublyFrame ==
  ASSUME NEW D, NEW C \in SUBSET D, NEW h \in D \ C,
         NEW nx \in Links(D), NEW pv \in Links(D), NEW on \in Labels(C), NEW rank \in Labels(C),
         NEW nx2 \in Links(D), NEW pv2 \in Links(D), NEW on2 \in Labels(C),
         List(C, h, nx, on, rank), Doubly(C, h, nx, pv, on),
         Members(C, h, on2) = Members(C, h, on),
         \A x \in Members(C, h, on) \cup {h} : nx2[x] = nx[x] /\ pv2[x] = pv[x]
  PROVE  Doubly(C, h, nx2, pv2, on2)
  BY DEF List, Leads, Doubly

(* Taking the first cell off. *)
TakesFirst(C, h, nx, on, nx2, on2) ==
  /\ nx[h] # h /\ nx2[h] = nx[nx[h]]
  /\ Members(C, h, on2) = Members(C, h, on) \ {nx[h]}
  /\ \A x \in Members(C, h, on2) : nx2[x] = nx[x]

(* The others stay a list. *)
LEMMA ListPop ==
  ASSUME NEW D, NEW C \in SUBSET D, NEW h \in D \ C,
         NEW nx \in Links(D), NEW on \in Labels(C), NEW rank \in Labels(C),
         NEW nx2 \in Links(D), NEW on2 \in Labels(C),
         List(C, h, nx, on, rank), TakesFirst(C, h, nx, on, nx2, on2)
  PROVE  List(C, h, nx2, on2, rank)
<1>. USE DEF TakesFirst
<1>. DEFINE M == Members(C, h, on)
            N == Members(C, h, on2)
            f == nx[h]
<1>1. h \notin M /\ M \subseteq C /\ f \in M /\ N = M \ {f}
  BY DEF Members, List, Leads
<1>2. \A x \in M : rank[x] \in Int
  BY DEF Members, Labels
<1>3. \A x \in M : nx[x] # f
  <2>. SUFFICES ASSUME NEW x \in M, nx[x] = f PROVE FALSE
    OBVIOUS
  <2>1. rank[x] < rank[f] /\ rank[f] <= rank[x]
    BY <1>1 DEF List, Ascends, FirstIsLeast
  <2>. QED
    BY <2>1, <1>1, <1>2
<1>4. Leads(C, h, nx2, on2)
  BY <1>1, <1>3 DEF List, Leads
<1>5. FirstIsLeast(C, h, nx2, on2, rank)
  <2>. SUFFICES ASSUME NEW y \in N PROVE nx2[h] # h /\ rank[nx2[h]] <= rank[y]
    BY DEF FirstIsLeast
  <2>1. rank[f] <= rank[y] /\ rank[f] # rank[y]
    BY <1>1 DEF List, FirstIsLeast, RanksDiffer
  <2>2. rank[f] < rank[y]
    BY <2>1, <1>1, <1>2
  <2>. QED
    BY <2>2, <1>1 DEF List, NoneBetween
<1>6. Ascends(C, h, nx2, on2, rank) /\ NoneBetween(C, h, nx2, on2, rank) /\ RanksDiffer(C, h, on2, rank)
  BY <1>1 DEF List, Ascends, NoneBetween, RanksDiffer
<1>. QED
  BY <1>4, <1>5, <1>6 DEF List

(* Putting a cell in front. *)
LEMMA ListPush ==
  ASSUME NEW D, NEW C \in SUBSET D, NEW h \in D \ C,
         NEW nx \in Links(D), NEW on \in Labels(C), NEW rank \in Labels(C),
         NEW nx2 \in Links(D), NEW on2 \in Labels(C), NEW rank2 \in Labels(C), NEW x \in C,
         List(C, h, nx, on, rank), x \notin Members(C, h, on),
         Members(C, h, on2) = Members(C, h, on) \cup {x},
         \A y \in Members(C, h, on) : nx2[y] = nx[y] /\ rank2[y] = rank[y] /\ rank2[x] < rank[y],
         nx2[h] = x, nx2[x] = nx[h]
  PROVE  List(C, h, nx2, on2, rank2)
<1>. DEFINE M == Members(C, h, on)
            N == Members(C, h, on2)
<1>1. h \notin N /\ h \notin M /\ N \subseteq C /\ x \in N /\ x \notin M /\ N = M \cup {x} /\ x # h
  BY DEF Members
<1>2. \A y \in N : rank2[y] \in Int /\ (y \in M => rank[y] \in Int)
  BY <1>1 DEF Members, Labels
<1>3. Leads(C, h, nx2, on2)
  BY <1>1 DEF List, Leads
<1>4. \A y \in N : rank2[x] <= rank2[y]
  BY <1>1, <1>2
<1>5. FirstIsLeast(C, h, nx2, on2, rank2)
  BY <1>1, <1>4 DEF FirstIsLeast
<1>6. Ascends(C, h, nx2, on2, rank2)
  BY <1>1, <1>2 DEF List, Leads, Ascends
<1>7. NoneBetween(C, h, nx2, on2, rank2)
  <2>. SUFFICES ASSUME NEW y \in N, NEW z \in N, rank2[y] < rank2[z]
                PROVE  nx2[y] # h /\ rank2[nx2[y]] <= rank2[z]
    BY DEF NoneBetween
  <2>1. z \in M
    BY <1>1, <1>2, <1>4
  <2>2. CASE y = x
    BY <2>1, <2>2, <1>1 DEF List, FirstIsLeast, Leads
  <2>3. CASE y # x
    BY <2>1, <2>3, <1>1 DEF List, NoneBetween, Leads
  <2>. QED
    BY <2>2, <2>3
<1>8. RanksDiffer(C, h, on2, rank2)
  <2>. SUFFICES ASSUME NEW y \in N, NEW z \in N, rank2[y] = rank2[z] PROVE y = z
    BY DEF RanksDiffer
  <2>1. CASE y \in M /\ z \in M
    BY <2>1 DEF List, RanksDiffer
  <2>2. CASE y = x /\ z \in M
    BY <2>2, <1>2, <1>1
  <2>3. CASE z = x /\ y \in M
    BY <2>3, <1>2, <1>1
  <2>. QED
    BY <2>1, <2>2, <2>3, <1>1
<1>. QED
  BY <1>3, <1>5, <1>6, <1>7, <1>8 DEF List

(* Putting a cell in front of a doubly linked list. *)
PushLinks(h, nx, pv, nx2, pv2, x) ==
  nx2 = [nx EXCEPT ![x] = nx[h], ![h] = x] /\ pv2 = [pv EXCEPT ![nx[h]] = x, ![x] = h]

AddsFirst(C, h, on, rank, on2, rank2, x) ==
  /\ x \notin Members(C, h, on) /\ Members(C, h, on2) = Members(C, h, on) \cup {x}
  /\ \A y \in Members(C, h, on) : rank2[y] = rank[y] /\ rank2[x] < rank[y]

(* The same, link by link. *)
Pushes(D, h, nx, pv, nx2, pv2, x) ==
  \A z \in D : /\ nx2[z] = IF z = h THEN x ELSE IF z = x THEN nx[h] ELSE nx[z]
               /\ pv2[z] = IF z = x THEN h ELSE IF z = nx[h] THEN x ELSE pv[z]

(* It is the push of PushLinks. *)
LEMMA PushesLinks ==
  ASSUME NEW D, NEW h, NEW nx \in Links(D), NEW pv \in Links(D), NEW nx2 \in Links(D), NEW pv2 \in Links(D), NEW x,
         Pushes(D, h, nx, pv, nx2, pv2, x)
  PROVE  PushLinks(h, nx, pv, nx2, pv2, x)
<1>. PICK f : f = nx[h]
  OBVIOUS
<1>1. DiffersTwice(D, nx, nx2, x, f, h, x) /\ DiffersTwice(D, pv, pv2, f, x, x, h)
  BY DEF Pushes, DiffersTwice
<1>2. UpdatesTwice(nx, nx2, x, f, h, x) /\ UpdatesTwice(pv, pv2, f, x, x, h)
  BY <1>1, ExceptBoth
<1>. QED
  BY <1>2 DEF PushLinks, UpdatesTwice

(* With the first rank, the cell is the first one of the list. *)
LEMMA ListInsert ==
  ASSUME NEW D, NEW C \in SUBSET D, NEW h \in D \ C,
         NEW nx \in Links(D), NEW pv \in Links(D), NEW on \in Labels(C), NEW rank \in Labels(C),
         NEW nx2 \in Links(D), NEW pv2 \in Links(D), NEW on2 \in Labels(C), NEW rank2 \in Labels(C), NEW x \in C,
         List(C, h, nx, on, rank), Doubly(C, h, nx, pv, on),
         AddsFirst(C, h, on, rank, on2, rank2, x), PushLinks(h, nx, pv, nx2, pv2, x)
  PROVE  List(C, h, nx2, on2, rank2) /\ Doubly(C, h, nx2, pv2, on2)
<1>. DEFINE M == Members(C, h, on)
            N == Members(C, h, on2)
            f == nx[h]
<1>1. h \notin M /\ M \subseteq C /\ x \notin M /\ N = M \cup {x} /\ x # h /\ x \in D /\ h \in D
  BY DEF Members, AddsFirst
<1>2. f \in M \cup {h} /\ f # x /\ f \in D
  BY <1>1 DEF List, Leads
<1>3. \A y \in D : /\ nx2[y] = IF y = h THEN x ELSE IF y = x THEN f ELSE nx[y]
                   /\ pv2[y] = IF y = x THEN h ELSE IF y = f THEN x ELSE pv[y]
  BY <1>1, <1>2 DEF Links, PushLinks
<1>4. List(C, h, nx2, on2, rank2)
  <2>1. \A y \in M : nx2[y] = nx[y] /\ rank2[y] = rank[y] /\ rank2[x] < rank[y]
    BY <1>1, <1>3 DEF AddsFirst
  <2>2. nx2[h] = x /\ nx2[x] = nx[h]
    BY <1>1, <1>3
  <2>. QED
    BY <1>1, <2>1, <2>2, ListPush
<1>5. ASSUME NEW y \in M \cup {h} PROVE nx[y] \in M \cup {h} /\ pv[y] \in M \cup {h} /\ pv[nx[y]] = y /\ nx[pv[y]] = y
  BY DEF Doubly, List, Leads
<1>6. ASSUME NEW y \in N \cup {h}
      PROVE  pv2[y] \in N \cup {h} /\ pv2[nx2[y]] = y /\ nx2[pv2[y]] = y
  <2>. HIDE DEF M, N
  <2>1. CASE y = x
    <3>1. pv2[y] = h /\ nx2[y] = f /\ pv2[f] = x /\ nx2[h] = x
      BY <2>1, <1>1, <1>2, <1>3
    <3>. QED
      BY <3>1, <2>1
  <2>2. CASE y = h
    <3>1. nx2[y] = x /\ pv2[x] = h
      BY <2>2, <1>1, <1>3
    <3>2. CASE f = h
      BY <2>2, <3>1, <3>2, <1>1, <1>3
    <3>3. CASE f # h
      <4>1. pv2[h] = pv[h] /\ pv[h] \in M \cup {h} /\ nx[pv[h]] = h
        BY <3>3, <1>1, <1>3, <1>5
      <4>2. pv[h] # h /\ pv[h] # x /\ pv[h] \in D
        BY <4>1, <3>3, <1>1
      <4>3. nx2[pv[h]] = h
        BY <4>1, <4>2, <1>3
      <4>. QED
        BY <4>1, <4>2, <4>3, <2>2, <3>1, <1>1
    <3>. QED
      BY <3>2, <3>3
  <2>3. CASE y \in M
    <3>1. /\ nx2[y] = nx[y] /\ y # x /\ y # h /\ nx[y] \in M \cup {h} /\ pv[nx[y]] = y
          /\ pv[y] \in M \cup {h} /\ nx[pv[y]] = y /\ y \in D
      BY <2>3, <1>1, <1>3, <1>5
    <3>2. nx[y] # f
      <4>1. pv[f] = h
        BY <1>5
      <4>. QED
        BY <4>1, <3>1
    <3>3. pv2[nx2[y]] = y
      BY <3>1, <3>2, <1>1, <1>3
    <3>4. CASE y = f
      <4>1. pv2[y] = x /\ nx2[x] = f
        BY <3>4, <3>1, <1>1, <1>3
      <4>. QED
        BY <4>1, <3>3, <3>4, <1>1
    <3>5. CASE y # f
      <4>1. pv2[y] = pv[y] /\ pv[y] # h /\ pv[y] # x /\ pv[y] \in D
        BY <3>5, <3>1, <1>1, <1>3
      <4>2. nx2[pv[y]] = y
        BY <4>1, <3>1, <1>3
      <4>. QED
        BY <4>1, <4>2, <3>1, <3>3, <1>1
    <3>. QED
      BY <3>4, <3>5
  <2>. QED
    BY <2>1, <2>2, <2>3, <1>1
<1>. QED
  BY <1>4, <1>6 DEF Doubly

(* Putting a cell at the end of a doubly linked list. *)
AppendLinks(h, nx, pv, nx2, pv2, x) ==
  nx2 = [nx EXCEPT ![x] = h, ![pv[h]] = x] /\ pv2 = [pv EXCEPT ![x] = pv[h], ![h] = x]

AddsLast(C, h, on, rank, on2, rank2, x) ==
  /\ x \notin Members(C, h, on) /\ Members(C, h, on2) = Members(C, h, on) \cup {x}
  /\ \A y \in Members(C, h, on) : rank2[y] = rank[y] /\ rank[y] < rank2[x]

(* With the last rank, the cell is the last one of the list. *)
LEMMA ListAppend ==
  ASSUME NEW D, NEW C \in SUBSET D, NEW h \in D \ C,
         NEW nx \in Links(D), NEW pv \in Links(D), NEW on \in Labels(C), NEW rank \in Labels(C),
         NEW nx2 \in Links(D), NEW pv2 \in Links(D), NEW on2 \in Labels(C), NEW rank2 \in Labels(C), NEW x \in C,
         List(C, h, nx, on, rank), Doubly(C, h, nx, pv, on),
         AddsLast(C, h, on, rank, on2, rank2, x), AppendLinks(h, nx, pv, nx2, pv2, x)
  PROVE  List(C, h, nx2, on2, rank2) /\ Doubly(C, h, nx2, pv2, on2)
<1>0. /\ x \notin Members(C, h, on) /\ Members(C, h, on2) = Members(C, h, on) \cup {x}
      /\ \A y \in Members(C, h, on) : rank2[y] = rank[y] /\ rank[y] < rank2[x]
  BY DEF AddsLast
<1>. USE <1>0
<1>. DEFINE M == Members(C, h, on)
            N == Members(C, h, on2)
            last == pv[h]
<1>1. h \notin N /\ h \notin M /\ N \subseteq C /\ x \in N /\ x \notin M /\ N = M \cup {x} /\ x # h
  BY DEF Members
<1>2. \A y \in N : rank2[y] \in Int /\ (y \in M => rank[y] \in Int)
  BY <1>1 DEF Members, Labels
<1>3. h \in D /\ N \subseteq D /\ DOMAIN nx = D /\ DOMAIN pv = D
  BY <1>1 DEF Links
<1>4. last \in M \cup {h} /\ nx[last] = h /\ last # x
  BY <1>1 DEF Doubly
<1>5. nx2[x] = h /\ nx2[last] = x /\ \A y \in (M \cup {h}) \ {last} : nx2[y] = nx[y]
  BY <1>1, <1>3, <1>4 DEF AppendLinks
<1>6. pv2[x] = last /\ pv2[h] = x /\ \A y \in M : pv2[y] = pv[y]
  BY <1>1, <1>3, <1>4 DEF AppendLinks
<1>7. \A y \in M \cup {h} : nx[y] = h => y = last
  BY DEF Doubly
<1>8. Leads(C, h, nx2, on2)
  BY <1>1, <1>4, <1>5 DEF List, Leads
<1>9. FirstIsLeast(C, h, nx2, on2, rank2)
  <2>. SUFFICES ASSUME NEW y \in N PROVE nx2[h] # h /\ rank2[nx2[h]] <= rank2[y]
    BY DEF FirstIsLeast
  <2>1. CASE last = h
    <3>1. nx[h] = h
      BY <1>4, <2>1
    <3>2. M = {}
      BY <3>1 DEF List, FirstIsLeast
    <3>. QED
      BY <3>2, <2>1, <1>1, <1>2, <1>5
  <2>2. CASE last # h
    <3>1. nx2[h] = nx[h] /\ nx[h] \in M /\ rank2[nx[h]] = rank[nx[h]]
      BY <2>2, <1>4, <1>5, <1>7 DEF List, Leads
    <3>2. CASE y \in M
      BY <3>1, <3>2, <1>1 DEF List, FirstIsLeast
    <3>3. CASE y = x
      BY <3>1, <3>3, <1>1, <1>2
    <3>. QED
      BY <3>2, <3>3, <1>1
  <2>. QED
    BY <2>1, <2>2
<1>10. Ascends(C, h, nx2, on2, rank2)
  <2>. SUFFICES ASSUME NEW y \in N, nx2[y] # h PROVE rank2[y] < rank2[nx2[y]]
    BY DEF Ascends
  <2>1. y \in M
    BY <1>1, <1>5
  <2>2. CASE y = last
    BY <2>1, <2>2, <1>5
  <2>3. CASE y # last
    <3>1. nx2[y] = nx[y] /\ nx[y] \in M
      BY <2>1, <2>3, <1>5, <1>7 DEF List, Leads
    <3>2. rank[y] < rank[nx[y]]
      BY <3>1, <2>1, <1>1 DEF List, Ascends
    <3>. QED
      BY <3>1, <3>2, <2>1
  <2>. QED
    BY <2>2, <2>3
<1>11. NoneBetween(C, h, nx2, on2, rank2)
  <2>. SUFFICES ASSUME NEW y \in N, NEW z \in N, rank2[y] < rank2[z]
                PROVE  nx2[y] # h /\ rank2[nx2[y]] <= rank2[z]
    BY DEF NoneBetween
  <2>1. y \in M
    <3>. SUFFICES ASSUME y = x PROVE FALSE
      BY <1>1
    <3>1. CASE z = x
      BY <3>1, <1>2, <1>1
    <3>2. CASE z \in M
      BY <3>2, <1>2, <1>1
    <3>. QED
      BY <3>1, <3>2, <1>1
  <2>2. CASE y = last
    <3>1. z = x
      <4>. SUFFICES ASSUME z \in M PROVE FALSE
        BY <1>1
      <4>1. rank[y] < rank[z]
        BY <2>1
      <4>. QED
        BY <4>1, <2>1, <2>2, <1>4 DEF List, NoneBetween
    <3>. QED
      BY <3>1, <2>2, <1>1, <1>2, <1>5
  <2>3. CASE y # last
    <3>1. nx2[y] = nx[y] /\ nx[y] \in M
      BY <2>1, <2>3, <1>5, <1>7 DEF List, Leads
    <3>2. CASE z = x
      BY <3>1, <3>2, <1>1, <1>2
    <3>3. CASE z \in M
      BY <3>1, <3>3, <2>1, <1>1 DEF List, NoneBetween
    <3>. QED
      BY <3>2, <3>3, <1>1
  <2>. QED
    BY <2>2, <2>3
<1>12. RanksDiffer(C, h, on2, rank2)
  <2>. SUFFICES ASSUME NEW y \in N, NEW z \in N, rank2[y] = rank2[z] PROVE y = z
    BY DEF RanksDiffer
  <2>1. CASE y \in M /\ z \in M
    BY <2>1 DEF List, RanksDiffer
  <2>2. CASE y = x /\ z \in M
    BY <2>2, <1>2, <1>1
  <2>3. CASE z = x /\ y \in M
    BY <2>3, <1>2, <1>1
  <2>. QED
    BY <2>1, <2>2, <2>3, <1>1
<1>13. Doubly(C, h, nx2, pv2, on2)
  <2>. SUFFICES ASSUME NEW y \in N \cup {h}
                PROVE  pv2[y] \in N \cup {h} /\ pv2[nx2[y]] = y /\ nx2[pv2[y]] = y
    BY DEF Doubly
  <2>0. ASSUME NEW z \in M
        PROVE  pv2[z] = pv[z] /\ pv[z] \in M \cup {h} /\ nx[pv[z]] = z /\ z # h /\ pv[z] # last
    <3>1. pv[z] \in M \cup {h} /\ nx[pv[z]] = z
      BY DEF Doubly
    <3>. QED
      BY <3>1, <1>1, <1>4, <1>6
  <2>1. CASE y = x
    BY <2>1, <1>1, <1>4, <1>5, <1>6
  <2>2. CASE y # x /\ y # last
    <3>1. y \in M \cup {h} /\ nx2[y] = nx[y] /\ nx[y] \in M /\ pv2[nx[y]] = y
      BY <2>2, <1>1, <1>5, <1>6, <1>7 DEF List, Leads, Doubly
    <3>2. y = h => pv2[y] = x /\ nx2[x] = h
      BY <1>5, <1>6
    <3>3. y \in M => pv2[y] = pv[y] /\ pv[y] \in M \cup {h} /\ nx[pv[y]] = y /\ y # h /\ pv[y] # last
      BY <2>0
    <3>. QED
      BY <3>1, <3>2, <3>3, <1>1, <1>5
  <2>3. CASE y = last
    <3>1. nx2[y] = x /\ pv2[x] = y
      BY <2>3, <1>5, <1>6
    <3>2. y = h => pv2[y] = x /\ nx2[x] = h
      BY <1>5, <1>6
    <3>3. y \in M => pv2[y] = pv[y] /\ pv[y] \in M \cup {h} /\ nx[pv[y]] = y /\ y # h /\ pv[y] # last
      BY <2>0
    <3>. QED
      BY <3>1, <3>2, <3>3, <2>3, <1>1, <1>4, <1>5
  <2>. QED
    BY <2>1, <2>2, <2>3
<1>. QED
  BY <1>8, <1>9, <1>10, <1>11, <1>12, <1>13 DEF List

(* Taking any cell off a doubly linked list. *)
RemoveLinks(nx, pv, nx2, pv2, x) ==
  nx2 = [nx EXCEPT ![pv[x]] = nx[x]] /\ pv2 = [pv EXCEPT ![nx[x]] = pv[x]]

(* The same, link by link. *)
Unlinks(D, nx, pv, nx2, pv2, x) ==
  \A z \in D : /\ nx2[z] = IF z = pv[x] THEN nx[x] ELSE nx[z]
               /\ pv2[z] = IF z = nx[x] THEN pv[x] ELSE pv[z]

(* It is the removal of RemoveLinks. *)
LEMMA UnlinksLinks ==
  ASSUME NEW D, NEW nx \in Links(D), NEW pv \in Links(D), NEW nx2 \in Links(D), NEW pv2 \in Links(D), NEW x,
         Unlinks(D, nx, pv, nx2, pv2, x)
  PROVE  RemoveLinks(nx, pv, nx2, pv2, x)
<1>. PICK a, b : a = pv[x] /\ b = nx[x]
  OBVIOUS
<1>1. Differs(D, nx, nx2, a, b) /\ Differs(D, pv, pv2, b, a)
  BY DEF Unlinks, Differs
<1>2. Updates(nx, nx2, a, b) /\ Updates(pv, pv2, b, a)
  BY <1>1, ExceptIs
<1>. QED
  BY <1>2 DEF RemoveLinks, Updates

(* The list without the cell is linked in both directions. *)
LEMMA ListRemove ==
  ASSUME NEW D, NEW C \in SUBSET D, NEW h \in D \ C,
         NEW nx \in Links(D), NEW pv \in Links(D), NEW on \in Labels(C), NEW rank \in Labels(C),
         NEW nx2 \in Links(D), NEW pv2 \in Links(D), NEW on2 \in Labels(C), NEW x \in Members(C, h, on),
         List(C, h, nx, on, rank), Doubly(C, h, nx, pv, on),
         Members(C, h, on2) = Members(C, h, on) \ {x},
         RemoveLinks(nx, pv, nx2, pv2, x)
  PROVE  List(C, h, nx2, on2, rank) /\ Doubly(C, h, nx2, pv2, on2)
<1>. DEFINE M == Members(C, h, on)
            N == Members(C, h, on2)
            p == pv[x]
            n == nx[x]
<1>1. h \notin N /\ h \notin M /\ M \subseteq C /\ x \in M /\ x \notin N /\ N = M \ {x} /\ x # h
  BY DEF Members
<1>2. \A y \in M : rank[y] \in Int
  BY <1>1 DEF Members, Labels
<1>3. h \in D /\ M \subseteq D /\ DOMAIN nx = D /\ DOMAIN pv = D
  BY <1>1 DEF Links
<1>4. p \in M \cup {h} /\ n \in M \cup {h} /\ nx[p] = x /\ pv[n] = x
  BY <1>1 DEF List, Leads, Doubly
<1>5. n # h => rank[x] < rank[n]
  BY <1>1 DEF List, Ascends
<1>6. p # h => rank[p] < rank[x]
  BY <1>1, <1>4 DEF List, Ascends
<1>7. n # x /\ p # x
  BY <1>1, <1>2, <1>4, <1>5, <1>6
<1>8. p \in N \cup {h} /\ n \in N \cup {h}
  BY <1>1, <1>4, <1>7
<1>9. nx2[p] = n /\ \A y \in (M \cup {h}) \ {p} : nx2[y] = nx[y] /\ nx[y] # x
  BY <1>1, <1>3, <1>4 DEF Doubly, RemoveLinks
<1>10. pv2[n] = p /\ \A y \in (M \cup {h}) \ {n} : pv2[y] = pv[y] /\ pv[y] # x
  BY <1>1, <1>3, <1>4 DEF Doubly, List, Leads, RemoveLinks
<1>11. Leads(C, h, nx2, on2)
  BY <1>1, <1>8, <1>9 DEF List, Leads
<1>12. FirstIsLeast(C, h, nx2, on2, rank)
  <2>. SUFFICES ASSUME NEW y \in N PROVE nx2[h] # h /\ rank[nx2[h]] <= rank[y]
    BY DEF FirstIsLeast
  <2>1. nx[h] # h /\ rank[nx[h]] <= rank[y]
    BY <1>1 DEF List, FirstIsLeast
  <2>2. CASE p = h
    <3>1. rank[x] < rank[y]
      <4>1. rank[x] <= rank[y] /\ rank[x] # rank[y]
        BY <2>1, <2>2, <1>1, <1>4 DEF List, RanksDiffer
      <4>. QED
        BY <4>1, <1>1, <1>2
    <3>. QED
      BY <3>1, <2>2, <1>1, <1>9 DEF List, NoneBetween
  <2>3. CASE p # h
    BY <2>1, <2>3, <1>9
  <2>. QED
    BY <2>2, <2>3
<1>13. Ascends(C, h, nx2, on2, rank)
  <2>. SUFFICES ASSUME NEW y \in N, nx2[y] # h PROVE rank[y] < rank[nx2[y]]
    BY DEF Ascends
  <2>1. CASE y = p
    <3>1. nx2[y] = n /\ n # h /\ n \in M /\ p \in M /\ p # h
      BY <2>1, <1>1, <1>8, <1>9
    <3>. QED
      BY <3>1, <2>1, <1>1, <1>2, <1>5, <1>6
  <2>2. CASE y # p
    BY <2>2, <1>1, <1>9 DEF List, Ascends
  <2>. QED
    BY <2>1, <2>2
<1>14. NoneBetween(C, h, nx2, on2, rank)
  <2>. SUFFICES ASSUME NEW y \in N, NEW z \in N, rank[y] < rank[z]
                PROVE  nx2[y] # h /\ rank[nx2[y]] <= rank[z]
    BY DEF NoneBetween
  <2>1. nx[y] # h /\ rank[nx[y]] <= rank[z]
    BY <1>1 DEF List, NoneBetween
  <2>2. CASE y = p
    <3>1. rank[x] < rank[z]
      <4>1. rank[x] <= rank[z] /\ rank[x] # rank[z]
        BY <2>1, <2>2, <1>1, <1>4 DEF List, RanksDiffer
      <4>. QED
        BY <4>1, <1>1, <1>2
    <3>. QED
      BY <3>1, <2>2, <1>1, <1>9 DEF List, NoneBetween
  <2>3. CASE y # p
    BY <2>1, <2>3, <1>1, <1>9
  <2>. QED
    BY <2>2, <2>3
<1>15. RanksDiffer(C, h, on2, rank)
  BY <1>1 DEF List, RanksDiffer
<1>16. Doubly(C, h, nx2, pv2, on2)
  <2>. SUFFICES ASSUME NEW y \in N \cup {h}
                PROVE  pv2[y] \in N \cup {h} /\ pv2[nx2[y]] = y /\ nx2[pv2[y]] = y
    BY DEF Doubly
  <2>1. y \in M \cup {h} /\ y # x
    BY <1>1
  <2>2. pv2[nx2[y]] = y
    <3>1. CASE y = p
      BY <3>1, <1>9, <1>10
    <3>2. CASE y # p
      <4>1. nx2[y] = nx[y] /\ nx[y] \in M \cup {h} /\ pv[nx[y]] = y
        BY <3>2, <2>1, <1>9 DEF List, Leads, Doubly
      <4>2. nx[y] # n
        BY <4>1, <2>1, <1>4
      <4>. QED
        BY <4>1, <4>2, <1>10
    <3>. QED
      BY <3>1, <3>2
  <2>3. pv2[y] \in N \cup {h} /\ nx2[pv2[y]] = y
    <3>1. CASE y = n
      BY <3>1, <1>8, <1>9, <1>10
    <3>2. CASE y # n
      <4>1. pv2[y] = pv[y] /\ pv[y] \in M \cup {h} /\ nx[pv[y]] = y /\ pv[y] # x
        BY <3>2, <2>1, <1>10 DEF Doubly
      <4>2. pv[y] # p
        BY <4>1, <2>1, <1>4
      <4>. QED
        BY <4>1, <4>2, <1>1, <1>9
    <3>. QED
      BY <3>1, <3>2
  <2>. QED
    BY <2>2, <2>3
<1>. QED
  BY <1>11, <1>12, <1>13, <1>14, <1>15, <1>16 DEF List
-----------------------------------------------------------------------------
(* The walk from head h along at most size links. *)
WalkEq(g, nx, h, size) ==
  g = [n \in 0..size |-> IF n = 0 THEN nx[h] ELSE IF g[n - 1] = h THEN h ELSE nx[g[n - 1]]]
Walk(nx, h, size) == CHOOSE g : WalkEq(g, nx, h, size)

(* The walk up to where it is back at the head. *)
Listed(nx, h, size) ==
  [n \in 1..Cardinality({m \in 0..size : Walk(nx, h, size)[m] # h}) |-> Walk(nx, h, size)[n - 1]]

Fits(C, size) == IsFiniteSet(C) /\ Cardinality(C) <= size

(* The recursive definition of the walk has a solution. *)
LEMMA WalkEquation ==
  ASSUME NEW D, NEW size \in Nat, NEW nx \in Links(D), NEW h \in D
  PROVE  WalkEq(Walk(nx, h, size), nx, h, size)
<1>. DEFINE hop == [y \in D |-> IF y = h THEN h ELSE nx[y]]
            step == [n \in 1..size |-> hop]
<1>1. hop \in [D -> D] /\ nx[h] \in D /\ size \in Nat
  BY DEF Links
<1>2. step \in Steps(size, D)
  <2>. HIDE DEF hop
  <2>. QED
    BY <1>1 DEF Steps
<1>3. \A n \in 1..size : step[n] = hop
  OBVIOUS
<1>. HIDE DEF step
<1>4. PICK f : Computes(f, size, D, nx[h], step)
  BY <1>1, <1>2, Recursion
<1>5. f \in [0..size -> D] /\ f[0] = nx[h] /\ \A n \in 1..size : f[n] = hop[f[n - 1]]
  BY <1>3, <1>4 DEF Computes
<1>6. \A n \in 1..size : n - 1 \in 0..size /\ f[n - 1] \in D
  BY <1>1, <1>5
<1>7. ASSUME NEW n \in 0..size
      PROVE  f[n] = IF n = 0 THEN nx[h] ELSE IF f[n - 1] = h THEN h ELSE nx[f[n - 1]]
  <2>1. CASE n = 0
    BY <2>1, <1>5
  <2>2. CASE n # 0
    <3>1. n \in 1..size
      BY <2>2, <1>1
    <3>2. f[n] = hop[f[n - 1]] /\ f[n - 1] \in D
      BY <3>1, <1>5, <1>6
    <3>. QED
      BY <3>2, <2>2
  <2>. QED
    BY <2>1, <2>2
<1>8. WalkEq(f, nx, h, size)
  BY <1>5, <1>7 DEF WalkEq
<1>. QED
  BY <1>8 DEF Walk

(* The walk stays on the list ... *)
LEMMA WalkFacts ==
  ASSUME NEW D, NEW C \in SUBSET D, NEW h \in D \ C, NEW size \in Nat,
         NEW nx \in Links(D), NEW on \in Labels(C), NEW rank \in Labels(C),
         List(C, h, nx, on, rank)
  PROVE  \A n \in 0..size :
           /\ Walk(nx, h, size)[n] \in Members(C, h, on) \cup {h}
           /\ n = 0 => Walk(nx, h, size)[n] = nx[h]
           /\ n > 0 => Walk(nx, h, size)[n] = IF Walk(nx, h, size)[n - 1] = h THEN h ELSE nx[Walk(nx, h, size)[n - 1]]
<1>. DEFINE W == Walk(nx, h, size)
            M == Members(C, h, on)
            T == {n \in 0..size : W[n] \in M \cup {h}}
<1>1. size \in Nat /\ h \in D
  OBVIOUS
<1>2. \A n \in 0..size : W[n] = IF n = 0 THEN nx[h] ELSE IF W[n - 1] = h THEN h ELSE nx[W[n - 1]]
  BY <1>1, WalkEquation DEF WalkEq
<1>. HIDE DEF W
<1>3. \A x \in M \cup {h} : nx[x] \in M \cup {h}
  BY DEF List, Leads
<1>. HIDE DEF M
<1>4. 0 \in T
  BY <1>1, <1>2, <1>3
<1>5. ASSUME NEW n \in 0..size - 1, n \in T PROVE n + 1 \in T
  <2>1. n + 1 \in 0..size /\ n + 1 # 0 /\ (n + 1) - 1 = n
    BY <1>1
  <2>2. W[n + 1] = IF W[n] = h THEN h ELSE nx[W[n]]
    BY <1>2, <2>1
  <2>. QED
    BY <2>1, <2>2, <1>3, <1>5
<1>6. \A n \in 0..size : n \in T
  <2>. HIDE DEF T
  <2>. QED
    BY <1>1, <1>4, <1>5, Induction
<1>7. \A n \in 0..size : W[n] \in M \cup {h}
  BY <1>6
<1>8. \A n \in 0..size : n = 0 => W[n] = nx[h]
  BY <1>2
<1>9. \A n \in 0..size : n > 0 => W[n] = IF W[n - 1] = h THEN h ELSE nx[W[n - 1]]
  BY <1>2
<1>. QED
  BY <1>7, <1>8, <1>9 DEF W, M

(* ... follows the order of the ranks up to where it is at the head ... *)
LEMMA WalkAscends ==
  ASSUME NEW D, NEW C \in SUBSET D, NEW h \in D \ C, NEW size \in Nat,
         NEW nx \in Links(D), NEW on \in Labels(C), NEW rank \in Labels(C),
         List(C, h, nx, on, rank), NEW n \in 0..size, Walk(nx, h, size)[n] # h, NEW m \in 0..n - 1
  PROVE  Walk(nx, h, size)[m] # h /\ rank[Walk(nx, h, size)[m]] < rank[Walk(nx, h, size)[n]]
<1>. DEFINE W == Walk(nx, h, size)
            M == Members(C, h, on)
            T == {i \in 0..size : W[i] # h => \A j \in 0..i - 1 : W[j] # h /\ rank[W[j]] < rank[W[i]]}
<1>1. size \in Nat /\ h \notin M
  BY DEF Members
<1>2. \A i \in 0..size : i > 0 => W[i] = IF W[i - 1] = h THEN h ELSE nx[W[i - 1]]
  BY WalkFacts
<1>3. \A i \in 0..size : W[i] # h => W[i] \in M
  BY WalkFacts
<1>4. \A x \in M : nx[x] # h => rank[x] < rank[nx[x]]
  BY DEF List, Ascends
<1>5. \A x \in M : rank[x] \in Int
  BY DEF Members, Labels
<1>. HIDE DEF W, M
<1>6. 0 \in T
  BY <1>1
<1>7. ASSUME NEW i \in 0..size - 1, i \in T PROVE i + 1 \in T
  <2>1. i + 1 \in 0..size /\ i + 1 > 0 /\ (i + 1) - 1 = i
    BY <1>1
  <2>2. W[i + 1] = IF W[i] = h THEN h ELSE nx[W[i]]
    BY <1>2, <2>1
  <2>3. ASSUME W[i + 1] # h, NEW j \in 0..(i + 1) - 1
        PROVE  W[j] # h /\ rank[W[j]] < rank[W[i + 1]]
    <3>1. W[i] # h /\ W[i] \in M /\ W[i + 1] = nx[W[i]] /\ W[i + 1] \in M
      BY <1>1, <1>3, <2>1, <2>2, <2>3
    <3>2. rank[W[i]] < rank[W[i + 1]]
      BY <1>4, <2>3, <3>1
    <3>3. CASE j = i
      BY <3>1, <3>2, <3>3
    <3>4. CASE j # i
      <4>1. j \in 0..i - 1 /\ j \in 0..size
        BY <3>4, <1>1, <2>1
      <4>2. W[j] # h /\ rank[W[j]] < rank[W[i]]
        BY <4>1, <3>1, <1>7
      <4>3. W[j] \in M
        BY <4>1, <4>2, <1>3
      <4>. QED
        BY <4>2, <4>3, <3>1, <3>2, <1>5
    <3>. QED
      BY <3>3, <3>4
  <2>. QED
    BY <2>1, <2>3
<1>8. \A i \in 0..size : i \in T
  <2>. HIDE DEF T
  <2>. QED
    BY <1>1, <1>6, <1>7, Induction
<1>. QED
  BY <1>8 DEF W

(* ... passes no cell by ... *)
LEMMA WalkPassesNone ==
  ASSUME NEW D, NEW C \in SUBSET D, NEW h \in D \ C, NEW size \in Nat,
         NEW nx \in Links(D), NEW on \in Labels(C), NEW rank \in Labels(C),
         List(C, h, nx, on, rank), NEW x \in Members(C, h, on), NEW n \in 0..size
  PROVE  \/ \E m \in 0..n : Walk(nx, h, size)[m] = x
         \/ Walk(nx, h, size)[n] # h /\ rank[Walk(nx, h, size)[n]] < rank[x]
<1>. DEFINE W == Walk(nx, h, size)
            M == Members(C, h, on)
            Past(i) == (\E m \in 0..i : W[m] = x) \/ (W[i] # h /\ rank[W[i]] < rank[x])
            T == {i \in 0..size : Past(i)}
<1>1. size \in Nat /\ h \notin M /\ x \in M
  BY DEF Members
<1>2. \A i \in 0..size : i > 0 => W[i] = IF W[i - 1] = h THEN h ELSE nx[W[i - 1]]
  BY WalkFacts
<1>3. \A i \in 0..size : W[i] # h => W[i] \in M
  BY WalkFacts
<1>4. W[0] = nx[h]
  <2>1. 0 \in 0..size
    BY <1>1
  <2>. QED
    BY <2>1, WalkFacts
<1>5. \A y \in M : rank[y] \in Int
  BY DEF Members, Labels
<1>6. nx[h] # h /\ rank[nx[h]] <= rank[x]
  BY DEF List, FirstIsLeast
<1>7. \A y \in M : rank[y] < rank[x] => nx[y] # h /\ rank[nx[y]] <= rank[x]
  BY DEF List, NoneBetween
<1>8. \A y \in M : rank[y] = rank[x] => y = x
  BY DEF List, RanksDiffer
<1>. HIDE DEF W, M
<1>9. ASSUME NEW i \in 0..size, W[i] # h, rank[W[i]] <= rank[x] PROVE Past(i)
  <2>1. W[i] \in M /\ i \in 0..i
    BY <1>1, <1>9, <1>3
  <2>2. CASE rank[W[i]] = rank[x]
    BY <2>1, <2>2, <1>8
  <2>3. CASE rank[W[i]] # rank[x]
    <3>1. rank[W[i]] < rank[x]
      BY <2>1, <2>3, <1>1, <1>5, <1>9
    <3>. QED
      BY <3>1, <1>9
  <2>. QED
    BY <2>2, <2>3
<1>10. 0 \in T
  <2>1. 0 \in 0..size /\ W[0] # h /\ rank[W[0]] <= rank[x]
    BY <1>1, <1>6, <1>4
  <2>2. Past(0)
    BY <2>1, <1>9
  <2>. QED
    BY <2>1, <2>2
<1>11. ASSUME NEW i \in 0..size - 1, i \in T PROVE i + 1 \in T
  <2>1. i + 1 \in 0..size /\ i + 1 > 0 /\ (i + 1) - 1 = i /\ i \in 0..size
    BY <1>1
  <2>2. Past(i)
    BY <1>11
  <2>3. CASE \E m \in 0..i : W[m] = x
    <3>1. PICK m \in 0..i : W[m] = x
      BY <2>3
    <3>2. m \in 0..i + 1
      BY <2>1
    <3>3. Past(i + 1)
      BY <3>1, <3>2
    <3>. QED
      BY <3>3, <2>1
  <2>4. CASE W[i] # h /\ rank[W[i]] < rank[x]
    <3>1. W[i] \in M
      BY <2>1, <2>4, <1>3
    <3>4. W[i + 1] = nx[W[i]]
      BY <2>1, <2>4, <1>2
    <3>2. W[i + 1] # h /\ rank[W[i + 1]] <= rank[x]
      BY <3>1, <3>4, <2>4, <1>7
    <3>3. Past(i + 1)
      BY <3>2, <2>1, <1>9
    <3>. QED
      BY <3>3, <2>1
  <2>. QED
    BY <2>2, <2>3, <2>4
<1>12. \A i \in 0..size : i \in T
  <2>. HIDE DEF T
  <2>. QED
    BY <1>1, <1>10, <1>11, Induction
<1>13. Past(n)
  BY <1>12
<1>. QED
  BY <1>13 DEF W

(* ... and is back at the head in time: there are only size indexes. *)
LEMMA WalkEnds ==
  ASSUME NEW D, NEW C \in SUBSET D, NEW h \in D \ C, NEW size \in Nat,
         NEW nx \in Links(D), NEW on \in Labels(C), NEW rank \in Labels(C),
         List(C, h, nx, on, rank), Fits(C, size)
  PROVE  Walk(nx, h, size)[size] = h
<1>. SUFFICES ASSUME Walk(nx, h, size)[size] # h PROVE FALSE
  OBVIOUS
<1>. DEFINE W == Walk(nx, h, size)
            g == [i \in 0..size |-> W[i]]
<1>1. size \in Nat
  OBVIOUS
<1>2. \A i \in 0..size : W[i] \in Members(C, h, on) \cup {h}
  BY WalkFacts
<1>3. ASSUME NEW i \in 0..size PROVE W[i] # h
  <2>1. i = size \/ i \in 0..size - 1
    BY <1>1
  <2>2. size \in 0..size
    BY <1>1
  <2>. QED
    BY <2>1, <2>2, WalkAscends
<1>4. ASSUME NEW i \in 0..size, NEW j \in 0..i - 1 PROVE W[i] # W[j]
  <2>1. rank[W[j]] < rank[W[i]]
    BY <1>3, <1>4, WalkAscends
  <2>2. W[i] \in C
    BY <1>2, <1>3 DEF Members
  <2>. QED
    BY <2>1, <2>2 DEF Labels
<1>5. g \in [0..size -> C]
  BY <1>2, <1>3 DEF Members
<1>6. IsFiniteSet(0..size) /\ Cardinality(0..size) = size + 1
  BY <1>1, FS_Interval
<1>7. IsFiniteSet(C) /\ Cardinality(C) \in Nat /\ Cardinality(C) <= size
  BY FS_CardinalityType DEF Fits
<1>8. Cardinality(C) < Cardinality(0..size)
  BY <1>1, <1>6, <1>7
<1>. HIDE DEF g
<1>9. PICK i, j \in 0..size : i # j /\ g[i] = g[j]
  BY <1>5, <1>6, <1>7, <1>8, FS_PigeonHole
<1>10. W[i] = W[j]
  BY <1>9 DEF g
<1>11. i \in 0..j - 1 \/ j \in 0..i - 1
  BY <1>9
<1>. QED
  BY <1>4, <1>10, <1>11

(* What a list looks like to Listed: its cells, in the order of the ranks. *)
Enumerates(C, L, h, on, rank) ==
  /\ \E k \in Nat : DOMAIN L = 1..k
  /\ \A n \in DOMAIN L : L[n] \in Members(C, h, on)
  /\ \A x \in Members(C, h, on) : \E n \in DOMAIN L : L[n] = x
  /\ \A m, n \in DOMAIN L : m < n => rank[L[m]] < rank[L[n]]

(* Listed enumerates the cells of a labelled list, in the order of their   *)
(* ranks.                                                                  *)
LEMMA ListedEnumerates ==
  ASSUME NEW D, NEW C \in SUBSET D, NEW h \in D \ C, NEW size \in Nat,
         NEW nx \in Links(D), NEW on \in Labels(C), NEW rank \in Labels(C),
         List(C, h, nx, on, rank), Fits(C, size)
  PROVE  Enumerates(C, Listed(nx, h, size), h, on, rank) /\ Range(Listed(nx, h, size)) = Members(C, h, on)
<1>. DEFINE W == Walk(nx, h, size)
            M == Members(C, h, on)
            Back == {i \in 0..size : W[i] = h}
            Away == {i \in 0..size : W[i] # h}
            L == Listed(nx, h, size)
<1>1. size \in Nat /\ size \in 0..size
  OBVIOUS
<1>2. size \in Back
  BY <1>1, WalkEnds
<1>3. Back \in SUBSET Nat /\ Back # {}
  BY <1>2
<1>4. PICK k \in Back : \A i \in Back : k <= i
  BY <1>3, Least
<1>5. k \in Nat /\ k <= size /\ k \in 0..size
  BY <1>1
<1>6. ASSUME NEW i \in Away PROVE i \in 0..k - 1
  <2>1. i \in 0..size /\ W[i] # h /\ i # k /\ W[k] = h
    BY <1>4, <1>6
  <2>2. ~ (k \in 0..i - 1)
    BY <2>1, WalkAscends
  <2>. QED
    BY <2>1, <2>2, <1>5
<1>7. ASSUME NEW i \in 0..k - 1 PROVE i \in Away
  <2>1. i \in 0..size /\ ~ (k <= i)
    BY <1>1, <1>5
  <2>. QED
    BY <2>1, <1>4
<1>8. Away = 0..k - 1
  BY <1>6, <1>7
<1>9. Cardinality(Away) = k
  <2>1. Cardinality(0..k - 1) = k
    BY <1>5, FS_Interval
  <2>. QED
    BY <2>1, <1>8
<1>. HIDE DEF Back
<1>10. L = [n \in 1..k |-> W[n - 1]]
  BY <1>9 DEF Listed
<1>11. DOMAIN L = 1..k /\ \A n \in 1..k : L[n] = W[n - 1] /\ n - 1 \in 0..k - 1 /\ n - 1 \in 0..size
  BY <1>1, <1>5, <1>10
<1>. HIDE DEF L
<1>12. ASSUME NEW n \in DOMAIN L PROVE L[n] \in M
  BY <1>7, <1>11, WalkFacts
<1>13. ASSUME NEW x \in M PROVE \E n \in DOMAIN L : L[n] = x
  <2>1. W[size] = h
    BY WalkEnds
  <2>2. PICK m \in 0..size : W[m] = x
    BY <2>1, <1>1, WalkPassesNone
  <2>3. m \in 0..k - 1
    <3>1. x # h
      BY DEF Members
    <3>. QED
      BY <3>1, <2>2, <1>6
  <2>4. m + 1 \in 1..k /\ (m + 1) - 1 = m
    BY <2>3, <1>5
  <2>. QED
    BY <2>2, <2>4, <1>11
<1>14. ASSUME NEW m \in DOMAIN L, NEW n \in DOMAIN L, m < n PROVE rank[L[m]] < rank[L[n]]
  <2>1. m \in 1..k /\ n \in 1..k
    BY <1>11
  <2>2. m - 1 \in 0..(n - 1) - 1 /\ n - 1 \in 0..size /\ n - 1 \in 0..k - 1
    BY <2>1, <1>14, <1>1, <1>5
  <2>3. W[n - 1] # h
    BY <2>2, <1>7
  <2>4. rank[W[m - 1]] < rank[W[n - 1]]
    BY <2>2, <2>3, WalkAscends
  <2>. QED
    BY <2>1, <2>4, <1>11
<1>15. Enumerates(C, L, h, on, rank)
  BY <1>5, <1>11, <1>12, <1>13, <1>14 DEF Enumerates
<1>16. Range(L) = {L[n] : n \in DOMAIN L}
  BY DEF Range
<1>17. Range(L) = M
  BY <1>12, <1>13, <1>16
<1>. QED
  BY <1>15, <1>17 DEF L

(* The links back, in terms of the enumeration. *)
LEMMA Precedes ==
  ASSUME NEW D, NEW C \in SUBSET D, NEW h \in D \ C,
         NEW nx \in Links(D), NEW pv \in Links(D), NEW on \in Labels(C), NEW rank \in Labels(C),
         List(C, h, nx, on, rank), Doubly(C, h, nx, pv, on), NEW L, Enumerates(C, L, h, on, rank),
         NEW k \in Nat, DOMAIN L = 1..k
  PROVE  /\ \A n \in 1..k : pv[L[n]] = IF n = 1 THEN h ELSE L[n - 1]
         /\ k # 0 => pv[h] = L[k]
<1>. DEFINE M == Members(C, h, on)
<1>1. /\ \A n \in 1..k : L[n] \in M /\ rank[L[n]] \in Int
      /\ \A x \in M : \E n \in 1..k : L[n] = x
      /\ \A m, n \in 1..k : m < n => rank[L[m]] < rank[L[n]]
  BY DEF Enumerates, Members, Labels
<1>2. h \notin M /\ \A x \in M \cup {h} : pv[x] \in M \cup {h} /\ nx[pv[x]] = x
  BY DEF Doubly, Members
<1>3. \A x \in M : nx[x] # h => rank[x] < rank[nx[x]]
  BY DEF List, Ascends
<1>4. \A x, y \in M : rank[x] < rank[y] => nx[x] # h /\ rank[nx[x]] <= rank[y]
  BY DEF List, NoneBetween
<1>5. \A y \in M : nx[h] # h /\ rank[nx[h]] <= rank[y]
  BY DEF List, FirstIsLeast
<1>. HIDE DEF M
<1>6. ASSUME NEW n \in 1..k PROVE pv[L[n]] = IF n = 1 THEN h ELSE L[n - 1]
  <2>. PICK y : y = pv[L[n]]
    OBVIOUS
  <2>1. y \in M \cup {h} /\ nx[y] = L[n] /\ L[n] # h
    BY <1>1, <1>2
  <2>2. CASE y = h
    <3>1. 1 \in 1..k /\ rank[L[n]] <= rank[L[1]]
      BY <2>1, <2>2, <1>1, <1>5
    <3>2. ~(1 < n)
      BY <3>1, <1>1
    <3>. QED
      BY <2>2, <3>2
  <2>3. CASE y \in M
    <3>1. PICK m \in 1..k : L[m] = y
      BY <2>3, <1>1
    <3>2. rank[L[m]] < rank[L[n]]
      BY <2>1, <2>3, <3>1, <1>3
    <3>3. m < n
      <4>1. n < m => rank[L[n]] < rank[L[m]]
        BY <1>1
      <4>. QED
        BY <4>1, <3>2, <1>1
    <3>4. n - 1 \in 1..k /\ n # 1 /\ n - 1 < n
      BY <3>3
    <3>5. ~(m < n - 1)
      <4>. SUFFICES ASSUME m < n - 1 PROVE FALSE
        OBVIOUS
      <4>1. rank[L[m]] < rank[L[n - 1]] /\ rank[L[n - 1]] < rank[L[n]]
        BY <3>4, <1>1
      <4>2. rank[L[n]] <= rank[L[n - 1]]
        BY <4>1, <2>1, <3>1, <3>4, <1>1, <1>4
      <4>. QED
        BY <4>1, <4>2, <3>4, <1>1
    <3>6. m = n - 1
      BY <3>3, <3>5
    <3>. QED
      BY <3>1, <3>4, <3>6
  <2>. QED
    BY <2>1, <2>2, <2>3
<1>7. ASSUME k # 0 PROVE pv[h] = L[k]
  <2>. PICK y : y = pv[h]
    OBVIOUS
  <2>1. y \in M \cup {h} /\ nx[y] = h /\ k \in 1..k /\ 1 \in 1..k
    BY <1>2, <1>7
  <2>2. y # h
    BY <2>1, <1>1, <1>5
  <2>3. PICK m \in 1..k : L[m] = y
    BY <2>1, <2>2, <1>1
  <2>4. ~(m < k)
    <3>. SUFFICES ASSUME m < k PROVE FALSE
      OBVIOUS
    <3>1. rank[L[m]] < rank[L[k]]
      BY <2>1, <1>1
    <3>. QED
      BY <3>1, <2>1, <2>3, <1>1, <1>4
  <2>5. m = k
    BY <2>4
  <2>. QED
    BY <2>3, <2>5
<1>. QED
  BY <1>6, <1>7
-----------------------------------------------------------------------------
(* Ranks for a cell in front of a list and at its end. *)
FrontRank(h, nx, rank) == IF nx[h] = h THEN 0 ELSE rank[nx[h]] - 1
BackRank(h, pv, rank) == IF pv[h] = h THEN 0 ELSE rank[pv[h]] + 1

(* A rank below those of a list, for a cell that is pushed. *)
LEMMA FrontRankLess ==
  ASSUME NEW D, NEW C \in SUBSET D, NEW h \in D \ C,
         NEW nx \in Links(D), NEW on \in Labels(C), NEW rank \in Labels(C), List(C, h, nx, on, rank)
  PROVE  FrontRank(h, nx, rank) \in Int /\ \A y \in Members(C, h, on) : FrontRank(h, nx, rank) < rank[y]
<1>1. nx[h] # h => nx[h] \in Members(C, h, on)
  BY DEF List, Leads
<1>2. \A y \in Members(C, h, on) : rank[y] \in Int
  BY DEF Members, Labels
<1>3. \A y \in Members(C, h, on) : nx[h] # h /\ rank[nx[h]] <= rank[y]
  BY DEF List, FirstIsLeast
<1>. QED
  BY <1>1, <1>2, <1>3 DEF FrontRank

(* A rank above those of a list, for a cell that is appended. *)
LEMMA BackRankGreater ==
  ASSUME NEW D, NEW C \in SUBSET D, NEW h \in D \ C,
         NEW nx \in Links(D), NEW pv \in Links(D), NEW on \in Labels(C), NEW rank \in Labels(C),
         List(C, h, nx, on, rank), Doubly(C, h, nx, pv, on)
  PROVE  BackRank(h, pv, rank) \in Int /\ \A y \in Members(C, h, on) : rank[y] < BackRank(h, pv, rank)
<1>. DEFINE last == pv[h]
<1>1. last \in Members(C, h, on) \cup {h} /\ nx[last] = h
  BY DEF Doubly
<1>2. \A y \in Members(C, h, on) : rank[y] \in Int
  BY DEF Members, Labels
<1>3. last = h => Members(C, h, on) = {}
  BY <1>1 DEF List, FirstIsLeast
<1>4. last # h => \A y \in Members(C, h, on) : ~(rank[last] < rank[y])
  BY <1>1 DEF List, NoneBetween
<1>. QED
  BY <1>1, <1>2, <1>3, <1>4 DEF BackRank

(* One cell gets a new label. *)
Relabels(C, on, on2, x, p) == on2 \in Labels(C) /\ \A y \in C : on2[y] = IF y = x THEN p ELSE on[y]

(* A labelling that differs in one cell. *)
LEMMA RelabelExists ==
  ASSUME NEW C, NEW on \in Labels(C), NEW x \in C, NEW p \in Int
  PROVE  \E on2 : Relabels(C, on, on2, x, p)
<1>. DEFINE f == [on EXCEPT ![x] = p]
<1>1. Relabels(C, on, f, x, p)
  BY DEF Labels, Relabels
<1>. QED
  BY <1>1

(* The members of a list when one cell is relabelled. *)
LEMMA MembersMove ==
  ASSUME NEW C, NEW on, NEW on2, NEW x \in C, NEW p, Relabels(C, on, on2, x, p)
  PROVE  /\ Members(C, p, on2) = Members(C, p, on) \cup {x}
         /\ \A h : h # p => Members(C, h, on2) = Members(C, h, on) \ {x}
  BY DEF Relabels, Members
-----------------------------------------------------------------------------
(* Chunks of n naturals: the first one of a chunk. *)
LEMMA ChunkStart ==
  ASSUME NEW n \in Nat \ {0}, NEW k \in Nat
  PROVE  (n * k) \div n = k
  OBVIOUS

(* The successor of a natural that does not end a chunk. *)
LEMMA SameChunk ==
  ASSUME NEW n \in Nat \ {0}, NEW i \in Nat, i % n # n - 1
  PROVE  (i + 1) \div n = i \div n
  OBVIOUS

(* The first and the last natural of a chunk bound the others. *)
LEMMA ChunkBounds ==
  ASSUME NEW n \in Nat \ {0}, NEW i \in Nat
  PROVE  /\ i \div n \in Nat /\ n * (i \div n) <= i /\ n * (i \div n) \in Nat
         /\ i % n = n - 1 => \A j \in Nat : j \div n = i \div n => j <= i
<1>1. i \div n \in Nat /\ n * (i \div n) <= i /\ n * (i \div n) \in Nat
  OBVIOUS
<1>2. ASSUME NEW j \in Nat PROVE j = n * (j \div n) + (j % n) /\ j % n \in 0..n - 1 /\ j \div n \in Nat
  OBVIOUS
<1>3. ASSUME i % n = n - 1, NEW j \in Nat, j \div n = i \div n PROVE j <= i
  <2>. DEFINE p == n * (i \div n)
  <2>1. i = p + (i % n) /\ j = p + (j % n) /\ j % n <= n - 1
    BY <1>2, <1>3
  <2>2. p \in Nat /\ i % n \in Nat /\ j % n \in Nat
    BY <1>1, <1>2
  <2>. HIDE DEF p
  <2>. QED
    BY <2>1, <2>2, <1>3
<1>. QED
  BY <1>1, <1>3

(* When k chunks make up the whole, every natural of it is in one of them. *)
LEMMA AllChunksTaken ==
  ASSUME NEW size \in Nat, NEW k \in Nat \ {0}, size % k = 0, size \div k > 0, NEW i \in 0..size - 1
  PROVE  i \div (size \div k) < k
<1>1. size = k * (size \div k) + (size % k)
  OBVIOUS
<1>. PICK n \in Nat \ {0} : n = size \div k
  OBVIOUS
<1>2. i \in Nat /\ i < size
  OBVIOUS
<1>3. n * (i \div n) <= i /\ i \div n \in Nat
  BY <1>2, ChunkBounds
<1>4. size = k * n
  BY <1>1
<1>5. \A a, b, c \in Nat : a * b < c * a => b < c
  OBVIOUS
<1>. PICK q \in Nat : q = i \div n
  BY <1>3
<1>6. n * q < k * n
  BY <1>2, <1>3, <1>4
<1>7. q < k
  BY <1>5, <1>6
<1>. QED
  BY <1>7

(* Cells from shift on, size of them, are linked in order from the first   *)
(* to the last one of chunk k, and these are on the list of h.             *)
ChunkOf(x, shift, n) == (x - shift) \div n
EndsChunk(x, shift, size, n) == (x - shift) % n = n - 1 \/ x - shift = size - 1

InChunk(h, nx, on, rank, shift, size, n, k) ==
  LET C == shift..shift + size - 1 IN
  /\ nx[h] = shift + n * k
  /\ \A x \in C : /\ on[x] = h <=> ChunkOf(x, shift, n) = k
                  /\ ChunkOf(x, shift, n) = k => nx[x] = IF EndsChunk(x, shift, size, n) THEN h ELSE x + 1
                  /\ rank[x] = x

(* Then they are a list, whose ranks are the positions of the cells. *)
LEMMA ChunkList ==
  ASSUME NEW shift \in Nat, NEW size \in Nat, NEW n \in Nat \ {0}, NEW k \in Nat, n * (k + 1) <= size,
         NEW h, h \notin shift..shift + size - 1, NEW nx, NEW on, NEW rank,
         InChunk(h, nx, on, rank, shift, size, n, k)
  PROVE  List(shift..shift + size - 1, h, nx, on, rank)
<1>. DEFINE C == shift..shift + size - 1
            M == Members(C, h, on)
            first == shift + n * k
            LastOf(x) == EndsChunk(x, shift, size, n)
            Part(x) == ChunkOf(x, shift, n)
<1>1. ASSUME NEW x \in C PROVE x - shift \in Nat /\ Part(x) \in Nat /\ x \in Int /\ x - shift <= size - 1
  <2>1. x - shift \in Nat /\ x \in Int /\ x - shift <= size - 1
    OBVIOUS
  <2>. QED
    BY <2>1, ChunkBounds DEF ChunkOf
<1>2. /\ M \subseteq C /\ h \notin M /\ nx[h] = first
      /\ \A x \in C : x \in M <=> Part(x) = k
      /\ \A x \in M : nx[x] = IF LastOf(x) THEN h ELSE x + 1
      /\ \A x \in M : rank[x] = x /\ x \in Int
  BY DEF Members, InChunk
<1>3. first \in M /\ first \in Int
  <2>1. n * k \in Nat /\ n * k < size
    <3>1. \A a, b, s \in Nat : a >= 1 /\ a * (b + 1) <= s => a * b < s /\ a * b \in Nat
      OBVIOUS
    <3>. QED
      BY <3>1
  <2>2. first \in C /\ first - shift = n * k /\ first \in Int
    BY <2>1
  <2>3. Part(first) = k
    BY <2>2, ChunkStart DEF ChunkOf
  <2>. QED
    BY <2>2, <2>3, <1>2
<1>4. ASSUME NEW x \in M PROVE first <= x
  <2>1. x - shift \in Nat /\ Part(x) = k /\ x \in Int
    BY <1>1, <1>2
  <2>2. n * k <= x - shift /\ n * k \in Nat
    BY <2>1, ChunkBounds DEF ChunkOf
  <2>. QED
    BY <2>1, <2>2
<1>5. ASSUME NEW x \in M, ~LastOf(x) PROVE x + 1 \in M
  <2>1. x \in C /\ Part(x) = k /\ x - shift \in Nat
    BY <1>1, <1>2
  <2>2. x + 1 \in C /\ (x + 1) - shift = (x - shift) + 1 /\ (x - shift) % n # n - 1
    BY <2>1, <1>5 DEF EndsChunk
  <2>3. Part(x + 1) = k
    BY <2>1, <2>2, SameChunk DEF ChunkOf
  <2>. QED
    BY <2>2, <2>3, <1>2
<1>6. ASSUME NEW x \in M, NEW y \in M, x < y PROVE ~LastOf(x)
  <2>1. /\ x - shift \in Nat /\ y - shift \in Nat /\ Part(x) = Part(y)
        /\ x \in Int /\ y \in Int /\ y - shift <= size - 1
    BY <1>1, <1>2
  <2>2. ~(y - shift <= x - shift)
    BY <2>1, <1>6
  <2>3. (x - shift) % n # n - 1
    BY <2>1, <2>2, ChunkBounds DEF ChunkOf
  <2>. QED
    BY <2>1, <2>2, <2>3 DEF EndsChunk
<1>. HIDE DEF LastOf, first, M, C
<1>7. Leads(C, h, nx, on)
  BY <1>2, <1>3, <1>5 DEF Leads, M
<1>8. FirstIsLeast(C, h, nx, on, rank)
  BY <1>2, <1>3, <1>4 DEF FirstIsLeast, M
<1>9. Ascends(C, h, nx, on, rank)
  <2>. SUFFICES ASSUME NEW x \in M, nx[x] # h PROVE rank[x] < rank[nx[x]]
    BY DEF Ascends, M
  <2>1. nx[x] = x + 1 /\ x + 1 \in M
    BY <1>2, <1>5
  <2>. QED
    BY <2>1, <1>2
<1>10. NoneBetween(C, h, nx, on, rank)
  <2>. SUFFICES ASSUME NEW x \in M, NEW y \in M, rank[x] < rank[y] PROVE nx[x] # h /\ rank[nx[x]] <= rank[y]
    BY DEF NoneBetween, M
  <2>1. x < y /\ x \in Int /\ y \in Int
    BY <1>2
  <2>2. nx[x] = x + 1 /\ x + 1 \in M
    BY <2>1, <1>2, <1>5, <1>6
  <2>. QED
    BY <2>1, <2>2, <1>2
<1>11. RanksDiffer(C, h, on, rank)
  BY <1>2 DEF RanksDiffer, M
<1>. QED
  BY <1>7, <1>8, <1>9, <1>10, <1>11 DEF List, C
=============================================================================
