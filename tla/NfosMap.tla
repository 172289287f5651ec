------------------------------ MODULE NfosMap -------------------------------
(***************************************************************************)
(* The transactional hash map (src/src/map.c): open addressing with linear *)
(* probing.  Every cell counts in chns the keys that were put further on   *)
(* because they found this cell busy; get and erase stop at a cell whose   *)
(* count is 0.                                                             *)
(*                                                                         *)
(* A map is a function from 0..capacity-1 to cells.  MV-RLU, which is      *)
(* external, gives a committed transaction the effect of running alone, so *)
(* the operations are functions from maps to maps; one that returns        *)
(* ABORT_HANDLER takes its whole transaction back and changes no map.      *)
(***************************************************************************)
EXTENDS Integers, FiniteSetsExt, Once

CONSTANTS
  KHash,   \* khash: a function from keys to Nat
  NoKey    \* the key of a cell that is not busy, which nobody reads

ASSUME NfosMapAssumption ==
  /\ NoKey \notin DOMAIN KHash
  /\ \A k \in DOMAIN KHash : KHash[k] \in Nat

NoValue == -1
FreeCell == [busybits |-> 0, key |-> NoKey, vals |-> NoValue, chns |-> 0]

next_pow2(v) ==
  LET pow[i \in 0..v] == IF i = 0 THEN 1 ELSE 2 * pow[i - 1]
  IN  Min({p \in {pow[i] : i \in 0..v} : p >= v})

nfos_map_allocate(capacity) == [x \in 0..next_pow2(capacity) - 1 |-> FreeCell]

Capacity(m) == Cardinality(DOMAIN m)

(* The i-th cell that is probed for key k. *)
Probe(m, k, i) == (KHash[k] + i) % Capacity(m)

Holds(cell, k) == cell.busybits # 0 /\ cell.key = k
SameHash(cell, k) == cell.busybits # 0 /\ KHash[cell.key] = KHash[k]

EndOfChain(cell, k) == ~SameHash(cell, k) /\ cell.chns = 0

(* The number of cells that get and erase pass before they find key k, or  *)
(* the capacity when they meet the end of the chain first.  A busy cell    *)
(* with another key of the same hash is passed without a look at chns.     *)
Distance(m, k) ==
  With(Min({i \in 0..Capacity(m) - 1 : Holds(m[Probe(m, k, i)], k) \/ EndOfChain(m[Probe(m, k, i)], k)}
             \cup {Capacity(m)}),
       LAMBDA i : IF i < Capacity(m) /\ Holds(m[Probe(m, k, i)], k) THEN i ELSE Capacity(m))

nfos_map_get(m, k) ==
  With(Distance(m, k), LAMBDA i : IF i < Capacity(m) THEN m[Probe(m, k, i)].vals ELSE NoValue)

(* The cells passed on the way to the i-th one count one key more or less. *)
AddToChains(m, k, i, by) ==
  With({Probe(m, k, j) : j \in 0..i - 1}, LAMBDA passed :
    [x \in DOMAIN m |-> IF x \in passed THEN [m[x] EXCEPT !.chns = @ + by] ELSE m[x]])

(* The key takes the first cell that is not busy; a full map stays as it   *)
(* is.  Nobody checks whether the key is in the map already.               *)
nfos_map_put(m, k, value) ==
  With({i \in 0..Capacity(m) - 1 : m[Probe(m, k, i)].busybits = 0}, LAMBDA free :
    IF free = {} THEN m
    ELSE [AddToChains(m, k, Min(free), 1) EXCEPT ![Probe(m, k, Min(free))] =
            [@ EXCEPT !.busybits = 1, !.key = k, !.vals = value]])

Freed(cell) == [cell EXCEPT !.busybits = 0, !.key = NoKey, !.vals = NoValue]

(* Fault: the counts of the passed cells are left alone. *)
FaultEraseKeepsChains(m, k) ==
  With(Distance(m, k), LAMBDA i :
    IF i = Capacity(m) THEN m ELSE [m EXCEPT ![Probe(m, k, i)] = Freed(@)])

nfos_map_erase(m, k) ==
  With(Distance(m, k), LAMBDA i :
    IF i = Capacity(m) THEN m
    ELSE [AddToChains(m, k, i, -1) EXCEPT ![Probe(m, k, i)] = Freed(@)])
-----------------------------------------------------------------------------
Busy(m) == {x \in DOMAIN m : m[x].busybits # 0}

(* The search finds exactly the keys that are in the map, each of which is *)
(* there once, and every cell counts exactly the keys whose search passes  *)
(* it: a count too low hides a key for good, one too high makes every      *)
(* later miss scan the table.                                              *)
MapSound(m) ==
  /\ \A x, y \in Busy(m) : m[x].key = m[y].key => x = y
  /\ \A x \in Busy(m) :
       LET i == Distance(m, m[x].key) IN i < Capacity(m) /\ Probe(m, m[x].key, i) = x
  /\ \A x \in DOMAIN m :
       m[x].chns = Cardinality({y \in Busy(m) :
                      \E i \in 0..Distance(m, m[y].key) - 1 : Probe(m, m[y].key, i) = x})
=============================================================================
