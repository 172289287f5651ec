-------------------------------- MODULE Cht ---------------------------------
(***************************************************************************)
(* The consistent hash table (src/src/cht.c): for every bucket, that is    *)
(* for every hash modulo cht_height, a list of all backends by priority.   *)
(***************************************************************************)
EXTENDS Integers, FiniteSets, Once

CONSTANTS
  cht_height,
  backend_capacity

(* The steps of a backend through the buckets are multiples of a shift     *)
(* below cht_height; they reach every bucket because the height is prime,  *)
(* as CHT_HEIGHT 97 is.                                                    *)
ASSUME ChtAssumption ==
  /\ cht_height \in Nat /\ cht_height > 2
  /\ \A n \in 2..cht_height - 1 : cht_height % n # 0
  /\ backend_capacity \in Nat \ {0}

Buckets == 0..cht_height - 1
Candidates == 0..backend_capacity - 1

(* The i-th bucket that backend j enters.                                  *)
Permutation(j, i) == (((31 * j) % cht_height) + ((j % (cht_height - 1)) + 1) * i) % cht_height

(* One step of the filling: backend j enters its i-th bucket with the next *)
(* priority of that bucket.                                                *)
Enter(s, i, j) ==
  LET bucket_id == Permutation(j, i)
  IN  [next |-> [s.next EXCEPT ![bucket_id] = @ + 1],
       cht |-> [s.cht EXCEPT ![backend_capacity * bucket_id + s.next[bucket_id]] = j]]

nfos_cht_fill_cht ==
  LET steps == cht_height * backend_capacity
      after[n \in 0..steps] ==
        IF n = 0 THEN [next |-> [b \in Buckets |-> 0], cht |-> [x \in 0..steps - 1 |-> 0]]
        ELSE With(after[n - 1], LAMBDA s :
               Enter(s, (n - 1) \div backend_capacity, (n - 1) % backend_capacity))
  IN  after[steps].cht

NotFound == -1

(* The first active backend on the list of the hash, NotFound if there is  *)
(* none.                                                                   *)
(* Faults: the last candidate is not tried; ...                            *)
FaultFindSkipsLast(cht, hash, active) ==
  LET start == (hash % cht_height) * backend_capacity
      found == {i \in Candidates : i + 1 < backend_capacity /\ cht[start + i] \in active}
  IN  IF found = {} THEN NotFound
      ELSE cht[start + (CHOOSE i \in found : \A k \in found : i <= k)]

(* ... a hash picks among the active backends by their number.          *)
FaultFindModuloActive(cht, hash, active) ==
  LET start == (hash % cht_height) * backend_capacity
      found == {i \in Candidates : cht[start + i] \in active}
  IN  IF found = {} THEN NotFound
      ELSE cht[start + (CHOOSE i \in found :
             Cardinality({k \in found : k < i}) = hash % Cardinality(found))]

nfos_cht_find_preferred_available_backend(cht, hash, active) ==
  LET start == (hash % cht_height) * backend_capacity
      found == {i \in Candidates : cht[start + i] \in active}
  IN  IF found = {} THEN NotFound
      ELSE cht[start + (CHOOSE i \in found : \A k \in found : i <= k)]
=============================================================================
