--------------------------- MODULE ExpiringTable ----------------------------
(***************************************************************************)
(* How the NFs use an expiring allocator, a map and a vector of keys as    *)
(* one table: the map takes a key to an index, the vector the index back   *)
(* to the key, and a periodic handler on a core of its own removes what is *)
(* overdue in one long transaction.                                        *)
(***************************************************************************)
EXTENDS DoubleChainExp, NfosMap

(* src/src/vector.c: a vector is a function; borrow is an application and  *)
(* borrow_mut, followed by the assignment to the element, is this.         *)
nfos_vector_allocate(capacity, init_elem) == [i \in 0..capacity - 1 |-> init_elem]
BorrowMut(vector, index, elem) == [vector EXCEPT ![index] = elem]

(* The loop of the periodic handler, from reset_curr_free_list on: expire  *)
(* one index and erase its key until expiration_done, which each call      *)
(* either sets, or moves on to the next list, or frees an index.           *)
ExpireStep(s, keys, now) ==
  IF s.expiration_done THEN s
  ELSE With(nfos_dchain_exp_expire_one_index(s.heap, s.curr_free_list, now), LAMBDA e :
         [heap |-> e.heap,
          map |-> IF e.index = NoIndex THEN s.map ELSE nfos_map_erase(s.map, keys[e.index]),
          curr_free_list |-> e.curr_free_list,
          expiration_done |-> e.expiration_done])

ExpireAll(heap, map, keys, now) ==
  LET after[n \in 0..Size + NumCores] ==
        IF n = 0
          THEN [heap |-> heap, map |-> map, curr_free_list |-> 0, expiration_done |-> FALSE]
          ELSE With(after[n - 1], LAMBDA s : ExpireStep(s, keys, now))
  IN  after[Size + NumCores]
-----------------------------------------------------------------------------
(* The map leads from exactly the keys of the allocated indexes to them.   *)
TableSound(heap, map, keys) ==
  /\ ChainSound(heap.chain)
  /\ MapSound(map)
  /\ \A x \in Busy(map) :
       LET i == map[x].vals IN i \in Indexes /\ nfos_dchain_exp_is_index_allocated(heap, i) /\ keys[i] = map[x].key
  /\ Cardinality(Busy(map)) = Cardinality({i \in Indexes : nfos_dchain_exp_is_index_allocated(heap, i)})
=============================================================================
