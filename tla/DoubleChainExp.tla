--------------------------- MODULE DoubleChainExp ---------------------------
(***************************************************************************)
(* The expiring transactional index allocator                              *)
(* (src/src/double-chain-exp.c): the chain of NfosDoubleChain, whose code  *)
(* it repeats, with the time at which each allocated cell is to be freed.  *)
(***************************************************************************)
EXTENDS NfosDoubleChain

CONSTANTS
  validity_duration,
  INT64_MAX            \* a time later than all others

ASSUME DoubleChainExpAssumption == validity_duration \in Nat /\ INT64_MAX \in Nat

(* A heap has a chain and the time of every cell of it. *)
nfos_dchain_exp_allocate == [chain |-> nfos_dchain_allocate, time |-> [x \in Cells |-> INT64_MAX]]

nfos_dchain_exp_allocate_new_index(d, c, time) ==
  With(nfos_dchain_allocate_new_index(d.chain, c), LAMBDA a :
    [index |-> a.index,
     heap |-> IF a.index = NoIndex THEN d
              ELSE [chain |-> a.chain,
                    time |-> [d.time EXCEPT ![a.index + INDEX_SHIFT] = time + validity_duration]]])

(* To the end of the list it is on, whichever core asks for it.            *)
(* Fault: only the time is renewed.                                        *)
FaultRejuvenateInPlace(d, i, time) ==
  IF d.chain.list_ind[i + INDEX_SHIFT] = -1 THEN d
  ELSE [d EXCEPT !.time[i + INDEX_SHIFT] = time + validity_duration]

nfos_dchain_exp_rejuvenate_index(d, i, time) ==
  LET x == i + INDEX_SHIFT
      c == d.chain.list_ind[x]
  IN  IF c = -1 THEN d
      ELSE [chain |-> IF d.chain.next[x] = ALLOC_LIST_HEAD(c) THEN d.chain
                      ELSE With(Unlink(d.chain, x), LAMBDA u : AppendTo(u, c, x)),
            time |-> [d.time EXCEPT ![x] = time + validity_duration]]

nfos_dchain_exp_is_index_allocated(d, i) == IsAllocated(d.chain, i)

(* The oldest index of the list of core c goes to its free list. *)
ExpireOldest(d, c) ==
  LET x == d.chain.next[ALLOC_LIST_HEAD(c)]
  IN  [chain |-> With(Unlink(d.chain, x), LAMBDA u :
                   [Push(u, FREE_LIST_HEAD(c), x) EXCEPT !.list_ind[x] = -1]),
       time |-> [d.time EXCEPT ![x] = INT64_MAX]]

(* The list of core curr_free_list loses its oldest index if that is       *)
(* overdue; otherwise the next list is looked at next time, and after the  *)
(* last one expiration_done is set.                                        *)
(* Fault: the remaining lists are not looked at.                           *)
FaultExpireOneList(d, curr_free_list, time) ==
  LET head == ALLOC_LIST_HEAD(curr_free_list)
      x == d.chain.next[head]
  IN  IF x = head \/ d.time[x] >= time
        THEN [index |-> NoIndex, heap |-> d, curr_free_list |-> 0, expiration_done |-> TRUE]
        ELSE [index |-> x - INDEX_SHIFT, heap |-> ExpireOldest(d, curr_free_list),
              curr_free_list |-> curr_free_list, expiration_done |-> FALSE]

nfos_dchain_exp_expire_one_index(d, curr_free_list, time) ==
  LET head == ALLOC_LIST_HEAD(curr_free_list)
      x == d.chain.next[head]
  IN  IF x = head \/ d.time[x] >= time
        THEN [index |-> NoIndex, heap |-> d,
              curr_free_list |-> (curr_free_list + 1) % NumCores,
              expiration_done |-> curr_free_list + 1 >= NumCores]
        ELSE [index |-> x - INDEX_SHIFT, heap |-> ExpireOldest(d, curr_free_list),
              curr_free_list |-> curr_free_list, expiration_done |-> FALSE]
=============================================================================
