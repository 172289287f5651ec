-------------------------- MODULE NfosDoubleChain ---------------------------
(***************************************************************************)
(* The transactional index allocator (src/src/double-chain-impl.c and      *)
(* double-chain.c): per-core lists of allocated cells, per-core free lists *)
(* and a global free list, threaded through one array of cells as in the   *)
(* packet-set allocator, but protected by MV-RLU instead of locks.  The    *)
(* operations are functions from chains [next, prev, list_ind] to chains;  *)
(* a chain with more fields keeps them.  LIST_HEAD_PADDING is 0 here.      *)
(***************************************************************************)
EXTENDS Integers, FiniteSets, SequencesExt, Once

CONSTANTS
  NumCores,   \* number of data-plane cores, rte_lcore_count() - 1
  Size        \* index_range

(* The indexes are shared out evenly: what a division of index_range by    *)
(* num_cores leaves over would be on no list.                              *)
ASSUME DoubleChainAssumption ==
  /\ NumCores \in Nat \ {0}
  /\ Size \in Nat \ {0}
  /\ Size % NumCores = 0

Cores == 0..NumCores - 1
Indexes == 0..Size - 1
NoIndex == -1

ALLOC_LIST_HEAD(c) == c
FREE_LIST_HEAD(c) == NumCores + c
GLOBAL_FREE_LIST_HEAD == 2 * NumCores
INDEX_SHIFT == GLOBAL_FREE_LIST_HEAD + 1
Cells == 0..INDEX_SHIFT + Size - 1

(* nfos_dchain_impl_init *)
InitLink(x) ==
  LET chunk == Size \div NumCores
      i == x - INDEX_SHIFT
  IN  IF x < NumCores \/ x = GLOBAL_FREE_LIST_HEAD THEN x
      ELSE IF x < GLOBAL_FREE_LIST_HEAD THEN INDEX_SHIFT + chunk * (x - NumCores)
      ELSE IF i % chunk = chunk - 1 THEN FREE_LIST_HEAD(i \div chunk) ELSE x + 1

nfos_dchain_allocate ==
  [next |-> [x \in Cells |-> InitLink(x)],
   prev |-> [x \in Cells |-> InitLink(x)],
   list_ind |-> [x \in Cells |-> IF x < GLOBAL_FREE_LIST_HEAD THEN x % NumCores ELSE -1]]

(* Free lists are singly linked: prev repeats next. *)
PointTo(d, x, y) == [d EXCEPT !.next[x] = y, !.prev[x] = y]

Push(d, head, x) ==
  [d EXCEPT !.next = [@ EXCEPT ![x] = d.next[head], ![head] = x],
            !.prev = [@ EXCEPT ![x] = d.next[head], ![head] = x]]
Pop(d, head) == PointTo(d, head, d.next[d.next[head]])
IsEmpty(d, head) == d.next[head] = head

(* One index of every per-core free list goes to the global list. *)
Migrate(d, c) ==
  LET head == FREE_LIST_HEAD(c)
  IN  IF IsEmpty(d, head) THEN d
      ELSE With(Pop(d, head), LAMBDA p :
             [Push(p, GLOBAL_FREE_LIST_HEAD, d.next[head]) EXCEPT !.list_ind[d.next[head]] = -1])

Refill(d) ==
  LET after[n \in 0..NumCores] ==
        IF n = 0 THEN d ELSE With(after[n - 1], LAMBDA s : Migrate(s, n - 1))
  IN  after[NumCores]

(* The chain with an index at the front of the list it is to be allocated  *)
(* from, and that list; the list is empty when no core has a free index.   *)
Supply(d, c) ==
  IF ~IsEmpty(d, FREE_LIST_HEAD(c)) THEN [chain |-> d, head |-> FREE_LIST_HEAD(c)]
  ELSE [chain |-> IF IsEmpty(d, GLOBAL_FREE_LIST_HEAD) THEN Refill(d) ELSE d,
        head |-> GLOBAL_FREE_LIST_HEAD]

(* To the recently allocated end of the list of core c. *)
AppendTo(d, c, x) ==
  LET head == ALLOC_LIST_HEAD(c) last == d.prev[head]
  IN  [d EXCEPT !.next = [@ EXCEPT ![x] = head, ![last] = x],
                !.prev = [@ EXCEPT ![x] = last, ![head] = x],
                !.list_ind[x] = c]

(* The index is NoIndex, and the chain unchanged, when it returns 0: the   *)
(* migrating loop has found nothing to migrate then.                       *)
nfos_dchain_allocate_new_index(d, c) ==
  With(Supply(d, c), LAMBDA s :
    LET x == s.chain.next[s.head]
    IN  IF x = s.head THEN [index |-> NoIndex, chain |-> d]
        ELSE [index |-> x - INDEX_SHIFT,
              chain |-> With(Pop(s.chain, s.head), LAMBDA p : AppendTo(p, c, x))])

(* Off the list it is on; with a single cell on it, both assignments hit   *)
(* the head.                                                               *)
Unlink(d, x) == [d EXCEPT !.next[d.prev[x]] = d.next[x], !.prev[d.next[x]] = d.prev[x]]
-----------------------------------------------------------------------------
(* The cells of a list in order; longer than Size if it does not lead back *)
(* to its head.                                                            *)
ListOf(d, head) ==
  LET at[n \in 0..Size] ==
        IF n = 0 THEN d.next[head]
        ELSE LET x == at[n - 1] IN IF x = head THEN head ELSE d.next[x]
  IN  [n \in 1..Cardinality({m \in 0..Size : at[m] # head}) |-> at[n - 1]]

IsAllocated(d, i) == d.list_ind[i + INDEX_SHIFT] # -1

(* Every index is on exactly one list, once; the allocated lists are       *)
(* linked in both directions and hold exactly the indexes that list_ind    *)
(* says are allocated.                                                     *)
ChainSound(d) ==
  LET lists == [h \in 0..GLOBAL_FREE_LIST_HEAD |-> ListOf(d, h)] IN
  /\ \A x \in INDEX_SHIFT..INDEX_SHIFT + Size - 1 :
       Cardinality({p \in (DOMAIN lists) \X (1..Size + 1) :
                      p[2] \in DOMAIN lists[p[1]] /\ lists[p[1]][p[2]] = x}) = 1
  /\ \A c \in Cores :
       LET L == lists[ALLOC_LIST_HEAD(c)] IN
       /\ \A n \in DOMAIN L : d.list_ind[L[n]] = c /\ d.prev[d.next[L[n]]] = L[n]
       /\ d.prev[d.next[c]] = c
       /\ \A i \in Indexes : d.list_ind[i + INDEX_SHIFT] = c => i + INDEX_SHIFT \in ToSet(L)
=============================================================================
