--------------------------- MODULE IndexAllocator ---------------------------
(***************************************************************************)
(* What the packet-set index allocator promises its cores: an index has at *)
(* most one owner, an allocation yields an index that nobody owned, and it *)
(* fails only when every index is owned.                                   *)
(***************************************************************************)
CONSTANTS Cores, Indexes, Nobody

VARIABLES
  owner,    \* owner[i]: the core that holds index i, or Nobody
  result    \* result[c]: whether the last allocation of core c succeeded

vars == <<owner, result>>

Init ==
  /\ owner = [i \in Indexes |-> Nobody]
  /\ result = [c \in Cores |-> TRUE]

Take(c) ==
  \E i \in Indexes :
    /\ owner[i] = Nobody
    /\ owner' = [owner EXCEPT ![i] = c]
    /\ result' = [result EXCEPT ![c] = TRUE]

Full(c) ==
  /\ \A i \in Indexes : owner[i] # Nobody
  /\ result' = [result EXCEPT ![c] = FALSE]
  /\ UNCHANGED owner

Give(c) ==
  \E i \in Indexes :
    /\ owner[i] = c
    /\ owner' = [owner EXCEPT ![i] = Nobody]
    /\ UNCHANGED result

Next == \E c \in Cores : Take(c) \/ Full(c) \/ Give(c)

Spec == Init /\ [][Next]_vars
=============================================================================
