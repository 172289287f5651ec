-------------------------- MODULE MCPktSetManager ---------------------------
EXTENDS PktSetManager, TLC

CONSTANTS k1, k2, k3, k4, r1, r2, r3, r4

(* Two ids that collide. *)
Keys2 == {k1, k2}
Hash2 == [k \in Keys2 |-> 1]
Unrelated2 == [k \in Keys2 |-> NoKey]

(* Four pairs of related ids for three indexes; both ids of the second and *)
(* the fourth pair and the first of the third are in the bucket of k1.     *)
KeysPairs == {k1, k2, k3, k4, r1, r2, r3, r4}
HashPairs == k1 :> 0 @@ r1 :> 1 @@ k2 :> 2 @@ r2 :> 0 @@ k3 :> 4 @@ r3 :> 3 @@ k4 :> 0 @@ r4 :> 2
Pairs ==
  k1 :> r1 @@ k2 :> r2 @@ k3 :> r3 @@ k4 :> r4 @@ r1 :> NoKey @@ r2 :> NoKey @@ r3 :> NoKey @@ r4 :> NoKey
=============================================================================
