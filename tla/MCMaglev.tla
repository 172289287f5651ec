------------------------------ MODULE MCMaglev ------------------------------
EXTENDS Maglev, TLC

CONSTANTS b1, b2, b3, b4, vip

(* Four backends compete for three places; a flow of the pool address. *)
BackendHash == b1 :> 3 @@ b2 :> 3 @@ b3 :> 0 @@ b4 :> 1

MCFlows == {1}
MCDstOf == [f \in MCFlows |-> vip]
MCFib == vip :> "LB" @@ b1 :> "DROP" @@ b2 :> "FORWARD" @@ b3 :> "DROP" @@ b4 :> "DROP"

(* The hash of the rewritten header has nothing to do with the original's. *)
MCPktHash ==
  [p \in MCFlows \X {vip, b1, b2, b3, b4} |->
     CASE p[2] = vip -> p[1] [] p[2] = b1 -> p[1] + 1 [] p[2] = b2 -> 0 [] OTHER -> 2]
=============================================================================
