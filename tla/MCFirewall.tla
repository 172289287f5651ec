----------------------------- MODULE MCFirewall -----------------------------
EXTENDS Firewall

(* Prefixes that share plies on every level, and prefixes beside them; the *)
(* table of the WAN device takes plies from the pool in between.           *)
MCPrefixes ==
  ({0} \X {0} \X {0, 1, 2, 3, 5}) \cup {<<0, 1, 5>>, <<0, 4, 3>>, <<0, 6, 4>>}
    \cup ({1} \X {0} \X {0, 5})
MCTcp == {<<0, 5>>, <<5, 0>>}
=============================================================================
