--------------------------- MODULE PktSetLastUse ----------------------------
(***************************************************************************)
(* The packet-set manager with a history variable: when the set of each    *)
(* index was last used, by the packet that registered it or by a lookup.   *)
(***************************************************************************)
EXTENDS PktSetManager

VARIABLE lastUse   \* per index

InitUse == Init /\ lastUse = [i \in Indexes |-> 0]

Use(c, i) == lastUse' = [lastUse EXCEPT ![i] = now[c]]

NextUse ==
  \E c \in Cores :
    \/ UseNoSet(c) /\ UNCHANGED lastUse
    \/ \E k \in Keys : LookupHit(c, k) /\ Use(c, IndexOf(MapGet(map, k, c)))
    \/ CommitPut(c) /\ Use(c, cell[c] - INDEX_SHIFT)

SpecUse == InitUse /\ [][NextUse]_<<vars, lastUse>>

(* A set that is about to expire was not used for the validity duration:   *)
(* a lookup keeps its index from expiration, as the description of         *)
(* concurrent_dchain_rejuvenate_index says.  The code does not renew the   *)
(* timestamp of the only index of an alloc list.                           *)
UsedSetsStay ==
  \A c \in Cores : pc[c] = "expired_handler" => lastUse[Oldest(c)] < now[c] - Validity
=============================================================================
