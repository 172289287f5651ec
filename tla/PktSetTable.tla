---------------------------- MODULE PktSetTable -----------------------------
(***************************************************************************)
(* What the packet-set manager promises each core: a table from packet-set *)
(* ids to the state that was registered for them.  A set is registered     *)
(* together with its related set, if it has one, only while neither is in  *)
(* the table, and both leave the table together.                           *)
(***************************************************************************)
CONSTANTS Cores, Keys, NoKey, Related

VARIABLE table   \* the <<core, id, state>> that lookups find

Init == table = {}

Sharing(k) == {k} \cup ({Related[k]} \ {NoKey})

Found(t, c, j) == \E e \in t : e[1] = c /\ e[2] = j

(* Steps as relations between the table before and after them. *)
Register(before, after, c, k) ==
  /\ \A j \in Sharing(k) : ~Found(before, c, j)
  /\ after = before \cup {<<c, j, k>> : j \in Sharing(k)}

Expire(before, after, c, k) ==
  /\ <<c, k, k>> \in before
  /\ after = {e \in before : e[1] # c \/ e[3] # k}

Next ==
  \E before \in {table}, after \in {table'} :
    \E c \in Cores, k \in Keys : Register(before, after, c, k) \/ Expire(before, after, c, k)

Spec == Init /\ [][Next]_table
=============================================================================
