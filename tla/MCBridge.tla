------------------------------ MODULE MCBridge ------------------------------
EXTENDS Bridge, TLC

CONSTANTS m1, m2, m3

(* Three stations for two table entries; two of them start probing at the  *)
(* second of the two cells, so that probing wraps around.                  *)
MacHash == m1 :> 1 @@ m2 :> 1 @@ m3 :> 0

(* Two stations talk to each other, a third one to the first of them. *)
MCFrames == {<<m1, m2, 0>>, <<m2, m1, 1>>, <<m3, m1, 1>>}
=============================================================================
