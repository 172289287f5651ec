-------------------------------- MODULE Once --------------------------------
(* F(x), written so that TLC evaluates x once however often F uses it; the *)
(* operations on the data structures are compositions of such steps.       *)
With(x, F(_)) == CHOOSE y \in {F(v) : v \in {x}} : TRUE
=============================================================================
