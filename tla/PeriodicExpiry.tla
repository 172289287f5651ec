--------------------------- MODULE PeriodicExpiry ---------------------------
(***************************************************************************)
(* What the NFs with an expiring table have in common: the clock as their  *)
(* cores read it, and the pass of the periodic handler that is under way.  *)
(***************************************************************************)
EXTENDS ExpiringTable

CONSTANTS
  MaxTime,            \* bound on the clock
  MaxLag              \* the clock of a core is at most so much late

ASSUME PeriodicExpiryAssumption == MaxLag \in Nat

VARIABLES
  clock,             \* the time stamp counter
  exp_now,           \* time of the pass in progress, NoTime if there is none
  expiration_done    \* its flag

expiry == <<exp_now, expiration_done>>

NoTime == -1

(* get_curr_time of a data-plane core, which reads the clock once in a     *)
(* loop: the time is late by at most MaxLag.                               *)
CurrTimes == {t \in clock - MaxLag..clock : t >= 0}
=============================================================================
