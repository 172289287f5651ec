------------------------------ MODULE MacTable ------------------------------
(***************************************************************************)
(* What the learning bridge promises.  A frame goes to the device behind   *)
(* which its destination was learned, or everywhere; a station is learned  *)
(* from the first frame it sends; a frame is lost only when its source is  *)
(* new and the table is full.                                              *)
(*                                                                         *)
(* An entry is renewed by a frame of its station, but only if the latest   *)
(* renewal is more than RefreshInterval ago.  Passes start from time to    *)
(* time.  One that succeeds forgets the stations whose entries were        *)
(* renewed more than ExpirationTime before it started, up to the lag of    *)
(* the clocks, and no others; one that fails forgets nobody.  A station    *)
(* that is forgotten has been quiet for more than ExpirationTime -         *)
(* RefreshInterval.                                                        *)
(***************************************************************************)
EXTENDS Integers, FiniteSets

CONSTANTS
  Macs,
  Frames,           \* <<source, destination, device it came from>>
  Unlearned, Flood, Drop, NoPass,
  Room,             \* number of stations that the table has room for
  ExpirationTime, RefreshInterval, MaxLag

VARIABLES
  table,      \* table[m]: the device m is behind, or Unlearned
  renewed,    \* of a learned station: when its entry was learned or renewed
  last_seen,  \* of a learned station: the time of its latest frame
  clock,
  pass,       \* the start of the pass in progress, NoPass if there is none
  failed,     \* whether it has failed
  sent        \* the latest frame and where it went, <<>> before the first one

vars == <<table, renewed, last_seen, clock, pass, failed, sent>>

Init ==
  /\ table = [m \in Macs |-> Unlearned]
  /\ renewed = [m \in Macs |-> 0]
  /\ last_seen = [m \in Macs |-> 0]
  /\ clock = 0
  /\ pass = NoPass /\ failed = FALSE
  /\ sent = <<>>

Known(t) == {m \in Macs : t[m] # Unlearned}
Fate(t, dst) == IF t[dst] = Unlearned THEN Flood ELSE t[dst]
Later(s, t) == IF s > t THEN s ELSE t

(* A frame from a station that is new.  The core that handles the frame    *)
(* may see the clock late by at most MaxLag.                               *)
Learn(f, now) ==
  \E before \in {table}, after \in {[table EXCEPT ![f[1]] = f[3]]} :
  /\ sent' = <<f, Fate(after, f[2])>>
  /\ last_seen' = [last_seen EXCEPT ![f[1]] = now]
  /\ before[f[1]] = Unlearned /\ Cardinality(Known(before)) < Room
  /\ table' = after
  /\ renewed' = [renewed EXCEPT ![f[1]] = now]
  /\ UNCHANGED <<clock, pass, failed>>

(* A frame from a station that is known, and stays behind its device. *)
Renew(f, now) ==
  \E before \in {table}, times \in {renewed} :
  /\ sent' = <<f, Fate(before, f[2])>>
  /\ last_seen' = [last_seen EXCEPT ![f[1]] = Later(@, now)]
  /\ before[f[1]] # Unlearned
  /\ table' = before
  /\ renewed' = IF now > times[f[1]] + RefreshInterval THEN [times EXCEPT ![f[1]] = now] ELSE times
  /\ UNCHANGED <<clock, pass, failed>>

(* A frame from a station that there is no room for. *)
NoRoom(f) ==
  /\ sent' = <<f, Drop>>
  /\ table[f[1]] = Unlearned /\ Cardinality(Known(table)) = Room
  /\ UNCHANGED <<table, renewed, last_seen, clock, pass, failed>>
-----------------------------------------------------------------------------
Start ==
  /\ pass = NoPass
  /\ pass' = clock /\ failed' = FALSE
  /\ UNCHANGED <<table, renewed, last_seen, clock, sent>>

Forget ==
  \E before \in {table}, times \in {renewed}, after \in {table'} :
  LET S == Known(before) \ Known(after) IN
  /\ pass # NoPass /\ ~failed
  /\ pass' = NoPass
  /\ \A m \in S : times[m] + ExpirationTime < pass /\ last_seen[m] + ExpirationTime - RefreshInterval < pass
  /\ \A m \in Known(after) : times[m] + ExpirationTime + MaxLag >= pass
  /\ after = [m \in Macs |-> IF m \in S THEN Unlearned ELSE before[m]]
  /\ renewed' = [m \in Macs |-> IF m \in S THEN 0 ELSE times[m]]
  /\ last_seen' = [m \in Macs |-> IF m \in S THEN 0 ELSE last_seen[m]]
  /\ UNCHANGED <<clock, failed, sent>>

Fail ==
  /\ pass # NoPass
  /\ failed' = TRUE
  /\ UNCHANGED <<table, renewed, last_seen, clock, pass, sent>>

GiveUp ==
  /\ pass # NoPass /\ failed
  /\ pass' = NoPass /\ failed' = FALSE
  /\ UNCHANGED <<table, renewed, last_seen, clock, sent>>

Advance == clock' = clock + 1 /\ UNCHANGED <<table, renewed, last_seen, pass, failed, sent>>

Next ==
  \/ Advance
  \/ Start \/ Forget \/ Fail \/ GiveUp
  \/ \E f \in Frames : NoRoom(f) \/ \E now \in clock - MaxLag..clock : Learn(f, now) \/ Renew(f, now)

Spec == Init /\ [][Next]_vars
=============================================================================
