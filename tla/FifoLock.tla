------------------------------ MODULE FifoLock ------------------------------
(***************************************************************************)
(* What a queue lock promises: threads are granted the lock one at a time, *)
(* in the order in which they joined the queue.                            *)
(***************************************************************************)
EXTENDS Sequences

CONSTANT Threads

VARIABLES
  queue,    \* threads that asked for the lock, in order; the head may own it
  holders   \* threads that returned from lock() and have not yet unlocked

vars == <<queue, holders>>

Queued(t) == \E i \in DOMAIN queue : queue[i] = t

Init == queue = <<>> /\ holders = {}

Join(t) ==
  /\ ~Queued(t)
  /\ queue' = Append(queue, t)
  /\ holders' \in {holders, IF queue = <<>> THEN {t} ELSE holders}

Enter(t) ==
  /\ queue # <<>> /\ Head(queue) = t
  /\ t \notin holders
  /\ holders' = holders \cup {t}
  /\ UNCHANGED queue

Leave(t) ==
  /\ queue # <<>> /\ Head(queue) = t
  /\ t \in holders
  /\ holders' = holders \ {t}
  /\ queue' = Tail(queue)

Next == \E t \in Threads : Join(t) \/ Enter(t) \/ Leave(t)

Spec == Init /\ [][Next]_vars
=============================================================================
