------------------------------ MODULE McsLock -------------------------------
(***************************************************************************)
(* The MCS queue lock of src/src/include/lock.h: one lock word and one     *)
(* queue node per thread that uses it.  One action per access to shared    *)
(* memory; x86's total store order, the locked swap and compare-and-swap   *)
(* and the "memory" clobbers make interleaving semantics exact.  A queue   *)
(* node lives on the stack of the caller, so a thread reuses its own.      *)
(***************************************************************************)
EXTENDS Sequences, Integers

CONSTANTS Threads, NULL

ASSUME NullAssumption == NULL \notin Threads

VARIABLES
  qnode,    \* lock->qnode: the thread whose node is last in the queue
  locked,   \* per node: set by the predecessor to pass the lock on
  next,     \* per node: the successor's node, once it has linked itself
  prev,     \* local variable of mcslock_lock
  pc,       \* where each thread is in mcslock_lock / mcslock_unlock
  queue     \* history variable: the order of the swaps still to be released

vars == <<qnode, locked, next, prev, pc, queue>>

Nodes == Threads \cup {NULL}

Critical == {"cs", "cas", "waitnext", "grant"}

Init ==
  /\ qnode = NULL
  /\ locked = [t \in Threads |-> FALSE]
  /\ next = [t \in Threads |-> NULL]
  /\ prev = [t \in Threads |-> NULL]
  /\ pc = [t \in Threads |-> "idle"]
  /\ queue = <<>>

-----------------------------------------------------------------------------
(* Plausible faults, each a variant of one action below; the runs are      *)
(* repeated with them to show that the properties notice.                  *)
FaultLockInitKeepsNext(t) ==
  /\ pc[t] = "idle"
  /\ locked' = [locked EXCEPT ![t] = FALSE]
  /\ pc' = [pc EXCEPT ![t] = "swap"]
  /\ UNCHANGED <<qnode, next, prev, queue>>

FaultLockInitKeepsLocked(t) ==
  /\ pc[t] = "idle"
  /\ next' = [next EXCEPT ![t] = NULL]
  /\ pc' = [pc EXCEPT ![t] = "swap"]
  /\ UNCHANGED <<qnode, locked, prev, queue>>

FaultUnlockStoresBlindly(t) ==
  /\ pc[t] = "cas"
  /\ qnode' = NULL
  /\ queue' = Tail(queue)
  /\ pc' = [pc EXCEPT ![t] = "idle"]
  /\ UNCHANGED <<locked, next, prev>>

FaultUnlockDoesNotWait(t) ==
  /\ pc[t] = "cas"
  /\ qnode' = IF qnode = t THEN NULL ELSE qnode
  /\ queue' = Tail(queue)
  /\ pc' = [pc EXCEPT ![t] = "idle"]
  /\ UNCHANGED <<locked, next, prev>>
-----------------------------------------------------------------------------
(* mcslock_lock *)
LockInit(t) ==
  /\ pc[t] = "idle"
  /\ locked' = [locked EXCEPT ![t] = FALSE]
  /\ next' = [next EXCEPT ![t] = NULL]
  /\ pc' = [pc EXCEPT ![t] = "swap"]
  /\ UNCHANGED <<qnode, prev, queue>>

LockSwap(t) ==
  /\ pc[t] = "swap"
  /\ prev' = [prev EXCEPT ![t] = qnode]
  /\ qnode' = t
  /\ queue' = Append(queue, t)
  /\ pc' = [pc EXCEPT ![t] = IF qnode = NULL THEN "cs" ELSE "link"]
  /\ UNCHANGED <<locked, next>>

LockLink(t) ==
  /\ pc[t] = "link"
  /\ next' = [next EXCEPT ![prev[t]] = t]
  /\ pc' = [pc EXCEPT ![t] = "spin"]
  /\ UNCHANGED <<qnode, locked, prev, queue>>

LockSpin(t) ==
  /\ pc[t] = "spin"
  /\ locked[t]
  /\ pc' = [pc EXCEPT ![t] = "cs"]
  /\ UNCHANGED <<qnode, locked, next, prev, queue>>

(* mcslock_unlock *)
UnlockTest(t) ==
  /\ pc[t] = "cs"
  /\ pc' = [pc EXCEPT ![t] = IF next[t] = NULL THEN "cas" ELSE "grant"]
  /\ UNCHANGED <<qnode, locked, next, prev, queue>>

UnlockCas(t) ==
  /\ pc[t] = "cas"
  /\ IF qnode = t
       THEN /\ qnode' = NULL
            /\ queue' = Tail(queue)
            /\ pc' = [pc EXCEPT ![t] = "idle"]
       ELSE /\ pc' = [pc EXCEPT ![t] = "waitnext"]
            /\ UNCHANGED <<qnode, queue>>
  /\ UNCHANGED <<locked, next, prev>>

UnlockWaitNext(t) ==
  /\ pc[t] = "waitnext"
  /\ next[t] # NULL
  /\ pc' = [pc EXCEPT ![t] = "grant"]
  /\ UNCHANGED <<qnode, locked, next, prev, queue>>

UnlockGrant(t) ==
  /\ pc[t] = "grant"
  /\ locked' = [locked EXCEPT ![next[t]] = TRUE]
  /\ queue' = Tail(queue)
  /\ pc' = [pc EXCEPT ![t] = "idle"]
  /\ UNCHANGED <<qnode, next, prev>>

Lock(t) == LockInit(t) \/ LockSwap(t) \/ LockLink(t) \/ LockSpin(t)
Unlock(t) == UnlockTest(t) \/ UnlockCas(t) \/ UnlockWaitNext(t) \/ UnlockGrant(t)

Next == \E t \in Threads : Lock(t) \/ Unlock(t)

Spec == Init /\ [][Next]_vars

(* Every data-plane thread is pinned to an lcore of its own and a critical *)
(* section is straight-line code, so a thread that can take a step does.   *)
(* Asking for the lock in the first place stays optional.                  *)
Fairness ==
  \A t \in Threads : /\ WF_vars(LockSwap(t) \/ LockLink(t) \/ LockSpin(t))
                     /\ WF_vars(Unlock(t))

FairSpec == Spec /\ Fairness
-----------------------------------------------------------------------------
TypeOK ==
  /\ qnode \in Nodes
  /\ locked \in [Threads -> BOOLEAN]
  /\ next \in [Threads -> Nodes]
  /\ prev \in [Threads -> Nodes]
  /\ pc \in [Threads -> {"idle", "swap", "link", "spin"} \cup Critical]
  /\ queue \in Seq(Threads)

(* The queue behind the lock word.  The history variable lists the threads *)
(* between their swap and their release without repetition, lock->qnode is *)
(* the last of them, the first and only the first owns the lock or has     *)
(* been granted it, every other knows its predecessor and is linked from   *)
(* it once it spins, and a releaser that found a successor keeps it.       *)
Active(t) == pc[t] \notin {"idle", "swap"}

QueueOK ==
  /\ \A i, j \in 1..Len(queue) : queue[i] = queue[j] => i = j
  /\ \A i \in 1..Len(queue) : Active(queue[i])
  /\ \A t \in Threads : Active(t) => \E i \in 1..Len(queue) : queue[i] = t
  /\ qnode = IF Len(queue) = 0 THEN NULL ELSE queue[Len(queue)]

OwnerOK ==
  \A i \in 1..Len(queue) :
    /\ i = 1 => pc[queue[i]] \in Critical \/ (pc[queue[i]] = "spin" /\ locked[queue[i]])
    /\ i > 1 => pc[queue[i]] \in {"link", "spin"} /\ ~locked[queue[i]]

LinkOK ==
  /\ \A i \in 1..Len(queue) :
       /\ i > 1 => prev[queue[i]] = queue[i - 1]
       /\ i < Len(queue) /\ pc[queue[i + 1]] = "spin" => next[queue[i]] = queue[i + 1]
       /\ next[queue[i]] # NULL => i < Len(queue) /\ pc[queue[i + 1]] = "spin"
       /\ pc[queue[i]] = "waitnext" => i < Len(queue)
       /\ pc[queue[i]] = "grant" => next[queue[i]] # NULL
  /\ \A t \in Threads : pc[t] = "swap" => next[t] = NULL /\ ~locked[t]

QueueInvariant == TypeOK /\ QueueOK /\ OwnerOK /\ LinkOK

(* No two threads are between the return of mcslock_lock and the end of    *)
(* mcslock_unlock, however their swaps, links and grants interleave.       *)
MutualExclusion ==
  \A t, u \in Threads : pc[t] \in Critical /\ pc[u] \in Critical => t = u

(* The grant of mcslock_unlock always goes to a node that is still         *)
(* spinning on it: never to NULL, to a node already granted, or to a node  *)
(* whose stack frame has been reused.                                      *)
GrantReachesWaiter ==
  \A t \in Threads : pc[t] = "grant" =>
    /\ next[t] \in Threads
    /\ pc[next[t]] = "spin"
    /\ ~locked[next[t]]

(* The lock is a first-come first-served lock. *)
Fifo == INSTANCE FifoLock WITH holders <- {t \in Threads : pc[t] \in Critical}

ImplementsFifoLock == Fifo!Spec

(* A thread that has swapped itself in, or is about to, gets the lock, and *)
(* one that starts mcslock_unlock returns from it.                         *)
StarvationFreedom ==
  \A t \in Threads : /\ pc[t] = "swap" ~> pc[t] = "cs"
                     /\ pc[t] = "cs" ~> pc[t] = "idle"
=============================================================================
