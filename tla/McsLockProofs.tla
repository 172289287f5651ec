--------------------------- MODULE McsLockProofs ----------------------------
(***************************************************************************)
(* Proofs about the MCS lock for every set of threads.  The inductive      *)
(* invariant is QueueInvariant: mutual exclusion alone is not inductive,   *)
(* because who may enter next depends on how the nodes are linked.         *)
(***************************************************************************)
EXTENDS McsLock, SequenceTheorems, TLAPS

USE NullAssumption

(* Releasing the lock drops the first thread of the queue. *)
LEMMA TailFacts ==
  ASSUME queue \in Seq(Threads), Len(queue) # 0
  PROVE  /\ Tail(queue) \in Seq(Threads)
         /\ Len(Tail(queue)) = Len(queue) - 1
         /\ \A i \in 1..Len(queue) - 1 : Tail(queue)[i] = queue[i + 1]
<1>1. queue # <<>>
  OBVIOUS
<1> QED
  BY <1>1, HeadTailProperties

(* Every variable keeps its type along every step of lock and unlock. *)
LEMMA TypeStep == QueueInvariant /\ [Next]_vars => TypeOK'
<1> SUFFICES ASSUME QueueInvariant, [Next]_vars PROVE TypeOK'
  OBVIOUS
<1> USE DEF TypeOK, Nodes, Critical
<1>q. \A i \in 1..Len(queue) : queue[i] \in Threads
  BY DEF QueueInvariant
<1>1. ASSUME NEW t \in Threads, LockInit(t) PROVE TypeOK'
  BY <1>1 DEF LockInit, QueueInvariant
<1>2. ASSUME NEW t \in Threads, LockSwap(t) PROVE TypeOK'
  BY <1>2 DEF LockSwap, QueueInvariant
<1>3. ASSUME NEW t \in Threads, LockLink(t) PROVE TypeOK'
  BY <1>3 DEF LockLink, QueueInvariant
<1>4. ASSUME NEW t \in Threads, LockSpin(t) PROVE TypeOK'
  BY <1>4 DEF LockSpin, QueueInvariant
<1>5. ASSUME NEW t \in Threads, UnlockTest(t) PROVE TypeOK'
  BY <1>5 DEF UnlockTest, QueueInvariant
<1>6. ASSUME NEW t \in Threads, UnlockCas(t) PROVE TypeOK'
  <2>1. Len(queue) # 0
    BY <1>6 DEF UnlockCas, QueueInvariant, QueueOK, Active
  <2> QED
    BY <1>6, <2>1, TailFacts DEF UnlockCas, QueueInvariant
<1>7. ASSUME NEW t \in Threads, UnlockWaitNext(t) PROVE TypeOK'
  BY <1>7 DEF UnlockWaitNext, QueueInvariant
<1>8. ASSUME NEW t \in Threads, UnlockGrant(t) PROVE TypeOK'
  <2>1. Len(queue) # 0
    BY <1>8 DEF UnlockGrant, QueueInvariant, QueueOK, Active
  <2> QED
    BY <1>8, <2>1, TailFacts DEF UnlockGrant, QueueInvariant
<1>9. CASE UNCHANGED vars
  BY <1>9 DEF vars, QueueInvariant
<1> QED
  BY <1>1, <1>2, <1>3, <1>4, <1>5, <1>6, <1>7, <1>8, <1>9 DEF Next, Lock, Unlock

(* A thread that owns the lock is the first of the queue. *)
LEMMA OwnerIsHead ==
  ASSUME QueueInvariant, NEW t \in Threads, pc[t] \in Critical
  PROVE  Len(queue) > 0 /\ queue[1] = t
<1>1. PICK i \in 1..Len(queue) : queue[i] = t
  BY DEF QueueInvariant, QueueOK, Active, Critical
<1>2. ~(i > 1)
  BY <1>1 DEF QueueInvariant, OwnerOK, Critical
<1> QED
  BY <1>1, <1>2 DEF QueueInvariant, TypeOK

(* QueueInvariant is kept by every step. *)
LEMMA QueueStep == QueueInvariant /\ [Next]_vars => QueueInvariant'
<1> SUFFICES ASSUME QueueInvariant, [Next]_vars PROVE QueueInvariant'
  OBVIOUS
<1>t. TypeOK /\ TypeOK'
  BY TypeStep DEF QueueInvariant
<1>l. Len(queue) \in Nat
  BY <1>t DEF TypeOK
<1>q. \A i \in 1..Len(queue) : queue[i] \in Threads
  BY <1>t DEF TypeOK
<1> USE DEF Active, Critical
<1>1. ASSUME NEW t \in Threads, LockInit(t) PROVE QueueInvariant'
  <2>1. QueueOK'
    BY <1>1, <1>t, <1>l, <1>q DEF LockInit, QueueInvariant, TypeOK, QueueOK
  <2>2. OwnerOK'
    BY <1>1, <1>t, <1>l, <1>q DEF LockInit, QueueInvariant, TypeOK, QueueOK, OwnerOK
  <2>3. LinkOK'
    BY <1>1, <1>t, <1>l, <1>q DEF LockInit, QueueInvariant, TypeOK, QueueOK, LinkOK
  <2> QED BY <1>t, <2>1, <2>2, <2>3 DEF QueueInvariant
<1>2. ASSUME NEW t \in Threads, LockSwap(t) PROVE QueueInvariant'
  <2>a. /\ queue' = Append(queue, t)
        /\ Len(queue') = Len(queue) + 1
        /\ \A i \in 1..Len(queue) : queue'[i] = queue[i]
        /\ queue'[Len(queue) + 1] = t
    BY <1>2, <1>t DEF LockSwap, TypeOK
  <2>b. \A i \in 1..Len(queue) : queue[i] # t
    BY <1>2 DEF LockSwap, QueueInvariant, QueueOK
  <2>1. QueueOK'
    BY <1>2, <1>t, <1>l, <1>q, <2>a, <2>b DEF LockSwap, QueueInvariant, TypeOK, QueueOK
  <2>2. OwnerOK'
    BY <1>2, <1>t, <1>l, <1>q, <2>a, <2>b DEF LockSwap, QueueInvariant, TypeOK, QueueOK, OwnerOK, LinkOK
  <2>3. LinkOK'
    BY <1>2, <1>t, <1>l, <1>q, <2>a, <2>b DEF LockSwap, QueueInvariant, TypeOK, QueueOK, LinkOK
  <2> QED BY <1>t, <2>1, <2>2, <2>3 DEF QueueInvariant
<1>3. ASSUME NEW t \in Threads, LockLink(t) PROVE QueueInvariant'
  <2>1. PICK k \in 1..Len(queue) : queue[k] = t
    BY <1>3 DEF LockLink, QueueInvariant, QueueOK
  <2>2. k > 1 /\ prev[t] = queue[k - 1]
    BY <1>3, <1>l, <2>1 DEF LockLink, QueueInvariant, OwnerOK, LinkOK
  <2>3. QueueOK'
    BY <1>3, <1>t, <1>l, <1>q DEF LockLink, QueueInvariant, TypeOK, QueueOK
  <2>4. OwnerOK'
    BY <1>3, <1>t, <1>l, <1>q DEF LockLink, QueueInvariant, TypeOK, OwnerOK
  <2>5. LinkOK'
    BY <1>3, <1>t, <1>l, <1>q, <2>1, <2>2 DEF LockLink, QueueInvariant, TypeOK, QueueOK, LinkOK
  <2> QED BY <1>t, <2>3, <2>4, <2>5 DEF QueueInvariant
<1>4. ASSUME NEW t \in Threads, LockSpin(t) PROVE QueueInvariant'
  <2>0. Len(queue) > 0 /\ queue[1] = t
    <3>1. PICK i \in 1..Len(queue) : queue[i] = t
      BY <1>4 DEF LockSpin, QueueInvariant, QueueOK
    <3>2. ~(i > 1)
      BY <1>4, <3>1 DEF LockSpin, QueueInvariant, OwnerOK
    <3> QED BY <1>l, <3>1, <3>2
  <2>1. QueueOK'
    BY <1>4, <1>t, <1>l, <1>q DEF LockSpin, QueueInvariant, TypeOK, QueueOK
  <2>2. OwnerOK'
    BY <1>4, <1>t, <1>l, <1>q, <2>0 DEF LockSpin, QueueInvariant, TypeOK, QueueOK, OwnerOK
  <2>3. LinkOK'
    BY <1>4, <1>t, <1>l, <1>q, <2>0 DEF LockSpin, QueueInvariant, TypeOK, QueueOK, LinkOK
  <2> QED BY <1>t, <2>1, <2>2, <2>3 DEF QueueInvariant
<1>5. ASSUME NEW t \in Threads, UnlockTest(t) PROVE QueueInvariant'
  <2>0. Len(queue) > 0 /\ queue[1] = t
    BY <1>5, OwnerIsHead DEF UnlockTest
  <2>1. QueueOK'
    BY <1>5, <1>t, <1>l, <1>q DEF UnlockTest, QueueInvariant, TypeOK, QueueOK
  <2>2. OwnerOK'
    BY <1>5, <1>t, <1>l, <1>q, <2>0 DEF UnlockTest, QueueInvariant, TypeOK, QueueOK, OwnerOK
  <2>3. LinkOK'
    BY <1>5, <1>t, <1>l, <1>q, <2>0 DEF UnlockTest, QueueInvariant, TypeOK, QueueOK, LinkOK
  <2> QED BY <1>t, <2>1, <2>2, <2>3 DEF QueueInvariant
<1>6. ASSUME NEW t \in Threads, UnlockCas(t) PROVE QueueInvariant'
  <2>0. Len(queue) > 0 /\ queue[1] = t
    BY <1>6, OwnerIsHead DEF UnlockCas
  <2>1. CASE qnode = t
    <3>1. Len(queue) = 1
      <4>1. queue[Len(queue)] = queue[1]
        BY <1>l, <2>0, <2>1 DEF QueueInvariant, QueueOK
      <4>2. 1 \in 1..Len(queue) /\ Len(queue) \in 1..Len(queue)
        BY <1>l, <2>0
      <4> QED BY <4>1, <4>2 DEF QueueInvariant, QueueOK
    <3>2. Len(queue') = 0
      <4>1. queue' = Tail(queue)
        BY <1>6, <2>1 DEF UnlockCas
      <4> QED BY <1>t, <3>1, <4>1, TailFacts DEF TypeOK
    <3>3. QueueOK'
      BY <1>6, <1>t, <2>0, <2>1, <3>1, <3>2 DEF UnlockCas, QueueInvariant, TypeOK, QueueOK
    <3>4. OwnerOK' /\ LinkOK'
      BY <1>6, <1>t, <2>1, <3>2 DEF UnlockCas, QueueInvariant, TypeOK, OwnerOK, LinkOK
    <3> QED BY <1>t, <3>3, <3>4 DEF QueueInvariant
  <2>2. CASE qnode # t
    <3>1. Len(queue) > 1
      BY <1>l, <2>0, <2>2 DEF QueueInvariant, QueueOK
    <3>2. QueueOK'
      BY <1>6, <1>t, <1>l, <1>q, <2>2 DEF UnlockCas, QueueInvariant, TypeOK, QueueOK
    <3>3. OwnerOK'
      BY <1>6, <1>t, <1>l, <1>q, <2>0, <2>2 DEF UnlockCas, QueueInvariant, TypeOK, QueueOK, OwnerOK
    <3>4. LinkOK'
      BY <1>6, <1>t, <1>l, <1>q, <2>0, <2>2, <3>1 DEF UnlockCas, QueueInvariant, TypeOK, QueueOK, LinkOK
    <3> QED BY <1>t, <3>2, <3>3, <3>4 DEF QueueInvariant
  <2> QED BY <2>1, <2>2
<1>7. ASSUME NEW t \in Threads, UnlockWaitNext(t) PROVE QueueInvariant'
  <2>0. Len(queue) > 0 /\ queue[1] = t
    BY <1>7, OwnerIsHead DEF UnlockWaitNext
  <2>1. QueueOK'
    BY <1>7, <1>t, <1>l, <1>q DEF UnlockWaitNext, QueueInvariant, TypeOK, QueueOK
  <2>2. OwnerOK'
    BY <1>7, <1>t, <1>l, <1>q, <2>0 DEF UnlockWaitNext, QueueInvariant, TypeOK, QueueOK, OwnerOK
  <2>3. LinkOK'
    BY <1>7, <1>t, <1>l, <1>q, <2>0 DEF UnlockWaitNext, QueueInvariant, TypeOK, QueueOK, LinkOK
  <2> QED BY <1>t, <2>1, <2>2, <2>3 DEF QueueInvariant
<1>8. ASSUME NEW t \in Threads, UnlockGrant(t) PROVE QueueInvariant'
  <2>0. Len(queue) > 0 /\ queue[1] = t
    BY <1>8, OwnerIsHead DEF UnlockGrant
  <2>1. Len(queue) > 1 /\ next[t] = queue[2] /\ pc[queue[2]] = "spin" /\ queue[2] # t
    BY <1>8, <1>l, <2>0 DEF UnlockGrant, QueueInvariant, LinkOK, QueueOK
  <2>a. /\ Len(queue') = Len(queue) - 1
        /\ \A i \in 1..Len(queue') : queue'[i] = queue[i + 1]
    <3>1. queue' = Tail(queue)
      BY <1>8 DEF UnlockGrant
    <3> QED BY <1>t, <1>l, <2>1, <3>1, TailFacts DEF TypeOK
  <2>2. QueueOK'
    <3>1. \A i, j \in 1..Len(queue') : queue'[i] = queue'[j] => i = j
      <4> TAKE i, j \in 1..Len(queue')
      <4>1. i + 1 \in 1..Len(queue) /\ j + 1 \in 1..Len(queue)
        BY <1>l, <2>1, <2>a
      <4> QED BY <2>a, <4>1 DEF QueueInvariant, QueueOK
    <3>2. \A i \in 1..Len(queue') : queue'[i] # t /\ queue'[i] \in Threads /\ Active(queue'[i])
      <4> TAKE i \in 1..Len(queue')
      <4>1. i + 1 \in 1..Len(queue) /\ 1 \in 1..Len(queue) /\ i + 1 # 1
        BY <1>l, <2>1, <2>a
      <4> QED BY <1>q, <2>0, <2>a, <4>1 DEF QueueInvariant, QueueOK
    <3>3. ASSUME NEW u \in Threads, Active(u)' PROVE \E i \in 1..Len(queue') : queue'[i] = u
      <4>1. u # t /\ Active(u)
        BY <1>8, <1>t, <3>3 DEF UnlockGrant, TypeOK
      <4>2. PICK i \in 1..Len(queue) : queue[i] = u
        BY <4>1 DEF QueueInvariant, QueueOK
      <4>3. i - 1 \in 1..Len(queue') /\ queue'[i - 1] = u
        BY <1>l, <2>0, <2>1, <2>a, <4>1, <4>2
      <4> QED BY <4>3
    <3>4. qnode' = queue'[Len(queue')] /\ Len(queue') # 0
      BY <1>8, <1>l, <2>1, <2>a DEF UnlockGrant, QueueInvariant, QueueOK
    <3> QED BY <1>8, <1>t, <3>1, <3>2, <3>3, <3>4 DEF UnlockGrant, TypeOK, QueueOK
  <2>3. OwnerOK'
    BY <1>8, <1>t, <1>l, <1>q, <2>0, <2>1, <2>a DEF UnlockGrant, QueueInvariant, TypeOK, QueueOK, OwnerOK
  <2>4. LinkOK'
    BY <1>8, <1>t, <1>l, <1>q, <2>0, <2>1, <2>a DEF UnlockGrant, QueueInvariant, TypeOK, QueueOK, LinkOK
  <2> QED BY <1>t, <2>2, <2>3, <2>4 DEF QueueInvariant
<1>9. CASE UNCHANGED vars
  BY <1>9, <1>t DEF vars, QueueInvariant, QueueOK, OwnerOK, LinkOK
<1> QED
  BY <1>1, <1>2, <1>3, <1>4, <1>5, <1>6, <1>7, <1>8, <1>9 DEF Next, Lock, Unlock

(* The queue invariant holds in every reachable state of the lock. *)
THEOREM QueueCorrect == Spec => []QueueInvariant
<1>1. Init => QueueInvariant
  BY DEF Init, QueueInvariant, TypeOK, QueueOK, OwnerOK, LinkOK, Active, Nodes, Critical
<1> QED
  BY <1>1, QueueStep, PTL DEF Spec

(* mcslock_lock / mcslock_unlock let at most one thread in at a time. *)
THEOREM MutualExclusionHolds == Spec => []MutualExclusion
<1>1. QueueInvariant => MutualExclusion
  BY OwnerIsHead DEF MutualExclusion
<1> QED
  BY <1>1, QueueCorrect, PTL

(* The store qnode->next->locked = 1 of mcslock_unlock always reaches a    *)
(* successor that is spinning on it and has not been granted the lock yet. *)
THEOREM GrantReachesWaiterHolds == Spec => []GrantReachesWaiter
<1>1. QueueInvariant => GrantReachesWaiter
  <2> SUFFICES ASSUME QueueInvariant, NEW t \in Threads, pc[t] = "grant"
               PROVE  next[t] \in Threads /\ pc[next[t]] = "spin" /\ ~locked[next[t]]
    BY DEF GrantReachesWaiter
  <2>1. Len(queue) > 0 /\ queue[1] = t /\ Len(queue) \in Nat
    BY OwnerIsHead DEF Critical, QueueInvariant, TypeOK
  <2>2. Len(queue) > 1 /\ next[t] = queue[2] /\ pc[queue[2]] = "spin"
    BY <2>1 DEF QueueInvariant, LinkOK
  <2> QED
    BY <2>1, <2>2 DEF QueueInvariant, OwnerOK, TypeOK
<1> QED
  BY <1>1, QueueCorrect, PTL

(* The MCS lock implements the first-come first-served lock: the swap joins *)
(* the queue, leaving the spin loop enters, and the successful               *)
(* compare-and-swap or the grant leaves; every other step is internal.       *)
THEOREM ImplementsFifoLockHolds == Spec => ImplementsFifoLock
<1> DEFINE H == {t \in Threads : pc[t] \in Critical}
<1>1. Init => Fifo!Init
  BY DEF Init, Fifo!Init, Critical
<1>2. QueueInvariant /\ [Next]_vars => [Fifo!Next]_(Fifo!vars)
  <2> SUFFICES ASSUME QueueInvariant, [Next]_vars PROVE [Fifo!Next]_(Fifo!vars)
    OBVIOUS
  <2>t. TypeOK /\ queue \in Seq(Threads)
    BY DEF QueueInvariant, TypeOK
  <2>h. ASSUME Len(queue) > 0 PROVE queue # <<>> /\ Head(queue) = queue[1]
    BY <2>t, <2>h
  <2> USE DEF Critical, TypeOK
  <2>1. ASSUME NEW t \in Threads, LockInit(t) \/ LockLink(t) \/ UnlockTest(t) \/ UnlockWaitNext(t)
        PROVE  UNCHANGED Fifo!vars
    <3>1. H' = H /\ queue' = queue
      BY <2>1, <2>t DEF LockInit, LockLink, UnlockTest, UnlockWaitNext
    <3> QED BY <3>1 DEF Fifo!vars
  <2>2. ASSUME NEW t \in Threads, LockSwap(t) PROVE Fifo!Join(t)
    <3>1. ~Fifo!Queued(t)
      BY <2>2, <2>t DEF LockSwap, QueueInvariant, QueueOK, Active, Fifo!Queued
    <3>2. CASE qnode = NULL
      <4>1. queue = <<>>
        BY <2>t, <3>2 DEF QueueInvariant, QueueOK
      <4>2. H' = {t}
        BY <2>2, <2>t, <3>2, <4>1 DEF LockSwap, QueueInvariant, QueueOK, Active
      <4> QED BY <2>2, <3>1, <4>1, <4>2 DEF LockSwap, Fifo!Join
    <3>3. CASE qnode # NULL
      <4>1. H' = H
        BY <2>2, <2>t, <3>3 DEF LockSwap
      <4> QED BY <2>2, <3>1, <4>1 DEF LockSwap, Fifo!Join
    <3> QED BY <3>2, <3>3
  <2>3. ASSUME NEW t \in Threads, LockSpin(t) PROVE Fifo!Enter(t)
    <3>1. PICK i \in 1..Len(queue) : queue[i] = t
      BY <2>3 DEF LockSpin, QueueInvariant, QueueOK, Active
    <3>2. ~(i > 1)
      BY <2>3, <3>1 DEF LockSpin, QueueInvariant, OwnerOK
    <3>3. queue # <<>> /\ Head(queue) = t
      BY <2>h, <2>t, <3>1, <3>2
    <3>4. t \notin H /\ H' = H \cup {t}
      BY <2>3, <2>t DEF LockSpin
    <3> QED BY <2>3, <3>3, <3>4 DEF LockSpin, Fifo!Enter
  <2>4. ASSUME NEW t \in Threads, pc[t] \in Critical, queue' = Tail(queue),
               pc' = [pc EXCEPT ![t] = "idle"]
        PROVE  Fifo!Leave(t)
    <3>1. queue # <<>> /\ Head(queue) = t
      BY <2>h, <2>4, OwnerIsHead
    <3>2. t \in H /\ H' = H \ {t}
      BY <2>4, <2>t
    <3> QED BY <2>4, <3>1, <3>2 DEF Fifo!Leave
  <2>5. ASSUME NEW t \in Threads, UnlockCas(t) PROVE Fifo!Leave(t) \/ UNCHANGED Fifo!vars
    <3>1. CASE qnode = t
      BY <2>4, <2>5, <3>1 DEF UnlockCas
    <3>2. CASE qnode # t
      <4>1. H' = H /\ queue' = queue
        BY <2>5, <2>t, <3>2 DEF UnlockCas
      <4> QED BY <4>1 DEF Fifo!vars
    <3> QED BY <3>1, <3>2
  <2>6. ASSUME NEW t \in Threads, UnlockGrant(t) PROVE Fifo!Leave(t)
    BY <2>4, <2>6 DEF UnlockGrant
  <2>7. CASE UNCHANGED vars
    BY <2>7 DEF vars, Fifo!vars
  <2> QED
    BY <2>1, <2>2, <2>3, <2>5, <2>6, <2>7 DEF Next, Lock, Unlock, Fifo!Next
<1> QED
  BY <1>1, <1>2, QueueCorrect, PTL DEF Spec, ImplementsFifoLock, Fifo!Spec
=============================================================================
