-------------------------- MODULE SyncQueueProofs --------------------------
(***************************************************************************)
(* SyncQueue is correct for every set of threads and entries.              *)
(***************************************************************************)
EXTENDS SyncQueue, FiniteSetTheorems, TLAPS

(* The inductive invariant: NoLostWakeup survives CondWait only because    *)
(* the thread that goes to sleep still sees the queue empty.               *)
IInv == TypeOK /\ WaitsOnEmpty /\ NoLostWakeup

(* The types hold in every reachable state of sync_queue.c.                *)
LEMMA TypeInductive ==
    /\ Init => TypeOK
    /\ TypeOK /\ [Next]_vars => TypeOK'
<1> USE SyncQueueAssumption
<1>1. ASSUME Init PROVE TypeOK
  <2>1. queue \in Seq(Entry)
    BY <1>1 DEF Init
  <2> QED
    BY <1>1, <2>1 DEF Init, TypeOK, Awake
<1>2. ASSUME TypeOK, [Next]_vars PROVE TypeOK'
  <2> USE <1>2 DEF TypeOK, Awake
  <2>1. ASSUME NEW e \in Entry, PushBack(e) PROVE TypeOK'
    <3>1. queue' \in Seq(Entry)
      BY <2>1 DEF PushBack
    <3>2. waiting' \subseteq waiting
      BY <2>1 DEF PushBack, Signal
    <3> QED
      BY <2>1, <3>1, <3>2 DEF PushBack
  <2>2. ASSUME NEW e \in Entry, PushDropped(e) PROVE TypeOK'
    BY <2>2 DEF PushDropped, vars
  <2>3. ASSUME NEW t \in Thread, PopEnter(t) PROVE TypeOK'
    BY <2>3 DEF PopEnter
  <2>4. ASSUME NEW t \in Thread, PopTake(t) PROVE TypeOK'
    <3>1. queue' \in Seq(Entry)
      BY <2>4 DEF PopTake
    <3> QED
      BY <2>4, <3>1 DEF PopTake, HasTheLock
  <2>5. ASSUME NEW t \in Thread, PopNull(t) PROVE TypeOK'
    BY <2>5 DEF PopNull, HasTheLock
  <2>6. ASSUME NEW t \in Thread, PopTest(t) PROVE TypeOK'
    BY <2>6 DEF PopTest, HasTheLock
  <2>7. ASSUME NEW t \in Thread, CondWait(t) PROVE TypeOK'
    BY <2>7 DEF CondWait
  <2>8. ASSUME NEW t \in Thread, SpuriousWakeup(t) PROVE TypeOK'
    BY <2>8 DEF SpuriousWakeup
  <2>9. CASE SetDestorying
    BY <2>9 DEF SetDestorying
  <2>10. CASE Broadcast
    BY <2>10 DEF Broadcast, WakeAll
  <2>11. CASE UNCHANGED vars
    BY <2>11 DEF vars
  <2> QED
    BY <2>1, <2>2, <2>3, <2>4, <2>5, <2>6, <2>7, <2>8, <2>9, <2>10, <2>11
    DEF Next, PopStep
<1> QED
  BY <1>1, <1>2

(* Only the holder of the mutex can change the queue it has tested.        *)
LEMMA WaitsOnEmptyInductive ==
    /\ Init => WaitsOnEmpty
    /\ TypeOK /\ WaitsOnEmpty /\ [Next]_vars => WaitsOnEmpty'
<1>1. Init => WaitsOnEmpty
  BY DEF Init, WaitsOnEmpty
<1>2. ASSUME TypeOK, WaitsOnEmpty, [Next]_vars PROVE WaitsOnEmpty'
  BY <1>2 DEF WaitsOnEmpty, Next, vars, PushBack, PushDropped, PopEnter, PopStep,
     PopTake, PopNull, PopTest, HasTheLock, CondWait, SpuriousWakeup,
     SetDestorying, Broadcast
<1> QED
  BY <1>1, <1>2

(* Awake threads can be counted.                                           *)
LEMMA AwakeFinite ==
    ASSUME TypeOK
    PROVE  IsFiniteSet(Awake) /\ Cardinality(Awake) \in Nat
BY SyncQueueAssumption, FS_Subset, FS_CardinalityType DEF TypeOK, Awake

(* What a step adds to or takes from the awake threads and the queue keeps *)
(* the balance of NoLostWakeup.                                            *)
LEMMA NoLostWakeupInductive ==
    /\ Init => NoLostWakeup
    /\ IInv /\ [Next]_vars => NoLostWakeup'
<1>1. Init => NoLostWakeup
  BY DEF Init, NoLostWakeup
<1>2. ASSUME IInv, [Next]_vars PROVE NoLostWakeup'
  <2> USE SyncQueueAssumption
  <2>0. /\ TypeOK /\ WaitsOnEmpty /\ NoLostWakeup
        /\ IsFiniteSet(Awake) /\ Cardinality(Awake) \in Nat
        /\ Len(queue) \in Nat
    BY <1>2, AwakeFinite DEF IInv, TypeOK
  <2>t. /\ TypeOK'
        /\ IsFiniteSet(Awake') /\ Cardinality(Awake') \in Nat
    <3>1. TypeOK'
      BY <1>2, TypeInductive DEF IInv
    <3>2. Awake' \subseteq Thread
      BY <3>1 DEF TypeOK, Awake
    <3> QED
      BY <3>1, <3>2, FS_Subset, FS_CardinalityType
  <2>grow. ASSUME Awake \subseteq Awake'
           PROVE  Cardinality(Awake) <= Cardinality(Awake')
    BY <2>grow, <2>t, FS_Subset
  <2>1. ASSUME NEW e \in Entry, PushBack(e) PROVE NoLostWakeup'
    <3>1. CASE waiting = {}
      BY <2>1, <3>1 DEF PushBack, Signal, NoLostWakeup
    <3>2. CASE waiting # {}
      <4>1. PICK t \in waiting : waiting' = waiting \ {t}
        BY <2>1, <3>2 DEF PushBack, Signal
      <4>2. t \notin Awake /\ Awake' = Awake \cup {t}
        BY <2>1, <4>1, <2>0 DEF PushBack, Awake, TypeOK
      <4>3. Cardinality(Awake') = Cardinality(Awake) + 1
        BY <4>2, <2>0, FS_AddElement
      <4>4. Len(queue') = Len(queue) + 1
        BY <2>1, <2>0 DEF PushBack, TypeOK
      <4> QED
        BY <3>2, <4>3, <4>4, <2>0 DEF NoLostWakeup
    <3> QED
      BY <3>1, <3>2
  <2>2. ASSUME NEW e \in Entry, PushDropped(e) PROVE NoLostWakeup'
    BY <2>2, <2>0 DEF PushDropped, vars, NoLostWakeup, Awake
  <2>3. ASSUME NEW t \in Thread, PopEnter(t) PROVE NoLostWakeup'
    <3>1. Awake \subseteq Awake' /\ queue' = queue /\ waiting' = waiting
      BY <2>3 DEF PopEnter, Awake
    <3> QED
      BY <3>1, <2>0, <2>t, <2>grow DEF NoLostWakeup
  <2>4. ASSUME NEW t \in Thread, PopTake(t) PROVE NoLostWakeup'
    <3>1. t \in Awake /\ Awake' = Awake \ {t} /\ waiting' = waiting
      BY <2>4 DEF PopTake, HasTheLock, Awake
    <3>2. Cardinality(Awake') = Cardinality(Awake) - 1
      BY <3>1, <2>0, FS_RemoveElement
    <3>3. Len(queue') = Len(queue) - 1
      BY <2>4, <2>0 DEF PopTake, TypeOK
    <3> QED
      BY <3>1, <3>2, <3>3, <2>0 DEF NoLostWakeup
  <2>5. ASSUME NEW t \in Thread, PopNull(t) PROVE NoLostWakeup'
    <3>1. Len(queue') = 0
      BY <2>5 DEF PopNull
    <3> QED
      BY <3>1, <2>t DEF NoLostWakeup
  <2>6. ASSUME NEW t \in Thread, PopTest(t) PROVE NoLostWakeup'
    BY <2>6, <2>0 DEF PopTest, NoLostWakeup, Awake
  <2>7. ASSUME NEW t \in Thread, CondWait(t) PROVE NoLostWakeup'
    <3>1. Len(queue') = 0
      BY <2>7, <2>0 DEF CondWait, WaitsOnEmpty
    <3> QED
      BY <3>1, <2>t DEF NoLostWakeup
  <2>8. ASSUME NEW t \in Thread, SpuriousWakeup(t) PROVE NoLostWakeup'
    <3>1. Awake \subseteq Awake' /\ queue' = queue /\ waiting # {}
      BY <2>8 DEF SpuriousWakeup, Awake
    <3> QED
      BY <3>1, <2>0, <2>t, <2>grow DEF NoLostWakeup
  <2>9. CASE SetDestorying
    BY <2>9, <2>0 DEF SetDestorying, NoLostWakeup, Awake
  <2>10. CASE Broadcast
    BY <2>10 DEF Broadcast, WakeAll, NoLostWakeup
  <2>11. CASE UNCHANGED vars
    BY <2>11, <2>0 DEF vars, NoLostWakeup, Awake
  <2> QED
    BY <1>2, <2>1, <2>2, <2>3, <2>4, <2>5, <2>6, <2>7, <2>8, <2>9, <2>10, <2>11
    DEF Next, PopStep
<1> QED
  BY <1>1, <1>2

(* The three invariants hold initially ...                                 *)
LEMMA Initially == Init => IInv
BY TypeInductive, WaitsOnEmptyInductive, NoLostWakeupInductive DEF IInv

(* ... and every step keeps them together.                                 *)
LEMMA Preserved == IInv /\ [Next]_vars => IInv'
BY TypeInductive, WaitsOnEmptyInductive, NoLostWakeupInductive DEF IInv

(* The types: a thread on the condition variable is inside pop_front and   *)
(* does not hold the mutex.                                                *)
THEOREM TypeSafe == Spec => []TypeOK
<1>1. Init => IInv
  BY Initially
<1>2. IInv => TypeOK
  BY DEF IInv
<1> QED
  BY <1>1, <1>2, Preserved, PTL DEF Spec

(* A thread that goes to sleep in pop_front has an empty queue before it.  *)
THEOREM NobodySleepsOverAnEntry == Spec => []WaitsOnEmpty
<1>1. Init => IInv
  BY Initially
<1>2. IInv => WaitsOnEmpty
  BY DEF IInv
<1> QED
  BY <1>1, <1>2, Preserved, PTL DEF Spec

(* However many threads and entries there are, one pthread_cond_signal for *)
(* each entry is enough: sleeping threads never outnumber their entries'   *)
(* takers.                                                                 *)
THEOREM WakeupsSuffice == Spec => []NoLostWakeup
<1>1. Init => IInv
  BY Initially
<1>2. IInv => NoLostWakeup
  BY DEF IInv
<1> QED
  BY <1>1, <1>2, Preserved, PTL DEF Spec
=============================================================================
