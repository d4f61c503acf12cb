-------------------------- MODULE ThreadPoolProofs --------------------------
(***************************************************************************)
(* ThreadPool is correct for every set of workers and tasks: it uses its   *)
(* queue as SyncQueue allows, and it implements TaskService.               *)
(***************************************************************************)
EXTENDS ThreadPool, TLAPS

QP == INSTANCE SyncQueueProofs
          WITH Thread <- Worker, Entry <- Task

(* What SyncQueue assumes of its threads.                                  *)
LEMMA QueueAssumption == Nobody \notin Worker /\ QP!IsFiniteSet(Worker)
  BY ThreadPoolAssumption DEF IsFiniteSet, QP!IsFiniteSet

(* Where each thread is: a worker runs a task, or is inside pop_front, or  *)
(* has left; nobody left early.                                            *)
Places ==
    /\ \A w \in Worker : busy[w] # NoTask => w \notin popping \cup exited
    /\ exited \cap popping = {}
    /\ destorying <=> mpc # "serving"
    /\ mpc \in {"draining", "destroyed"} => exited = Worker
    /\ exited # {} => destorying /\ queue = <<>>

IInv == TypeOK /\ Places

(* Initially everything is free and nobody has left.                       *)
LEMMA Initially == Init => IInv
<1> SUFFICES ASSUME Init PROVE IInv
  OBVIOUS
<1> USE ThreadPoolAssumption
<1>1. queue \in Seq(Task)
  BY DEF Init, Q!Init
<1>2. TypeOK
  BY <1>1 DEF Init, Q!Init, TypeOK, Q!TypeOK, Q!Awake, MainStates
<1>3. Places
  BY DEF Init, Q!Init, Places
<1> QED
  BY <1>2, <1>3 DEF IInv

(* Every step of the pool is a step of its queue, or leaves it alone; for  *)
(* Drain because there is a worker, and the workers left an empty queue.   *)
LEMMA QueueStep == IInv /\ [Next]_vars => [Q!Next]_queueVars
<1> SUFFICES ASSUME IInv, [Next]_vars PROVE Q!Next \/ UNCHANGED queueVars
  OBVIOUS
<1>1. ASSUME NEW w \in Worker, WorkerStep(w)
      PROVE  Q!Next \/ UNCHANGED queueVars
  BY <1>1 DEF WorkerStep, Enter, Take, Exit, Block, Spurious, Finish, Q!Next,
     Q!PopStep
<1>2. ASSUME NEW t \in Task, AddTask(t) PROVE Q!Next
  BY <1>2 DEF AddTask, Q!Next, Live
<1>3. CASE SignalDestroy
  BY <1>3 DEF SignalDestroy, Q!Next
<1>4. CASE BroadcastDestroy \/ JoinAll
  BY <1>4 DEF BroadcastDestroy, JoinAll, Q!Next
<1>5. CASE Drain
  BY <1>5, ThreadPoolAssumption DEF Drain, IInv, Places, queueVars
<1>6. CASE UNCHANGED vars
  BY <1>6 DEF vars, queueVars
<1> QED
  BY <1>1, <1>2, <1>3, <1>4, <1>5, <1>6 DEF Next, DestroyStep

(* The types, those of the queue taken over from SyncQueue.                *)
LEMMA TypeStep == IInv /\ [Next]_vars => TypeOK'
<1> SUFFICES ASSUME IInv, [Next]_vars PROVE TypeOK'
  OBVIOUS
<1> USE ThreadPoolAssumption
<1> USE DEF IInv
<1>1. Q!TypeOK'
  <2>1. Q!TypeOK /\ [Q!Next]_(Q!vars)
    BY QueueStep DEF TypeOK, queueVars, Q!vars
  <2>2. QP!TypeOK
    BY <2>1 DEF Q!TypeOK, QP!TypeOK, Q!Awake, QP!Awake
  <2>3. [QP!Next]_(QP!vars)
    BY <2>1 DEF Q!Next, QP!Next, Q!vars, QP!vars, Q!PushBack, QP!PushBack,
       Q!PushDropped, QP!PushDropped, Q!Signal, QP!Signal, Q!PopEnter,
       QP!PopEnter, Q!PopStep, QP!PopStep, Q!PopTake, QP!PopTake, Q!PopNull,
       QP!PopNull, Q!PopTest, QP!PopTest, Q!HasTheLock, QP!HasTheLock,
       Q!CondWait, QP!CondWait, Q!SpuriousWakeup, QP!SpuriousWakeup,
       Q!SetDestorying, QP!SetDestorying, Q!Broadcast, QP!Broadcast,
       Q!WakeAll, QP!WakeAll
  <2>4. QP!TypeOK'
    BY <2>2, <2>3, QueueAssumption, QP!TypeInductive
  <2> QED
    BY <2>4 DEF Q!TypeOK, QP!TypeOK, Q!Awake, QP!Awake
<1>2. ASSUME NEW w \in Worker, WorkerStep(w)
      PROVE  /\ busy' \in [Worker -> Task \cup {NoTask}]
             /\ exited' \subseteq Worker /\ mpc' \in MainStates
  <2>1. CASE Take(w)
    <3>1. Head(queue) \in Task
      BY <2>1 DEF Take, Q!PopTake, TypeOK, Q!TypeOK
    <3> QED
      BY <2>1, <3>1 DEF Take, TypeOK
  <2> QED
    BY <1>2, <2>1 DEF WorkerStep, Enter, Exit, Block, Spurious, Finish, TypeOK
<1>3. ASSUME NEW t \in Task, AddTask(t)
      PROVE  UNCHANGED <<busy, exited, mpc>>
  BY <1>3 DEF AddTask
<1>4. CASE SignalDestroy \/ DestroyStep
  <2>1. UNCHANGED <<busy, exited>> /\ mpc' \in MainStates
    BY <1>4 DEF SignalDestroy, DestroyStep, BroadcastDestroy, JoinAll,
       Drain, MainStates, TypeOK
  <2> QED
    BY <1>1, <2>1 DEF TypeOK
<1>5. CASE UNCHANGED vars
  BY <1>1, <1>5 DEF vars, TypeOK
<1> QED
  BY <1>1, <1>2, <1>3, <1>4, <1>5 DEF Next, TypeOK

(* The places of the threads, one action after the other.                  *)
LEMMA PlacesStep == IInv /\ [Next]_vars => Places'
<1> SUFFICES ASSUME IInv, [Next]_vars PROVE Places'
  OBVIOUS
<1> USE ThreadPoolAssumption
<1> USE DEF IInv, TypeOK, Q!TypeOK, Places, Q!Awake
<1>1. ASSUME NEW w \in Worker, Enter(w) PROVE Places'
  BY <1>1 DEF Enter, Q!PopEnter
<1>2. ASSUME NEW w \in Worker, Take(w) PROVE Places'
  <2>1. w \in popping /\ queue # <<>> /\ exited = {}
    BY <1>2 DEF Take, Q!PopTake, Q!HasTheLock
  <2> QED
    BY <1>2, <2>1 DEF Take, Q!PopTake, MainStates
<1>3. ASSUME NEW w \in Worker, Exit(w) PROVE Places'
  BY <1>3 DEF Exit, Q!PopNull, Q!HasTheLock
<1>4. ASSUME NEW w \in Worker, Block(w) PROVE Places'
  BY <1>4 DEF Block, Q!PopTest, Q!CondWait
<1>5. ASSUME NEW w \in Worker, Spurious(w) PROVE Places'
  BY <1>5 DEF Spurious, Q!SpuriousWakeup
<1>6. ASSUME NEW w \in Worker, Finish(w) PROVE Places'
  BY <1>6 DEF Finish, queueVars
<1>7. ASSUME NEW t \in Task, AddTask(t) PROVE Places'
  BY <1>7 DEF AddTask, Q!PushBack
<1>8. CASE SignalDestroy
  BY <1>8 DEF SignalDestroy, Q!SetDestorying
<1>9. CASE BroadcastDestroy
  BY <1>9 DEF BroadcastDestroy, Q!Broadcast
<1>10. CASE JoinAll
  BY <1>10 DEF JoinAll, queueVars
<1>11. CASE Drain
  BY <1>11 DEF Drain
<1>12. CASE UNCHANGED vars
  BY <1>12 DEF vars
<1> QED
  BY <1>1, <1>2, <1>3, <1>4, <1>5, <1>6, <1>7, <1>8, <1>9, <1>10, <1>11,
     <1>12 DEF Next, WorkerStep, DestroyStep

(* The inductive invariant holds in every reachable state.                 *)
LEMMA Invariant == Spec => []IInv
<1>1. IInv /\ [Next]_vars => IInv'
  BY TypeStep, PlacesStep DEF IInv
<1> QED
  BY <1>1, Initially, PTL DEF Spec

(* The pool uses its queue as SyncQueue allows, so everything proved of    *)
(* SyncQueue holds of pool->task_queue.                                    *)
THEOREM UsesTheQueue == Spec => Q!Spec
<1>1. Init => Q!Init
  BY DEF Init
<1>2. IInv /\ [Next]_vars => [Q!Next]_(Q!vars)
  BY QueueStep DEF queueVars, Q!vars
<1> QED
  BY <1>1, <1>2, Invariant, PTL DEF Spec, Q!Spec

(* Types of the pool.                                                      *)
THEOREM TypeSafe == Spec => []TypeOK
<1>1. IInv => TypeOK
  BY DEF IInv
<1> QED
  BY <1>1, Invariant, PTL

(* No worker of thread_pool_task_entry leaves while a task is linked.      *)
THEOREM NobodyLeavesEarly == Spec => []ExitsOnEmpty
<1>1. IInv => ExitsOnEmpty
  BY DEF IInv, Places, ExitsOnEmpty
<1> QED
  BY <1>1, Invariant, PTL

(* Once thread_pool_destroy has joined the workers no thread is inside the *)
(* queue or runs a task, and no task is linked.                            *)
THEOREM NothingLeftBehind == Spec => []DestroyedQuiet
<1>1. ASSUME IInv, mpc \in {"draining", "destroyed"}
      PROVE  /\ queue = <<>> /\ popping = {} /\ waiting = {} /\ lock = Nobody
             /\ \A w \in Worker : busy[w] = NoTask
  BY <1>1, ThreadPoolAssumption DEF IInv, TypeOK, Q!TypeOK, Q!Awake, Places
<1>2. IInv => DestroyedQuiet
  BY <1>1 DEF DestroyedQuiet
<1> QED
  BY <1>2, Invariant, PTL

(* A step of the pool is a step of the service or changes                  *)
(* nothing of it: the main thread finds nothing to drain, and what happens *)
(* inside pop_front does not show.                                         *)
LEMMA ServiceStep ==
    ASSUME IInv, [Next]_vars
    PROVE  [Service!Next]_(Service!svars)
<1> USE ThreadPoolAssumption
<1> USE DEF IInv, TypeOK, Q!TypeOK, Places
<1>1. ASSUME NEW w \in Worker, WorkerStep(w)
      PROVE  Service!Next \/ UNCHANGED Service!svars
  <2>1. CASE Take(w)
    <3>1. Service!Start(w)
      BY <2>1 DEF Take, Q!PopTake, Q!HasTheLock, Service!Start
    <3> QED
      BY <3>1 DEF Service!Next
  <2>2. CASE Exit(w)
    <3>1. Service!Retire(w)
      BY <2>2 DEF Exit, Q!PopNull, Q!HasTheLock, Service!Retire
    <3> QED
      BY <3>1 DEF Service!Next
  <2>3. CASE Finish(w)
    <3>1. Service!Finish(w)
      BY <2>3 DEF Finish, queueVars, Service!Finish
    <3> QED
      BY <3>1 DEF Service!Next
  <2>4. CASE Enter(w) \/ Block(w) \/ Spurious(w)
    BY <2>4 DEF Enter, Q!PopEnter, Block, Q!PopTest, Q!CondWait, Spurious,
       Q!SpuriousWakeup, Service!svars
  <2> QED
    BY <1>1, <2>1, <2>2, <2>3, <2>4 DEF WorkerStep
<1>2. ASSUME NEW t \in Task, AddTask(t) PROVE Service!Next
  <2>1. Service!Submit(t)
    BY <1>2 DEF AddTask, Q!PushBack, Service!Submit
  <2> QED
    BY <2>1 DEF Service!Next
<1>3. CASE SignalDestroy
  BY <1>3 DEF SignalDestroy, Q!SetDestorying, Service!Close, Service!Next
<1>4. CASE DestroyStep
  <2>1. CASE Drain
    BY <2>1 DEF Drain, Service!svars
  <2> QED
    BY <1>4, <2>1 DEF DestroyStep, BroadcastDestroy, Q!Broadcast, JoinAll,
       queueVars, Service!svars
<1>5. CASE UNCHANGED vars
  BY <1>5 DEF vars, Service!svars
<1> QED
  BY <1>1, <1>2, <1>3, <1>4, <1>5 DEF Next

(* The pool implements the task service the server relies on: tasks are    *)
(* started in order, once each, and none is dropped by the destruction.    *)
THEOREM ImplementsService == Spec => ServiceSpec
<1>1. Init => Service!Init
  BY DEF Init, Q!Init, Service!Init
<1>2. IInv /\ [Next]_vars => [Service!Next]_(Service!svars)
  BY ServiceStep
<1> QED
  BY <1>1, <1>2, Invariant, PTL DEF Spec, ServiceSpec, Service!Spec
=============================================================================
