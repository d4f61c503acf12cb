----------------------------- MODULE ThreadPool -----------------------------
(***************************************************************************)
(* thread_pool.c: a fixed set of workers that pop tasks from a SyncQueue,  *)
(* and the main thread that adds tasks and finally destroys the pool.      *)
(*                                                                         *)
(* A task is the heap block thread_pool_add_task allocates: malloc never   *)
(* returns a block that is still linked or still run.  task->run(arg) is   *)
(* the span between Take and Finish.  Every pthread_create is assumed to   *)
(* have succeeded.                                                         *)
(***************************************************************************)
EXTENDS Naturals, Sequences, FiniteSets

CONSTANTS Worker,   (* pool->threads[0 .. active_count - 1] *)
          Task,     (* thread_task_t blocks *)
          NoTask,   (* a worker runs nothing *)
          Nobody    (* the queue's mutex is free *)

ASSUME ThreadPoolAssumption ==
    /\ Nobody \notin Worker
    /\ NoTask \notin Task
    /\ Worker # {} /\ IsFiniteSet(Worker)

VARIABLES queue, destorying, lock, popping, waiting,  (* pool->task_queue *)
          busy,     (* the task each worker runs *)
          exited,   (* workers that called pthread_exit *)
          mpc       (* how far the main thread is in thread_pool_destroy *)

queueVars == <<queue, destorying, lock, popping, waiting>>
vars == <<queue, destorying, lock, popping, waiting, busy, exited, mpc>>

Q == INSTANCE SyncQueue WITH Thread <- Worker, Entry <- Task

MainStates == {"serving", "signalled", "joining", "draining", "destroyed"}

Init ==
    /\ Q!Init
    /\ busy = [w \in Worker |-> NoTask]
    /\ exited = {}
    /\ mpc = "serving"

Live == { queue[i] : i \in DOMAIN queue } \cup { busy[w] : w \in Worker }

-----------------------------------------------------------------------------
(* The loop of thread_pool_task_entry.                                     *)
Enter(w) ==
    /\ w \notin exited
    /\ busy[w] = NoTask
    /\ Q!PopEnter(w)
    /\ UNCHANGED <<busy, exited, mpc>>

Take(w) ==
    /\ Q!PopTake(w)
    /\ busy' = [busy EXCEPT ![w] = Head(queue)]
    /\ UNCHANGED <<exited, mpc>>

Exit(w) ==
    /\ Q!PopNull(w)
    /\ exited' = exited \cup {w}
    /\ UNCHANGED <<busy, mpc>>

Block(w) ==
    /\ Q!PopTest(w) \/ Q!CondWait(w)
    /\ UNCHANGED <<busy, exited, mpc>>

Spurious(w) ==
    /\ Q!SpuriousWakeup(w)
    /\ UNCHANGED <<busy, exited, mpc>>

(* task->run returns and the block is freed.                               *)
Finish(w) ==
    /\ busy[w] # NoTask
    /\ busy' = [busy EXCEPT ![w] = NoTask]
    /\ UNCHANGED <<queueVars, exited, mpc>>

-----------------------------------------------------------------------------
AddTask(t) ==
    /\ mpc = "serving"
    /\ t \notin Live
    /\ Q!PushBack(t)
    /\ UNCHANGED <<busy, exited, mpc>>

(* thread_pool_destroy.                                                    *)
SignalDestroy ==
    /\ mpc = "serving"
    /\ Q!SetDestorying
    /\ mpc' = "signalled"
    /\ UNCHANGED <<busy, exited>>

(* Faulty: wakes one worker instead of all of them.                        *)
BroadcastToOne ==
    /\ mpc = "signalled"
    /\ Q!Signal
    /\ mpc' = "joining"
    /\ UNCHANGED <<queue, destorying, lock, popping, busy, exited>>

BroadcastDestroy ==
    /\ mpc = "signalled"
    /\ Q!Broadcast
    /\ mpc' = "joining"
    /\ UNCHANGED <<busy, exited>>

(* Faulty: goes on to destroy the queue without joining the workers.       *)
JoinNobody ==
    /\ mpc = "joining"
    /\ mpc' = "draining"
    /\ UNCHANGED <<queueVars, busy, exited>>

(* The loop of pthread_join calls ends when every worker has exited.       *)
JoinAll ==
    /\ mpc = "joining"
    /\ exited = Worker
    /\ mpc' = "draining"
    /\ UNCHANGED <<queueVars, busy, exited>>

(* while((t = sync_queue_pop_front())) free(t), with nobody else in the     *)
(* queue; sync_queue_destroy follows.                                      *)
Drain ==
    /\ mpc = "draining"
    /\ queue' = <<>>
    /\ mpc' = "destroyed"
    /\ UNCHANGED <<destorying, lock, popping, waiting, busy, exited>>

WorkerStep(w) ==
    Enter(w) \/ Take(w) \/ Exit(w) \/ Block(w) \/ Spurious(w) \/ Finish(w)

DestroyStep == BroadcastDestroy \/ JoinAll \/ Drain

Next ==
    \/ \E w \in Worker : WorkerStep(w)
    \/ \E t \in Task : AddTask(t)
    \/ SignalDestroy
    \/ DestroyStep

(* Threads are scheduled, the mutex does not shut one thread out for ever, *)
(* and task->run returns.  Nothing forces the main thread to add a task or *)
(* to start the destruction, and no spurious wakeup ever has to happen.    *)
Fairness ==
    /\ \A w \in Worker :
          /\ WF_vars(Enter(w))
          /\ WF_vars(Finish(w))
          /\ WF_vars(Q!CondWait(w) /\ Block(w))
          /\ SF_vars(Take(w) \/ Exit(w) \/ (Q!PopTest(w) /\ Block(w)))
    /\ WF_vars(DestroyStep)

Spec == Init /\ [][Next]_vars
FairSpec == Spec /\ Fairness

-----------------------------------------------------------------------------
TypeOK ==
    /\ Q!TypeOK
    /\ busy \in [Worker -> Task \cup {NoTask}]
    /\ exited \subseteq Worker
    /\ mpc \in MainStates

(* The pool implements the task service the server relies on: first in,    *)
(* first out, every task started at most once, and no worker gone while a  *)
(* task is pending, also in the middle of the destruction.                 *)
Service == INSTANCE TaskService
               WITH pending <- queue, closed <- destorying, retired <- exited

ServiceSpec == Service!Spec

(* No worker gives up while a task is linked: one that was told to go away *)
(* helps to empty the queue first.                                         *)
ExitsOnEmpty == exited # {} => queue = <<>>

(* From the end of the joins on no thread can touch the queue's mutex and  *)
(* condition variable again, nobody runs a task, and the loop that frees   *)
(* left-over tasks finds none: destroying the pool drops no task.          *)
DestroyedQuiet ==
    mpc \in {"draining", "destroyed"} =>
        /\ queue = <<>>
        /\ popping = {} /\ waiting = {} /\ lock = Nobody
        /\ \A w \in Worker : busy[w] = NoTask

(* Every task that was added is run, whether or not the pool is destroyed  *)
(* in the meantime and however the lost-wakeup window below is hit.        *)
EveryTaskStarts == Service!EveryTaskStarts

(* signal_destroy sets the flag and broadcasts without the mutex.  If no   *)
(* worker sits between its test of the flag and pthread_cond_wait when     *)
(* the flag is set, all workers exit and the destruction completes; if one *)
(* does, it can sleep through the broadcast and pthread_join waits for it  *)
(* for ever.                                                               *)
ShutdownCompletes ==
    (mpc = "signalled" /\ lock = Nobody) ~> (mpc = "destroyed")
=============================================================================
