---------------------------- MODULE TaskService ----------------------------
(***************************************************************************)
(* What the thread pool of thread_pool.c promises to the server: a task    *)
(* that is submitted is started once, in the order of submission, by one   *)
(* worker that runs nothing else until it has finished; a worker goes      *)
(* away only when the service was closed and no task is pending.           *)
(***************************************************************************)
EXTENDS Sequences

CONSTANTS Worker, Task, NoTask

VARIABLES pending,   (* submitted, not started *)
          busy,      (* the task each worker runs, or NoTask *)
          closed,    (* no task is accepted any more *)
          retired    (* workers that have gone away *)

svars == <<pending, busy, closed, retired>>

Init ==
    /\ pending = <<>>
    /\ busy = [w \in Worker |-> NoTask]
    /\ closed = FALSE
    /\ retired = {}

Submit(t) ==
    /\ ~closed
    /\ pending' = Append(pending, t)
    /\ UNCHANGED <<busy, closed, retired>>

Start(w) ==
    /\ w \notin retired
    /\ busy[w] = NoTask
    /\ pending # <<>>
    /\ busy' = [busy EXCEPT ![w] = Head(pending)]
    /\ pending' = Tail(pending)
    /\ UNCHANGED <<closed, retired>>

Finish(w) ==
    /\ busy[w] # NoTask
    /\ busy' = [busy EXCEPT ![w] = NoTask]
    /\ UNCHANGED <<pending, closed, retired>>

Close ==
    /\ closed' = TRUE
    /\ UNCHANGED <<pending, busy, retired>>

Retire(w) ==
    /\ closed
    /\ pending = <<>>
    /\ busy[w] = NoTask
    /\ retired' = retired \cup {w}
    /\ UNCHANGED <<pending, busy, closed>>

Next ==
    \/ \E t \in Task : Submit(t)
    \/ \E w \in Worker : Start(w) \/ Finish(w) \/ Retire(w)
    \/ Close

Spec == Init /\ [][Next]_svars

(* A submitted task leaves the queue: some worker starts it.               *)
EveryTaskStarts == \A t \in Task : (\E i \in DOMAIN pending : pending[i] = t)
                       ~> (\E w \in Worker : busy[w] = t)
=============================================================================
