----------------------------- MODULE SyncQueue -----------------------------
(***************************************************************************)
(* The blocking queue of sync_queue.c: a linked FIFO, the flag             *)
(* `destorying', one mutex and one condition variable.                     *)
(*                                                                         *)
(* The linked list from queue->head to queue->tail is the sequence         *)
(* `queue'.  A critical section that nobody can observe half way is one    *)
(* step; the mutex is visible only where it is held across two steps, in   *)
(* pop_front between the test of the loop condition and the call of        *)
(* pthread_cond_wait.  signal_destroy takes no lock, so its two statements *)
(* can fall into that gap.                                                 *)
(***************************************************************************)
EXTENDS Naturals, Sequences, FiniteSets

CONSTANTS Thread,    (* the threads that may call the queue *)
          Entry,     (* queue_entry_t blocks *)
          Nobody     (* the mutex is free *)

ASSUME SyncQueueAssumption == Nobody \notin Thread /\ IsFiniteSet(Thread)

VARIABLES queue,       (* the entries from head to tail *)
          destorying,  (* queue->destorying *)
          lock,        (* owner of queue->lock between two steps *)
          popping,     (* threads inside sync_queue_pop_front *)
          waiting      (* those of them blocked on queue->condition *)

vars == <<queue, destorying, lock, popping, waiting>>

Init ==
    /\ queue = <<>>
    /\ destorying = FALSE
    /\ lock = Nobody
    /\ popping = {}
    /\ waiting = {}

-----------------------------------------------------------------------------
(* pthread_cond_signal: one blocked thread, if there is one, is woken.     *)
Signal ==
    IF waiting = {} THEN UNCHANGED waiting
    ELSE \E t \in waiting : waiting' = waiting \ {t}

(* pthread_cond_broadcast.                                                 *)
WakeAll == waiting' = {}

(* Faulty: wakes a thread only when the queue was empty.                   *)
PushBackSignalsOnEmpty(e) ==
    /\ lock = Nobody
    /\ ~destorying
    /\ queue' = Append(queue, e)
    /\ IF queue = <<>> THEN Signal ELSE UNCHANGED waiting
    /\ UNCHANGED <<destorying, lock, popping>>

(* Faulty: pthread_cond_signal is forgotten.                               *)
PushBackSilent(e) ==
    /\ lock = Nobody
    /\ ~destorying
    /\ queue' = Append(queue, e)
    /\ UNCHANGED <<destorying, lock, popping, waiting>>

(* Faulty: links the entry in front of the others.                         *)
PushFront(e) ==
    /\ lock = Nobody
    /\ ~destorying
    /\ queue' = <<e>> \o queue
    /\ Signal
    /\ UNCHANGED <<destorying, lock, popping>>

(* sync_queue_push_back.  A queue that is being destroyed drops the entry  *)
(* without telling the caller.                                             *)
PushBack(e) ==
    /\ lock = Nobody
    /\ ~destorying
    /\ queue' = Append(queue, e)
    /\ Signal
    /\ UNCHANGED <<destorying, lock, popping>>

PushDropped(e) ==
    /\ lock = Nobody
    /\ destorying
    /\ UNCHANGED vars

(* sync_queue_pop_front, from the call to the return.                      *)
PopEnter(t) ==
    /\ t \notin popping
    /\ popping' = popping \cup {t}
    /\ UNCHANGED <<queue, destorying, lock, waiting>>

(* The mutex is taken on entry, and again by a thread that was woken.      *)
HasTheLock(t) == t \in popping \ waiting /\ lock = Nobody

(* Faulty: unlinks the tail instead of the head.                           *)
PopTakeLast(t) ==
    /\ HasTheLock(t)
    /\ queue # <<>>
    /\ queue' = SubSeq(queue, 1, Len(queue) - 1)
    /\ popping' = popping \ {t}
    /\ UNCHANGED <<destorying, lock, waiting>>

PopTake(t) ==
    /\ HasTheLock(t)
    /\ queue # <<>>
    /\ queue' = Tail(queue)
    /\ popping' = popping \ {t}
    /\ UNCHANGED <<destorying, lock, waiting>>

PopNull(t) ==
    /\ HasTheLock(t)
    /\ queue = <<>>
    /\ destorying
    /\ popping' = popping \ {t}
    /\ UNCHANGED <<queue, destorying, lock, waiting>>

(* while(!destorying && !head) holds: the thread goes on to the wait with  *)
(* the mutex in its hands ...                                              *)
PopTest(t) ==
    /\ HasTheLock(t)
    /\ queue = <<>>
    /\ ~destorying
    /\ lock' = t
    /\ UNCHANGED <<queue, destorying, popping, waiting>>

(* Faulty: sleeps without giving up the mutex.                             *)
CondWaitKeepsLock(t) ==
    /\ lock = t
    /\ waiting' = waiting \cup {t}
    /\ UNCHANGED <<queue, destorying, lock, popping>>

(* ... and pthread_cond_wait blocks it and frees the mutex in one step.    *)
CondWait(t) ==
    /\ lock = t
    /\ lock' = Nobody
    /\ waiting' = waiting \cup {t}
    /\ UNCHANGED <<queue, destorying, popping>>

(* POSIX lets pthread_cond_wait return without a signal.                   *)
SpuriousWakeup(t) ==
    /\ t \in waiting
    /\ waiting' = waiting \ {t}
    /\ UNCHANGED <<queue, destorying, lock, popping>>

(* sync_queue_signal_destroy: two statements, no lock.                     *)
SetDestorying ==
    /\ destorying' = TRUE
    /\ UNCHANGED <<queue, lock, popping, waiting>>

Broadcast ==
    /\ destorying
    /\ WakeAll
    /\ UNCHANGED <<queue, destorying, lock, popping>>

PopStep(t) == PopTake(t) \/ PopNull(t) \/ PopTest(t)

(* Any thread calls any operation at any time; an entry is a heap block,   *)
(* so it is not pushed again while it is linked.                           *)
Next ==
    \/ \E e \in Entry \ { queue[i] : i \in DOMAIN queue } :
          PushBack(e) \/ PushDropped(e)
    \/ \E t \in Thread :
          PopEnter(t) \/ PopStep(t) \/ CondWait(t) \/ SpuriousWakeup(t)
    \/ SetDestorying
    \/ Broadcast

(* A thread inside the call is scheduled, and the mutex does not keep out  *)
(* one thread for ever while it is freed again and again.                  *)
Fairness ==
    \A t \in Thread : SF_vars(PopStep(t)) /\ WF_vars(CondWait(t))

Spec == Init /\ [][Next]_vars
FairSpec == Spec /\ Fairness

-----------------------------------------------------------------------------
(* The threads in pop_front that will look at the queue again.             *)
Awake == popping \ waiting

(* Types; the threads blocked on the condition are inside pop_front and    *)
(* the mutex is never held by one of them.                                 *)
TypeOK ==
    /\ queue \in Seq(Entry)
    /\ destorying \in BOOLEAN
    /\ popping \subseteq Thread
    /\ waiting \subseteq popping
    /\ lock \in Awake \cup {Nobody}

(* A thread that holds the mutex on its way to pthread_cond_wait has seen  *)
(* an empty queue, and nothing is linked behind its back: push_back needs  *)
(* the same mutex.                                                         *)
WaitsOnEmpty == lock # Nobody => queue = <<>>

(* No wakeup of push_back is lost: while some thread sleeps on the         *)
(* condition variable, every linked entry has an awake thread of its own   *)
(* that will come for it.                                                  *)
NoLostWakeup == waiting # {} => Len(queue) <= Cardinality(Awake)

(* An entry at the head of the queue does not stay there while a thread is *)
(* inside pop_front, whatever the other threads do, spurious wakeups and   *)
(* the destroy protocol included.                                          *)
HeadIsTaken ==
    \A e \in Entry :
        (queue # <<>> /\ Head(queue) = e /\ popping # {})
            ~> (queue = <<>> \/ Head(queue) # e)
=============================================================================
