---------------------------- MODULE ServerProofs ----------------------------
(***************************************************************************)
(* As long as none of the three unprotected overlaps has happened, the     *)
(* server keeps its connections, descriptors and bits in order, for every  *)
(* number of connections, descriptors, workers and clients.                *)
(***************************************************************************)
EXTENDS Server, TLAPS

Held(c) ==
    \/ \E i \in DOMAIN tasks : tasks[i] = c
    \/ \E w \in Worker : Owns(w, c)

(* A connection is held at most once, and while it is held it is linked,   *)
(* has a socket, and select does not watch it.                             *)
Once ==
    /\ \A i, j \in DOMAIN tasks : tasks[i] = tasks[j] => i = j
    /\ \A v, w \in Worker, c \in Conn : Owns(v, c) /\ Owns(w, c) => v = w
    /\ \A i \in DOMAIN tasks, w \in Worker : ~Owns(w, tasks[i])

HeldLinked ==
    \A c \in Conn : Held(c) =>
        c \in list /\ sock[c] # None /\ sock[c] \notin fds

Watched == \A c \in list : sock[c] = None \/ sock[c] \in fds \/ Held(c)

(* Listed connections have sockets of their own.                           *)
Private ==
    /\ pool \cap list = {}
    /\ \A c, d \in list : sock[c] # None /\ sock[c] = sock[d] => c = d

(* What is watched or served is open.                                      *)
StillOpen == {"recv", "reply", "close", "rearm", "store"}
OpenSockets ==
    /\ \A f \in fds : peer[f] # None
    /\ \A i \in DOMAIN tasks : peer[sock[tasks[i]]] # None
    /\ \A w \in Worker : wpc[w] \in StillOpen => peer[sock[busy[w]]] # None
    /\ \A w \in Worker : wpc[w] = "reply" => peer[sock[busy[w]]] = wreq[w]

(* The words the threads have loaded are still what memory holds.          *)
Loaded ==
    /\ mpc = "admit" =>
          /\ mreg = fds
          /\ peer[newfd] # None /\ newfd \notin fds
          /\ \A c \in list : sock[c] # newfd
    /\ \A w \in Worker : wpc[w] = "store" => wreg = fds
    /\ \A v, w \in Worker : wpc[v] = "store" /\ wpc[w] = "store" => v = w

(* A bit of the snapshot that is still to be looked at is still set.       *)
Snapped ==
    /\ mpc \in {"select", "accept", "admit"} => rfds \subseteq fds
    /\ mpc \in {"visit", "test", "clear"} =>
          visit \subseteq list
          /\ \A c \in visit : sock[c] \in rfds => sock[c] \in fds
    /\ mpc = "test" =>
          cur \in list \ visit /\ (sock[cur] \in rfds => sock[cur] \in fds)
    /\ mpc = "clear" =>
          cur \in list \ visit /\ sock[cur] \in fds

(* The main loop has not been left.                                        *)
Running ==
    mpc \notin {"clean", "unset", "join", "down"} /\ ~closed /\ retired = {}

Core ==
    /\ Once /\ HeldLinked /\ Watched /\ Private /\ OpenSockets /\ Loaded
    /\ Snapped /\ Running

IInv == TypeOK /\ (NoRace => Core)

(* Closing a descriptor keeps the types of the kernel's and the clients'   *)
(* variables.                                                              *)
LEMMA CloseFdType ==
    ASSUME TypeOK, NEW s \in Fd \cup {None}, CloseFd(s)
    PROVE  /\ peer' \in [Fd -> Client \cup {None}]
           /\ phase' \in [Client -> {"off", "syn", "up"}]
           /\ inbox' \in [Client -> BOOLEAN]
           /\ fin' \in [Client -> BOOLEAN]
           /\ due' \in [Client -> BOOLEAN]
<1>1. CASE s \in Open
  <2>1. s \in Fd /\ peer[s] \in Client
    BY <1>1 DEF TypeOK, Open
  <2> QED
    BY <1>1, <2>1 DEF CloseFd, TypeOK
<1>2. CASE s \notin Open
  BY <1>2 DEF CloseFd, TypeOK, clientVars
<1> QED
  BY <1>1, <1>2

(* Every variable keeps its type.                                          *)
LEMMA TypeStep == TypeOK /\ [Next]_vars => TypeOK'
<1> SUFFICES ASSUME TypeOK, [Next]_vars PROVE TypeOK'
  OBVIOUS
<1> USE ServerAssumption
<1> USE DEF TypeOK, MainStates, WorkerStates, Races, Words, mainVars, connVars,
        workVars, poolVars, clientVars
<1>1. CASE Snapshot
  BY <1>1 DEF Snapshot
<1>2. CASE Select
  BY <1>2 DEF Select, Readable, Open
<1>3. CASE SelectFails
  BY <1>3 DEF SelectFails
<1>4. CASE Accept
  BY <1>4 DEF Accept, Open, Backlog
<1>5. CASE AcceptFails
  BY <1>5 DEF AcceptFails, NoneFree
<1>6. CASE Admit
  BY <1>6 DEF Admit, Acquire, ListAppend
<1>7. CASE Dispatch
  BY <1>7 DEF Dispatch, MayRace, Pool!Submit, Bit
<1>8. CASE Skip
  BY <1>8 DEF Skip
<1>28. CASE IsSet
  BY <1>28 DEF IsSet, MayRace
<1>29. CASE CleanSocket
  BY <1>29 DEF CleanSocket
<1>9. CASE VisitEnd
  BY <1>9 DEF VisitEnd
<1>10. CASE CleanPool
  BY <1>10 DEF CleanPool, Pool!Close
<1>11. CASE CleanEnd
  BY <1>11 DEF CleanEnd
<1>12. ASSUME NEW c \in Conn, Reclaim(c) PROVE TypeOK'
  BY <1>12 DEF Reclaim, ListRemove, Return
<1>13. ASSUME NEW c \in Conn, Examine(c) PROVE TypeOK'
  BY <1>13 DEF Examine
<1>14. ASSUME NEW c \in Conn, CleanConn(c) PROVE TypeOK'
  <2>1. CloseFd(sock[c]) /\ sock[c] \in Fd \cup {None}
    BY <1>14 DEF CleanConn
  <2> QED
    BY <1>14, <2>1, CloseFdType DEF CleanConn
<1>15. ASSUME NEW w \in Worker, Start(w) PROVE TypeOK'
  BY <1>15 DEF Start, Pool!Start
<1>16. ASSUME NEW w \in Worker, Retire(w) PROVE TypeOK'
  BY <1>16 DEF Retire, Pool!Retire
<1>17. ASSUME NEW w \in Worker, Recv(w) PROVE TypeOK'
  <2>1. busy[w] \in Conn /\ sock[busy[w]] \in Fd \cup {None}
    BY <1>17 DEF Recv
  <2>2. /\ inbox' \in [Client -> BOOLEAN]
        /\ wreq' \in [Worker -> Client \cup {None}]
    <3>1. CASE UNCHANGED <<inbox, wreq>>
      BY <3>1
    <3>2. CASE /\ sock[busy[w]] \in Open
               /\ inbox' = [inbox EXCEPT ![peer[sock[busy[w]]]] = FALSE]
               /\ wreq' = [wreq EXCEPT ![w] = peer[sock[busy[w]]]]
      BY <2>1, <3>2 DEF Open
    <3> QED
      BY <1>17, <3>1, <3>2 DEF Recv
  <2>3. /\ wpc' \in [Worker -> WorkerStates]
        /\ \A v \in Worker : wpc'[v] = "idle" <=> busy[v] = None
    BY <1>17, <2>1 DEF Recv
  <2> QED
    BY <1>17, <2>2, <2>3 DEF Recv
<1>18. ASSUME NEW w \in Worker, Reply(w) PROVE TypeOK'
  <2>1. busy[w] \in Conn /\ sock[busy[w]] \in Fd \cup {None}
    BY <1>18 DEF Reply
  <2>2. due' \in [Client -> BOOLEAN] /\ alive' \in BOOLEAN
    <3>1. due' = due \/ due' = [due EXCEPT ![peer[sock[busy[w]]]] = FALSE]
      BY <1>18 DEF Reply
    <3>2. alive' = alive \/ alive' \in BOOLEAN \/ alive' \in {TRUE}
      BY <1>18, ZenonT(20) DEF Reply
    <3>3. due' \in [Client -> BOOLEAN]
      BY <3>1
    <3> QED
      BY <3>2, <3>3
  <2>3. \E next \in {"recv", "close"} : wpc' = [wpc EXCEPT ![w] = next]
    BY <1>18 DEF Reply
  <2>4. /\ wpc' \in [Worker -> WorkerStates]
        /\ \A v \in Worker : wpc'[v] = "idle" <=> busy[v] = None
    BY <2>1, <2>3, <1>18 DEF Reply
  <2>5. wreq' \in [Worker -> Client \cup {None}]
    BY <1>18 DEF Reply
  <2> QED
    BY <1>18, <2>2, <2>4, <2>5 DEF Reply
<1>19. ASSUME NEW w \in Worker, Close(w) PROVE TypeOK'
  <2>1. CloseFd(sock[busy[w]]) /\ sock[busy[w]] \in Fd \cup {None}
    BY <1>19 DEF Close
  <2> QED
    BY <1>19, <2>1, CloseFdType DEF Close
<1>20. ASSUME NEW w \in Worker, Forget(w) PROVE TypeOK'
  BY <1>20 DEF Forget, Pool!Finish
<1>21. ASSUME NEW w \in Worker, Rearm(w) PROVE TypeOK'
  BY <1>21 DEF Rearm
<1>22. ASSUME NEW w \in Worker, Store(w) PROVE TypeOK'
  BY <1>22 DEF Store, Bit
<1>23. ASSUME NEW w \in Worker, Notify(w) PROVE TypeOK'
  BY <1>23 DEF Notify, Pool!Finish
<1>24. ASSUME NEW p \in Client, Connect(p) PROVE TypeOK'
  BY <1>24 DEF Connect
<1>25. ASSUME NEW p \in Client, Ask(p) PROVE TypeOK'
  BY <1>25 DEF Ask
<1>26. ASSUME NEW p \in Client, HangUp(p) PROVE TypeOK'
  BY <1>26 DEF HangUp
<1>27. CASE UNCHANGED vars
  BY <1>27 DEF vars
<1> QED
  BY <1>1, <1>2, <1>3, <1>4, <1>5, <1>6, <1>7, <1>8, <1>9, <1>10, <1>11,
     <1>12, <1>13, <1>14, <1>15, <1>16, <1>17, <1>18, <1>19, <1>20, <1>21,
     <1>22, <1>23, <1>24, <1>25, <1>26, <1>27, <1>28, <1>29
  DEF Next, MainStep, WorkerStep, ClientStep

(* Nothing changes hands while a worker asks its socket.                   *)
LEMMA OnceRecv ==
    ASSUME TypeOK, Once, NEW w \in Worker, Recv(w)
    PROVE  Once'
<1>1. /\ wpc[w] = "recv" /\ UNCHANGED <<tasks, busy>>
      /\ \E next \in {"reply", "close", "rearm"} :
            wpc' = [wpc EXCEPT ![w] = next]
  BY DEF Recv, poolVars
<1>2. \A v \in Worker : \A c : Owns(v, c)' <=> Owns(v, c)
  BY <1>1 DEF Owns, TypeOK
<1> QED
  BY <1>1, <1>2 DEF Once

(* Every step that is not itself an overlap keeps the invariant.  The      *)
(* steps that move a connection from one holder to the next, or change     *)
(* srv->fds, are taken conjunct by conjunct.                               *)
LEMMA CoreStep == IInv /\ [Next]_vars /\ NoRace' => Core'
<1> SUFFICES ASSUME IInv, [Next]_vars, NoRace' PROVE Core'
  OBVIOUS
<1>0. \A w \in Worker : Recv(w) => Once'
  <2>1. \A w \in Worker : Recv(w) => raced' = raced
    BY DEF Recv
  <2> QED
    BY <2>1, OnceRecv DEF IInv, Core, NoRace
<1> USE ServerAssumption
<1> USE DEF IInv, TypeOK, Words, mainVars, connVars, workVars, poolVars,
        clientVars, NoRace, Core, Once, HeldLinked, Watched, Private,
        OpenSockets, Loaded, Snapped, Running, Held, Owns, Open, StillOpen,
        LockFree, WorkerStates, MainStates
<1>1. CASE Snapshot
  BY <1>1 DEF Snapshot
<1>2. CASE Select
  BY <1>2, SMTT(30) DEF Select, Readable, Open
<1>3. CASE SelectFails
  BY <1>3 DEF SelectFails
<1>4. CASE Accept
  <2>1. PICK p \in Backlog, f \in Fd \ Open :
           /\ peer' = [peer EXCEPT ![f] = p]
           /\ phase' = [phase EXCEPT ![p] = "up"]
           /\ newfd' = f
           /\ raced' = IF \E c \in list : sock[c] = f
                       THEN raced \cup {"reuse"} ELSE raced
    BY <1>4, Zenon DEF Accept
  <2>2. \A c \in list : sock[c] # f
    BY <2>1
  <2>3. p # None /\ f \notin fds /\ peer[f] = None
    BY <2>1 DEF Backlog
  <2>11. Once'
    BY <2>1, <2>2, <2>3, <1>4 DEF Accept, Backlog
  <2>12. HeldLinked'
    BY <2>1, <2>2, <2>3, <1>4 DEF Accept, Backlog
  <2>13. Watched'
    BY <2>1, <2>2, <2>3, <1>4 DEF Accept, Backlog
  <2>14. Private'
    BY <2>1, <2>2, <2>3, <1>4 DEF Accept, Backlog
  <2>15. OpenSockets'
    BY <2>1, <2>2, <2>3, <1>4 DEF Accept, Backlog
  <2>16. Loaded'
    BY <2>1, <2>2, <2>3, <1>4 DEF Accept, Backlog
  <2>17. Snapped'
    BY <2>1, <2>2, <2>3, <1>4 DEF Accept, Backlog
  <2>18. Running'
    BY <2>1, <2>2, <2>3, <1>4 DEF Accept, Backlog
  <2> QED
    BY <2>11, <2>12, <2>13, <2>14, <2>15, <2>16, <2>17, <2>18
<1>5. CASE AcceptFails
  BY <1>5 DEF AcceptFails, NoneFree
<1>6. CASE Admit
  <2>1. LockFree /\ fds' = fds \cup {newfd} /\ raced' = raced
    BY <1>6 DEF Admit, Acquire, ListAppend
  <2>2. CASE pool = {} /\ UNCHANGED <<pool, list, sock>>
    <3>11. Once'
      BY <2>1, <2>2, <1>6 DEF Admit, Acquire, ListAppend
    <3>12. HeldLinked'
      BY <2>1, <2>2, <1>6 DEF Admit, Acquire, ListAppend
    <3>13. Watched'
      BY <2>1, <2>2, <1>6 DEF Admit, Acquire, ListAppend
    <3>14. Private'
      BY <2>1, <2>2, <1>6 DEF Admit, Acquire, ListAppend
    <3>15. OpenSockets'
      BY <2>1, <2>2, <1>6 DEF Admit, Acquire, ListAppend
    <3>16. Loaded'
      BY <2>1, <2>2, <1>6 DEF Admit, Acquire, ListAppend
    <3>17. Snapped'
      BY <2>1, <2>2, <1>6 DEF Admit, Acquire, ListAppend
    <3>18. Running'
      BY <2>1, <2>2, <1>6 DEF Admit, Acquire, ListAppend
    <3> QED
      BY <3>11, <3>12, <3>13, <3>14, <3>15, <3>16, <3>17, <3>18
  <2>3. ASSUME NEW c \in pool,
               pool' = pool \ {c}, list' = list \cup {c},
               sock' = [sock EXCEPT ![c] = newfd]
        PROVE  Core'
    <3>0. c \in Conn /\ c \notin list
      BY <2>1, <2>3
    <3>1. c \notin list /\ ~Held(c)
      BY <2>1, <3>0
    <3>11. Once'
      BY <2>1, <2>3, <3>1, <1>6 DEF Admit, Acquire, ListAppend
    <3>12. HeldLinked'
      BY <2>1, <2>3, <3>1, <1>6 DEF Admit, Acquire, ListAppend
    <3>13. Watched'
      BY <2>1, <2>3, <3>1, <1>6 DEF Admit, Acquire, ListAppend
    <3>14. Private'
      BY <2>1, <2>3, <3>1, <1>6 DEF Admit, Acquire, ListAppend
    <3>15. OpenSockets'
      BY <2>1, <2>3, <3>1, <1>6 DEF Admit, Acquire, ListAppend
    <3>16. Loaded'
      BY <2>1, <2>3, <3>1, <1>6 DEF Admit, Acquire, ListAppend
    <3>17. Snapped'
      BY <2>1, <2>3, <3>1, <1>6 DEF Admit, Acquire, ListAppend
    <3>18. Running'
      BY <2>1, <2>3, <3>1, <1>6 DEF Admit, Acquire, ListAppend
    <3> QED
      BY <3>11, <3>12, <3>13, <3>14, <3>15, <3>16, <3>17, <3>18
  <2> QED
    BY <1>6, <2>2, <2>3 DEF Admit, Acquire, ListAppend
<1>7. CASE Dispatch
  <2>1. sock[cur] # None /\ Bit(cur) = sock[cur] /\ raced' = raced
    BY <1>7 DEF Dispatch, MayRace, Bit
  <2>2. /\ cur \in list /\ ~Held(cur)
        /\ sock[cur] \in fds
        /\ fds' = fds \ {sock[cur]}
        /\ tasks' = Append(tasks, cur)
    BY <1>7, <2>1 DEF Dispatch, Pool!Submit
  <2>3. /\ DOMAIN tasks' = DOMAIN tasks \cup {Len(tasks) + 1}
        /\ \A i \in DOMAIN tasks : tasks'[i] = tasks[i]
        /\ tasks'[Len(tasks) + 1] = cur
        /\ Len(tasks) + 1 \notin DOMAIN tasks
    BY <2>2
  <2>11. Once'
    BY <2>1, <2>2, <2>3, <1>7 DEF Dispatch, Pool!Submit
  <2>12. HeldLinked'
    BY <2>1, <2>2, <2>3, <1>7 DEF Dispatch, Pool!Submit
  <2>13. Watched'
    BY <2>1, <2>2, <2>3, <1>7 DEF Dispatch, Pool!Submit
  <2>14. Private'
    BY <2>1, <2>2, <2>3, <1>7 DEF Dispatch, Pool!Submit
  <2>15. OpenSockets'
    BY <2>1, <2>2, <2>3, <1>7 DEF Dispatch, Pool!Submit
  <2>16. Loaded'
    BY <2>1, <2>2, <2>3, <1>7 DEF Dispatch, Pool!Submit
  <2>17. Snapped'
    BY <2>1, <2>2, <2>3, <1>7 DEF Dispatch, Pool!Submit
  <2>18. Running'
    BY <2>1, <2>2, <2>3, <1>7 DEF Dispatch, Pool!Submit
  <2> QED
    BY <2>11, <2>12, <2>13, <2>14, <2>15, <2>16, <2>17, <2>18
<1>8. CASE Skip
  BY <1>8 DEF Skip
<1>28. CASE IsSet
  <2>1. sock[cur] # None /\ sock[cur] \in rfds /\ raced' = raced
    BY <1>28 DEF IsSet, MayRace, Bit
  <2> QED
    BY <1>28, <2>1 DEF IsSet
<1>29. CASE CleanSocket
  BY <1>29 DEF CleanSocket
<1>9. CASE VisitEnd
  BY <1>9 DEF VisitEnd
<1>10. CASE CleanPool
  BY <1>10 DEF CleanPool, Pool!Close
<1>11. CASE CleanEnd
  BY <1>11 DEF CleanEnd
<1>12. ASSUME NEW c \in Conn, Reclaim(c) PROVE Core'
  BY <1>12 DEF Reclaim, ListRemove, Return
<1>13. ASSUME NEW c \in Conn, Examine(c) PROVE Core'
  BY <1>13 DEF Examine
<1>14. ASSUME NEW c \in Conn, CleanConn(c) PROVE Core'
  BY <1>14 DEF CleanConn, CloseFd, Open
<1>15. ASSUME NEW w \in Worker, Start(w) PROVE Core'
  <2>1. /\ tasks # <<>> /\ busy[w] = None
        /\ tasks' = Tail(tasks)
        /\ busy' = [busy EXCEPT ![w] = tasks[1]]
    BY <1>15 DEF Start, Pool!Start
  <2>2. /\ \A i \in DOMAIN tasks' :
              i + 1 \in DOMAIN tasks /\ tasks'[i] = tasks[i + 1]
        /\ \A i \in DOMAIN tasks :
              i = 1 \/ (i - 1 \in DOMAIN tasks' /\ tasks'[i - 1] = tasks[i])
        /\ 1 \in DOMAIN tasks
    BY <2>1
  <2>11. Once'
    BY <2>1, <2>2, <1>15 DEF Start, Pool!Start
  <2>12. HeldLinked'
    BY <2>1, <2>2, <1>15 DEF Start, Pool!Start
  <2>13. Watched'
    <3>1. SUFFICES ASSUME NEW c \in list, sock[c] # None, sock[c] \notin fds,
                          Held(c)
                   PROVE  Held(c)'
      BY <1>15 DEF Start
    <3>2. CASE \E i \in DOMAIN tasks : tasks[i] = c
      <4>1. PICK i \in DOMAIN tasks : tasks[i] = c
        BY <3>2
      <4>2. CASE i = 1
        <5>1. busy'[w] = c /\ wpc'[w] = "recv"
          BY <2>1, <4>1, <4>2, <1>15 DEF Start
        <5> QED
          BY <5>1
      <4>3. CASE i # 1
        BY <2>2, <4>1, <4>3
      <4> QED
        BY <4>2, <4>3
    <3>3. CASE \E v \in Worker : Owns(v, c)
      <4>1. PICK v \in Worker : Owns(v, c)
        BY <3>3
      <4>2. v # w
        BY <4>1, <2>1
      <4>3. busy'[v] = c /\ wpc'[v] # "notify"
        BY <4>1, <4>2, <2>1, <1>15 DEF Start
      <4> QED
        BY <4>3
    <3> QED
      BY <3>1, <3>2, <3>3
  <2>14. Private'
    BY <2>1, <2>2, <1>15 DEF Start, Pool!Start
  <2>15. OpenSockets'
    BY <2>1, <2>2, <1>15 DEF Start, Pool!Start
  <2>16. Loaded'
    BY <2>1, <2>2, <1>15 DEF Start, Pool!Start
  <2>17. Snapped'
    BY <2>1, <2>2, <1>15 DEF Start, Pool!Start
  <2>18. Running'
    BY <2>1, <2>2, <1>15 DEF Start, Pool!Start
  <2> QED
    BY <2>11, <2>12, <2>13, <2>14, <2>15, <2>16, <2>17, <2>18
<1>16. ASSUME NEW w \in Worker, Retire(w) PROVE Core'
  BY <1>16 DEF Retire, Pool!Retire
<1>17. ASSUME NEW w \in Worker, Recv(w) PROVE Core'
  <2>11. Once'
    <3> HIDE DEF Once, Recv
    <3> QED
      BY <1>0, <1>17
  <2>12. HeldLinked'
    BY <1>17 DEF Recv
  <2>13. Watched'
    BY <1>17 DEF Recv
  <2>14. Private'
    BY <1>17 DEF Recv
  <2>15. OpenSockets'
    BY <1>17 DEF Recv
  <2>16. Loaded'
    BY <1>17 DEF Recv
  <2>17. Snapped'
    BY <1>17 DEF Recv
  <2>18. Running'
    BY <1>17 DEF Recv
  <2> QED
    BY <2>11, <2>12, <2>13, <2>14, <2>15, <2>16, <2>17, <2>18
<1>18. ASSUME NEW w \in Worker, Reply(w) PROVE Core'
  <2>1. \E next \in {"recv", "close"} : wpc' = [wpc EXCEPT ![w] = next]
    BY <1>18 DEF Reply
  <2>11. Once'
    BY <2>1, <1>18 DEF Reply
  <2>12. HeldLinked'
    BY <2>1, <1>18 DEF Reply
  <2>13. Watched'
    BY <2>1, <1>18 DEF Reply
  <2>14. Private'
    BY <2>1, <1>18 DEF Reply
  <2>15. OpenSockets'
    BY <2>1, <1>18 DEF Reply
  <2>16. Loaded'
    BY <2>1, <1>18 DEF Reply
  <2>17. Snapped'
    BY <2>1, <1>18 DEF Reply
  <2>18. Running'
    BY <2>1, <1>18 DEF Reply
  <2> QED
    BY <2>11, <2>12, <2>13, <2>14, <2>15, <2>16, <2>17, <2>18
<1>19. ASSUME NEW w \in Worker, Close(w) PROVE Core'
  BY <1>19 DEF Close, CloseFd, Open
<1>20. ASSUME NEW w \in Worker, Forget(w) PROVE Core'
  BY <1>20 DEF Forget, Pool!Finish
<1>21. ASSUME NEW w \in Worker, Rearm(w) PROVE Core'
  BY <1>21 DEF Rearm
<1>22. ASSUME NEW w \in Worker, Store(w) PROVE Core'
  <2>0. busy[w] \in Conn /\ Owns(w, busy[w])
    BY <1>22 DEF Store
  <2>1. /\ busy[w] \in list /\ sock[busy[w]] # None
        /\ Bit(busy[w]) = sock[busy[w]]
        /\ mpc # "admit" /\ raced' = raced
    <3>1. mpc # "admit" /\ raced' = raced
      BY <1>22 DEF Store
    <3>2. busy[w] \in list /\ sock[busy[w]] # None
      BY <2>0, <3>1
    <3> QED
      BY <3>1, <3>2 DEF Bit
  <2>2. fds' = fds \cup {sock[busy[w]]}
    BY <1>22, <2>1 DEF Store
  <2>11. Once'
    BY <2>1, <2>2, <1>22 DEF Store
  <2>12. HeldLinked'
    BY <2>1, <2>2, <1>22 DEF Store
  <2>13. Watched'
    BY <2>1, <2>2, <1>22 DEF Store
  <2>14. Private'
    BY <2>1, <2>2, <1>22 DEF Store
  <2>15. OpenSockets'
    BY <2>1, <2>2, <1>22 DEF Store
  <2>16. Loaded'
    BY <2>1, <2>2, <1>22 DEF Store
  <2>17. Snapped'
    BY <2>1, <2>2, <1>22 DEF Store
  <2>18. Running'
    BY <2>1, <2>2, <1>22 DEF Store
  <2> QED
    BY <2>11, <2>12, <2>13, <2>14, <2>15, <2>16, <2>17, <2>18
<1>23. ASSUME NEW w \in Worker, Notify(w) PROVE Core'
  BY <1>23 DEF Notify, Pool!Finish
<1>24. ASSUME NEW p \in Client, Connect(p) PROVE Core'
  BY <1>24 DEF Connect
<1>25. ASSUME NEW p \in Client, Ask(p) PROVE Core'
  BY <1>25 DEF Ask
<1>26. ASSUME NEW p \in Client, HangUp(p) PROVE Core'
  BY <1>26 DEF HangUp
<1>27. CASE UNCHANGED vars
  BY <1>27 DEF vars
<1> QED
  BY <1>1, <1>2, <1>3, <1>4, <1>5, <1>6, <1>7, <1>8, <1>9, <1>10, <1>11,
     <1>12, <1>13, <1>14, <1>15, <1>16, <1>17, <1>18, <1>19, <1>20, <1>21,
     <1>22, <1>23, <1>24, <1>25, <1>26, <1>27, <1>28, <1>29
  DEF Next, MainStep, WorkerStep, ClientStep

(* The invariant holds initially ...                                       *)
LEMMA Initially == Init => IInv
<1> SUFFICES ASSUME Init PROVE IInv
  OBVIOUS
<1> USE ServerAssumption DEF Init, Pool!Init
<1>1. TypeOK
  <2>1. tasks \in Seq(Conn) /\ pipe \in 0 .. PipeSize
    OBVIOUS
  <2> QED
    BY <2>1 DEF TypeOK, MainStates, WorkerStates, Words
<1>2. Core
  BY DEF Core, Once, HeldLinked, Watched, Private, OpenSockets, Loaded,
     Snapped, Running, Held, Owns, StillOpen
<1> QED
  BY <1>1, <1>2 DEF IInv

(* ... and always.                                                         *)
LEMMA Invariant == Spec => []IInv
<1>1. IInv /\ [Next]_vars => IInv'
  BY TypeStep, CoreStep DEF IInv
<1> QED
  BY <1>1, Initially, PTL DEF Spec

(* Types, also after an overlap and during the shutdown.                   *)
THEOREM TypeSafe == Spec => []TypeOK
<1>1. IInv => TypeOK
  BY DEF IInv
<1> QED
  BY <1>1, Invariant, PTL

(* What the server does with its pool, TaskService allows; so what         *)
(* ThreadPool implements is all the server needs of it.                    *)
THEOREM UsesThePool == Spec => Pool!Spec
<1>1. Init => Pool!Init
  BY DEF Init
<1>2. ASSUME TypeOK, [Next]_vars PROVE [Pool!Next]_(Pool!svars)
  <2> USE DEF Pool!svars, poolVars
  <2>1. CASE MainStep
    <3>1. CASE Dispatch
      <4>1. cur \in Conn
        BY <1>2, <3>1 DEF Dispatch, TypeOK
      <4> QED
        BY <3>1, <4>1 DEF Dispatch, Pool!Next
    <3> QED
      BY <2>1, <3>1 DEF MainStep, Snapshot, Select, SelectFails, Accept,
         AcceptFails, NoneFree, Admit, Skip, IsSet, VisitEnd, CleanSocket,
         CleanPool, CleanEnd, Reclaim, Examine, CleanConn, Pool!Next
  <2>2. ASSUME NEW w \in Worker, WorkerStep(w)
        PROVE  Pool!Next \/ UNCHANGED Pool!svars
    BY <2>2 DEF WorkerStep, Start, Retire, Recv, Reply, Close, Forget, Rearm,
       Store, Notify, Pool!Next
  <2>3. ASSUME NEW p \in Client, ClientStep(p) PROVE UNCHANGED Pool!svars
    BY <2>3 DEF ClientStep, Connect, Ask, HangUp
  <2>4. CASE UNCHANGED vars
    BY <2>4 DEF vars
  <2> QED
    BY <1>2, <2>1, <2>2, <2>3, <2>4 DEF Next
<1> QED
  BY <1>1, <1>2, TypeSafe, PTL DEF Spec, Pool!Spec

(* Between two traversals nothing is left to visit.                        *)
Visited ==
    mpc \notin {"visit", "test", "clear", "clean", "unset"} => visit = {}

LEMMA VisitedStep == Visited /\ [Next]_vars => Visited'
<1> SUFFICES ASSUME Visited, [Next]_vars PROVE Visited'
  OBVIOUS
<1> USE DEF Visited, mainVars
<1>1. CASE Snapshot \/ Accept \/ AcceptFails \/ Admit \/ VisitEnd \/ CleanEnd
  BY <1>1 DEF Snapshot, Accept, AcceptFails, NoneFree, Admit, VisitEnd, CleanEnd
<1>2. CASE Select \/ SelectFails
  BY <1>2 DEF Select, SelectFails
<1>3. CASE Dispatch \/ Skip \/ IsSet \/ CleanSocket \/ CleanPool
  BY <1>3 DEF Dispatch, Skip, IsSet, CleanSocket, CleanPool
<1>4. ASSUME NEW c \in Conn, Reclaim(c) \/ Examine(c) \/ CleanConn(c)
      PROVE  Visited'
  BY <1>4 DEF Reclaim, Examine, CleanConn
<1>5. ASSUME NEW w \in Worker, WorkerStep(w) PROVE Visited'
  BY <1>5 DEF WorkerStep, Start, Retire, Recv, Reply, Close, Forget, Rearm,
     Store, Notify
<1>6. ASSUME NEW p \in Client, ClientStep(p) PROVE Visited'
  BY <1>6 DEF ClientStep, Connect, Ask, HangUp
<1>7. CASE UNCHANGED vars
  BY <1>7 DEF vars
<1> QED
  BY <1>1, <1>2, <1>3, <1>4, <1>5, <1>6, <1>7 DEF Next, MainStep

(* What the main thread does with pool and list, BlockSets allows; so what *)
(* Blocks implements is all the server needs of them.                      *)
THEOREM UsesTheCells == Spec => TurnsOver
<1>1. Init => Cells!Init /\ Visited
  BY DEF Init, Cells!Init, Visited
<1>2. ASSUME TypeOK, Visited, [Next]_vars
      PROVE  [Cells!Next]_(Cells!blockVars)
  <2> USE DEF Cells!blockVars, connVars
  <2>1. CASE Select \/ SelectFails
    <3>1. visit = {} /\ visit' \in {visit, list} /\ UNCHANGED <<pool, list>>
      BY <1>2, <2>1 DEF Visited, Select, SelectFails
    <3>2. Cells!Begin \/ UNCHANGED Cells!blockVars
      BY <3>1 DEF Cells!Begin
    <3> QED
      BY <3>2 DEF Cells!Next
  <2>2. CASE Admit
    <3>1. visit = {} /\ visit' = list'
      BY <1>2, <2>2 DEF Visited, Admit
    <3>2. CASE UNCHANGED <<pool, list>>
      <4>1. Cells!Begin
        BY <3>1, <3>2 DEF Cells!Begin
      <4> QED
        BY <4>1 DEF Cells!Next
    <3>3. ASSUME NEW c \in pool, Acquire(c), ListAppend(c) PROVE Cells!Next
      <4>1. Cells!Admit(c)
        BY <3>1, <3>3 DEF Cells!Admit, Acquire, ListAppend
      <4>2. c \in Conn
        BY <1>2 DEF TypeOK
      <4> QED
        BY <4>1, <4>2 DEF Cells!Next
    <3> QED
      BY <2>2, <3>2, <3>3 DEF Admit
  <2>3. ASSUME NEW c \in Conn, Reclaim(c) PROVE Cells!Next
    <3>1. Cells!Reclaim(c)
      BY <2>3 DEF Reclaim, Cells!Reclaim, ListRemove, Return
    <3> QED
      BY <3>1 DEF Cells!Next
  <2>4. ASSUME NEW c \in Conn, Examine(c) \/ CleanConn(c) PROVE Cells!Next
    <3>1. Cells!Pass(c)
      BY <2>4 DEF Examine, CleanConn, Cells!Pass
    <3> QED
      BY <3>1 DEF Cells!Next
  <2>5. CASE Snapshot \/ Accept \/ AcceptFails \/ Dispatch \/ Skip \/ IsSet
             \/ VisitEnd \/ CleanSocket \/ CleanPool \/ CleanEnd
    BY <2>5 DEF Snapshot, Accept, AcceptFails, NoneFree, Dispatch, Skip, IsSet,
       VisitEnd, CleanSocket, CleanPool, CleanEnd
  <2>6. ASSUME NEW w \in Worker, WorkerStep(w)
        PROVE  UNCHANGED Cells!blockVars
    BY <2>6 DEF WorkerStep, Start, Retire, Recv, Reply, Close, Forget, Rearm,
       Store, Notify, mainVars
  <2>7. ASSUME NEW p \in Client, ClientStep(p) PROVE UNCHANGED Cells!blockVars
    BY <2>7 DEF ClientStep, Connect, Ask, HangUp, mainVars
  <2>8. CASE UNCHANGED vars
    BY <2>8 DEF vars, mainVars
  <2> QED
    BY <1>2, <2>1, <2>2, <2>3, <2>4, <2>5, <2>6, <2>7, <2>8 DEF Next, MainStep
<1> QED
  BY <1>1, <1>2, TypeSafe, VisitedStep, PTL DEF Spec, TurnsOver, Cells!Spec

(* The shutdown does not depend on the rest of the invariant.              *)
Going ==
    /\ closed <=> mpc \in {"join", "down"}
    /\ \A w \in retired : busy[w] = None
    /\ retired # {} => closed /\ tasks = <<>>
    /\ mpc = "down" => retired = Worker

(* Only the last two steps of server_clean and the workers' exits matter.  *)
LEMMA GoingStep == TypeOK /\ Going /\ [Next]_vars => Going'
<1> SUFFICES ASSUME TypeOK, Going, [Next]_vars PROVE Going'
  OBVIOUS
<1> USE DEF Going, TypeOK, mainVars, poolVars, workVars
<1>1. CASE MainStep
  <2>1. CASE Dispatch
    BY <2>1 DEF Dispatch, Pool!Submit
  <2>2. CASE CleanPool
    BY <2>2 DEF CleanPool, Pool!Close
  <2>3. CASE CleanEnd
    BY <2>3 DEF CleanEnd
  <2>4. CASE ~(Dispatch \/ CleanPool \/ CleanEnd)
    BY <1>1, <2>4 DEF MainStep, Snapshot, Select, SelectFails, Accept,
       AcceptFails, NoneFree, Admit, Skip, IsSet, VisitEnd, Reclaim, Examine,
       CleanConn, CleanSocket
  <2> QED
    BY <2>1, <2>2, <2>3, <2>4
<1>2. ASSUME NEW w \in Worker, WorkerStep(w) PROVE Going'
  <2>1. CASE Start(w)
    BY <2>1 DEF Start, Pool!Start
  <2>2. CASE Retire(w)
    BY <2>2 DEF Retire, Pool!Retire
  <2>3. CASE Forget(w) \/ Notify(w)
    BY <2>3 DEF Forget, Notify, Pool!Finish
  <2>4. CASE Recv(w) \/ Reply(w) \/ Close(w) \/ Rearm(w) \/ Store(w)
    <3>1. UNCHANGED <<mpc, poolVars>>
      BY <2>4, Zenon DEF Recv, Reply, Close, Rearm, Store
    <3> QED
      BY <3>1
  <2> QED
    BY <1>2, <2>1, <2>2, <2>3, <2>4 DEF WorkerStep
<1>3. ASSUME NEW p \in Client, ClientStep(p) PROVE Going'
  BY <1>3 DEF ClientStep, Connect, Ask, HangUp
<1>4. CASE UNCHANGED vars
  BY <1>4 DEF vars
<1> QED
  BY <1>1, <1>2, <1>3, <1>4 DEF Next

(* However the loop was left, the connections are freed only when no       *)
(* worker is left to touch one.                                            *)
THEOREM FreedAfterTheLastWorker == Worker # {} => (Spec => []FreedQuiet)
<1> SUFFICES ASSUME Worker # {} PROVE Spec => []FreedQuiet
  OBVIOUS
<1>1. Init => Going
  BY DEF Init, Pool!Init, Going
<1>2. Going => FreedQuiet
  BY DEF Going, FreedQuiet, Queued
<1> QED
  BY <1>1, <1>2, GoingStep, TypeSafe, PTL DEF Spec

(* Without an overlap no connection_info_t is ever in the hands of two     *)
(* threads, queued twice, or touched after it went back to the pool.       *)
THEOREM EveryConnectionHasOneOwner == Spec => []OneOwner
<1>1. ASSUME IInv, NoRace
      PROVE  /\ (Queued \cup Owned) \cap (Armed \cup pool) = {}
             /\ Queued \cup Owned \subseteq list
             /\ Queued \cap Owned = {}
  <2> USE <1>1 DEF IInv, Core
  <2>1. \A c \in Queued \cup Owned : c \in Conn /\ Held(c)
    BY DEF Queued, Owned, Held, TypeOK
  <2>2. \A c \in Queued \cup Owned : c \in list /\ sock[c] \notin fds
    BY <2>1 DEF HeldLinked
  <2>3. Queued \cap Owned = {}
    BY DEF Queued, Owned, Once
  <2> QED
    BY <2>2, <2>3 DEF Armed, Private
<1>2. IInv => OneOwner
  BY <1>1 DEF OneOwner, IInv, Core, Once
<1> QED
  BY <1>2, Invariant, PTL

(* Without an overlap no established connection is forgotten: select       *)
(* watches it, or a worker has it or will get it.                          *)
THEOREM NoConnectionIsForgotten == Spec => []NoStranded
<1>1. ASSUME IInv, NoRace, NEW c \in list, sock[c] # None
      PROVE  c \in Armed \cup Queued \cup Owned
  <2>1. c \in Conn /\ (sock[c] \in fds \/ Held(c))
    BY <1>1 DEF IInv, TypeOK, Core, Watched
  <2> QED
    BY <2>1 DEF Armed, Queued, Owned, Held
<1>2. IInv => NoStranded
  BY <1>1 DEF NoStranded
<1> QED
  BY <1>2, Invariant, PTL

(* Without an overlap select never sees a closed descriptor, and the       *)
(* server never leaves its loop.                                           *)
THEOREM TheLoopGoesOn == Spec => []SelectSafe
<1>1. IInv => SelectSafe
  BY DEF IInv, TypeOK, Words, Core, Running, Snapped, OpenSockets, SelectSafe,
     Open
<1> QED
  BY <1>1, Invariant, PTL

(* Without an overlap a response is written to the connection its request  *)
(* came from.                                                              *)
THEOREM AnswersGoHome == Spec => []AnswersTheAsker
<1>1. ASSUME IInv, NoRace, NEW w \in Worker, wpc[w] = "reply"
      PROVE  /\ sock[busy[w]] \in Open
             /\ peer[sock[busy[w]]] = wreq[w]
  <2> USE <1>1 DEF IInv, Core, TypeOK
  <2>1. busy[w] \in Conn /\ Held(busy[w])
    BY DEF Held, Owns
  <2>2. sock[busy[w]] \in Fd
    BY <2>1 DEF HeldLinked
  <2>3. peer[sock[busy[w]]] # None /\ peer[sock[busy[w]]] = wreq[w]
    BY DEF OpenSockets, StillOpen
  <2> QED
    BY <2>2, <2>3 DEF Open
<1>2. IInv => AnswersTheAsker
  BY <1>1 DEF AnswersTheAsker
<1> QED
  BY <1>2, Invariant, PTL
=============================================================================
