------------------------------- MODULE Server -------------------------------
(***************************************************************************)
(* server.c: the main thread's select loop (server_entry,                  *)
(* server_check_conn_in), the worker's service of one connection           *)
(* (server_serv_client) and the clients and the kernel around them.        *)
(*                                                                         *)
(* The bytes of requests and responses are left out: a recv either         *)
(* delivers a whole request, or the end of the stream, or nothing.  A      *)
(* client waits for the response before it asks again.  What is kept is    *)
(* who may touch a connection_info_t, a descriptor and a bit of srv->fds,  *)
(* step by step, because main thread and workers share them.               *)
(*                                                                         *)
(* All bits of srv->fds are taken to be in one machine word, as they are   *)
(* for descriptors below 64.  The bits of the listening socket and of the  *)
(* pipe are always set and are not part of `fds'.                          *)
(***************************************************************************)
EXTENDS Naturals, Sequences, FiniteSets

CONSTANTS Conn,       (* the blocks of srv->connections *)
          Fd,         (* descriptors the kernel can give to accept *)
          Worker,     (* the threads of srv->threads *)
          Client,     (* connection attempts by clients *)
          PipeSize,   (* how many bytes the notification pipe holds *)
          MaxTasks,   (* bound: no task is added beyond it *)
          BitOfNone,  (* the descriptor whose bit FD_ISSET(-1) looks at *)
          None        (* NULL, -1, nothing *)

ASSUME ServerAssumption ==
    /\ None \notin Conn \cup Fd \cup Client
    /\ BitOfNone \in Fd \cup {None}
    /\ PipeSize \in Nat \ {0}
    /\ MaxTasks \in Nat

VARIABLES
    (* main thread *)
    mpc,      (* where it is in the loop of server_entry *)
    rfds,     (* the local fd_set *)
    newfd,    (* client_fd *)
    mreg,     (* srv->fds as loaded by FD_SET(client_fd, &srv->fds) *)
    visit,    (* connections list_traverse has still to visit *)
    cur,      (* the connection main is at, between two looks at its socket *)
    (* shared memory *)
    fds,      (* srv->fds *)
    pool,     (* free blocks of srv->connections *)
    list,     (* srv->conn_list *)
    sock,     (* conn->socket *)
    tasks,    (* srv->threads: connections to serve, *)
    closed,   (* ... its destruction has begun, *)
    retired,  (* ... the workers that are gone *)
    (* workers *)
    busy,     (* the connection a worker serves *)
    wpc,      (* where it is in server_serv_client *)
    wreg,     (* srv->fds as loaded by FD_SET under fd_lock *)
    wreq,     (* the client whose request the worker answers *)
    (* kernel and clients *)
    peer,     (* the client at the other end of an open descriptor *)
    phase,    (* a client: off, in the backlog, accepted *)
    inbox,    (* a request of the client waits in the socket buffer *)
    fin,      (* the client has closed its end *)
    due,      (* the client waits for a response *)
    pipe,     (* bytes in the notification pipe *)
    alive,    (* the process has not been killed by SIGPIPE *)
    (* history *)
    raced     (* the unprotected overlaps that have happened *)

mainVars   == <<mpc, rfds, newfd, mreg, visit, cur>>
connVars   == <<pool, list>>
workVars   == <<wpc, wreg, wreq>>
clientVars == <<phase, inbox, fin, due>>
poolVars   == <<tasks, busy, closed, retired>>
vars == <<mainVars, fds, connVars, sock, poolVars, workVars, peer,
          clientVars, pipe, alive, raced>>

(* The pool as the server sees it; ThreadPool implements this module.      *)
Pool == INSTANCE TaskService WITH Task <- Conn, NoTask <- None, pending <- tasks

(* What keeps the connections; Blocks implements this module.              *)
Cells == INSTANCE BlockSets WITH Block <- Conn

Init ==
    /\ mpc = "top" /\ rfds = {} /\ newfd = None /\ mreg = {}
    /\ visit = {} /\ cur = None
    /\ fds = {}
    /\ pool = Conn /\ list = {} /\ sock = [c \in Conn |-> None]
    /\ Pool!Init
    /\ wpc = [w \in Worker |-> "idle"]
    /\ wreg = {} /\ wreq = [w \in Worker |-> None]
    /\ peer = [f \in Fd |-> None]
    /\ phase = [p \in Client |-> "off"]
    /\ inbox = [p \in Client |-> FALSE]
    /\ fin = [p \in Client |-> FALSE]
    /\ due = [p \in Client |-> FALSE]
    /\ pipe = 0 /\ alive = TRUE /\ raced = {}

Open     == { f \in Fd : peer[f] # None }
Backlog  == { p \in Client : phase[p] = "syn" }
Readable == { f \in Open : inbox[peer[f]] \/ fin[peer[f]] }

(* srv->fd_lock is seen only where a worker holds it across two steps.     *)
LockFree == \A w \in Worker : wpc[w] # "store"

(* The bit of an fd_set that FD_SET, FD_CLR and FD_ISSET use for conn->socket. *)
Bit(c) == IF sock[c] = None THEN BitOfNone ELSE sock[c]

(* object_pool_acquire gives any free block, and none when none is free;   *)
(* the order of the cells in the pool and in the list is left out.         *)
Acquire(c)    == pool' = pool \ {c}
Return(c)     == pool' = pool \cup {c}
ListAppend(c) == list' = list \cup {c}
ListRemove(c) == list' = list \ {c}

-----------------------------------------------------------------------------
(* The main thread.                                                        *)
Snapshot ==
    /\ mpc = "top"
    /\ LockFree
    /\ rfds' = fds
    /\ mpc' = "select"
    /\ UNCHANGED <<newfd, mreg, visit, cur, fds, connVars, sock, poolVars,
                   workVars, peer, clientVars, pipe, alive, raced>>

(* select blocks until something is readable; one byte is read from the    *)
(* pipe; when nothing else is readable the loop starts again.              *)
Select ==
    /\ mpc = "select"
    /\ rfds \subseteq Open
    /\ pipe > 0 \/ Backlog # {} \/ rfds \cap Readable # {}
    /\ rfds' = rfds \cap Readable
    /\ pipe' = IF pipe > 0 THEN pipe - 1 ELSE 0
    /\ \/ Backlog # {} /\ mpc' = "accept" /\ visit' = visit
       \/ Backlog = {} /\ rfds' # {} /\ mpc' = "visit" /\ visit' = list
       \/ Backlog = {} /\ rfds' = {} /\ mpc' = "top" /\ visit' = visit
    /\ UNCHANGED <<newfd, mreg, cur, fds, connVars, sock, poolVars,
                   workVars, peer, clientVars, alive, raced>>

(* A closed descriptor in the set: select fails, the loop ends and         *)
(* server_clean begins.                                                    *)
SelectFails ==
    /\ mpc = "select"
    /\ ~(rfds \subseteq Open)
    /\ mpc' = "clean"
    /\ rfds' = {}
    /\ visit' = list
    /\ UNCHANGED <<newfd, mreg, cur, fds, connVars, sock, poolVars,
                   workVars, peer, clientVars, pipe, alive, raced>>

(* accept, up to the load of the word that FD_SET(client_fd, &srv->fds)    *)
(* modifies without the lock.                                              *)
Accept ==
    /\ mpc = "accept"
    /\ \E p \in Backlog, f \in Fd \ Open :
          /\ peer' = [peer EXCEPT ![f] = p]
          /\ phase' = [phase EXCEPT ![p] = "up"]
          /\ newfd' = f
          /\ raced' = IF \E c \in list : sock[c] = f
                      THEN raced \cup {"reuse"} ELSE raced
    /\ mreg' = fds
    /\ mpc' = "admit"
    /\ UNCHANGED <<rfds, visit, cur, fds, connVars, sock, poolVars,
                   workVars, inbox, fin, due, pipe, alive>>

(* The file a worker is sending needs a descriptor too, and it may be one  *)
(* of those the sockets leave.                                             *)
NoneFree == mpc = "accept" /\
    Cardinality(Fd \ Open) <= Cardinality({ w \in Worker : wpc[w] = "reply" })

(* EMFILE: `continue', nobody is visited in this round.                    *)
AcceptFails ==
    /\ NoneFree
    /\ mpc' = "top"
    /\ rfds' = {}
    /\ UNCHANGED <<newfd, mreg, visit, cur, fds, connVars, sock, poolVars,
                   workVars, peer, clientVars, pipe, alive, raced>>

(* Faulty: takes a block that is linked in conn_list.                      *)
AdmitAny ==
    /\ mpc = "admit"
    /\ fds' = mreg \cup {newfd}
    /\ \E c \in Conn :
             /\ Acquire(c) /\ ListAppend(c)
             /\ sock' = [sock EXCEPT ![c] = newfd]
    /\ visit' = list'
    /\ mpc' = "visit"
    /\ newfd' = None /\ mreg' = {}
    /\ raced' = IF LockFree THEN raced ELSE raced \cup {"torn"}
    /\ UNCHANGED <<rfds, cur, poolVars, workVars, peer, clientVars, pipe,
                   alive>>

(* The store of FD_SET, object_pool_acquire and list_append.  With an      *)
(* empty pool the descriptor stays in srv->fds and belongs to nobody.      *)
Admit ==
    /\ mpc = "admit"
    /\ fds' = mreg \cup {newfd}
    /\ \/ /\ pool = {}
          /\ UNCHANGED <<connVars, sock>>
       \/ \E c \in pool :
             /\ Acquire(c) /\ ListAppend(c)
             /\ sock' = [sock EXCEPT ![c] = newfd]
    /\ visit' = list'
    /\ mpc' = "visit"
    /\ newfd' = None /\ mreg' = {}
    /\ raced' = IF LockFree THEN raced ELSE raced \cup {"torn"}
    /\ UNCHANGED <<rfds, cur, poolVars, workVars, peer, clientVars, pipe,
                   alive>>

(* Faulty: gives the block back and leaves it linked in conn_list.         *)
ReclaimLinked(c) ==
    /\ mpc = "visit"
    /\ c \in visit
    /\ sock[c] = None
    /\ visit' = visit \ {c}
    /\ Return(c) /\ UNCHANGED list
    /\ UNCHANGED <<mpc, rfds, newfd, mreg, cur, fds, sock, poolVars,
                   workVars, peer, clientVars, pipe, alive, raced>>

(* server_check_conn_in, first test of conn->socket: a closed connection   *)
(* is unlinked and goes back to the pool, ...                              *)
Reclaim(c) ==
    /\ mpc = "visit"
    /\ c \in visit
    /\ sock[c] = None
    /\ visit' = visit \ {c}
    /\ ListRemove(c) /\ Return(c)
    /\ UNCHANGED <<mpc, rfds, newfd, mreg, cur, fds, sock, poolVars,
                   workVars, peer, clientVars, pipe, alive, raced>>

(* ... any other one goes on to the second reading of conn->socket, ...    *)
Examine(c) ==
    /\ mpc = "visit"
    /\ c \in visit
    /\ sock[c] # None
    /\ visit' = visit \ {c}
    /\ cur' = c
    /\ mpc' = "test"
    /\ UNCHANGED <<rfds, newfd, mreg, fds, connVars, sock, poolVars,
                   workVars, peer, clientVars, pipe, alive, raced>>

(* ... FD_ISSET(conn->socket, rfds), ...                                   *)
Skip ==
    /\ mpc = "test"
    /\ Bit(cur) \notin rfds
    /\ cur' = None
    /\ mpc' = "visit"
    /\ UNCHANGED <<rfds, newfd, mreg, visit, fds, connVars, sock, poolVars,
                   workVars, peer, clientVars, pipe, alive, raced>>

(* It is looked at once more although it has become -1.                    *)
MayRace == IF sock[cur] = None THEN raced \cup {"minus1"} ELSE raced

IsSet ==
    /\ mpc = "test"
    /\ Bit(cur) \in rfds
    /\ mpc' = "clear"
    /\ raced' = MayRace
    /\ UNCHANGED <<rfds, newfd, mreg, visit, cur, fds, connVars, sock,
                   poolVars, workVars, peer, clientVars, pipe, alive>>

(* Faulty: hands the connection over and leaves its bit in srv->fds.       *)
DispatchArmed ==
    /\ mpc = "clear"
    /\ LockFree
    /\ Len(tasks) < MaxTasks
    /\ Pool!Submit(cur)
    /\ cur' = None
    /\ mpc' = "visit"
    /\ raced' = MayRace
    /\ UNCHANGED <<rfds, newfd, mreg, visit, fds, connVars, sock, workVars,
                   peer, clientVars, pipe, alive>>

(* ... and is handed to a worker when its bit is set: FD_CLR of            *)
(* conn->socket, read again, under the lock, and thread_pool_add_task.     *)
Dispatch ==
    /\ mpc = "clear"
    /\ LockFree
    /\ Len(tasks) < MaxTasks
    /\ fds' = fds \ {Bit(cur)}
    /\ Pool!Submit(cur)
    /\ cur' = None
    /\ mpc' = "visit"
    /\ raced' = MayRace
    /\ UNCHANGED <<rfds, newfd, mreg, visit, connVars, sock, workVars, peer,
                   clientVars, pipe, alive>>

VisitEnd ==
    /\ mpc = "visit"
    /\ visit = {}
    /\ mpc' = "top"
    /\ rfds' = {}
    /\ UNCHANGED <<newfd, mreg, visit, cur, fds, connVars, sock, poolVars,
                   workVars, peer, clientVars, pipe, alive, raced>>

-----------------------------------------------------------------------------
(* close(s): the client's connection ends with it.  close(-1) and the      *)
(* close of a closed descriptor do nothing.                                *)
CloseFd(s) ==
    IF s \in Open
    THEN LET p == peer[s] IN
         /\ peer' = [peer EXCEPT ![s] = None]
         /\ phase' = [phase EXCEPT ![p] = "off"]
         /\ inbox' = [inbox EXCEPT ![p] = FALSE]
         /\ fin' = [fin EXCEPT ![p] = FALSE]
         /\ due' = [due EXCEPT ![p] = FALSE]
    ELSE UNCHANGED <<peer, clientVars>>

(* server_clean: every listed connection is closed, the pool is closed,    *)
(* and when the workers are gone the connections are freed.  First         *)
(* server_close_conn: close(conn->socket), ...                             *)
CleanConn(c) ==
    /\ mpc = "clean"
    /\ c \in visit
    /\ CloseFd(sock[c])
    /\ visit' = visit \ {c}
    /\ cur' = c
    /\ mpc' = "unset"
    /\ UNCHANGED <<rfds, newfd, mreg, fds, connVars, sock, poolVars,
                   workVars, pipe, alive, raced>>

(* ... and conn->socket = -1, while workers may still serve it.            *)
CleanSocket ==
    /\ mpc = "unset"
    /\ sock' = [sock EXCEPT ![cur] = None]
    /\ cur' = None
    /\ mpc' = "clean"
    /\ UNCHANGED <<rfds, newfd, mreg, visit, fds, connVars, poolVars,
                   workVars, peer, clientVars, pipe, alive, raced>>

CleanPool ==
    /\ mpc = "clean"
    /\ visit = {}
    /\ Pool!Close
    /\ mpc' = "join"
    /\ UNCHANGED <<rfds, newfd, mreg, visit, cur, fds, connVars, sock,
                   workVars, peer, clientVars, pipe, alive, raced>>

(* Faulty: frees the connections without waiting for the workers.          *)
CleanEndAtOnce ==
    /\ mpc = "join"
    /\ mpc' = "down"
    /\ UNCHANGED <<rfds, newfd, mreg, visit, cur, fds, connVars, sock,
                   poolVars, workVars, peer, clientVars, pipe, alive, raced>>

CleanEnd ==
    /\ mpc = "join"
    /\ retired = Worker
    /\ mpc' = "down"
    /\ UNCHANGED <<rfds, newfd, mreg, visit, cur, fds, connVars, sock,
                   poolVars, workVars, peer, clientVars, pipe, alive, raced>>

-----------------------------------------------------------------------------
(* A worker: server_serv_client(conn) with conn = busy[w].                 *)
Start(w) ==
    /\ Pool!Start(w)
    /\ wpc' = [wpc EXCEPT ![w] = "recv"]
    /\ UNCHANGED <<mainVars, fds, connVars, sock, wreg, wreq, peer,
                   clientVars, pipe, alive, raced>>

Retire(w) ==
    /\ w \notin retired
    /\ Pool!Retire(w)
    /\ UNCHANGED <<mainVars, fds, connVars, sock, workVars, peer,
                   clientVars, pipe, alive, raced>>

(* recv(conn->socket, MSG_DONTWAIT) finds a request, the end of the stream *)
(* or an error, or nothing.                                                *)
Recv(w) ==
    /\ wpc[w] = "recv"
    /\ LET s == sock[busy[w]]
           p == peer[s]
       IN \/ /\ s \in Open /\ inbox[p]
             /\ inbox' = [inbox EXCEPT ![p] = FALSE]
             /\ wreq' = [wreq EXCEPT ![w] = p]
             /\ wpc' = [wpc EXCEPT ![w] = "reply"]
          \/ /\ s \in Open => ~inbox[p] /\ fin[p]
             /\ wpc' = [wpc EXCEPT ![w] = "close"]
             /\ UNCHANGED <<inbox, wreq>>
          \/ /\ s \in Open /\ ~inbox[p] /\ ~fin[p]
             /\ wpc' = [wpc EXCEPT ![w] = "rearm"]
             /\ UNCHANGED <<inbox, wreq>>
    /\ UNCHANGED <<mainVars, fds, connVars, sock, poolVars, wreg, peer,
                   phase, fin, due, pipe, alive, raced>>

(* write(conn->socket, response).  The response of a malformed request     *)
(* ends the connection.  When the client has closed, write may still       *)
(* succeed, or fail, or raise SIGPIPE, which nobody catches.               *)
Reply(w) ==
    /\ wpc[w] = "reply"
    /\ wreq' = [wreq EXCEPT ![w] = None]
    /\ LET s == sock[busy[w]]
           q == peer[s]
       IN \/ /\ s \in Open
             /\ due' = [due EXCEPT ![q] = FALSE]
             /\ \E next \in {"recv", "close"} : wpc' = [wpc EXCEPT ![w] = next]
             /\ UNCHANGED alive
          \/ /\ s \in Open => fin[q]
             /\ wpc' = [wpc EXCEPT ![w] = "close"]
             /\ alive' \in IF s \in Open THEN BOOLEAN ELSE {TRUE}
             /\ UNCHANGED due
    /\ UNCHANGED <<mainVars, fds, connVars, sock, poolVars, wreg, peer,
                   phase, inbox, fin, pipe, raced>>

(* close(conn->socket); between it and the next statement the kernel may   *)
(* give the number to another connection.                                  *)
Close(w) ==
    /\ wpc[w] = "close"
    /\ CloseFd(sock[busy[w]])
    /\ wpc' = [wpc EXCEPT ![w] = "forget"]
    /\ UNCHANGED <<mainVars, fds, connVars, sock, poolVars, wreg, wreq,
                   pipe, alive, raced>>

(* conn->socket = -1, and the worker returns to the pool.                  *)
Forget(w) ==
    /\ wpc[w] = "forget"
    /\ sock' = [sock EXCEPT ![busy[w]] = None]
    /\ Pool!Finish(w)
    /\ wpc' = [wpc EXCEPT ![w] = "idle"]
    /\ UNCHANGED <<mainVars, fds, connVars, wreg, wreq, peer, clientVars,
                   pipe, alive, raced>>

(* pthread_mutex_lock and the load of FD_SET(conn->socket, &srv->fds) ...  *)
Rearm(w) ==
    /\ wpc[w] = "rearm"
    /\ LockFree
    /\ wreg' = fds
    /\ wpc' = [wpc EXCEPT ![w] = "store"]
    /\ UNCHANGED <<mainVars, fds, connVars, sock, poolVars, wreq, peer,
                   clientVars, pipe, alive, raced>>

(* Faulty: the bit is not set again.                                       *)
StoreNothing(w) ==
    /\ wpc[w] = "store"
    /\ wreg' = {}
    /\ wpc' = [wpc EXCEPT ![w] = "notify"]
    /\ UNCHANGED <<mainVars, fds, connVars, sock, poolVars, wreq, peer,
                   clientVars, pipe, alive, raced>>

(* ... its store and pthread_mutex_unlock.                                 *)
Store(w) ==
    /\ wpc[w] = "store"
    /\ fds' = wreg \cup ({Bit(busy[w])} \ {None})
    /\ wreg' = {}
    /\ wpc' = [wpc EXCEPT ![w] = "notify"]
    /\ raced' = IF mpc = "admit" THEN raced \cup {"torn"} ELSE raced
    /\ UNCHANGED <<mainVars, connVars, sock, poolVars, wreq, peer,
                   clientVars, pipe, alive>>

(* Faulty: select is not told of the new bit.                              *)
NotifyNobody(w) ==
    /\ wpc[w] = "notify"
    /\ Pool!Finish(w)
    /\ wpc' = [wpc EXCEPT ![w] = "idle"]
    /\ UNCHANGED <<mainVars, fds, connVars, sock, wreg, wreq, peer,
                   clientVars, pipe, alive, raced>>

(* Faulty: counts a byte that does not fit.                                *)
NotifyAlways(w) ==
    /\ wpc[w] = "notify"
    /\ pipe' = pipe + 1
    /\ Pool!Finish(w)
    /\ wpc' = [wpc EXCEPT ![w] = "idle"]
    /\ UNCHANGED <<mainVars, fds, connVars, sock, wreg, wreq, peer,
                   clientVars, alive, raced>>

(* server_notify blocks while the pipe is full.                            *)
Notify(w) ==
    /\ wpc[w] = "notify"
    /\ pipe < PipeSize
    /\ pipe' = pipe + 1
    /\ Pool!Finish(w)
    /\ wpc' = [wpc EXCEPT ![w] = "idle"]
    /\ UNCHANGED <<mainVars, fds, connVars, sock, wreg, wreq, peer,
                   clientVars, alive, raced>>

-----------------------------------------------------------------------------
(* Clients.                                                                *)
Connect(p) ==
    /\ phase[p] = "off"
    /\ phase' = [phase EXCEPT ![p] = "syn"]
    /\ UNCHANGED <<mainVars, fds, connVars, sock, poolVars, workVars, peer,
                   inbox, fin, due, pipe, alive, raced>>

Ask(p) ==
    /\ phase[p] # "off"
    /\ ~fin[p]
    /\ ~due[p]
    /\ inbox' = [inbox EXCEPT ![p] = TRUE]
    /\ due' = [due EXCEPT ![p] = TRUE]
    /\ UNCHANGED <<mainVars, fds, connVars, sock, poolVars, workVars, peer,
                   phase, fin, pipe, alive, raced>>

HangUp(p) ==
    /\ phase[p] # "off"
    /\ ~fin[p]
    /\ fin' = [fin EXCEPT ![p] = TRUE]
    /\ UNCHANGED <<mainVars, fds, connVars, sock, poolVars, workVars, peer,
                   phase, inbox, due, pipe, alive, raced>>

-----------------------------------------------------------------------------
MainStep ==
    \/ Snapshot \/ Select \/ SelectFails \/ Accept \/ AcceptFails \/ Admit
    \/ Skip \/ IsSet \/ Dispatch \/ VisitEnd
    \/ CleanSocket \/ CleanPool \/ CleanEnd
    \/ \E c \in Conn : Reclaim(c) \/ Examine(c) \/ CleanConn(c)

WorkerStep(w) ==
    \/ Start(w) \/ Retire(w) \/ Recv(w) \/ Reply(w) \/ Close(w) \/ Forget(w)
    \/ Rearm(w) \/ Store(w) \/ Notify(w)

ClientStep(p) == Connect(p) \/ Ask(p) \/ HangUp(p)

Next ==
    /\ alive
    /\ \/ MainStep
       \/ \E w \in Worker : WorkerStep(w)
       \/ \E p \in Client : ClientStep(p)

(* Threads are scheduled, fd_lock does not shut a thread out for ever, and *)
(* the kernel serves writers blocked on the pipe.  The blocking write of   *)
(* Reply comes to its end, so a client that stays reads what it is sent;   *)
(* no client has to connect, ask or leave.                                 *)
Fairness ==
    /\ SF_vars(alive /\ MainStep)
    /\ \A w \in Worker : SF_vars(alive /\ WorkerStep(w))

Spec == Init /\ [][Next]_vars
FairSpec == Spec /\ Fairness

-----------------------------------------------------------------------------
Words == SUBSET Fd
MainStates ==
    {"top", "select", "accept", "admit", "visit", "test", "clear", "clean",
     "unset", "join", "down"}
WorkerStates ==
    {"idle", "recv", "reply", "close", "forget", "rearm", "store", "notify"}
Races == {"reuse", "torn", "minus1"}

(* The type invariant: every variable has its type, a worker is idle       *)
(* exactly when it has no connection, and the process counts no more bytes *)
(* in the pipe than fit.                                                   *)
TypeOK ==
    /\ mpc \in MainStates
    /\ rfds \in Words /\ mreg \in Words /\ fds \in Words /\ wreg \in Words
    /\ newfd \in Fd \cup {None}
    /\ mpc = "admit" => newfd # None
    /\ visit \subseteq Conn
    /\ cur \in Conn \cup {None}
    /\ mpc \in {"test", "clear", "unset"} => cur # None
    /\ pool \subseteq Conn /\ list \subseteq Conn
    /\ sock \in [Conn -> Fd \cup {None}]
    /\ tasks \in Seq(Conn)
    /\ closed \in BOOLEAN /\ retired \subseteq Worker
    /\ busy \in [Worker -> Conn \cup {None}]
    /\ wpc \in [Worker -> WorkerStates]
    /\ \A w \in Worker : wpc[w] = "idle" <=> busy[w] = None
    /\ wreq \in [Worker -> Client \cup {None}]
    /\ peer \in [Fd -> Client \cup {None}]
    /\ phase \in [Client -> {"off", "syn", "up"}]
    /\ inbox \in [Client -> BOOLEAN]
    /\ fin \in [Client -> BOOLEAN]
    /\ due \in [Client -> BOOLEAN]
    /\ pipe \in 0 .. PipeSize
    /\ alive \in BOOLEAN
    /\ raced \subseteq Races

(* The connections that wait for a worker, that a worker owns (after the   *)
(* store of its bit a worker only looks at conn->srv), and that the main   *)
(* thread watches.                                                         *)
Queued == { tasks[i] : i \in DOMAIN tasks }
Owns(w, c) == busy[w] = c /\ wpc[w] # "notify"
Owned == { c \in Conn : \E w \in Worker : Owns(w, c) }
Armed == { c \in Conn : sock[c] \in fds }

NoRace == raced = {}

(* A connection is queued once or owned by one worker, never both, its bit *)
(* is clear meanwhile, and it is not in the free pool: no two threads ever *)
(* parse into the same connection_info_t, and none touches a block that    *)
(* was returned.                                                           *)
OneOwner == NoRace =>
    /\ \A i, j \in DOMAIN tasks : tasks[i] = tasks[j] => i = j
    /\ \A v, w \in Worker, c \in Conn : Owns(v, c) /\ Owns(w, c) => v = w
    /\ Queued \cap Owned = {}
    /\ (Queued \cup Owned) \cap (Armed \cup pool) = {}
    /\ Queued \cup Owned \subseteq list

(* No connection falls between two stools: a listed one whose socket is    *)
(* still there is watched by select, queued, or owned by a worker.         *)
NoStranded == NoRace =>
    \A c \in list : sock[c] # None => c \in Armed \cup Queued \cup Owned

(* The snapshot handed to select has open descriptors only, so select does *)
(* not fail with EBADF and server_clean is never called.                   *)
SelectSafe == NoRace =>
    /\ mpc \notin {"clean", "unset", "join", "down"}
    /\ mpc = "select" => rfds \subseteq Open

(* A response goes to the client that asked.                               *)
AnswersTheAsker == NoRace =>
    \A w \in Worker : wpc[w] = "reply" =>
        /\ sock[busy[w]] \in Open
        /\ peer[sock[busy[w]]] = wreq[w]

(* The main thread uses pool and list as BlockSets allows, whatever        *)
(* overlaps happen: a connection is taken from the pool, a block is given  *)
(* back only while it is visited, and the next traversal begins only when  *)
(* the one before has visited everything that was listed.                  *)
TurnsOver == Cells!Spec

(* The client has a connection the server knows about.                     *)
Connected(p) == \E c \in list : sock[c] \in Open /\ peer[sock[c]] = p

Emfile == NoneFree

(* A request on an established connection is answered, or its connection   *)
(* is closed, unless a client in the backlog finds no free descriptor      *)
(* again and again, an unprotected overlap happens, or the process is      *)
(* killed by SIGPIPE.                                                      *)
Served == \A p \in Client :
    (due[p] /\ Connected(p)) ~> (~due[p] \/ []<>Emfile \/ ~NoRace \/ ~alive)

(* The connections are freed when no worker is left to touch one, whatever *)
(* went wrong before.                                                      *)
FreedQuiet == mpc = "down" =>
    /\ Queued = {}
    /\ \A w \in Worker : busy[w] = None

-----------------------------------------------------------------------------
(* What a comment of the code says and the code does not keep.             *)

(* "the server m_ust send a final response after the request has been      *)
(* completed" (http_response.c:20), also when two FD_SET have overlapped:   *)
(* only the other two overlaps are excused.                                *)
ServedUnderTear == \A p \in Client :
    (due[p] /\ Connected(p) /\ "torn" \in raced)
        ~> (~due[p] \/ []<>Emfile \/ raced \ {"torn"} # {} \/ ~alive)
=============================================================================
