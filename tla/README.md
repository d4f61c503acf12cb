# OServer in TLA+

OServer (`src/`) is a small HTTP/1.x file server in C: one main thread runs a
`select` loop, ten workers serve connections, a blocking queue is between them.
This directory models its concurrent core and the sequential algorithms that
have enough state to go wrong, checks the models with TLC, and proves with TLAPS
their safety properties: those of the concurrent part for every number of
threads, connections, descriptors and clients, and those of a connection's stream,
its responses, the linked cells, URLs, the header index and the tree of headers
for every size. Liveness is model-checked.

## 1. The system

| Component | State | Operations | Talks to |
|---|---|---|---|
| Blocking queue, `sync_queue.c` | linked list `head`/`tail`, `destorying`, a mutex, a condition variable | `push_back`, `pop_front` (blocks), `signal_destroy` (no lock), `destroy` | called by pool and workers |
| Thread pool, `thread_pool.c` | worker threads, the queue of `thread_task_t` | `init`, `task_entry` (the worker loop), `add_task`, `destroy` | queue; runs `server_serv_client` |
| Event loop, `server.c` `server_entry`, `server_check_conn_in`, `server_clean` | `srv->fds` (under `fd_lock`, mostly), `conn_list`, `connections` (object pool), the local `rfds` | accept, dispatch, reclaim, clean up | `add_task` to the pool; is woken through a pipe |
| Service of a connection, `server.c` `server_serv_client` | `conn->socket`, `data_buffer`/`data_len`, `request`, `response`, the locals `rbuf`, `remain` | recv, parse, respond, close or re-arm and notify | runs in a worker; parser; generator; pipe |
| Request parser, `http_request.c`, `http_method.c`, `http_url.c`, `http_version.c`, `http_header.c` | `parse_status` (survives calls), the parsed parts | `http_request_parse` | called with `rbuf` |
| URL, `http_url.c`, `stack.c` | `path_stack`, `query_list` | `http_url_parse` with path and query, `http_url_destory`, and `gen_path` in `server.c` | decides which file is opened |
| Headers, `http_header.c`, `btree.c` | an AVL tree with threads in its right links; the table of names and its index sorted by hash | hash and sort at start, search, add, print, destroy | request and response |
| Response, `http_response.c`, `server_process_request` | `status`, `gen_status`, the open file, `keep_alive` | decide, `http_response_reset`, `http_response_gen` into buffers of 4096 bytes, the write loop | file system, `write`, the client |
| Connection pool and list, `object_pool.c`, `list.c` | free list, doubly linked list | acquire, return, append, remove, traverse | main thread only |
| Configuration, start, logger, MIME table | constants | - | - |

A connection goes round like this. `select` reports its descriptor; the main
thread clears its bit in `srv->fds` and adds a task; a worker takes the task,
reads until `recv` would block, answers every complete request it parses, then
either closes the descriptor and sets `conn->socket = -1`, or sets the bit
again and writes one byte to the pipe, so that `select` starts again with the
new set. The main thread gives back the block of a closed connection the next
time it walks the list.

What is hard here:

* **Two threads, one word.** The bits of `srv->fds` are read, set and cleared
  by everyone; `FD_SET(client_fd, &srv->fds)` in the accept branch does not take
  `fd_lock`.
* **Ownership by convention.** No lock protects a `connection_info_t`. Whether a
  worker may touch it follows from a bit being clear.
* **Descriptors come back.** A number is free for the next `accept` as soon as
  it is closed, one statement before `conn->socket` is -1.
* **Wakeups.** The condition variable, the pipe, and a destroy protocol that
  does not lock.
* **Packets.** A request arrives in any pieces, over several calls of `recv` and
  of `server_serv_client`; three buffers and a status must agree on where the
  parser stands.
* **Files change.** The size is taken by `stat`, the file opened later and read
  in pieces, while the header has promised a length and `keep_alive` a next
  response.
* **One word, two links.** A block's first word links it in the list of
  connections or in the free pool, and changes its meaning while the list is
  being traversed.
* **The tree.** Whether a right link is a child or a thread depends on a flag
  that printing sets and that insertion and two rotations must keep right.

What makes each component correct: no lost wakeup, and destruction after
everyone (queue, pool); tasks in order, once each, none dropped (pool); one
owner per connection, no connection forgotten, no closed descriptor handed to
`select`, every request answered, answers to the one who asked (server); no
byte lost or doubled, the parser in step, answers in order and complete
(connection); no block lost or in two places (cells); ordered, balanced, all
headers printed once, names found (headers); the file that is meant and none
above the root, whatever the request before was (URL); as much content as was
promised, no file left open, the connection closed as announced (response).

## 2. The modules

    TaskService  <--implements--  ThreadPool  --INSTANCE-->  SyncQueue
        ^                         ThreadPoolProofs           SyncQueueProofs
        | INSTANCE
      Server  --INSTANCE-->  BlockSets  <--implements--  Blocks
      ServerProofs                                       BlocksProofs

      Connection            Response            UrlPath
      ConnectionProofs      ResponseProofs      UrlPathProofs

      HeaderTree, HeaderIndex  <--EXTENDS--  Headers, HeaderFields (tables)
                                           HeadersProofs

**SyncQueue** (`sync_queue.c`). `queue`, `destorying`, the mutex `lock`,
`popping` (threads inside `pop_front`) and `waiting` (those asleep on the
condition). A critical section without a wait is one action (`PushBack`,
`PopTake`, `PopNull`). The one with the wait is cut where it matters: `PopTest`
leaves the mutex held after the test of the loop, `CondWait` releases it and
goes to sleep in one step. `SetDestorying` and `Broadcast` take no lock, as in
the code. Wakeups without a signal are allowed, as by POSIX.

**ThreadPool** (`thread_pool.c`) has the queue as an instance over its own
variables and adds `busy`, `exited` and the progress of
`thread_pool_destroy`. `Drain`, the loop that frees left-over tasks, is one step:
it runs after the joins, with nobody else in the queue. There is at least one
worker: `server_config.c:87` fixes ten. That `pthread_create` succeeds is assumed.

**TaskService** is what the pool promises the server: a queue of pending tasks,
`Submit`, `Start`, `Finish`, `Close`, `Retire`. ThreadPool implements it under
`pending <- queue, closed <- destorying, retired <- exited`, and Server
is built on it instead of on the queue, so the state of mutex and condition
variable does not multiply with that of the server.

**BlockSets** is what the pool of connections and their list promise to the main
loop, in sets: a block is in one of them, a traversal visits each listed block once,
also when blocks are given back under it. **Blocks** (`object_pool.c`, `list.c`)
implements it with the links of the code: `next` is the first word of a block, which
`list_node_t.next` and `object_t.next` share, so that `object_pool_return`
overwrites the link of the block that `list_traverse` stands on. What a walk along
the links meets, `From`, is the smallest set that holds the first block and with a
block the one behind it. Accepting a connection and the begin of the traversal that
follows are one step, since only the main thread touches links; `Close` is a worker.
Server uses the sets and is shown to use them as BlockSets allows (`TurnsOver`).

**Server** (`server.c`). Each variable is named for what it models. One action
per piece of code between two accesses to memory that another thread shares:

* `Snapshot` copies `srv->fds` under the lock; `Select` waits, reads a byte of
  the pipe and leaves the readable bits in `rfds`; `SelectFails` is EBADF.
* `Accept` is `accept` and the load half of `FD_SET`; `Admit` is the store half,
  `object_pool_acquire` and `list_append`. Between them a worker can act: that is
  the unprotected overlap.
* `Reclaim`/`Examine`, `Skip`/`IsSet` and `Dispatch` are the three readings of
  `conn->socket` in `server_check_conn_in` (lines 224, 231, 235), which a worker
  can separate.
* `Recv`, `Reply`, `Close`, `Forget`, `Rearm`, `Store`, `Notify` are the worker.
  `Close` and `Forget` are `close(conn->socket)` and `conn->socket = -1`;
  `Rearm` and `Store` are the two halves of `FD_SET` under the lock.
* `CleanConn`, `CleanSocket`, `CleanPool`, `CleanEnd` are `server_clean`, where
  `close` and `conn->socket = -1` are two steps again.
* `AcceptFails` is EMFILE, which also happens when the last descriptor holds the
  file a worker is sending (`NoneFree`).
* `Connect`, `Ask`, `HangUp` are clients; `Open`, `Backlog`, `Readable` and
  `CloseFd` the kernel.

Requests are not cut up here: a `recv` finds a request, the end, or nothing.
All descriptors share one word of the set. `BitOfNone` is the bit in front of
the set that `FD_ISSET(-1, ..)` looks at.

The history variable `raced` records three unprotected overlaps the code allows:
`torn` (the two `FD_SET`s), `reuse` (a number accepted again before its former
connection is forgotten), `minus1` (the socket becomes -1 between the readings).
Most invariants say `NoRace => ...`: they hold until one of these happens.
What happens afterwards is the subject of `FreedQuiet`, `TurnsOver` and of a
violation run.

**Connection** (`server_serv_client` and the parsers). A byte is its position in the
client's stream, so "nothing lost, doubled or moved" can be said. `text` tells which
part of which element stands at a position; elements (method, URL, version, header
line, empty line) have as many parts as `Size` says, two or more in the runs, so
that a packet can end inside any of them. The client makes up its next request when
it likes (`Ask`), as long as the sequence is the beginning of one of the
`Dialogues`, and sends what it has in packets (`Send`). `Serve`, `RecvBytes`,
`RecvNothing`, `RecvEnd`, `Shift`, `Reply` are `server_serv_client`; the other
actions are the turns and the ways out of `http_request_parse`. The parsers are
modelled by how much they consume of which fragment and what they report, not by
characters. In a malformed request something else stands where an element should be:
`junk`, a single `stray` byte, a `nul` byte, or a `gap`, the second of two blanks,
where the URL should begin. Not all of these are refused: the parsers return 0 for
some, as if the element had not arrived yet (`MethodStuck`, `UrlStuck`,
`VersionWaits`). `damaged` records eight mishaps, each a statement of the code:

| Mishap | Where | What happens |
|---|---|---|
| `stale` | `server.c:276` | `data_len` is written only if something remains; saved bytes that were consumed are read again by the next call |
| `cut` | `server.c:280` | more than `data_buffer` holds is cut off |
| `unparsed` | `server.c:267` | a complete second request is in `rbuf`, but `recv` comes before the parser and finds nothing: it waits for further bytes |
| `lone P` | `http_method.c:39` | with one byte received the second one is compared anyway |
| `leading NUL` | `http_method.c:66` | a NUL in front of a method is neither consumed nor refused: the request behind it is never parsed |
| `empty URL` | `http_url.c:263` | of two blanks behind the method, the length 0 of the URL between them is taken for "not arrived yet" |
| `short version` | `http_version.c:25` | `t == end` is looked at before `ok`: a version that goes wrong in the last byte at hand, when the client sends no more, is never refused |
| `overrun` | `http_version.c:16` | nothing to parse leaves `*parse_len` as it was; the URL's length is consumed twice, `remain` becomes negative, `memcpy` ends the process |

Four of them, `Waits`, lose no byte: `unparsed` and the three that wait for ever. The
others mix up the stream or the verdict.

**Response** (`server_process_request`, `http_response_gen`, the write loop). Sizes
are counted in units; a head is one item of the stream, a unit of content
another. `ProcessBad`, `ProcessPlain`, `ProcessStat`, `ProcessOpen`, `OpenFails` are
the ways through `server_process_request`, cut between `stat` and `open`;
`AsInt` is what becomes of `st_size` in `int clen`, for an `int` that holds less
than `Half`;
`Generate` is one call of `http_response_gen`, `Write`, `WriteVanishes`,
`WriteFails`, `Killed`, `Written` the loop around it, `Finish` the resets behind.
Others may change the file or what its name leads to at any step (`Resize`,
`Replace`); `read` may fail at any step. The client (`Read`) reads the stream as a
client must: it believes the length in the head. `http_status_t` and
`http_response_code` are the two tables as they stand. How requests arrive is
Connection's business, whose one step `Reply` stands for all of this; only that a
request may not fit into `rbuf` (`Endless`), which closes the connection without a
word (`BufferFull`: `recv` with a length of 0 returns 0), is here too, since it
is one of the ways a connection ends.

**HeaderTree** (`btree.c` as `http_header.c` uses it). A tree is a record with
left and right subtree, a thread (`rflag` and the thread meaning of `rlink`) and
a balance factor. `Insert` follows `btree_internal_insert` with both rotations
and their balance arithmetic, `InRight` and `InLeft` being what is behind its two
calls of itself; `Threaded` follows `btree_build_in_order_threading` over the
in-order traversal; `Walk` follows `btree_thread_traverse`, one node after the
other. What recurses in the code is a recursive function here, over the trees
(`Tree`) that have at most one level more than there are keys: a balanced tree never
has more levels than keys, which is proved (`Room`).

**HeaderFields** holds the tables of `http_header.c` and `http_header.h` as they
are, the 16-bit hash, and the comparison, which ends with the name in the request or
at a NUL in it (`strncasecmp`; a NUL is written `~`). Two facts about the tables are
assumptions that TLC evaluates: names, lengths and numbers agree (`TablesAgree`),
and no beginning of a name, the empty one included, has the hash of the name
(`BeginningsDiffer`). **HeaderIndex** is the sort
of the index when the program starts, one comparison a step, and the binary
search, one turn a step; the table is a parameter, so that what is proved does
not depend on the 87 names. What it needs is named `HashesIdentify`: no two headers
share a hash, a name that has the hash of a header and agrees with it as far as
it goes means that header, and a name without a NUL that means a header has its
hash. For names with NULs the last is not so: `Host` and one NUL has another hash
and is found nowhere, `Host` and two NULs has the hash of `Host`, because they
cancel in the XOR, and is filed under it. **Headers** composes index and tree:
`http_header_add` searches, then inserts; the headers that names mean are among
those the tree may hold (`HeadersAssumption`).

**UrlPath** (`http_url_parse` and below). A URL is a sequence of words and of the
marks the code looks for. `SkipHost`, `OnlyHost`, `NoHost`, `NoPath` are the ways to
the path; `Letters`, `NonPath`, `Up`, `UpFromRoot`, `Here`, `Down` the turns of
`http_url_parse_path`; `Item`, `NoItem`, `InItem` those of `http_url_parse_query`;
`Reset` is `http_request_reset` before the next request of the connection; `File`
is what `gen_path` puts together. `IsUp` and `IsHere` are the two `strncmp`s with a
length that may be shorter than the literal, which makes a last segment `.`
count as `../`. `Meaning` is a definition of what a URL means, independent of
the code.

Operators named *Faulty* in a comment are not part of a specification: each is a
plausible bug that replaces a definition to see that a property notices it.

## 3. The runs

| Run | States | Question and bounds |
|---|---|---|
| MCSyncQueue | 1,470 | 4 threads, 3 entries; `NoLostWakeup`, `HeadIsTaken`. Three sleepers and one thread between test and wait, more threads than entries: every way to lose a wakeup fits. |
| MCThreadPool | 2,067 | 3 workers, 3 tasks; safety, `ServiceSpec` (refinement), `EveryTaskStarts`, `ShutdownCompletes`. |
| MCServer | 955,000 | 2 connections, descriptors, workers, clients, symmetric except for descriptors (`BitOfNone` is one of them); safety and `TurnsOver`. |
| MCServerLive | 404,000 | `Served`; 2 of everything, a pipe of one byte, one client that stays and one that hangs up and comes back (`OneStays`): blocks and numbers are reused, `accept` fails in between. |
| MCBlocks | 16,250 | 4 blocks: the first, the last, one in the middle and two neighbours can be reclaimed in one traversal; `SetsSpec` (refinement). |
| MCConnection | 396,000 | 23 pairs of requests, composed by the client as it goes, seven malformed sorts among them; `rbuf` of 6 parts, `data_buffer` of 3, a header line of 7, junk of 2, packets of any length, a client up to two requests ahead. |
| MCResponse | 416,000 | 2 requests of any method, or one that outgrows `rbuf`, pipelined; a file of 0, 1, 3, 4 or 9 units, where an `int` holds up to 3 (4 becomes -4, 9 becomes 1), a buffer of 3 and a socket of 2, so that every file but the smallest takes several buffers and every buffer several reads; 2 changes of the file. |
| MCHeaders | 143,300 | the real tables: 3,741 comparisons sort the index of 87; then all orders of adding 7 keys, by number or by name: every kind of rotation, also a double one below the root. Names in odd capitals, a collision, a beginning, a name that is the beginning of another, and one with one NUL and with two behind it. |
| MCUrlPath | 97,800 | URLs with and without a host, up to 4 segments over two names, and queries of up to 3 items; any sequence of them on one connection, since `Reset` leads back to the first state. |
| MCServerTear, MCConnectionRemain, MCConnectionStale | | what a comment or message says and the code does not keep, see section 5. MCServerTear has as many workers as clients, asks only for service behind a torn `FD_SET`, and goes no further than the first overlap of another kind (`OnlyTear`), so that it is the tear and nothing else that leaves a client unserved. |

Constraints, and why they hide nothing the properties speak of:

* `NoRace` in MCServerLive and `Followed` in MCConnection stop at a state
  where the property is already discharged (`\/ ~NoRace`, `damaged # {}`); the
  state itself is still checked. `Followed` stops only behind the mishaps that mix up
  the stream (`lone P` and the four `Waits` do not), and goes on for two GETs even
  then, so that what happens after a mishap is explored too.
* `QuietAfterRace` in MCServer lets the process run on after an overlap, with no new
  moves of clients. Only `TypeOK`, `FreedQuiet` and `TurnsOver` say anything of
  these states.
* `MaxTasks` never stops a run without an overlap: `OneOwner` bounds the queue
  by the number of connections.
* `OneStays` keeps MCServerLive and MCServerTear small: which client stays does not
  matter, they are alike.
* `MaxRequests`, `MaxChanges`, `Sizes` bound MCResponse, and `Half` stands for 2^31.
  Nothing is kept from one response to the next but what `http_response_reset`
  forgets, `keep_alive` and the socket, so two in a row show what one can leave to
  another.
* MCServerLive has as many workers as connections on purpose. A worker stays
  with its connection as long as `recv` finds a next request
  (`server.c:347`), so with more busy clients than workers a request can wait
  for ever, and `Served` is false; the code has 10 workers and 1024 connections.

Symmetry is used in MCServer only, which checks no liveness.

`CHECK_DEADLOCK FALSE` where the system ends: the pool is destroyed
(or hangs in the window below), the process is killed by SIGPIPE or has left
`server_entry`, the connection is closed, the client has asked everything.

**Fairness.** Threads inside the code are scheduled (weak fairness), and neither the
queue's mutex nor `fd_lock` shuts out one thread for ever while others come and go
(strong fairness on the steps that need it): the scheduling a pthread implementation
gives. `task->run` returns, which for the server is what Server shows. Nothing is
assumed of spurious wakeups, of the start of a destruction, or of what clients ask,
when, and whether they leave. But a worker's steps include a `write` that blocks as
long as the client does not read: that it ends, so that the worker's step is taken,
assumes of the clients that they read or leave, in Server as in Response. Connection
assumes only that an armed connection with input is served, which is what `Served`
says. Response has the reading as an action with a fairness of its own: `write` has
no time limit, and a client that does not read keeps its worker for ever.

Two properties with words of their own: `ShutdownCompletes` excludes the window in
which a worker is between its test and `pthread_cond_wait` when the flag is set
(`sync_queue.c:64` takes no lock; that worker can sleep through the broadcast and
`pthread_join` waits for ever). `Served` excuses the server if `accept` fails
again and again with a client in the backlog, for then `continue`
(`server.c:92`) skips all established connections each time, and it speaks of
clients that got a block, for one that was accepted with an empty pool is never
looked at again (`server.c:101`).

## 4. What is proved

For all values of the constants, under the assumptions named in the modules
(distinct null values, finitely many threads, at least one worker in the pool):

* **SyncQueueProofs.** `TypeOK`, `WaitsOnEmpty`, and `NoLostWakeup`: while some
  thread sleeps, there are at least as many awake threads inside `pop_front` as
  entries. It is inductive together with the other two. A push wakes a sleeper
  if there is one; a pop removes one entry and one thread; a thread goes to sleep
  only over an empty queue, and that is where `WaitsOnEmpty` is needed.
  Cardinalities come from FiniteSetTheorems.
* **ThreadPoolProofs.** `IInv == TypeOK /\ Places`, where `Places` says where every
  thread can be. From it `ExitsOnEmpty`, `DestroyedQuiet`, that the pool uses its
  queue as SyncQueue allows (`UsesTheQueue`, so SyncQueue's theorems hold in it),
  and `ImplementsService`: ThreadPool refines TaskService. `Drain` is a stutter
  of the service because the workers, of whom there is one, left an empty queue.
* **ServerProofs.** `TypeOK` unconditionally, and `IInv == TypeOK /\ (NoRace =>
  Core)`. None of the server's invariants is inductive alone: that a connection
  has one owner depends on the bit being clear while it is held, which depends
  on the snapshot being a subset of the bits when it is looked at, which depends
  on nobody else having that descriptor, which depends on the words that threads
  have loaded being what memory still holds. `Core` is the conjunction of these
  links: `Once`, `HeldLinked`, `Watched`, `Private`, `OpenSockets`, `Loaded`,
  `Snapped`, `Running`. From it `OneOwner`, `NoStranded`, `SelectSafe` and
  `AnswersTheAsker`. `FreedQuiet` holds with overlaps too and has an invariant of
  its own (`Going`). `UsesThePool` shows that the server uses TaskService as
  specified.

  `UsesTheCells`: it uses BlockSets as specified, because between two
  traversals nothing is left to visit (`Visited`).
* **HeadersProofs, the index.** For every table of up to 127 headers with
  `HashesIdentify` (no two share a hash, no beginning of a name has the hash of the
  whole; it says nothing of the hashes of names with NULs): the sort stays inside
  the index and sorts it (`SortSorts`), and a search returns the header of that name
  or none (`NamesAreFound`), where for a name with NULs either answer is possible,
  but no other header. The invariant is the one of bubble sort, that everything
  above `i` is in place and position `j` holds the largest so far, together with the
  index being a permutation; the search keeps "if the header is there, it is between
  `low` and `high`". `UsesTheIndex` carries this over to the whole life of the
  headers.
* **HeadersProofs, the tree.** For every finite set of header numbers and every
  sequence of adding, printing and freeing: `TypeOK`, `Balanced`, `ThreadsLeadOn`
  and `PrintsAll`. The invariant `TreeInv` has two halves. The tree is in order
  (`Good`): every node has a balance factor that is the difference of the heights
  and small, its keys between those of its subtrees, a thread only in the place of a
  right child, and below its left child no thread that leads beyond it. And
  every thread leads to a key that was added, with none in between (`Leads`). The first
  half is a property of a tree, so it goes through the recursion: `Grown` says
  what an insertion makes of a subtree (one key more, the height that the result
  code announces, no new thread, none across the new key), and `InsertRight` and
  `InsertLeft` show it of a tree if it holds of the subtree, with one lemma
  for each of the four cases of rotation (`LeftSingle`, `LeftDouble`, `RightSingle`,
  `RightDouble`). That no thread below the left child leads beyond the node is what
  a right rotation needs, which makes a left child the root and drops its thread.
  Printing: the in-order sequence rises (`InOrderRises`), so the follower in it
  is the next greater key, threads built from it are right whatever was there
  before (`ThreadedKeeps`), and a step along a thread or to the leftmost node on the
  right goes to the next key (`AfterIsNext`), so the walk is the order (`WalkPrints`).
* **ConnectionProofs.** For buffers, elements, packets and dialogues of any size:
  `TypeOK`, `Intact`, `InStep` and `AnswersInOrder`. None of the last three is
  inductive. `Intact` says that what is held and the kernel's buffer are the next
  bytes of the stream, but how many the parser consumes next depends on the element
  that stands there, and that is `InStep`; `InStep` after an element depends on what
  the client puts behind it. The invariant `IInv` is the conjunction of `Laid` (the
  text between two ends is a request of its sort, so each element is followed by the
  one the grammar names), `Control` (what the local variables are at each place
  of the code), `Flow` (`Intact`, with the part of `rbuf` that is parsed already),
  `Where` (the parser stands at the first byte of the element that `status` names,
  within the request after the last answer), `Refused` (an error is reported
  only in a request that deserves one) and `Replied` (the answers so far). They are
  stated for the time before a mishap other than the four of `Waits`, which lose no
  byte: `stale` and `cut` destroy `Flow`.
* **BlocksProofs.** For any set of blocks: `TypeOK`, and `CellsAreSets`, that the
  links implement BlockSets. The invariant says that the ring closes in both
  directions (`Ring`), that list and chain share no block and lose none (`Parted`),
  that no walk comes back to where it began (`NoCycle`), and that a walk from any
  listed block gets to the head of the list (`ToTheLast`). The middle two are what
  makes `object_pool_return` harmless although it overwrites the link that the
  traversal stands on: the traversal has read it before, and the walk from there
  does not meet the block. A walk is a smallest closed set, so its lemmas
  (`ReachUnfold`, `ReachTrans`, `ReachCut`, `ReachGrow`) need neither counting nor
  induction; only that the chain of the first state holds every block takes a least
  number (`Least`, from the well-foundedness of the naturals).
* **ResponseProofs.** For buffers, windows, files of any size and any number of
  requests and changes: `TypeOK`, with the room that the head leaves in the
  buffer; `NoFileLeft`; `AsAnnounced`, which needs that `keep_alive` holds between
  responses and that a write which fails implies a client that has gone;
  `HeadsFit`, which evaluates both tables at the statuses in use; and `InFrame`.
  For the last, `Understood` says that the items on their way, in the
  buffer and in the socket, lead the client from what it expects now to what
  the server still has to send: there is a walk (`Leads`), one expectation per
  item, that never meets a unit too many or a head too early. Every action adds an
  item at its end, takes one from its beginning, or leaves it alone. That the
  server still has to send what the head promised is `Promise`: the length is what
  there is to read, unless the file was changed in between or has a size that no
  `int` holds (`Narrowed` has what becomes of it otherwise). `AsAnnounced` has two
  exceptions, a client that is gone and an `rbuf` full of a request that does not
  end, and both are the code's.
* **UrlPathProofs.** For URLs of any length: `TypeOK`, that positions stay inside the
  URL and every segment below the top of the stack ends in a slash (so that
  `gen_path` may put them one behind the other); `StaysBelowRoot`, whose
  invariant is that nothing on the stack is `.` or `..`; `OpensWhatIsMeant`, that the
  file opened is the one the URL means, for which `Walks` says that the parser stands
  behind a `/`, with one word since at most, and that the stack is what the
  segments so far mean (`Dirs` at the number of marks passed, `Rank`); and
  `ListsTheQuery`, for which `Reads` says where the three pointers are in the current
  item and `Listed` that all items before it are in the list.

**Induction over data.** Two of these modules speak of recursive functions:
what a tree or a sequence of segments of any size makes of them. The library's
induction theorems have an operator as a parameter and cannot be used, so the
principle is a lemma about sets (`Induction`): a set of natural numbers that has
0, and with each number the next, has all of them. It follows from `WFMin` and
`NatLessThanWellFounded`, which have no such parameter; `TreeInduction` follows from
it. A recursive function in TLA+ is the `CHOOSE` of one that satisfies an
equation, so nothing is known of it before such a function is shown to exist:
`Solved` builds one for all recursive operators of HeaderTree at once, level by
level, and `NodesIs`, `HeightIs`, `InsertIs` and so on say what each is at Nil and at
a node. From there on the proofs use these lemmas only.

Only model-checked: liveness (`HeadIsTaken`, `EveryTaskStarts`, `ShutdownCompletes`,
`Served`, `Answered`, `Completes`), since the prover does no fairness and no
`ENABLED`. Every other property of a passing run is a theorem.

## 5. Where code and comments part

| Run | Said | Done |
|---|---|---|
| MCServerTear | a final response must be sent (`http_response.c:20`) | `FD_SET` without `fd_lock` (`server.c:99`) overlaps with a worker's and drops its bit; that connection is never served again |
| MCConnectionRemain | "IMPOSSIBLE!!! remain > 1024" (`server.c:279`) | an unfinished header line between 1025 and 2047 bytes does it |
| MCConnectionStale | 400 means malformed syntax (`http_response.c:175`) | after a split request the old bytes come again in front of the next piece, and a well-formed request is refused |

Behaviour the models also have, which no run singles out: the overlap `reuse` (the
socket is closed before `conn->socket` is -1, `server.c:351`; the stale connection
can swallow the request of the next one with that number), the other mishaps of
Connection, the window of `signal_destroy`, starvation with fewer workers than busy
clients, a file of 2^31 bytes or more, whose length is announced as another one or
below zero while all of it is sent (`server.c:448`); a request that fills `rbuf`
before it is complete, which closes the connection unannounced, because `recv` with
a length of 0 returns 0 (`server.c:267`, `285`); a header whose name has two NULs
behind it, which is filed under the header of that name (`http_header.c:602`,
`646`); the accepted client without a block, `connection pool full` while closed
blocks wait to be reclaimed (`server.c:100`), the skipped visit after a failing
`accept`, a path ending in `/.` treated as one ending in `/..`; a `//` anywhere
taken for the begin of a host, so that `/a?x=//h/y` opens `/y` (`http_url.c:275`);
the URL `http:` alone, whose comparison with the scheme includes the 0 byte and
skips it (`http_url.c:271`); an item of the query without a value, which ends the
list, and values of which only the last character is kept (`http_url.c:383`, `415`);
a 405 without the Allow header its comment demands.

What the properties do not catch, because the code does it and they step around it:
the window of `signal_destroy` (`ShutdownCompletes`); what `reuse` and `minus1` lead to
(`NoRace`); clients without a block and the turns an `accept` that keeps failing
skips (`Served`); descriptors that `server_clean` closes under a worker; a client that
does not read (fairness); the end of the process after `overrun`; the file that a `//`
leads to (`Plain`).

## 6. Not modelled

* Start-up (`server_listen`, `server_open_pipe`), configuration, logger:
  sequential, no state that is used later but constants. `mime.cc` is not compiled.
  `logger.c:63` may write more than its buffer of 1024 bytes holds, since
  `vsnprintf` returns the length the text would have had; no decision depends on it.
* `FD_SETSIZE`: descriptors of 1024 and above. `pthread_create` failing (a stack
  of 10240 bytes). `stale_connection_timeout_sec`, which nothing uses: an idle
  client keeps its block.
* An entry pushed after `signal_destroy` is dropped (`PushDropped`): no caller does it.
* `http_header.c:404`: a repeated header is not inserted and its block never
  freed; blocks of headers are not counted. `http_header_to_str` resumed after a
  buffer that was too small: no response of this server has so long a head.
* Closing with unread input, where the kernel may destroy responses not read
  yet; a file that grows as fast as it is sent.
* Functions nobody calls: `object_pool_expand`, `stack_top`,
  `http_header_binary_search`, `http_url_escape`, `http_url_unescape`.
* `gen_path` returns nothing although `list_traverse` looks at its result; the
  makefile builds without optimisation, where the register holds a pointer, and
  the model takes every segment to be visited.
* Characters: which ones `IS_PATH` allows, the port behind a host's name.

## 7. Plan

Written in the order of importance: SyncQueue, ThreadPool over TaskService, Server
over TaskService and BlockSets, Blocks, Connection, Response, Headers with tree and
index, UrlPath, and the proofs named in section 4. What would come next:

1. **Connection and Response** as one refinement: Connection's `Reply` as what
   Response does between `Take` and `Finish`.
2. **Bounds of the numbers** in a balance factor (`int8_t`) and a position
   (`int`): the theorems bound the first by 1 and the second by the length of
   what was received, so only the length of a buffer is left to argue about.
3. **Headers resumed**: `http_header_to_str` with a buffer that is too small, for
   messages with more headers than this server sends.
