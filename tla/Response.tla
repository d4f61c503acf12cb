------------------------------ MODULE Response ------------------------------
(***************************************************************************)
(* The responses of one connection: what server_process_request decides,   *)
(* how http_response_gen turns it into buffers, how server_serv_client     *)
(* writes them, and what the client makes of the stream.  Meanwhile others *)
(* change the file: its size is taken by stat, it is opened afterwards,    *)
(* and read piece by piece.                                                *)
(*                                                                         *)
(* Sizes are counted in units of a few bytes.  A head, from the version to *)
(* the empty line, takes HeadLen of the buffer and is one item of the      *)
(* stream; a unit of content is another.  How requests are received is     *)
(* Connection's business: here they are in `todo' when they are complete,  *)
(* and so is one that never gets complete because rbuf cannot hold it.     *)
(***************************************************************************)
EXTENDS Integers, Sequences, SequencesExt

CONSTANTS Room,         (* sizeof(wbuf): 4096 *)
          HeadLen,      (* a head; the longest is far from filling wbuf *)
          Window,       (* what the socket and the client's kernel hold *)
          Half,         (* 2^31: the least size that is no int *)
          Sizes,        (* bound: sizes of the file *)
          MaxRequests,  (* bound: requests of the client *)
          MaxChanges,   (* bound: changes of the file *)
          Unit,         (* a unit of content in the stream *)
          None

ASSUME ResponseAssumption ==
    /\ Room \in Nat /\ HeadLen \in Nat \ {0} /\ HeadLen < Room
    /\ Window \in Nat \ {0}
    /\ Half \in Nat \ {0} /\ Sizes \subseteq Nat /\ 0 \in Sizes
    /\ MaxRequests \in Nat /\ MaxChanges \in Nat
    /\ None \notin [len : Nat, off : Nat, linked : BOOLEAN]
    /\ Unit \notin [code : Nat, length : Int, close : BOOLEAN]

VARIABLES
    (* the file system *)
    path,      (* what the name in the URL leads to: a file of that size *)
    changes,   (* how often that was changed by others *)
    (* the client and the socket *)
    issued,    (* requests sent *)
    asked,     (* methods of the requests whose response has not begun *)
    pipe,      (* written and not yet read *)
    want,      (* units of content the client still expects *)
    confused,  (* a head where content belongs, or content for a head *)
    gone,      (* the client has closed *)
    (* server_serv_client *)
    pc, todo,
    method,    (* request.method; "bad" stands for parse_status_error *)
    keep,      (* keep_alive *)
    wbuf,
    sendEnd,   (* send_end *)
    (* http_response_t *)
    status,    (* an index, as in http_status_t *)
    content,   (* the open file, None for -1 *)
    length,    (* file_info.st_size until the file is open, then the *)
               (* header Content-Length *)
    begun,     (* gen_status is past the headers *)
    (* history *)
    told,      (* the last response announced Connection: close *)
    spoilt     (* a file changed, or could not be read, under a response, *)
               (* or was too large for its size to be an int *)

fileVars == <<path, changes>>
clientVars == <<issued, asked, pipe, want, confused, gone>>
resVars == <<status, content, length, begun>>
vars == <<fileVars, clientVars, pc, todo, method, keep, wbuf, sendEnd,
          resVars, told, spoilt>>

-----------------------------------------------------------------------------
(* The members of http_status_t by their numbers, and the numbers the      *)
(* lines of http_response_code begin with; the index of the first is used  *)
(* in the second.                                                          *)
http_status_t == <<
    100, 101, 200, 201, 202, 203, 204, 205, 206, 300, 301, 302, 303, 304, 305,
    307, 400, 401, 402, 403, 404, 405, 406, 407, 408, 409, 410, 411, 412, 413,
    414, 415, 416, 417, 500, 501, 502, 503, 504, 505 >>
e_http(code) == CHOOSE i \in DOMAIN http_status_t : http_status_t[i] = code

(* Faulty: the line of 306, which the enumeration does not have.           *)
http_response_code_306 == <<
    100, 101, 200, 201, 202, 203, 204, 205, 206, 300, 301, 302, 303, 304, 305,
    306, 307, 400, 401, 402, 403, 404, 405, 406, 407, 408, 409, 410, 411, 412,
    413, 414, 415, 416, 417, 500, 501, 502, 503, 504, 505 >>
http_response_code == <<
    100, 101, 200, 201, 202, 203, 204, 205, 206, 300, 301, 302, 303, 304, 305,
    307, 400, 401, 402, 403, 404, 405, 406, 407, 408, 409, 410, 411, 412, 413,
    414, 415, 416, 417, 500, 501, 502, 503, 504, 505 >>

Paths == Sizes \cup {-1, -2}   (* -1: there is none, -2: not a regular file *)
Methods == {"get", "head", "options", "post", "bad"}
Endless == "endless"   (* a request that outgrows rbuf before it is complete *)

(* An off_t becomes an int.                                                *)
AsInt(n) == ((n + Half) % (2 * Half)) - Half

Init ==
    /\ path \in Paths /\ changes = 0
    /\ issued = 0 /\ asked = <<>> /\ pipe = <<>> /\ want = 0
    /\ confused = FALSE /\ gone = FALSE
    /\ pc = "idle" /\ todo = <<>> /\ method = "get" /\ keep = TRUE
    /\ wbuf = <<>> /\ sendEnd = FALSE
    /\ status = e_http(200) /\ content = None /\ length = 0 /\ begun = FALSE
    /\ told = FALSE /\ spoilt = FALSE

-----------------------------------------------------------------------------
(* The next request; parse_end is set.                                     *)
Take ==
    /\ pc = "idle" /\ todo # <<>> /\ Head(todo) # Endless
    /\ method' = Head(todo)
    /\ todo' = Tail(todo)
    /\ pc' = "process"
    /\ UNCHANGED <<fileVars, clientVars, keep, wbuf, sendEnd, resVars, told,
                   spoilt>>

(* Faulty: gen_status is not reset.                                        *)
RespondGoesOn(code, n) ==
    /\ status' = e_http(code)
    /\ length' = n
    /\ UNCHANGED begun

(* http_response_reset(&res, code) and the header Content-Length: n.       *)
Respond(code, n) ==
    /\ status' = e_http(code)
    /\ length' = n
    /\ begun' = FALSE

(* server_process_request on a parse error.                                *)
ProcessBad ==
    /\ pc = "process" /\ method = "bad"
    /\ keep' = FALSE
    /\ Respond(400, 0) /\ content' = None
    /\ pc' = "gen"
    /\ UNCHANGED <<fileVars, clientVars, todo, method, wbuf, sendEnd, told,
                   spoilt>>

(* server_process_options, and the methods that are not allowed.           *)
ProcessPlain ==
    /\ pc = "process" /\ method \in {"options", "post"}
    /\ Respond(IF method = "options" THEN 200 ELSE 405, 0) /\ content' = None
    /\ pc' = "gen"
    /\ UNCHANGED <<fileVars, clientVars, todo, method, keep, wbuf, sendEnd,
                   told, spoilt>>

(* server_process_get up to the size of the file: it is not opened when    *)
(* there is nothing to send.                                               *)
ProcessStat ==
    /\ pc = "process" /\ method \in {"get", "head"}
    /\ \/ /\ path < 0
          /\ Respond(404, 0)
          /\ pc' = "gen"
       \/ /\ path = 0
          /\ Respond(200, 0)
          /\ pc' = "gen"
       \/ /\ path > 0
          /\ Respond(200, path)
          /\ pc' = "open"
    /\ content' = None
    /\ UNCHANGED <<fileVars, clientVars, todo, method, keep, wbuf, sendEnd,
                   told, spoilt>>

SendsNoContentEver == FALSE   (* Faulty: HEAD leaves the file open *)

(* server_process_head closes the file again.                              *)
SendsNoContent == method = "head"

(* The rest of server_process_get, and of server_process_head: clen, an    *)
(* int, becomes the size that stat had.                                    *)
ProcessOpen ==
    /\ pc = "open"
    /\ path # -1
    /\ content' = IF SendsNoContent THEN None
                  ELSE [len |-> IF path < 0 THEN 0 ELSE path,
                        off |-> 0, linked |-> TRUE]
    /\ length' = AsInt(length)
    /\ spoilt' = (spoilt \/ length' # length)
    /\ keep' = TRUE
    /\ pc' = "gen"
    /\ UNCHANGED <<fileVars, clientVars, todo, method, wbuf, sendEnd, status,
                   begun, told>>

(* It is gone, may not be read, or no descriptor is left.                  *)
OpenFails ==
    /\ pc = "open"
    /\ Respond(500, 0)
    /\ pc' = "gen"
    /\ UNCHANGED <<fileVars, clientVars, todo, method, keep, wbuf, sendEnd,
                   content, told, spoilt>>

-----------------------------------------------------------------------------
(* http_response_gen, one call: the head if it is not out yet, and one     *)
(* read of as much as there is room for.                                   *)
ToRead == IF content = None \/ content.off >= content.len THEN 0
          ELSE content.len - content.off
LeftAll == Room   (* Faulty: what the head has taken is not subtracted *)
Left == IF begun THEN Room ELSE Room - HeadLen
HeadItem == [code |-> http_response_code[status], length |-> length,
             close |-> ~keep]
HeadPart == IF begun THEN <<>> ELSE <<HeadItem>>

(* Faulty: only an error ends the content, not a read of nothing.          *)
AtEndOnError(n) == n = 0 /\ content = None

(* is_end: the end of the file, no content, or an error.                   *)
AtEnd(n) == n = 0

Generate ==
    /\ pc = "gen"
    /\ \E n \in {0, IF ToRead > Left THEN Left ELSE ToRead} :
          /\ wbuf' = HeadPart \o [k \in 1 .. n |-> Unit]
          /\ content' = IF n = 0 THEN content ELSE [content EXCEPT !.off = @ + n]
          /\ sendEnd' = AtEnd(n)
          /\ spoilt' = (spoilt \/ (n = 0 /\ ToRead > 0))
    /\ begun' = TRUE
    /\ told' = ~keep
    /\ pc' = "write"
    /\ UNCHANGED <<fileVars, clientVars, todo, method, keep, status, length>>

(* write blocks as long as the client does not read.                       *)
Write ==
    /\ pc = "write" /\ wbuf # <<>>
    /\ ~gone
    /\ Len(pipe) < Window
    /\ pipe' = Append(pipe, Head(wbuf))
    /\ wbuf' = Tail(wbuf)
    /\ UNCHANGED <<fileVars, issued, asked, want, confused, gone, pc, todo,
                   method, keep, sendEnd, resVars, told, spoilt>>

(* The client has closed: the bytes vanish, write returns an error, or     *)
(* SIGPIPE ends the process.                                               *)
WriteVanishes ==
    /\ pc = "write" /\ wbuf # <<>>
    /\ gone
    /\ wbuf' = <<>>
    /\ UNCHANGED <<fileVars, clientVars, pc, todo, method, keep, sendEnd,
                   resVars, told, spoilt>>

WriteFails ==
    /\ pc = "write" /\ wbuf # <<>>
    /\ gone
    /\ wbuf' = <<>>
    /\ keep' = FALSE
    /\ pc' = "finish"
    /\ UNCHANGED <<fileVars, clientVars, todo, method, sendEnd, resVars, told,
                   spoilt>>

Killed ==
    /\ pc = "write" /\ wbuf # <<>>
    /\ gone
    /\ pc' = "killed"
    /\ UNCHANGED <<fileVars, clientVars, todo, method, keep, wbuf, sendEnd,
                   resVars, told, spoilt>>

Written ==
    /\ pc = "write" /\ wbuf = <<>>
    /\ pc' = IF sendEnd THEN "finish" ELSE "gen"
    /\ UNCHANGED <<fileVars, clientVars, todo, method, keep, wbuf, sendEnd,
                   resVars, told, spoilt>>

StaysOpen == "idle"   (* Faulty: keep_alive is not looked at *)
AfterLoop == IF keep THEN "idle" ELSE "closed"

(* Both messages are reset, and the connection closed if it does not stay. *)
Finish ==
    /\ pc = "finish"
    /\ content' = None
    /\ Respond(200, 0)
    /\ pc' = AfterLoop
    /\ UNCHANGED <<fileVars, clientVars, todo, method, keep, wbuf, sendEnd,
                   told, spoilt>>

(* recv returns 0 or an error.                                             *)
EndOfStream ==
    /\ pc = "idle" /\ gone
    /\ keep' = FALSE
    /\ pc' = "closed"
    /\ UNCHANGED <<fileVars, clientVars, todo, method, wbuf, sendEnd, resVars,
                   told, spoilt>>

(* rbuf is full of the beginning of a request: recv is called with a       *)
(* length of 0, returns 0, and that is taken for the end of the stream.    *)
BufferFull ==
    /\ pc = "idle" /\ todo # <<>> /\ Head(todo) = Endless
    /\ keep' = FALSE
    /\ pc' = "closed"
    /\ UNCHANGED <<fileVars, clientVars, todo, method, wbuf, sendEnd, resVars,
                   told, spoilt>>

-----------------------------------------------------------------------------
(* The client, which may be ahead of the responses; whatever follows a     *)
(* request that cannot be parsed is not looked at.                         *)
Ask(m) ==
    /\ ~gone /\ pc # "closed"
    /\ issued < MaxRequests
    /\ issued' = issued + 1
    /\ todo' = Append(todo, m)
    /\ asked' = Append(asked, m)
    /\ UNCHANGED <<fileVars, pipe, want, confused, gone, pc, method, keep,
                   wbuf, sendEnd, resVars, told, spoilt>>

(* It takes for content as many units as the head has promised, and can    *)
(* make nothing of a promise below zero.                                   *)
Promised(h) == IF asked = <<>> \/ Head(asked) = "head" \/ h.length < 0 THEN 0
               ELSE h.length

Read ==
    /\ ~gone /\ pipe # <<>>
    /\ pipe' = Tail(pipe)
    /\ IF Head(pipe) = Unit
       THEN /\ confused' = (confused \/ want = 0)
            /\ want' = IF want = 0 THEN 0 ELSE want - 1
            /\ UNCHANGED asked
       ELSE /\ confused' = (confused \/ want > 0 \/ asked = <<>>
                               \/ Head(pipe).length < 0)
            /\ want' = Promised(Head(pipe))
            /\ asked' = IF asked = <<>> THEN asked ELSE Tail(asked)
    /\ UNCHANGED <<fileVars, issued, gone, pc, todo, method, keep, wbuf,
                   sendEnd, resVars, told, spoilt>>

HangUp ==
    /\ ~gone
    /\ gone' = TRUE
    /\ pipe' = <<>>
    /\ UNCHANGED <<fileVars, issued, asked, want, confused, pc, todo, method,
                   keep, wbuf, sendEnd, resVars, told, spoilt>>

(* A size was taken for a response, and the file is not open yet.          *)
Between == pc = "open" /\ method = "get"

(* Others write to the file or truncate it; an open one changes with it.   *)
Resize ==
    /\ changes < MaxChanges /\ changes' = changes + 1
    /\ path >= 0
    /\ \E n \in Sizes \ {path} : path' = n
    /\ IF content # None /\ content.linked
       THEN content' = [content EXCEPT !.len = path'] /\ spoilt' = TRUE
       ELSE UNCHANGED content /\ spoilt' = (spoilt \/ Between)
    /\ UNCHANGED <<clientVars, pc, todo, method, keep, wbuf, sendEnd, status,
                   length, begun, told>>

(* They remove it or put something else in its place; an open one stays.   *)
Replace ==
    /\ changes < MaxChanges /\ changes' = changes + 1
    /\ path' \in Paths \ {path}
    /\ content' = IF content = None THEN None ELSE [content EXCEPT !.linked = FALSE]
    /\ spoilt' = (spoilt \/ Between)
    /\ UNCHANGED <<clientVars, pc, todo, method, keep, wbuf, sendEnd, status,
                   length, begun, told>>

-----------------------------------------------------------------------------
ServerStep ==
    \/ Take \/ ProcessBad \/ ProcessPlain \/ ProcessStat
    \/ ProcessOpen \/ OpenFails
    \/ Generate \/ Write \/ WriteVanishes \/ WriteFails \/ Killed \/ Written
    \/ Finish \/ EndOfStream \/ BufferFull

Next ==
    \/ ServerStep
    \/ \E m \in Methods \cup {Endless} : Ask(m)
    \/ Read \/ HangUp
    \/ Resize \/ Replace

Spec == Init /\ [][Next]_vars

(* The worker runs on, and a client that stays reads what it gets; a write *)
(* to one that does not blocks the worker for good.                        *)
FairSpec == Spec /\ WF_vars(ServerStep) /\ WF_vars(Read)

-----------------------------------------------------------------------------
Heads(s) == ToSet(s) \ {Unit}

(* The type invariant; a buffer is never filled beyond its end.            *)
TypeOK ==
    /\ path \in Paths /\ changes \in 0 .. MaxChanges
    /\ issued \in 0 .. MaxRequests /\ Len(todo) <= issued /\ Len(asked) <= issued
    /\ Len(pipe) <= Window /\ want \in 0 .. Half - 1
    /\ confused \in BOOLEAN /\ gone \in BOOLEAN
    /\ pc \in {"idle", "process", "open", "gen", "write", "finish", "closed",
               "killed"}
    /\ method \in Methods /\ keep \in BOOLEAN
    /\ Len(wbuf) + (IF Heads(wbuf) = {} THEN 0 ELSE HeadLen - 1) <= Room
    /\ sendEnd \in BOOLEAN
    /\ status \in DOMAIN http_status_t /\ begun \in BOOLEAN
    /\ length \in IF pc = "open" THEN Sizes ELSE -Half .. Half - 1
    /\ content \in {None} \cup [len : Sizes, off : Nat, linked : BOOLEAN]
    /\ told \in BOOLEAN /\ spoilt \in BOOLEAN

(* The client always finds a head where it expects one, and exactly as     *)
(* much content as the head promises, in any number of buffers and with    *)
(* any number of requests under way, unless a file changed between stat    *)
(* and the last read, or has a size that is no int: then the length that   *)
(* is promised is another one, or below zero.                              *)
InFrame == ~spoilt =>
    /\ ~confused
    /\ pc = "idle" /\ pipe = <<>> /\ ~gone => want = 0 /\ asked = todo
    /\ pc = "closed" /\ pipe = <<>> /\ ~gone => want = 0

(* An open file belongs to the response of a GET that is being sent: none  *)
(* is left behind by a failed write, a HEAD or a pipelined request.        *)
NoFileLeft == content # None =>
    method = "get" /\ pc \in {"gen", "write", "finish", "killed"}

(* The connection is closed exactly when the response before has said so,  *)
(* the client is gone, or its next request does not fit into rbuf: never   *)
(* under any other client that waits for more, and never kept open when    *)
(* the client was told that it will be closed.                             *)
AsAnnounced ==
    /\ pc = "closed" => told \/ gone \/ (todo # <<>> /\ Head(todo) = Endless)
    /\ pc \in {"idle", "process", "open"} => ~told

(* The two tables of the statuses agree on what the responses use: the     *)
(* number the client gets fits the rest of the head, content is promised   *)
(* by a 200 only, and 400 alone announces the end.                         *)
HeadsFit == \A h \in Heads(pipe) :
    /\ h.code \in {200, 400, 404, 405, 500}
    /\ h.length # 0 => h.code = 200
    /\ h.close <=> h.code = 400

(* A response comes to its end, also when the file is truncated, replaced  *)
(* or grows while it is sent, or the client leaves.                        *)
Completes == pc = "process" ~> pc \in {"idle", "closed", "killed"}
=============================================================================
