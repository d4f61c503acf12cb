----------------------------- MODULE Connection -----------------------------
(***************************************************************************)
(* One connection between two closes, seen from server_serv_client: how    *)
(* the bytes a client sends reach http_request_parse, across the calls of  *)
(* server_serv_client and the calls of recv in each of them, and which     *)
(* responses come out.  When the connection is armed and when a worker     *)
(* starts is Server's business; here a call begins when there is something *)
(* to read.                                                                *)
(*                                                                         *)
(* A byte is its position in the client's stream, and what the parser sees *)
(* of it is text[position] = <<kind, i>>: part i of an element of that     *)
(* kind.  The elements of a request are a method with its blank, a URL     *)
(* with its blank, a version with its line end, header lines and the empty *)
(* line.  In their places may stand `junk', which fits nowhere, a single   *)
(* `stray' byte, a `nul' byte, or a `gap': a second blank where the URL    *)
(* should begin.  The parts of an element are cut so fine (Size) that it   *)
(* can arrive in pieces, and a long line may be larger than the buffers.   *)
(***************************************************************************)
EXTENDS Naturals, Integers, Sequences, FiniteSets, SequencesExt

CONSTANTS Dialogues,  (* the sequences of requests a client may send *)
          Size,       (* parts of an element of each kind *)
          RBuf,       (* sizeof(rbuf): 2048 *)
          DBuf,       (* sizeof(conn->data_buffer): 1024 *)
          Window      (* a client is at most so many requests ahead *)

BadMethods == {"badMethod", "nulMethod"}
BadUrls == {"badUrl", "nulUrl", "noUrl"}
BadVersions == {"badVersion", "shortVersion"}
Bad == BadMethods \cup BadUrls \cup BadVersions
Sorts == {"get", "put", "longGet"} \cup Bad
Lines == {"line", "long"}
Foreign == {"junk", "stray", "nul", "gap"}
Kinds == {"method", "Pmethod", "url", "version", "blank"} \cup Lines \cup Foreign

ASSUME ConnectionAssumption ==
    /\ Dialogues \subseteq Seq(Sorts)
    /\ Size \in [Kinds -> Nat \ {0}]
    /\ RBuf \in Nat \ {0} /\ DBuf \in Nat
    /\ DBuf <= RBuf
    /\ Window \in Nat \ {0}

VARIABLES
    (* the client and the kernel *)
    requests, (* what the client has made up its mind to send, *)
    text,     (* byte by byte, *)
    ends,     (* and the last byte of each request *)
    sent,     (* how much of it has left the client *)
    fin,      (* the client has closed its end *)
    wire,     (* received by the kernel, not yet by recv *)
    answers,  (* the responses that were written *)
    (* connection_info_t *)
    data,     (* data_buffer[0 .. data_len - 1] *)
    status,   (* request.parse_status; "complete" once is_end is set *)
    method,   (* request.method *)
    (* server_serv_client and http_request_parse *)
    pc,
    rbuf,     (* rbuf[0 .. remain - 1], in http_request_parse [0 .. size - 1] *)
    off,      (* p - data *)
    plen,     (* parsed_len *)
    (* history *)
    taken,    (* how much of the stream the parser has consumed *)
    damaged   (* what has happened to the stream that should not happen *)

clientVars == <<requests, text, ends, sent, fin>>
vars == <<clientVars, wire, answers, data, status, method, pc, rbuf, off, plen,
          taken, damaged>>

Parts(k) == [i \in 1 .. Size[k] |-> <<k, i>>]
Regular(m, l) ==
    Parts(m) \o Parts("url") \o Parts("version") \o Parts(l) \o Parts("blank")
Wrong(r) ==
    CASE r \in {"nulMethod", "nulUrl"} -> "nul"
      [] r = "noUrl" -> "gap"
      [] r = "shortVersion" -> "stray"
      [] OTHER -> "junk"
Bytes(r) ==
    CASE r = "get" -> Regular("method", "line")
      [] r = "put" -> Regular("Pmethod", "line")
      [] r = "longGet" -> Regular("method", "long")
      [] r \in BadMethods -> Parts(Wrong(r))
      [] r \in BadUrls -> Parts("method") \o Parts(Wrong(r)) \o Parts("url")
      [] r \in BadVersions -> Parts("method") \o Parts("url") \o Parts(Wrong(r))

Init ==
    /\ requests = <<>> /\ text = <<>> /\ ends = <<>>
    /\ sent = 0 /\ fin = FALSE
    /\ wire = <<>> /\ answers = <<>>
    /\ data = <<>> /\ status = "method" /\ method = "none"
    /\ pc = "armed" /\ rbuf = <<>> /\ off = 0 /\ plen = 0
    /\ taken = 0 /\ damaged = {}

(* How many requests end within the first n bytes.                         *)
Ended(n) == Cardinality({ k \in DOMAIN ends : ends[k] <= n })

(* The bytes in front of the n-th request.                                 *)
Start(n) == IF n = 1 THEN 0 ELSE ends[n - 1]

-----------------------------------------------------------------------------
(* The client has a next request to send, ...                              *)
Ask(r) ==
    /\ ~fin
    /\ Len(requests) < Len(answers) + Window
    /\ \E d \in Dialogues : IsPrefix(Append(requests, r), d)
    /\ requests' = Append(requests, r)
    /\ text' = text \o Bytes(r)
    /\ ends' = Append(ends, Len(text'))
    /\ UNCHANGED <<sent, fin, wire, answers, data, status, method, pc, rbuf,
                   off, plen, taken, damaged>>

(* ... and sends what it has in packets of any size.                       *)
Send(n) ==
    /\ ~fin
    /\ sent + n <= Len(text)
    /\ sent' = sent + n
    /\ wire' = wire \o [i \in 1 .. n |-> sent + i]
    /\ UNCHANGED <<requests, text, ends, fin, answers, data, status, method, pc,
                   rbuf, off, plen, taken, damaged>>

HangUp ==
    /\ ~fin
    /\ fin' = TRUE
    /\ UNCHANGED <<requests, text, ends, sent, wire, answers, data, status, method, pc,
                   rbuf, off, plen, taken, damaged>>

-----------------------------------------------------------------------------
(* server_serv_client is called: the saved bytes go to the front of rbuf.  *)
Serve ==
    /\ pc = "armed"
    /\ wire # <<>> \/ fin
    /\ rbuf' = data
    /\ pc' = "recv"
    /\ UNCHANGED <<clientVars, wire, answers, data, status, method, off, plen,
                   taken, damaged>>

Room == RBuf - Len(rbuf)

(* recv fills rbuf as far as there are bytes and room, and                 *)
(* http_request_parse begins.                                              *)
RecvBytes ==
    /\ pc = "recv"
    /\ Room > 0
    /\ wire # <<>>
    /\ LET n == IF Len(wire) < Room THEN Len(wire) ELSE Room IN
       /\ rbuf' = rbuf \o SubSeq(wire, 1, n)
       /\ wire' = SubSeq(wire, n + 1, Len(wire))
    /\ off' = 0
    /\ pc' = "parse"
    /\ UNCHANGED <<clientVars, answers, data, status, method, plen, taken,
                   damaged>>

(* Faulty: saves all of it, however large data_buffer is.                  *)
SaveTooMuch ==
    /\ pc = "recv"
    /\ Room > 0
    /\ wire = <<>>
    /\ ~fin
    /\ data' = rbuf
    /\ rbuf' = <<>>
    /\ pc' = "armed"
    /\ UNCHANGED <<clientVars, wire, answers, status, method, off, plen, taken,
                   damaged>>

(* Faulty: forgets to save.                                                *)
SaveNothing ==
    /\ pc = "recv"
    /\ Room > 0
    /\ wire = <<>>
    /\ ~fin
    /\ rbuf' = <<>>
    /\ pc' = "armed"
    /\ UNCHANGED <<clientVars, wire, answers, data, status, method, off, plen,
                   taken, damaged>>

(* EAGAIN: what the parser did not take is saved for the next call, even   *)
(* if it is a complete request, which nobody looks at before more arrives. *)
(* When the parser took everything, data_len stays what it was.            *)
RecvNothing ==
    /\ pc = "recv"
    /\ Room > 0
    /\ wire = <<>>
    /\ ~fin
    /\ \/ /\ rbuf # <<>>
          /\ data' = SubSeq(rbuf, 1, IF Len(rbuf) > DBuf THEN DBuf ELSE Len(rbuf))
          /\ damaged' = damaged
                 \cup (IF Len(rbuf) > DBuf THEN {"cut"} ELSE {})
                 \cup (IF status = "method"
                             /\ Ended(taken + Len(rbuf)) > Ended(taken)
                       THEN {"unparsed"} ELSE {})
       \/ /\ rbuf = <<>>
          /\ data' = data
          /\ damaged' = IF data # <<>> THEN damaged \cup {"stale"} ELSE damaged
    /\ rbuf' = <<>>
    /\ pc' = "armed"
    /\ UNCHANGED <<clientVars, wire, answers, status, method, off, plen, taken>>

(* recv returns 0: the end of the stream, or no room for a single byte.    *)
RecvEnd ==
    /\ pc = "recv"
    /\ Room = 0 \/ (wire = <<>> /\ fin)
    /\ pc' = "closed"
    /\ UNCHANGED <<clientVars, wire, answers, data, status, method, rbuf, off,
                   plen, taken, damaged>>

-----------------------------------------------------------------------------
(* http_request_parse: one action per turn of the loop that changes        *)
(* parse_status, and one per way out.                                      *)
Rest == SubSeq(rbuf, off + 1, Len(rbuf))
Agrees(k) == \A i \in DOMAIN Rest : i <= Size[k] => text[Rest[i]] = <<k, i>>
Whole(k) == Agrees(k) /\ Len(Rest) >= Size[k]
Partial(k) == Agrees(k) /\ Len(Rest) < Size[k]

Parsing(s) == pc = "parse" /\ status = s

(* An element of n parts is consumed and the status moves on.              *)
Consume(n, next) ==
    /\ off' = off + n
    /\ plen' = n
    /\ taken' = taken + n
    /\ status' = next
    /\ UNCHANGED <<clientVars, wire, answers, data, pc, rbuf, damaged>>

(* Nothing can be consumed: the call returns 0 without a request.          *)
Pause ==
    /\ plen' = 0
    /\ pc' = "parsed"
    /\ UNCHANGED <<clientVars, wire, answers, data, status, method, rbuf, off,
                   taken>>

(* A syntax error: the call returns -1 and is_end is set.                  *)
Reject ==
    /\ status' = "error"
    /\ pc' = "reply"
    /\ UNCHANGED <<clientVars, wire, answers, data, method, rbuf, off, plen,
                   taken>>

Methods == {"method", "Pmethod"}

ParseMethod ==
    /\ Parsing("method")
    /\ \E m \in Methods :
          /\ Whole(m)
          /\ Consume(Size[m], "url")
          /\ method' = m

(* The first byte at hand is that one.                                     *)
Leads(k) == Rest # <<>> /\ text[Rest[1]] = <<k, 1>>

MethodError ==
    /\ Parsing("method")
    /\ \A m \in Methods : ~Agrees(m)
    /\ ~Leads("nul")
    /\ Reject
    /\ UNCHANGED damaged

(* A single 'P' is compared with whatever byte follows in rbuf, and fails. *)
LonePError ==
    /\ Parsing("method")
    /\ Partial("Pmethod") /\ Len(Rest) = 1
    /\ Reject
    /\ damaged' = damaged \cup {"lone P"}

MethodPause ==
    /\ Parsing("method")
    /\ \/ Partial("method")
       \/ Partial("Pmethod") /\ Len(Rest) > 1
    /\ Pause
    /\ UNCHANGED damaged

(* A NUL in front of a method is neither consumed nor refused: `case 0'.   *)
MethodStuck ==
    /\ Parsing("method")
    /\ Leads("nul")
    /\ Pause
    /\ damaged' = damaged \cup {"leading NUL"}

(* http_url_parse looks for the blank first, up to a NUL, and only then at *)
(* the URL.                                                                *)
Blanks == {<<"url", Size["url"]>>, <<"gap", 1>>}
HasBlank == \E i \in DOMAIN Rest : text[Rest[i]] \in Blanks
HasNul == \E i \in DOMAIN Rest :
    /\ text[Rest[i]] = <<"nul", 1>>
    /\ \A j \in 1 .. i - 1 : text[Rest[j]] \notin Blanks

(* Faulty: takes the status after the next one.                            *)
ParseUrlSkips ==
    /\ Parsing("url")
    /\ Whole("url")
    /\ Consume(Size["url"], "header")
    /\ UNCHANGED method

ParseUrl ==
    /\ Parsing("url")
    /\ Whole("url")
    /\ Consume(Size["url"], "version")
    /\ UNCHANGED method

UrlError ==
    /\ Parsing("url")
    /\ HasNul \/ (HasBlank /\ ~Agrees("url") /\ ~Leads("gap"))
    /\ Reject
    /\ UNCHANGED damaged

UrlPause ==
    /\ Parsing("url")
    /\ ~HasBlank /\ ~HasNul
    /\ Pause
    /\ UNCHANGED damaged

(* An empty URL is taken for one that has not arrived: `url_len == 0'.     *)
UrlStuck ==
    /\ Parsing("url")
    /\ Leads("gap")
    /\ Pause
    /\ damaged' = damaged \cup {"empty URL"}

ParseVersion ==
    /\ Parsing("version")
    /\ Whole("version")
    /\ Consume(Size["version"], "header")
    /\ UNCHANGED method

(* The first byte that differs is the last one at hand.                    *)
DiffersLast ==
    /\ ~Agrees("version")
    /\ \A i \in 1 .. Len(Rest) - 1 : text[Rest[i]] = <<"version", i>>

VersionError ==
    /\ Parsing("version")
    /\ ~Agrees("version")
    /\ ~(Leads("stray") /\ DiffersLast)
    /\ Reject
    /\ UNCHANGED damaged

VersionPause ==
    /\ Parsing("version")
    /\ Partial("version") /\ Rest # <<>>
    /\ Pause
    /\ UNCHANGED damaged

(* `t == end' is looked at before `ok': when the byte that differs is the  *)
(* last one at hand, and in the first part of the version, the parser      *)
(* waits for more, also when the request ends there.                       *)
VersionWaits ==
    /\ Parsing("version")
    /\ DiffersLast
    /\ Pause
    /\ damaged' = IF Ended(taken + Len(Rest)) > Ended(taken)
                  THEN damaged \cup {"short version"} ELSE damaged

(* http_version_parse returns at once when there is nothing to look at,    *)
(* and parsed_len is still the length of the URL: it is consumed again.    *)
VersionOverrun ==
    /\ Parsing("version")
    /\ Rest = <<>>
    /\ off' = off + plen
    /\ status' = "header"
    /\ pc' = "parsed"
    /\ plen' = 0
    /\ UNCHANGED <<clientVars, wire, answers, data, method, rbuf, taken,
                   damaged>>

(* http_header_parse consumes line by line, ...                            *)
ParseLine ==
    /\ Parsing("header")
    /\ \E k \in Lines : Whole(k) /\ Consume(Size[k], "header")
    /\ UNCHANGED method

(* Faulty: the empty line is skipped and is_end is not set.                *)
BlankIsNoEnd ==
    /\ Parsing("header")
    /\ Whole("blank")
    /\ Consume(Size["blank"], "header")
    /\ UNCHANGED method

(* ... stops at the empty line, which completes the request, ...           *)
ParseBlank ==
    /\ Parsing("header")
    /\ Whole("blank")
    /\ off' = off + Size["blank"]
    /\ taken' = taken + Size["blank"]
    /\ plen' = Size["blank"]
    /\ status' = "complete"
    /\ pc' = "parsed"
    /\ UNCHANGED <<clientVars, wire, answers, data, method, rbuf, damaged>>

HeaderPause ==
    /\ Parsing("header")
    /\ \E k \in Lines \cup {"blank"} : Partial(k)
    /\ Pause
    /\ UNCHANGED damaged

(* ... and takes foreign bytes in front of a line for a part of its name,  *)
(* or for an error, as their text has it.                                  *)
Newlines == { <<k, Size[k]>> : k \in {"version", "blank"} \cup Lines }
ParseMangled ==
    /\ Parsing("header")
    /\ \A k \in Lines \cup {"blank"} : ~Agrees(k)
    /\ \/ Reject /\ UNCHANGED damaged
       \/ /\ \A i \in DOMAIN Rest : text[Rest[i]] \notin Newlines
          /\ Pause /\ UNCHANGED damaged
       \/ \E j \in DOMAIN Rest :
             /\ text[Rest[j]] \in Newlines
             /\ \A i \in 1 .. j - 1 : text[Rest[i]] \notin Newlines
             /\ Consume(j, "header")
             /\ UNCHANGED method

(* Back in server_serv_client: remain += ret - rdlen, and the bytes that   *)
(* are left move to the front.  A negative remain becomes a huge size for  *)
(* memcpy, which ends the process.                                         *)
Shift ==
    /\ pc = "parsed"
    /\ IF off > Len(rbuf)
       THEN /\ pc' = "crashed"
            /\ damaged' = damaged \cup {"overrun"}
            /\ UNCHANGED rbuf
       ELSE /\ pc' = IF status = "complete" THEN "reply" ELSE "recv"
            /\ rbuf' = Rest
            /\ UNCHANGED damaged
    /\ off' = 0
    /\ UNCHANGED <<clientVars, wire, answers, data, status, method, plen,
                   taken>>

(* server_process_request, the response, and the reset of both messages.   *)
(* write may fail when the client is gone.                                 *)
VerdictOfMethod == IF method = "Pmethod" THEN "405" ELSE "200"   (* Faulty *)

Verdict == CASE status = "error" -> "400"
             [] status # "error" /\ method = "Pmethod" -> "405"
             [] OTHER -> "200"

Reply ==
    /\ pc = "reply"
    /\ \/ /\ answers' = Append(answers, Verdict)
          /\ pc' = IF status = "error" THEN "closed" ELSE "recv"
       \/ /\ fin
          /\ pc' = "closed"
          /\ UNCHANGED answers
    /\ status' = "method"
    /\ method' = "none"
    /\ UNCHANGED <<clientVars, wire, data, rbuf, off, plen, taken, damaged>>

-----------------------------------------------------------------------------
ParseStep ==
    \/ ParseMethod \/ MethodError \/ LonePError \/ MethodPause \/ MethodStuck
    \/ ParseUrl \/ UrlError \/ UrlPause \/ UrlStuck
    \/ ParseVersion \/ VersionError \/ VersionPause \/ VersionWaits
    \/ VersionOverrun
    \/ ParseLine \/ ParseBlank \/ HeaderPause \/ ParseMangled

ServerStep ==
    Serve \/ RecvBytes \/ RecvNothing \/ RecvEnd \/ ParseStep \/ Shift \/ Reply

Next ==
    \/ \E r \in Sorts : Ask(r)
    \/ \E n \in 1 .. Len(text) : Send(n)
    \/ HangUp
    \/ ServerStep

(* The connection is served whenever there is something to read: what      *)
(* Server shows of an armed connection.  Nothing is assumed of the client. *)
Spec == Init /\ [][Next]_vars
FairSpec == Spec /\ WF_vars(ServerStep)

-----------------------------------------------------------------------------
Statuses ==
    {"method", "url", "version", "header", "complete", "error"}
Places == {"armed", "recv", "parse", "parsed", "reply", "closed", "crashed"}
(* The mishaps after which a request goes unanswered but the stream is as  *)
(* it should be, and the others.                                           *)
Waits == {"unparsed", "leading NUL", "empty URL", "short version"}
Damages == Waits \cup {"stale", "cut", "overrun", "lone P"}

(* The type invariant: both buffers stay within their sizes, outside the   *)
(* parser nothing is consumed of rbuf, and only there it is not rested.    *)
TypeOK ==
    /\ requests \in Seq(Sorts) /\ text \in Seq(Kinds \X Nat)
    /\ ends \in Seq(Nat) /\ Len(ends) = Len(requests)
    /\ sent \in 0 .. Len(text)
    /\ fin \in BOOLEAN
    /\ wire \in Seq(1 .. Len(text))
    /\ answers \in Seq({"200", "400", "405"})
    /\ data \in Seq(1 .. Len(text)) /\ Len(data) <= DBuf
    /\ status \in Statuses
    /\ method \in Methods \cup {"none"}
    /\ pc \in Places
    /\ rbuf \in Seq(1 .. Len(text)) /\ Len(rbuf) <= RBuf
    /\ off \in Nat /\ plen \in Nat /\ taken \in Nat
    /\ pc \in {"armed", "recv"} => off = 0
    /\ damaged \subseteq Damages

Sound == damaged \subseteq Waits
Serving == Sound /\ pc \notin {"closed", "crashed"} /\ status # "error"
Held == IF pc = "armed" THEN data ELSE Rest

(* No byte is lost, doubled or moved between the socket buffer, rbuf and   *)
(* data_buffer, whatever the packets are and however often recv and the    *)
(* parser give up in the middle of an element.                             *)
Intact == Serving =>
    Held \o wire = [i \in 1 .. sent - taken |-> taken + i]

(* parse_status, which outlives the calls, always names the element whose  *)
(* first byte is the next one to be consumed, and between two requests     *)
(* there are as many answers as requests have been consumed.               *)
InStep == Serving /\ off <= Len(rbuf) =>
    CASE status = "method"   -> taken = Start(Len(answers) + 1)
      [] status = "header"   ->
            text[taken + 1] \in { <<k, 1>> : k \in Lines \cup {"blank"} }
      [] status = "complete" -> taken = ends[Len(answers) + 1]
      [] OTHER -> text[taken + 1] \in { <<k, 1>> : k \in {status} \cup Foreign }

Due(r) == CASE r \in {"get", "longGet"} -> "200" [] r = "put" -> "405" [] OTHER -> "400"

(* The responses come in the order of the requests, each is the one its    *)
(* request calls for, none comes before its request is complete, and a 400 *)
(* neither before the malformed request begins nor in front of another     *)
(* response.                                                               *)
AnswersInOrder == Sound => \A k \in DOMAIN answers :
    /\ answers[k] = Due(requests[k])
    /\ IF answers[k] = "400"
       THEN k = Len(answers) /\ pc = "closed" /\ Start(k) < sent
       ELSE ends[k] <= sent

(* A request that was sent completely is answered or the connection is     *)
(* closed, unless one of the eight mishaps has happened.                   *)
Numbers == UNION { DOMAIN d : d \in Dialogues }
Answered == \A k \in Numbers :
    (Ended(sent) >= k) ~>
        (Len(answers) >= k \/ pc = "closed" \/ damaged # {})

-----------------------------------------------------------------------------
(* What the comments and messages of the code say and the code does not    *)
(* keep.                                                                   *)

(* "IMPOSSIBLE!!! remain > 1024" (server.c:279).                           *)
RemainFits ==
    damaged = {} /\ pc = "recv" /\ wire = <<>> => Len(rbuf) <= DBuf

(* 400 says that "the request could not be understood by the server due to *)
(* malformed syntax" (http_response.c:175); here after bytes that were     *)
(* saved once are read twice.                                              *)
StaleIsHarmless == damaged \subseteq {"stale"} =>
    \A k \in DOMAIN answers : answers[k] = "400" => requests[k] \in Bad
=============================================================================
