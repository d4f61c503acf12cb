--------------------------- MODULE ResponseProofs ---------------------------
(***************************************************************************)
(* For buffers, windows and files of any size, any width of an int, any    *)
(* number of requests and any changes of the file: no file is left open,   *)
(* the connection is closed only as a response announced, when the client  *)
(* is gone or its request does not fit, the heads are sound, and the       *)
(* client stays in step with the stream of heads and contents as long as   *)
(* no file changes under it or is too large for an int.                    *)
(***************************************************************************)
EXTENDS Response, SequenceTheorems, TLAPS

(* What a client may ask.                                                  *)
Requests == Methods \cup {Endless}

(* A file is opened for GET and HEAD only.                                 *)
FileInv ==
    /\ NoFileLeft
    /\ pc = "open" => method \in {"get", "head"}

(* keep_alive holds from one response to the next; what was announced is   *)
(* what will be done, except when a write has failed.                      *)
CloseInv ==
    /\ AsAnnounced
    /\ keep \in BOOLEAN /\ told \in BOOLEAN
    /\ pc \in {"idle", "process", "open"} => keep
    /\ pc = "write" => told = ~keep
    /\ pc = "finish" => (told = ~keep) \/ (gone /\ ~keep)

LEMMA FileStep == FileInv /\ [Next]_vars => FileInv'
<1> SUFFICES ASSUME FileInv, [Next]_vars PROVE FileInv'
  OBVIOUS
<1> USE DEF FileInv, NoFileLeft
<1>1. CASE Take
  BY <1>1 DEF Take, resVars
<1>2. CASE ProcessBad \/ ProcessPlain \/ ProcessStat
  BY <1>2 DEF ProcessBad, ProcessPlain, ProcessStat
<1>3. CASE ProcessOpen
  BY <1>3 DEF ProcessOpen, SendsNoContent
<1>4. CASE OpenFails
  BY <1>4 DEF OpenFails
<1>5. CASE Generate
  <2>1. content = None => content' = None
    BY <1>5, ResponseAssumption DEF Generate, ToRead, Left
  <2> QED
    BY <1>5, <2>1 DEF Generate
<1>6. CASE Write \/ WriteVanishes \/ WriteFails \/ Killed \/ Written
  BY <1>6 DEF Write, WriteVanishes, WriteFails, Killed, Written, resVars
<1>7. CASE Finish \/ EndOfStream \/ BufferFull
  BY <1>7 DEF Finish, EndOfStream, BufferFull, AfterLoop, resVars
<1>8. CASE (\E m \in Requests : Ask(m)) \/ Read \/ HangUp
  BY <1>8 DEF Ask, Read, HangUp, resVars
<1>9. CASE Resize
  BY <1>9 DEF Resize
<1>10. CASE Replace
  BY <1>10 DEF Replace
<1>11. CASE UNCHANGED vars
  BY <1>11 DEF vars, resVars
<1> QED
  BY <1>1, <1>2, <1>3, <1>4, <1>5, <1>6, <1>7, <1>8, <1>9, <1>10, <1>11
     DEF Next, ServerStep, Requests

LEMMA CloseStep == CloseInv /\ [Next]_vars => CloseInv'
<1> SUFFICES ASSUME CloseInv, [Next]_vars PROVE CloseInv'
  OBVIOUS
<1> USE DEF CloseInv, AsAnnounced
<1>1. CASE Take
  BY <1>1 DEF Take, clientVars
<1>2. CASE ProcessBad \/ ProcessPlain \/ ProcessStat
  <2>1. CASE ProcessBad
    BY <2>1 DEF ProcessBad
  <2>2. CASE ProcessPlain
    BY <2>2 DEF ProcessPlain
  <2>3. CASE ProcessStat
    <3>1. pc' \in {"gen", "open"} /\ keep' = keep /\ told' = told
          /\ pc = "process"
      BY <2>3 DEF ProcessStat
    <3> QED
      BY <3>1
  <2> QED
    BY <1>2, <2>1, <2>2, <2>3
<1>3. CASE ProcessOpen \/ OpenFails
  BY <1>3 DEF ProcessOpen, OpenFails
<1>4. CASE Generate
  BY <1>4 DEF Generate
<1>5. CASE Write \/ WriteVanishes \/ Written
  BY <1>5 DEF Write, WriteVanishes, Written, clientVars
<1>6. CASE WriteFails \/ Killed
  <2>1. CASE WriteFails
    BY <2>1 DEF WriteFails, clientVars
  <2>2. CASE Killed
    BY <2>2 DEF Killed, clientVars
  <2> QED
    BY <1>6, <2>1, <2>2
<1>7. CASE Finish
  BY <1>7 DEF Finish, AfterLoop, clientVars
<1>8. CASE EndOfStream \/ BufferFull
  BY <1>8 DEF EndOfStream, BufferFull, clientVars
<1>9. CASE (\E m \in Requests : Ask(m)) \/ Read \/ HangUp
  BY <1>9 DEF Ask, Read, HangUp
<1>10. CASE Resize \/ Replace
  BY <1>10 DEF Resize, Replace, clientVars
<1>11. CASE UNCHANGED vars
  BY <1>11 DEF vars, clientVars
<1> QED
  BY <1>1, <1>2, <1>3, <1>4, <1>5, <1>6, <1>7, <1>8, <1>9, <1>10, <1>11
     DEF Next, ServerStep, Requests

(* No response leaves its file open.                                       *)
THEOREM FilesAreClosed == Spec => []NoFileLeft
<1>1. Init => FileInv
  BY DEF Init, FileInv, NoFileLeft
<1>2. FileInv => NoFileLeft
  BY DEF FileInv
<1> QED
  BY <1>1, <1>2, FileStep, PTL DEF Spec

LEMMA CloseInit == Init => CloseInv
  BY DEF Init, CloseInv, AsAnnounced

(* The connection is closed when the response said so; otherwise only when *)
(* the client is gone, or rbuf is full of a request that does not end.     *)
THEOREM ClosesAsAnnounced == Spec => []AsAnnounced
<1>1. Init => CloseInv
  BY CloseInit
<1>2. CloseInv => AsAnnounced
  BY DEF CloseInv
<1> QED
  BY <1>1, <1>2, CloseStep, PTL DEF Spec

-----------------------------------------------------------------------------
(* What the responses use of the two tables.                               *)
Used == {200, 400, 404, 405, 500}

LEMMA Tables ==
    /\ DOMAIN http_status_t = 1 .. 40
    /\ e_http(200) = 3 /\ e_http(400) = 17 /\ e_http(404) = 21
    /\ e_http(405) = 22 /\ e_http(500) = 35
    /\ \A c \in Used : http_response_code[e_http(c)] = c
<1>1. DOMAIN http_status_t = 1 .. 40
  BY DEF http_status_t
<1>2. \A i \in 1 .. 40 :
        /\ http_status_t[i] = 200 => i = 3
        /\ http_status_t[i] = 400 => i = 17
        /\ http_status_t[i] = 404 => i = 21
        /\ http_status_t[i] = 405 => i = 22
        /\ http_status_t[i] = 500 => i = 35
  BY SMTT(60) DEF http_status_t
<1>3. /\ http_status_t[3] = 200 /\ http_status_t[17] = 400
      /\ http_status_t[21] = 404 /\ http_status_t[22] = 405
      /\ http_status_t[35] = 500
  BY DEF http_status_t
<1>4. /\ e_http(200) = 3 /\ e_http(400) = 17 /\ e_http(404) = 21
      /\ e_http(405) = 22 /\ e_http(500) = 35
  BY <1>1, <1>2, <1>3 DEF e_http
<1>5. /\ http_response_code[3] = 200 /\ http_response_code[17] = 400
      /\ http_response_code[21] = 404 /\ http_response_code[22] = 405
      /\ http_response_code[35] = 500
  BY DEF http_response_code
<1> QED
  BY <1>1, <1>4, <1>5 DEF Used

-----------------------------------------------------------------------------
(* What the stream and the buffer are made of.                             *)
Ints == -Half .. Half - 1
HeadItems == [code : Used, length : Ints, close : BOOLEAN]
Items == HeadItems \cup {Unit}
Files == [len : Sizes, off : Nat, linked : BOOLEAN]

(* Whatever the size was, it becomes an int.                               *)
LEMMA Narrowed ==
    ASSUME NEW n \in Int
    PROVE  AsInt(n) \in Ints
<1>1. Half \in Nat /\ 2 * Half > 0 /\ 2 * Half \in Int
  BY ResponseAssumption
<1>2. (n + Half) % (2 * Half) \in 0 .. (2 * Half) - 1
  BY <1>1
<1> QED
  BY <1>1, <1>2 DEF AsInt, Ints

TypeInv ==
    /\ TypeOK
    /\ todo \in Seq(Requests) /\ asked \in Seq(Requests)
    /\ pipe \in Seq(Items) /\ wbuf \in Seq(Items)
    /\ \E c \in Used : status = e_http(c)

LEMMA UnitIsNoHead == Unit \notin HeadItems
<1>1. HeadItems \subseteq [code : Nat, length : Int, close : BOOLEAN]
  BY ResponseAssumption DEF HeadItems, Used, Ints
<1> QED
  BY <1>1, ResponseAssumption

LEMMA NoneIsNoFile == None \notin Files
<1>1. Files \subseteq [len : Nat, off : Nat, linked : BOOLEAN]
  BY ResponseAssumption DEF Files
<1> QED
  BY <1>1, ResponseAssumption

(* What one call of http_response_gen may read.                            *)
LEMMA Piece ==
    ASSUME TypeInv, NEW n \in {0, IF ToRead > Left THEN Left ELSE ToRead}
    PROVE  /\ ToRead \in Nat /\ Left \in Nat
           /\ n \in Nat /\ n <= ToRead /\ n <= Left
           /\ n > 0 => content \in Files /\ ToRead = content.len - content.off
<1>1. content \in {None} \cup Files
  BY DEF TypeInv, TypeOK, Files
<1>2. ToRead \in Nat
  <2>1. content \in Files => content.len \in Nat /\ content.off \in Nat
    BY ResponseAssumption DEF Files
  <2> QED
    BY <1>1, <2>1 DEF ToRead
<1>3. ToRead > 0 => content \in Files /\ ToRead = content.len - content.off
  BY <1>1, ResponseAssumption DEF ToRead, Files
<1>4. Left \in Nat
  BY ResponseAssumption DEF Left
<1> QED
  BY <1>2, <1>3, <1>4, ResponseAssumption

(* What it puts into the buffer.                                           *)
LEMMA Buffered ==
    ASSUME TypeInv, pc = "gen", NEW n \in Nat
    PROVE  /\ HeadItem \in HeadItems
           /\ HeadPart \in Seq(Items)
           /\ [k \in 1 .. n |-> Unit] \in Seq(Items)
           /\ HeadPart \o [k \in 1 .. n |-> Unit] \in Seq(Items)
           /\ Len(HeadPart) = IF begun THEN 0 ELSE 1
           /\ Len(HeadPart \o [k \in 1 .. n |-> Unit]) = Len(HeadPart) + n
           /\ begun => Heads(HeadPart \o [k \in 1 .. n |-> Unit]) = {}
<1>1. PICK c \in Used : status = e_http(c)
  BY DEF TypeInv
<1>2. http_response_code[status] = c
  BY <1>1, Tables
<1>3. HeadItem \in HeadItems
  BY <1>1, <1>2 DEF HeadItem, HeadItems, TypeInv, TypeOK, Ints
<1>4. HeadPart \in Seq(Items) /\ Len(HeadPart) = IF begun THEN 0 ELSE 1
  <2>1. HeadItem \in Items
    BY <1>3 DEF Items
  <2> QED
    BY <2>1 DEF HeadPart
<1> DEFINE u == [k \in 1 .. n |-> Unit]
           w == HeadPart \o u
<1>5. u \in Seq(Items) /\ Len(u) = n /\ \A k \in DOMAIN u : u[k] = Unit
  BY DEF Items
<1> HIDE DEF u
<1>6. Len(HeadPart \o u) = Len(HeadPart) + Len(u)
  BY <1>4, <1>5, ConcatProperties
<1>7. w \in Seq(Items) /\ Len(w) = Len(HeadPart) + n
  BY <1>4, <1>5, <1>6, ConcatProperties
<1>8. begun => Heads(w) = {}
  <2> SUFFICES ASSUME begun PROVE Heads(w) = {}
    OBVIOUS
  <2>1. w = u
    BY <1>5, ConcatEmptySeq DEF HeadPart
  <2> QED
    BY <1>5, <2>1 DEF Heads, ToSet
<1> QED
  BY <1>3, <1>4, <1>5, <1>7, <1>8 DEF u

(* Each action keeps the types.  Those of the server's decisions differ    *)
(* only in the status and the length they set.                             *)
LEMMA Status == \A c \in Used : e_http(c) \in DOMAIN http_status_t
  BY Tables DEF Used

LEMMA Responds ==
    ASSUME NEW c \in Used, NEW n, Respond(c, n)
    PROVE  /\ (\E d \in Used : status = e_http(d))'
           /\ (status \in DOMAIN http_status_t)'
           /\ length' = n /\ begun' \in BOOLEAN
  BY Status DEF Respond

LEMMA HeadsOfTail ==
    ASSUME NEW S, NEW s \in Seq(S), s # <<>>
    PROVE  /\ Heads(Tail(s)) \subseteq Heads(s)
           /\ Head(s) # Unit => Head(s) \in Heads(s)
<1>1. /\ Tail(s) \in Seq(S) /\ Len(Tail(s)) = Len(s) - 1
      /\ \A k \in 1 .. Len(Tail(s)) : Tail(s)[k] = s[k + 1]
  BY HeadTailProperties
<1>2. Head(s) = s[1] /\ 1 \in DOMAIN s
  OBVIOUS
<1>3. \A k \in DOMAIN Tail(s) : k + 1 \in DOMAIN s /\ Tail(s)[k] = s[k + 1]
  BY <1>1
<1> QED
  BY <1>2, <1>3 DEF Heads, ToSet

LEMMA TypeServer ==
    ASSUME TypeInv,
           Take \/ ProcessBad \/ ProcessPlain \/ ProcessStat \/ ProcessOpen
           \/ OpenFails \/ Finish \/ EndOfStream \/ BufferFull
    PROVE  TypeInv'
<1>0. 0 \in Sizes /\ 0 \in -Half .. Half - 1
  BY ResponseAssumption
<1>1. CASE Take
  <2>1. /\ todo' \in Seq(Requests) /\ Len(todo') <= Len(todo)
        /\ method' \in Methods
    BY <1>1, HeadTailProperties DEF Take, TypeInv, Requests
  <2>2. Len(todo') <= issued
    BY <2>1 DEF TypeInv, TypeOK
  <2> QED
    BY <1>1, <2>1, <2>2
       DEF Take, TypeInv, TypeOK, Heads, fileVars, clientVars, resVars
<1>2. CASE ProcessBad
  <2>1. 400 \in Used /\ Respond(400, 0)
    BY <1>2 DEF ProcessBad, Used
  <2>2. /\ (\E d \in Used : status = e_http(d))'
        /\ (status \in DOMAIN http_status_t)'
        /\ length' = 0 /\ begun' \in BOOLEAN
    BY <2>1, Responds
  <2> QED
    BY <1>0, <1>2, <2>2 DEF ProcessBad, TypeInv, TypeOK, Heads, fileVars, clientVars
<1>3. CASE ProcessPlain
  <2>1. \E c \in Used : Respond(c, 0)
    BY <1>3 DEF ProcessPlain, Used
  <2>2. /\ (\E d \in Used : status = e_http(d))'
        /\ (status \in DOMAIN http_status_t)'
        /\ length' = 0 /\ begun' \in BOOLEAN
    BY <2>1, Responds
  <2> QED
    BY <1>0, <1>3, <2>2
       DEF ProcessPlain, TypeInv, TypeOK, Heads, fileVars, clientVars
<1>4. CASE ProcessStat
  <2>1. path > 0 => path \in Sizes
    BY DEF TypeInv, TypeOK, Paths
  <2>2. \E c \in Used :
           \/ Respond(c, 0) /\ pc' = "gen"
           \/ Respond(c, path) /\ path > 0 /\ pc' = "open"
    BY <1>4 DEF ProcessStat, Used
  <2>3. /\ (\E d \in Used : status = e_http(d))'
        /\ (status \in DOMAIN http_status_t)' /\ begun' \in BOOLEAN
        /\ \/ length' = 0 /\ pc' = "gen"
           \/ length' = path /\ path > 0 /\ pc' = "open"
    BY <2>2, Responds
  <2> QED
    BY <1>0, <1>4, <2>1, <2>3
       DEF ProcessStat, TypeInv, TypeOK, Heads, fileVars, clientVars
<1>5. CASE ProcessOpen
  <2>1. content' \in {None} \cup [len : Sizes, off : Nat, linked : BOOLEAN]
    BY <1>0, <1>5, ResponseAssumption
       DEF ProcessOpen, TypeInv, TypeOK, Paths
  <2>2. length' \in -Half .. Half - 1
    <3>1. length \in Int
      BY <1>5, ResponseAssumption DEF ProcessOpen, TypeInv, TypeOK
    <3> QED
      BY <1>5, <3>1, Narrowed DEF ProcessOpen, Ints
  <2>3. spoilt' \in BOOLEAN
    BY <1>5 DEF ProcessOpen, TypeInv, TypeOK
  <2>4. /\ pc' = "gen" /\ keep' = TRUE
        /\ UNCHANGED <<fileVars, clientVars, todo, method, wbuf, sendEnd,
                       status, begun, told>>
    BY <1>5 DEF ProcessOpen
  <2> QED
    BY <2>1, <2>2, <2>3, <2>4
       DEF TypeInv, TypeOK, Heads, fileVars, clientVars
<1>6. CASE OpenFails
  <2>1. 500 \in Used /\ Respond(500, 0)
    BY <1>6 DEF OpenFails, Used
  <2>2. /\ (\E d \in Used : status = e_http(d))'
        /\ (status \in DOMAIN http_status_t)'
        /\ length' = 0 /\ begun' \in BOOLEAN
    BY <2>1, Responds
  <2> QED
    BY <1>0, <1>6, <2>2
       DEF OpenFails, TypeInv, TypeOK, Heads, fileVars, clientVars
<1>7. CASE Finish
  <2>1. pc' \in {"idle", "closed"}
    BY <1>7 DEF Finish, AfterLoop
  <2>2. 200 \in Used /\ Respond(200, 0)
    BY <1>7 DEF Finish, Used
  <2>3. /\ (\E d \in Used : status = e_http(d))'
        /\ (status \in DOMAIN http_status_t)'
        /\ length' = 0 /\ begun' \in BOOLEAN
    BY <2>2, Responds
  <2> QED
    BY <1>0, <1>7, <2>1, <2>3
       DEF Finish, TypeInv, TypeOK, Heads, fileVars, clientVars
<1>8. CASE EndOfStream \/ BufferFull
  BY <1>8
     DEF EndOfStream, BufferFull, TypeInv, TypeOK, Heads, fileVars, clientVars,
         resVars
<1> QED
  BY <1>1, <1>2, <1>3, <1>4, <1>5, <1>6, <1>7, <1>8

LEMMA TypeGenerate == ASSUME TypeInv, Generate PROVE TypeInv'
<1>1. PICK n \in {0, IF ToRead > Left THEN Left ELSE ToRead} :
         /\ wbuf' = HeadPart \o [k \in 1 .. n |-> Unit]
         /\ content' = IF n = 0 THEN content ELSE [content EXCEPT !.off = @ + n]
         /\ sendEnd' = AtEnd(n)
         /\ spoilt' = (spoilt \/ (n = 0 /\ ToRead > 0))
  BY DEF Generate
<1>2. /\ ToRead \in Nat /\ Left \in Nat /\ n \in Nat /\ n <= Left
      /\ n > 0 => content \in Files /\ n <= content.len - content.off
  BY Piece
<1>3. content' \in {None} \cup Files
  <2>1. CASE n = 0
    BY <1>1, <2>1 DEF TypeInv, TypeOK, Files
  <2>2. CASE n > 0
    <3>1. content.off + n \in Nat
      BY <1>2, <2>2 DEF Files
    <3> QED
      BY <1>1, <1>2, <2>2, <3>1 DEF Files
  <2> QED
    BY <1>2, <2>1, <2>2
<1>4. /\ wbuf' \in Seq(Items)
      /\ Len(wbuf') = (IF begun THEN 0 ELSE 1) + n
      /\ begun => Heads(wbuf') = {}
  <2>1. pc = "gen"
    BY DEF Generate
  <2> QED
    BY <1>1, <1>2, <2>1, Buffered
<1>5. (Len(wbuf) + (IF Heads(wbuf) = {} THEN 0 ELSE HeadLen - 1) <= Room)'
  BY <1>2, <1>4, ResponseAssumption DEF Left, TypeInv, TypeOK
<1>6. sendEnd' \in BOOLEAN /\ spoilt' \in BOOLEAN
  BY <1>1 DEF AtEnd, TypeInv, TypeOK
<1>7. /\ begun' = TRUE /\ told' = ~keep /\ pc = "gen" /\ pc' = "write"
      /\ UNCHANGED <<fileVars, clientVars, todo, method, keep, status, length>>
  BY DEF Generate
<1> QED
  BY <1>3, <1>4, <1>5, <1>6, <1>7
     DEF TypeInv, TypeOK, Files, fileVars, clientVars

LEMMA TypeWrite ==
    ASSUME TypeInv, Write \/ WriteVanishes \/ WriteFails \/ Killed \/ Written
    PROVE  TypeInv'
<1>0. /\ Heads(<<>>) = {} /\ <<>> \in Seq(Items) /\ Len(<<>>) = 0
      /\ Room \in Nat
  BY ResponseAssumption DEF Heads, ToSet
<1>1. CASE Write
  <2>1. /\ wbuf' = Tail(wbuf) /\ pipe' = Append(pipe, Head(wbuf))
        /\ wbuf # <<>> /\ Len(pipe) < Window
    BY <1>1 DEF Write
  <2>2. /\ wbuf' \in Seq(Items) /\ Len(wbuf') = Len(wbuf) - 1
        /\ Head(wbuf) \in Items /\ Heads(wbuf') \subseteq Heads(wbuf)
    BY <2>1, HeadTailProperties, HeadsOfTail DEF TypeInv
  <2>3. pipe' \in Seq(Items) /\ Len(pipe') = Len(pipe) + 1
    BY <2>1, <2>2, AppendProperties DEF TypeInv
  <2>4. (Len(wbuf) + (IF Heads(wbuf) = {} THEN 0 ELSE HeadLen - 1) <= Room)'
    <3>1. Len(wbuf) \in Nat /\ Len(wbuf') \in Nat
      BY <2>2 DEF TypeInv
    <3>2. Len(wbuf) + (IF Heads(wbuf) = {} THEN 0 ELSE HeadLen - 1) <= Room
      BY DEF TypeInv, TypeOK
    <3> QED
      BY <2>2, <3>1, <3>2, ResponseAssumption
  <2>5. Len(pipe') <= Window
    BY <2>1, <2>3, ResponseAssumption DEF TypeInv
  <2> QED
    BY <1>1, <2>2, <2>3, <2>4, <2>5
       DEF Write, TypeInv, TypeOK, fileVars, resVars
<1>2. CASE WriteVanishes
  BY <1>0, <1>2
     DEF WriteVanishes, TypeInv, TypeOK, fileVars, clientVars, resVars
<1>3. CASE WriteFails
  <2>1. wbuf' = <<>> /\ keep' = FALSE /\ pc' = "finish"
    BY <1>3 DEF WriteFails
  <2>2. (Len(wbuf) + (IF Heads(wbuf) = {} THEN 0 ELSE HeadLen - 1) <= Room)'
    BY <1>0, <2>1 DEF Heads
  <2> QED
    BY <1>0, <1>3, <2>1, <2>2
       DEF WriteFails, TypeInv, TypeOK, fileVars, clientVars, resVars
<1>4. CASE Killed
  BY <1>4 DEF Killed, TypeInv, TypeOK, Heads, fileVars, clientVars, resVars
<1>5. CASE Written
  BY <1>5 DEF Written, TypeInv, TypeOK, Heads, fileVars, clientVars, resVars
<1> QED
  BY <1>1, <1>2, <1>3, <1>4, <1>5

LEMMA TypeOthers ==
    ASSUME TypeInv, (\E m \in Requests : Ask(m)) \/ Read \/ HangUp \/ Resize \/ Replace
    PROVE  TypeInv'
<1>0. /\ 0 \in 0 .. Half - 1 /\ <<>> \in Seq(Items) /\ Len(<<>>) = 0
      /\ Window \in Nat
  BY ResponseAssumption
<1>1. CASE \E m \in Requests : Ask(m)
  <2>1. PICK m \in Requests : Ask(m)
    BY <1>1
  <2>2. /\ todo' \in Seq(Requests) /\ Len(todo') = Len(todo) + 1
        /\ asked' \in Seq(Requests) /\ Len(asked') = Len(asked) + 1
    BY <2>1, AppendProperties DEF Ask, TypeInv
  <2>3. issued' \in 0 .. MaxRequests /\ issued' = issued + 1
    BY <2>1, ResponseAssumption DEF Ask, TypeInv, TypeOK
  <2>4. Len(todo') <= issued' /\ Len(asked') <= issued'
    BY <2>2, <2>3 DEF TypeInv, TypeOK
  <2> QED
    BY <2>1, <2>2, <2>3, <2>4 DEF Ask, TypeInv, TypeOK, Heads, fileVars, resVars
<1>2. CASE Read
  <2>1. /\ Head(pipe) \in Items /\ pipe' \in Seq(Items)
        /\ Len(pipe') = Len(pipe) - 1
    BY <1>2, HeadTailProperties DEF Read, TypeInv
  <2>2. Len(pipe') <= Window
    BY <2>1, ResponseAssumption DEF TypeInv, TypeOK
  <2>3. want' \in 0 .. Half - 1 /\ confused' \in BOOLEAN
    <3>1. CASE Head(pipe) = Unit
      BY <1>2, <3>1, ResponseAssumption DEF Read, TypeInv, TypeOK
    <3>2. CASE Head(pipe) # Unit
      <4>1. Head(pipe).length \in Ints
        BY <2>1, <3>2 DEF Items, HeadItems
      <4>2. Promised(Head(pipe)) \in 0 .. Half - 1
        BY <1>0, <4>1, ResponseAssumption DEF Promised, Ints
      <4> QED
        BY <1>2, <3>2, <4>2 DEF Read, TypeInv, TypeOK
    <3> QED
      BY <3>1, <3>2
  <2>4. /\ asked' \in Seq(Requests) /\ Len(asked') <= Len(asked)
    <3>1. asked' = asked \/ (asked # <<>> /\ asked' = Tail(asked))
      BY <1>2 DEF Read
    <3>2. asked \in Seq(Requests)
      BY DEF TypeInv
    <3>3. CASE asked' = asked
      BY <3>2, <3>3
    <3>4. CASE asked # <<>> /\ asked' = Tail(asked)
      <4>1. Tail(asked) \in Seq(Requests) /\ Len(Tail(asked)) = Len(asked) - 1
        BY <3>2, <3>4, HeadTailProperties
      <4> QED
        BY <3>2, <3>4, <4>1
    <3> QED
      BY <3>1, <3>3, <3>4
  <2>5. Len(asked') <= issued
    BY <2>4 DEF TypeInv, TypeOK
  <2> QED
    BY <1>2, <2>1, <2>2, <2>3, <2>4, <2>5
       DEF Read, TypeInv, TypeOK, Heads, fileVars, resVars
<1>3. CASE HangUp
  BY <1>0, <1>3, ResponseAssumption
     DEF HangUp, TypeInv, TypeOK, Heads, fileVars, resVars
<1>4. CASE Resize
  <2>1. path' \in Sizes /\ path' \in Paths
    BY <1>4 DEF Resize, Paths
  <2>2. content' \in {None} \cup Files /\ spoilt' \in BOOLEAN
    <3>1. CASE content # None /\ content.linked
      BY <1>4, <2>1, <3>1 DEF Resize, TypeInv, TypeOK, Files
    <3>2. CASE ~(content # None /\ content.linked)
      BY <1>4, <3>2 DEF Resize, TypeInv, TypeOK, Files, Between
    <3> QED
      BY <3>1, <3>2
  <2>3. changes' \in 0 .. MaxChanges
    <3>1. changes < MaxChanges /\ changes' = changes + 1
      BY <1>4 DEF Resize
    <3>2. changes \in 0 .. MaxChanges
      BY DEF TypeInv, TypeOK
    <3> QED
      BY <3>1, <3>2, ResponseAssumption
  <2> QED
    BY <1>4, <2>1, <2>2, <2>3
       DEF Resize, TypeInv, TypeOK, Files, Heads, clientVars
<1>5. CASE Replace
  <2>1. content' \in {None} \cup Files /\ spoilt' \in BOOLEAN
    BY <1>5 DEF Replace, TypeInv, TypeOK, Files, Between
  <2>2. changes' \in 0 .. MaxChanges
    <3>1. changes < MaxChanges /\ changes' = changes + 1
      BY <1>5 DEF Replace
    <3>2. changes \in 0 .. MaxChanges
      BY DEF TypeInv, TypeOK
    <3> QED
      BY <3>1, <3>2, ResponseAssumption
  <2> QED
    BY <1>5, <2>1, <2>2
       DEF Replace, TypeInv, TypeOK, Files, Heads, clientVars
<1> QED
  BY <1>1, <1>2, <1>3, <1>4, <1>5

LEMMA TypeStep == TypeInv /\ [Next]_vars => TypeInv'
<1> SUFFICES ASSUME TypeInv, [Next]_vars PROVE TypeInv'
  OBVIOUS
<1>1. CASE UNCHANGED vars
  BY <1>1
     DEF vars, TypeInv, TypeOK, Heads, fileVars, clientVars, resVars
<1> QED
  BY <1>1, TypeServer, TypeGenerate, TypeWrite, TypeOthers DEF Next, ServerStep, Requests

LEMMA TypeInit == Init => TypeInv
<1> SUFFICES ASSUME Init PROVE TypeInv
  OBVIOUS
<1>1. /\ Heads(<<>>) = {} /\ Len(<<>>) = 0
      /\ <<>> \in Seq(Items) /\ <<>> \in Seq(Requests)
  BY DEF Heads, ToSet
<1>2. /\ 0 \in 0 .. MaxChanges /\ 0 \in 0 .. MaxRequests
      /\ 0 <= Window /\ 0 <= Room
      /\ 0 \in 0 .. Half - 1 /\ 0 \in -Half .. Half - 1
  BY ResponseAssumption
<1>3. 200 \in Used /\ "get" \in Methods
  BY DEF Used, Methods
<1>4. Len(wbuf) + (IF Heads(wbuf) = {} THEN 0 ELSE HeadLen - 1) <= Room
  BY <1>1, <1>2 DEF Init
<1>5. Len(todo) <= issued /\ Len(asked) <= issued /\ Len(pipe) <= Window
  BY <1>1, <1>2 DEF Init
<1> QED
  BY <1>1, <1>2, <1>3, <1>4, <1>5, Status DEF Init, TypeInv, TypeOK

(* Every variable stays within its type, and a buffer within its room.     *)
THEOREM TypeSafe == Spec => []TypeOK
<1>1. Init => TypeInv
  BY TypeInit
<1>2. TypeInv => TypeOK
  BY DEF TypeInv
<1> QED
  BY <1>1, <1>2, TypeStep, PTL DEF Spec

-----------------------------------------------------------------------------
(* The heads.                                                              *)
Fits(h) ==
    /\ h.code \in {200, 400, 404, 405, 500}
    /\ h.length # 0 => h.code = 200
    /\ h.close <=> h.code = 400

(* Before the head is generated, the number of the line that belongs to    *)
(* the status, the length and keep_alive are those of a head that fits;    *)
(* while a file is opened, the status is that of its being there.          *)
FitInv ==
    /\ \A h \in Heads(pipe) \cup Heads(wbuf) : Fits(h)
    /\ pc = "open" => status = e_http(200)
    /\ pc = "gen" /\ ~begun => Fits(HeadItem)
    /\ pc = "write" => begun

HeadsInv == TypeInv /\ CloseInv /\ FitInv

(* The head of an answer of server_process_request, and when it fits.      *)
HeadOf(c, n) ==
    [code |-> http_response_code[e_http(c)], length |-> n, close |-> (c = 400)]

LEMMA Answers ==
    ASSUME NEW c \in Used, NEW n \in Int, n # 0 => c = 200
    PROVE  Fits(HeadOf(c, n))
<1>1. /\ HeadOf(c, n).code = c /\ HeadOf(c, n).length = n
      /\ HeadOf(c, n).close = (c = 400)
  BY Tables DEF HeadOf
<1>2. HeadOf(c, n).code \in {200, 400, 404, 405, 500}
  BY <1>1 DEF Used
<1>3. HeadOf(c, n).length # 0 => HeadOf(c, n).code = 200
  BY <1>1
<1>4. HeadOf(c, n).close <=> HeadOf(c, n).code = 400
  <2>1. CASE c = 400
    BY <1>1, <2>1
  <2>2. CASE c # 400
    <3>1. HeadOf(c, n).code # 400
      BY <1>1, <2>2
    <3>2. (c = 400) = FALSE
      BY <2>2
    <3>3. HeadOf(c, n).close = FALSE
      BY <1>1, <3>2
    <3> QED
      BY <3>1, <3>3, Zenon
  <2> QED
    BY <2>1, <2>2
<1> QED
  BY <1>2, <1>3, <1>4 DEF Fits

LEMMA HeadsOfAppend ==
    ASSUME NEW S, NEW s \in Seq(S), NEW e \in S
    PROVE  Heads(Append(s, e)) = Heads(s) \cup ({e} \ {Unit})
<1>1. /\ Append(s, e) \in Seq(S) /\ Len(Append(s, e)) = Len(s) + 1
      /\ \A i \in 1 .. Len(s) : Append(s, e)[i] = s[i]
      /\ Append(s, e)[Len(s) + 1] = e
  BY AppendProperties
<1>2. DOMAIN Append(s, e) = 1 .. Len(s) + 1 /\ DOMAIN s = 1 .. Len(s)
  BY <1>1
<1>3. ToSet(Append(s, e)) = ToSet(s) \cup {e}
  BY <1>1, <1>2 DEF ToSet
<1> QED
  BY <1>3 DEF Heads

LEMMA HeadsOfPart ==
    ASSUME TypeInv, pc = "gen", NEW n \in Nat
    PROVE  Heads(HeadPart \o [k \in 1 .. n |-> Unit])
             \subseteq (IF begun THEN {} ELSE {HeadItem})
<1>1. CASE begun
  BY <1>1, Buffered
<1>2. CASE ~begun
  <2> DEFINE u == [k \in 1 .. n |-> Unit]
  <2>1. HeadItem \in Items
    BY Buffered DEF Items
  <2>2. HeadPart = <<HeadItem>> /\ HeadPart \in Seq(Items)
    BY <1>2, <2>1 DEF HeadPart
  <2>3. u \in Seq(Items) /\ Len(u) = n /\ \A k \in 1 .. n : u[k] = Unit
    BY DEF Items
  <2> HIDE DEF u
  <2>4. /\ HeadPart \o u \in Seq(Items)
        /\ Len(HeadPart \o u) = 1 + n
        /\ \A i \in 1 .. 1 + n :
             (HeadPart \o u)[i] = IF i <= 1 THEN HeadPart[i] ELSE u[i - 1]
    BY <2>2, <2>3, ConcatProperties
  <2>5. \A i \in DOMAIN (HeadPart \o u) : (HeadPart \o u)[i] \in {HeadItem, Unit}
    BY <2>2, <2>3, <2>4
  <2> QED
    BY <1>2, <2>5 DEF Heads, ToSet, u
<1> QED
  BY <1>1, <1>2

LEMMA HeadsStep == HeadsInv /\ [Next]_vars => HeadsInv'
<1> SUFFICES ASSUME HeadsInv, [Next]_vars PROVE FitInv'
  BY TypeStep, CloseStep DEF HeadsInv
<1> USE DEF HeadsInv
<1>0. /\ 200 \in Used /\ 400 \in Used /\ 404 \in Used /\ 405 \in Used
      /\ 500 \in Used /\ 0 \in Int /\ keep \in BOOLEAN
      /\ pc \in {"process", "open"} => keep
  BY DEF Used, CloseInv
<1>1. CASE Take
  BY <1>1 DEF Take, FitInv, Heads, clientVars
<1>2. CASE ProcessBad
  <2>1. status' = e_http(400) /\ length' = 0 /\ keep' = FALSE
    BY <1>2 DEF ProcessBad, Respond
  <2>2. HeadItem' = HeadOf(400, 0)
    BY <2>1 DEF HeadItem, HeadOf
  <2>3. Fits(HeadItem')
    BY <1>0, <2>1, <2>2, Answers
  <2> QED
    BY <1>2, <2>3 DEF ProcessBad, FitInv, Heads, clientVars
<1>3. CASE ProcessPlain
  <2>1. PICK c \in {200, 405} :
           status' = e_http(c) /\ length' = 0 /\ keep' = keep
    BY <1>3 DEF ProcessPlain, Respond
  <2>2. keep = TRUE
    BY <1>0, <1>3 DEF ProcessPlain
  <2>3. HeadItem' = HeadOf(c, 0)
    BY <2>1, <2>2 DEF HeadItem, HeadOf
  <2>4. Fits(HeadItem')
    BY <1>0, <2>1, <2>2, <2>3, Answers
  <2> QED
    BY <1>3, <2>4 DEF ProcessPlain, FitInv, Heads, clientVars
<1>4. CASE ProcessStat
  <2>1. PICK c \in {200, 404}, n \in Int :
           /\ status' = e_http(c) /\ length' = n /\ keep' = keep
           /\ n # 0 => c = 200
           /\ pc' = "open" => c = 200
    <3>1. path \in Int
      BY ResponseAssumption DEF TypeInv, TypeOK, Paths
    <3> QED
      BY <1>4, <3>1 DEF ProcessStat, Respond
  <2>2. keep = TRUE
    BY <1>0, <1>4 DEF ProcessStat
  <2>3. HeadItem' = HeadOf(c, n)
    BY <2>1, <2>2 DEF HeadItem, HeadOf
  <2>4. Fits(HeadItem')
    BY <1>0, <2>1, <2>2, <2>3, Answers
  <2> QED
    BY <1>4, <2>1, <2>4 DEF ProcessStat, FitInv, Heads, clientVars
<1>5. CASE ProcessOpen
  <2>1. status' = e_http(200) /\ length' = AsInt(length) /\ keep' = TRUE
    BY <1>5 DEF ProcessOpen, FitInv
  <2>2. HeadItem' = HeadOf(200, AsInt(length))
    BY <2>1 DEF HeadItem, HeadOf
  <2>3. AsInt(length) \in Int
    <3>1. length \in Int
      BY <1>5, ResponseAssumption DEF ProcessOpen, TypeInv, TypeOK
    <3> QED
      BY <3>1, Narrowed, ResponseAssumption DEF Ints
  <2>4. Fits(HeadItem')
    BY <1>0, <2>1, <2>2, <2>3, Answers
  <2> QED
    BY <1>5, <2>4 DEF ProcessOpen, FitInv, Heads, clientVars
<1>6. CASE OpenFails
  <2>1. status' = e_http(500) /\ length' = 0 /\ keep' = keep
    BY <1>6 DEF OpenFails, Respond
  <2>2. keep = TRUE
    BY <1>0, <1>6 DEF OpenFails
  <2>3. HeadItem' = HeadOf(500, 0)
    BY <2>1, <2>2 DEF HeadItem, HeadOf
  <2>4. Fits(HeadItem')
    BY <1>0, <2>1, <2>3, Answers
  <2> QED
    BY <1>6, <2>4 DEF OpenFails, FitInv, Heads, clientVars
<1>7. CASE Generate
  <2>1. PICK n \in {0, IF ToRead > Left THEN Left ELSE ToRead} :
           wbuf' = HeadPart \o [k \in 1 .. n |-> Unit]
    BY <1>7 DEF Generate
  <2>2. n \in Nat /\ pc = "gen"
    BY <1>7, Piece DEF Generate
  <2>3. Heads(wbuf') \subseteq (IF begun THEN {} ELSE {HeadItem})
    BY <2>1, <2>2, HeadsOfPart
  <2>4. /\ pc = "gen" /\ pc' = "write" /\ begun' = TRUE
        /\ Heads(pipe') = Heads(pipe)
    BY <1>7 DEF Generate, clientVars
  <2> QED
    BY <2>3, <2>4 DEF FitInv
<1>8. CASE Write
  <2>1. /\ wbuf' = Tail(wbuf) /\ pipe' = Append(pipe, Head(wbuf))
        /\ wbuf # <<>> /\ pc = "write" /\ pc' = pc /\ begun' = begun
    BY <1>8 DEF Write, resVars
  <2>2. Head(wbuf) \in Items
    BY <2>1, HeadTailProperties DEF TypeInv
  <2>3. /\ Heads(wbuf') \subseteq Heads(wbuf)
        /\ Head(wbuf) # Unit => Head(wbuf) \in Heads(wbuf)
    BY <2>1, HeadsOfTail DEF TypeInv
  <2>4. Heads(pipe') = Heads(pipe) \cup ({Head(wbuf)} \ {Unit})
    BY <2>1, <2>2, HeadsOfAppend DEF TypeInv
  <2> QED
    BY <2>1, <2>3, <2>4 DEF FitInv
<1>9. CASE WriteVanishes \/ WriteFails
  <2>1. /\ wbuf' = <<>> /\ pipe' = pipe /\ pc' \in {"write", "finish"}
        /\ pc = "write" /\ begun' = begun
    BY <1>9 DEF WriteVanishes, WriteFails, clientVars, resVars
  <2>2. Heads(<<>>) = {}
    BY DEF Heads, ToSet
  <2> QED
    BY <2>1, <2>2 DEF FitInv
<1>10. CASE Killed \/ EndOfStream \/ BufferFull
  BY <1>10 DEF Killed, EndOfStream, BufferFull, FitInv, Heads, clientVars
<1>11. CASE Written
  <2>1. begun
    BY <1>11 DEF Written, HeadsInv, FitInv
  <2> QED
    BY <1>11, <2>1 DEF Written, FitInv, Heads, clientVars, resVars
<1>12. CASE Finish
  BY <1>12 DEF Finish, AfterLoop, FitInv, Heads, clientVars
<1>13. CASE \E m \in Requests : Ask(m)
  BY <1>13 DEF Ask, FitInv, Heads, HeadItem, resVars
<1>14. CASE Read
  <2>1. Heads(pipe') \subseteq Heads(pipe)
    BY <1>14, HeadsOfTail DEF Read, TypeInv
  <2> QED
    BY <1>14, <2>1 DEF Read, FitInv, Heads, HeadItem, resVars
<1>15. CASE HangUp
  <2>1. Heads(pipe') = {}
    BY <1>15 DEF HangUp, Heads, ToSet
  <2> QED
    BY <1>15, <2>1 DEF HangUp, FitInv, Heads, HeadItem, resVars
<1>16. CASE Resize \/ Replace
  BY <1>16 DEF Resize, Replace, FitInv, Heads, HeadItem, clientVars
<1>17. CASE UNCHANGED vars
  BY <1>17 DEF vars, FitInv, Heads, HeadItem, clientVars, resVars
<1> QED
  BY <1>1, <1>2, <1>3, <1>4, <1>5, <1>6, <1>7, <1>8, <1>9, <1>10, <1>11,
     <1>12, <1>13, <1>14, <1>15, <1>16, <1>17 DEF Next, ServerStep, Requests

(* Every head that the client gets fits: its number, the content it        *)
(* promises and what it says about the connection belong together.         *)
THEOREM HeadsAreSound == Spec => []HeadsFit
<1>1. Init => HeadsInv
  <2>1. Init => FitInv
    BY DEF Init, FitInv, Heads, ToSet
  <2> QED
    BY <2>1, TypeInit, CloseInit DEF HeadsInv
<1>2. HeadsInv => HeadsFit
  BY DEF HeadsInv, FitInv, HeadsFit, Fits
<1> QED
  BY <1>1, <1>2, HeadsStep, PTL DEF Spec

-----------------------------------------------------------------------------
(* The stream, as the client understands it.  One item, when w units are   *)
(* still expected and q are the requests to be answered, leaves v units    *)
(* and the requests r; it is never a unit too many or a head too early.    *)
Takes(i, w, q, v, r) ==
    IF i = Unit
    THEN w > 0 /\ v = w - 1 /\ r = q
    ELSE /\ w = 0 /\ q # <<>> /\ i.length >= 0
         /\ v = (IF Head(q) = "head" THEN 0 ELSE i.length)
         /\ r = Tail(q)

(* So does the stream s: what is left after each of its items is a walk    *)
(* from (w, q) to (v, r).                                                  *)
Leads(s, w, q, v, r) ==
    \E need \in [0 .. Len(s) -> Nat], left \in [0 .. Len(s) -> Seq(Requests)] :
       /\ need[0] = w /\ left[0] = q
       /\ need[Len(s)] = v /\ left[Len(s)] = r
       /\ \A k \in 1 .. Len(s) :
             Takes(s[k], need[k - 1], left[k - 1], need[k], left[k])

LEMMA LeadsNowhere ==
    ASSUME NEW w, NEW q, NEW v, NEW r, Leads(<<>>, w, q, v, r)
    PROVE  v = w /\ r = q
  BY DEF Leads

LEMMA LeadsStay ==
    ASSUME NEW w \in Nat, NEW q \in Seq(Requests)
    PROVE  Leads(<<>>, w, q, w, q)
<1> DEFINE need == [k \in 0 .. 0 |-> w]
           left == [k \in 0 .. 0 |-> q]
<1>1. need \in [0 .. 0 -> Nat] /\ left \in [0 .. 0 -> Seq(Requests)]
  OBVIOUS
<1>2. need[0] = w /\ left[0] = q /\ Len(<<>>) = 0 /\ 1 .. 0 = {}
  OBVIOUS
<1> HIDE DEF need, left
<1> QED
  BY <1>1, <1>2 DEF Leads

(* The server adds an item, ...                                            *)
LEMMA LeadsAppend ==
    ASSUME NEW s \in Seq(Items), NEW e \in Items,
           NEW w, NEW q, NEW v, NEW r,
           NEW v2 \in Nat, NEW r2 \in Seq(Requests),
           Leads(s, w, q, v, r), Takes(e, v, r, v2, r2)
    PROVE  Leads(Append(s, e), w, q, v2, r2)
<1> DEFINE t == Append(s, e)
           n == Len(s)
<1>1. PICK need \in [0 .. n -> Nat], left \in [0 .. n -> Seq(Requests)] :
         /\ need[0] = w /\ left[0] = q /\ need[n] = v /\ left[n] = r
         /\ \A k \in 1 .. n :
               Takes(s[k], need[k - 1], left[k - 1], need[k], left[k])
  BY DEF Leads
<1>2. /\ t \in Seq(Items) /\ Len(t) = n + 1 /\ n \in Nat
      /\ \A k \in 1 .. n : t[k] = s[k]
      /\ t[n + 1] = e
  BY AppendProperties
<1> DEFINE need2 == [k \in 0 .. n + 1 |-> IF k = n + 1 THEN v2 ELSE need[k]]
           left2 == [k \in 0 .. n + 1 |-> IF k = n + 1 THEN r2 ELSE left[k]]
<1>3. /\ need2 \in [0 .. n + 1 -> Nat] /\ left2 \in [0 .. n + 1 -> Seq(Requests)]
      /\ need2[n + 1] = v2 /\ left2[n + 1] = r2
      /\ \A k \in 0 .. n : need2[k] = need[k] /\ left2[k] = left[k]
  BY <1>2
<1> HIDE DEF t, n, need2, left2
<1>4. \A k \in 1 .. n + 1 :
         Takes(t[k], need2[k - 1], left2[k - 1], need2[k], left2[k])
  <2> SUFFICES ASSUME NEW k \in 1 .. n + 1
               PROVE  Takes(t[k], need2[k - 1], left2[k - 1], need2[k], left2[k])
    OBVIOUS
  <2>1. CASE k = n + 1
    <3>0. n \in Nat
      BY <1>2
    <3>1. k - 1 = n /\ n \in 0 .. n
      BY <2>1, <3>0
    <3> QED
      BY <1>1, <1>2, <1>3, <2>1, <3>1
  <2>2. CASE k \in 1 .. n
    <3>1. k - 1 \in 0 .. n /\ k \in 0 .. n
      BY <1>2, <2>2
    <3> QED
      BY <1>1, <1>2, <1>3, <2>2, <3>1
  <2> QED
    BY <1>2, <2>1, <2>2
<1>5. need2[0] = w /\ left2[0] = q
  BY <1>1, <1>2, <1>3
<1> QED
  BY <1>2, <1>3, <1>4, <1>5 DEF Leads, t

(* ... or units of content, as many as are expected or fewer; ...          *)
LEMMA LeadsUnits ==
    ASSUME NEW s \in Seq(Items), NEW m \in Nat,
           NEW w, NEW q, NEW v, NEW r,
           Leads(s, w, q, v, r), m <= v
    PROVE  Leads(s \o [k \in 1 .. m |-> Unit], w, q, v - m, r)
<1> DEFINE u == [k \in 1 .. m |-> Unit]
           t == s \o u
           n == Len(s)
<1>1. PICK need \in [0 .. n -> Nat], left \in [0 .. n -> Seq(Requests)] :
         /\ need[0] = w /\ left[0] = q /\ need[n] = v /\ left[n] = r
         /\ \A k \in 1 .. n :
               Takes(s[k], need[k - 1], left[k - 1], need[k], left[k])
  BY DEF Leads
<1>2. u \in Seq(Items) /\ Len(u) = m /\ \A k \in 1 .. m : u[k] = Unit
  BY DEF Items
<1> HIDE DEF u
<1>3. /\ t \in Seq(Items) /\ Len(t) = n + m /\ n \in Nat
      /\ \A k \in 1 .. n + m : t[k] = IF k <= n THEN s[k] ELSE u[k - n]
  BY <1>2, ConcatProperties
<1> HIDE DEF t, n
<1>4. /\ \A k \in 1 .. n : t[k] = s[k]
      /\ \A k \in n + 1 .. n + m : t[k] = Unit
  <2>0. n \in Nat
    BY <1>3
  <2>1. \A k \in 1 .. n : k \in 1 .. n + m /\ k <= n
    BY <2>0
  <2>2. \A k \in n + 1 .. n + m :
           k \in 1 .. n + m /\ ~(k <= n) /\ k - n \in 1 .. m
    BY <2>0
  <2> QED
    BY <1>2, <1>3, <2>1, <2>2
<1>5. v \in Nat /\ r \in Seq(Requests)
  BY <1>1, <1>3
<1> DEFINE need2 == [k \in 0 .. n + m |-> IF k <= n THEN need[k] ELSE v - (k - n)]
           left2 == [k \in 0 .. n + m |-> IF k <= n THEN left[k] ELSE r]
<1>6. \A k \in 0 .. n : need2[k] = need[k] /\ left2[k] = left[k]
  BY <1>3
<1>7. \A k \in n .. n + m : need2[k] = v - (k - n) /\ left2[k] = r
  BY <1>1, <1>3, <1>5
<1>8. need2 \in [0 .. n + m -> Nat] /\ left2 \in [0 .. n + m -> Seq(Requests)]
  BY <1>1, <1>3, <1>5
<1> HIDE DEF need2, left2
<1>9. \A k \in 1 .. n + m :
         Takes(t[k], need2[k - 1], left2[k - 1], need2[k], left2[k])
  <2> SUFFICES ASSUME NEW k \in 1 .. n + m
               PROVE  Takes(t[k], need2[k - 1], left2[k - 1], need2[k], left2[k])
    OBVIOUS
  <2>1. CASE k \in 1 .. n
    <3>1. k - 1 \in 0 .. n /\ k \in 0 .. n
      BY <1>3, <2>1
    <3> QED
      BY <1>1, <1>4, <1>6, <2>1, <3>1
  <2>2. CASE k \in n + 1 .. n + m
    <3>1. k - 1 \in n .. n + m /\ k \in n .. n + m
      BY <1>3, <2>2
    <3>2. /\ need2[k - 1] = v - ((k - 1) - n) /\ need2[k] = v - (k - n)
          /\ left2[k - 1] = r /\ left2[k] = r /\ t[k] = Unit
      BY <1>4, <1>7, <2>2, <3>1
    <3>3. need2[k - 1] > 0 /\ need2[k] = need2[k - 1] - 1
      BY <1>3, <1>5, <2>2, <3>2
    <3> QED
      BY <3>2, <3>3 DEF Takes
  <2> QED
    BY <1>3, <2>1, <2>2
<1>10. /\ need2[0] = w /\ left2[0] = q
       /\ need2[n + m] = v - m /\ left2[n + m] = r
  <2>1. 0 \in 0 .. n /\ n + m \in n .. n + m /\ (n + m) - n = m
    BY <1>3
  <2> QED
    BY <1>1, <1>6, <1>7, <2>1
<1>11. Leads(t, w, q, v - m, r)
  BY <1>3, <1>8, <1>9, <1>10 DEF Leads
<1> QED
  BY <1>11 DEF t, u

(* ... the client takes the first item, ...                                *)
LEMMA LeadsOn ==
    ASSUME NEW s \in Seq(Items), s # <<>>,
           NEW w, NEW q, NEW v, NEW r, Leads(s, w, q, v, r)
    PROVE  \E w2 \in Nat, q2 \in Seq(Requests) :
              Takes(Head(s), w, q, w2, q2) /\ Leads(Tail(s), w2, q2, v, r)
<1> DEFINE n == Len(s)
           t == Tail(s)
<1>1. PICK need \in [0 .. n -> Nat], left \in [0 .. n -> Seq(Requests)] :
         /\ need[0] = w /\ left[0] = q /\ need[n] = v /\ left[n] = r
         /\ \A k \in 1 .. n :
               Takes(s[k], need[k - 1], left[k - 1], need[k], left[k])
  BY DEF Leads
<1>2. /\ t \in Seq(Items) /\ Len(t) = n - 1 /\ n \in Nat /\ n > 0
      /\ \A k \in 1 .. n - 1 : t[k] = s[k + 1]
      /\ Head(s) = s[1]
  BY HeadTailProperties
<1> HIDE DEF n, t
<1> DEFINE need2 == [k \in 0 .. n - 1 |-> need[k + 1]]
           left2 == [k \in 0 .. n - 1 |-> left[k + 1]]
<1>3. /\ need2 \in [0 .. n - 1 -> Nat] /\ left2 \in [0 .. n - 1 -> Seq(Requests)]
      /\ \A k \in 0 .. n - 1 : need2[k] = need[k + 1] /\ left2[k] = left[k + 1]
  BY <1>2
<1> HIDE DEF need2, left2
<1>4. \A k \in 1 .. n - 1 :
         Takes(t[k], need2[k - 1], left2[k - 1], need2[k], left2[k])
  <2> SUFFICES ASSUME NEW k \in 1 .. n - 1
               PROVE  Takes(t[k], need2[k - 1], left2[k - 1], need2[k], left2[k])
    OBVIOUS
  <2>1. /\ k + 1 \in 1 .. n /\ k \in 0 .. n - 1 /\ k - 1 \in 0 .. n - 1
        /\ (k + 1) - 1 = k /\ (k - 1) + 1 = k
    BY <1>2
  <2>2. Takes(s[k + 1], need[k], left[k], need[k + 1], left[k + 1])
    BY <1>1, <2>1
  <2> QED
    BY <1>2, <1>3, <2>1, <2>2
<1>5. /\ need2[0] = need[1] /\ left2[0] = left[1]
      /\ need2[n - 1] = v /\ left2[n - 1] = r
  <2>1. 0 \in 0 .. n - 1 /\ n - 1 \in 0 .. n - 1 /\ (n - 1) + 1 = n /\ 0 + 1 = 1
    BY <1>2
  <2> QED
    BY <1>1, <1>3, <2>1
<1>6. Leads(t, need[1], left[1], v, r)
  BY <1>2, <1>3, <1>4, <1>5 DEF Leads
<1>7. Takes(s[1], w, q, need[1], left[1])
  <2>1. 1 \in 1 .. n /\ 1 - 1 = 0
    BY <1>2
  <2> QED
    BY <1>1, <2>1
<1>8. need[1] \in Nat /\ left[1] \in Seq(Requests)
  BY <1>1, <1>2
<1> QED
  BY <1>2, <1>6, <1>7, <1>8 DEF t

(* ... and sends another request.                                          *)
LEMMA Longer ==
    ASSUME NEW l \in Seq(Requests), NEW m \in Requests
    PROVE  /\ Append(l, m) # <<>>
           /\ l # <<>> => /\ Head(Append(l, m)) = Head(l)
                         /\ Tail(Append(l, m)) = Append(Tail(l), m)
  BY HeadTailAppend, AppendProperties

LEMMA LeadsAsk ==
    ASSUME NEW s \in Seq(Items), NEW m \in Requests,
           NEW w, NEW q, NEW v, NEW r, Leads(s, w, q, v, r)
    PROVE  Leads(s, w, Append(q, m), v, Append(r, m))
<1> DEFINE n == Len(s)
<1>1. PICK need \in [0 .. n -> Nat], left \in [0 .. n -> Seq(Requests)] :
         /\ need[0] = w /\ left[0] = q /\ need[n] = v /\ left[n] = r
         /\ \A k \in 1 .. n :
               Takes(s[k], need[k - 1], left[k - 1], need[k], left[k])
  BY DEF Leads
<1>2. n \in Nat
  OBVIOUS
<1> HIDE DEF n
<1> DEFINE left2 == [k \in 0 .. n |-> Append(left[k], m)]
<1>3. \A k \in 0 .. n : Append(left[k], m) \in Seq(Requests)
  BY <1>1, AppendProperties
<1>4. left2 \in [0 .. n -> Seq(Requests)] /\ \A k \in 0 .. n : left2[k] = Append(left[k], m)
  BY <1>3
<1> HIDE DEF left2
<1>5. \A k \in 1 .. n : Takes(s[k], need[k - 1], left2[k - 1], need[k], left2[k])
  <2> SUFFICES ASSUME NEW k \in 1 .. n
               PROVE  Takes(s[k], need[k - 1], left2[k - 1], need[k], left2[k])
    OBVIOUS
  <2>1. k \in 0 .. n /\ k - 1 \in 0 .. n
    BY <1>2
  <2>2. Takes(s[k], need[k - 1], left[k - 1], need[k], left[k])
    BY <1>1
  <2>3. left[k - 1] \in Seq(Requests)
    BY <1>1, <2>1
  <2>4. /\ Append(left[k - 1], m) # <<>>
        /\ left[k - 1] # <<>> =>
             /\ Head(Append(left[k - 1], m)) = Head(left[k - 1])
             /\ Tail(Append(left[k - 1], m)) = Append(Tail(left[k - 1]), m)
    BY <2>3, Longer
  <2> QED
    BY <1>4, <2>1, <2>2, <2>4 DEF Takes
<1>6. /\ left2[0] = Append(q, m) /\ left2[n] = Append(r, m)
  BY <1>1, <1>2, <1>4
<1> QED
  BY <1>1, <1>4, <1>5, <1>6 DEF Leads, n

-----------------------------------------------------------------------------
(* The response of `method' has not begun.                                 *)
Waiting == pc \in {"process", "open"} \/ (pc = "gen" /\ ~begun)

(* The requests, and the units of the response, that the stream does not   *)
(* answer or hold yet.                                                     *)
Outstanding == IF Waiting THEN <<method>> \o todo ELSE todo
Remains == IF Waiting THEN 0 ELSE ToRead

(* Where the buffer is empty and no file is open.                          *)
Loop ==
    /\ pc \in {"write", "finish", "killed"} => begun
    /\ pc = "open" => ~begun
    /\ pc \notin {"write", "killed"} => wbuf = <<>>
    /\ pc \in {"idle", "closed", "process", "open"} => content = None

(* Unless it is spoilt, a response promises what there is to read, and has *)
(* nothing left to read at its end.                                        *)
Promise == ~spoilt =>
    /\ pc = "open" /\ method = "get" => length = path
    /\ pc = "gen" /\ ~begun => length >= 0
    /\ pc = "gen" /\ ~begun /\ method # "head" => length = ToRead
    /\ pc = "write" /\ sendEnd => ToRead = 0
    /\ pc = "finish" /\ ~gone => ToRead = 0

(* What is on its way leads the client to the rest of the response and to  *)
(* the requests that wait for theirs.                                      *)
Understood == ~spoilt =>
    /\ ~confused
    /\ ~gone => Leads(pipe \o wbuf, want, asked, Remains, Outstanding)

FrameInv == TypeInv /\ FileInv /\ Loop /\ Promise /\ Understood

LEMMA OnTop ==
    ASSUME NEW m \in Requests, NEW t \in Seq(Requests)
    PROVE  /\ <<m>> \o t \in Seq(Requests) /\ <<m>> \o t # <<>>
           /\ Head(<<m>> \o t) = m /\ Tail(<<m>> \o t) = t
           /\ \A x \in Requests : Append(<<m>> \o t, x) = <<m>> \o Append(t, x)
  OBVIOUS

LEMMA HeadAndTail ==
    ASSUME NEW s \in Seq(Requests), s # <<>>
    PROVE  <<Head(s)>> \o Tail(s) = s
  OBVIOUS

(* A unit moves from the buffer to the socket.                             *)
LEMMA Moved ==
    ASSUME NEW p \in Seq(Items), NEW b \in Seq(Items), b # <<>>
    PROVE  Append(p, Head(b)) \o Tail(b) = p \o b
  OBVIOUS

LEMMA FirstOf ==
    ASSUME NEW p \in Seq(Items), NEW b \in Seq(Items), p # <<>>
    PROVE  /\ p \o b \in Seq(Items) /\ p \o b # <<>>
           /\ Head(p \o b) = Head(p) /\ Tail(p \o b) = Tail(p) \o b
  OBVIOUS

LEMMA OutstandingType == TypeInv => Outstanding \in Seq(Requests) /\ Remains \in Nat
<1> SUFFICES ASSUME TypeInv PROVE Outstanding \in Seq(Requests) /\ Remains \in Nat
  OBVIOUS
<1>1. method \in Methods /\ todo \in Seq(Requests)
  BY DEF TypeInv, TypeOK
<1>2. ToRead \in Nat
  BY Piece
<1> QED
  BY <1>1, <1>2, OnTop DEF Outstanding, Remains, Requests

LEMMA LoopStep == TypeInv /\ FileInv /\ Loop /\ [Next]_vars => Loop'
<1> SUFFICES ASSUME TypeInv, FileInv, Loop, [Next]_vars PROVE Loop'
  OBVIOUS
<1> USE DEF Loop
<1>1. CASE Take
  BY <1>1 DEF Take, resVars
<1>2. CASE ProcessBad
  BY <1>2 DEF ProcessBad, Respond
<1>3. CASE ProcessPlain
  BY <1>3 DEF ProcessPlain, Respond
<1>4. CASE ProcessStat
  <2>1. /\ pc = "process" /\ pc' \in {"gen", "open"} /\ begun' = FALSE
        /\ content' = None /\ wbuf' = wbuf
    BY <1>4 DEF ProcessStat, Respond
  <2> QED
    BY <2>1
<1>5. CASE ProcessOpen
  BY <1>5 DEF ProcessOpen
<1>6. CASE OpenFails
  BY <1>6 DEF OpenFails, Respond
<1>7. CASE Generate
  BY <1>7 DEF Generate
<1>8. CASE Write \/ WriteVanishes \/ Killed \/ Written
  BY <1>8 DEF Write, WriteVanishes, Killed, Written, resVars
<1>9. CASE WriteFails
  BY <1>9 DEF WriteFails, resVars
<1>10. CASE Finish
  BY <1>10 DEF Finish, Respond, AfterLoop
<1>11. CASE EndOfStream \/ BufferFull
  BY <1>11 DEF EndOfStream, BufferFull, resVars
<1>12. CASE (\E m \in Requests : Ask(m)) \/ Read \/ HangUp
  BY <1>12 DEF Ask, Read, HangUp, resVars
<1>13. CASE Resize \/ Replace
  BY <1>13 DEF Resize, Replace
<1>14. CASE UNCHANGED vars
  BY <1>14 DEF vars, resVars
<1> QED
  BY <1>1, <1>2, <1>3, <1>4, <1>5, <1>6, <1>7, <1>8, <1>9, <1>10, <1>11,
     <1>12, <1>13, <1>14 DEF Next, ServerStep, Requests

LEMMA PromiseStep ==
    TypeInv /\ FileInv /\ Loop /\ Promise /\ [Next]_vars => Promise'
<1> SUFFICES ASSUME TypeInv, FileInv, Loop, Promise, [Next]_vars, ~spoilt'
             PROVE  /\ (pc = "open" /\ method = "get" => length = path)'
                    /\ (pc = "gen" /\ ~begun => length >= 0)'
                    /\ (pc = "gen" /\ ~begun /\ method # "head"
                          => length = ToRead)'
                    /\ (pc = "write" /\ sendEnd => ToRead = 0)'
                    /\ (pc = "finish" /\ ~gone => ToRead = 0)'
  BY DEF Promise
<1> USE DEF Promise
<1>0. content \in {None} \cup Files /\ (content' = None => ToRead' = 0)
  BY DEF TypeInv, TypeOK, Files, ToRead
<1>1. CASE Take
  BY <1>1 DEF Take
<1>2. CASE ProcessBad
  BY <1>0, <1>2 DEF ProcessBad, Respond
<1>3. CASE ProcessPlain
  BY <1>0, <1>3 DEF ProcessPlain, Respond
<1>4. CASE ProcessStat
  <2>1. /\ pc' \in {"gen", "open"} /\ content' = None /\ path' = path
        /\ pc' = "gen" => length' = 0
        /\ pc' = "open" => length' = path
    BY <1>4 DEF ProcessStat, Respond, fileVars
  <2> QED
    BY <1>0, <2>1
<1>5. CASE ProcessOpen
  <2>1. /\ pc = "open" /\ pc' = "gen" /\ method' = method
        /\ path' = path /\ spoilt' = (spoilt \/ length' # length)
    BY <1>5 DEF ProcessOpen, fileVars
  <2>4. ~spoilt /\ length' = length
    BY <2>1
  <2>5. length \in Nat
    BY <2>1, ResponseAssumption DEF TypeInv, TypeOK
  <2>2. CASE method = "get"
    <3>1. length = path /\ path \in Nat
      BY <2>1, <2>2, <2>4, <2>5
    <3>2. content' = [len |-> path, off |-> 0, linked |-> TRUE]
      <4>1. content' = [len |-> IF path < 0 THEN 0 ELSE path,
                        off |-> 0, linked |-> TRUE]
        BY <1>5, <2>2 DEF ProcessOpen, SendsNoContent
      <4>2. (IF path < 0 THEN 0 ELSE path) = path
        BY <3>1
      <4> QED
        BY <4>1, <4>2
    <3>3. content' \in [len : Nat, off : Nat, linked : BOOLEAN]
      BY <3>1, <3>2
    <3>4. /\ content' # None /\ content'.off = 0 /\ content'.len = path
      BY <3>2, <3>3, ResponseAssumption
    <3>5. ToRead' = path
      BY <3>1, <3>4 DEF ToRead
    <3> QED
      BY <2>1, <2>4, <3>1, <3>5
  <2>3. CASE method # "get"
    BY <2>1, <2>3, <2>4, <2>5 DEF FileInv
  <2> QED
    BY <2>2, <2>3
<1>6. CASE OpenFails
  BY <1>0, <1>6 DEF OpenFails, Respond, Loop
<1>7. CASE Generate
  <2>1. PICK n \in {0, IF ToRead > Left THEN Left ELSE ToRead} :
           /\ content' = IF n = 0 THEN content ELSE [content EXCEPT !.off = @ + n]
           /\ sendEnd' = AtEnd(n)
           /\ spoilt' = (spoilt \/ (n = 0 /\ ToRead > 0))
    BY <1>7 DEF Generate
  <2>2. pc' = "write"
    BY <1>7 DEF Generate
  <2>3. sendEnd' => ToRead' = 0
    <3>1. ASSUME sendEnd' PROVE n = 0 /\ ~(ToRead > 0) /\ content' = content
      BY <2>1, <3>1 DEF AtEnd
    <3>2. ToRead \in Nat
      BY Piece
    <3> QED
      BY <3>1, <3>2 DEF ToRead
  <2> QED
    BY <2>2, <2>3
<1>8. CASE Write \/ WriteVanishes \/ Killed \/ Written
  BY <1>8 DEF Write, WriteVanishes, Killed, Written, resVars, fileVars,
              clientVars, ToRead, Loop
<1>9. CASE WriteFails
  BY <1>9 DEF WriteFails, clientVars
<1>10. CASE Finish
  BY <1>0, <1>10 DEF Finish, AfterLoop
<1>11. CASE EndOfStream \/ BufferFull
  BY <1>11 DEF EndOfStream, BufferFull
<1>12. CASE (\E m \in Requests : Ask(m)) \/ Read \/ HangUp
  BY <1>12 DEF Ask, Read, HangUp, resVars, fileVars, ToRead
<1>13. CASE Resize
  <2>1. ToRead' = ToRead /\ ~(pc = "open" /\ method = "get")
    BY <1>13 DEF Resize, Between, ToRead
  <2> QED
    BY <1>13, <2>1 DEF Resize, clientVars
<1>14. CASE Replace
  <2>1. ToRead' = ToRead /\ ~(pc = "open" /\ method = "get")
    BY <1>0, <1>14, NoneIsNoFile DEF Replace, Between, ToRead, Files
  <2> QED
    BY <1>14, <2>1 DEF Replace, clientVars
<1>15. CASE UNCHANGED vars
  BY <1>15 DEF vars, fileVars, clientVars, resVars, ToRead
<1> QED
  BY <1>1, <1>2, <1>3, <1>4, <1>5, <1>6, <1>7, <1>8, <1>9, <1>10, <1>11,
     <1>12, <1>13, <1>14, <1>15 DEF Next, ServerStep, Requests

-----------------------------------------------------------------------------
(* Nothing moves in the stream, and the client does not look at it.        *)
LEMMA StillUnderstood ==
    ASSUME Understood, spoilt => spoilt', confused' = confused,
           ~gone' => /\ ~gone
                     /\ pipe' \o wbuf' = pipe \o wbuf
                     /\ want' = want /\ asked' = asked
                     /\ Remains' = Remains /\ Outstanding' = Outstanding
    PROVE  Understood'
<1> SUFFICES ASSUME ~spoilt' PROVE (~confused)' /\ (~gone' => Leads(pipe \o wbuf, want, asked, Remains, Outstanding)')
  BY DEF Understood
<1> QED
  BY DEF Understood

LEMMA UnderstoodGenerate ==
    ASSUME TypeInv, FileInv, Loop, Promise, Understood, Generate
    PROVE  Understood'
<1> SUFFICES ASSUME ~spoilt', ~gone
             PROVE  Leads(pipe' \o wbuf', want', asked', Remains', Outstanding')
  BY DEF Generate, clientVars, Understood
<1>1. PICK n \in {0, IF ToRead > Left THEN Left ELSE ToRead} :
         /\ wbuf' = HeadPart \o [k \in 1 .. n |-> Unit]
         /\ content' = IF n = 0 THEN content ELSE [content EXCEPT !.off = @ + n]
         /\ spoilt' = (spoilt \/ (n = 0 /\ ToRead > 0))
  BY DEF Generate
<1>2. /\ pc = "gen" /\ pc' = "write" /\ ~spoilt
      /\ pipe' = pipe /\ want' = want /\ asked' = asked /\ todo' = todo
      /\ wbuf = <<>>
  BY <1>1 DEF Generate, clientVars, Loop
<1>3. /\ ToRead \in Nat /\ n \in Nat /\ n <= ToRead
      /\ n > 0 => content \in Files /\ ToRead = content.len - content.off
  BY Piece
<1>4. pipe \in Seq(Items) /\ todo \in Seq(Requests) /\ method \in Requests
  BY DEF TypeInv, TypeOK, Requests
<1>5. Remains' = ToRead - n /\ Outstanding' = todo
  <2>1. ToRead' = ToRead - n
    <3>1. CASE n = 0
      BY <1>1, <1>3, <3>1 DEF ToRead
    <3>2. CASE n > 0
      <4>1. /\ content' \in [len : Nat, off : Nat, linked : BOOLEAN]
            /\ content'.len = content.len /\ content'.off = content.off + n
            /\ content.len \in Nat /\ content.off \in Nat
        <5>1. content \in [len : Nat, off : Nat, linked : BOOLEAN]
          BY <1>3, <3>2, ResponseAssumption DEF Files
        <5>2. content' = [content EXCEPT !.off = @ + n]
          BY <1>1, <3>2
        <5> QED
          BY <1>3, <5>1, <5>2
      <4>2. content' # None
        BY <4>1, ResponseAssumption
      <4> QED
        BY <1>3, <3>2, <4>1, <4>2 DEF ToRead
    <3> QED
      BY <1>3, <3>1, <3>2
  <2> QED
    BY <1>2, <2>1 DEF Remains, Outstanding, Waiting
<1>6. Leads(pipe, want, asked, Remains, Outstanding)
  BY <1>2, <1>4, ConcatEmptySeq DEF Understood
<1> DEFINE u == [k \in 1 .. n |-> Unit]
<1>7. u \in Seq(Items)
  BY <1>2, <1>3, Buffered
<1>8. CASE begun
  <2>1. Remains = ToRead /\ Outstanding = todo
    BY <1>2, <1>8 DEF Remains, Outstanding, Waiting
  <2>2. Leads(pipe \o u, want, asked, ToRead - n, todo)
    BY <1>3, <1>4, <1>6, <2>1, LeadsUnits
  <2>3. wbuf' = u
    BY <1>1, <1>7, <1>8, ConcatEmptySeq DEF HeadPart
  <2> QED
    BY <1>2, <1>5, <2>2, <2>3
<1>9. CASE ~begun
  <2>1. Remains = 0 /\ Outstanding = <<method>> \o todo
    BY <1>2, <1>9 DEF Remains, Outstanding, Waiting
  <2>2. /\ Outstanding \in Seq(Requests) /\ Outstanding # <<>>
        /\ Head(Outstanding) = method /\ Tail(Outstanding) = todo
    BY <1>4, <2>1, OnTop
  <2>3. /\ HeadItem \in Items /\ HeadItem # Unit
        /\ HeadItem.length = length /\ length >= 0
    BY <1>2, <1>9, Buffered, UnitIsNoHead DEF Items, HeadItem, Promise
  <2>4. ToRead = IF method = "head" THEN 0 ELSE length
    <3>1. method = "head" => content = None
      BY DEF FileInv, NoFileLeft
    <3> QED
      BY <1>2, <1>9, <3>1 DEF Promise, ToRead
  <2>5. Takes(HeadItem, Remains, Outstanding, ToRead, todo)
    BY <2>1, <2>2, <2>3, <2>4 DEF Takes
  <2>6. Leads(Append(pipe, HeadItem), want, asked, ToRead, todo)
    BY <1>3, <1>4, <1>6, <2>3, <2>5, LeadsAppend
  <2>7. Append(pipe, HeadItem) \in Seq(Items)
    BY <1>4, <2>3, AppendProperties
  <2>8. Leads(Append(pipe, HeadItem) \o u, want, asked, ToRead - n, todo)
    BY <1>3, <2>6, <2>7, LeadsUnits
  <2>9. Append(pipe, HeadItem) \o u = pipe \o wbuf'
    <3>1. wbuf' = <<HeadItem>> \o u /\ <<HeadItem>> \in Seq(Items)
      <4>1. wbuf' = HeadPart \o u
        BY <1>1
      <4>2. HeadPart = <<HeadItem>>
        BY <1>9 DEF HeadPart
      <4> HIDE DEF u
      <4> QED
        BY <2>3, <4>1, <4>2
    <3>2. Append(pipe, HeadItem) = pipe \o <<HeadItem>>
      BY <1>4, <2>3, AppendIsConcat
    <3> HIDE DEF u
    <3> QED
      BY <1>4, <1>7, <3>1, <3>2, ConcatAssociative
  <2> QED
    BY <1>2, <1>5, <2>8, <2>9
<1> QED
  BY <1>8, <1>9

LEMMA UnderstoodRead ==
    ASSUME TypeInv, Loop, Understood, Read
    PROVE  Understood'
<1> SUFFICES ASSUME ~spoilt'
             PROVE  /\ ~confused'
                    /\ Leads(pipe' \o wbuf', want', asked', Remains', Outstanding')
  BY DEF Understood
<1>1. /\ ~gone /\ pipe # <<>> /\ pipe' = Tail(pipe) /\ wbuf' = wbuf
      /\ ~spoilt
  BY DEF Read
<1>2. Remains' = Remains /\ Outstanding' = Outstanding
  BY DEF Read, resVars, Remains, Outstanding, Waiting, ToRead
<1>3. ~confused /\ Leads(pipe \o wbuf, want, asked, Remains, Outstanding)
  BY <1>1 DEF Understood
<1>4. /\ pipe \o wbuf \in Seq(Items) /\ pipe \o wbuf # <<>>
      /\ Head(pipe \o wbuf) = Head(pipe)
      /\ Tail(pipe \o wbuf) = Tail(pipe) \o wbuf
  BY <1>1, FirstOf DEF TypeInv
<1>5. PICK w \in Nat, q \in Seq(Requests) :
         /\ Takes(Head(pipe), want, asked, w, q)
         /\ Leads(Tail(pipe) \o wbuf, w, q, Remains, Outstanding)
  BY <1>3, <1>4, LeadsOn
<1>6. want \in Nat
  BY ResponseAssumption DEF TypeInv, TypeOK
<1>7. ~confused' /\ want' = w /\ asked' = q
  <2>1. CASE Head(pipe) = Unit
    <3>1. want # 0 /\ w = want - 1 /\ q = asked
      BY <1>5, <1>6, <2>1 DEF Takes
    <3>2. /\ confused' = (confused \/ want = 0)
          /\ want' = (IF want = 0 THEN 0 ELSE want - 1) /\ asked' = asked
      BY <2>1 DEF Read
    <3>3. ~confused'
      BY <1>3, <3>1, <3>2, Zenon
    <3> QED
      BY <3>1, <3>2, <3>3
  <2>2. CASE Head(pipe) # Unit
    <3>1. /\ ~(want > 0) /\ asked # <<>> /\ q = Tail(asked)
          /\ ~(Head(pipe).length < 0)
          /\ w = IF Head(asked) = "head" THEN 0 ELSE Head(pipe).length
      <4>1. Head(pipe).length \in Int
        <5>1. Head(pipe) \in Items
          BY <1>1, HeadTailProperties DEF TypeInv
        <5> QED
          BY <2>2, <5>1, ResponseAssumption DEF Items, HeadItems, Ints
      <4> QED
        BY <1>5, <1>6, <2>2, <4>1 DEF Takes
    <3>2. /\ confused' = (confused \/ want > 0 \/ asked = <<>>
                             \/ Head(pipe).length < 0)
          /\ want' = Promised(Head(pipe))
          /\ asked' = (IF asked = <<>> THEN asked ELSE Tail(asked))
      BY <2>2 DEF Read
    <3>3. ~confused'
      BY <1>3, <3>1, <3>2, Zenon
    <3>4. want' = w
      BY <3>1, <3>2 DEF Promised
    <3> QED
      BY <3>1, <3>2, <3>3, <3>4
  <2> QED
    BY <2>1, <2>2
<1> QED
  BY <1>1, <1>2, <1>5, <1>7

LEMMA UnderstoodStep ==
    ASSUME TypeInv, FileInv, Loop, Promise, Understood, [Next]_vars
    PROVE  Understood'
<1>0. /\ todo \in Seq(Requests) /\ method \in Requests
      /\ pipe \in Seq(Items) /\ wbuf \in Seq(Items)
  BY DEF TypeInv, TypeOK, Requests
<1>1. CASE Take
  <2>1. /\ pc = "idle" /\ pc' = "process" /\ todo # <<>>
        /\ method' = Head(todo) /\ todo' = Tail(todo)
        /\ UNCHANGED <<clientVars, wbuf, spoilt>>
    BY <1>1 DEF Take
  <2>2. content = None
    BY <2>1 DEF Loop
  <2>3. Remains' = Remains
    BY <2>1, <2>2 DEF Remains, Waiting, ToRead
  <2>4. Outstanding' = Outstanding
    BY <1>0, <2>1, HeadAndTail DEF Outstanding, Waiting
  <2> QED
    BY <2>1, <2>3, <2>4, StillUnderstood DEF clientVars
<1>2. CASE ProcessBad \/ ProcessPlain \/ ProcessStat \/ ProcessOpen \/ OpenFails
  <2>1. /\ pc \in {"process", "open"} /\ pc' \in {"gen", "open"}
        /\ begun' = FALSE /\ UNCHANGED <<clientVars, todo, method, wbuf>>
        /\ spoilt => spoilt'
    <3>1. CASE ProcessBad
      BY <3>1 DEF ProcessBad, Respond
    <3>2. CASE ProcessPlain
      BY <3>2 DEF ProcessPlain, Respond
    <3>3. CASE ProcessStat
      BY <3>3 DEF ProcessStat, Respond
    <3>4. CASE ProcessOpen
      BY <3>4 DEF ProcessOpen, Loop, TypeInv, TypeOK
    <3>5. CASE OpenFails
      BY <3>5 DEF OpenFails, Respond
    <3> QED
      BY <1>2, <3>1, <3>2, <3>3, <3>4, <3>5
  <2>2. Remains' = Remains /\ Outstanding' = Outstanding
    BY <2>1 DEF Remains, Outstanding, Waiting
  <2> QED
    BY <2>1, <2>2, StillUnderstood DEF clientVars
<1>3. CASE Generate
  BY <1>3, UnderstoodGenerate
<1>4. CASE Write
  <2>1. /\ pc = "write" /\ wbuf # <<>>
        /\ pipe' = Append(pipe, Head(wbuf)) /\ wbuf' = Tail(wbuf)
        /\ UNCHANGED <<asked, want, confused, gone, pc, todo, method, resVars,
                       spoilt>>
    BY <1>4 DEF Write
  <2>2. pipe' \o wbuf' = pipe \o wbuf
    BY <1>0, <2>1, Moved
  <2>3. Remains' = Remains /\ Outstanding' = Outstanding
    BY <2>1 DEF Remains, Outstanding, Waiting, ToRead, resVars
  <2> QED
    BY <2>1, <2>2, <2>3, StillUnderstood
<1>5. CASE WriteVanishes \/ WriteFails \/ Killed \/ EndOfStream
  <2>1. gone' /\ confused' = confused /\ spoilt' = spoilt
    BY <1>5 DEF WriteVanishes, WriteFails, Killed, EndOfStream, clientVars
  <2> QED
    BY <2>1, StillUnderstood
<1>6. CASE Written
  <2>1. /\ pc = "write" /\ pc' \in {"finish", "gen"} /\ begun
        /\ UNCHANGED <<clientVars, todo, method, wbuf, resVars, spoilt>>
    BY <1>6 DEF Written, Loop
  <2>2. Remains' = Remains /\ Outstanding' = Outstanding
    BY <2>1 DEF Remains, Outstanding, Waiting, ToRead, resVars
  <2> QED
    BY <2>1, <2>2, StillUnderstood DEF clientVars
<1>7. CASE Finish
  <2>1. /\ pc = "finish" /\ pc' \in {"idle", "closed"} /\ content' = None
        /\ UNCHANGED <<clientVars, todo, method, wbuf, spoilt>>
    BY <1>7 DEF Finish, AfterLoop
  <2>2. CASE ~spoilt /\ ~gone
    <3>1. Remains' = Remains
      BY <2>1, <2>2 DEF Remains, Waiting, ToRead, Promise
    <3>2. Outstanding' = Outstanding
      BY <2>1 DEF Outstanding, Waiting
    <3> QED
      BY <2>1, <3>1, <3>2, StillUnderstood DEF clientVars
  <2>3. CASE spoilt \/ gone
    BY <2>1, <2>3 DEF Understood, clientVars
  <2> QED
    BY <2>2, <2>3
<1>8. CASE \E m \in Requests : Ask(m)
  <2>1. PICK m \in Requests : Ask(m)
    BY <1>8
  <2>2. /\ ~gone /\ todo' = Append(todo, m) /\ asked' = Append(asked, m)
        /\ UNCHANGED <<pipe, want, confused, gone, pc, method, wbuf, resVars,
                       spoilt>>
    BY <2>1 DEF Ask
  <2>3. Remains' = Remains
    BY <2>2 DEF Remains, Waiting, ToRead, resVars
  <2>4. Outstanding' = Append(Outstanding, m)
    BY <1>0, <2>2, OnTop DEF Outstanding, Waiting, resVars
  <2>5. ASSUME Leads(pipe \o wbuf, want, asked, Remains, Outstanding)
        PROVE  Leads(pipe \o wbuf, want, Append(asked, m), Remains,
                     Append(Outstanding, m))
    <3>1. pipe \o wbuf \in Seq(Items)
      BY <1>0, ConcatProperties
    <3> QED
      BY <2>5, <3>1, LeadsAsk
  <2> QED
    BY <2>2, <2>3, <2>4, <2>5 DEF Understood
<1>9. CASE Read
  BY <1>9, UnderstoodRead
<1>10. CASE HangUp
  BY <1>10, StillUnderstood DEF HangUp
<1>11. CASE Resize \/ Replace
  <2>1. /\ UNCHANGED <<clientVars, pc, todo, method, wbuf, begun>>
        /\ spoilt => spoilt'
        /\ spoilt' \/ ToRead' = ToRead
    <3>1. CASE Resize
      BY <3>1 DEF Resize, ToRead
    <3>2. CASE Replace
      <4>1. content \in {None} \cup Files
        BY DEF TypeInv, TypeOK, Files
      <4> QED
        BY <3>2, <4>1, NoneIsNoFile DEF Replace, ToRead, Files
    <3> QED
      BY <1>11, <3>1, <3>2
  <2>2. CASE spoilt'
    BY <2>2 DEF Understood
  <2>3. CASE ToRead' = ToRead
    <3>1. Remains' = Remains /\ Outstanding' = Outstanding
      BY <2>1, <2>3 DEF Remains, Outstanding, Waiting
    <3> QED
      BY <2>1, <3>1, StillUnderstood DEF clientVars
  <2> QED
    BY <2>1, <2>2, <2>3
<1>12. CASE UNCHANGED vars
  <2>1. Remains' = Remains /\ Outstanding' = Outstanding
    BY <1>12 DEF vars, Remains, Outstanding, Waiting, ToRead, resVars
  <2> QED
    BY <1>12, <2>1, StillUnderstood DEF vars, clientVars
<1>13. CASE BufferFull
  <2>1. /\ pc = "idle" /\ pc' = "closed"
        /\ UNCHANGED <<clientVars, todo, method, wbuf, resVars, spoilt>>
    BY <1>13 DEF BufferFull
  <2>2. Remains' = Remains /\ Outstanding' = Outstanding
    BY <2>1 DEF Remains, Outstanding, Waiting, ToRead, resVars
  <2> QED
    BY <2>1, <2>2, StillUnderstood DEF clientVars
<1> QED
  BY <1>1, <1>2, <1>3, <1>4, <1>5, <1>6, <1>7, <1>8, <1>9, <1>10, <1>11,
     <1>12, <1>13 DEF Next, ServerStep, Requests

LEMMA FrameStep == FrameInv /\ [Next]_vars => FrameInv'
  BY TypeStep, FileStep, LoopStep, PromiseStep, UnderstoodStep DEF FrameInv

LEMMA FrameInit == Init => FrameInv
<1> SUFFICES ASSUME Init PROVE FrameInv
  OBVIOUS
<1>1. TypeInv
  BY TypeInit
<1>2. FileInv /\ Loop /\ Promise
  BY DEF Init, FileInv, NoFileLeft, Loop, Promise
<1>3. Understood
  <2>1. /\ pipe \o wbuf = <<>> /\ want = 0 /\ asked = <<>> /\ ~confused
        /\ Remains = 0 /\ Outstanding = <<>>
    BY DEF Init, Remains, Outstanding, Waiting, ToRead
  <2>2. Leads(<<>>, 0, <<>>, 0, <<>>)
    <3>1. 0 \in Nat /\ <<>> \in Seq(Requests)
      OBVIOUS
    <3> QED
      BY <3>1, LeadsStay
  <2> QED
    BY <2>1, <2>2 DEF Understood
<1> QED
  BY <1>1, <1>2, <1>3 DEF FrameInv

(* The client finds a head where it expects one, and the content that the  *)
(* head promises: with buffers and windows of any size, files of any size  *)
(* that an int holds, any number of requests under way, and whatever       *)
(* changes no response under way.                                          *)
THEOREM StaysInFrame == Spec => []InFrame
<1>1. FrameInv => InFrame
  <2> SUFFICES ASSUME FrameInv, ~spoilt
               PROVE  /\ ~confused
                      /\ pc = "idle" /\ pipe = <<>> /\ ~gone
                           => want = 0 /\ asked = todo
                      /\ pc = "closed" /\ pipe = <<>> /\ ~gone => want = 0
    BY DEF InFrame
  <2>1. ~confused
    BY DEF FrameInv, Understood
  <2>2. ASSUME pc \in {"idle", "closed"}, pipe = <<>>, ~gone
        PROVE  want = 0 /\ asked = todo
    <3>1. wbuf = <<>> /\ content = None
      BY <2>2 DEF FrameInv, Loop
    <3>2. Remains = 0 /\ Outstanding = todo
      BY <2>2, <3>1 DEF Remains, Outstanding, Waiting, ToRead
    <3>3. pipe \o wbuf = <<>>
      BY <2>2, <3>1
    <3>4. Leads(<<>>, want, asked, 0, todo)
      BY <2>2, <3>2, <3>3 DEF FrameInv, Understood
    <3> QED
      BY <3>4, LeadsNowhere
  <2> QED
    BY <2>1, <2>2
<1> QED
  BY <1>1, FrameInit, FrameStep, PTL DEF Spec
=============================================================================
