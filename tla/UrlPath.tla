------------------------------ MODULE UrlPath ------------------------------
(***************************************************************************)
(* From the URLs of a connection's requests to the paths of files:         *)
(* http_url_parse looks for a host, http_url_parse_path walks along the    *)
(* path with a stack of segments, http_url_parse_query lists what follows  *)
(* a `?', server_process_get puts the root in front of what is on the      *)
(* stack (gen_path), and http_request_reset empties everything for the     *)
(* next request.                                                           *)
(*                                                                         *)
(* A URL is a sequence of words and of the marks that the code looks for;  *)
(* between two words there is a mark.                                      *)
(***************************************************************************)
EXTENDS Naturals, Sequences, SequencesExt

CONSTANTS Name,       (* words that are file names *)
          Scheme,     (* "http:", for all words IS_PATH does not allow *)
          Urls        (* the URLs that are asked for *)

Mark == {"/", "?", "#", "=", "&"}
Word == Name \cup {".", "..", Scheme}

Empty == "empty"   (* a segment without a word *)

ASSUME UrlPathAssumption ==
    /\ Scheme \notin Name
    /\ ({Empty, ".", "..", "end", "above"} \cup Mark) \cap (Name \cup {Scheme}) = {}
    /\ Urls # {}
    /\ \A u \in Urls :
          /\ u \in Seq(Mark \cup Word) /\ u # <<>>
          /\ \A i \in 1 .. Len(u) - 1 : u[i] \in Mark \/ u[i + 1] \in Mark

VARIABLES url,     (* url->url *)
          part,    (* what is parsed: "host", "path", "query" or "done" *)
          at,      (* the place in the URL *)
          seg,     (* the word of the segment so far *)
          stack,   (* path_stack: words and the `/' that follows, if any *)
          ns, ne, vs,  (* of http_url_parse_query, 0 for NULL *)
          items,   (* query_list *)
          result   (* "parsing", "ok" or "error" *)

itemVars == <<ns, ne, vs, items>>
vars == <<url, part, at, seg, stack, itemVars, result>>

(* http_url_init.                                                          *)
Init ==
    /\ url = <<>>
    /\ part = "idle" /\ at = 1 /\ seg = Empty
    /\ stack = <<>>
    /\ ns = 0 /\ ne = 0 /\ vs = 0 /\ items = <<>>
    /\ result = "parsing"

(* A request has come; its URL is copied.                                  *)
Ask(u) ==
    /\ part = "idle"
    /\ url' = u
    /\ part' = "host"
    /\ UNCHANGED <<at, seg, stack, itemVars, result>>

-----------------------------------------------------------------------------
(* http_url_parse up to the path.  strstr finds `//' anywhere in the URL.  *)
DoubleSlash == { i \in 1 .. Len(url) - 1 : url[i] = "/" /\ url[i + 1] = "/" }
First(S) == CHOOSE i \in S : \A k \in S : i <= k
Host == First(DoubleSlash) + 2
Slashes == { k \in DOMAIN url : k >= Host /\ url[k] = "/" }

GoTo(p, i) ==
    /\ part' = p /\ at' = i /\ seg' = Empty
    /\ result' = IF p = "done" THEN "ok" ELSE "parsing"

(* A host, with a path or without one.                                     *)
SkipHost ==
    /\ part = "host" /\ DoubleSlash # {}
    /\ \E k \in Slashes : (\A i \in Slashes : k <= i) /\ GoTo("path", k + 1)
    /\ UNCHANGED <<url, stack, itemVars>>

OnlyHost ==
    /\ part = "host" /\ DoubleSlash # {} /\ Slashes = {}
    /\ GoTo("done", Len(url) + 1)
    /\ UNCHANGED <<url, stack, itemVars>>

(* No host.  The comparison with "http:" includes the 0 behind it: it is   *)
(* skipped when nothing follows, and then so is the 0.                     *)
NoHost ==
    /\ part = "host" /\ DoubleSlash = {}
    /\ \/ url = <<Scheme>> /\ GoTo("done", Len(url) + 1)
       \/ url[1] = "/" /\ GoTo("path", 2)
    /\ UNCHANGED <<url, stack, itemVars>>

Fail ==
    /\ part' = "done" /\ result' = "error"
    /\ UNCHANGED <<url, at, seg, stack, itemVars>>

NoPath ==
    /\ part = "host" /\ DoubleSlash = {}
    /\ url # <<Scheme>> /\ url[1] # "/"
    /\ Fail

-----------------------------------------------------------------------------
(* http_url_parse_path.                                                    *)
char == IF at > Len(url) THEN "end" ELSE url[at]
AtEndOfSegment == part = "path" /\ char \in {"/", "?", "#", "end"}

Letters ==
    /\ part = "path" /\ char \in Name \cup {".", ".."}
    /\ seg' = char
    /\ at' = at + 1
    /\ UNCHANGED <<url, part, stack, itemVars, result>>

NonPath ==
    /\ part = "path" /\ char \in {"=", "&", Scheme}
    /\ Fail

(* On to the next segment, to the query, or out.                           *)
Advance ==
    /\ \/ char = "/" /\ GoTo("path", at + 1)
       \/ char = "?" /\ GoTo("query", at + 1)
       \/ char \notin {"/", "?"} /\ GoTo("done", at)
    /\ UNCHANGED <<url, itemVars>>

(* Faulty: takes `..' for up only when a `/' follows.                      *)
IsUpWithSlash == seg = ".." /\ char = "/"

(* strncmp(seg, "../", seg_len) is 0 for `../', for `..' at the end of the *)
(* path, and for `.' at the end of the path.                               *)
IsUp == seg = ".." \/ (seg = "." /\ char # "/")

(* strncmp(seg, "./", seg_len) is 0 for `./' and for nothing at all.       *)
IsHere == IF char = "/" THEN seg = "." ELSE seg = Empty

Up ==
    /\ AtEndOfSegment /\ IsUp
    /\ stack # <<>>
    /\ stack' = Front(stack)
    /\ Advance

UpFromRoot ==
    /\ AtEndOfSegment /\ IsUp
    /\ stack = <<>>
    /\ Fail

Here ==
    /\ AtEndOfSegment /\ ~IsUp /\ IsHere
    /\ UNCHANGED stack
    /\ Advance

SlashOrEnd == IF char = "/" THEN "/" ELSE "end"

(* Faulty: leaves the `/' out of the segment's length.                     *)
DownNoSlash ==
    /\ AtEndOfSegment /\ ~IsUp /\ ~IsHere
    /\ stack' = Append(stack, [name |-> seg, mark |-> "end"])
    /\ Advance

Down ==
    /\ AtEndOfSegment /\ ~IsUp /\ ~IsHere
    /\ stack' = Append(stack, [name |-> seg, mark |-> SlashOrEnd])
    /\ Advance

-----------------------------------------------------------------------------
(* http_url_parse_query.  The value found is the last character of a word. *)
AtEndOfItem == part = "query" /\ char \in {"&", "#", "end"}

(* Faulty: the name of the item before is kept.                            *)
ItemKeepsName ==
    /\ AtEndOfItem /\ vs # 0
    /\ items' = Append(items, [name |-> <<ns, ne>>, value |-> <<vs, at>>])
    /\ ne' = 0 /\ vs' = 0
    /\ IF char = "end" THEN GoTo("done", at) ELSE GoTo("query", at + 1)
    /\ UNCHANGED <<url, stack, ns>>

Item ==
    /\ AtEndOfItem /\ vs # 0
    /\ items' = Append(items, [name |-> <<ns, ne>>, value |-> <<vs, at>>])
    /\ ns' = 0 /\ ne' = 0 /\ vs' = 0
    /\ IF char = "end" THEN GoTo("done", at) ELSE GoTo("query", at + 1)
    /\ UNCHANGED <<url, stack>>

NoItem ==
    /\ AtEndOfItem /\ vs = 0
    /\ GoTo("done", at)
    /\ UNCHANGED <<url, stack, itemVars>>

InItem ==
    /\ part = "query" /\ ~AtEndOfItem
    /\ ns' = IF ns = 0 /\ char # "=" THEN at ELSE ns
    /\ ne' = IF ns # 0 /\ char = "=" THEN at ELSE ne
    /\ vs' = IF ns # 0 /\ ne # 0 /\ char # "=" THEN at ELSE vs
    /\ GoTo("query", at + 1)
    /\ UNCHANGED <<url, stack, items>>

-----------------------------------------------------------------------------
(* Faulty: the stack of a request that failed is kept.                     *)
ResetOnSuccess ==
    /\ part = "done"
    /\ url' = <<>>
    /\ part' = "idle" /\ at' = 1 /\ seg' = Empty
    /\ stack' = IF result = "ok" THEN <<>> ELSE stack
    /\ ns' = 0 /\ ne' = 0 /\ vs' = 0 /\ items' = <<>>
    /\ result' = "parsing"

(* http_request_reset: everything is as in Init again.                     *)
Reset ==
    /\ part = "done"
    /\ url' = <<>>
    /\ part' = "idle" /\ at' = 1 /\ seg' = Empty
    /\ stack' = <<>>
    /\ ns' = 0 /\ ne' = 0 /\ vs' = 0 /\ items' = <<>>
    /\ result' = "parsing"

Next ==
    \/ \E u \in Urls : Ask(u)
    \/ SkipHost \/ OnlyHost \/ NoHost \/ NoPath
    \/ Letters \/ NonPath \/ Up \/ UpFromRoot \/ Here \/ Down
    \/ Item \/ NoItem \/ InItem
    \/ Reset

Spec == Init /\ [][Next]_vars

(* server_process_get: the root, a `/', the stack from the bottom to the   *)
(* top, and index.html behind a `/'.                                       *)
File ==
    LET names == [i \in DOMAIN stack |-> stack[i].name] IN
    IF stack = <<>> \/ Last(stack).mark = "/" THEN Append(names, "index.html") ELSE names

-----------------------------------------------------------------------------
(* The type invariant; the segments below the top of the stack are         *)
(* directories, so that gen_path may put them one behind the other.        *)
TypeOK ==
    /\ url \in Seq(Mark \cup Word)
    /\ part \in {"idle", "host", "path", "query", "done"}
    /\ at \in 1 .. Len(url) + 1
    /\ seg \in Name \cup {Empty, ".", ".."}
    /\ stack \in Seq([name : Name \cup {Empty, ".", ".."}, mark : {"/", "end"}])
    /\ \A i \in 1 .. Len(stack) :
          stack[i].mark = "/" \/ (i = Len(stack) /\ part \in {"query", "done"})
    /\ {ns, ne, vs} \subseteq 0 .. Len(url)
    /\ result \in {"parsing", "ok", "error"}

(* What a URL means: http://host/path or /path, up to a `?' or `#'.  Not   *)
(* plain are `//' anywhere but behind the scheme, where the code finds a   *)
(* host too, and a host followed by `?' or `#', which it takes for a part  *)
(* of the host.                                                            *)
Absolute == Len(url) > 3 /\ SubSeq(url, 1, 3) = <<Scheme, "/", "/">>
PathAt == IF Absolute THEN 5 ELSE 1
Stops(S) == First({ i \in PathAt .. Len(url) : url[i] \in S } \cup {Len(url) + 1})
Path == SubSeq(url, PathAt + 1, Stops({"?", "#"}) - 1)
Plain ==
    /\ Absolute \/ DoubleSlash = {}
    /\ Absolute => url[4] \in Word /\ (Len(url) = 4 \/ url[5] = "/")

(* What is between the marks m of s.                                       *)
Split(s, m) ==
    LET cuts == { i \in DOMAIN s : s[i] = m } \cup {0, Len(s) + 1}
        cut(k) == CHOOSE i \in cuts : Cardinality({ c \in cuts : c < i }) = k
    IN [k \in 1 .. Cardinality(cuts) - 1 |-> SubSeq(s, cut(k - 1) + 1, cut(k) - 1)]

WordOf(segment) == IF segment = <<>> THEN Empty ELSE segment[1]
Segments == LET split == Split(Path, "/")
            IN [k \in DOMAIN split |-> WordOf(split[k])]

(* The directories from the root down to what the path means, or           *)
(* <<"above">> once it has left the root.                                  *)
Above == <<"above">>
Enter(dir, segment, last) ==
    IF dir = Above THEN Above
    ELSE CASE segment = "." \/ (segment = Empty /\ last) -> dir
           [] segment = ".." -> IF dir = <<>> THEN Above ELSE Front(dir)
           [] OTHER -> Append(dir, segment)
Meaning ==
    LET segs == Segments
        dir[i \in 0 .. Len(segs)] ==
            IF i = 0 THEN <<>> ELSE Enter(dir[i - 1], segs[i], i = Len(segs))
    IN dir[Len(segs)]

Unclean == (url[1] # "/" /\ ~Absolute) \/ ToSet(Path) \cap {"=", "&", Scheme} # {}

(* The file that is opened is the one the URL means, whatever the requests *)
(* before were; a URL with a path that leaves the root, if only for a      *)
(* while, opens none; except for a path that ends with the segment `.',    *)
(* which is treated as one ending in `..'.                                 *)
OpensWhatIsMeant == part = "done" /\ Plain /\ url # <<Scheme>> /\ Last(Segments) # "." =>
    IF Unclean \/ Meaning = Above THEN result = "error"
    ELSE /\ result = "ok"
         /\ File = IF Last(Segments) \in {Empty, ".."}
                   THEN Append(Meaning, "index.html") ELSE Meaning

(* Whatever the URL is, no segment of the file's path leads up.            *)
StaysBelowRoot == result = "ok" => ToSet(File) \cap {".", ".."} = {}

(* The list of a query holds the names up to the first item that has no    *)
(* value, each once and in order, if every item has one `=' at most, and   *)
(* that not in front.                                                      *)
Query == SubSeq(url, Stops({"?"}) + 1, Len(url))
Equals(item) == { i \in DOMAIN item : item[i] = "=" }
NameOf(item) == SubSeq(item, 1, First(Equals(item)) - 1)
HasValue(item) == \E i \in Equals(item) : i < Len(item)
ListsTheQuery ==
    LET query == Split(Query, "&")
        listed == { k \in DOMAIN query : \A i \in 1 .. k : HasValue(query[i]) }
    IN  /\ result = "ok" /\ Plain /\ "#" \notin ToSet(url)
        /\ \A item \in ToSet(query) :
              1 \notin Equals(item) /\ Cardinality(Equals(item)) < 2
        => [k \in DOMAIN items |->
              SubSeq(url, items[k].name[1], items[k].name[2] - 1)]
           = [k \in listed |-> NameOf(query[k])]
=============================================================================
