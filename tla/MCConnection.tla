---------------------------- MODULE MCConnection ----------------------------
(* Model checking of Connection.                                           *)
EXTENDS Connection

(* Two requests of every sort; after one that is refused nothing is        *)
(* parsed, and only one that the parser waits in is followed by a second.  *)
TwoRequests == { <<a, b>> : a \in {"get", "put"}, b \in Sorts } \cup
               { <<a, "get">> : a \in {"nulMethod", "noUrl", "shortVersion"} }
TwoGets == { <<"get", "get">> }
LongGet == { <<"longGet">> }

(* Every element can arrive in two pieces, the method of a PUT or POST in  *)
(* three, and a long line is larger than both buffers, ...                 *)
Halves == [k \in Kinds |-> CASE k = "Pmethod" -> 3
                             [] k = "long" -> 7
                             [] k \in {"stray", "nul", "gap"} -> 1
                             [] OTHER -> 2]
(* ... or larger than data_buffer only.                                    *)
Medium == [Halves EXCEPT !["long"] = 6]

(* Bound: beyond the first mishap that mixes up the stream only two GETs   *)
(* are followed.                                                           *)
Followed ==
    damaged \subseteq Waits \cup {"lone P"} \/ IsPrefix(requests, <<"get", "get">>)
=============================================================================
