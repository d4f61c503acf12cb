----------------------------- MODULE MCUrlPath -----------------------------
(* Model checking of UrlPath: paths behind different beginnings and in     *)
(* front of different ends, and queries behind a short path.               *)
EXTENDS UrlPath

CONSTANTS MaxSegments,   (* bounds: segments of a path *)
          MaxItems       (* and items of a query *)

Joined(parts, mark) ==
    LET upTo[k \in 0 .. Len(parts)] ==
            IF k = 0 THEN <<>>
            ELSE IF k = 1 THEN parts[1]
            ELSE upTo[k - 1] \o <<mark>> \o parts[k]
    IN upTo[Len(parts)]

Segment == { <<>>, <<"a">>, <<"b">>, <<".">>, <<"..">> }
Beginnings == { <<"/">>, <<"http:", "/", "/", "h", "/">>, <<"/", "a", "/", "/">>, <<>> }
Ends == { <<>>, <<"/", "http:">>, <<"#", "a">>, <<"=", "a">>,
          <<"?", "a", "=", "/", "/", "b">> }
Paths == { b \o Joined(p, "/") \o e : b \in Beginnings, e \in Ends,
           p \in BoundedSeq(Segment, MaxSegments) }
Hosts == { <<"http:", "/", "/", "h">> \o e : e \in Ends }

Items == { <<>>, <<"a">>, <<"a", "=">>, <<"=", "a">>, <<"a", "=", "b">>,
           <<"b", "/", "a", "=", "a">>, <<"a", "=", "b", "=", "a">> }
Queries == { <<"/", "?">> \o Joined(q, mark) : mark \in {"&", "#"},
             q \in BoundedSeq(Items, MaxItems) }

WellFormed(u) ==
    /\ u # <<>>
    /\ \A i \in 1 .. Len(u) - 1 : u[i] \in Mark \/ u[i + 1] \in Mark
MCUrls == { u \in Paths \cup Hosts \cup Queries : WellFormed(u) }
=============================================================================
