----------------------------- MODULE MCHeaders -----------------------------
(* Model checking of Headers over the real tables.  The names that are     *)
(* looked up: one in odd capitals, one with the hash of a header and       *)
(* nothing else of it, the beginning of one, one that is a header and the  *)
(* beginning of another, and one with one NUL and with two behind it.      *)
EXTENDS Headers, HeaderFields, TLC

AllFields == DOMAIN http_header_fields
HashOfFields == [f \in AllFields |-> http_header_hash(Str(f))]
Plain == {"hOST", "shot", "Serve", "cookie"}
Names == Plain \cup {"Host~", "Host~~"}
HashOfNames == "hOST" :> -16896 @@ "shot" :> -16896 @@ "Serve" :> 9543 @@ "cookie" :> 31236
               @@ "Host~" :> 16848 @@ "Host~~" :> -16896
ResemblesOf == "hOST" :> {42} @@ "shot" :> {} @@ "Serve" :> {64, 65}
               @@ "cookie" :> {30, 31} @@ "Host~" :> {42} @@ "Host~~" :> {42}
MeantBy == "hOST" :> 42 @@ "shot" :> 0 @@ "Serve" :> 0 @@ "cookie" :> 30
           @@ "Host~" :> 42 @@ "Host~~" :> 42

(* They are what HeaderFields computes; the values are written down to     *)
(* spare their computation in every step.                                  *)
ASSUME NamesKnown == \A n \in Names :
    /\ HashOfNames[n] = http_header_hash(n)
    /\ ResemblesOf[n] = { f \in AllFields : strncasecmp(n, f) }
    /\ MeantBy[n] = FieldOf(n)
    /\ n \in Plain <=> NulIn(n) = 0

(* The headers of responses, and two of requests.                          *)
Keys == {15, 20, 24, 29, 30, 42, 64}
ASSUME KeysNamed ==
    Keys = { e_header(id) : id \in {"allow", "connection", "content_length",
                                    "content_type", "cookie", "host", "server"} }
=============================================================================
