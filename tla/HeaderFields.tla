---------------------------- MODULE HeaderFields ----------------------------
(***************************************************************************)
(* The tables of http_header.c as they are: the names of the 87 headers,   *)
(* the lengths written next to them, the numbers the rest of the program   *)
(* knows them by, and the hash that finds the name of a request's header.  *)
(*                                                                         *)
(* Numbers of headers start at 1 here and at 0 in the code.                *)
(***************************************************************************)
EXTENDS Integers, Sequences, SequencesExt

(* The table: name and len.                                                *)
http_header_fields == <<
    <<"Accept", 6>>, <<"Accept-Charset", 14>>, <<"Accept-Encoding", 15>>,
    <<"Accept-Language", 15>>, <<"Accept-Ranges", 13>>,
    <<"Access-Control-Allow-Credentials", 32>>,
    <<"Access-Control-Allow-Headers", 28>>,
    <<"Access-Control-Allow-Methods", 28>>,
    <<"Access-Control-Allow-Origin", 27>>,
    <<"Access-Control-Expose-Headers", 29>>, <<"Access-Control-Max-Age", 22>>,
    <<"Access-Control-Request-Headers", 30>>,
    <<"Access-Control-Request-Method", 29>>, <<"Age", 3>>, <<"Allow", 5>>,
    <<"Alt-Svc", 7>>, <<"Authorization", 13>>, <<"Cache-Control", 13>>,
    <<"Clear-Site-Data", 15>>, <<"Connection", 10>>,
    <<"Content-Disposition", 19>>, <<"Content-Encoding", 16>>,
    <<"Content-Language", 16>>, <<"Content-Length", 14>>,
    <<"Content-Location", 16>>, <<"Content-Range", 13>>,
    <<"Content-Security-Policy", 23>>,
    <<"Content-Security-Policy-Report-Only", 35>>, <<"Content-Type", 12>>,
    <<"Cookie", 6>>, <<"Cookie2", 7>>, <<"DNT", 3>>, <<"Date", 4>>,
    <<"ETag", 4>>, <<"Early-Data", 10>>, <<"Expect", 6>>, <<"Expect-CT", 9>>,
    <<"Expires", 7>>, <<"Feature-Policy", 14>>, <<"Forwarded", 9>>,
    <<"From", 4>>, <<"Host", 4>>, <<"If-Match", 8>>,
    <<"If-Modified-Since", 17>>, <<"If-None-Match", 13>>, <<"If-Range", 8>>,
    <<"If-Unmodified-Since", 19>>, <<"Index", 5>>, <<"Keep-Alive", 10>>,
    <<"Large-Allocation", 16>>, <<"Last-Modified", 13>>, <<"Location", 8>>,
    <<"Origin", 6>>, <<"Pragma", 6>>, <<"Proxy-Authenticate", 18>>,
    <<"Proxy-Authorization", 19>>, <<"Public-Key-Pins", 15>>,
    <<"Public-Key-Pins-Report-Only", 27>>, <<"Range", 5>>, <<"Referer", 7>>,
    <<"Referrer-Policy", 15>>, <<"Retry-After", 11>>,
    <<"Sec-WebSocket-Accept", 20>>, <<"Server", 6>>, <<"Server-Timing", 13>>,
    <<"Set-Cookie", 10>>, <<"Set-Cookie2", 11>>, <<"SourceMap", 9>>,
    <<"Strict-Transport-Security", 25>>, <<"TE", 2>>,
    <<"Timing-Allow-Origin", 19>>, <<"Tk", 2>>, <<"Trailer", 7>>,
    <<"Transfer-Encoding", 17>>, <<"Upgrade-Insecure-Requests", 25>>,
    <<"User-Agent", 10>>, <<"Vary", 4>>, <<"Via", 3>>,
    <<"WWW-Authenticate", 16>>, <<"Warning", 7>>,
    <<"X-Content-Type-Options", 22>>, <<"X-DNS-Prefetch-Control", 22>>,
    <<"X-Forwarded-For", 15>>, <<"X-Forwarded-Host", 16>>,
    <<"X-Forwarded-Proto", 17>>, <<"X-Frame-Options", 15>>,
    <<"X-XSS-Protection", 16>> >>

(* http_header_field_id_t, e_header_ left out.                             *)
http_header_field_id_t == <<
    "accept", "accept_charset", "accept_encoding", "accept_language",
    "accept_ranges", "access_control_allow_credentials",
    "access_control_allow_headers", "access_control_allow_methods",
    "access_control_allow_origin", "access_control_expose_headers",
    "access_control_max_age", "access_control_request_headers",
    "access_control_request_method", "age", "allow", "alt_svc",
    "authorization", "cache_control", "clear_site_data", "connection",
    "content_disposition", "content_encoding", "content_language",
    "content_length", "content_location", "content_range",
    "content_security_policy", "content_security_policy_report_only",
    "content_type", "cookie", "cookie2", "dnt", "date", "etag", "early_data",
    "expect", "expect_ct", "expires", "feature_policy", "forwarded", "from",
    "host", "if_match", "if_modified_since", "if_none_match", "if_range",
    "if_unmodified_since", "index", "keep_alive", "large_allocation",
    "last_modified", "location", "origin", "pragma", "proxy_authenticate",
    "proxy_authorization", "public_key_pins", "public_key_pins_report_only",
    "range", "referer", "referrer_policy", "retry_after",
    "sec_websocket_accept", "server", "server_timing", "set_cookie",
    "set_cookie2", "sourcemap", "strict_transport_security", "te",
    "timing_allow_origin", "tk", "trailer", "transfer_encoding",
    "upgrade_insecure_requests", "user_agent", "vary", "via",
    "www_authenticate", "warning", "x_content_type_options",
    "x_dns_prefetch_control", "x_forwarded_for", "x_forwarded_host",
    "x_forwarded_proto", "x_frame_options", "x_xss_protection" >>

Str(f) == http_header_fields[f][1]
FieldLen(f) == http_header_fields[f][2]

(* The number of a header in the enumeration.                              *)
e_header(id) == CHOOSE f \in DOMAIN http_header_field_id_t :
                    http_header_field_id_t[f] = id

-----------------------------------------------------------------------------
(* ASCII codes, with `~' for the NUL that http_header_parse lets into a    *)
(* name; tolower maps a capital to the letter 32 places on.                *)
Character == "ABCDEFGHIJKLMNOPQRSTUVWXYZ-2_abcdefghijklmnopqrstuvwxyz"
Place(c) == CHOOSE i \in 1 .. Len(Character) : SubSeq(Character, i, i) = c
Code(c) == CASE c = "~" -> 0
             [] c = "-" -> 45
             [] c = "2" -> 50
             [] c = "_" -> 95
             [] Place(c) <= 26 -> 64 + Place(c)
             [] OTHER -> 67 + Place(c)
tolower(code) == IF code \in 65 .. 90 THEN code + 32 ELSE code
Chars(s) == [i \in 1 .. Len(s) |-> tolower(Code(SubSeq(s, i, i)))]

Width == 2 ^ 16
Signed(h) == IF h >= Width \div 2 THEN h - Width ELSE h

(* a ^ b on the 16 bits of an int16_t.                                     *)
Xor(a, b) ==
    LET upTo[k \in 0 .. 16] ==
            IF k = 0 THEN 0
            ELSE 2 ^ (k - 1) * ((a \div 2 ^ (k - 1) + b \div 2 ^ (k - 1)) % 2)
                   + upTo[k - 1]
    IN upTo[16]

(* http_header_hash and http_header_n_hash, with the wrapping of int16_t.  *)
http_header_hash(s) ==
    LET c == Chars(s)
        hash[k \in 0 .. Len(s)] ==
            IF k = 0 THEN 0
            ELSE (Xor(hash[k - 1], (c[k] - 48) % Width) + 256 * c[k]) % Width
    IN Signed(hash[Len(s)])

(* Where the first NUL in s is, 0 for nowhere, and what is in front of it. *)
NulIn(s) == SelectInSeq(Chars(s), LAMBDA c : c = 0)
Text(s) == IF NulIn(s) = 0 THEN Chars(s) ELSE SubSeq(Chars(s), 1, NulIn(s) - 1)

(* strncasecmp(s, the name, Len(s)) = 0: a NUL ends s and with it the      *)
(* comparison, otherwise it ends with the length.                          *)
strncasecmp(s, f) ==
    IF NulIn(s) = 0 THEN IsPrefix(Chars(s), Chars(Str(f)))
                    ELSE Text(s) = Chars(Str(f))

(* What a name means, up to a NUL: the header of that name in any case, 0  *)
(* for none.                                                               *)
FieldOf(s) ==
    IF \E f \in DOMAIN http_header_fields : Text(s) = Chars(Str(f))
    THEN CHOOSE f \in DOMAIN http_header_fields : Text(s) = Chars(Str(f))
    ELSE 0

-----------------------------------------------------------------------------
(* The tables agree: a header printed by its number has the name the       *)
(* enumeration gives it, and its length is counted right.                  *)
Spelled(s) == [i \in 1 .. Len(s) |->
                 IF Code(SubSeq(s, i, i)) = 95 THEN 45 ELSE Chars(s)[i]]
ASSUME TablesAgree ==
    /\ Len(http_header_fields) = Len(http_header_field_id_t)
    /\ \A f \in DOMAIN http_header_fields :
          /\ Spelled(http_header_field_id_t[f]) = Spelled(Str(f))
          /\ FieldLen(f) = Len(Str(f))

(* The lookup compares only as many characters as the request has: for a   *)
(* name without a NUL that is exact, because no beginning of a header's    *)
(* name has the hash of the header, and not the empty one either, which is *)
(* what a name counts as that begins behind its colon.  A name with NULs   *)
(* is another matter: they count in the hash, where two of them cancel,    *)
(* and end the comparison.                                                 *)
ASSUME BeginningsDiffer ==
    \A f \in DOMAIN http_header_fields :
        \A n \in 0 .. Len(Str(f)) - 1 :
            http_header_hash(SubSeq(Str(f), 1, n)) # http_header_hash(Str(f))
=============================================================================
