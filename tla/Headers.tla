------------------------------ MODULE Headers ------------------------------
(***************************************************************************)
(* The headers of one message over the life of the program: the index is   *)
(* sorted when the program starts (main.c), then headers are added, by     *)
(* name as http_header_parse finds them in a request or by number as       *)
(* server.c does for a response, printed, and freed when the message has   *)
(* been dealt with.                                                        *)
(***************************************************************************)
EXTENDS HeaderTree, HeaderIndex

(* The headers that names mean are among those of the tree.                *)
ASSUME HeadersAssumption == \A n \in Name : Meant[n] \in Key \cup {0}

headersVars == <<treeVars, indexVars>>

HeadersInit == TreeInit /\ IndexInit

(* http_header_add: nothing is added under a name that is not found.       *)
AddByName ==
    /\ SearchStep
    /\ IF ipc' = "ready" /\ found' # 0 THEN Add(found') ELSE UNCHANGED treeVars

AddById ==
    /\ ipc = "ready"
    /\ \E k \in Key : Add(k)
    /\ UNCHANGED indexVars

PrintHeaders ==
    /\ ipc = "ready"
    /\ ToStr
    /\ UNCHANGED indexVars

FreeHeaders ==
    /\ ipc = "ready"
    /\ Destroy
    /\ UNCHANGED indexVars

HeadersNext ==
    \/ (Sort \/ \E n \in Name : Search(n)) /\ UNCHANGED treeVars
    \/ AddByName
    \/ AddById
    \/ PrintHeaders
    \/ FreeHeaders

HeadersSpec == HeadersInit /\ [][HeadersNext]_headersVars
=============================================================================
