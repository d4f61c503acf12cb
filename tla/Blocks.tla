------------------------------- MODULE Blocks -------------------------------
(***************************************************************************)
(* The cells behind the connections: object_pool.c keeps the free blocks   *)
(* in a chain, list.c the connections in a ring with a head, and both use  *)
(* the first word of a block as their link.  server_check_conn_in unlinks  *)
(* and gives back the block that list_traverse is standing on.             *)
(*                                                                         *)
(* Only the main thread touches links; workers close connections at any    *)
(* time, which is all the visitor looks at.                                *)
(***************************************************************************)
EXTENDS Integers

CONSTANT N   (* num_max_connections *)

ASSUME BlocksAssumption == N \in Nat \ {0}

Block == 1 .. N   (* in the order of their addresses *)
Head == 0         (* &srv->conn_list.head *)
NULL == -1
Node == Block \cup {Head}

VARIABLES next,       (* list_node_t.next, and object_t.next: the first word *)
          prev,       (* list_node_t.prev *)
          available,  (* available_objects *)
          node,       (* of list_traverse, NULL outside it *)
          closed      (* connections with socket = -1 *)

vars == <<next, prev, available, node, closed>>

(* object_pool_create and list_init.                                       *)
Init ==
    /\ next = [n \in Node |-> CASE n = Head -> Head
                                [] n = N -> NULL
                                [] OTHER -> n + 1]
    /\ prev = [n \in Node |-> IF n = Head THEN Head ELSE NULL]
    /\ available = 1
    /\ node = NULL
    /\ closed = {}

(* object_pool_acquire, list_append, and the begin of list_traverse.       *)
Admit ==
    LET b == available IN
    /\ node = NULL
    /\ b # NULL
    /\ available' = next[b]
    /\ next' = [next EXCEPT ![b] = Head, ![prev[Head]] = b]
    /\ prev' = [prev EXCEPT ![b] = prev[Head], ![Head] = b]
    /\ node' = next'[Head]
    /\ closed' = closed \ {b}

(* Nothing was accepted, or the pool is empty.                             *)
Begin ==
    /\ node = NULL
    /\ node' = next[Head]
    /\ UNCHANGED <<next, prev, available, closed>>

(* Faulty: the ring is closed in one direction only.                       *)
RemoveForward(b) == next' = [next EXCEPT ![prev[b]] = next[b], ![b] = available]
                    /\ UNCHANGED prev

(* list_remove(b), and object_pool_return(b), which writes into the word   *)
(* that linked b to the next connection.                                   *)
Remove(b) ==
    /\ next' = [next EXCEPT ![prev[b]] = next[b], ![b] = available]
    /\ prev' = [prev EXCEPT ![next[b]] = prev[b]]

(* Faulty: list_traverse reads the link after the visit.                   *)
ReclaimReadsLate ==
    /\ node \in Block /\ node \in closed
    /\ Remove(node)
    /\ available' = node
    /\ node' = IF next'[node] = NULL THEN Head ELSE next'[node]
    /\ UNCHANGED closed

(* One turn of list_traverse.                                              *)
Reclaim ==
    /\ node \in Block /\ node \in closed
    /\ Remove(node)
    /\ available' = node
    /\ node' = next[node]
    /\ UNCHANGED closed

Pass ==
    /\ node \in Block /\ node \notin closed
    /\ node' = next[node]
    /\ UNCHANGED <<next, prev, available, closed>>

End ==
    /\ node = Head
    /\ node' = NULL
    /\ UNCHANGED <<next, prev, available, closed>>

-----------------------------------------------------------------------------
(* The cells from n on, until the head or NULL: the smallest set that has  *)
(* n and whatever its cells lead to.                                       *)
Entire(S) == \A b \in S : next[b] \in Block => next[b] \in S
From(n) == { b \in Block : \A S \in SUBSET Block :
                 Entire(S) /\ (n \in Block => n \in S) => b \in S }

list == From(next[Head])

(* A worker has closed its connection.                                     *)
Close(b) ==
    /\ b \in list
    /\ closed' = closed \cup {b}
    /\ UNCHANGED <<next, prev, available, node>>

Next ==
    \/ Admit \/ Begin \/ Reclaim \/ Pass \/ End
    \/ \E b \in Block : Close(b)

Spec == Init /\ [][Next]_vars

-----------------------------------------------------------------------------
(* The type invariant: the ring can be walked both ways and ends at the    *)
(* head, the chain ends with NULL, and the traversal stands in the ring.   *)
TypeOK ==
    /\ next \in [Node -> Node \cup {NULL}]
    /\ prev \in [Node -> Node \cup {NULL}]
    /\ available \in Block \cup {NULL}
    /\ node \in list \cup {Head, NULL}
    /\ closed \subseteq Block
    /\ \A n \in list \cup {Head} : prev[next[n]] = n /\ next[prev[n]] = n

(* The cells do what the sets of BlockSets do: no block is lost, doubled   *)
(* or in the pool and the list at once, and a traversal visits each listed *)
(* block once although blocks are unlinked and their links overwritten     *)
(* under it.                                                               *)
Sets == INSTANCE BlockSets WITH pool <- From(available), visit <- From(node)
SetsSpec == Sets!Spec
=============================================================================
