----------------------------- MODULE BlockSets -----------------------------
(***************************************************************************)
(* What object_pool.c and list.c promise to the main loop: every block of  *)
(* connection_info_t is in the pool or in the list of connections; a block *)
(* that is admitted comes from the pool; a traversal of the list visits    *)
(* each listed block once, also when the visit gives blocks back.          *)
(*                                                                         *)
(* Blocks implements this with linked cells, Server is built on it.        *)
(***************************************************************************)
CONSTANT Block

VARIABLES pool,   (* blocks that may be acquired *)
          list,   (* blocks of connections *)
          visit   (* blocks the traversal has still to visit *)

blockVars == <<pool, list, visit>>

Init == pool = Block /\ list = {} /\ visit = {}

(* A connection is accepted, and list_traverse begins.                     *)
Admit(b) ==
    /\ visit = {}
    /\ b \in pool
    /\ pool' = pool \ {b}
    /\ list' = list \cup {b}
    /\ visit' = list'

(* list_traverse begins without a new connection.                          *)
Begin ==
    /\ visit = {}
    /\ visit' = list
    /\ UNCHANGED <<pool, list>>

(* The visitor gives the block back.                                       *)
Reclaim(b) ==
    /\ b \in visit
    /\ visit' = visit \ {b}
    /\ list' = list \ {b}
    /\ pool' = pool \cup {b}

(* The visitor leaves the block where it is.                               *)
Pass(b) ==
    /\ b \in visit
    /\ visit' = visit \ {b}
    /\ UNCHANGED <<pool, list>>

Next ==
    \/ Begin
    \/ \E b \in Block : Admit(b) \/ Reclaim(b) \/ Pass(b)

Spec == Init /\ [][Next]_blockVars
=============================================================================
