------------------------------ MODULE MCServer ------------------------------
(* Model checking of Server.                                               *)
EXTENDS Server, TLC

(* Sound without liveness; descriptors differ where BitOfNone is one.      *)
Symmetry ==
    Permutations(Conn) \cup Permutations(Worker) \cup Permutations(Client)

(* Bound: after an unprotected overlap the clients do nothing any more,    *)
(* and the process runs on to whatever end it finds.                       *)
QuietAfterRace == NoRace \/ ~\E p \in Client : ClientStep(p)

(* Bound: nothing is explored beyond the first overlap of another kind     *)
(* than the one in question.                                               *)
OnlyTear == raced \subseteq {"torn"}

(* Bound of the liveness run: one of the clients never hangs up, the other *)
(* does so and comes back at any moment.                                   *)
OneStays == ~fin[CHOOSE p \in Client : TRUE]
=============================================================================
