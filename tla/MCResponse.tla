---------------------------- MODULE MCResponse -----------------------------
(* Model checking of Response.                                             *)
EXTENDS Response
=============================================================================
