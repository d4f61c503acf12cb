------------------------------ MODULE MCBlocks ------------------------------
(* Model checking of Blocks.                                               *)
EXTENDS Blocks
=============================================================================
