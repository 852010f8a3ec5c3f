---------------------------- MODULE MCOpmzSession ----------------------------
(* Two optimizers on recordings of up to three instructions.                *)
EXTENDS OpmzSession

CONSTANTS o1, o2
McOptimizers == {o1, o2}
=============================================================================
