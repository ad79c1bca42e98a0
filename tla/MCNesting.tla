----------------------------- MODULE MCNesting ------------------------------
(* Instances of Nesting for TLC.                                           *)
EXTENDS Nesting

MCDepths == 0..3
=============================================================================
