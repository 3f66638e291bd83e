------------------------------ MODULE MCSubmit ------------------------------
(***************************************************************************)
(* Instances of Submit for TLC.                                            *)
(***************************************************************************)
EXTENDS Submit, TLC

Symmetry == Permutations(Message)

=============================================================================
