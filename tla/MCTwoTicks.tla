------------------------------ MODULE MCTwoTicks ------------------------------
(***************************************************************************)
(* Instances of TwoTicks for TLC.                                          *)
(***************************************************************************)
EXTENDS TwoTicks

=============================================================================
