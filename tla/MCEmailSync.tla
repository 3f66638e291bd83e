---------------------------- MODULE MCEmailSync ----------------------------
(***************************************************************************)
(* Instances of EmailSync for TLC: an inbox before an archive, and a       *)
(* mailbox that is not mirrored.                                           *)
(***************************************************************************)
EXTENDS EmailSync

MCRank == [m \in Scope |-> IF m = "inbox" THEN 1 ELSE 2]

=============================================================================
