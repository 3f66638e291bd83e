--------------------------- MODULE MCMailboxSync ---------------------------
(***************************************************************************)
(* Instances of MailboxSync for TLC.                                       *)
(***************************************************************************)
EXTENDS MailboxSync, TLC

MCLocal == [n \in Name |-> IF n = "INBOX" THEN "inbox" ELSE n]
MCExcluded == {<<"Outbox">>}
Symmetry == Permutations(Box)

=============================================================================
