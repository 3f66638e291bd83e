----------------------------- MODULE MCDaemonLoop -----------------------------
(***************************************************************************)
(* An instance of DaemonLoop for TLC.                                      *)
(***************************************************************************)
EXTENDS DaemonLoop

\* Without the timer everything depends on the watch and the stream; with it
\* on nothing else.
Settings == {[poll |-> FALSE, watch |-> TRUE, submit |-> FALSE],
             [poll |-> TRUE, watch |-> FALSE, submit |-> TRUE]}

=============================================================================
