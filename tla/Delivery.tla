------------------------------- MODULE Delivery -------------------------------
(***************************************************************************)
(* What the send path promises of a message handed to jmapqueue, without   *)
(* the Outbox, the schedule, the sidecars and the requests: it is kept     *)
(* until the server has accepted it or the user has dropped it, it is      *)
(* submitted at most once, and what went out is never taken back.  Submit  *)
(* implements this specification.                                          *)
(***************************************************************************)
EXTENDS Naturals

CONSTANTS
    Message,
    Later     \* messages the server holds back until their time

VARIABLES
    queued,   \* messages handed in
    kept,     \* messages the user still finds in Outbox or Failed
    dropped,  \* messages the user has taken out of either
    held,     \* per message and wording: submissions that may be cancelled
    out       \* per message and wording: submissions that went out

vars == <<queued, kept, dropped, held, out>>
custody == <<queued, kept, dropped>>

\* A message dragged back from Failed may go out in a wording of its own, with
\* the headers that say why it failed.
Wording == BOOLEAN

Accepted(m) == \E w \in Wording : held[m][w] + out[m][w] > 0

Init ==
    /\ queued = {} /\ kept = {} /\ dropped = {}
    /\ held = [m \in Message |-> [w \in Wording |-> 0]]
    /\ out = [m \in Message |-> [w \in Wording |-> 0]]

Queue(m) ==
    /\ m \notin queued
    /\ queued' = queued \cup {m}
    /\ kept' = kept \cup {m}
    /\ UNCHANGED <<dropped, held, out>>

\* The message may be in Outbox and in Failed, and be dropped from one only.
Drop(m) ==
    /\ m \in kept
    /\ dropped' = dropped \cup {m}
    /\ kept' \in {kept, kept \ {m}}
    /\ UNCHANGED <<queued, held, out>>

Accept(m, w) ==
    /\ m \in queued
    /\ held[m][w] + out[m][w] = 0
    /\ IF m \in Later
       THEN held' = [held EXCEPT ![m][w] = 1] /\ UNCHANGED out
       ELSE out' = [out EXCEPT ![m][w] = 1] /\ UNCHANGED held
    /\ UNCHANGED custody

\* Only what is kept here, or wanted no more, is taken back.
Withdraw(m, w) ==
    /\ m \in kept \cup dropped
    /\ held[m][w] > 0
    /\ held' = [held EXCEPT ![m][w] = 0]
    /\ UNCHANGED <<custody, out>>

Release(m, w) ==
    /\ held[m][w] > 0
    /\ held' = [held EXCEPT ![m][w] = @ - 1]
    /\ out' = [out EXCEPT ![m][w] = @ + 1]
    /\ UNCHANGED custody

LetGo(m) ==
    /\ Accepted(m) \/ m \in dropped
    /\ kept' = kept \ {m}
    /\ UNCHANGED <<queued, dropped, held, out>>

Next ==
    \E m \in Message :
        \/ Queue(m) \/ Drop(m) \/ LetGo(m)
        \/ \E w \in Wording : Accept(m, w) \/ Withdraw(m, w) \/ Release(m, w)

Spec == Init /\ [][Next]_vars

=============================================================================
