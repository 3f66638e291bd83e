----------------------------- MODULE SubmitProofs -----------------------------
(***************************************************************************)
(* Submit keeps its promises for any set of messages and any bounds: the   *)
(* types, that nothing queued is lost, that a request on the wire is       *)
(* marked, that nothing is submitted twice, and that the daemon implements *)
(* Delivery.  The last two assume that scheduled mail does not go out      *)
(* while its message is still queued or failed here (~EarlyRelease).       *)
(***************************************************************************)
EXTENDS Submit, TLAPS

(***************************************************************************)
(* Types                                                                   *)
(***************************************************************************)
\* The attempt has a message, a file and a sidecar from its beginning to its end.
JobOK ==
    IF job.stage = "idle" THEN job = Free
    ELSE job.m \in Message /\ job.file \in File /\ job.sc \in Sidecar

Inv == TypeOK /\ JobOK

\* A file stays a file when its name or its headers change.
LEMMA FileIs ==
    /\ \A f \in File : [f EXCEPT !.marked = FALSE] \in File /\ [f EXCEPT !.name = "cur"] \in File
    /\ \A b \in BOOLEAN : [name |-> "new", marked |-> b] \in File
    /\ \A f \in File : f # NoFile
<1>1. \A f \in File : [f EXCEPT !.marked = FALSE] \in File /\ [f EXCEPT !.name = "cur"] \in File
  BY DEF File
<1>2. \A b \in BOOLEAN : [name |-> "new", marked |-> b] \in File
  BY DEF File
<1> QED BY <1>1, <1>2, SendAssumption

LEMMA ReportedType ==
    ASSUME loop \in Loop, NEW evs \in Seq(Event) PROVE Reported(evs) \in Loop
<1>1. loop.events \o evs \in Seq(Event)
  BY DEF Loop
<1> QED BY <1>1 DEF Reported, Loop

LEMMA HandledType ==
    ASSUME loop \in Loop, NEW queue \in [Message -> {"none", "now", "later"}],
           NEW pairs \in [Message -> {"none", "Outbox", "Failed"}], NEW more \in Seq(Event),
           loop.events # <<>>, Handled(queue, pairs, more)
    PROVE  loop' \in Loop
<1>1. Tail(loop.events) \o more \in Seq(Event)
  BY DEF Loop
<1> QED BY <1>1 DEF Handled, Loop

LEMMA EvType ==
    ASSUME NEW m \in Message, NEW side \in {"Outbox", "Failed"},
           NEW kind \in {"create", "from", "remove"}, NEW name \in {"new", "cur"}
    PROVE  /\ Ev(m, side, kind, name) \in Event
           /\ <<Ev(m, side, kind, name)>> \in Seq(Event)
<1>1. Ev(m, side, kind, name) \in Event
  BY DEF Ev, Event
<1> QED BY <1>1

LEMMA RenameType ==
    ASSUME NEW m \in Message, NEW from \in {"Outbox", "Failed"}, NEW to \in {"Outbox", "Failed"},
           NEW old \in {"new", "cur"}, NEW new \in {"new", "cur"}
    PROVE  RenameEvents(m, from, old, to, new) \in Seq(Event)
BY EvType DEF RenameEvents

LEMMA HeadType ==
    ASSUME loop \in Loop, loop.events # <<>>
    PROVE  /\ Head(loop.events) \in Event
           /\ Head(loop.events).m \in Message
<1>1. Head(loop.events) \in Event
  BY DEF Loop
<1> QED BY <1>1 DEF Event

LEMMA RemoveReadType ==
    ASSUME TypeOK, JobOK, job.stage # "idle", RemoveRead
    PROVE  outbox' \in [Message -> File \cup {NoFile}] /\ loop' \in Loop
<1>1. job.m \in Message /\ job.file.name \in {"new", "cur"}
  BY DEF JobOK, File
<1>2. <<Ev(job.m, "Outbox", "remove", job.file.name)>> \in Seq(Event)
  BY <1>1, EvType
<1>3. Reported(<<Ev(job.m, "Outbox", "remove", job.file.name)>>) \in Loop
  BY <1>2, ReportedType DEF TypeOK
<1>4. CASE InPlace
  BY <1>1, <1>3, <1>4 DEF RemoveRead, TypeOK
<1>5. CASE ~InPlace
  BY <1>5 DEF RemoveRead, TypeOK
<1> QED BY <1>4, <1>5

LEMMA GotoType ==
    ASSUME TypeOK, JobOK, job.stage # "idle", NEW stage \in Stages \ {"idle"}, Goto(stage)
    PROVE  /\ JobOK'
           /\ job' \in Job
           /\ job'.m = job.m /\ job'.file = job.file /\ job'.stage = stage /\ job'.sc = job.sc
BY DEF TypeOK, JobOK, Goto, Job

LEMMA FreeType == Free \in Job
BY DEF Free, Job, Stages

LEMMA DoneType == ASSUME loop \in Loop, NEW m PROVE Done(m) \in Loop
BY DEF Done, Loop

LEMMA CopyType ==
    ASSUME TypeOK, NEW m \in Message, NEW w \in BOOLEAN
    PROVE  server[m][w] \in Copy
BY DEF TypeOK

LEMMA SubmittedType ==
    ASSUME NEW m \in Message, NEW c \in Copy, NEW cancel \in BOOLEAN
    PROVE  Submitted(m, c, cancel) \in Copy
BY DEF Submitted, Copy, Target

LEMMA BecomesType ==
    ASSUME TypeOK, JobOK, job.stage # "idle", NEW copy \in Copy, Becomes(copy)
    PROVE  server' \in [Message -> [BOOLEAN -> Copy]]
<1>1. job.m \in Message /\ job.file.marked \in BOOLEAN
  BY DEF JobOK, File
<1> QED BY <1>1 DEF TypeOK, Becomes

LEMMA MineType == ASSUME TypeOK, JobOK, job.stage # "idle" PROVE Mine \in Copy
<1>1. job.m \in Message /\ job.file.marked \in BOOLEAN
  BY DEF JobOK, File
<1> QED BY <1>1 DEF TypeOK, Mine

LEMMA AnswerType ==
    ASSUME TypeOK, JobOK, job.stage # "idle", NEW stage, Answer(stage) \/ Fault \/ Refusal
    PROVE  spent' \in Spent /\ refused' \subseteq Message
BY BoundsAssumption DEF TypeOK, JobOK, Answer, Fault, Refusal, Spent

LEMMA InitType == Init => Inv
<1> SUFFICES ASSUME Init PROVE Inv
  OBVIOUS
<1>1. loop \in Loop
  BY DEF Init, Down, Loop
<1>2. job \in Job /\ JobOK
  BY FreeType DEF Init, Free, JobOK
<1>3. spent \in Spent
  BY BoundsAssumption DEF Init, Spent
<1>4. NoCopy \in Copy
  BY DEF NoCopy, Copy
<1> QED BY <1>1, <1>2, <1>3, <1>4 DEF Init, Inv, TypeOK

LEMMA TypeNext == Inv /\ [Next]_vars => Inv'
<1> SUFFICES ASSUME Inv, [Next]_vars PROVE Inv'
  OBVIOUS
<1> USE DEF Inv, TypeOK, JobOK, disk, history
<1>1. CASE Scan
  <2>1. Down \in Loop
    BY <1>1 DEF Loop, Down
  <2>2. PICK ahead :
          loop' = [Down EXCEPT !.up = "scanned",
                    !.queue = [n \in Message |->
                       CASE outbox[n] = NoFile -> "none"
                         [] outbox[n] # NoFile /\ n \in ahead -> "later"
                         [] outbox[n] # NoFile /\ n \notin ahead -> "now"]]
    BY <1>1 DEF Scan
  <2>3. loop' \in Loop
    BY <1>1, <2>1, <2>2 DEF Loop
  <2> QED BY <1>1, <2>1, <2>2, <2>3 DEF Scan
<1>2. CASE Watch
  <2>1. loop' \in Loop
    BY <1>2 DEF Watch, Loop
  <2> QED BY <1>2, <2>1 DEF Watch
<1>3. CASE DrainDue
  <2>1. loop' \in Loop
    BY <1>3 DEF DrainDue, Loop, Due
  <2> QED BY <1>3, <2>1 DEF DrainDue
<1>4. CASE HandleDragBack
  <2>1. loop.events # <<>> /\ Head(loop.events) \in Event /\ Head(loop.events).m \in Message
    BY <1>4, HeadType DEF HandleDragBack, Handling
  <2>2. outbox' \in [Message -> File \cup {NoFile}]
    BY <1>4, <2>1, FileIs DEF HandleDragBack
  <2>3. sidecar' \in [Message -> Sidecar \cup {NoSidecar}]
    BY <1>4, <2>1 DEF HandleDragBack, Sidecar
  <2>4. /\ Schedule(Head(loop.events).m, "now") \in [Message -> {"none", "now", "later"}]
        /\ Pair(Head(loop.events).m, "none") \in [Message -> {"none", "Outbox", "Failed"}]
    BY <1>4, <2>1 DEF Schedule, Pair, Loop
  <2>5. <<>> \in Seq(Event) /\ <<Head(loop.events)>> \in Seq(Event)
    BY <1>4, <2>1
  <2>6. loop' \in Loop
    BY <1>4, <2>1, <2>4, <2>5, HandledType DEF HandleDragBack
  <2> QED BY <1>4, <2>1, <2>2, <2>3, <2>4, <2>5, <2>6 DEF HandleDragBack
<1>5. CASE HandleQueued \/ HandleGone \/ HandleFailedRemove \/
          \E side \in {"Outbox", "Failed"} : HandleFrom(side)
  <2>1. loop.events # <<>> /\ Head(loop.events) \in Event /\ Head(loop.events).m \in Message
    BY <1>5, HeadType
       DEF HandleQueued, HandleGone, HandleFailedRemove, HandleFrom, Handling
  <2>2. /\ \A when \in {"none", "now"} :
             Schedule(Head(loop.events).m, when) \in [Message -> {"none", "now", "later"}]
        /\ \A side \in {"none", "Outbox", "Failed"} :
             Pair(Head(loop.events).m, side) \in [Message -> {"none", "Outbox", "Failed"}]
        /\ loop.queue \in [Message -> {"none", "now", "later"}]
        /\ loop.pairs \in [Message -> {"none", "Outbox", "Failed"}]
    BY <1>5, <2>1 DEF Schedule, Pair, Loop
  <2>3. <<>> \in Seq(Event)
    BY <1>5
  <2>4. loop' \in Loop
    BY <1>5, <2>1, <2>2, <2>3, HandledType
       DEF HandleQueued, HandleGone, HandleFailedRemove, HandleFrom
  <2> QED BY <1>5, <2>1, <2>2, <2>3, <2>4
   DEF HandleQueued, HandleGone, HandleFailedRemove, HandleFrom
<1>6. CASE SaveInFlight
  <2>1. job.m \in Message /\ job.sc \in Sidecar
    BY <1>6 DEF SaveInFlight
  <2>2. sidecar' \in [Message -> Sidecar \cup {NoSidecar}]
    BY <1>6, <2>1 DEF SaveInFlight, MarkInFlight, Sidecar
  <2>3. JobOK' /\ job' \in Job
    BY <1>6, GotoType DEF SaveInFlight, Stages
  <2> QED BY <1>6, <2>1, <2>2, <2>3 DEF SaveInFlight
<1>7. CASE Upload \/ AlreadyExists
  BY <1>7, GotoType DEF Upload, AlreadyExists, Answer, Stages
<1>8. CASE QueryState
  <2>1. (Mine.pending > 0) \in BOOLEAN
    BY <1>8
  <2>2. PICK stage \in {"success", "resubmit"} :
          job' = [job EXCEPT !.stage = stage, !.cancel = Mine.pending > 0]
    BY <1>8 DEF QueryState
  <2>3. JobOK' /\ job' \in Job
    BY <1>8, <2>1, <2>2 DEF QueryState, Job, Stages
  <2> QED BY <1>8, <2>1, <2>2, <2>3 DEF QueryState
<1>9. CASE RequestFails
  <2>1. JobOK' /\ job' \in Job
    BY <1>9, GotoType DEF RequestFails, Wire, Fault, Refusal, Stages
  <2>2. spent' \in Spent /\ refused' \subseteq Message
    BY <1>9, BoundsAssumption DEF RequestFails, Wire, Fault, Refusal, Spent
  <2> QED BY <1>9, <2>1, <2>2 DEF RequestFails
<1>10. CASE ImportAndSubmit
  <2>1. PICK stage \in {"success", "transient", "permanent"} : Goto(stage)
    BY <1>10 DEF ImportAndSubmit, Answer, Fault, Refusal
  <2>2. JobOK' /\ job' \in Job
    BY <1>10, <2>1, GotoType DEF ImportAndSubmit, Stages
  <2>3. spent' \in Spent /\ refused' \subseteq Message
    BY <1>10, AnswerType DEF ImportAndSubmit
  <2>4. Mine \in Copy /\ [Mine EXCEPT !.in = "drafts"] \in Copy
    BY <1>10, MineType DEF ImportAndSubmit, Copy
  <2>5. Submitted(job.m, Mine, FALSE) \in Copy
    BY <1>10, <2>4, SubmittedType DEF ImportAndSubmit
  <2>6. server' \in [Message -> [BOOLEAN -> Copy]]
    BY <1>10, <2>4, <2>5, BecomesType DEF ImportAndSubmit
  <2> QED BY <1>10, <2>1, <2>2, <2>3, <2>4, <2>5, <2>6 DEF ImportAndSubmit
<1>11. CASE Resubmit
  <2>1. JobOK' /\ job' \in Job
    BY <1>11, GotoType DEF Resubmit, Answer, Fault, Refusal, Stages
  <2>2. spent' \in Spent /\ refused' \subseteq Message
    BY <1>11, AnswerType DEF Resubmit
  <2>3. Mine \in Copy /\ [Mine EXCEPT !.pending = 0] \in Copy
    BY <1>11, MineType DEF Resubmit, Copy
  <2>4. Submitted(job.m, Mine, job.cancel) \in Copy
    BY <1>11, <2>3, SubmittedType DEF Resubmit, Job
  <2>5. server' \in [Message -> [BOOLEAN -> Copy]]
    BY <1>11, <2>3, <2>4, BecomesType DEF Resubmit
  <2> QED BY <1>11, <2>1, <2>2, <2>3, <2>4, <2>5 DEF Resubmit
<1>12. CASE Succeed \/ UnlinkSource
  BY <1>12, GotoType, RemoveReadType DEF Succeed, UnlinkSource, Stages
<1>13. CASE SaveBackoff
  <2>1. job.m \in Message /\ job.sc \in Sidecar
    BY <1>13 DEF SaveBackoff
  <2>2. sidecar' \in [Message -> Sidecar \cup {NoSidecar}]
    BY <1>13, <2>1 DEF SaveBackoff, Sidecar
  <2>3. JobOK' /\ job' \in Job
    BY <1>13, GotoType DEF SaveBackoff, Stages
  <2> QED BY <1>13, <2>1, <2>2, <2>3 DEF SaveBackoff
<1>14. CASE WaitOver
  <2>1. loop' \in Loop
    BY <1>14, DoneType, ZenonT(30) DEF WaitOver, Loop
  <2> QED BY <1>14, <2>1, FreeType DEF WaitOver, Free
<1>15. CASE MoveToFailed
  <2>1. job.m \in Message
    BY <1>15 DEF MoveToFailed
  <2>2. <<Ev(job.m, "Failed", "create", "new")>> \in Seq(Event)
    BY <1>15, <2>1, EvType
  <2>3. loop' \in Loop
    BY <1>15, <2>2, ReportedType DEF MoveToFailed, CopyToFailed
  <2> QED BY <1>15, <2>1, <2>2, <2>3, GotoType DEF MoveToFailed, CopyToFailed, Stages
<1>16. CASE MoveFails
  <2>1. spent' \in Spent /\ parked' \subseteq Message
    BY <1>16, BoundsAssumption DEF MoveFails, Spent
  <2> QED BY <1>16, <2>1, GotoType DEF MoveFails, Stages
<1>17. CASE Forget
  BY <1>17, FreeType, DoneType DEF Forget, Free
<1>18. ASSUME NEW m \in Message, Begin(m)
      PROVE  Inv'
  <2>1. JobOK' /\ job' \in Job
    BY <1>18 DEF Begin, Job, Stages, Default, Sidecar
  <2> QED BY <1>18, <2>1 DEF Begin
<1>19. ASSUME NEW m \in Message, Vanished(m)
      PROVE  Inv'
  BY <1>19, DoneType DEF Vanished
<1>20. ASSUME NEW m \in Message, ComesDue(m)
      PROVE  Inv'
  <2>1. loop' \in Loop
    BY <1>20 DEF ComesDue, Loop
  <2> QED BY <1>20, <2>1 DEF ComesDue
<1>21. ASSUME NEW m \in Message, ExpireRename(m)
      PROVE  Inv'
  <2>1. loop' \in Loop
    BY <1>21 DEF ExpireRename, Loop
  <2> QED BY <1>21, <2>1 DEF ExpireRename
<1>22. ASSUME NEW m \in Message, QueueMessage(m)
      PROVE  Inv'
  <2>1. loop' \in Loop
    BY <1>22, EvType, ReportedType DEF QueueMessage
  <2> QED BY <1>22, <2>1 DEF QueueMessage, Missed, File
<1>23. ASSUME NEW m \in Message, QueueSidecar(m)
      PROVE  Inv'
  BY <1>23 DEF QueueSidecar, Default, Sidecar
<1>24. ASSUME NEW m \in Message, RenameQueued(m)
      PROVE  Inv'
  <2>1. loop' \in Loop
    BY <1>24, RenameType, ReportedType DEF RenameQueued
  <2>2. spent' \in Spent
    BY <1>24, BoundsAssumption DEF RenameQueued, UserActs, Spent
  <2> QED BY <1>24, <2>1, <2>2 DEF RenameQueued, UserActs, File
<1>25. ASSUME NEW m \in Message, DeleteQueued(m)
      PROVE  Inv'
  <2>1. loop' \in Loop
    BY <1>25, EvType, ReportedType DEF DeleteQueued, File
  <2>2. spent' \in Spent
    BY <1>25, BoundsAssumption DEF DeleteQueued, UserActs, Spent
  <2> QED BY <1>25, <2>1, <2>2 DEF DeleteQueued, UserActs
<1>26. ASSUME NEW m \in Message, DragBack(m)
      PROVE  Inv'
  <2>1. loop' \in Loop
    BY <1>26, RenameType, ReportedType DEF DragBack
  <2>2. spent' \in Spent
    BY <1>26, BoundsAssumption DEF DragBack, UserActs, Spent
  <2> QED BY <1>26, <2>1, <2>2 DEF DragBack, UserActs, Missed, File
<1>27. ASSUME NEW m \in Message, DiscardFailed(m)
      PROVE  Inv'
  <2>1. loop' \in Loop
    BY <1>27, EvType, ReportedType DEF DiscardFailed
  <2>2. spent' \in Spent
    BY <1>27, BoundsAssumption DEF DiscardFailed, UserActs, Spent
  <2> QED BY <1>27, <2>1, <2>2 DEF DiscardFailed, UserActs
<1>28. ASSUME NEW m \in Message, NEW marked \in BOOLEAN, Release(m, marked)
      PROVE  Inv'
  <2>1. server[m][marked].pending - 1 \in Nat /\ server[m][marked].final + 1 \in Nat
    BY <1>28, CopyType DEF Release, Copy
  <2>2. [server[m][marked] EXCEPT !.pending = @ - 1, !.final = @ + 1] \in Copy
    BY <1>28, <2>1, CopyType, ZenonT(30) DEF Copy
  <2>3. server' \in [Message -> [BOOLEAN -> Copy]]
    BY <1>28, <2>2 DEF Release
  <2> QED BY <1>28, <2>1, <2>2, <2>3 DEF Release
<1>29. CASE Crash
  <2>1. loop' \in Loop
    BY <1>29 DEF Crash, Down, Loop
  <2>2. spent' \in Spent
    BY <1>29, BoundsAssumption DEF Crash, Spent
  <2> QED BY <1>29, <2>1, <2>2, FreeType DEF Crash, Free
<1>30. CASE UNCHANGED vars
  BY <1>30 DEF vars
<1> QED BY <1>1, <1>2, <1>3, <1>4, <1>5, <1>6, <1>7, <1>8, <1>9, <1>10, <1>11,
           <1>12, <1>13, <1>14, <1>15, <1>16, <1>17, <1>18, <1>19, <1>20,
           <1>21, <1>22, <1>23, <1>24, <1>25, <1>26, <1>27, <1>28, <1>29, <1>30
           DEF Next, Daemon, Others

LEMMA InvAlways == Spec => []Inv
BY InitType, TypeNext, PTL DEF Spec

\* Every variable keeps its type, whatever crashes, fails or races.
THEOREM TypeCorrect == Spec => []TypeOK
<1>1. Inv => TypeOK
  BY DEF Inv
<1> QED BY <1>1, InvAlways, PTL

(***************************************************************************)
(* Nothing is lost                                                         *)
(***************************************************************************)
\* Submissions of one wording that the server has accepted.
Total(m, w) == server[m][w].pending + server[m][w].final

\* Until its outcome is decided an attempt has its message in the Outbox.
Holding == {"save", "upload", "import", "query", "resubmit", "transient", "wait", "permanent"}

\* NothingLost is not inductive: that the attempt ends well must mean that the
\* server has the message, that a copy in Sent has been submitted, and that the
\* source is unlinked only behind a copy in Failed.
KeepInv ==
    /\ \A m \in Message : outbox[m] # NoFile \/ m \in failed \/ job.m = m => spool[m] # "unqueued"
    /\ \A m \in Message, w \in BOOLEAN : server[m][w].in = "sent" => Total(m, w) > 0
    /\ NothingLost
    /\ job.stage \in Holding => outbox[job.m] # NoFile \/ job.m \in removed
    /\ \A m \in Message : job.stage = "success" /\ job.m = m => Accepted(m)
    /\ job.stage = "unlink" => job.m \in failed \cup removed
    /\ job.stage = "resubmit" => Mine.in # "sent"

\* What a request leaves on the server, copy by copy.
LEMMA BecomesIs ==
    ASSUME TypeOK, JobOK, job.stage # "idle", NEW copy, Becomes(copy),
           NEW m \in Message, NEW w \in BOOLEAN
    PROVE  server'[m][w] = IF m = job.m /\ w = job.file.marked THEN copy ELSE server[m][w]
<1>1. job.m \in Message /\ job.file.marked \in BOOLEAN
  BY DEF JobOK, File
<1> QED BY <1>1 DEF TypeOK, Becomes

\* Releasing moves a submission from pending to final.
LEMMA ReleaseIs ==
    ASSUME TypeOK, NEW n \in Message, NEW v \in BOOLEAN, Release(n, v),
           NEW m \in Message, NEW w \in BOOLEAN
    PROVE  /\ server'[m][w].in = server[m][w].in
           /\ Total(m, w)' = Total(m, w)
           /\ m # n \/ w # v => server'[m][w] = server[m][w]
           /\ m = n /\ w = v => /\ server'[m][w].pending = server[m][w].pending - 1
                                /\ server'[m][w].final = server[m][w].final + 1
<1>1. server[m][w] \in Copy
  BY CopyType
<1>2. server'[m][w] = IF m = n /\ w = v
                      THEN [server[n][v] EXCEPT !.pending = @ - 1, !.final = @ + 1]
                      ELSE server[m][w]
  BY DEF Release, TypeOK
<1> QED BY <1>1, <1>2 DEF Total, Copy

LEMMA AcceptedIs ==
    ASSUME TypeOK, NEW m \in Message
    PROVE  Accepted(m) <=> \E w \in BOOLEAN : Total(m, w) > 0
BY DEF Accepted, Total

LEMMA SubmittedIs ==
    ASSUME NEW m \in Message, NEW c \in Copy, NEW cancel \in BOOLEAN
    PROVE  Submitted(m, c, cancel).pending + Submitted(m, c, cancel).final > 0
BY DEF Submitted, Copy

\* A request that leaves the copy c behind loses nothing.
LEMMA CopyKept ==
    ASSUME TypeOK, JobOK, job.stage # "idle", KeepInv, job.stage \in Holding,
           NEW c \in Copy, Becomes(c), UNCHANGED <<outbox, failed, spool, removed>>,
           c.in = "sent" => c.pending + c.final > 0, job'.m = job.m
    PROVE  /\ \A m \in Message, w \in BOOLEAN : server'[m][w].in = "sent" => Total(m, w)' > 0
           /\ NothingLost'
           /\ c.pending + c.final > 0 => \A m \in Message : job.m = m => Accepted(m)'
<1>1. job.m \in Message /\ job.file.marked \in BOOLEAN
  BY DEF JobOK, File
<1>2. \A m \in Message, w \in BOOLEAN :
        server'[m][w] = IF m = job.m /\ w = job.file.marked THEN c ELSE server[m][w]
  BY BecomesIs
<1>3. \A m \in Message, w \in BOOLEAN : server'[m][w].in = "sent" => Total(m, w)' > 0
  BY <1>2 DEF KeepInv, Total
<1>4. c.pending + c.final > 0 => \A m \in Message : job.m = m => Accepted(m)'
  BY <1>1, <1>2 DEF Accepted
<1>5. NothingLost'
  BY <1>2 DEF KeepInv, NothingLost, Accepted
<1> QED BY <1>3, <1>4, <1>5

LEMMA KeepNext == Inv /\ Inv' /\ KeepInv /\ [Next]_vars => KeepInv'
<1> SUFFICES ASSUME Inv, Inv', KeepInv, [Next]_vars PROVE KeepInv'
  OBVIOUS
<1> TypeOK /\ JobOK
  BY DEF Inv
<1> /\ outbox \in [Message -> File \cup {NoFile}]
    /\ failed \subseteq Message
    /\ server \in [Message -> [BOOLEAN -> Copy]]
    /\ spool \in [Message -> {"unqueued", "filed", "done"}]
    /\ job \in Job
  BY DEF TypeOK
<1> job.stage # "idle" => /\ job.m \in Message
                         /\ job.file \in File /\ job.file.marked \in BOOLEAN
  BY DEF JobOK, File
<1> USE DEF disk, history, KeepInv, NothingLost, Accepted, Total, Holding, Mine
<1>1. CASE Scan \/ Watch \/ DrainDue
  BY <1>1 DEF Scan, Watch, DrainDue
<1>2. CASE HandleDragBack
  <2>1. \A m \in Message : outbox'[m] # NoFile <=> outbox[m] # NoFile
    BY <1>2, FileIs DEF HandleDragBack
  <2>2. UNCHANGED <<failed, server, spool, job, removed>>
    BY <1>2 DEF HandleDragBack
  <2> QED BY <1>2, <2>1, <2>2 DEF HandleDragBack
<1>3. CASE HandleQueued \/ HandleGone \/ HandleFailedRemove \/
          \E side \in {"Outbox", "Failed"} : HandleFrom(side)
  BY <1>3 DEF HandleQueued, HandleGone, HandleFailedRemove, HandleFrom
<1>4. CASE SaveInFlight
  <2>1. job'.m = job.m /\ job'.file = job.file /\ job'.stage \in {"upload", "permanent"}
    BY <1>4 DEF SaveInFlight, Goto, Job
  <2> QED BY <1>4, <2>1 DEF SaveInFlight
<1>5. CASE Upload \/ AlreadyExists
  <2>1. job'.m = job.m /\ job'.file = job.file /\ job'.stage \in {"import", "query"}
    BY <1>5 DEF Upload, AlreadyExists, Answer, Goto, Job
  <2> QED BY <1>5, <2>1 DEF Upload, AlreadyExists
<1>6. CASE QueryState
  <2>1. /\ job.stage = "query" /\ job'.m = job.m /\ job'.file = job.file
        /\ job'.stage = IF Mine.in = "sent" THEN "success" ELSE "resubmit"
    BY <1>6 DEF QueryState, AlreadyDone, Job
  <2>2. Mine.in = "sent" => Accepted(job.m)
    BY <1>6, <2>1, AcceptedIs
  <2> QED BY <1>6, <2>1, <2>2 DEF QueryState
<1>7. CASE RequestFails
  <2>1. job'.m = job.m /\ job'.file = job.file /\ job'.stage \in {"transient", "permanent"}
    BY <1>7 DEF RequestFails, Fault, Refusal, Goto, Job
  <2> QED BY <1>7, <2>1 DEF RequestFails, Wire
<1>8. CASE ImportAndSubmit
  <2>1. /\ job.stage = "import" /\ job'.m = job.m /\ job'.file = job.file
        /\ Mine.in = "none" /\ Mine \in Copy
    BY <1>8, MineType DEF ImportAndSubmit, Answer, Fault, Refusal, Goto, Job
  <2>2. \/ /\ Becomes(Submitted(job.m, Mine, FALSE))
           /\ job'.stage \in {"success", "transient"}
        \/ /\ Becomes([Mine EXCEPT !.in = "drafts"])
           /\ job'.stage \in {"transient", "permanent"}
    BY <1>8, <2>1 DEF ImportAndSubmit, Answer, Fault, Refusal, Goto, Job
  <2>3. UNCHANGED <<outbox, failed, spool, removed>>
    BY <1>8 DEF ImportAndSubmit
  <2>4. /\ Submitted(job.m, Mine, FALSE) \in Copy
        /\ Submitted(job.m, Mine, FALSE).pending + Submitted(job.m, Mine, FALSE).final > 0
        /\ [Mine EXCEPT !.in = "drafts"] \in Copy /\ [Mine EXCEPT !.in = "drafts"].in # "sent"
    BY <1>8, <2>1, SubmittedType, SubmittedIs DEF Copy
  <2>5. /\ \A m \in Message, w \in BOOLEAN : server'[m][w].in = "sent" => Total(m, w)' > 0
        /\ NothingLost'
        /\ \A m \in Message : job'.stage = "success" /\ job'.m = m => Accepted(m)'
    BY <1>8, <2>1, <2>2, <2>3, <2>4, CopyKept DEF Holding
  <2>6. /\ \A m \in Message : outbox'[m] # NoFile \/ m \in failed' \/ job'.m = m => spool'[m] # "unqueued"
        /\ outbox'[job'.m] # NoFile \/ job'.m \in removed'
        /\ job'.stage \notin {"unlink", "resubmit"}
    BY <1>8, <2>1, <2>2, <2>3
  <2> QED BY <1>8, <2>1, <2>2, <2>3, <2>4, <2>5, <2>6
<1>9. CASE Resubmit
  <2>1. /\ job.stage = "resubmit" /\ job'.m = job.m /\ job'.file = job.file /\ job.cancel \in BOOLEAN
        /\ Mine.in # "sent" /\ Mine \in Copy
    BY <1>9, MineType DEF Resubmit, KeepInv, Answer, Fault, Refusal, Goto, Job
  <2>2. \/ /\ Becomes(Submitted(job.m, Mine, job.cancel))
           /\ job'.stage \in {"success", "transient"}
        \/ /\ Becomes([Mine EXCEPT !.pending = 0])
           /\ job'.stage = "permanent"
    BY <1>9, <2>1 DEF Resubmit, Answer, Fault, Refusal, Goto, Job
  <2>3. UNCHANGED <<outbox, failed, spool, removed>>
    BY <1>9 DEF Resubmit
  <2>4. /\ Submitted(job.m, Mine, job.cancel) \in Copy
        /\ Submitted(job.m, Mine, job.cancel).pending + Submitted(job.m, Mine, job.cancel).final > 0
        /\ [Mine EXCEPT !.pending = 0] \in Copy /\ [Mine EXCEPT !.pending = 0].in # "sent"
    BY <1>9, <2>1, SubmittedType, SubmittedIs DEF Copy
  <2>5. /\ \A m \in Message, w \in BOOLEAN : server'[m][w].in = "sent" => Total(m, w)' > 0
        /\ NothingLost'
        /\ \A m \in Message : job'.stage = "success" /\ job'.m = m => Accepted(m)'
    BY <1>9, <2>1, <2>2, <2>3, <2>4, CopyKept DEF Holding
  <2>6. /\ \A m \in Message : outbox'[m] # NoFile \/ m \in failed' \/ job'.m = m => spool'[m] # "unqueued"
        /\ outbox'[job'.m] # NoFile \/ job'.m \in removed'
        /\ job'.stage \notin {"unlink", "resubmit"}
    BY <1>9, <2>1, <2>2, <2>3
  <2> QED BY <1>9, <2>1, <2>2, <2>3, <2>4, <2>5, <2>6
<1>10. CASE Succeed \/ UnlinkSource
  <2>1. job'.m = job.m /\ job'.stage = "forget"
    BY <1>10 DEF Succeed, UnlinkSource, Goto, Job
  <2> QED BY <1>10, <2>1 DEF Succeed, UnlinkSource, RemoveRead
<1>11. CASE SaveBackoff
  <2>1. job'.m = job.m /\ job'.stage = "wait"
    BY <1>11 DEF SaveBackoff, Goto, Job
  <2> QED BY <1>11, <2>1 DEF SaveBackoff
<1>12. CASE WaitOver
  BY <1>12, SendAssumption DEF WaitOver, Free
<1>13. CASE MoveToFailed
  <2>1. job'.m = job.m /\ job'.stage = "unlink"
    BY <1>13 DEF MoveToFailed, Goto, Job
  <2> QED BY <1>13, <2>1 DEF MoveToFailed, CopyToFailed
<1>14. CASE MoveFails
  <2>1. job'.m = job.m /\ job'.stage = "forget"
    BY <1>14 DEF MoveFails, Goto, Job
  <2> QED BY <1>14, <2>1 DEF MoveFails
<1>15. CASE Forget
  BY <1>15, SendAssumption DEF Forget, Free
<1>16. ASSUME NEW m \in Message, Begin(m)
      PROVE  KeepInv'
  BY <1>16 DEF Begin
<1>17. ASSUME NEW m \in Message, Vanished(m)
      PROVE  KeepInv'
  BY <1>17 DEF Vanished
<1>18. ASSUME NEW m \in Message, ComesDue(m)
      PROVE  KeepInv'
  BY <1>18 DEF ComesDue
<1>19. ASSUME NEW m \in Message, ExpireRename(m)
      PROVE  KeepInv'
  BY <1>19 DEF ExpireRename
<1>20. ASSUME NEW m \in Message, QueueMessage(m)
      PROVE  KeepInv'
  BY <1>20, FileIs DEF QueueMessage, Missed
<1>21. ASSUME NEW m \in Message, QueueSidecar(m)
      PROVE  KeepInv'
  BY <1>21 DEF QueueSidecar
<1>22. ASSUME NEW m \in Message, RenameQueued(m)
      PROVE  KeepInv'
  <2>1. \A n \in Message : outbox'[n] # NoFile <=> outbox[n] # NoFile
    BY <1>22, FileIs DEF RenameQueued
  <2> QED BY <1>22, <2>1 DEF RenameQueued, UserActs
<1>23. ASSUME NEW m \in Message, DeleteQueued(m)
      PROVE  KeepInv'
  BY <1>23 DEF DeleteQueued, UserActs
<1>24. ASSUME NEW m \in Message, DragBack(m)
      PROVE  KeepInv'
  BY <1>24, FileIs DEF DragBack, UserActs, Missed
<1>25. ASSUME NEW m \in Message, DiscardFailed(m)
      PROVE  KeepInv'
  BY <1>25 DEF DiscardFailed, UserActs
<1>26. ASSUME NEW m \in Message, NEW marked \in BOOLEAN, Release(m, marked)
      PROVE  KeepInv'
  <2>1. /\ \A m1 \in Message, w \in BOOLEAN :
             server'[m1][w].in = server[m1][w].in /\ Total(m1, w)' = Total(m1, w)
    BY <1>26, ReleaseIs
  <2>2. UNCHANGED <<outbox, failed, spool, job, removed>>
    BY <1>26 DEF Release
  <2> QED BY <1>26, <2>1, <2>2 DEF Release
<1>27. CASE Crash
  BY <1>27, SendAssumption DEF Crash, Free
<1>28. CASE UNCHANGED vars
  BY <1>28 DEF vars
<1> QED BY <1>1, <1>2, <1>3, <1>4, <1>5, <1>6, <1>7, <1>8, <1>9, <1>10, <1>11,
           <1>12, <1>13, <1>14, <1>15, <1>16, <1>17, <1>18, <1>19, <1>20,
           <1>21, <1>22, <1>23, <1>24, <1>25, <1>26, <1>27, <1>28
           DEF Next, Daemon, Others

LEMMA KeepInit == Init => KeepInv
<1> SUFFICES ASSUME Init PROVE KeepInv
  OBVIOUS
<1>1. \A m \in Message, w \in BOOLEAN : server[m][w].in = "none"
  BY DEF Init, NoCopy
<1>2. job.stage = "idle" /\ \A m \in Message : job.m # m
  BY SendAssumption DEF Init, Free
<1> QED BY <1>1, <1>2 DEF Init, KeepInv, NothingLost, Holding

LEMMA KeepAlways == Spec => []KeepInv
BY InvAlways, KeepInit, KeepNext, PTL DEF Spec

\* A message handed to jmapqueue is never lost, whatever is retried, refused or
\* interrupted by a crash: it is in the Outbox, in Failed, or with the server,
\* unless the user has removed it.
THEOREM NothingIsLost == Spec => []NothingLost
<1>1. KeepInv => NothingLost
  BY DEF KeepInv
<1> QED BY <1>1, KeepAlways, PTL

(***************************************************************************)
(* Requests are marked                                                     *)
(***************************************************************************)
\* A request follows only on an envelope, an envelope only on the second write
\* of jmapqueue; so that write cannot undo the mark of a running attempt.
MarkInv ==
    /\ \A m \in Message : sidecar[m] # NoSidecar /\ sidecar[m].envelope => spool[m] = "done"
    /\ job.stage # "idle" /\ job.sc.envelope => spool[job.m] = "done"
    /\ job.stage \in Wire => job.sc.envelope
    /\ WireIsMarked

LEMMA SidecarIs == \A e, r, i \in BOOLEAN :
    [envelope |-> e, retry |-> r, in_flight |-> i] # NoSidecar
BY SendAssumption DEF Sidecar

LEMMA MarkNext == Inv /\ Inv' /\ MarkInv /\ [Next]_vars => MarkInv'
<1> SUFFICES ASSUME Inv, Inv', MarkInv, [Next]_vars PROVE MarkInv'
  OBVIOUS
<1> TypeOK /\ JobOK
  BY DEF Inv
<1> /\ sidecar \in [Message -> Sidecar \cup {NoSidecar}]
    /\ spool \in [Message -> {"unqueued", "filed", "done"}]
    /\ job \in Job
  BY DEF TypeOK
<1> job.stage # "idle" => job.m \in Message /\ job.sc \in Sidecar
  BY DEF JobOK
<1> USE DEF disk, history, MarkInv, WireIsMarked, Wire
<1>1. CASE Scan \/ Watch \/ DrainDue
  BY <1>1 DEF Scan, Watch, DrainDue
<1>2. CASE HandleDragBack
  <2>1. job = Free
    BY <1>2 DEF HandleDragBack, Handling, AtSelect
  <2>2. Head(loop.events).m \in Message
    BY <1>2, HeadType DEF HandleDragBack, Handling, TypeOK
  <2>3. (sidecar[Head(loop.events).m] # NoSidecar /\ sidecar[Head(loop.events).m].envelope) \in BOOLEAN
    BY <1>2, <2>2 DEF Sidecar
  <2>4. \A m \in Message : sidecar'[m] # NoSidecar /\ sidecar'[m].envelope
           => sidecar[m] # NoSidecar /\ sidecar[m].envelope
    BY <1>2, <2>2, <2>3, SidecarIs DEF HandleDragBack
  <2>5. job' = Free /\ Free.stage = "idle" /\ spool' = spool
    BY <1>2, <2>1 DEF HandleDragBack, Free
  <2> QED BY <1>2, <2>1, <2>2, <2>3, <2>4, <2>5 DEF HandleDragBack
<1>3. CASE HandleQueued \/ HandleGone \/ HandleFailedRemove \/
          \E side \in {"Outbox", "Failed"} : HandleFrom(side)
  BY <1>3 DEF HandleQueued, HandleGone, HandleFailedRemove, HandleFrom
<1>4. CASE SaveInFlight
  <2>1. /\ job'.m = job.m /\ job'.sc = job.sc /\ job.m \in Message /\ job.sc \in Sidecar
        /\ job'.stage = IF job.sc.envelope THEN "upload" ELSE "permanent"
    BY <1>4 DEF SaveInFlight, Goto, Job, JobOK
  <2>2. [job.sc EXCEPT !.in_flight = TRUE] \in Sidecar
    BY <1>4, <2>1 DEF Sidecar
  <2>3. sidecar' = [sidecar EXCEPT ![job.m] = [job.sc EXCEPT !.in_flight = TRUE]] /\ spool' = spool
    BY <1>4 DEF SaveInFlight, MarkInFlight
  <2>4. sidecar'[job.m] # NoSidecar /\ sidecar'[job.m].in_flight /\ sidecar'[job.m].envelope = job.sc.envelope
    BY <1>4, <2>1, <2>2, <2>3, SendAssumption DEF Sidecar
  <2> QED BY <1>4, <2>1, <2>2, <2>3, <2>4 DEF SaveInFlight
<1>5. CASE Upload \/ AlreadyExists
  <2>1. job'.m = job.m /\ job'.sc = job.sc /\ job'.stage \in Wire
    BY <1>5 DEF Upload, AlreadyExists, Answer, Fault, Refusal, Goto, Job
  <2> QED BY <1>5, <2>1 DEF Upload, AlreadyExists
<1>6. CASE QueryState
  <2>1. job'.m = job.m /\ job'.sc = job.sc /\ job'.stage \in {"success", "resubmit"}
    BY <1>6 DEF QueryState, Answer, Fault, Refusal, Goto, Job
  <2> QED BY <1>6, <2>1 DEF QueryState
<1>7. CASE RequestFails
  <2>1. job'.m = job.m /\ job'.sc = job.sc /\ job'.stage \in {"transient", "permanent"}
    BY <1>7 DEF RequestFails, Answer, Fault, Refusal, Goto, Job
  <2> QED BY <1>7, <2>1 DEF RequestFails
<1>8. CASE ImportAndSubmit
  <2>1. job'.m = job.m /\ job'.sc = job.sc /\ job'.stage \in {"success", "transient", "permanent"}
    BY <1>8 DEF ImportAndSubmit, Answer, Fault, Refusal, Goto, Job
  <2> QED BY <1>8, <2>1 DEF ImportAndSubmit
<1>9. CASE Resubmit
  <2>1. job'.m = job.m /\ job'.sc = job.sc /\ job'.stage \in {"success", "transient", "permanent"}
    BY <1>9 DEF Resubmit, Answer, Fault, Refusal, Goto, Job
  <2> QED BY <1>9, <2>1 DEF Resubmit
<1>10. CASE Succeed \/ UnlinkSource
  <2>1. job'.m = job.m /\ job'.sc = job.sc /\ job'.stage = "forget"
    BY <1>10 DEF Succeed, UnlinkSource, Answer, Fault, Refusal, Goto, Job
  <2> QED BY <1>10, <2>1 DEF Succeed, UnlinkSource
<1>11. CASE SaveBackoff
  <2>1. /\ job'.m = job.m /\ job'.sc = job.sc /\ job'.stage = "wait"
        /\ job.m \in Message /\ job.sc \in Sidecar
    BY <1>11 DEF SaveBackoff, Goto, Job, JobOK
  <2>2. /\ sidecar' = [sidecar EXCEPT ![job.m] =
                        [job.sc EXCEPT !.retry = TRUE, !.in_flight = FALSE]]
        /\ spool' = spool
    BY <1>11 DEF SaveBackoff
  <2>3. [job.sc EXCEPT !.retry = TRUE, !.in_flight = FALSE].envelope = job.sc.envelope
    BY <1>11, <2>1 DEF Sidecar
  <2> QED BY <1>11, <2>1, <2>2, <2>3 DEF SaveBackoff
<1>12. CASE WaitOver
  BY <1>12 DEF WaitOver, Free
<1>13. CASE MoveToFailed
  <2>1. job'.m = job.m /\ job'.sc = job.sc /\ job'.stage = "unlink"
    BY <1>13 DEF MoveToFailed, Answer, Fault, Refusal, Goto, Job
  <2> QED BY <1>13, <2>1 DEF MoveToFailed
<1>14. CASE MoveFails
  <2>1. job'.m = job.m /\ job'.sc = job.sc /\ job'.stage = "forget"
    BY <1>14 DEF MoveFails, Answer, Fault, Refusal, Goto, Job
  <2> QED BY <1>14, <2>1 DEF MoveFails
<1>15. CASE Forget
  BY <1>15 DEF Forget, Free
<1>16. ASSUME NEW m \in Message, Begin(m)
      PROVE  MarkInv'
  <2>1. /\ job'.m = m /\ job'.stage = "save" /\ UNCHANGED <<sidecar, spool>>
        /\ job'.sc = IF sidecar[m] = NoSidecar THEN Default ELSE sidecar[m]
    BY <1>16 DEF Begin
  <2>2. job'.sc.envelope => spool[m] = "done"
    BY <1>16, <2>1 DEF Default
  <2> QED BY <1>16, <2>1, <2>2 DEF Begin
<1>17. ASSUME NEW m \in Message, Vanished(m)
      PROVE  MarkInv'
  <2>1. sidecar' = [sidecar EXCEPT ![m] = NoSidecar] /\ UNCHANGED <<spool, job>> /\ job = Free
    BY <1>17 DEF Vanished
  <2>2. Free.stage = "idle"
    BY <1>17 DEF Free
  <2> QED BY <1>17, <2>1, <2>2 DEF Vanished
<1>18. ASSUME NEW m \in Message, ComesDue(m)
      PROVE  MarkInv'
  BY <1>18 DEF ComesDue
<1>19. ASSUME NEW m \in Message, ExpireRename(m)
      PROVE  MarkInv'
  BY <1>19 DEF ExpireRename
<1>20. ASSUME NEW m \in Message, QueueMessage(m)
      PROVE  MarkInv'
  <2>1. job'= job /\ sidecar' = sidecar /\ \A n \in Message : spool[n] = "done" => spool'[n] = "done"
    BY <1>20 DEF QueueMessage
  <2> QED BY <1>20, <2>1 DEF QueueMessage
<1>21. ASSUME NEW m \in Message, QueueSidecar(m)
      PROVE  MarkInv'
  <2>1. /\ spool[m] = "filed" /\ spool' = [spool EXCEPT ![m] = "done"]
        /\ job' = job /\ sidecar' = [sidecar EXCEPT ![m] = [Default EXCEPT !.envelope = TRUE]]
    BY <1>21 DEF QueueSidecar
  <2>2. job.stage \in Wire => job.m # m
    BY <1>21, <2>1
  <2> QED BY <1>21, <2>1, <2>2 DEF QueueSidecar
<1>22. ASSUME NEW m \in Message, RenameQueued(m)
      PROVE  MarkInv'
  BY <1>22 DEF RenameQueued, UserActs
<1>23. ASSUME NEW m \in Message, DeleteQueued(m)
      PROVE  MarkInv'
  BY <1>23 DEF DeleteQueued, UserActs
<1>24. ASSUME NEW m \in Message, DragBack(m)
      PROVE  MarkInv'
  BY <1>24 DEF DragBack, UserActs
<1>25. ASSUME NEW m \in Message, DiscardFailed(m)
      PROVE  MarkInv'
  BY <1>25 DEF DiscardFailed, UserActs
<1>26. ASSUME NEW m \in Message, NEW marked \in BOOLEAN, Release(m, marked)
      PROVE  MarkInv'
  BY <1>26 DEF Release
<1>27. CASE Crash
  BY <1>27 DEF Crash, Free
<1>28. CASE UNCHANGED vars
  BY <1>28 DEF vars
<1> QED BY <1>1, <1>2, <1>3, <1>4, <1>5, <1>6, <1>7, <1>8, <1>9, <1>10, <1>11,
           <1>12, <1>13, <1>14, <1>15, <1>16, <1>17, <1>18, <1>19, <1>20,
           <1>21, <1>22, <1>23, <1>24, <1>25, <1>26, <1>27, <1>28
           DEF Next, Daemon, Others

LEMMA MarkInit == Init => MarkInv
BY DEF Init, Free, MarkInv, WireIsMarked, Wire

\* No request is sent before the sidecar says so, and nothing takes the mark
\* away while the request may be under way: after a crash the next attempt can
\* tell that the server may have the message.
THEOREM RequestsAreMarked == Spec => []WireIsMarked
<1>1. Spec => []MarkInv
  BY InvAlways, MarkInit, MarkNext, PTL DEF Spec
<1>2. MarkInv => WireIsMarked
  BY DEF MarkInv
<1> QED BY <1>1, <1>2, PTL

(***************************************************************************)
(* Nothing is submitted twice                                              *)
(***************************************************************************)
\* A copy that is neither in Sent nor scheduled has no submission; what went out
\* at once is in Sent, where reconcile_action sees it; what was held back and
\* went out is gone from here; and resubmission cancels what is pending.
OnceInv ==
    /\ AtMostOnce
    /\ \A m \in Message : spool[m] = "unqueued" => \A w \in BOOLEAN : Total(m, w) = 0
    /\ \A m \in Message, w \in BOOLEAN :
         /\ server[m][w].in \in {"none", "drafts"} => Total(m, w) = 0
         /\ m \notin Later => /\ server[m][w].pending = 0
                              /\ server[m][w].final > 0 => server[m][w].in = "sent"
         /\ m \in Later /\ server[m][w].final > 0
              => outbox[m] = NoFile /\ m \notin failed /\ job.m # m
    /\ job.stage = "resubmit" => job.cancel = (Mine.pending > 0)

\* What OnceInv says of the copy c of a message that is being tried.
Once(m, c) ==
    /\ c.pending + c.final <= 1
    /\ c.in \in {"none", "drafts"} => c.pending + c.final = 0
    /\ m \notin Later => c.pending = 0 /\ (c.final > 0 => c.in = "sent")
    /\ m \in Later => c.final = 0

LEMMA OnceCopy ==
    ASSUME TypeOK, JobOK, job.stage # "idle", KeepInv, OnceInv,
           NEW c \in Copy, Becomes(c), Once(job.m, c),
           UNCHANGED <<outbox, failed, spool>>, job'.m = job.m, job'.stage # "resubmit"
    PROVE  OnceInv'
<1>1. job.m \in Message /\ job.file.marked \in BOOLEAN
  BY DEF JobOK, File
<1>2. \A m \in Message, w \in BOOLEAN :
        server'[m][w] = IF m = job.m /\ w = job.file.marked THEN c ELSE server[m][w]
  BY BecomesIs
<1>3. spool[job.m] # "unqueued"
  BY <1>1 DEF KeepInv
<1>4. AtMostOnce'
  BY <1>2 DEF OnceInv, AtMostOnce, Once
<1>5. \A m \in Message : spool'[m] = "unqueued" => \A w \in BOOLEAN : Total(m, w)' = 0
  BY <1>2, <1>3 DEF OnceInv, Total
<1>6. \A m \in Message, w \in BOOLEAN :
         /\ server'[m][w].in \in {"none", "drafts"} => Total(m, w)' = 0
         /\ m \notin Later => /\ server'[m][w].pending = 0
                              /\ server'[m][w].final > 0 => server'[m][w].in = "sent"
         /\ m \in Later /\ server'[m][w].final > 0
              => outbox'[m] = NoFile /\ m \notin failed' /\ job'.m # m
  <2> TAKE m \in Message, w \in BOOLEAN
  <2>1. CASE m = job.m /\ w = job.file.marked
    <3>1. server'[m][w] = c
      BY <1>2, <2>1
    <3>2. c.final \in Nat
      BY DEF Copy
    <3> QED BY <2>1, <3>1, <3>2 DEF Once, Total
  <2>2. CASE ~(m = job.m /\ w = job.file.marked)
    <3>1. server'[m][w] = server[m][w]
      BY <1>2, <2>2
    <3> QED BY <3>1 DEF OnceInv, Total
  <2> QED BY <2>1, <2>2
<1> QED BY <1>4, <1>5, <1>6 DEF OnceInv

\* A step that leaves the server alone and queues, fails or begins nothing new.
Calm ==
    /\ UNCHANGED server
    /\ \A m \in Message : /\ outbox[m] = NoFile => outbox'[m] = NoFile
                          /\ spool'[m] = "unqueued" => spool[m] = "unqueued"
                          /\ job.m # m => job'.m # m
    /\ failed' \subseteq failed \cup {job.m}
    /\ job'.stage # "resubmit" \/ UNCHANGED job

LEMMA OnceIdle == ASSUME TypeOK, OnceInv, Calm PROVE OnceInv'
<1> USE DEF Calm
<1>1. AtMostOnce'
  BY DEF OnceInv, AtMostOnce
<1>2. \A m \in Message, w \in BOOLEAN : Total(m, w)' = Total(m, w)
  BY DEF Total
<1>3. job'.stage = "resubmit" => job'.cancel = (Mine'.pending > 0)
  BY DEF OnceInv, Mine
<1> QED BY <1>1, <1>2, <1>3 DEF OnceInv

LEMMA OnceNext == ~EarlyRelease /\ Inv /\ Inv' /\ KeepInv /\ OnceInv /\ [Next]_vars => OnceInv'
<1> SUFFICES ASSUME ~EarlyRelease, Inv, Inv', KeepInv, OnceInv, [Next]_vars PROVE OnceInv'
  OBVIOUS
<1> TypeOK /\ JobOK
  BY DEF Inv
<1> /\ outbox \in [Message -> File \cup {NoFile}]
    /\ failed \subseteq Message
    /\ server \in [Message -> [BOOLEAN -> Copy]]
    /\ spool \in [Message -> {"unqueued", "filed", "done"}]
    /\ job \in Job
  BY DEF TypeOK
<1> job.stage # "idle" => /\ job.m \in Message
                         /\ job.file \in File /\ job.file.marked \in BOOLEAN
  BY DEF JobOK, File
<1> USE DEF disk, history
<1>1. CASE Scan \/ Watch \/ DrainDue
  <2>1. Calm
    BY <1>1 DEF Calm, Scan, Watch, DrainDue
  <2> QED BY <1>1, <2>1, OnceIdle
<1>2. CASE HandleDragBack
  <2>1. Calm
    BY <1>2, FileIs DEF Calm, HandleDragBack
  <2> QED BY <1>2, <2>1, OnceIdle
<1>3. CASE HandleQueued \/ HandleGone \/ HandleFailedRemove \/
          \E side \in {"Outbox", "Failed"} : HandleFrom(side)
  <2>1. Calm
    BY <1>3 DEF Calm, HandleQueued, HandleGone, HandleFailedRemove, HandleFrom
  <2> QED BY <1>3, <2>1, OnceIdle
<1>4. CASE SaveInFlight
  <2>1. Calm
    BY <1>4 DEF Calm, SaveInFlight, Goto, Job
  <2> QED BY <1>4, <2>1, OnceIdle
<1>5. CASE Upload \/ AlreadyExists
  <2>1. Calm
    BY <1>5 DEF Calm, Upload, AlreadyExists, Answer, Goto, Job
  <2> QED BY <1>5, <2>1, OnceIdle
<1>6. CASE QueryState
  <2>1. UNCHANGED <<outbox, failed, server, spool>> /\ job.m \in Message
    BY <1>6 DEF QueryState
  <2>2. job'.m = job.m /\ job'.file = job.file /\ job'.cancel = (Mine.pending > 0)
    BY <1>6 DEF QueryState, Job
  <2>3. AtMostOnce' /\ (\A m \in Message, w \in BOOLEAN : Total(m, w)' = Total(m, w))
    BY <1>6, <2>1 DEF OnceInv, AtMostOnce, Total
  <2>4. job'.cancel = (Mine'.pending > 0)
    BY <1>6, <2>1, <2>2 DEF Mine
  <2>5. OnceInv'
    BY <1>6, <2>1, <2>2, <2>3, <2>4 DEF OnceInv
  <2> QED BY <1>6, <2>1, <2>2, <2>3, <2>4, <2>5
<1>7. CASE RequestFails
  <2>1. Calm
    BY <1>7 DEF Calm, RequestFails, Fault, Refusal, Goto, Job
  <2> QED BY <1>7, <2>1, OnceIdle
<1>8. CASE ImportAndSubmit
  <2>1. /\ job.stage = "import" /\ job'.m = job.m /\ job'.stage # "resubmit"
        /\ job.m \in Message /\ job.file.marked \in BOOLEAN
        /\ Mine.in = "none" /\ Mine \in Copy /\ Mine = server[job.m][job.file.marked]
    BY <1>8, MineType
       DEF ImportAndSubmit, Answer, Fault, Refusal, Goto, Job, Mine
  <2>2. UNCHANGED <<outbox, failed, spool>>
    BY <1>8 DEF ImportAndSubmit
  <2>3. Mine.pending = 0 /\ Mine.final = 0
    BY <1>8, <2>1 DEF OnceInv, Total, Copy
  <2>4. /\ Submitted(job.m, Mine, FALSE) \in Copy /\ [Mine EXCEPT !.in = "drafts"] \in Copy
        /\ Once(job.m, Submitted(job.m, Mine, FALSE)) /\ Once(job.m, [Mine EXCEPT !.in = "drafts"])
    BY <1>8, <2>1, <2>3, SubmittedType DEF Once, Submitted, Target, Copy
  <2>5. Becomes(Submitted(job.m, Mine, FALSE)) \/ Becomes([Mine EXCEPT !.in = "drafts"])
    BY <1>8 DEF ImportAndSubmit
  <2>6. OnceInv'
    BY <1>8, <2>1, <2>2, <2>4, <2>5, OnceCopy
  <2> QED BY <1>8, <2>1, <2>2, <2>3, <2>4, <2>5, <2>6
<1>9. CASE Resubmit
  <2>1. /\ job.stage = "resubmit" /\ job'.m = job.m /\ job'.stage # "resubmit"
        /\ job.m \in Message /\ job.file.marked \in BOOLEAN /\ job.cancel \in BOOLEAN
        /\ Mine \in Copy /\ Mine = server[job.m][job.file.marked]
    BY <1>9, MineType DEF Resubmit, Answer, Fault, Refusal, Goto, Job, Mine
  <2>2. UNCHANGED <<outbox, failed, spool>>
    BY <1>9 DEF Resubmit
  <2>3. /\ Mine.in # "sent" /\ Mine.final = 0 /\ Mine.pending <= 1 /\ (job.m \notin Later => Mine.pending = 0)
        /\ (IF job.cancel THEN 0 ELSE Mine.pending) = 0
    BY <1>9, <2>1 DEF OnceInv, KeepInv, AtMostOnce, Copy
  <2>4. /\ Submitted(job.m, Mine, job.cancel) \in Copy /\ [Mine EXCEPT !.pending = 0] \in Copy
        /\ Once(job.m, Submitted(job.m, Mine, job.cancel)) /\ Once(job.m, [Mine EXCEPT !.pending = 0])
    BY <1>9, <2>1, <2>3, SubmittedType, SMTT(30) DEF Once, Submitted, Target, Copy
  <2>5. Becomes(Submitted(job.m, Mine, job.cancel)) \/ Becomes([Mine EXCEPT !.pending = 0])
    BY <1>9 DEF Resubmit
  <2>6. OnceInv'
    BY <1>9, <2>1, <2>2, <2>4, <2>5, OnceCopy
  <2> QED BY <1>9, <2>1, <2>2, <2>3, <2>4, <2>5, <2>6
<1>10. CASE Succeed \/ UnlinkSource
  <2>1. Calm
    BY <1>10 DEF Calm, Succeed, UnlinkSource, RemoveRead, Goto, Job
  <2> QED BY <1>10, <2>1, OnceIdle
<1>11. CASE SaveBackoff
  <2>1. Calm
    BY <1>11 DEF Calm, SaveBackoff, Goto, Job
  <2> QED BY <1>11, <2>1, OnceIdle
<1>12. CASE WaitOver
  <2>1. Calm
    BY <1>12, SendAssumption DEF Calm, WaitOver, Free
  <2> QED BY <1>12, <2>1, OnceIdle
<1>13. CASE MoveToFailed
  <2>1. Calm
    BY <1>13 DEF Calm, MoveToFailed, CopyToFailed, Goto, Job
  <2> QED BY <1>13, <2>1, OnceIdle
<1>14. CASE MoveFails
  <2>1. Calm
    BY <1>14 DEF Calm, MoveFails, Goto, Job
  <2> QED BY <1>14, <2>1, OnceIdle
<1>15. CASE Forget
  <2>1. Calm
    BY <1>15, SendAssumption DEF Calm, Forget, Free
  <2> QED BY <1>15, <2>1, OnceIdle
<1>16. ASSUME NEW m \in Message, Begin(m)
      PROVE  OnceInv'
  <2>1. /\ outbox[m] # NoFile /\ UNCHANGED <<outbox, failed, server, spool>>
        /\ job'.m = m /\ job'.stage = "save"
    BY <1>16 DEF Begin
  <2>2. AtMostOnce' /\ (\A n \in Message, w \in BOOLEAN : Total(n, w)' = Total(n, w))
    BY <1>16, <2>1 DEF OnceInv, AtMostOnce, Total
  <2>3. OnceInv'
    BY <1>16, <2>1, <2>2 DEF OnceInv
  <2> QED BY <1>16, <2>1, <2>2, <2>3
<1>17. ASSUME NEW m \in Message, Vanished(m)
      PROVE  OnceInv'
  <2>1. Calm
    BY <1>17 DEF Calm, Vanished
  <2> QED BY <1>17, <2>1, OnceIdle
<1>18. ASSUME NEW m \in Message, ComesDue(m)
      PROVE  OnceInv'
  <2>1. Calm
    BY <1>18 DEF Calm, ComesDue
  <2> QED BY <1>18, <2>1, OnceIdle
<1>19. ASSUME NEW m \in Message, ExpireRename(m)
      PROVE  OnceInv'
  <2>1. Calm
    BY <1>19 DEF Calm, ExpireRename
  <2> QED BY <1>19, <2>1, OnceIdle
<1>20. ASSUME NEW m \in Message, QueueMessage(m)
      PROVE  OnceInv'
  <2>1. /\ spool[m] = "unqueued" /\ spool' = [spool EXCEPT ![m] = "filed"]
        /\ outbox' = [outbox EXCEPT ![m] = [name |-> "new", marked |-> FALSE]]
        /\ UNCHANGED <<failed, server, job>>
    BY <1>20 DEF QueueMessage
  <2>2. AtMostOnce' /\ (\A n \in Message, w \in BOOLEAN : Total(n, w)' = Total(n, w))
    BY <1>20, <2>1 DEF OnceInv, AtMostOnce, Total
  <2>3. \A w \in BOOLEAN : server[m][w].final = 0
    BY <1>20, <2>1, CopyType DEF OnceInv, Total, Copy
  <2>4. job.stage = "resubmit" => job'.cancel = (Mine'.pending > 0)
    BY <1>20, <2>1 DEF OnceInv, Mine
  <2>5. OnceInv'
    BY <1>20, <2>1, <2>2, <2>3, <2>4 DEF OnceInv
  <2> QED BY <1>20, <2>1, <2>2, <2>3, <2>4, <2>5
<1>21. ASSUME NEW m \in Message, QueueSidecar(m)
      PROVE  OnceInv'
  <2>1. Calm
    BY <1>21 DEF Calm, QueueSidecar
  <2> QED BY <1>21, <2>1, OnceIdle
<1>22. ASSUME NEW m \in Message, RenameQueued(m)
      PROVE  OnceInv'
  <2>1. Calm
    BY <1>22, FileIs DEF Calm, RenameQueued, UserActs
  <2> QED BY <1>22, <2>1, OnceIdle
<1>23. ASSUME NEW m \in Message, DeleteQueued(m)
      PROVE  OnceInv'
  <2>1. Calm
    BY <1>23 DEF Calm, DeleteQueued, UserActs
  <2> QED BY <1>23, <2>1, OnceIdle
<1>24. ASSUME NEW m \in Message, DragBack(m)
      PROVE  OnceInv'
  <2>1. /\ m \in failed /\ failed' \subseteq failed
        /\ outbox' = [outbox EXCEPT ![m] = [name |-> "new", marked |-> TRUE]]
        /\ UNCHANGED <<spool, server, job>>
    BY <1>24 DEF DragBack, UserActs
  <2>2. AtMostOnce' /\ (\A n \in Message, w \in BOOLEAN : Total(n, w)' = Total(n, w))
    BY <1>24, <2>1 DEF OnceInv, AtMostOnce, Total
  <2>3. job.stage = "resubmit" => job'.cancel = (Mine'.pending > 0)
    BY <1>24, <2>1 DEF OnceInv, Mine
  <2>4. OnceInv'
    BY <1>24, <2>1, <2>2, <2>3 DEF OnceInv
  <2> QED BY <1>24, <2>1, <2>2, <2>3, <2>4
<1>25. ASSUME NEW m \in Message, DiscardFailed(m)
      PROVE  OnceInv'
  <2>1. Calm
    BY <1>25 DEF Calm, DiscardFailed, UserActs
  <2> QED BY <1>25, <2>1, OnceIdle
<1>26. ASSUME NEW m \in Message, NEW marked \in BOOLEAN, Release(m, marked)
      PROVE  OnceInv'
  <2>1. /\ server[m][marked].pending > 0 /\ outbox[m] = NoFile /\ m \notin failed /\ job.m # m
        /\ UNCHANGED <<outbox, failed, spool, job>>
    BY <1>26 DEF Release
  <2>2. m \in Later
    BY <1>26, <2>1, CopyType DEF OnceInv, Copy
  <2>3. \A n \in Message, w \in BOOLEAN : Total(n, w)' = Total(n, w)
    BY <1>26, ReleaseIs
  <2>4. \A n \in Message, w \in BOOLEAN : server'[n][w].in = server[n][w].in
    BY <1>26, ReleaseIs
  <2>5. \A n \in Message, w \in BOOLEAN : n # m => server'[n][w] = server[n][w]
    BY <1>26, ReleaseIs
  <2>6. AtMostOnce'
    BY <1>26, <2>3 DEF OnceInv, AtMostOnce, Total
  <2>7. job.stage = "resubmit" => job.m \in Message /\ job.file.marked \in BOOLEAN
    BY <1>26
  <2>8. job.stage = "resubmit" => job'.cancel = (Mine'.pending > 0)
    BY <1>26, <2>1, <2>5, <2>7 DEF OnceInv, Mine
  <2>9. OnceInv'
    BY <1>26, <2>1, <2>2, <2>3, <2>4, <2>5, <2>6, <2>8 DEF OnceInv
  <2> QED BY <1>26, <2>1, <2>2, <2>3, <2>4, <2>5, <2>6, <2>7, <2>8, <2>9
<1>27. CASE Crash
  <2>1. Calm
    BY <1>27, SendAssumption DEF Calm, Crash, Free
  <2> QED BY <1>27, <2>1, OnceIdle
<1>28. CASE UNCHANGED vars
  BY <1>28 DEF vars, OnceInv, AtMostOnce, Total, Mine
<1> QED BY <1>1, <1>2, <1>3, <1>4, <1>5, <1>6, <1>7, <1>8, <1>9, <1>10, <1>11,
           <1>12, <1>13, <1>14, <1>15, <1>16, <1>17, <1>18, <1>19, <1>20,
           <1>21, <1>22, <1>23, <1>24, <1>25, <1>26, <1>27, <1>28
           DEF Next, Daemon, Others

LEMMA OnceInit == Init => OnceInv
<1> SUFFICES ASSUME Init PROVE OnceInv
  OBVIOUS
<1>1. \A m \in Message, w \in BOOLEAN :
        server[m][w].in = "none" /\ server[m][w].pending = 0 /\ server[m][w].final = 0
  BY DEF Init, NoCopy
<1>2. job.stage = "idle"
  BY DEF Init, Free
<1> QED BY <1>1, <1>2 DEF OnceInv, AtMostOnce, Total

LEMMA OnceAlways == ASSUME ~EarlyRelease PROVE Spec => []OnceInv
<1>1. Inv /\ Inv' /\ KeepInv /\ OnceInv /\ [Next]_vars => OnceInv'
  BY OnceNext
<1> QED BY <1>1, InvAlways, KeepAlways, OnceInit, PTL DEF Spec

\* However often an attempt is repeated after a lost answer, a crash or a
\* drag-back, the server ends up with at most one submission of the same bytes.
THEOREM SubmittedOnce == ASSUME ~EarlyRelease PROVE Spec => []AtMostOnce
<1>1. OnceInv => AtMostOnce
  BY DEF OnceInv
<1> QED BY <1>1, OnceAlways, PTL

(***************************************************************************)
(* Delivery is implemented                                                 *)
(***************************************************************************)
\* Nothing Delivery can see.
Same ==
    /\ UNCHANGED <<server, removed, failed>>
    /\ \A m \in Message : /\ outbox'[m] = NoFile <=> outbox[m] = NoFile
                          /\ spool'[m] = "unqueued" <=> spool[m] = "unqueued"

\* The step is one of Delivery or none.
Matched == Promise!Next \/ UNCHANGED Promise!vars

LEMMA SameIs == ASSUME Same PROVE Matched
<1>1. Queued' = Queued /\ Kept' = Kept
  BY DEF Same, Queued, Kept
<1>2. Held' = Held /\ Out' = Out
  BY DEF Same, Held, Out
<1> QED BY <1>1, <1>2 DEF Same, Matched, Promise!vars

LEMMA PlaceSame ==
    ASSUME UNCHANGED <<outbox, failed, spool, removed>>
    PROVE  UNCHANGED <<Queued, Kept, removed>>
BY DEF Queued, Kept

Put(m, w, c) == server' = [server EXCEPT ![m][w] = c]

\* One copy changes, and with it its two counters.
LEMMA HeldIs ==
    ASSUME TypeOK, NEW n \in Message, NEW v \in BOOLEAN, NEW c \in Copy, Put(n, v, c)
    PROVE  /\ Held' = [Held EXCEPT ![n][v] = c.pending]
           /\ Out' = [Out EXCEPT ![n][v] = c.final]
<1> USE DEF Put
<1>1. server' \in [Message -> [BOOLEAN -> Copy]]
  BY DEF TypeOK
<1>2. \A m \in Message : /\ Held'[m] = [Held EXCEPT ![n][v] = c.pending][m]
                         /\ Out'[m] = [Out EXCEPT ![n][v] = c.final][m]
  <2> TAKE m \in Message
  <2>1. CASE m = n
    BY <2>1 DEF Held, Out, TypeOK
  <2>2. CASE m # n
    BY <2>2 DEF Held, Out, TypeOK
  <2> QED BY <2>1, <2>2
<1>3. Held' = [Held EXCEPT ![n][v] = c.pending]
  BY <1>2 DEF Held
<1>4. Out' = [Out EXCEPT ![n][v] = c.final]
  BY <1>2 DEF Out
<1> QED BY <1>3, <1>4

LEMMA HeldType ==
    ASSUME TypeOK
    PROVE  /\ Held \in [Message -> [BOOLEAN -> Nat]] /\ Out \in [Message -> [BOOLEAN -> Nat]]
           /\ \A m \in Message, w \in BOOLEAN :
                Held[m][w] = server[m][w].pending /\ Out[m][w] = server[m][w].final
BY DEF TypeOK, Held, Out, Copy

LEMMA Becoming ==
    ASSUME TypeOK, JobOK, job.stage # "idle", NEW c \in Copy, Becomes(c),
           NEW m \in Message, NEW w \in BOOLEAN, m = job.m, w = job.file.marked
    PROVE  /\ Held' = [Held EXCEPT ![m][w] = c.pending]
           /\ Out' = [Out EXCEPT ![m][w] = c.final]
           /\ Held[m][w] = Mine.pending
           /\ Out[m][w] = Mine.final
<1>1. Held[m][w] = Mine.pending /\ Out[m][w] = Mine.final
  BY HeldType DEF Mine
<1>2. Put(m, w, c)
  BY DEF Put, Becomes
<1> QED BY <1>1, <1>2, HeldIs

LEMMA Overwritten ==
    ASSUME NEW f \in [Message -> [BOOLEAN -> Nat]], NEW n \in Message, NEW v \in BOOLEAN,
           NEW x, x = f[n][v]
    PROVE  [f EXCEPT ![n][v] = x] = f
OBVIOUS

\* The copy job.m is about becomes c, which counts as it does.
LEMMA Unmoved ==
    ASSUME TypeOK, JobOK, job.stage # "idle", NEW c \in Copy, Becomes(c),
           NEW m \in Message, NEW w \in BOOLEAN, m = job.m, w = job.file.marked,
           UNCHANGED <<outbox, failed, spool, removed>>,
           c.pending = Mine.pending, c.final = Mine.final
    PROVE  Matched
<1>1. /\ Held' = [Held EXCEPT ![m][w] = c.pending] /\ c.pending = Held[m][w]
      /\ Out' = [Out EXCEPT ![m][w] = c.final] /\ c.final = Out[m][w]
  BY Becoming
<1>2. Held \in [Message -> [BOOLEAN -> Nat]] /\ Out \in [Message -> [BOOLEAN -> Nat]]
  BY HeldType
<1>3. Held' = Held
  <2>1. [Held EXCEPT ![m][w] = c.pending] = Held
    BY <1>1, <1>2, Overwritten
  <2> QED BY <1>1, <2>1
<1>4. Out' = Out
  <2>1. [Out EXCEPT ![m][w] = c.final] = Out
    BY <1>1, <1>2, Overwritten
  <2> QED BY <1>1, <2>1
<1> QED BY <1>3, <1>4, PlaceSame DEF Matched, Promise!vars

\* The copy after its first submission.
First(m, c) ==
    /\ c.pending = IF m \in Later THEN 1 ELSE 0
    /\ c.final = IF m \in Later THEN 0 ELSE 1

LEMMA Accepting ==
    ASSUME TypeOK, JobOK, job.stage # "idle", NEW c \in Copy, Becomes(c), KeepInv,
           NEW m \in Message, NEW w \in BOOLEAN, m = job.m, w = job.file.marked,
           UNCHANGED <<outbox, failed, spool, removed>>,
           Mine.pending = 0, Mine.final = 0, First(m, c)
    PROVE  Matched
<1> USE DEF First
<1>1. m \in Queued
  BY DEF KeepInv, Queued
<1>2. /\ Held' = [Held EXCEPT ![m][w] = c.pending] /\ Held[m][w] = 0
      /\ Out' = [Out EXCEPT ![m][w] = c.final] /\ Out[m][w] = 0
  BY Becoming
<1>3. CASE m \in Later
  <2>1. Out' = Out /\ Held' = [Held EXCEPT ![m][w] = 1]
    BY <1>2, <1>3, HeldType
  <2>2. Promise!Accept(m, w)
    BY <1>1, <1>2, <1>3, <2>1, PlaceSame DEF Promise!Accept, Promise!custody
  <2> QED BY <2>2 DEF Matched, Promise!Next, Promise!Wording
<1>4. CASE m \notin Later
  <2>1. Held' = Held /\ Out' = [Out EXCEPT ![m][w] = 1]
    BY <1>2, <1>4, HeldType
  <2>2. Promise!Accept(m, w)
    BY <1>1, <1>2, <1>4, <2>1, PlaceSame DEF Promise!Accept, Promise!custody
  <2> QED BY <2>2 DEF Matched, Promise!Next, Promise!Wording
<1> QED BY <1>3, <1>4

LEMMA Withdrawing ==
    ASSUME TypeOK, JobOK, job.stage # "idle", NEW c \in Copy, Becomes(c), KeepInv,
           NEW m \in Message, NEW w \in BOOLEAN, m = job.m, w = job.file.marked,
           UNCHANGED <<outbox, failed, spool, removed>>, job.stage \in Holding,
           Mine.pending > 0, c.pending = 0, c.final = Mine.final
    PROVE  Matched
<1>1. m \in Kept \cup removed
  BY DEF KeepInv, Kept
<1>2. /\ Held' = [Held EXCEPT ![m][w] = 0] /\ Held[m][w] > 0
      /\ Out' = [Out EXCEPT ![m][w] = c.final] /\ Out[m][w] = c.final
  BY Becoming
<1>3. Out' = Out
  BY <1>2, HeldType
<1> QED BY <1>1, <1>2, <1>3, PlaceSame
        DEF Matched, Promise!Next, Promise!Wording, Promise!Withdraw, Promise!custody

Emptied(m) ==
    /\ outbox' = [outbox EXCEPT ![m] = NoFile]
    /\ UNCHANGED <<server, removed, spool, failed>>

LEMMA LettingGo ==
    ASSUME TypeOK, NEW m \in Message, Emptied(m),
           Accepted(m) \/ m \in removed \/ m \in failed
    PROVE  Matched
<1> USE DEF Emptied
<1>1. Queued' = Queued /\ Held' = Held /\ Out' = Out
  BY DEF Queued, Held, Out
<1>2. CASE m \in failed
  <2>1. Kept' = Kept
    BY <1>2 DEF Kept, TypeOK
  <2> QED BY <1>1, <2>1 DEF Matched, Promise!vars
<1>3. CASE m \notin failed
  <2>1. Kept' = Kept \ {m}
    BY <1>3 DEF Kept, TypeOK
  <2>2. Promise!Accepted(m) \/ m \in removed
    BY <1>3, HeldType DEF Promise!Accepted, Promise!Wording, Accepted
  <2>3. Promise!LetGo(m)
    BY <1>1, <2>1, <2>2 DEF Promise!LetGo
  <2> QED BY <2>3 DEF Matched, Promise!Next
<1> QED BY <1>2, <1>3

LEMMA MatchNext == ~EarlyRelease /\ Inv /\ KeepInv /\ OnceInv /\ [Next]_vars => Matched
<1> SUFFICES ASSUME ~EarlyRelease, Inv, KeepInv, OnceInv, [Next]_vars PROVE Matched
  OBVIOUS
<1> TypeOK /\ JobOK
  BY DEF Inv
<1> /\ outbox \in [Message -> File \cup {NoFile}]
    /\ failed \subseteq Message
    /\ server \in [Message -> [BOOLEAN -> Copy]]
    /\ spool \in [Message -> {"unqueued", "filed", "done"}]
    /\ job \in Job
  BY DEF TypeOK
<1> job.stage # "idle" => /\ job.m \in Message
                         /\ job.file \in File /\ job.file.marked \in BOOLEAN
  BY DEF JobOK, File
<1> USE DEF disk, history
<1>1. CASE Scan \/ Watch \/ DrainDue
  <2>1. Same
    BY <1>1 DEF Same, Scan, Watch, DrainDue
  <2> QED BY <1>1, <2>1, SameIs
<1>2. CASE HandleDragBack
  <2>1. Same
    BY <1>2, FileIs DEF Same, HandleDragBack
  <2> QED BY <1>2, <2>1, SameIs
<1>3. CASE HandleQueued \/ HandleGone \/ HandleFailedRemove \/
          \E side \in {"Outbox", "Failed"} : HandleFrom(side)
  <2>1. Same
    BY <1>3 DEF Same, HandleQueued, HandleGone, HandleFailedRemove, HandleFrom
  <2> QED BY <1>3, <2>1, SameIs
<1>4. CASE SaveInFlight
  <2>1. Same
    BY <1>4 DEF Same, SaveInFlight
  <2> QED BY <1>4, <2>1, SameIs
<1>5. CASE Upload \/ AlreadyExists
  <2>1. Same
    BY <1>5 DEF Same, Upload, AlreadyExists
  <2> QED BY <1>5, <2>1, SameIs
<1>6. CASE QueryState
  <2>1. Same
    BY <1>6 DEF Same, QueryState
  <2> QED BY <1>6, <2>1, SameIs
<1>7. CASE RequestFails
  <2>1. Same
    BY <1>7 DEF Same, RequestFails
  <2> QED BY <1>7, <2>1, SameIs
<1>8. CASE ImportAndSubmit
  <2>1. /\ job.stage = "import" /\ Mine.in = "none" /\ Mine \in Copy
        /\ UNCHANGED <<outbox, failed, spool, removed>>
    BY <1>8, MineType DEF ImportAndSubmit
  <2>2. PICK m \in Message, w \in BOOLEAN : m = job.m /\ w = job.file.marked
    BY <1>8, <2>1
  <2>3. Mine.pending = 0 /\ Mine.final = 0
    BY <1>8, <2>1, <2>2 DEF OnceInv, Total, Copy, Mine
  <2>4. PICK c \in Copy : c = Submitted(job.m, Mine, FALSE)
    BY <1>8, <2>1, <2>2, SubmittedType
  <2>5. PICK d \in Copy : d = [Mine EXCEPT !.in = "drafts"]
    BY <1>8, <2>1 DEF Copy
  <2>6. First(m, c) /\ d.pending = Mine.pending /\ d.final = Mine.final
    BY <1>8, <2>1, <2>2, <2>3, <2>4, <2>5 DEF First, Submitted, Copy
  <2>7. Becomes(c) \/ Becomes(d)
    BY <1>8, <2>4, <2>5 DEF ImportAndSubmit, Becomes
  <2>8. CASE Becomes(c)
    BY <1>8, <2>1, <2>2, <2>3, <2>6, <2>8, Accepting
  <2>9. CASE Becomes(d)
    BY <1>8, <2>1, <2>2, <2>6, <2>9, Unmoved
  <2> QED BY <1>8, <2>1, <2>2, <2>3, <2>4, <2>5, <2>6, <2>7, <2>8, <2>9
<1>9. CASE Resubmit
  <2>1. /\ job.stage = "resubmit" /\ Mine \in Copy /\ job.cancel \in BOOLEAN
        /\ UNCHANGED <<outbox, failed, spool, removed>>
    BY <1>9, MineType DEF Resubmit, Job
  <2>2. PICK m \in Message, w \in BOOLEAN : m = job.m /\ w = job.file.marked
    BY <1>9, <2>1
  <2>3. /\ Mine.final = 0 /\ (IF job.cancel THEN 0 ELSE Mine.pending) = 0
        /\ job.cancel => Mine.pending = 1 /\ m \in Later
        /\ ~job.cancel => Mine.pending = 0
    BY <1>9, <2>1, <2>2 DEF OnceInv, KeepInv, AtMostOnce, Copy, Mine
  <2>4. PICK c \in Copy : c = Submitted(job.m, Mine, job.cancel)
    BY <1>9, <2>1, <2>2, SubmittedType
  <2>5. PICK d \in Copy : d = [Mine EXCEPT !.pending = 0]
    BY <1>9, <2>1 DEF Copy
  <2>6. First(m, c) /\ d.pending = 0 /\ d.final = Mine.final
    BY <1>9, <2>1, <2>2, <2>3, <2>4, <2>5 DEF First, Submitted, Copy
  <2>7. Becomes(c) \/ (job.cancel /\ Becomes(d))
    BY <1>9, <2>4, <2>5 DEF Resubmit, Becomes
  <2>8. CASE Becomes(c) /\ ~job.cancel
    BY <1>9, <2>1, <2>2, <2>3, <2>6, <2>8, Accepting
  <2>9. CASE Becomes(c) /\ job.cancel
    BY <1>9, <2>1, <2>2, <2>3, <2>6, <2>9, Unmoved DEF First
  <2>10. CASE Becomes(d) /\ job.cancel
    BY <1>9, <2>1, <2>2, <2>3, <2>6, <2>10, Withdrawing DEF Holding
  <2> QED BY <1>9, <2>1, <2>2, <2>3, <2>4, <2>5, <2>6, <2>7, <2>8, <2>9, <2>10
<1>10. CASE Succeed \/ UnlinkSource
  <2>1. /\ UNCHANGED <<server, removed, spool, failed>>
        /\ outbox' = [outbox EXCEPT ![job.m] = NoFile] \/ outbox' = outbox
    BY <1>10 DEF Succeed, UnlinkSource, RemoveRead
  <2>2. PICK m \in Message : m = job.m
    BY <1>10 DEF Succeed, UnlinkSource
  <2>3. Accepted(m) \/ m \in removed \/ m \in failed
    BY <1>10, <2>2 DEF Succeed, UnlinkSource, KeepInv
  <2>4. outbox' = outbox => Same
    BY <1>10, <2>1 DEF Succeed, UnlinkSource, Same
  <2>5. outbox' # outbox => Emptied(m)
    BY <1>10, <2>1, <2>2 DEF Emptied
  <2> QED BY <1>10, <2>1, <2>2, <2>3, <2>4, <2>5, SameIs, LettingGo
<1>11. CASE SaveBackoff
  <2>1. Same
    BY <1>11 DEF Same, SaveBackoff
  <2> QED BY <1>11, <2>1, SameIs
<1>12. CASE WaitOver
  <2>1. Same
    BY <1>12 DEF Same, WaitOver
  <2> QED BY <1>12, <2>1, SameIs
<1>13. CASE MoveToFailed
  <2>1. /\ job.m \in Message /\ outbox[job.m] # NoFile /\ failed' = failed \cup {job.m}
        /\ UNCHANGED <<outbox, server, spool, removed>>
    BY <1>13 DEF MoveToFailed, InPlace, CopyToFailed
  <2>2. /\ Queued' = Queued /\ Kept' = Kept
        /\ Held' = Held /\ Out' = Out
    BY <1>13, <2>1 DEF Queued, Kept, Held, Out
  <2>3. UNCHANGED Promise!vars
    BY <1>13, <2>1, <2>2 DEF Promise!vars
  <2> QED BY <1>13, <2>1, <2>2, <2>3 DEF Matched
<1>14. CASE MoveFails
  <2>1. Same
    BY <1>14 DEF Same, MoveFails
  <2> QED BY <1>14, <2>1, SameIs
<1>15. CASE Forget
  <2>1. Same
    BY <1>15 DEF Same, Forget
  <2> QED BY <1>15, <2>1, SameIs
<1>16. ASSUME NEW m \in Message, Begin(m)
      PROVE  Matched
  <2>1. Same
    BY <1>16 DEF Same, Begin
  <2> QED BY <1>16, <2>1, SameIs
<1>17. ASSUME NEW m \in Message, Vanished(m)
      PROVE  Matched
  <2>1. Same
    BY <1>17 DEF Same, Vanished
  <2> QED BY <1>17, <2>1, SameIs
<1>18. ASSUME NEW m \in Message, ComesDue(m)
      PROVE  Matched
  <2>1. Same
    BY <1>18 DEF Same, ComesDue
  <2> QED BY <1>18, <2>1, SameIs
<1>19. ASSUME NEW m \in Message, ExpireRename(m)
      PROVE  Matched
  <2>1. Same
    BY <1>19 DEF Same, ExpireRename
  <2> QED BY <1>19, <2>1, SameIs
<1>20. ASSUME NEW m \in Message, QueueMessage(m)
      PROVE  Matched
  <2>1. /\ spool[m] = "unqueued" /\ spool' = [spool EXCEPT ![m] = "filed"]
        /\ outbox' = [outbox EXCEPT ![m] = [name |-> "new", marked |-> FALSE]]
        /\ UNCHANGED <<failed, server, removed>>
    BY <1>20 DEF QueueMessage
  <2>2. /\ Queued' = Queued \cup {m} /\ Kept' = Kept \cup {m} /\ m \notin Queued
        /\ Held' = Held /\ Out' = Out
    BY <1>20, <2>1, FileIs DEF Queued, Kept, Held, Out
  <2>3. Promise!Queue(m)
    BY <1>20, <2>1, <2>2 DEF Promise!Queue
  <2> QED BY <1>20, <2>1, <2>2, <2>3 DEF Matched, Promise!Next
<1>21. ASSUME NEW m \in Message, QueueSidecar(m)
      PROVE  Matched
  <2>1. Same
    BY <1>21 DEF Same, QueueSidecar
  <2> QED BY <1>21, <2>1, SameIs
<1>22. ASSUME NEW m \in Message, RenameQueued(m)
      PROVE  Matched
  <2>1. Same
    BY <1>22, FileIs DEF Same, RenameQueued, UserActs
  <2> QED BY <1>22, <2>1, SameIs
<1>23. ASSUME NEW m \in Message, DeleteQueued(m)
      PROVE  Matched
  <2>1. /\ outbox[m] # NoFile /\ outbox' = [outbox EXCEPT ![m] = NoFile]
        /\ removed' = removed \cup {m} /\ UNCHANGED <<failed, server, spool>>
    BY <1>23 DEF DeleteQueued, UserActs
  <2>2. /\ Queued' = Queued /\ m \in Kept /\ Kept' \in {Kept, Kept \ {m}}
        /\ Held' = Held /\ Out' = Out
    BY <1>23, <2>1 DEF Queued, Kept, Held, Out
  <2>3. Promise!Drop(m)
    BY <1>23, <2>1, <2>2 DEF Promise!Drop
  <2> QED BY <1>23, <2>1, <2>2, <2>3 DEF Matched, Promise!Next
<1>24. ASSUME NEW m \in Message, DragBack(m)
      PROVE  Matched
  <2>1. /\ m \in failed /\ failed' = failed \ {m}
        /\ outbox' = [outbox EXCEPT ![m] = [name |-> "new", marked |-> TRUE]]
        /\ UNCHANGED <<spool, server, removed>>
    BY <1>24 DEF DragBack, UserActs
  <2>2. /\ Queued' = Queued /\ Kept' = Kept
        /\ Held' = Held /\ Out' = Out
    BY <1>24, <2>1, FileIs DEF Queued, Kept, Held, Out
  <2>3. UNCHANGED Promise!vars
    BY <1>24, <2>1, <2>2 DEF Promise!vars
  <2> QED BY <1>24, <2>1, <2>2, <2>3 DEF Matched
<1>25. ASSUME NEW m \in Message, DiscardFailed(m)
      PROVE  Matched
  <2>1. /\ m \in failed /\ failed' = failed \ {m}
        /\ removed' = removed \cup {m} /\ UNCHANGED <<outbox, server, spool>>
    BY <1>25 DEF DiscardFailed, UserActs
  <2>2. /\ Queued' = Queued /\ m \in Kept /\ Kept' \in {Kept, Kept \ {m}}
        /\ Held' = Held /\ Out' = Out
    BY <1>25, <2>1 DEF Queued, Kept, Held, Out
  <2>3. Promise!Drop(m)
    BY <1>25, <2>1, <2>2 DEF Promise!Drop
  <2> QED BY <1>25, <2>1, <2>2, <2>3 DEF Matched, Promise!Next
<1>26. ASSUME NEW m \in Message, NEW marked \in BOOLEAN, Release(m, marked)
      PROVE  Matched
  <2>1. /\ server[m][marked].pending > 0 /\ UNCHANGED <<outbox, failed, spool, removed>>
    BY <1>26 DEF Release
  <2>2. server[m][marked] \in Copy
    BY <1>26, CopyType
  <2>3. server[m][marked].pending - 1 \in Nat /\ server[m][marked].final + 1 \in Nat
    BY <1>26, <2>1, <2>2 DEF Copy
  <2>4. PICK c \in Copy : c = [server[m][marked] EXCEPT !.pending = @ - 1, !.final = @ + 1]
    BY <1>26, <2>2, <2>3 DEF Copy
  <2>5. /\ Put(m, marked, c) /\ c.pending = server[m][marked].pending - 1
        /\ c.final = server[m][marked].final + 1
    BY <1>26, <2>2, <2>4 DEF Release, Put, Copy
  <2>6. /\ Held' = [Held EXCEPT ![m][marked] = c.pending] /\ c.pending = Held[m][marked] - 1
        /\ Out' = [Out EXCEPT ![m][marked] = c.final] /\ c.final = Out[m][marked] + 1
        /\ Held[m][marked] > 0
    BY <1>26, <2>1, <2>5, HeldIs, HeldType
  <2>7. Promise!Release(m, marked)
    BY <1>26, <2>6, PlaceSame, <2>1 DEF Promise!Release, Promise!custody
  <2> QED BY <1>26, <2>1, <2>2, <2>3, <2>4, <2>5, <2>6, <2>7 DEF Matched, Promise!Next, Promise!Wording
<1>27. CASE Crash
  <2>1. Same
    BY <1>27 DEF Same, Crash
  <2> QED BY <1>27, <2>1, SameIs
<1>28. CASE UNCHANGED vars
  BY <1>28, SameIs DEF vars, Same
<1> QED BY <1>1, <1>2, <1>3, <1>4, <1>5, <1>6, <1>7, <1>8, <1>9, <1>10, <1>11,
           <1>12, <1>13, <1>14, <1>15, <1>16, <1>17, <1>18, <1>19, <1>20,
           <1>21, <1>22, <1>23, <1>24, <1>25, <1>26, <1>27, <1>28
           DEF Next, Daemon, Others

LEMMA MatchInit == Init => Promise!Init
<1> SUFFICES ASSUME Init PROVE Promise!Init
  OBVIOUS
<1>1. Queued = {} /\ Kept = {} /\ removed = {}
  BY DEF Init, Queued, Kept
<1>2. \A m \in Message, w \in BOOLEAN : server[m][w].pending = 0 /\ server[m][w].final = 0
  BY DEF Init, NoCopy
<1>3. /\ Held = [m \in Message |-> [w \in BOOLEAN |-> 0]]
      /\ Out = [m \in Message |-> [w \in BOOLEAN |-> 0]]
  BY <1>2 DEF Held, Out
<1> QED BY <1>1, <1>3 DEF Promise!Init, Promise!Wording

\* Every step of jmapqueue, the daemon, the user and the server is a step that
\* Delivery allows, or one it does not see: the daemon lets go of a message only
\* when it is accepted or dropped, and submits it anew only when no submission
\* of it is left.
THEOREM SubmitImplementsDelivery == ASSUME ~EarlyRelease PROVE Spec => DeliveryKept
<1>1. Inv /\ KeepInv /\ OnceInv /\ [Next]_vars => [Promise!Next]_(Promise!vars)
  BY MatchNext DEF Matched
<1>2. Spec => []OnceInv
  BY OnceAlways
<1> QED BY <1>1, <1>2, MatchInit, InvAlways, KeepAlways, PTL
        DEF Spec, DeliveryKept, Promise!Spec

===============================================================================
