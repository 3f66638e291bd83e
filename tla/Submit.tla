-------------------------------- MODULE Submit --------------------------------
(***************************************************************************)
(* The send path of one account: jmapqueue files a message in Outbox/new   *)
(* and then writes a sidecar with its envelope; the daemon's submit loop   *)
(* (src/src/daemon/submit.rs) watches Outbox and Failed, keeps a schedule  *)
(* of attempts and takes one message at a time through upload, import and  *)
(* submission.  What survives a crash is on disk (messages, sidecars) and  *)
(* on the server; schedule, pending renames and watch events do not.  The  *)
(* user's mail client renames, deletes and drags messages back meanwhile.  *)
(*                                                                         *)
(* The set known_failures of the code is left out: nothing reads it.       *)
(***************************************************************************)
EXTENDS Naturals, Sequences, FiniteSets

CONSTANTS
    Message,    \* base names in Outbox and Failed
    Later,      \* those whose sidecar has a send_at
    OwnFolder,  \* are scheduled sends filed elsewhere than in Sent?
    NoFile, NoSidecar, NoMessage

CONSTANTS       \* bounds on the environment
    MaxFault,   \* requests without an answer, answers that ask for a retry, failed writes
    MaxRefusal, \* answers that refuse for good
    MaxCrash,
    MaxUser,    \* renames, deletions and drag-backs by the mail client
    LateSidecar,  \* may the daemon act between the two writes of jmapqueue?
    EarlyRelease \* may scheduled mail go out while it is still queued or failed here?

\* A message file; marked when it carries the X-JMAP-Failure headers.
File == [name : {"new", "cur"}, marked : BOOLEAN]
Sidecar == [envelope : BOOLEAN, retry : BOOLEAN, in_flight : BOOLEAN]
\* Mutant: no place for the retry state.
BareDefault == [envelope |-> FALSE, in_flight |-> FALSE]

Default == [envelope |-> FALSE, retry |-> FALSE, in_flight |-> FALSE]

\* An e-mail on the server, found again by its bytes; submissions of it that
\* may still be cancelled, and those that went out.
Copy == [in : {"none", "drafts", "sent", "scheduled"}, pending : Nat, final : Nat]
NoCopy == [in |-> "none", pending |-> 0, final |-> 0]

Event == [m : Message, side : {"Outbox", "Failed"},
          kind : {"create", "from", "remove"}, name : {"new", "cur"}]

ASSUME SendAssumption ==
    /\ Later \subseteq Message
    /\ OwnFolder \in BOOLEAN
    /\ NoFile \notin File /\ NoSidecar \notin Sidecar /\ NoMessage \notin Message

ASSUME BoundsAssumption ==
    /\ MaxFault \in Nat /\ MaxRefusal \in Nat /\ MaxCrash \in Nat /\ MaxUser \in Nat
    /\ LateSidecar \in BOOLEAN /\ EarlyRelease \in BOOLEAN

VARIABLES
    outbox,   \* the message's file in Outbox/{new,cur}
    failed,   \* messages with a file in Failed
    sidecar,  \* outbox-meta/<basename>.json
    server,   \* per message, without and with the failure headers
    spool,    \* how far jmapqueue has come with each message
    loop,     \* the submit loop: schedule, pending renames, events not handled yet
    job,      \* the attempt it is in
    spent,    \* how often each environment has acted
    removed,  \* history: messages the user deleted
    refused,  \* history: messages the server refused
    parked,   \* history: messages whose move to Failed failed
    missed    \* history: messages put into the Outbox between the last startup
              \* scan and the watch

vars == <<outbox, failed, sidecar, server, spool, loop, job, spent, removed, refused,
          parked, missed>>
disk == <<outbox, failed, sidecar>>
history == <<removed, refused, parked, missed>>

Stages == {"idle", "save", "upload", "import", "query", "resubmit",
           "success", "transient", "wait", "permanent", "unlink", "forget"}

Free == [stage |-> "idle", m |-> NoMessage, file |-> NoFile, sc |-> NoSidecar, cancel |-> FALSE]

Down == [up |-> "down", queue |-> [m \in Message |-> "none"], batch |-> {},
         pairs |-> [m \in Message |-> "none"], events |-> <<>>, slow |-> FALSE]

Loop == [up : {"down", "scanned", "up"}, queue : [Message -> {"none", "now", "later"}],
         batch : SUBSET Message, pairs : [Message -> {"none", "Outbox", "Failed"}],
         events : Seq(Event), slow : BOOLEAN]

Job == [stage : Stages, m : Message \cup {NoMessage}, file : File \cup {NoFile},
        sc : Sidecar \cup {NoSidecar}, cancel : BOOLEAN]

Spent == [fault : 0 .. MaxFault, refusal : 0 .. MaxRefusal,
          crash : 0 .. MaxCrash, user : 0 .. MaxUser]

TypeOK ==
    /\ outbox \in [Message -> File \cup {NoFile}]
    /\ failed \subseteq Message
    /\ sidecar \in [Message -> Sidecar \cup {NoSidecar}]
    /\ server \in [Message -> [BOOLEAN -> Copy]]
    /\ spool \in [Message -> {"unqueued", "filed", "done"}]
    /\ loop \in Loop
    /\ job \in Job
    /\ spent \in Spent
    /\ removed \subseteq Message /\ refused \subseteq Message
    /\ parked \subseteq Message /\ missed \subseteq Message

Init ==
    /\ outbox = [m \in Message |-> NoFile]
    /\ failed = {}
    /\ sidecar = [m \in Message |-> NoSidecar]
    /\ server = [m \in Message |-> [marked \in BOOLEAN |-> NoCopy]]
    /\ spool = [m \in Message |-> "unqueued"]
    /\ loop = Down
    /\ job = Free
    /\ spent = [fault |-> 0, refusal |-> 0, crash |-> 0, user |-> 0]
    /\ removed = {} /\ refused = {} /\ parked = {} /\ missed = {}

(***************************************************************************)
(* Watch events                                                            *)
(***************************************************************************)
Ev(m, side, kind, name) == [m |-> m, side |-> side, kind |-> kind, name |-> name]

\* The loop after the watch has reported evs; before it is set up it reports
\* nothing.
Reported(evs) == IF loop.up = "up" THEN [loop EXCEPT !.events = @ \o evs] ELSE loop

\* A rename within the watched directories is reported as From, To and Both;
\* classify_event makes a create of Both for either path, and the debounce
\* drops the one that To has just reported.
RenameEvents(m, from, old, to, new) ==
    <<Ev(m, from, "from", old), Ev(m, to, "create", new), Ev(m, from, "create", old)>>

(***************************************************************************)
(* Bring-up of run_account_submit_loop_inner: scan, then watch             *)
(***************************************************************************)
\* A recorded next_at may still be ahead; everything else is due at once.
Scan ==
    /\ loop.up = "down"
    /\ \E ahead \in SUBSET {m \in Message : sidecar[m] # NoSidecar /\ sidecar[m].retry} :
         loop' = [Down EXCEPT !.up = "scanned",
                              !.queue = [m \in Message |->
                                 CASE outbox[m] = NoFile -> "none"
                                   [] outbox[m] # NoFile /\ m \in ahead -> "later"
                                   [] outbox[m] # NoFile /\ m \notin ahead -> "now"]]
    /\ missed' = {}
    /\ UNCHANGED <<disk, server, spool, job, spent, removed, refused, parked>>

Watch ==
    /\ loop.up = "scanned"
    /\ loop' = [loop EXCEPT !.up = "up"]
    /\ UNCHANGED <<disk, server, spool, job, spent, history>>

(***************************************************************************)
(* The select loop: due attempts before events (biased)                    *)
(***************************************************************************)
Due == {m \in Message : loop.queue[m] = "now"}
AtSelect == loop.up = "up" /\ job = Free /\ loop.batch = {}

ComesDue(m) ==
    /\ loop.queue[m] = "later"
    /\ loop' = [loop EXCEPT !.queue[m] = "now"]
    /\ UNCHANGED <<disk, server, spool, job, spent, history>>

DrainDue ==
    /\ AtSelect
    /\ Due # {}
    /\ loop' = [loop EXCEPT !.batch = Due, !.slow = TRUE,
                            !.queue = [m \in Message |-> IF m \in Due THEN "none" ELSE @[m]]]
    /\ UNCHANGED <<disk, server, spool, job, spent, history>>

\* Mutant: the select is not biased.
Anytime == TRUE

EventsHaveTurn == Due = {}

\* The event at the head is handled: what is left of the loop.
Handled(queue, pairs, more) ==
    loop' = [loop EXCEPT !.events = Tail(@) \o more, !.queue = queue, !.pairs = pairs,
                         !.slow = FALSE]

Schedule(m, when) == [loop.queue EXCEPT ![m] = when]
Pair(m, side) == [loop.pairs EXCEPT ![m] = side]

Handling(side, kind) ==
    /\ AtSelect
    /\ EventsHaveTurn
    /\ loop.events # <<>>
    /\ Head(loop.events).side = side
    /\ Head(loop.events).kind = kind

\* The second half of a drag-back: strip_family2_headers_in_place, whose own
\* rename is reported unless the debounce drops it, and reset_sidecar_for_retry.
HandleDragBack ==
    LET ev == Head(loop.events)
        old == sidecar[ev.m]
        here == outbox[ev.m] # NoFile /\ outbox[ev.m].name = ev.name
        strips == here /\ outbox[ev.m].marked
    IN
    /\ Handling("Outbox", "create")
    /\ loop.pairs[ev.m] = "Failed"
    /\ outbox' = IF strips THEN [outbox EXCEPT ![ev.m].marked = FALSE] ELSE outbox
    /\ sidecar' = [sidecar EXCEPT ![ev.m] =
                     [envelope |-> old # NoSidecar /\ old.envelope,
                      retry |-> FALSE, in_flight |-> FALSE]]
    /\ \E more \in {<<>>} \cup (IF strips THEN {<<ev>>} ELSE {}) :
         Handled(Schedule(ev.m, "now"), Pair(ev.m, "none"), more)
    /\ UNCHANGED <<failed, server, spool, job, spent, history>>

HandleQueued ==
    LET m == Head(loop.events).m IN
    /\ Handling("Outbox", "create")
    /\ loop.pairs[m] # "Failed"
    /\ Handled(Schedule(m, "now"), Pair(m, "none"), <<>>)
    /\ UNCHANGED <<disk, server, spool, job, spent, history>>

HandleGone ==
    LET m == Head(loop.events).m IN
    /\ Handling("Outbox", "remove") \/ Handling("Failed", "create")
    /\ Handled(Schedule(m, "none"), loop.pairs, <<>>)
    /\ UNCHANGED <<disk, server, spool, job, spent, history>>

HandleFrom(side) ==
    LET m == Head(loop.events).m IN
    /\ Handling(side, "from")
    /\ Handled(loop.queue, Pair(m, side), <<>>)
    /\ UNCHANGED <<disk, server, spool, job, spent, history>>

HandleFailedRemove ==
    /\ Handling("Failed", "remove")
    /\ Handled(loop.queue, loop.pairs, <<>>)
    /\ UNCHANGED <<disk, server, spool, job, spent, history>>

\* expire_pending_renames: the other half did not come within the window, or
\* an attempt has taken longer than it.
ExpireRename(m) ==
    /\ AtSelect
    /\ loop.pairs[m] # "none"
    /\ loop.events = <<>> \/ loop.slow
    /\ loop' = [loop EXCEPT !.pairs[m] = "none"]
    /\ UNCHANGED <<disk, server, spool, job, spent, history>>

(***************************************************************************)
(* handle_submit_attempt                                                   *)
(***************************************************************************)
Done(m) == [loop EXCEPT !.batch = @ \ {m}]
Goto(stage) == job' = [job EXCEPT !.stage = stage]

Vanished(m) ==
    /\ job = Free
    /\ m \in loop.batch
    /\ outbox[m] = NoFile
    /\ sidecar' = [sidecar EXCEPT ![m] = NoSidecar]
    /\ loop' = Done(m)
    /\ UNCHANGED <<outbox, failed, server, spool, job, spent, history>>

\* SidecarState::load gives the default when there is no sidecar.
Begin(m) ==
    /\ job = Free
    /\ m \in loop.batch
    /\ outbox[m] # NoFile
    /\ job' = [stage |-> "save", m |-> m, file |-> outbox[m], cancel |-> FALSE,
               sc |-> IF sidecar[m] = NoSidecar THEN Default ELSE sidecar[m]]
    /\ UNCHANGED <<disk, server, spool, loop, spent, history>>

\* Mutant: the mark is written with the outcome only.
MarkNothing == UNCHANGED sidecar

MarkInFlight == sidecar' = [sidecar EXCEPT ![job.m] = [job.sc EXCEPT !.in_flight = TRUE]]

\* ... and submit_one turns down an empty envelope before anything else.
SaveInFlight ==
    /\ job.stage = "save"
    /\ MarkInFlight
    /\ Goto(IF job.sc.envelope THEN "upload" ELSE "permanent")
    /\ UNCHANGED <<outbox, failed, server, spool, loop, spent, history>>

(***************************************************************************)
(* The requests of submit_one and reconcile_after_import                   *)
(***************************************************************************)
Wire == {"upload", "import", "query", "resubmit"}
Mine == server[job.m][job.file.marked]
Becomes(copy) == server' = [server EXCEPT ![job.m][job.file.marked] = copy]

Target(m) == IF m \in Later /\ OwnFolder THEN "scheduled" ELSE "sent"

\* A submission accepted for the copy c, the pending ones destroyed or not.
Submitted(m, c, cancel) ==
    LET left == IF cancel THEN 0 ELSE c.pending
    IN  [in |-> Target(m),
         pending |-> IF m \in Later THEN left + 1 ELSE left,
         final |-> IF m \in Later THEN c.final ELSE c.final + 1]

\* Mutant: a copy in Sent is submitted once more.
NeverDone(c) == FALSE

\* Mutant: a copy anywhere is taken for one that was submitted.
SomewhereThere(c) == c.in # "none"

\* reconcile_action
AlreadyDone(c) == c.in = "sent"

Fault ==
    /\ spent.fault < MaxFault
    /\ spent' = [spent EXCEPT !.fault = @ + 1]
    /\ Goto("transient")
    /\ UNCHANGED refused

Refusal ==
    /\ spent.refusal < MaxRefusal
    /\ spent' = [spent EXCEPT !.refusal = @ + 1]
    /\ refused' = refused \cup {job.m}
    /\ Goto("permanent")

Answer(stage) == Goto(stage) /\ UNCHANGED <<spent, refused>>

RequestFails ==
    /\ job.stage \in Wire
    /\ Fault \/ Refusal
    /\ UNCHANGED <<disk, server, spool, loop, removed, parked, missed>>

Upload ==
    /\ job.stage = "upload"
    /\ Answer("import")
    /\ UNCHANGED <<disk, server, spool, loop, removed, parked, missed>>

\* Email/import and EmailSubmission/set in one request; the reply may be lost.
ImportAndSubmit ==
    /\ job.stage = "import"
    /\ Mine.in = "none"
    /\ \/ Becomes(Submitted(job.m, Mine, FALSE)) /\ (Answer("success") \/ Fault)
       \/ Becomes([Mine EXCEPT !.in = "drafts"]) /\ (Fault \/ Refusal)
    /\ UNCHANGED <<disk, spool, loop, removed, parked, missed>>

AlreadyExists ==
    /\ job.stage = "import"
    /\ Mine.in # "none"
    /\ Answer("query")
    /\ UNCHANGED <<disk, server, spool, loop, removed, parked, missed>>

QueryState ==
    /\ job.stage = "query"
    /\ job' = [job EXCEPT !.stage = IF AlreadyDone(Mine) THEN "success" ELSE "resubmit",
                          !.cancel = Mine.pending > 0]
    /\ UNCHANGED <<disk, server, spool, loop, spent, history>>

\* execute_reconciled_submission: destroy comes before create.
Resubmit ==
    /\ job.stage = "resubmit"
    /\ \/ Becomes(Submitted(job.m, Mine, job.cancel)) /\ (Answer("success") \/ Fault)
       \/ job.cancel /\ Becomes([Mine EXCEPT !.pending = 0]) /\ Refusal
    /\ UNCHANGED <<disk, spool, loop, removed, parked, missed>>

(***************************************************************************)
(* The three outcomes                                                      *)
(***************************************************************************)
\* The file is still where it was read.
InPlace == outbox[job.m] # NoFile /\ outbox[job.m].name = job.file.name

\* remove_file on the path read before; an error is ignored.
RemoveRead ==
    IF InPlace
    THEN /\ outbox' = [outbox EXCEPT ![job.m] = NoFile]
         /\ loop' = Reported(<<Ev(job.m, "Outbox", "remove", job.file.name)>>)
    ELSE UNCHANGED <<outbox, loop>>

Succeed ==
    /\ job.stage = "success"
    /\ RemoveRead
    /\ Goto("forget")
    /\ UNCHANGED <<failed, sidecar, server, spool, spent, history>>

SaveBackoff ==
    /\ job.stage = "transient"
    /\ sidecar' = [sidecar EXCEPT ![job.m] =
                     [job.sc EXCEPT !.retry = TRUE, !.in_flight = FALSE]]
    /\ Goto("wait")
    /\ UNCHANGED <<outbox, failed, server, spool, loop, spent, history>>

\* The delay is waited for on the spot: no event is handled meanwhile.
WaitOver ==
    /\ job.stage = "wait"
    /\ job' = Free
    /\ loop' = [Done(job.m) EXCEPT !.queue[job.m] = "now"]
    /\ UNCHANGED <<disk, server, spool, spent, history>>

\* Mutant: the source goes first.
UnlinkFirst ==
    /\ RemoveRead
    /\ UNCHANGED failed

\* move_to_failed_atomic as far as the rename into Failed/new.
CopyToFailed ==
    /\ failed' = failed \cup {job.m}
    /\ loop' = Reported(<<Ev(job.m, "Failed", "create", "new")>>)
    /\ UNCHANGED outbox

MoveToFailed ==
    /\ job.stage = "permanent"
    /\ InPlace
    /\ CopyToFailed
    /\ Goto("unlink")
    /\ UNCHANGED <<sidecar, server, spool, spent, history>>

UnlinkSource ==
    /\ job.stage = "unlink"
    /\ RemoveRead
    /\ Goto("forget")
    /\ UNCHANGED <<failed, sidecar, server, spool, spent, history>>

MoveFails ==
    /\ job.stage = "permanent"
    /\ \/ ~InPlace /\ UNCHANGED <<spent, parked>>
       \/ /\ InPlace
          /\ spent.fault < MaxFault
          /\ spent' = [spent EXCEPT !.fault = @ + 1]
          /\ parked' = parked \cup {job.m}
    /\ Goto("forget")
    /\ UNCHANGED <<disk, server, spool, loop, removed, refused, missed>>

Forget ==
    /\ job.stage = "forget"
    /\ sidecar' = [sidecar EXCEPT ![job.m] = NoSidecar]
    /\ job' = Free
    /\ loop' = Done(job.m)
    /\ UNCHANGED <<outbox, failed, server, spool, spent, history>>

Crash ==
    /\ loop.up # "down"
    /\ spent.crash < MaxCrash
    /\ spent' = [spent EXCEPT !.crash = @ + 1]
    /\ loop' = Down
    /\ job' = Free
    /\ UNCHANGED <<disk, server, spool, history>>

(***************************************************************************)
(* jmapqueue                                                               *)
(***************************************************************************)
\* What the startup scan has not seen and the watch will not report.
Missed(m) == missed' = IF loop.up = "scanned" THEN missed \cup {m} ELSE missed

QueueMessage(m) ==
    /\ spool[m] = "unqueued"
    /\ spool' = [spool EXCEPT ![m] = "filed"]
    /\ outbox' = [outbox EXCEPT ![m] = [name |-> "new", marked |-> FALSE]]
    /\ loop' = Reported(<<Ev(m, "Outbox", "create", "new")>>)
    /\ Missed(m)
    /\ UNCHANGED <<failed, sidecar, server, job, spent, removed, refused, parked>>

QueueSidecar(m) ==
    /\ spool[m] = "filed"
    /\ spool' = [spool EXCEPT ![m] = "done"]
    /\ sidecar' = [sidecar EXCEPT ![m] = [Default EXCEPT !.envelope = TRUE]]
    /\ UNCHANGED <<outbox, failed, server, loop, job, spent, history>>

(***************************************************************************)
(* The user's mail client, and the server's clock                          *)
(***************************************************************************)
UserActs ==
    /\ spent.user < MaxUser
    /\ spent' = [spent EXCEPT !.user = @ + 1]
    /\ UNCHANGED <<sidecar, server, spool, job, refused, parked>>

RenameQueued(m) ==
    /\ outbox[m] # NoFile /\ outbox[m].name = "new"
    /\ outbox' = [outbox EXCEPT ![m].name = "cur"]
    /\ loop' = Reported(RenameEvents(m, "Outbox", "new", "Outbox", "cur"))
    /\ UNCHANGED <<failed, removed, missed>>
    /\ UserActs

DeleteQueued(m) ==
    /\ outbox[m] # NoFile
    /\ outbox' = [outbox EXCEPT ![m] = NoFile]
    /\ loop' = Reported(<<Ev(m, "Outbox", "remove", outbox[m].name)>>)
    /\ removed' = removed \cup {m}
    /\ UNCHANGED <<failed, missed>>
    /\ UserActs

\* Not between the two system calls of one move.
DragBack(m) ==
    /\ m \in failed
    /\ ~(job.m = m /\ job.stage = "unlink")
    /\ outbox[m] # NoFile => outbox[m].name = "new"
    /\ failed' = failed \ {m}
    /\ outbox' = [outbox EXCEPT ![m] = [name |-> "new", marked |-> TRUE]]
    /\ loop' = Reported(RenameEvents(m, "Failed", "new", "Outbox", "new"))
    /\ Missed(m)
    /\ UNCHANGED removed
    /\ UserActs

DiscardFailed(m) ==
    /\ m \in failed
    /\ failed' = failed \ {m}
    /\ loop' = Reported(<<Ev(m, "Failed", "remove", "new")>>)
    /\ removed' = removed \cup {m}
    /\ UNCHANGED <<outbox, missed>>
    /\ UserActs

Release(m, marked) ==
    LET c == server[m][marked] IN
    /\ EarlyRelease \/ (outbox[m] = NoFile /\ m \notin failed /\ job.m # m)
    /\ c.pending > 0
    /\ server' = [server EXCEPT ![m][marked] =
                     [c EXCEPT !.pending = @ - 1, !.final = @ + 1]]
    /\ UNCHANGED <<disk, spool, loop, job, spent, history>>

-----------------------------------------------------------------------------
Daemon ==
    /\ LateSidecar \/ \A m \in Message : spool[m] # "filed"
    /\ \/ Scan \/ Watch \/ DrainDue
       \/ HandleDragBack \/ HandleQueued \/ HandleGone \/ HandleFailedRemove
       \/ SaveInFlight \/ Upload \/ ImportAndSubmit \/ AlreadyExists \/ QueryState
       \/ Resubmit \/ RequestFails
       \/ Succeed \/ SaveBackoff \/ WaitOver \/ MoveToFailed \/ UnlinkSource
       \/ MoveFails \/ Forget
       \/ \E side \in {"Outbox", "Failed"} : HandleFrom(side)
       \/ \E m \in Message : Begin(m) \/ Vanished(m) \/ ComesDue(m) \/ ExpireRename(m)

Others ==
    \E m \in Message :
        \/ QueueMessage(m) \/ QueueSidecar(m)
        \/ RenameQueued(m) \/ DeleteQueued(m) \/ DragBack(m) \/ DiscardFailed(m)
        \/ \E marked \in BOOLEAN : Release(m, marked)

Next == Daemon \/ Others \/ Crash

Spec == Init /\ [][Next]_vars

\* The loop is supervised and runs on; a time that was recorded comes.
FairSpec ==
    /\ Spec
    /\ WF_vars(Daemon)
    /\ \A m \in Message : WF_vars(QueueSidecar(m))

-----------------------------------------------------------------------------
(***************************************************************************)
(* Properties                                                              *)
(***************************************************************************)
Accepted(m) == \E marked \in BOOLEAN : server[m][marked].pending + server[m][marked].final > 0

\* A message that was queued is in the Outbox, in Failed, or with the server,
\* unless the user removed it: no crash, race or failed request loses one.
NothingLost ==
    \A m \in Message : spool[m] # "unqueued" =>
        outbox[m] # NoFile \/ m \in failed \/ Accepted(m) \/ m \in removed

\* submit.rs retries after a crash or a lost reply without knowing whether the
\* server has the message; reconcile_after_import keeps it from submitting the
\* same bytes twice.
AtMostOnce ==
    \A m \in Message, marked \in BOOLEAN :
        server[m][marked].pending + server[m][marked].final <= 1

\* Whenever a request may be under way the sidecar says so, so that a crash is
\* noticed at the next start.
WireIsMarked ==
    job.stage \in Wire => sidecar[job.m] # NoSidecar /\ sidecar[job.m].in_flight

\* Only a message the server refused is moved to Failed.
FailedOnlyWhenRefused == failed \subseteq refused

\* Every message leaves the Outbox in the end: sent, failed or removed, unless
\* its move to Failed went wrong or it came between the last startup scan and
\* the watch; what came before that scan is taken up whatever happened then.
EveryMessageSettled ==
    <>[](\A m \in Message : outbox[m] = NoFile \/ m \in parked \cup missed)

-----------------------------------------------------------------------------
(***************************************************************************)
(* Submit implements Delivery                                              *)
(***************************************************************************)
Queued == {m \in Message : spool[m] # "unqueued"}
Kept == {m \in Message : outbox[m] # NoFile \/ m \in failed}

Held == [m \in Message |-> [w \in BOOLEAN |-> server[m][w].pending]]
Out == [m \in Message |-> [w \in BOOLEAN |-> server[m][w].final]]

Promise == INSTANCE Delivery WITH
    queued <- Queued,
    kept <- Kept,
    dropped <- removed,
    held <- Held,
    out <- Out

\* The daemon lets go of a message only when the server has accepted it or the
\* user has dropped it, whatever it retries, reconciles or recovers from; the
\* server holds or has sent at most one submission of the same bytes, and none
\* that went out is lost sight of.
DeliveryKept == Promise!Spec

=============================================================================
