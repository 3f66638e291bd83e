------------------------------ MODULE DaemonLoop ------------------------------
(***************************************************************************)
(* The daemon for one account (src/src/daemon/mod.rs, resilience.rs and    *)
(* the supervision in submit.rs): a supervisor sets the client up, starts  *)
(* the submit worker and runs the event loop, which starts a sync tick on  *)
(* connect, on the poll timer, on changes in the Maildir and on pushes     *)
(* from the server; both workers wait and retry when the server fails; a   *)
(* signal ends them all.                                                   *)
(*                                                                         *)
(* What a tick does to the mail is EmailSync and MailboxSync.  Here it     *)
(* reads the server, reads the Maildir, pushes, and writes files, and all  *)
(* that counts is which changes it has taken in.                           *)
(***************************************************************************)
EXTENDS Naturals

CONSTANTS
    Configs,    \* the settings the daemon may be started with
    Base, Cap,  \* RetryBackoff, in units of the base delay
    RawCap,     \* channel from the notify thread to the debouncer
    TickCap     \* channel from the debouncer to the event loop

CONSTANTS       \* bounds
    Burst,      \* file-system events, pushes and due messages told apart
    MaxChange,  \* changes in the Maildir and on the server
    MaxFault,   \* requests that fail, stops of the submit worker, and event
                \* streams that end, fail or fall silent
    MaxSend     \* messages queued

Config == [poll : BOOLEAN, watch : BOOLEAN, submit : BOOLEAN]

ASSUME ConfigAssumption == Configs \subseteq Config
ASSUME DelayAssumption == Base \in Nat \ {0} /\ Cap \in Nat /\ Base <= Cap
ASSUME ChannelAssumption == RawCap \in Nat \ {0} /\ TickCap \in Nat \ {0}
ASSUME BoundsAssumption ==
    /\ Burst \in Nat \ {0}
    /\ MaxChange \in Nat /\ MaxFault \in Nat /\ MaxSend \in Nat

VARIABLES
    main,     \* run_daemon_inner
    config,   \* the account's settings
    task,     \* per worker: where it is, its backoff and its failure notifier
    tick,     \* how far the running tick has come
    owed,     \* sides with a change that no tick has read yet
    got,      \* sides with a change that the running tick has read
    watch,    \* the Maildir watch, from the kernel to the event loop
    stream,   \* the event stream
    due,      \* has the poll timer run out?
    hook,     \* is a post-sync hook running?
    mail,     \* messages with a send attempt due, and those of the batch at hand
    spent,    \* how often each environment has acted
    notice,   \* history: the last desktop notice of each worker
    gap,      \* history: was a change on the server announced to nobody?
    lapsed    \* history: did the last tick fail?

vars == <<main, config, task, tick, owed, got, watch, stream, due, hook, mail,
          spent, notice, gap, lapsed>>
changes == <<owed, got, gap>>
syncing == <<tick, owed, got, gap, lapsed, hook>>
signals == <<watch, stream, due>>
steady == <<main, config>>

Side == {"local", "remote"}
Worker == {"sync", "submit"}

SyncPlaces == {"off", "setup", "network", "delay", "top", "catchup", "connect", "select",
               "drop", "join", "exited"}
SubmitPlaces == {"off", "setup", "network", "delay", "select", "batch", "attempt", "exited"}

\* up: past the set-up of the client, or past the submit worker's bring-up.
Task(places) == [pc : places, up : BOOLEAN, next : Base .. Cap, down : BOOLEAN]
Fresh(pc, up) == [pc |-> pc, up |-> up, next |-> Base, down |-> FALSE]

TaskOK ==
    /\ task \in [Worker -> Task(SyncPlaces \cup SubmitPlaces)]
    /\ task["sync"].pc \in SyncPlaces /\ task["submit"].pc \in SubmitPlaces

\* kernel: events not read yet; raw, ticks: signals in the two channels; deb:
\* the debouncer between them.
Watch == [on : BOOLEAN, kernel : 0 .. Burst, raw : 0 .. RawCap,
          deb : {"recv", "sleep", "send", "gone"}, ticks : 0 .. TickCap]
Unwatched == [on |-> FALSE, kernel |-> 0, raw |-> 0, deb |-> "recv", ticks |-> 0]

\* silent: the server is gone and nobody has been told.
Stream == [state : {"none", "open", "silent", "ended", "failed"}, queue : 0 .. Burst]
Disconnected == [state |-> "none", queue |-> 0]

Mail == [due : 0 .. Burst, batch : 0 .. Burst]
Spent == [change : 0 .. MaxChange, fault : 0 .. MaxFault, send : 0 .. MaxSend]
Notice == {"none", "down", "up"}
Nothing == [s \in Side |-> FALSE]

TypeOK ==
    /\ main \in {"start", "running", "joining", "done"}
    /\ config \in Configs
    /\ TaskOK
    /\ tick \in {"none", "list", "detect", "push", "apply"}
    /\ owed \in [Side -> BOOLEAN] /\ got \in [Side -> BOOLEAN]
    /\ watch \in Watch
    /\ stream \in Stream
    /\ due \in BOOLEAN /\ hook \in BOOLEAN
    /\ mail \in Mail
    /\ spent \in Spent
    /\ notice \in [Worker -> Notice]
    /\ gap \in BOOLEAN /\ lapsed \in BOOLEAN

Init ==
    /\ main = "start"
    /\ config \in Configs
    /\ task = [w \in Worker |-> Fresh("off", FALSE)]
    /\ tick = "none"
    /\ owed = [s \in Side |-> TRUE]
    /\ got = Nothing
    /\ watch = Unwatched
    /\ stream = Disconnected
    /\ due = FALSE /\ hook = FALSE
    /\ mail = [due |-> 0, batch |-> 0]
    /\ spent = [change |-> 0, fault |-> 0, send |-> 0]
    /\ notice = [w \in Worker |-> "none"]
    /\ gap = FALSE /\ lapsed = FALSE

Least(m, n) == IF m <= n THEN m ELSE n

(***************************************************************************)
(* run_daemon_inner                                                        *)
(***************************************************************************)
\* The cancellation token: fired once, by the signal.
Cancelled == main \in {"joining", "done"}

\* The database opens and the account's supervisor is spawned; or it does
\* not, and with no account left the daemon ends.
Start ==
    /\ main = "start"
    /\ \/ main' = "running" /\ task' = [task EXCEPT !["sync"].pc = "setup"]
       \/ main' = "done" /\ UNCHANGED task
    /\ UNCHANGED <<config, syncing, signals, mail, spent, notice>>

Terminate ==
    /\ main = "running"
    /\ main' = "joining"
    /\ UNCHANGED <<config, task, syncing, signals, mail, spent, notice>>

Joined ==
    /\ main = "joining"
    /\ task["sync"].pc = "exited"
    /\ main' = "done"
    /\ UNCHANGED <<config, task, syncing, signals, mail, spent, notice>>

(***************************************************************************)
(* RetryBackoff, FailureNotifier and wait_for_connectivity_or_delay        *)
(***************************************************************************)
At(w, pc) == task[w].pc = pc
Goto(w, pc) == task' = [task EXCEPT ![w].pc = pc]

Fault ==
    /\ spent.fault < MaxFault
    /\ spent' = [spent EXCEPT !.fault = @ + 1]

\* Mutant: the delay is doubled without end.
Doubled(delay) == 2 * delay

NextDelay(delay) == Least(2 * delay, Cap)

\* Mutant: what was reached once is kept.
NeverReset(t) == t.next

\* RetryBackoff::reset
Reset(t) == Base

\* failed() sends one notice until recovered() has sent its own.
SayDown(w) == notice' = [notice EXCEPT ![w] = IF task[w].down THEN @ ELSE "down"]
SayUp(w) == notice' = [notice EXCEPT ![w] = IF task[w].down THEN "up" ELSE @]

\* take_delay, failed, and the wait begins.
BackOff(w, up) ==
    /\ task' = [task EXCEPT ![w] = [pc |-> "network", up |-> up, down |-> TRUE,
                                    next |-> NextDelay(@.next)]]
    /\ SayDown(w)

\* reset, recovered, and on to the event loop.
Recover(w) ==
    /\ task' = [task EXCEPT ![w] = [pc |-> "select", up |-> TRUE, down |-> FALSE,
                                    next |-> Reset(@)]]
    /\ SayUp(w)

\* Where the wait returns to.
Resume(w) ==
    CASE ~task[w].up -> "setup"
      [] task[w].up /\ w = "sync" -> "top"
      [] task[w].up /\ w = "submit" -> "batch"

\* What is scheduled once the wait is over: the message that was tried.
Rescheduled(w) ==
    IF w = "submit" /\ task[w].up
    THEN mail' = [mail EXCEPT !.due = Least(@ + 1, Burst)]
    ELSE UNCHANGED mail

\* nm-online has found a network or is not available, and part of the delay
\* is left.
NetworkAnswers(w) ==
    /\ At(w, "network")
    /\ Goto(w, "delay")
    /\ UNCHANGED <<steady, syncing, signals, mail, spent, notice>>

WaitOver(w) ==
    /\ task[w].pc \in {"network", "delay"}
    /\ ~Cancelled
    /\ Goto(w, Resume(w))
    /\ Rescheduled(w)
    /\ UNCHANGED <<steady, syncing, signals, spent, notice>>

\* The loop and the attempt return; the supervisor does once the submit
\* worker, if there is one, has ended.
WaitCancelled(w) ==
    /\ task[w].pc \in {"network", "delay"}
    /\ Cancelled
    /\ Goto(w, CASE ~task[w].up -> "exited"
                 [] task[w].up /\ w = "sync" -> "join"
                 [] task[w].up /\ w = "submit" -> "batch")
    /\ watch' = IF w = "sync" THEN Unwatched ELSE watch
    /\ UNCHANGED <<steady, syncing, stream, due, mail, spent, notice>>

(***************************************************************************)
(* The Maildir watch                                                       *)
(***************************************************************************)
\* Mutant: every kind of event is passed on.
EveryKind == {"create", "modify", "remove", "access"}

RelevantKind == {"create", "modify", "remove"}

\* The watch w after one more event of this kind; one of another kind is
\* dropped as soon as it is read.
Noticing(w, kind) ==
    IF w.on /\ kind \in RelevantKind
    THEN [w EXCEPT !.kernel = Least(@ + 1, Burst)]
    ELSE w

\* The notify thread: blocking_send waits for room.
Forward ==
    /\ watch.kernel > 0
    /\ watch.raw < RawCap
    /\ watch' = [watch EXCEPT !.kernel = @ - 1, !.raw = @ + 1]
    /\ UNCHANGED <<steady, task, syncing, stream, due, mail, spent, notice>>

DebounceFirst ==
    /\ watch.deb = "recv"
    /\ watch.raw > 0
    /\ watch' = [watch EXCEPT !.raw = @ - 1, !.deb = "sleep"]
    /\ UNCHANGED <<steady, task, syncing, stream, due, mail, spent, notice>>

\* Drain what piled up, and what the notify thread passes on meanwhile.
DebounceOver ==
    /\ watch.deb = "sleep"
    /\ \E left \in 0 .. watch.kernel :
         watch' = [watch EXCEPT !.raw = 0, !.kernel = left, !.deb = "send"]
    /\ UNCHANGED <<steady, task, syncing, stream, due, mail, spent, notice>>

\* Mutant: no signal while a tick is running.
SendWhenIdle ==
    /\ watch.deb = "send"
    /\ watch.ticks < TickCap
    /\ watch' = [watch EXCEPT !.ticks = IF tick = "none" THEN @ + 1 ELSE @, !.deb = "recv"]
    /\ UNCHANGED <<steady, task, syncing, stream, due, mail, spent, notice>>

DebounceSend ==
    /\ watch.deb = "send"
    /\ watch.ticks < TickCap
    /\ watch' = [watch EXCEPT !.ticks = @ + 1, !.deb = "recv"]
    /\ UNCHANGED <<steady, task, syncing, stream, due, mail, spent, notice>>

DebounceCancelled ==
    /\ watch.deb = "recv"
    /\ watch.on
    /\ Cancelled
    /\ watch' = [watch EXCEPT !.deb = "gone"]
    /\ UNCHANGED <<steady, task, syncing, stream, due, mail, spent, notice>>

(***************************************************************************)
(* A tick: sync_account                                                    *)
(***************************************************************************)
Idle == tick = "none"
BeginTick == tick' = "list" /\ lapsed' = FALSE

\* An announcement by the server; gap when there is nobody to hear it.
Announced == IF stream.state = "open"
             THEN [stream EXCEPT !.queue = Least(@ + 1, Burst)] ELSE stream

TickList ==
    /\ tick = "list"
    /\ tick' = "detect"
    /\ got' = [got EXCEPT !["remote"] = owed["remote"]]
    /\ owed' = [owed EXCEPT !["remote"] = FALSE]
    /\ gap' = FALSE
    /\ UNCHANGED <<steady, task, lapsed, hook, signals, mail, spent, notice>>

\* Reading the Maildir is an event of its own.
TickDetect ==
    /\ tick = "detect"
    /\ tick' = "push"
    /\ got' = [got EXCEPT !["local"] = owed["local"]]
    /\ owed' = [owed EXCEPT !["local"] = FALSE]
    /\ watch' = Noticing(watch, "access")
    /\ UNCHANGED <<steady, task, gap, lapsed, hook, stream, due, mail, spent, notice>>

\* Email/set, which the server announces to this client as well.
TickPush ==
    /\ tick = "push"
    /\ tick' = "apply"
    /\ got' = [got EXCEPT !["local"] = FALSE]
    /\ stream' = IF got["local"] THEN Announced ELSE stream
    /\ UNCHANGED <<steady, task, owed, gap, lapsed, hook, watch, due, mail, spent, notice>>

\* Where the tick was called from goes on, whether it failed or not.
AfterTick == task' = [task EXCEPT !["sync"].pc = IF @ = "catchup" THEN "connect" ELSE @]

TickApply ==
    /\ tick = "apply"
    /\ tick' = "none"
    /\ got' = Nothing
    /\ watch' = IF got["remote"] THEN Noticing(watch, "create") ELSE watch
    /\ hook' = (hook \/ got["remote"])
    /\ AfterTick
    /\ UNCHANGED <<steady, owed, gap, lapsed, stream, due, mail, spent, notice>>

\* A request fails, after its effect or before; what was done remains done.
TickFails ==
    /\ ~Idle
    /\ Fault
    /\ tick' = "none"
    /\ lapsed' = TRUE
    /\ owed' = [s \in Side |-> owed[s] \/ got[s]]
    /\ got' = Nothing
    /\ stream' \in {stream} \cup (IF tick = "push" /\ got["local"] THEN {Announced} ELSE {})
    /\ watch' \in {watch} \cup (IF tick = "apply" /\ got["remote"]
                                THEN {Noticing(watch, "create")} ELSE {})
    /\ AfterTick
    /\ UNCHANGED <<steady, gap, hook, due, mail, notice>>

(***************************************************************************)
(* run_account_supervisor                                                  *)
(***************************************************************************)
\* Spawns the submit worker; the loop begins with the watch, which may fail.
ClientReady ==
    /\ At("sync", "setup")
    /\ task' = [task EXCEPT
                  !["sync"] = Fresh("top", TRUE),
                  !["submit"].pc = IF config.submit THEN "setup" ELSE "off"]
    /\ SayUp("sync")
    /\ \E on \in {FALSE, config.watch} : watch' = [Unwatched EXCEPT !.on = on]
    /\ UNCHANGED <<steady, syncing, stream, due, mail, spent>>

ClientFails ==
    /\ At("sync", "setup")
    /\ Fault
    /\ BackOff("sync", FALSE)
    /\ UNCHANGED <<steady, syncing, signals, mail>>

SetupCancelled ==
    /\ At("sync", "setup")
    /\ Cancelled
    /\ Goto("sync", "exited")
    /\ UNCHANGED <<steady, syncing, signals, mail, spent, notice>>

SubmitJoined ==
    /\ At("sync", "join")
    /\ task["submit"].pc \in {"off", "exited"}
    /\ Goto("sync", "exited")
    /\ UNCHANGED <<steady, syncing, signals, mail, spent, notice>>

(***************************************************************************)
(* run_account_sse_loop                                                    *)
(***************************************************************************)
CatchUp ==
    /\ At("sync", "top")
    /\ ~Cancelled
    /\ Goto("sync", "catchup")
    /\ BeginTick
    /\ UNCHANGED <<steady, changes, hook, signals, mail, spent, notice>>

\* The loop returns: what it owns, the watch and the stream, is dropped.
LoopReturns ==
    /\ task["sync"].pc \in {"top", "select"}
    /\ Idle
    /\ Cancelled
    /\ Goto("sync", "join")
    /\ watch' = Unwatched
    /\ stream' = Disconnected
    /\ UNCHANGED <<steady, syncing, due, mail, spent, notice>>

\* With an event id to go on from the server may repeat what was missed.
Connect ==
    /\ At("sync", "connect")
    /\ Recover("sync")
    /\ \E missed \in 0 .. 1 : stream' = [state |-> "open", queue |-> missed]
    /\ due' = FALSE
    /\ UNCHANGED <<steady, syncing, watch, mail, spent>>

ConnectFails ==
    /\ At("sync", "connect")
    /\ Fault
    /\ BackOff("sync", TRUE)
    /\ UNCHANGED <<steady, syncing, signals, mail>>

\* The biased select: the token first, then the timer, the watch, the stream.
\* Mutant: any arm that is ready.
AnyArm(arm) == TRUE

WatchReady == watch.on /\ (watch.ticks > 0 \/ watch.deb = "gone")

Turn(arm) ==
    /\ ~Cancelled
    /\ arm # "poll" => ~due
    /\ arm = "stream" => ~WatchReady

Selecting(arm) == At("sync", "select") /\ Idle /\ Turn(arm)

PollFires ==
    /\ Selecting("poll")
    /\ due
    /\ due' = FALSE
    /\ BeginTick
    /\ UNCHANGED <<steady, task, changes, hook, watch, stream, mail, spent, notice>>

\* A channel whose sender is gone is ready, too.
WatchFires ==
    /\ Selecting("watch")
    /\ WatchReady
    /\ watch' = IF watch.ticks > 0 THEN [watch EXCEPT !.ticks = @ - 1] ELSE watch
    /\ BeginTick
    /\ UNCHANGED <<steady, task, changes, hook, stream, due, mail, spent, notice>>

\* Mutant: the event is noted and no tick begun.
NoteStateChange ==
    /\ Selecting("stream")
    /\ stream.queue > 0
    /\ stream' = [stream EXCEPT !.queue = @ - 1]
    /\ UNCHANGED <<steady, task, syncing, watch, due, mail, spent, notice>>

StateChange ==
    /\ Selecting("stream")
    /\ stream.queue > 0
    /\ stream' = [stream EXCEPT !.queue = @ - 1]
    /\ BeginTick
    /\ UNCHANGED <<steady, task, changes, hook, watch, due, mail, spent, notice>>

StreamEnded ==
    /\ Selecting("stream")
    /\ stream = [state |-> "ended", queue |-> 0]
    /\ stream' = Disconnected
    /\ Goto("sync", "drop")
    /\ UNCHANGED <<steady, syncing, watch, due, mail, spent, notice>>

StreamFailed ==
    /\ Selecting("stream")
    /\ stream = [state |-> "failed", queue |-> 0]
    /\ stream' = Disconnected
    /\ BackOff("sync", TRUE)
    /\ UNCHANGED <<steady, syncing, watch, due, mail, spent>>

\* Mutant: only the first connection is preceded by a tick.
ReconnectOnly ==
    /\ At("sync", "drop")
    /\ Goto("sync", "connect")
    /\ UNCHANGED <<steady, syncing, signals, mail, spent, notice>>

\* sleep_or_cancel: over early when the token fires.
DropOver ==
    /\ At("sync", "drop")
    /\ Goto("sync", "top")
    /\ UNCHANGED <<steady, syncing, signals, mail, spent, notice>>

PollDue ==
    /\ config.poll
    /\ At("sync", "select")
    /\ ~due
    /\ due' = TRUE
    /\ UNCHANGED <<steady, task, syncing, watch, stream, mail, spent, notice>>

(***************************************************************************)
(* The submit worker: run_account_submit_loop and its inner loop           *)
(***************************************************************************)
BroughtUp ==
    /\ At("submit", "setup")
    /\ Recover("submit")
    /\ UNCHANGED <<steady, syncing, signals, mail, spent>>

\* The worker ends with an error, or its watch does; after a cancellation the
\* supervising loop returns instead of retrying.
InnerEnds ==
    /\ task["submit"].pc \in {"setup", "select"}
    /\ Fault
    /\ IF Cancelled
       THEN Goto("submit", "exited") /\ UNCHANGED notice
       ELSE BackOff("submit", FALSE)
    /\ UNCHANGED <<steady, syncing, signals, mail>>

\* Mutant: the token is looked at between attempts only.
CancelledInBatch ==
    /\ At("submit", "batch")
    /\ Cancelled
    /\ mail.batch > 0
    /\ Goto("submit", "exited")
    /\ UNCHANGED <<steady, syncing, signals, mail, spent, notice>>

SubmitCancelled ==
    /\ task["submit"].pc \in {"select", "batch"}
    /\ Cancelled
    /\ task["submit"].pc = "batch" => mail.batch > 0
    /\ Goto("submit", "exited")
    /\ UNCHANGED <<steady, syncing, signals, mail, spent, notice>>

DrainDue ==
    /\ At("submit", "select")
    /\ ~Cancelled
    /\ mail.due > 0
    /\ mail' = [due |-> 0, batch |-> mail.due]
    /\ Goto("submit", "batch")
    /\ UNCHANGED <<steady, syncing, signals, spent, notice>>

NextAttempt ==
    /\ At("submit", "batch")
    /\ mail.batch > 0
    /\ ~Cancelled
    /\ mail' = [mail EXCEPT !.batch = @ - 1]
    /\ Goto("submit", "attempt")
    /\ UNCHANGED <<steady, syncing, signals, spent, notice>>

BatchDone ==
    /\ At("submit", "batch")
    /\ mail.batch = 0
    /\ Goto("submit", "select")
    /\ UNCHANGED <<steady, syncing, signals, mail, spent, notice>>

\* Sent: recovered() without a reset of the worker's backoff.  Sending
\* unlinks a file below the Maildir.
AttemptSucceeds ==
    /\ At("submit", "attempt")
    /\ task' = [task EXCEPT !["submit"].pc = "batch", !["submit"].down = FALSE]
    /\ SayUp("submit")
    /\ watch' = Noticing(watch, "remove")
    /\ UNCHANGED <<steady, syncing, stream, due, mail, spent>>

\* Refused for good, or gone: nothing is said about the server.
AttemptSettled ==
    /\ At("submit", "attempt")
    /\ Goto("submit", "batch")
    /\ watch' \in {watch, Noticing(watch, "create")}
    /\ UNCHANGED <<steady, syncing, stream, due, mail, spent, notice>>

\* The delay of the message's own schedule; the worker waits for it here.
AttemptFails ==
    /\ At("submit", "attempt")
    /\ Fault
    /\ task' = [task EXCEPT !["submit"].pc = "network", !["submit"].down = TRUE]
    /\ SayDown("submit")
    /\ UNCHANGED <<steady, syncing, signals, mail>>

(***************************************************************************)
(* The environment                                                         *)
(***************************************************************************)
LocalChange ==
    /\ spent.change < MaxChange
    /\ spent' = [spent EXCEPT !.change = @ + 1]
    /\ owed' = [owed EXCEPT !["local"] = TRUE]
    /\ \E kind \in RelevantKind \ {"access"} : watch' = Noticing(watch, kind)
    /\ UNCHANGED <<steady, task, tick, got, gap, lapsed, hook, stream, due, mail, notice>>

RemoteChange ==
    /\ spent.change < MaxChange
    /\ spent' = [spent EXCEPT !.change = @ + 1]
    /\ owed' = [owed EXCEPT !["remote"] = TRUE]
    /\ stream' = Announced
    /\ gap' = (gap \/ stream.state # "open")
    /\ UNCHANGED <<steady, task, tick, got, lapsed, hook, watch, due, mail, notice>>

\* The hook may write below the Maildir, as an indexer does.
HookEnds ==
    /\ hook
    /\ hook' = FALSE
    /\ watch' \in {watch, Noticing(watch, "modify")}
    /\ UNCHANGED <<steady, task, tick, changes, lapsed, stream, due, mail, spent, notice>>

\* The connection ends or breaks, with or without what was under way; or it
\* falls silent, and nobody is told.
StreamLoss ==
    /\ stream.state \in {"open", "silent"}
    /\ Fault
    /\ \/ \E state \in {"ended", "failed"}, queue \in {0, stream.queue} :
             stream' = [state |-> state, queue |-> queue] /\ UNCHANGED gap
       \/ /\ stream' = [state |-> "silent", queue |-> 0]
          /\ gap' = (gap \/ owed["remote"])
    /\ UNCHANGED <<steady, task, tick, owed, got, lapsed, hook, watch, due, mail, notice>>

\* jmapqueue writes below the Maildir: a signal without a change of mail.
QueueMessage ==
    /\ spent.send < MaxSend
    /\ spent' = [spent EXCEPT !.send = @ + 1]
    /\ mail' = [mail EXCEPT !.due = Least(@ + 1, Burst)]
    /\ watch' = Noticing(watch, "create")
    /\ UNCHANGED <<steady, task, syncing, stream, due, notice>>

-----------------------------------------------------------------------------
Tick == TickList \/ TickDetect \/ TickPush \/ TickApply \/ TickFails

Loop ==
    \/ CatchUp \/ LoopReturns \/ Connect \/ ConnectFails
    \/ PollFires \/ WatchFires \/ StateChange \/ StreamEnded \/ StreamFailed \/ DropOver

Wait(w) == NetworkAnswers(w) \/ WaitOver(w) \/ WaitCancelled(w)

SyncWorker ==
    \/ ClientReady \/ ClientFails \/ SetupCancelled \/ SubmitJoined
    \/ Loop \/ Tick \/ Wait("sync")

SubmitWorker ==
    \/ BroughtUp \/ InnerEnds \/ SubmitCancelled
    \/ DrainDue \/ NextAttempt \/ BatchDone
    \/ AttemptSucceeds \/ AttemptSettled \/ AttemptFails
    \/ Wait("submit")

Debouncer == DebounceFirst \/ DebounceOver \/ DebounceSend \/ DebounceCancelled

Environment ==
    \/ Terminate \/ LocalChange \/ RemoteChange \/ HookEnds \/ StreamLoss
    \/ QueueMessage

Next ==
    \/ Start \/ Joined \/ PollDue \/ Forward
    \/ SyncWorker \/ SubmitWorker \/ Debouncer
    \/ Environment

Spec == Init /\ [][Next]_vars

\* Every task that can go on does: a request ends within its timeout, a timer
\* runs out, nm-online answers in the end.
FairSpec ==
    /\ Spec
    /\ WF_vars(Start \/ Joined) /\ WF_vars(PollDue) /\ WF_vars(Forward)
    /\ WF_vars(SyncWorker) /\ WF_vars(SubmitWorker) /\ WF_vars(Debouncer)

-----------------------------------------------------------------------------
(***************************************************************************)
(* Properties                                                              *)
(***************************************************************************)
\* From here the loop gets to the sync on connect.
CatchingUp == task["sync"].pc \in {"off", "setup", "network", "delay", "top", "drop"}

Signalled == watch.kernel > 0 \/ watch.raw > 0 \/ watch.deb \in {"sleep", "send"} \/ watch.ticks > 0

\* No local change falls between the threads: while the watch is up, a change
\* that no tick has read has a signal on its way to the loop, or a tick that
\* has yet to read the Maildir, unless the tick that read it failed.
LocalChangeNoticed ==
    (watch.on /\ owed["local"] /\ ~lapsed) =>
        Signalled \/ tick \in {"list", "detect"} \/ CatchingUp

\* The same for the server, except for what nobody could hear: a change
\* between the sync on connect and the opening of the stream, or while the
\* stream is dead but not closed.
RemoteChangeNoticed ==
    (owed["remote"] /\ ~lapsed /\ ~gap /\ task["sync"].pc \notin {"join", "exited"}) =>
        \/ stream.queue > 0 \/ stream.state \in {"ended", "failed"}
        \/ tick = "list" \/ CatchingUp

\* A worker that is connected has not left the user with a notice that the
\* server is unreachable, and only one that is not waits longer than at first.
NoticesAreTrue ==
    /\ At("sync", "select") => notice["sync"] # "down"
    /\ \A w \in Worker : task[w].next > Base => notice[w] = "down"

\* Once the signal is there no task begins anything: at most the tick and the
\* send attempt under way are finished.
NothingBeginsOnceCancelled ==
    [][Cancelled => /\ tick = "none" => tick' = "none"
                    /\ At("submit", "attempt")' => At("submit", "attempt")]_vars

Excused(s) == lapsed \/ IF s = "local" THEN ~watch.on ELSE gap

\* Every change reaches the other side, if need be by the poll timer; without
\* the timer unless the tick that carried it failed or nobody could notice it.
ChangesArrive ==
    \A s \in Side :
        owed[s] \/ got[s] ~>
            \/ ~owed[s] /\ ~got[s]
            \/ Cancelled
            \/ ~config.poll /\ Excused(s)

\* Ticks set off signals themselves: files they write, pushes that the server
\* announces to their author, the hook.  Without the timer that comes to rest.
EchoesDieOut == <>[](config.poll \/ tick = "none")

\* The signal ends the daemon, whatever its tasks are waiting for.
ShutdownCompletes == Cancelled ~> main = "done"

=============================================================================
