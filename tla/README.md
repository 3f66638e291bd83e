# jmapsyncd in TLA+

Specifications of jmapsyncd, a daemon that keeps a local Maildir and a JMAP
account in step and sends mail through the account: what its components do, step
by step, model-checked with TLC on small instances, with theorems checked by
TLAPS for all instances. File references are to the repository (`src/src/...`).

## The system

| component | state | operations | talks to |
|---|---|---|---|
| e-mail sync, `sync/email.rs` | tables `emails`, `email_mailboxes`; files in `cur/`; nothing between ticks in memory | list ids page by page, detect local changes, push them, delete, hydrate in chunks, insert / move / update | server (Email/query, set, get, blob), SQLite, Maildir |
| mailbox sync, `sync/mailbox.rs` | table `mailboxes`; directories | fetch the tree, delete, create, rename, clean up orphaned e-mail rows | server (Mailbox/get), SQLite, Maildir |
| one tick, `sync/mod.rs` | none | mailbox pass, then e-mail pass, then a hook; run by the daemon, or once by the command `sync` | the two above |
| submit loop, `daemon/submit.rs` | `Outbox/`, `Failed/`, sidecars; in memory a schedule and half-seen renames | scan, watch, attempt (upload, import, submit, reconcile), retry, move to Failed, drag-back | server, file-system events, jmapqueue through the disk |
| jmapqueue, `bin/jmapqueue.rs` | none | write a message, then its sidecar | the submit loop, through the disk |
| daemon loop, `daemon/mod.rs` | event stream, poll timer, Maildir watch with its channels, cancellation token | set up, run a tick on every wake-up, reconnect, supervise the submit loop, shut down | ticks, submit loop, kernel, server |
| resilience, `daemon/resilience.rs` | backoff, failure flag | delays, one notice per failure and recovery | both loops |
| single instance, `daemon/single_instance.rs` | a flock | acquire | the kernel |
| database, `db/` | the SQLite file | statements, foreign keys | the two passes |
| client, configuration, command line | read once | | |

The daemon's tasks share one thread and interleave at awaits only; next to it run
the notify thread that reads file-system events and, with no lock between them, the
one-shot `sync` on the same database and Maildir. What else interleaves with every
step is outside: other JMAP clients, the local mail client that renames and unlinks
files, file-system events, failing requests, and the end of the process. No
component keeps a journal: after a crash, the next tick or start works from what is
on disk, in the database and on the server.

What makes each correct, and is hard to test:

* *e-mail sync.* Three stores must come to agree whatever happened between any two
  steps; nothing may be destroyed or changed upstream that the user did not ask
  for; a flag the user set may not be overwritten; two ticks in peace must not keep
  writing to each other.
* *mailbox sync.* Rows, directories and the mail in them must follow the tree
  through partial failures, and no state may make every later tick fail.
* *send path.* No message may be lost or sent twice, across crashes, lost replies
  and the mail client's renames, and each must leave the Outbox in the end.
* *daemon loop.* Each change on either side must be followed by a tick that reads
  it, although signals are merged, dropped and queued on the way; ticks, which set
  off signals themselves, must come to rest; the user must not be left with a notice
  that is no longer true; a signal must end every task.
* *two processes.* Neither may take what the other does for the user's doing, and
  what they make of each other's files and rows must be repaired by the next tick.

`PROJECT.json` lists the hazards one by one, each at its line.

## Modules

| module | models | checked by | proved in |
|---|---|---|---|
| `EmailSync` | the e-mail pass and the orphan cleanup, on a fixed set of mailboxes | `MCEmailSync`, 4 runs | `EmailSyncProofs`, `EmailSyncSafety`, `EmailSyncMirror` |
| `MailboxSync` | the mailbox pass; the e-mail pass is one step that follows it | `MCMailboxSync`, 3 runs | `MailboxSyncProofs` |
| `Submit` | submit loop, jmapqueue's two writes, mail client, server | `MCSubmit`, 2 runs | `SubmitProofs` |
| `Delivery` | what the send path promises, without Outbox, schedule and requests; `Submit` implements it | through `Submit` | `SubmitProofs` |
| `DaemonLoop` | supervisor, event loop, watch, stream, backoff, notices, shutdown | `MCDaemonLoop`, 1 run | `DaemonLoopProofs` |
| `TwoTicks` | the e-mail pass in two processes at once, statement by statement | `MCTwoTicks`, 2 runs | `TwoTicksProofs` |
| `OrderLemmas` | nothing of the program: least elements, induction over finite sets, places in a sorted list | | itself |

A tick is modelled at three grains. DaemonLoop knows which changes it has read and
which signals it sets off; MailboxSync takes the e-mail pass as one step; EmailSync
takes it apart at every await and durable write, and TwoTicks at every system call
and SQL statement. `Submit` and the submit worker of DaemonLoop meet in the same
way: DaemonLoop keeps where the worker waits and that it has something to send.

### EmailSync

`server`, `file` and `row` are what the three stores hold for each e-mail id;
`stray` are ids with a file that no row names. `tick` holds the locals of the
running tick, which a crash or an error forgets: ids listed so far, the rows read
(`local`), the local changes found (`changed`, `seen`), the entries Email/set
accepted, the e-mails of the chunk at hand (`got`), and the one whose writes are
under way (`job`). `tick.pc` names the await or the write the tick has reached:
*orphans* (cleanup), *query* (one page per step), *set*, *reconcile*, *deletes*,
*get*, *apply*, and within one e-mail *row*, *members* and *unlinked* for the gap
between file, row and memberships.

A path is a directory and the set of flags in the file's name. A keyword with a
Maildir flag (S, F, R, D) and the flag are one value; `Label` are keywords without
a flag, `Odd` flags without a keyword, and T requests a deletion. The row's path
and the file agree on the base name as long as `file[e]` is used; a file whose row
is gone moves to `stray`, from where the code never takes it. A file gets there when
it is not under the stored path as its row is deleted, when it is there and cannot be
removed, which email.rs:892 only warns about (`MaxStuck` such files), and when the
daemon dies between a file and its row (`InsertTorn`; `MembersTorn` is the
corresponding gap of the membership rows).

Other clients deliver, destroy, move and relabel, the user flags and unlinks; both
between any two steps. `calm` counts undisturbed ticks. `asked` and `touched` are
history: what the user has asked for and is not settled yet. An edit of a keyword is
settled when the row has been written with it: after an acknowledged push, or when a
later write of the row from the server replaces it. A lost reply settles nothing: the
next tick finds the edit again and pushes it again, over whatever another client made
of the keyword in between.

### MailboxSync

`tree` and `mail` are the server; `rows`, `emails` the tables; `dirs`, `maildirs`
and `file` the disk. Paths are sequences of segments, so that renaming or removing a
directory takes along what is below. `PathIn` follows the parents of the tree as a
recursive function on the mailboxes that exist. Deletes, creations and updates are
two steps each, disk and then table. An update makes the directories above the new
path before it looks whether the old path is there (`Made`), and so may itself make
the old path when the new one lies below it; the rename(2) of a directory into
itself then fails, on every tick until the tree is edited again. A statement that a
foreign key refuses, and a rename(2) the system refuses, end the tick
(`DropRowRefused`, `WriteRowRefused`, `RenameRefused`). `SyncEmails` is what
EmailSync does when nobody interferes, with the part that matters here: an e-mail
whose file is not under the stored path counts as deleted by the user.

The target's position in the mirror is one bit per mailbox (`kept`), for
`subscribed_only` and `box_filter`. Name and box_mapping are one function `Local`.

### Submit

`outbox`, `failed` and `sidecar` are the disk, `server` what the server holds of
each message, once per variant of its bytes (without and with the failure headers,
because the server recognises an import by content). `loop` is the loop's memory:
schedule, the batch of due attempts, half-seen renames, events reported and not yet
handled. `job` is the attempt under way, one `stage` per await or durable write.

The select is biased: due attempts are taken before events (`EventsHaveTurn`), and
inside an attempt nothing else is handled, including the whole wait for its backoff
(`WaitOver`). A rename is reported by `notify` as From, To and Both; the third
becomes a creation of the old path in `classify_event`, and the debounce drops what
it repeats. User actions are taken to be further apart than the debounce of 100 ms.
Stripping the headers and resetting the sidecar on a drag-back are one step.
`parked` remembers the messages whose move to Failed failed, which the code leaves in
the Outbox unscheduled, and `missed` those that came between the last startup scan
and the watch; the liveness property excuses both, the latter until the next scan.

### Delivery

The abstract specification has five variables: the messages handed in, those still
kept in Outbox or Failed, those the user dropped, and per message and wording the
submissions that may be cancelled and those that went out. `Submit` defines each as
an expression over its own state (`Queued`, `Kept`, `removed`, `Held`, `Out`) and
states the refinement as `DeliveryKept`. It forbids what no invariant over one state
can: that the daemon lets go of a message which was not accepted, cancels what went
out, or submits a wording anew while a submission of it is left.

### DaemonLoop

One account. `main` is run_daemon_inner with the cancellation token, `task` holds per
worker (the sync worker is the supervisor and its event loop, the other one the
submit worker) its place, the next delay of its `RetryBackoff` and whether its
`FailureNotifier` is down. `watch` follows a change in the Maildir through the
threads: events in the kernel, the channel from the notify thread (`raw`), the
debouncer's place, the channel to the loop (`ticks`). `stream` is the event stream
with the announcements it holds, `due` the poll timer. `owed` and `got` say which
side has a change that no tick, or only the running one, has read: this is what the
signals are for, so the properties relate the two. `notice` is the last desktop
notice of each worker, `gap` a change on the server that nobody could hear (between
the sync on connect and the opening of the stream, mod.rs:72, or on a stream that
died silently), `lapsed` that the last tick failed; mod.rs:139 logs that and waits
for the next signal. The select is biased as in the code: token, timer, watch,
stream (`Turn`). A tick reads the server, reads the Maildir, pushes and writes, each
of which may be an event or an announcement that comes back to the daemon; the
post-sync hook writes below the Maildir too. An event reported while another waits is
counted up to `Burst`.

### TwoTicks

One e-mail in at most one mailbox at a time, one database row with its memberships,
and the files by base name. Each process keeps the locals of its tick (`tick[p]`).
The number of a file stands for its UUID and for the id of the row inserted with it,
as both are drawn anew for each insert. A statement works on the row with the id the
process has read, whatever the other process has made of it (`SameRow`); an insert of
a `jmap_id` that is there, a membership that is there, and a membership of a row that
is gone are refused and end the tick, as does a rename(2) of a file the other process
has renamed. Reading a directory is one step. A process may die between any two steps
(`Die`), a request may fail before or after the server has applied it (`RequestFails`,
`SetReplyLost`), and a file may refuse to be removed, which is only warned about. The
user is idle, the tree is fixed, and the database is not busy for longer than SQLite
waits. `calm` says that the daemon's tick has run alone since it began, `overlap` that
two ticks have ever run at the same time, `torn` which rows have had their file taken
or renamed by a tick that died before the row was told, until a statement tells it.

## Runs

Every passing run also visits every action of its component between them.

| run | question | bounds |
|---|---|---|
| `chaos` | Does one undisturbed tick restore agreement, files without a row apart, and does a second one write nothing; is no unpushed flag overwritten; do the stores converge? | 1 e-mail, 3 mailboxes (2 mirrored), 2 server edits, 2 user edits, 1 lost request, 1 rejected entry, 1 crash, 1 file that cannot be removed, all at any step |
| `mirror` | With an idle user, is nothing ever pushed and no file left without a row? | 2 e-mails, pages and chunks of 1, 3 server edits, 2 lost requests |
| `twoway` | Are destroys and patches upstream only what the user asked for? | 1 e-mail, two flags, a label, 2 edits on each side, 2 lost requests or replies, 1 file that cannot be removed |
| `midtick` | The same, with a user who acts while the tick runs: no. | 1 e-mail |
| `boxchaos` | Do the rows hold the target set after every completed pass? | 3 mailboxes, depth 3, 4 edits with renames and unsubscriptions, 1 lost request, 1 crash |
| `boxtree` | Without renames and unsubscriptions: directories, client-only folders, mail and convergence. | 2 mailboxes, 6 edits, 1 lost request, 1 crash |
| `boxrename` | Does mail survive a rename of its mailbox: no. | 3 edits |
| `outbox` | Is no message lost or sent twice, is a request under way always recorded, does every message leave the Outbox, does every step implement `Delivery`? | 2 messages, one scheduled, 1 lost reply, failed move or retry, 1 refusal, 1 crash, 1 action of the mail client |
| `queuerace` | Is only refused mail moved to Failed: no. | 1 message |
| `daemon` | Is no wake-up lost between the threads, does every change arrive, do echoes die out, are the notices true, does a signal end everything? | with watch and stream only, and with the timer and the submit worker; channels of 1, delays 1 to 3, 1 change, 2 failures, 1 message |
| `twosyncs` | Does every row keep its file, does one lone tick repair what two have done to each other, do the stores converge, and is nothing destroyed upstream while ticks do not overlap, whatever cuts them short, but for a row a death has torn from its file? | 2 mirrored mailboxes and one that is not, 1 flag, 1 server edit, 1 run of `sync`, 1 failed request or lost reply, 1 death, 6 files, any of which may refuse to be removed |
| `oneshot` | Is nothing destroyed upstream while the user is idle, with the command: no. | 1 server edit, 1 run of `sync` |

The bounds count disturbances, not steps: ticks and attempts go on for ever. Two
edits on each side and one failure are enough for every pair of disturbances between
any two steps of a tick; all state of EmailSync is per e-mail except pages and
chunks, for which `mirror` has two e-mails and pages of one. In the mailbox tree
three mailboxes give a path of depth three and siblings; two messages let one
attempt delay or overtake another. In DaemonLoop a channel of one place is full as
soon as anything is in it, so that every sender meets a full channel; two changes,
and for the safety properties two changes with channels and bursts of two, were
tried and found nothing more. In TwoTicks one run of the command meets any number of
ticks of the daemon. One edit, one failure and one death are enough for each pair of
them; the theorems below hold for any number. Six files are enough, as a seventh
download would stop the daemon for good and with it `StoresConverge`.
`MCMailboxSync` uses symmetry in runs without liveness only.

The switches `ServerMoves`, `UserMidTick`, `Renames`, `Full`, `Unkeeps`,
`LateSidecar` and `EarlyRelease` restrict the environment, `Moves` that of TwoTicks,
where `Synced` chooses the initial state. A passing run sets one where the code does
not keep the property without it; each such case is either a violating run or stated
in the note of a hazard. `parked` and `missed` in Submit, `gap` and `lapsed` in
DaemonLoop are the counterpart for liveness: what the code itself leaves undone is
recorded and excused, and nothing else.

### Findings

* `midtick`: `move_email` rewrites the row although it did not move the file, when
  the mail client has renamed it since detection; the next tick destroys the e-mail
  upstream (email.rs:504).
* `boxrename`: renaming a mailbox moves its directory but not the paths of its
  e-mails; the e-mail pass of the same tick destroys them upstream (mailbox.rs:428).
* `queuerace`: the daemon can take a message up before jmapqueue has written its
  sidecar, and moves it to Failed (jmapqueue.rs:134).
* `oneshot`: the daemon removes the file and then the row of an e-mail that was moved
  out of the mirror; a one-shot `sync` that read the row before finds no file, takes
  it for deleted by the user and destroys the e-mail upstream (mod.rs:534). With
  `Moves = FALSE` the same follows from a keyword change alone: between deleting and
  inserting the memberships (email.rs:934) the e-mail looks like an orphan to the
  cleanup of the other process.

`SerialTicksDestroyNothing` excepts torn rows because the code does destroy there: the
daemon removes the file of an e-mail that was moved out of the mirror, or renames it to
another directory, dies before the statement that says so (email.rs:505, 892), and the
next tick, which finds no file at the stored path, takes it for deleted by the user.
Without the exception TLC finds this in one process alone. It is the crash case of
`midtick`, and the reason why `DestroyOnlyOnRequest` is checked without crashes. The
exception is narrow: it covers no other row, no other place of death and no failure,
and ends as soon as the row has been told.

Of other doubtful cases no run is kept. `sync_mode = "mirror"`, pull-only in
README.md:56, is read nowhere. `exclude_mailboxes` is to be ignored in both
directions (config.rs:148-150); a server mailbox of that name is nevertheless
mirrored into the folder. A mailbox deleted with mail in it cannot be removed from
the table, as its e-mails refer to it, and every later tick fails there
(mailbox.rs:463, `KeepsSyncing` with `Full`). A mailbox whose directory is missing
and whose new path lies below its old one cannot be renamed either, because
mailbox.rs:424 makes the old directory first. A flag whose push was applied and not
acknowledged is pushed again and overrides what another client did to it since
(email.rs:681; `PatchesComeFromUser` allows exactly this). The sidecar is gone when
a message fails, so the retry a drag-back asks for fails at once (submit.rs:674).
The hazard notes name those around crashes, releases of scheduled mail, unsubscribed
parents and e-mails downloaded twice. Two came up in the proofs. When two mirrored
mailboxes tie in role, sort order and name, `pick_primary_mailbox` (email.rs:963)
takes the one that happens to be listed first, so an e-mail in both may be moved to
and fro by ticks in which nothing changed (`SecondTickWritesNothing` without
`Ranked`); siblings have distinct names (RFC 8621), so the two have different
parents. When two names give the same directory, through box_mapping or because of a
slash (`sanitize_segment`, mailbox.rs:202), deleting one mailbox removes the Maildir
of the other, and the e-mail pass destroys its mail upstream (`DirsMirrored` and
`MailStays` without `Distinct`). What DaemonLoop excuses the code leaves to the poll
timer.

## Fairness

`FairSpec` of EmailSync and MailboxSync asks for weak fairness of the daemon's
steps together: the poll timer starts a tick again and again, a tick is sequential
code, and every request ends within the client's timeout. The environment is not
fair; failures are bounded in number, so that convergence speaks of the time after
the last one. A request that fails needs no fairness. `FairSpec` of Submit asks the
same of the submit loop, which is supervised and restarted, and that jmapqueue does
finish; the server need not ever release scheduled mail, the mail client need not
act. `FairSpec` of DaemonLoop asks for weak fairness of each thread and task on its
own: the main task, the notify thread (`Forward`), the debouncer, the two workers and
the timer. Requests end within the client's timeout, sleeps and timers run out,
nm-online answers or is killed; nothing is asked of the signal, the server's
announcements or a hook. `FairSpec` of TwoTicks lets the daemon tick again and again,
and a run of the command, once begun, go on to its end.

Deadlock is checked except in Submit, whose loop waits for events once there is
nothing to send, and in DaemonLoop, which may be cancelled or, without a timer, have
nothing to do.

## Proofs

`EmailSyncProofs` proves `TypeCorrect`, `Spec => []TypeOK`, for any sets of e-mails,
mailboxes and keywords, any page and chunk size and any bounds, from the module's
assumptions `SetsAssumption`, `SizesAssumption`, `BoundsAssumption` and
`NullsAssumption`. Types alone are not inductive, because steps use locals that
other steps left for them: reconciling an accepted entry reads the row that
detection read, writing memberships needs the row to exist. `ControlOK` says what
each step label promises about the locals, is part of `TypeOK`, and makes it
inductive. Page and chunk enter the proof only as subsets of the e-mails and
`pos` as a number, so none of it depends on cardinalities.

`EmailSyncSafety` proves, again for all sets and sizes, any number of edits and any
number of failed requests, lost replies and files that cannot be removed:

| theorem | states | assumes |
|---|---|---|
| `DestroysAreRequested` | `Spec => DestroyOnlyOnRequest` | `Orderly` |
| `PatchesAreEdits` | `Spec => PatchesComeFromUser` | `Orderly` |
| `IdleUserPushesNothing` | `Spec => []NothingToPush` | `MaxUser = 0`, `MaxCrash = 0` |
| `IdleUserLeavesNoStray` | `Spec => []NoStray` | `MaxUser = 0`, `MaxCrash = 0`, `MaxStuck = 0` |

`Orderly` is: no crash, and either an idle user (`MaxUser = 0`) or one who edits only
before the tick reads the Maildir (`~UserMidTick`), with flags that have a keyword
(`Odd = {}`), and a server that rejects no entry it could accept (`MaxReject = 0`).
`twoway` and `mirror` are instances of it. The conditions share one reason: in each
omitted case `move_email` can meet a file that is not under the stored path, or a
crash comes between its rename and its row, and the next tick takes the file for
deleted. `midtick` shows one of these cases; with any other one of the conditions
relaxed (an odd flag, one rejection, one crash) TLC finds `DestroyOnlyOnRequest`
violated on the bounds of `twoway` too.

The invariant, `SafetyInv`, has five parts. `FilesOK` is the heart of it: unless the
tick is between writing a file and its row (`Torn`), a row and its file differ by
what the user did and no more. That is not inductive alone, because apply renames a
file only when it is still under the path that detection read. So `PushOK` says
what detection found still holds while it is pushed and reconciled, `ApplyOK` that
every e-mail still to be applied (`Pending`) has its file under the path read
before, and that no e-mail is applied twice in one tick, and `WritingOK` that the
row about to be written names the file just written. `IdleOK` collects what else
holds for an idle user. The two places where the conditions enter are `DetectFinds`
(a row that is neither pushed as a destroy nor as an update has its file exactly
under its stored path) and `SetEmailsSafe` (an entry that was not accepted is gone
from the server, so it is not hydrated either). There is one lemma per action; the
three renaming actions share `WriteNextSafe`, the deletions `RemoveFileSafe`. Before
the proof `SafetyInv` was checked with TLC on the bounds of `twoway`, and on those of
`mirror` with an odd flag and two rejections.

`EmailSyncMirror` follows one tick from its start to its end:

| theorem | states | assumes |
|---|---|---|
| `FlagsSurvive` | `Spec => UnpushedFlagsSurvive` | |
| `CalmTicksMirror` | `Spec => []CalmTickMirrors` | `Odd = {}` |
| `SecondTickIsSilent` | `Spec => []SecondTickWritesNothing` | `Odd = {}`, `Ranked` |

None of them restricts crashes, edits, rejections or lost replies before the tick in
question. `FlagsSurvive` rests on `BaseInv`: a row's path and its keywords show the
same flags, and what the tick will still compare of a row it has read (`Waiting`) is
what the table says, so a rename from the exact stored name meets no flag that the
row does not know. `CalmOK` says, stage by stage, what a tick that nobody has
disturbed since it began has achieved: after detection every difference that the
user made is in `changed`, after the reconciliation none is left, after the delete
pass nothing out of scope is left, and during the hydration every e-mail that has
been passed has its row, file and memberships as the server has them. That the pages
list every e-mail in the mirror is part of it (`PageCalm`): a page is the set of
e-mails at the next places of the sorted list, and a short page is the last one
(`ShortPageIsLast` of `OrderLemmas`). `Odd = {}`, no flag without a keyword, is
needed because such a flag stays in the file's name and is never pushed. `Ranked`
says that no two mirrored mailboxes tie in the choice of the primary one; the run
`chaos`, which checks all three, satisfies both.

`MailboxSyncProofs`, for any sets of mailboxes, names and e-mails and any bounds:

| theorem | states | assumes |
|---|---|---|
| `TypeCorrect` | `Spec => []TypeOK` | |
| `RowsAreMirrored` | `Spec => []RowsMirrored` | |
| `ClientFoldersSurvive` | `Spec => []ClientFoldersStay` | `Renames = FALSE` |
| `DirsAreMirrored` | `Spec => []DirsMirrored` | the same, `Unkeeps = FALSE`, `Distinct` |
| `MailSurvives` | `Spec => MailStays` | the same |
| `FilesFollow` | `Spec => FilesFollowServer` | the same, and `Full = FALSE` |

`Distinct` says that no two names give one directory. Each hypothesis is needed: TLC
finds a counterexample to the property without it. The first half of the module is about
paths. A path is defined by recursion along the parents; `IsPaths` states what a table of
paths must satisfy, `PathsUnique` that there is at most one (by a least
counterexample), and `CreatePaths`, `DestroyPaths`, `KeepPaths` and `RenamePaths` that
there still is one after each edit of the tree: grafting a subtree under a mailbox
outside of it makes no cycle. `RowsOK` then says for each mailbox which of known row,
target row and row of the table agree, from the fetch to the last statement, including
the rounds of the topological order. `StillOK` says that without renames a mailbox
keeps its path for life, so that no update moves a directory; `KeptOK` that
what is to be deleted is gone from the server, and `ApartOK` that its path is not above
that of a mailbox that is there (`OnePathEach`, `LeafPaths`), so that removing its
directory spares the others; `DirsOK` puts these together. `MailOK` says that the file
of each stored e-mail is where its row says, unless its mailbox is `Wedged`: destroyed
with mail in it, so that its row cannot be removed and no tick reaches the e-mail pass.
Hence no e-mail pass finds anything `Missing`, and `MailSurvives` holds with
`Full = TRUE` too, where `KeepsSyncing` fails. The invariants were checked with TLC on
the bounds of `boxtree` and `boxchaos` before they were proved.

`SubmitProofs` covers crashes, refusals, lost replies and the mail client at any step,
any number of messages:

| theorem | states | assumes |
|---|---|---|
| `TypeCorrect` | `Spec => []TypeOK` | |
| `NothingIsLost` | `Spec => []NothingLost` | |
| `RequestsAreMarked` | `Spec => []WireIsMarked` | |
| `SubmittedOnce` | `Spec => []AtMostOnce` | `~EarlyRelease` |
| `SubmitImplementsDelivery` | `Spec => DeliveryKept` | `~EarlyRelease` |

`JobOK` types what an attempt holds at each stage. `KeepInv` adds to `NothingLost` who
may remove a file and when: at *success* the server has accepted, at *unlink* the
message is in Failed, and a message the server keeps in Sent has a submission.
`MarkInv` says that an envelope exists only for a message whose sidecar jmapqueue has
written, so that the mark has a place. `OnceInv` ties the number of submissions to the
mailbox in which the server keeps the message: in Drafts there is none, outside of
scheduled mail there is one exactly when it is in Sent, which is what
`reconcile_after_import` looks at. With `EarlyRelease` the server may release a
scheduled submission while an attempt is still repeated; then it is neither pending
nor refiled, and the code submits again. Both theorems need the assumption for this
reason only. The refinement adds one step per action (`MatchNext`): each is a step of
`Delivery` under the mapping or leaves all of it unchanged.

`DaemonLoopProofs`, for any capacities, delays and bounds:

| theorem | states | invariant |
|---|---|---|
| `TypeCorrect` | `Spec => []TypeOK` | with what each place of a worker implies |
| `LocalSignalsSurvive` | `Spec => []LocalChangeNoticed` | `SignalInv` |
| `RemoteSignalsSurvive` | `Spec => []RemoteChangeNoticed` | `SignalInv` |
| `NoticesCorrect` | `Spec => []NoticesAreTrue` | `NoticeInv` |
| `CancellationIsFinal` | `Spec => NothingBeginsOnceCancelled` | `PlaceOK` |

`SignalInv` needs `PlaceOK`, which says at which places of the loop a tick can be
running and a stream or a watch can exist: otherwise a tick that ends while nobody
listens would strand a change. `NoticeInv` relates a notifier's memory, the last
notice and the delay.

`TwoTicksProofs`, for any mailboxes, flags and bounds:

| theorem | states | assumes |
|---|---|---|
| `TypeCorrect` | `Spec => []TypeOK` | |
| `RowsAreBacked` | `Spec => []RowsKeepFiles` | |
| `SerialTicksAreSafe` | `Spec => SerialTicksDestroyNothing` | |
| `OneTickRepairs` | `Spec => []LoneTickRepairs` | |

`Sound` says what a step relies on in its own locals; no step touches the other
process's. `FileInv` strengthens `RowsKeepFiles` by `BasesOK` (every base name in use
has been drawn) and `OwnOK` (a file that waits for its row is nobody else's, so that
nobody removes it). Each action is either `Quiet`, removing no file, or `Taking`, and
then goes on to the row or dies and leaves it torn. `SerialInv` describes a process
whose tick has never met another (`SerialOK`): between two ticks, and at each place of
a tick, the row it has read is the row there is, and the file is where the row says
unless the row is torn, or the statement that tells it is the next one. So detection
finds something to push for a torn row only. It is the counterpart of the run
`oneshot`: the daemon's lock, taken by the command as well, would exclude what that run
shows, and would leave what a death in the wrong place does. `LoneOK` takes
any file, row and memberships at the start of the daemon's tick and says what each
statement of a tick that nobody interferes with has made certain; an insert of such a
tick, for one, finds no row to collide with.

`OrderLemmas` proves what these proofs share. The prover cannot instantiate the
library's induction theorems, which take a predicate as an operator; the lemmas go
through the least element of a set of naturals and the smallest subset with a property
instead (well-foundedness of `<` and of strict inclusion), which is enough for
induction along a finite set, for paths in a tree and for paging.

Left to TLC is liveness, which TLAPS does not do under fairness: `Convergence`,
`TreesConverge`, `KeepsSyncing`, `EveryMessageSettled`, `ChangesArrive`,
`EchoesDieOut`, `ShutdownCompletes` and `StoresConverge`. Every invariant and every
action property of a passing run is stated by a theorem. The theorems' hypotheses
are those under which the runs pass too; what happens outside of them is shown by the
violating runs or said under Findings.

## Not modelled

`dry_run`; the early return for an account without mailboxes; token and client
set-up, configuration, logging; a second account, which shares nothing with the first
but the token; the flock itself, which is the kernel's; what the hook does apart from
writing below the Maildir; amounts of time; in Submit failing sidecar writes, bounded
event channels, and the set `known_failures`, which is written and never read; the
bytes of messages and headers, and jmapqueue's choice of the account. `role` and
`sort_order` of mailboxes are represented by `Rank` in EmailSync and left out of the
comparison in MailboxSync. Two mailbox passes at once, and a user who acts while two
processes run, are not in TwoTicks. In MailboxSync, removing a directory does not fail.

## What is left

1. An abstract mirror (one step per e-mail and tick) that EmailSync implements in the
   absence of user edits, and the same for TwoTicks after its last disturbance.
2. Two mailbox passes over one table and one tree of directories.
3. The hazards in `PROJECT.json` that have no property yet.
