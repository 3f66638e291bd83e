------------------------------- MODULE TwoTicks -------------------------------
(***************************************************************************)
(* Two processes that synchronise one account at the same time: the daemon *)
(* and the one-shot command sync, which takes no lock                      *)
(* (src/src/daemon/single_instance.rs).  Each runs the e-mail pass of      *)
(* EmailSync (src/src/sync/email.rs) and the orphan cleanup before it,     *)
(* over one server, one database and one Maildir.                          *)
(*                                                                         *)
(* Whatever the two share is kept per e-mail, so one e-mail is modelled,   *)
(* in one mailbox at a time.  Since two processes meet at any system call  *)
(* and any SQL statement, these are steps of their own here; reading a     *)
(* directory is one step, and so is reading memberships and deleting them. *)
(* A process may die between any two of its steps, and is started again.   *)
(* Nobody else touches the Maildir.  The mailbox pass is left out: the     *)
(* tree is fixed.                                                          *)
(***************************************************************************)
EXTENDS Naturals

CONSTANTS
    Box,        \* mirrored mailboxes
    Elsewhere,  \* a mailbox that is not mirrored
    Flag,       \* keywords with a Maildir flag
    Synced,     \* does the account start out mirrored?
    NoFile, NoRow, NoMessage, Gone

CONSTANTS       \* bounds
    MaxServer,  \* edits by other JMAP clients
    Moves,      \* may these change the mailbox?
    MaxSync,    \* runs of the command sync
    MaxFault,   \* requests that fail, or whose reply is lost
    MaxCrash,   \* deaths of a process in the middle of its tick
    MaxBase     \* files written

Process == {"daemon", "sync"}

\* Each download names its file after a new UUID and each row gets a new id;
\* the two are drawn together, and one number stands for both.
Base == 1 .. MaxBase
Path == [dir : Box, flags : SUBSET Flag]
Row == [base : Base, path : Path, members : SUBSET Box]
Message == [in : Box \cup {Elsewhere}, kw : SUBSET Flag]

ASSUME NamesAssumption ==
    /\ Elsewhere \notin Box
    /\ NoFile \notin Path /\ NoRow \notin Row
    /\ NoMessage \notin Message /\ Gone \notin Message

ASSUME BoundsAssumption ==
    /\ Synced \in BOOLEAN /\ Moves \in BOOLEAN
    /\ MaxServer \in Nat /\ MaxSync \in Nat /\ MaxFault \in Nat /\ MaxCrash \in Nat
    /\ MaxBase \in Nat \ {0}

VARIABLES
    server,  \* the e-mail on the server
    file,    \* files in the Maildir, by base name
    row,     \* its row in the database, with the membership rows
    bases,   \* base names used so far
    tick,    \* the locals of the tick each process is in
    spent,   \* how often each environment has acted
    calm,    \* has the daemon's tick been undisturbed since it began?
    overlap, \* has a tick ever begun while the other process was in one?
    torn     \* rows whose file was taken or renamed by a tick that died before it
             \* told the row, by base name, until the row is told

stores == <<server, file, row, bases>>
history == <<calm, overlap, torn>>
vars == <<stores, tick, spent, history>>

Pcs == {"idle", "orphans", "query", "rows", "detect", "set", "reconcile", "deletes",
        "get", "apply", "insert", "rename", "update", "clear", "join", "drop"}

\* back: where the tick goes on after a deletion.  local: the row it has read,
\* or is about to insert.
Tick == [pc : Pcs, back : Pcs, listed : BOOLEAN, local : Row \cup {NoRow},
         found : Path \cup {NoFile}, got : Message \cup {NoMessage}]

Idle == [pc |-> "idle", back |-> "idle", listed |-> FALSE, local |-> NoRow,
         found |-> NoFile, got |-> NoMessage]

Spent == [server : 0 .. MaxServer, sync : 0 .. MaxSync, fault : 0 .. MaxFault,
          crash : 0 .. MaxCrash]

TypeOK ==
    /\ server \in Message \cup {Gone}
    /\ file \in [Base -> Path \cup {NoFile}]
    /\ row \in Row \cup {NoRow}
    /\ bases \in 0 .. MaxBase
    /\ tick \in [Process -> Tick]
    /\ spent \in Spent
    /\ calm \in BOOLEAN /\ overlap \in BOOLEAN
    /\ torn \subseteq Base

Mirror(m) == [base |-> 1, path |-> [dir |-> m.in, flags |-> m.kw], members |-> {m.in}]

Init ==
    /\ server \in [in : Box, kw : {{}}]
    /\ row = IF Synced THEN Mirror(server) ELSE NoRow
    /\ file = [b \in Base |-> IF Synced /\ b = 1 THEN Mirror(server).path ELSE NoFile]
    /\ bases = IF Synced THEN 1 ELSE 0
    /\ tick = [p \in Process |-> Idle]
    /\ spent = [server |-> 0, sync |-> 0, fault |-> 0, crash |-> 0]
    /\ calm = FALSE /\ overlap = FALSE
    /\ torn = {}

(***************************************************************************)
(* Steps                                                                   *)
(***************************************************************************)
At(p, pc) == tick[p].pc = pc
Local(p) == tick[p].local
Becomes(p, t) == tick' = [tick EXCEPT ![p] = t]
Goto(p, pc) == Becomes(p, [tick[p] EXCEPT !.pc = pc])

\* The tick is over; a failed statement or rename ends it with an error.
End(p) == Becomes(p, Idle)

\* The file of the row that p has read is still under the name stored there.
InPlace(p) == file[Local(p).base] = Local(p).path

\* Mutant: the row must be as p has read it.
SameContent(p) == row = Local(p)

\* A row found by its id: the one p has read, whatever it holds by now.
SameRow(p) == row # NoRow /\ row.base = Local(p).base

\* UPDATE ... WHERE id changes no row if there is none any more.
UpdateRow(p, path) ==
    /\ row' = IF SameRow(p) THEN [row EXCEPT !.path = path] ELSE row
    /\ torn' = IF SameRow(p) /\ file[row.base] = path THEN torn \ {row.base} ELSE torn

\* remove_file, if the file is there; an error is only warned about.
RemoveFile(p) ==
    \/ UNCHANGED file
    \/ InPlace(p) /\ file' = [file EXCEPT ![Local(p).base] = NoFile]

\* delete_email: the file, and in a second step the row.
Remove(p, back) ==
    /\ RemoveFile(p)
    /\ Becomes(p, [tick[p] EXCEPT !.pc = "drop", !.back = back])
    /\ UNCHANGED <<server, row, bases, spent, history>>

Drop(p) ==
    /\ At(p, "drop")
    /\ row' = IF SameRow(p) THEN NoRow ELSE row
    /\ Becomes(p, [tick[p] EXCEPT !.pc = tick[p].back, !.local = NoRow])
    /\ UNCHANGED <<server, file, bases, spent, history>>

(***************************************************************************)
(* Orphan cleanup: a row that had no memberships when the rows were asked  *)
(* for.                                                                    *)
(***************************************************************************)
Start(p) ==
    /\ At(p, "idle")
    /\ p = "sync" => spent.sync < MaxSync
    /\ spent' = IF p = "sync" THEN [spent EXCEPT !.sync = @ + 1] ELSE spent
    /\ Becomes(p, [Idle EXCEPT
                     !.pc = "orphans",
                     !.local = IF row # NoRow /\ row.members = {} THEN row ELSE NoRow])
    /\ calm' = (p = "daemon" /\ At("sync", "idle"))
    /\ overlap' = (overlap \/ \E q \in Process \ {p} : ~At(q, "idle"))
    /\ UNCHANGED <<stores, torn>>

CleanupOrphan(p) ==
    /\ At(p, "orphans")
    /\ Local(p) # NoRow
    /\ Remove(p, "query")

NoOrphan(p) ==
    /\ At(p, "orphans")
    /\ Local(p) = NoRow
    /\ Goto(p, "query")
    /\ UNCHANGED <<stores, spent, history>>

(***************************************************************************)
(* Query, detection and write-back                                         *)
(***************************************************************************)
Query(p) ==
    /\ At(p, "query")
    /\ Becomes(p, [tick[p] EXCEPT !.pc = "rows",
                                !.listed = server # Gone /\ server.in \in Box])
    /\ UNCHANGED <<stores, spent, history>>

ReadRows(p) ==
    /\ At(p, "rows")
    /\ Becomes(p, [tick[p] EXCEPT !.pc = "detect", !.local = row])
    /\ UNCHANGED <<stores, spent, history>>

\* resolve_current_file: the base name in the stored directory.
Resolve(r) ==
    IF file[r.base] # NoFile /\ file[r.base].dir = r.path.dir THEN file[r.base] ELSE NoFile

Detect(p) ==
    LET found == IF Local(p) = NoRow THEN NoFile ELSE Resolve(Local(p))
        changed == Local(p) # NoRow /\ (found = NoFile \/ found.flags # Local(p).path.flags)
    IN
    /\ At(p, "detect")
    /\ Becomes(p, [tick[p] EXCEPT !.pc = IF changed THEN "set" ELSE "deletes",
                                !.found = found])
    /\ UNCHANGED <<stores, spent, history>>

\* Only the flags that differ from the stored ones are patched.
Patched(kw, stored, flags) == (kw \cup (flags \ stored)) \ (stored \ flags)

\* What the request asks for, applied.
Push(p) ==
    /\ At(p, "set")
    /\ server # Gone
    /\ server' = IF tick[p].found = NoFile
                 THEN Gone
                 ELSE [server EXCEPT !.kw = Patched(@, Local(p).path.flags, tick[p].found.flags)]

SetEmail(p) ==
    /\ Push(p)
    /\ Goto(p, "reconcile")
    /\ UNCHANGED <<file, row, bases, spent, history>>

\* An id the server no longer has.
SetRejected(p) ==
    /\ At(p, "set")
    /\ server = Gone
    /\ Goto(p, "deletes")
    /\ UNCHANGED <<stores, spent, history>>

ReconcileDestroyed(p) ==
    /\ At(p, "reconcile")
    /\ tick[p].found = NoFile
    /\ RemoveFile(p)
    /\ Becomes(p, [tick[p] EXCEPT !.pc = "drop", !.back = "deletes", !.listed = FALSE])
    /\ UNCHANGED <<server, row, bases, spent, history>>

ReconcileUpdated(p) ==
    /\ At(p, "reconcile")
    /\ tick[p].found # NoFile
    /\ UpdateRow(p, tick[p].found)
    /\ Becomes(p, [tick[p] EXCEPT !.pc = "deletes", !.local.path = tick[p].found])
    /\ UNCHANGED <<server, file, bases, spent, calm, overlap>>

(***************************************************************************)
(* Deletions and hydration                                                 *)
(***************************************************************************)
DeleteGone(p) ==
    /\ At(p, "deletes")
    /\ Local(p) # NoRow /\ ~tick[p].listed
    /\ Remove(p, "get")

NothingGone(p) ==
    /\ At(p, "deletes")
    /\ Local(p) = NoRow \/ tick[p].listed
    /\ Goto(p, "get")
    /\ UNCHANGED <<stores, spent, history>>

Get(p) ==
    /\ At(p, "get")
    /\ IF tick[p].listed /\ server # Gone
       THEN Becomes(p, [tick[p] EXCEPT !.pc = "apply", !.got = server])
       ELSE End(p)
    /\ UNCHANGED <<stores, spent, history>>

(***************************************************************************)
(* apply_email                                                             *)
(***************************************************************************)
\* Mutant: whatever mailbox it is in.
Hydrated(p) == At(p, "apply")

InScope(p) == At(p, "apply") /\ tick[p].got.in \in Box
Target(p) == [dir |-> tick[p].got.in, flags |-> tick[p].got.kw]

OutOfScope(p) ==
    /\ At(p, "apply")
    /\ tick[p].got.in = Elsewhere
    /\ \/ Local(p) # NoRow /\ Remove(p, "idle")
       \/ Local(p) = NoRow /\ End(p) /\ UNCHANGED <<stores, spent, history>>

\* insert_email: the file, the row, the memberships.
Download(p) ==
    /\ InScope(p)
    /\ Local(p) = NoRow
    /\ server # Gone
    /\ bases < MaxBase
    /\ bases' = bases + 1
    /\ file' = [file EXCEPT ![bases'] = Target(p)]
    /\ Becomes(p, [tick[p] EXCEPT !.pc = "insert",
                                !.local = [base |-> bases', path |-> Target(p), members |-> {}]])
    /\ UNCHANGED <<server, row, spent, history>>

DownloadFails(p) ==
    /\ InScope(p)
    /\ Local(p) = NoRow
    /\ server = Gone
    /\ End(p)
    /\ UNCHANGED <<stores, spent, history>>

\* jmap_id is UNIQUE: the second of two inserts fails, and leaves its file.
InsertRow(p) ==
    /\ At(p, "insert")
    /\ IF row = NoRow
       THEN row' = Local(p) /\ Goto(p, "join")
       ELSE UNCHANGED row /\ End(p)
    /\ UNCHANGED <<server, file, bases, spent, history>>

\* Mutant: memberships are not compared.
CompareNames(p) ==
    LET same == Local(p).path = Target(p)
    IN
    /\ InScope(p)
    /\ Local(p) # NoRow
    /\ CASE same -> End(p)
         [] ~same /\ InPlace(p) -> Goto(p, "rename")
         [] ~same /\ ~InPlace(p) -> Goto(p, "update")
    /\ UNCHANGED <<stores, spent, history>>

\* The comparison with the row, and whether the stored path exists.
Compare(p) ==
    LET members == IF SameRow(p) THEN row.members ELSE {}
        same == Local(p).path = Target(p)
    IN
    /\ InScope(p)
    /\ Local(p) # NoRow
    /\ CASE same /\ members = {tick[p].got.in} -> End(p)
         [] same /\ members # {tick[p].got.in} -> Goto(p, "update")
         [] ~same /\ InPlace(p) -> Goto(p, "rename")
         [] ~same /\ ~InPlace(p) -> Goto(p, "update")
    /\ UNCHANGED <<stores, spent, history>>

\* Mutant: a move keeps the file in its directory.
RenameInPlace(p) ==
    /\ At(p, "rename")
    /\ IF InPlace(p)
       THEN file' = [file EXCEPT ![Local(p).base].flags = tick[p].got.kw] /\ Goto(p, "update")
       ELSE UNCHANGED file /\ End(p)
    /\ UNCHANGED <<server, row, bases, spent, history>>

\* move_email and update_email_in_place.  The path was there a moment ago; if
\* the other process has renamed it since, rename(2) fails.
Rename(p) ==
    /\ At(p, "rename")
    /\ IF InPlace(p)
       THEN file' = [file EXCEPT ![Local(p).base] = Target(p)] /\ Goto(p, "update")
       ELSE UNCHANGED file /\ End(p)
    /\ UNCHANGED <<server, row, bases, spent, history>>

Update(p) ==
    /\ At(p, "update")
    /\ UpdateRow(p, Target(p))
    /\ Goto(p, "clear")
    /\ UNCHANGED <<server, file, bases, spent, calm, overlap>>

ClearMembers(p) ==
    /\ At(p, "clear")
    /\ row' = IF SameRow(p) THEN [row EXCEPT !.members = {}] ELSE row
    /\ Goto(p, "join")
    /\ UNCHANGED <<server, file, bases, spent, history>>

\* Refused when the e-mail's row is gone, by the foreign key, and when the
\* membership is there already, by the primary key.
InsertMember(p) ==
    /\ At(p, "join")
    /\ row' = IF SameRow(p) THEN [row EXCEPT !.members = @ \cup {tick[p].got.in}] ELSE row
    /\ End(p)
    /\ UNCHANGED <<server, file, bases, spent, history>>

(***************************************************************************)
(* The environment                                                         *)
(***************************************************************************)
\* A request fails, also one about another e-mail.
RequestFails(p) ==
    /\ tick[p].pc \in {"query", "set", "get", "apply"}
    /\ spent.fault < MaxFault
    /\ spent' = [spent EXCEPT !.fault = @ + 1]
    /\ End(p)
    /\ calm' = FALSE
    /\ UNCHANGED <<stores, overlap, torn>>

\* The server applies the request, and the tick sees it fail.
SetReplyLost(p) ==
    /\ Push(p)
    /\ spent.fault < MaxFault
    /\ spent' = [spent EXCEPT !.fault = @ + 1]
    /\ End(p)
    /\ calm' = FALSE
    /\ UNCHANGED <<file, row, bases, overlap, torn>>

\* The file operation is done, the statement that tells the row is not.
Tearing(p) == tick[p].pc \in {"drop", "update"} /\ ~InPlace(p)

\* The process dies; only what it keeps in memory is lost.
Die(p) ==
    /\ ~At(p, "idle")
    /\ spent.crash < MaxCrash
    /\ spent' = [spent EXCEPT !.crash = @ + 1]
    /\ torn' = IF Tearing(p) THEN torn \cup {Local(p).base} ELSE torn
    /\ End(p)
    /\ calm' = FALSE
    /\ UNCHANGED <<stores, overlap>>

ServerEdit ==
    /\ server # Gone
    /\ spent.server < MaxServer
    /\ spent' = [spent EXCEPT !.server = @ + 1]
    /\ calm' = FALSE
    /\ \/ server' = Gone
       \/ \E f \in Flag :
            server' = [server EXCEPT !.kw = IF f \in @ THEN @ \ {f} ELSE @ \cup {f}]
       \/ Moves /\ \E m \in Box \cup {Elsewhere} : server' = [server EXCEPT !.in = m]
    /\ UNCHANGED <<file, row, bases, tick, overlap, torn>>

-----------------------------------------------------------------------------
Step(p) ==
    \/ CleanupOrphan(p) \/ NoOrphan(p) \/ Query(p) \/ ReadRows(p) \/ Detect(p)
    \/ SetEmail(p) \/ SetRejected(p) \/ ReconcileDestroyed(p) \/ ReconcileUpdated(p)
    \/ DeleteGone(p) \/ NothingGone(p) \/ Drop(p) \/ Get(p)
    \/ OutOfScope(p) \/ Download(p) \/ DownloadFails(p) \/ InsertRow(p)
    \/ Compare(p) \/ Rename(p) \/ Update(p) \/ ClearMembers(p) \/ InsertMember(p)

Next ==
    \/ \E p \in Process :
          Start(p) \/ Step(p) \/ RequestFails(p) \/ SetReplyLost(p) \/ Die(p)
    \/ ServerEdit

Spec == Init /\ [][Next]_vars

\* The daemon ticks again and again, is started again when it has died, and a
\* tick once begun runs on.
FairSpec ==
    /\ Spec
    /\ WF_vars(Start("daemon") \/ Step("daemon"))
    /\ WF_vars(Step("sync"))

-----------------------------------------------------------------------------
(***************************************************************************)
(* Properties                                                              *)
(***************************************************************************)
\* email.rs destroys an e-mail upstream when the user has unlinked or trashed
\* its file.  Here no user does: neither process may take what the other is
\* doing for that.
NothingDestroyed ==
    [][spent'.server = spent.server /\ server # Gone => server' # Gone]_vars

\* While no two ticks have overlapped, whichever process ran them: a tick that
\* follows one cut short takes what that one has done to the file, and the row
\* does not know yet, for the user's doing, and destroys the e-mail upstream.
\* This is so of a death between the file operation and its statement alone
\* (email.rs:505, 892): a failed request, a lost reply, a file that could not be
\* removed or a death anywhere else never destroys anything, and neither does
\* the torn row once a statement has told it where its file is.
SerialTicksDestroyNothing ==
    [][ ~overlap /\ ~(row # NoRow /\ row.base \in torn)
        /\ spent'.server = spent.server /\ server # Gone => server' # Gone]_vars

\* Server, database and Maildir agree; files without a row apart.
InSync ==
    IF server # Gone /\ server.in \in Box
    THEN row # NoRow /\ row = [Mirror(server) EXCEPT !.base = row.base]
         /\ file[row.base] = row.path
    ELSE row = NoRow

\* No row is left behind without a file, whatever the two processes make of it:
\* whoever removes the file removes the row, unless it dies in between.
RowsKeepFiles ==
    row # NoRow /\ file[row.base] = NoFile =>
        \/ row.base \in torn
        \/ \E p \in Process : At(p, "drop") /\ Local(p).base = row.base

\* Whatever the two processes did to each other's files, rows and memberships,
\* and wherever a refused statement or a death ended a tick: one tick of the daemon on
\* its own puts the three stores in agreement again.
LoneTickRepairs == calm /\ At("daemon", "idle") => InSync

\* Once the command and the other clients have done, they agree for good.
StoresConverge == <>[]InSync

=============================================================================
