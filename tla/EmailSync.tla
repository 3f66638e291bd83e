----------------------------- MODULE EmailSync -----------------------------
(***************************************************************************)
(* One account's e-mail synchronisation (src/src/sync/email.rs): the tick  *)
(* sync_emails together with the orphan cleanup that sync_mailboxes runs   *)
(* just before it.  Three stores are kept in step: the JMAP server, the    *)
(* SQLite rows and the Maildir files.  The tick is a sequence of steps,    *)
(* one per await and one per durable write, and between any two of them    *)
(* other JMAP clients edit the server, the local mail client renames or    *)
(* unlinks files, a request fails, or the process dies.                    *)
(*                                                                         *)
(* The set of mailboxes is fixed here: what sync_mailboxes does to         *)
(* directories and mailbox rows is the subject of another module.          *)
(***************************************************************************)
EXTENDS Naturals, FiniteSets

CONSTANTS
    Email,      \* JMAP e-mail ids; numbers, so that pages and chunks have an order
    Mailbox,    \* mailboxes of the server
    Scope,      \* those materialised locally (subscribed_only / box_filter)
    Rank,       \* [Scope -> Nat]: position in the order (role, sort_order, name)
    Standard,   \* keywords that have a Maildir flag; one name for both
    Label,      \* keywords without a flag
    Odd,        \* Maildir flags without a keyword, "T" apart (P, passed)
    PageSize,   \* EMAIL_QUERY_PAGE_SIZE
    ChunkSize,  \* EMAIL_GET_CHUNK_SIZE
    NoFile, NoRow, NoMessage

CONSTANTS       \* bounds on the environment
    MaxServer,    \* edits by other JMAP clients
    MaxUser,      \* edits by the local mail client
    MaxFault,     \* failed requests and lost replies
    MaxReject,    \* Email/set entries the server turns down for no other reason
    MaxCrash,     \* process deaths
    MaxStuck,     \* files that cannot be unlinked
    ServerMoves,  \* may other clients change mailboxIds?
    UserMidTick   \* may the local client edit after the tick has read the Maildir?

Trashed == "T"
Keyword == Standard \cup Label
Flag == Standard \cup Odd \cup {Trashed}

Message == [life : {"unborn", "live", "gone"}, in : SUBSET Mailbox, kw : SUBSET Keyword]
Path == [dir : Scope, flags : SUBSET Flag]
Row == [path : Path, kw : SUBSET Keyword, members : SUBSET Scope]

ASSUME SetsAssumption ==
    /\ Email \subseteq Nat /\ IsFiniteSet(Email)
    /\ Scope \subseteq Mailbox
    /\ Rank \in [Scope -> Nat]
    /\ Trashed \notin Standard \cup Odd
    /\ Standard \cap (Label \cup Odd) = {}

ASSUME SizesAssumption ==
    /\ PageSize \in Nat \ {0}
    /\ ChunkSize \in Nat \ {0}

ASSUME BoundsAssumption ==
    /\ MaxServer \in Nat /\ MaxUser \in Nat /\ MaxFault \in Nat
    /\ MaxReject \in Nat /\ MaxCrash \in Nat /\ MaxStuck \in Nat
    /\ ServerMoves \in BOOLEAN /\ UserMidTick \in BOOLEAN

ASSUME NullsAssumption ==
    /\ NoFile \notin Path
    /\ NoRow \notin Row
    /\ NoMessage \notin Message

VARIABLES
    server,   \* what the JMAP server holds, per id; a destroyed id never returns
    file,     \* the file whose {ts}.{uuid} base is the one in the row
    stray,    \* ids that own a file which no row names
    row,      \* table emails, with its email_mailboxes rows as members
    tick,     \* the locals of the running tick: what a crash forgets
    spent,    \* how often each environment has acted
    asked,    \* history: e-mails the user unlinked or marked trashed, and still has
    touched,  \* history: <<id, flag, value>> the user gave a file, until settled
    calm      \* undisturbed ticks begun in a row, counted up to 2

vars == <<server, file, stray, row, tick, spent, asked, touched, calm>>
stores == <<server, file, stray, row>>
history == <<asked, touched>>

(***************************************************************************)
(* Paths, keywords and mailboxes                                           *)
(***************************************************************************)

\* The standard part of a keyword set, as the suffix of a file name.
FlagString(kw) == kw \cap Standard

\* Stored keywords with the standard ones replaced by those on disk.
Merged(kw, flags) == (kw \ Standard) \cup (flags \cap Standard)

\* Mutant: the whole standard part overwritten from the disk.
PatchedBlindly(kw, stored, flags) == (kw \ Standard) \cup (flags \cap Standard)

\* Server keywords after patching only what differs between row and disk.
Patched(kw, stored, flags) ==
    LET add == (flags \cap Standard) \ stored
        drop == (stored \cap Standard) \ flags
    IN  (kw \cup add) \ drop

\* The mailboxes the file may live in: least rank, ties in response order.
Primaries(in) == {m \in in \cap Scope : \A n \in in \cap Scope : Rank[m] <= Rank[n]}

\* Mutant: only the exact stored path counts as the file.
ResolveExactly(e) == IF file[e] = row[e].path THEN file[e] ELSE NoFile

\* What resolve_current_file returns for a row: same directory, same base.
Resolve(e) ==
    IF file[e] # NoFile /\ file[e].dir = row[e].path.dir THEN file[e] ELSE NoFile

IsDestroy(found) == found # NoFile => Trashed \in found.flags

IsUpdate(found, r) == ~IsDestroy(found) /\ Merged(r.kw, found.flags) # r.kw

\* Email/query on m lists the live ids in order of id.
Listed(m) == {e \in Email : server[e].life = "live" /\ m \in server[e].in}

\* The ids at positions pos+1 .. pos+PageSize.
Page(m, pos) ==
    {e \in Listed(m) : LET place == Cardinality({f \in Listed(m) : f <= e})
                       IN  pos < place /\ place <= pos + PageSize}

\* Next chunk of the sorted hydration order.
Chunk(ids) == {e \in ids : Cardinality({f \in ids : f < e}) < ChunkSize}

(***************************************************************************)
(* Types                                                                   *)
(***************************************************************************)
Pcs == {"idle", "orphans", "query", "set", "reconcile", "deletes", "get",
        "apply", "row", "members", "unlinked"}

\* A step in progress on one e-mail: the row it will write, where it returns.
Job == [email : Email, row : Row \cup {NoRow},
        back : {"orphans", "reconcile", "deletes", "apply"}]
NoJob == [back |-> "idle"]

Idle == [pc |-> "idle", todo |-> {}, at |-> {}, pos |-> 0, ids |-> {},
         local |-> [e \in Email |-> NoRow], changed |-> {},
         seen |-> [e \in Email |-> NoFile], accepted |-> {},
         got |-> [e \in Email |-> NoMessage], job |-> NoJob]

Tick == [pc : Pcs, todo : SUBSET Scope, at : SUBSET Scope, pos : Nat,
         ids : SUBSET Email, local : [Email -> Row \cup {NoRow}],
         changed : SUBSET Email, seen : [Email -> Path \cup {NoFile}],
         accepted : SUBSET Email, got : [Email -> Message \cup {NoMessage}],
         job : Job \cup {NoJob}]

Spent == [server : 0 .. MaxServer, user : 0 .. MaxUser,
          fault : 0 .. MaxFault, reject : 0 .. MaxReject,
          crash : 0 .. MaxCrash, stuck : 0 .. MaxStuck]

\* What the step label promises about the locals.
ControlOK ==
    /\ tick.pc \in {"row", "members", "unlinked"} => tick.job \in Job
    /\ tick.pc \in {"row", "members"} => tick.job.row \in Row
    /\ tick.pc = "members" => row[tick.job.email] \in Row
    /\ tick.pc = "set" => \A e \in tick.changed : tick.local[e] \in Row
    /\ tick.accepted # {} => \/ tick.pc = "reconcile"
                             \/ tick.pc = "unlinked" /\ tick.job.back = "reconcile"
    /\ \A e \in tick.accepted : tick.local[e] \in Row

TypeOK ==
    /\ ControlOK
    /\ server \in [Email -> Message]
    /\ file \in [Email -> Path \cup {NoFile}]
    /\ stray \subseteq Email
    /\ row \in [Email -> Row \cup {NoRow}]
    /\ tick \in Tick
    /\ spent \in Spent
    /\ asked \subseteq Email
    /\ touched \subseteq Email \X Flag \X BOOLEAN
    /\ calm \in 0 .. 2

(***************************************************************************)
(* A new account: empty database, empty Maildir, any mail on the server.   *)
(***************************************************************************)
Unborn == [life |-> "unborn", in |-> {}, kw |-> {}]
Arrived(m) == [life |-> "live", in |-> {m}, kw |-> {}]

Init ==
    /\ server \in [Email -> {Unborn} \cup {Arrived(m) : m \in Scope}]
    /\ file = [e \in Email |-> NoFile]
    /\ stray = {}
    /\ row = [e \in Email |-> NoRow]
    /\ tick = Idle
    /\ spent = [server |-> 0, user |-> 0, fault |-> 0, reject |-> 0,
                 crash |-> 0, stuck |-> 0]
    /\ asked = {}
    /\ touched = {}
    /\ calm = 0

(***************************************************************************)
(* The user's edits, as the properties remember them.  An edit of a flag   *)
(* is settled when the server has acknowledged its push and the row is     *)
(* written, or when a value of the server's has replaced it in the file.   *)
(***************************************************************************)
\* What stays unsettled once the row of e is written with keywords kw: the
\* edits its file shows and kw does not.
Unsettled(e, kw) ==
    {t \in touched : t[1] = e => /\ file[e] # NoFile
                                 /\ (t[2] \in file[e].flags) = t[3]
                                 /\ (t[2] \in kw) # t[3]}

(***************************************************************************)
(* delete_email: the file under the given path if it is there, then the    *)
(* row.  A file that has been renamed meanwhile is left behind, and so is  *)
(* one that cannot be removed: that is only a warning.                     *)
(***************************************************************************)
\* Mutant: the file is left where it is.
RemoveNothing(e, path) == UNCHANGED <<file, spent>>

RemoveFile(e, path) ==
    \/ /\ file' = IF file[e] = path THEN [file EXCEPT ![e] = NoFile] ELSE file
       /\ UNCHANGED spent
    \/ /\ file[e] = path
       /\ spent.stuck < MaxStuck
       /\ spent' = [spent EXCEPT !.stuck = @ + 1]
       /\ UNCHANGED file

Deleting(e, back) == [email |-> e, row |-> NoRow, back |-> back]

DeleteRow ==
    LET e == tick.job.email IN
    /\ tick.pc = "unlinked"
    /\ row' = [row EXCEPT ![e] = NoRow]
    /\ stray' = IF file[e] = NoFile THEN stray ELSE stray \cup {e}
    /\ file' = [file EXCEPT ![e] = NoFile]
    /\ tick' = [tick EXCEPT !.pc = tick.job.back, !.job = NoJob]
    /\ asked' = asked \ {e}
    /\ touched' = {t \in touched : t[1] # e}
    /\ UNCHANGED <<server, spent, calm>>

(***************************************************************************)
(* Start of a tick: rows left without memberships go first.                *)
(***************************************************************************)
StartTick ==
    /\ tick.pc = "idle"
    /\ tick' = [Idle EXCEPT !.pc = "orphans"]
    /\ calm' = IF calm = 0 THEN 1 ELSE 2
    /\ UNCHANGED <<stores, spent, history>>

IsOrphan(e) == row[e] # NoRow /\ row[e].members = {}

CleanupOrphan(e) ==
    /\ tick.pc = "orphans"
    /\ IsOrphan(e)
    /\ RemoveFile(e, row[e].path)
    /\ tick' = [tick EXCEPT !.pc = "unlinked", !.job = Deleting(e, "orphans")]
    /\ UNCHANGED <<server, stray, row, history, calm>>

CleanupDone ==
    /\ tick.pc = "orphans"
    /\ \A e \in Email : ~IsOrphan(e)
    /\ tick' = [tick EXCEPT !.pc = "query", !.todo = Scope]
    /\ UNCHANGED <<stores, spent, history, calm>>

(***************************************************************************)
(* fetch_all_email_ids: mailbox after mailbox, page after page, each page  *)
(* a request of its own.                                                   *)
(***************************************************************************)
QueryPage(m) ==
    LET page == Page(m, tick.pos)
        last == Cardinality(page) < PageSize
    IN
    /\ tick.pc = "query"
    /\ m \in (IF tick.at = {} THEN tick.todo ELSE tick.at)
    /\ tick' = [tick EXCEPT
                  !.ids = @ \cup page,
                  !.todo = IF last THEN @ \ {m} ELSE @,
                  !.at = IF last THEN {} ELSE {m},
                  !.pos = IF last THEN 0 ELSE @ + PageSize]
    /\ UNCHANGED <<stores, spent, history, calm>>

(***************************************************************************)
(* get_all_emails and detect_local_writeback, with no await in between.    *)
(***************************************************************************)
Detect ==
    LET seen == [e \in Email |-> IF row[e] = NoRow THEN NoFile ELSE Resolve(e)]
        changed == {e \in Email : row[e] # NoRow /\
                       (IsDestroy(seen[e]) \/ IsUpdate(seen[e], row[e]))}
    IN
    /\ tick.pc = "query"
    /\ tick.todo = {}
    /\ tick' = [tick EXCEPT
                  !.local = row,
                  !.changed = changed,
                  !.seen = [e \in Email |-> IF e \in changed THEN seen[e] ELSE NoFile],
                  !.pc = IF changed = {} THEN "deletes" ELSE "set"]
    /\ UNCHANGED <<stores, spent, history, calm>>

(***************************************************************************)
(* apply_writeback: one Email/set.  An id the server no longer has is      *)
(* rejected, any other entry may be.  The reply may be lost.               *)
(***************************************************************************)
WrittenBack(e) ==
    IF IsDestroy(tick.seen[e])
    THEN [life |-> "gone", in |-> {}, kw |-> {}]
    ELSE [server[e] EXCEPT !.kw = Patched(@, tick.local[e].kw, tick.seen[e].flags)]

ServerAccepts(accepted) ==
    server' = [e \in Email |-> IF e \in accepted THEN WrittenBack(e) ELSE server[e]]

Acceptable == {e \in tick.changed : server[e].life = "live"}

SetEmails ==
    /\ tick.pc = "set"
    /\ \E accepted \in SUBSET Acceptable :
         /\ spent.reject + Cardinality(Acceptable \ accepted) <= MaxReject
         /\ ServerAccepts(accepted)
         /\ spent' = [spent EXCEPT !.reject = @ + Cardinality(Acceptable \ accepted)]
         /\ calm' = IF accepted = Acceptable THEN calm ELSE 0
         /\ tick' = [tick EXCEPT !.pc = "reconcile", !.accepted = accepted]
    /\ UNCHANGED <<file, stray, row, history>>

SetReplyLost ==
    /\ tick.pc = "set"
    /\ spent.fault < MaxFault
    /\ ServerAccepts(Acceptable)
    /\ spent' = [spent EXCEPT !.fault = @ + 1]
    /\ tick' = Idle
    /\ calm' = 0
    /\ UNCHANGED <<file, stray, row, history>>

\* A destroy that succeeded: the path found at detection, else the stored one.
ReconcileDestroyed(e) ==
    /\ tick.pc = "reconcile"
    /\ e \in tick.accepted
    /\ IsDestroy(tick.seen[e])
    /\ RemoveFile(e, IF tick.seen[e] = NoFile THEN tick.local[e].path ELSE tick.seen[e])
    /\ tick' = [tick EXCEPT !.pc = "unlinked", !.job = Deleting(e, "reconcile"),
                            !.accepted = @ \ {e}, !.ids = @ \ {e}, !.local[e] = NoRow]
    /\ UNCHANGED <<server, stray, row, history, calm>>

\* Mutant: the row learns the file's new name and not its keywords.
ReconcileName(e) ==
    LET r == [tick.local[e] EXCEPT !.path = tick.seen[e]] IN
    /\ tick.pc = "reconcile"
    /\ e \in tick.accepted
    /\ ~IsDestroy(tick.seen[e])
    /\ row' = [row EXCEPT ![e] = r]
    /\ tick' = [tick EXCEPT !.accepted = @ \ {e}, !.local[e] = r]
    /\ touched' = Unsettled(e, Merged(tick.local[e].kw, tick.seen[e].flags))
    /\ UNCHANGED <<server, file, stray, spent, asked, calm>>

ReconcileUpdated(e) ==
    LET r == [path |-> tick.seen[e],
              kw |-> Merged(tick.local[e].kw, tick.seen[e].flags),
              members |-> tick.local[e].members]
    IN
    /\ tick.pc = "reconcile"
    /\ e \in tick.accepted
    /\ ~IsDestroy(tick.seen[e])
    /\ row' = [row EXCEPT ![e] = r]
    /\ tick' = [tick EXCEPT !.accepted = @ \ {e}, !.local[e] = r]
    /\ touched' = Unsettled(e, r.kw)
    /\ UNCHANGED <<server, file, stray, spent, asked, calm>>

ReconcileDone ==
    /\ tick.pc = "reconcile"
    /\ tick.accepted = {}
    /\ tick' = [tick EXCEPT !.pc = "deletes", !.changed = {},
                            !.seen = [e \in Email |-> NoFile]]
    /\ UNCHANGED <<stores, spent, history, calm>>

(***************************************************************************)
(* Local rows whose id no page listed.                                     *)
(***************************************************************************)
\* Mutant: the delete pass finds nothing.
NeverGone(e) == FALSE

IsGone(e) == tick.local[e] # NoRow /\ e \notin tick.ids

DeleteGone(e) ==
    /\ tick.pc = "deletes"
    /\ IsGone(e)
    /\ RemoveFile(e, tick.local[e].path)
    /\ tick' = [tick EXCEPT !.pc = "unlinked", !.job = Deleting(e, "deletes"),
                            !.local[e] = NoRow]
    /\ UNCHANGED <<server, stray, row, history, calm>>

DeletesDone ==
    /\ tick.pc = "deletes"
    /\ \A e \in Email : ~IsGone(e)
    /\ tick' = [tick EXCEPT !.pc = "get"]
    /\ UNCHANGED <<stores, spent, history, calm>>

(***************************************************************************)
(* fetch_email_chunk: the listed ids that still exist, as they are now.    *)
(***************************************************************************)
GetChunk ==
    LET chunk == Chunk(tick.ids) IN
    /\ tick.pc = "get"
    /\ tick.ids # {}
    /\ tick' = [tick EXCEPT
                  !.pc = "apply",
                  !.ids = @ \ chunk,
                  !.got = [e \in Email |-> IF e \in chunk /\ server[e].life = "live"
                                           THEN server[e] ELSE NoMessage]]
    /\ UNCHANGED <<stores, spent, history, calm>>

EndTick ==
    /\ tick.pc = "get"
    /\ tick.ids = {}
    /\ tick' = Idle
    /\ UNCHANGED <<stores, spent, history, calm>>

(***************************************************************************)
(* apply_email                                                             *)
(***************************************************************************)
Hydrated(e) == tick.pc = "apply" /\ tick.got[e] # NoMessage

TargetPath(e, m) == [dir |-> m, flags |-> FlagString(tick.got[e].kw)]
\* Mutant: memberships that are not mirrored are kept.
AllMembers(e) == tick.got[e].in

TargetMembers(e) == tick.got[e].in \cap Scope

\* The file operation is done; the row and then the memberships follow.
WriteNext(e, m) ==
    tick' = [tick EXCEPT
               !.pc = "row",
               !.got[e] = NoMessage,
               !.job = [email |-> e, back |-> "apply",
                        row |-> [path |-> TargetPath(e, m), kw |-> tick.got[e].kw,
                                 members |-> TargetMembers(e)]]]

\* No mailbox in scope any more: out of the mirror.
ApplyOutOfScope(e) ==
    /\ Hydrated(e)
    /\ Primaries(tick.got[e].in) = {}
    /\ IF tick.local[e] = NoRow
       THEN /\ tick' = [tick EXCEPT !.got[e] = NoMessage]
            /\ UNCHANGED <<file, spent>>
       ELSE /\ RemoveFile(e, tick.local[e].path)
            /\ tick' = [tick EXCEPT !.pc = "unlinked", !.got[e] = NoMessage,
                                    !.job = Deleting(e, "apply")]
    /\ UNCHANGED <<server, stray, row, history, calm>>

\* download_and_write: a new base under cur/, complete when it appears.
ApplyInsert(e, m) ==
    /\ Hydrated(e)
    /\ m \in Primaries(tick.got[e].in)
    /\ tick.local[e] = NoRow
    /\ file' = [file EXCEPT ![e] = TargetPath(e, m)]
    /\ WriteNext(e, m)
    /\ UNCHANGED <<server, stray, row, spent, history, calm>>

\* Mutant: whatever file the e-mail has now is renamed.
RenameAnything(e, m) ==
    file' = IF file[e] # NoFile
            THEN [file EXCEPT ![e] = TargetPath(e, m)] ELSE file

\* Mutant: the row is rewritten without the rename.
RenameNothing(e, m) == UNCHANGED file

\* The rename of move_email and update_email_in_place: only if the stored
\* path still exists; the row is rewritten either way.
RenameStored(e, m) ==
    file' = IF file[e] = tick.local[e].path
            THEN [file EXCEPT ![e] = TargetPath(e, m)] ELSE file

ApplyMove(e, m) ==
    /\ Hydrated(e)
    /\ m \in Primaries(tick.got[e].in)
    /\ tick.local[e] # NoRow
    /\ tick.local[e].path.dir # m
    /\ RenameStored(e, m)
    /\ WriteNext(e, m)
    /\ UNCHANGED <<server, stray, row, spent, history, calm>>

\* Mutant: memberships are not compared.
DiffersInFile(e, m) ==
    \/ tick.local[e].path # TargetPath(e, m)
    \/ tick.local[e].kw # tick.got[e].kw

\* Mutant: the stored keywords are compared with the flags alone.
DiffersInFlags(e, m) ==
    \/ tick.local[e].path # TargetPath(e, m)
    \/ tick.local[e].kw # FlagString(tick.got[e].kw)
    \/ row[e].members # TargetMembers(e)

Differs(e, m) ==
    \/ tick.local[e].path # TargetPath(e, m)
    \/ tick.local[e].kw # tick.got[e].kw
    \/ row[e].members # TargetMembers(e)

ApplyUpdate(e, m) ==
    /\ Hydrated(e)
    /\ m \in Primaries(tick.got[e].in)
    /\ tick.local[e] # NoRow
    /\ tick.local[e].path.dir = m
    /\ Differs(e, m)
    /\ RenameStored(e, m)
    /\ WriteNext(e, m)
    /\ UNCHANGED <<server, stray, row, spent, history, calm>>

ApplyNothing(e, m) ==
    /\ Hydrated(e)
    /\ m \in Primaries(tick.got[e].in)
    /\ tick.local[e] # NoRow
    /\ tick.local[e].path.dir = m
    /\ ~Differs(e, m)
    /\ tick' = [tick EXCEPT !.got[e] = NoMessage]
    /\ UNCHANGED <<stores, spent, history, calm>>

\* insert_email or update_email: the emails row, memberships untouched.
WriteRow ==
    LET e == tick.job.email
        old == IF row[e] = NoRow THEN {} ELSE row[e].members
    IN
    /\ tick.pc = "row"
    /\ row' = [row EXCEPT ![e] = [tick.job.row EXCEPT !.members = old]]
    /\ tick' = [tick EXCEPT !.pc = "members"]
    /\ touched' = Unsettled(e, tick.job.row.kw)
    /\ UNCHANGED <<server, file, stray, spent, asked, calm>>

\* insert_memberships or reconcile_memberships.
WriteMembers ==
    LET e == tick.job.email IN
    /\ tick.pc = "members"
    /\ row' = [row EXCEPT ![e].members = tick.job.row.members]
    /\ tick' = [tick EXCEPT !.pc = "apply", !.job = NoJob]
    /\ UNCHANGED <<server, file, stray, spent, history, calm>>

ApplyDone ==
    /\ tick.pc = "apply"
    /\ \A e \in Email : tick.got[e] = NoMessage
    /\ tick' = [tick EXCEPT !.pc = "get"]
    /\ UNCHANGED <<stores, spent, history, calm>>

(***************************************************************************)
(* A request fails and the error ends the tick: the locals are dropped.    *)
(* In "apply" the request is the blob download of a new e-mail, which also *)
(* fails when the e-mail has been destroyed since Email/get.               *)
(***************************************************************************)
Abort ==
    /\ tick.pc \in {"orphans", "query", "set", "get"}
    /\ spent.fault < MaxFault
    /\ spent' = [spent EXCEPT !.fault = @ + 1]
    /\ tick' = Idle
    /\ calm' = 0
    /\ UNCHANGED <<stores, history>>

DownloadFails(e) ==
    /\ Hydrated(e)
    /\ Primaries(tick.got[e].in) # {}
    /\ tick.local[e] = NoRow
    /\ \/ /\ server[e].life # "live"
          /\ UNCHANGED spent
       \/ /\ spent.fault < MaxFault
          /\ spent' = [spent EXCEPT !.fault = @ + 1]
    /\ tick' = Idle
    /\ calm' = 0
    /\ UNCHANGED <<stores, history>>

(***************************************************************************)
(* The process dies, or a write returns an error, before any step: what    *)
(* the steps so far have written stays and the locals are lost.            *)
(***************************************************************************)
\* Membership rows are written one by one: any part of the old or the new
\* set may be left.
MembersTorn ==
    IF tick.pc = "members"
    THEN \E left \in (SUBSET row[tick.job.email].members)
                       \cup (SUBSET tick.job.row.members) :
           row' = [row EXCEPT ![tick.job.email].members = left]
    ELSE UNCHANGED row

\* A file whose row was never inserted belongs to nobody.
InsertTorn ==
    LET e == tick.job.email IN
    IF tick.pc = "row" /\ row[e] = NoRow /\ file[e] # NoFile
    THEN /\ stray' = stray \cup {e}
         /\ file' = [file EXCEPT ![e] = NoFile]
    ELSE UNCHANGED <<stray, file>>

Crash ==
    /\ tick.pc # "idle"
    /\ spent.crash < MaxCrash
    /\ spent' = [spent EXCEPT !.crash = @ + 1]
    /\ MembersTorn
    /\ InsertTorn
    /\ tick' = Idle
    /\ calm' = 0
    /\ UNCHANGED <<server, history>>

(***************************************************************************)
(* Other JMAP clients                                                      *)
(***************************************************************************)
ServerEdit ==
    /\ spent.server < MaxServer
    /\ spent' = [spent EXCEPT !.server = @ + 1]
    /\ calm' = 0
    /\ UNCHANGED <<file, stray, row, tick, history>>

ServerDeliver(e, m) ==
    /\ server[e].life = "unborn"
    /\ server' = [server EXCEPT ![e] = Arrived(m)]
    /\ ServerEdit

ServerDestroy(e) ==
    /\ server[e].life = "live"
    /\ server' = [server EXCEPT ![e] = [life |-> "gone", in |-> {}, kw |-> {}]]
    /\ ServerEdit

ServerMove(e, in) ==
    /\ ServerMoves
    /\ server[e].life = "live"
    /\ in # server[e].in
    /\ server' = [server EXCEPT ![e].in = in]
    /\ ServerEdit

ServerKeyword(e, k) ==
    /\ server[e].life = "live"
    /\ server' = [server EXCEPT ![e].kw = IF k \in @ THEN @ \ {k} ELSE @ \cup {k}]
    /\ ServerEdit

(***************************************************************************)
(* The local mail client                                                   *)
(***************************************************************************)
UserEdit ==
    /\ tick.pc \in {"idle", "orphans", "query"} \/ UserMidTick
    /\ spent.user < MaxUser
    /\ spent' = [spent EXCEPT !.user = @ + 1]
    /\ calm' = 0
    /\ UNCHANGED <<server, stray, row, tick>>

UserFlag(e, f) ==
    /\ file[e] # NoFile
    /\ LET on == f \notin file[e].flags IN
       /\ file' = [file EXCEPT ![e].flags = IF on THEN @ \cup {f} ELSE @ \ {f}]
       /\ touched' = (touched \ {<<e, f, ~on>>}) \cup {<<e, f, on>>}
       /\ asked' = IF f # Trashed THEN asked
                   ELSE IF on THEN asked \cup {e} ELSE asked \ {e}
    /\ UserEdit

UserUnlink(e) ==
    /\ file[e] # NoFile
    /\ file' = [file EXCEPT ![e] = NoFile]
    /\ asked' = asked \cup {e}
    /\ UNCHANGED touched
    /\ UserEdit

-----------------------------------------------------------------------------
Apply(e) ==
    \/ ApplyOutOfScope(e)
    \/ DownloadFails(e)
    \/ \E m \in Scope : \/ ApplyInsert(e, m)
                        \/ ApplyMove(e, m)
                        \/ ApplyUpdate(e, m)
                        \/ ApplyNothing(e, m)

Daemon ==
    \/ StartTick \/ CleanupDone \/ Detect \/ SetEmails \/ ReconcileDone
    \/ DeletesDone \/ GetChunk \/ EndTick \/ ApplyDone
    \/ WriteRow \/ WriteMembers \/ DeleteRow
    \/ \E m \in Scope : QueryPage(m)
    \/ \E e \in Email : \/ CleanupOrphan(e)
                        \/ ReconcileDestroyed(e)
                        \/ ReconcileUpdated(e)
                        \/ DeleteGone(e)
                        \/ Apply(e)

Others ==
    \/ \E e \in Email : \/ \E m \in Scope : ServerDeliver(e, m)
                        \/ ServerDestroy(e)
                        \/ \E in \in SUBSET Mailbox \ {{}} : ServerMove(e, in)
                        \/ \E k \in Keyword : ServerKeyword(e, k)
                        \/ \E f \in Flag : UserFlag(e, f)
                        \/ UserUnlink(e)

Failures == Abort \/ SetReplyLost \/ Crash

Next == Daemon \/ Others \/ Failures

Spec == Init /\ [][Next]_vars

\* The poll timer starts a tick again and again and a started tick runs on:
\* every request is answered or fails within the client's timeout.
FairSpec == Spec /\ WF_vars(Daemon)

-----------------------------------------------------------------------------
(***************************************************************************)
(* Properties                                                              *)
(***************************************************************************)

\* Steps of the daemon, as opposed to those of other JMAP clients.
ByDaemon == spent'.server = spent.server

\* email.rs pushes a destroy only when the user unlinked the file the e-mail
\* has now or gave it the T flag and left it there; whatever else happens to
\* paths and rows, no other e-mail is ever destroyed upstream.
DestroyOnlyOnRequest ==
    [][\A e \in Email :
         (ByDaemon /\ server[e].life = "live" /\ server'[e].life = "gone")
            => e \in asked]_vars

\* email.rs patches single keywords upstream.  A patch that changes one is an
\* unsettled edit of the user's: a push the server has acknowledged is never
\* repeated over what another client made of the keyword since, nor is a value
\* of the server's that has reached the file, and labels without a flag are
\* never touched.  An edit whose reply was lost is not settled: it is pushed
\* again, also over a change another client made meanwhile.
PatchesComeFromUser ==
    [][\A e \in Email :
         (ByDaemon /\ server[e].life = "live" /\ server'[e].life = "live") =>
            \A k \in Keyword : (k \in server[e].kw) # (k \in server'[e].kw) =>
               <<e, k, k \in server'[e].kw>> \in touched]_vars

\* When the user leaves the Maildir alone the write-back pass finds nothing
\* to push, whatever other clients do while the tick runs.
NothingToPush == tick.changed = {}

\* The renames of move_email and update_email_in_place never overwrite a flag
\* the user gave a file and the daemon has not pushed yet.
UnpushedFlagsSurvive ==
    [][\A e \in Email :
         (spent' = spent /\ file[e] # NoFile /\ file'[e] # NoFile /\ row[e] # NoRow
            /\ FlagString(file'[e].flags) # FlagString(file[e].flags))
            => FlagString(file[e].flags) = FlagString(row[e].kw)]_vars

\* Server, database and Maildir agree about one e-mail.
InSync(e) ==
    IF server[e].life = "live" /\ server[e].in \cap Scope # {}
    THEN /\ row[e] # NoRow /\ file[e] # NoFile
         /\ row[e].kw = server[e].kw
         /\ row[e].members = server[e].in \cap Scope
         /\ row[e].path.dir \in Primaries(server[e].in)
         /\ row[e].path.flags = FlagString(server[e].kw)
         /\ file[e].dir = row[e].path.dir
         /\ FlagString(file[e].flags) = row[e].path.flags
         /\ Trashed \notin file[e].flags
    ELSE row[e] = NoRow /\ file[e] = NoFile

\* One tick that runs to its end with nobody else acting repairs whatever
\* races, failures and crashes before it left behind, files without a row
\* apart: those stay.
CalmTickMirrors ==
    (tick.pc = "idle" /\ calm >= 1) => \A e \in Email : InSync(e)

\* The tick after it writes nothing, neither upstream nor locally: no
\* keyword or file name is passed back and forth for ever.
SecondTickWritesNothing ==
    calm = 2 => tick.pc \notin {"set", "reconcile", "row", "members", "unlinked"}

\* As long as every file the daemon removes can be removed, no file is left
\* in the Maildir without a row to account for it.
NoStray == stray = {}

\* Once the others stop editing and failing, the three stores come to agree
\* and stay so, files without a row apart.
Convergence == <>[](\A e \in Email : InSync(e))

=============================================================================
