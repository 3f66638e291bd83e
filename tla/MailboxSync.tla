---------------------------- MODULE MailboxSync ----------------------------
(***************************************************************************)
(* sync_mailboxes (src/src/sync/mailbox.rs): the three-way diff of the     *)
(* server's mailbox tree, the table mailboxes and the Maildir directories, *)
(* one step per durable effect.  Mail rides along: the table emails points *)
(* into the directories by path and refers to mailboxes by foreign key, so *)
(* what the diff does to a directory decides what the e-mail pass that     *)
(* follows takes for deleted.  That pass (EmailSync) is one step here, run *)
(* without interference.                                                   *)
(***************************************************************************)
EXTENDS Naturals, Sequences

CONSTANTS
    Box,       \* JMAP mailbox ids
    Name,      \* mailbox names on the server
    Segment,   \* directory names
    Local,     \* [Name -> Segment]: box_mapping, then sanitize_segment
    Excluded,  \* exclude_mailboxes: local paths of one segment
    Email,     \* e-mails, in one mailbox each
    Root,      \* no parent
    NoNode, NoRow, NoDir, NoBox

CONSTANTS      \* bounds on the environment
    MaxServer, \* edits by other JMAP clients
    MaxFault,  \* failed requests
    MaxCrash,  \* process deaths
    Renames,   \* may they rename or reparent mailboxes?
    Full,      \* ... or delete one that still holds mail locally?
    MaxDepth,  \* levels of the server's tree
    Unkeeps    \* may a mailbox leave the mirror (unsubscribed)?

Paths == Seq(Segment) \ {<<>>}

Node == [name : Name, parent : Box \cup {Root}, kept : BOOLEAN]
BoxRow == [name : Name, parent : Box \cup {Root}, path : Paths]
MailRow == [box : Box, dir : Paths]

ASSUME PathsAssumption ==
    /\ Local \in [Name -> Segment]
    /\ Excluded \subseteq {<<s>> : s \in Segment}

ASSUME BoundsAssumption ==
    /\ MaxServer \in Nat /\ MaxFault \in Nat /\ MaxCrash \in Nat /\ MaxDepth \in Nat
    /\ Renames \in BOOLEAN /\ Full \in BOOLEAN /\ Unkeeps \in BOOLEAN

ASSUME NullsAssumption ==
    /\ Root \notin Box /\ NoBox \notin Box
    /\ NoNode \notin Node
    /\ NoRow \notin BoxRow \cup MailRow
    /\ NoDir \notin Paths

VARIABLES
    tree,     \* the server's mailboxes
    mail,     \* the server's e-mails: the mailbox of each
    rows,     \* table mailboxes
    emails,   \* table emails: primary_mailbox and the directory of file_path
    dirs,     \* existing directories
    maildirs, \* those with cur, new and tmp in them
    file,     \* the directory each e-mail's file is in
    tick,     \* the locals of the running tick
    spent     \* how often each environment has acted

vars == <<tree, mail, rows, emails, dirs, maildirs, file, tick, spent>>
remote == <<tree, mail>>
disk == <<dirs, maildirs, file>>
db == <<rows, emails>>

(***************************************************************************)
(* Paths and directories                                                   *)
(***************************************************************************)
Under(p, q) == Len(p) <= Len(q) /\ SubSeq(q, 1, Len(p)) = p
StrictlyUnder(p, q) == Under(p, q) /\ p # q
\* Mutant: the last directory of the path is forgotten.
ProperPrefixes(p) == {SubSeq(p, 1, k) : k \in 1 .. Len(p) - 1}

Prefixes(p) == {SubSeq(p, 1, k) : k \in 1 .. Len(p)}
Parent(p) == SubSeq(p, 1, Len(p) - 1)

\* remove_dir_all
RemoveTree(p) ==
    /\ dirs' = {d \in dirs : ~Under(p, d)}
    /\ maildirs' = {d \in maildirs : ~Under(p, d)}
    /\ file' = [e \in Email |-> IF file[e] # NoDir /\ Under(p, file[e]) THEN NoDir ELSE file[e]]

\* Mutant: the directory is not made.
MakeNothing(p) == UNCHANGED <<dirs, maildirs, file>>

\* create_maildir, which makes the directories above as well.
MakeMaildir(p) ==
    /\ dirs' = dirs \cup Prefixes(p)
    /\ maildirs' = maildirs \cup {p}
    /\ UNCHANGED file

\* rename(2) refuses a target with entries and a target inside the source.
Occupied(p) == p \in maildirs \/ \E d \in dirs : StrictlyUnder(p, d)
CanRename(p, q) == ~Occupied(q) /\ ~Under(p, q)

Renamed(p, q, d) == IF d # NoDir /\ Under(p, d) THEN q \o SubSeq(d, Len(p) + 1, Len(d)) ELSE d

RenameTree(p, q) ==
    /\ dirs' = {Renamed(p, q, d) : d \in dirs} \cup Prefixes(q)
    /\ maildirs' = {Renamed(p, q, d) : d \in maildirs}
    /\ file' = [e \in Email |-> Renamed(p, q, file[e])]

(***************************************************************************)
(* The target set                                                          *)
(***************************************************************************)
Present(t) == {b \in Box : t[b] # NoNode}

\* Mutant: a mailbox's own name is its whole path.
FlatPathIn(t) == [b \in Present(t) |-> <<Local[t[b].name]>>]

\* resolve_path: the mapped names from the root down.
PathIn(t) ==
    LET path[b \in Present(t)] == IF t[b].parent = Root THEN <<Local[t[b].name]>>
                                  ELSE Append(path[t[b].parent], Local[t[b].name])
    IN  path

Target(t) ==
    [b \in Box |-> IF b \in Present(t) /\ t[b].kept
                   THEN [name |-> t[b].name, parent |-> t[b].parent, path |-> PathIn(t)[b]]
                   ELSE NoRow]

None == [b \in Box |-> NoRow]
Those(r) == {b \in Box : r[b] # NoRow}

\* Next batch of topo_sort_creates_and_updates.
Ready(target, left, emitted) ==
    {b \in left : target[b].parent \in {Root} \cup emitted \cup (Box \ Those(target))}

Pcs == {"idle", "fetch", "deletes", "unlinked", "rounds", "placed", "emails"}

Idle == [pc |-> "idle", target |-> None, known |-> None, doomed |-> {},
         left |-> {}, emitted |-> {}, round |-> {}, box |-> NoBox, new |-> NoRow]

Tick == [pc : Pcs, target : [Box -> BoxRow \cup {NoRow}], known : [Box -> BoxRow \cup {NoRow}],
         doomed : SUBSET Box, left : SUBSET Box, emitted : SUBSET Box, round : SUBSET Box,
         box : Box \cup {NoBox}, new : BoxRow \cup {NoRow}]

TypeOK ==
    /\ tree \in [Box -> Node \cup {NoNode}]
    /\ mail \in [Email -> Box \cup {NoBox}]
    /\ rows \in [Box -> BoxRow \cup {NoRow}]
    /\ emails \in [Email -> MailRow \cup {NoRow}]
    /\ dirs \subseteq Paths
    /\ maildirs \subseteq dirs
    /\ file \in [Email -> Paths \cup {NoDir}]
    /\ tick \in Tick
    /\ spent \in [server : 0 .. MaxServer, fault : 0 .. MaxFault, crash : 0 .. MaxCrash]

\* An account just set up; the send path has made its own folders.
Init ==
    /\ tree = [b \in Box |-> NoNode]
    /\ mail = [e \in Email |-> NoBox]
    /\ rows = None
    /\ emails = [e \in Email |-> NoRow]
    /\ dirs = UNION {Prefixes(x) : x \in Excluded}
    /\ maildirs = Excluded
    /\ file = [e \in Email |-> NoDir]
    /\ tick = Idle
    /\ spent = [server |-> 0, fault |-> 0, crash |-> 0]

(***************************************************************************)
(* sync_mailboxes                                                          *)
(***************************************************************************)
StartTick ==
    /\ tick.pc = "idle"
    /\ tick' = [Idle EXCEPT !.pc = "fetch"]
    /\ UNCHANGED <<remote, db, disk, spent>>

\* Mutants: nothing is ever deleted; the client-only folders are not spared.
NeverDoomed(target) == {}
AllDoomed(target) == {b \in Those(rows) : target[b] = NoRow}

\* Rows that fell out of the target set.
Doomed(target) == {b \in Those(rows) : target[b] = NoRow /\ rows[b].path \notin Excluded}

\* fetch_full_tree, build_target_set and get_all_mailboxes.
FetchTree ==
    LET target == Target(tree) IN
    /\ tick.pc = "fetch"
    /\ tick' = [tick EXCEPT
                  !.pc = "deletes", !.target = target, !.known = rows,
                  !.doomed = Doomed(target)]
    /\ UNCHANGED <<remote, db, disk, spent>>

\* Mutant: the directories above go first.
Shallowest(b) == ~\E c \in tick.doomed : StrictlyUnder(tick.known[c].path, tick.known[b].path)

\* Longest path first: at least, no mailbox before the ones below it.
Deepest(b) == ~\E c \in tick.doomed : StrictlyUnder(tick.known[b].path, tick.known[c].path)

\* delete_mailbox
RemoveDir(b) ==
    /\ tick.pc = "deletes"
    /\ b \in tick.doomed
    /\ Deepest(b)
    /\ RemoveTree(tick.known[b].path)
    /\ tick' = [tick EXCEPT !.pc = "unlinked", !.box = b, !.doomed = @ \ {b}]
    /\ UNCHANGED <<remote, db, spent>>

\* Foreign keys without an action: mailboxes.parent_id, emails.primary_mailbox.
Referenced(b) ==
    \/ \E c \in Those(rows) : rows[c].parent = b
    \/ \E e \in Email : emails[e] # NoRow /\ emails[e].box = b

DropRow ==
    /\ tick.pc = "unlinked"
    /\ ~Referenced(tick.box)
    /\ rows' = [rows EXCEPT ![tick.box] = NoRow]
    /\ tick' = [tick EXCEPT !.pc = "deletes", !.box = NoBox]
    /\ UNCHANGED <<remote, emails, disk, spent>>

DropRowRefused ==
    /\ tick.pc = "unlinked"
    /\ Referenced(tick.box)
    /\ tick' = Idle
    /\ UNCHANGED <<remote, db, disk, spent>>

DeletesDone ==
    LET left == Those(tick.target)
        emitted == Those(tick.known)
    IN
    /\ tick.pc = "deletes"
    /\ tick.doomed = {}
    /\ tick' = [tick EXCEPT !.pc = "rounds", !.left = left, !.emitted = emitted,
                            !.round = Ready(tick.target, left, emitted)]
    /\ UNCHANGED <<remote, db, disk, spent>>

NextRound ==
    /\ tick.pc = "rounds"
    /\ tick.round = {}
    /\ tick.left # {}
    /\ tick' = [tick EXCEPT !.round = Ready(tick.target, tick.left, tick.emitted)]
    /\ UNCHANGED <<remote, db, disk, spent>>

\* b has had its turn.
Emit(b) == [tick EXCEPT !.pc = "rounds", !.left = @ \ {b}, !.emitted = @ \cup {b},
                        !.round = @ \ {b}, !.box = NoBox, !.new = NoRow]

Turn(b) == tick.pc = "rounds" /\ b \in tick.round

\* parent_id: looked up in the rows read at the start, for a new mailbox also
\* in the table as it is now.
KnownParent(b) ==
    LET p == tick.target[b].parent IN IF p \in Those(tick.known) THEN p ELSE Root
FoundParent(b) ==
    LET p == tick.target[b].parent
    IN  IF p \in Those(tick.known) \cup Those(rows) THEN p ELSE Root

RowWith(b, parent) == [tick.target[b] EXCEPT !.parent = parent]

WriteNext(b, new) == tick' = [tick EXCEPT !.pc = "placed", !.box = b, !.new = new]

Create(b) ==
    /\ Turn(b)
    /\ tick.known[b] = NoRow
    /\ MakeMaildir(tick.target[b].path)
    /\ WriteNext(b, RowWith(b, FoundParent(b)))
    /\ UNCHANGED <<remote, db, spent>>

\* Mutant: the path is not compared.
SameNames(b) ==
    /\ tick.known[b] # NoRow
    /\ tick.known[b].name = tick.target[b].name
    /\ tick.known[b].parent = KnownParent(b)

\* diff_and_build_update finds nothing to change.
Unchanged(b) == tick.known[b] = RowWith(b, KnownParent(b))

Skip(b) ==
    /\ Turn(b)
    /\ Unchanged(b)
    /\ tick' = Emit(b)
    /\ UNCHANGED <<remote, db, disk, spent>>

\* The directory above the new path is made first; the old path is looked for
\* after that, and may lie on the way.
Made(new) == dirs \cup Prefixes(Parent(new))

\* update_mailbox
Update(b) ==
    LET old == tick.known[b].path
        new == tick.target[b].path
    IN
    /\ Turn(b)
    /\ tick.known[b] # NoRow
    /\ ~Unchanged(b)
    /\ CASE old = new -> UNCHANGED disk
         [] old # new /\ old \in Made(new) -> CanRename(old, new) /\ RenameTree(old, new)
         [] old # new /\ old \notin Made(new) -> MakeMaildir(new)
    /\ WriteNext(b, RowWith(b, KnownParent(b)))
    /\ UNCHANGED <<remote, db, spent>>

\* What was made for the new path stays when the rename fails.
RenameRefused(b) ==
    LET old == tick.known[b].path
        new == tick.target[b].path
    IN
    /\ Turn(b)
    /\ tick.known[b] # NoRow
    /\ old # new /\ old \in Made(new)
    /\ ~CanRename(old, new)
    /\ dirs' = Made(new)
    /\ tick' = Idle
    /\ UNCHANGED <<remote, db, maildirs, file, spent>>

ParentExists == tick.new.parent \in {Root} \cup Those(rows)

\* insert_mailbox or update_mailbox of the database.
WriteRow ==
    /\ tick.pc = "placed"
    /\ ParentExists
    /\ rows' = [rows EXCEPT ![tick.box] = tick.new]
    /\ tick' = Emit(tick.box)
    /\ UNCHANGED <<remote, emails, disk, spent>>

WriteRowRefused ==
    /\ tick.pc = "placed"
    /\ ~ParentExists
    /\ tick' = Idle
    /\ UNCHANGED <<remote, db, disk, spent>>

RoundsDone ==
    /\ tick.pc = "rounds"
    /\ tick.left = {}
    /\ tick' = [tick EXCEPT !.pc = "emails"]
    /\ UNCHANGED <<remote, db, disk, spent>>

(***************************************************************************)
(* sync_emails, undisturbed and with an idle user: an e-mail whose file is *)
(* not under its stored path counts as unlinked and is destroyed upstream, *)
(* one that no mirrored mailbox lists is deleted, the others are fetched   *)
(* or moved to the mailbox they are in.                                    *)
(***************************************************************************)
Listed == {e \in Email : mail[e] \in Those(rows)}
Stored == {e \in Email : emails[e] # NoRow}
Missing == {e \in Stored : file[e] # emails[e].dir}

SyncEmails ==
    LET fetched == Listed \ Stored
        moved == {e \in (Listed \cap Stored) \ Missing : emails[e].box # mail[e]}
        placed == fetched \cup moved
        dropped == Missing \cup (Stored \ Listed)
        home(e) == rows[mail[e]].path
    IN
    /\ tick.pc = "emails"
    /\ mail' = [e \in Email |-> IF e \in Missing THEN NoBox ELSE mail[e]]
    /\ emails' = [e \in Email |->
                    CASE e \in placed -> [box |-> mail[e], dir |-> home(e)]
                      [] e \in dropped -> NoRow
                      [] OTHER -> emails[e]]
    /\ file' = [e \in Email |->
                    CASE e \in placed -> home(e)
                      [] e \in dropped \ Missing -> NoDir
                      [] OTHER -> file[e]]
    /\ dirs' = dirs \cup UNION {Prefixes(home(e)) : e \in placed}
    /\ maildirs' = maildirs \cup {home(e) : e \in placed}
    /\ tick' = Idle
    /\ UNCHANGED <<tree, rows, spent>>

(***************************************************************************)
(* A request fails, or the process dies                                    *)
(***************************************************************************)
RequestFails ==
    /\ tick.pc \in {"fetch", "emails"}
    /\ spent.fault < MaxFault
    /\ spent' = [spent EXCEPT !.fault = @ + 1]
    /\ tick' = Idle
    /\ UNCHANGED <<remote, db, disk>>

Crash ==
    /\ tick.pc # "idle"
    /\ spent.crash < MaxCrash
    /\ spent' = [spent EXCEPT !.crash = @ + 1]
    /\ tick' = Idle
    /\ UNCHANGED <<remote, db, disk>>

(***************************************************************************)
(* Other JMAP clients: trees stay acyclic, siblings differ in name, and    *)
(* only a mailbox without children can be destroyed.                       *)
(***************************************************************************)
Depth(t, b) == Len(PathIn(t)[b])

\* b and all mailboxes below it: the least set with b and its members' children.
Below(t, b) ==
    {c \in Present(t) : \A S \in SUBSET Present(t) :
        (b \in S /\ \A d \in Present(t) : t[d].parent \in S => d \in S) => c \in S}

FreeName(b, name, parent) ==
    \A c \in Present(tree) \ {b} : tree[c].parent = parent => tree[c].name # name

\* No e-mail row refers to b: a tick has passed since it was emptied.
Quiet(b) == \A e \in Email : emails[e] # NoRow => emails[e].box # b

\* Ids are never reused: b stands for a new one when all traces are gone.
Fresh(b) ==
    /\ b \notin Present(tree)
    /\ b \notin Those(rows) \cup Those(tick.known) \cup Those(tick.target)

ServerEdit ==
    /\ spent.server < MaxServer
    /\ spent' = [spent EXCEPT !.server = @ + 1]
    /\ UNCHANGED <<db, disk, tick>>

CreateBox(b, name, parent, kept) ==
    /\ Fresh(b)
    /\ parent # Root => parent \in Present(tree) /\ Depth(tree, parent) < MaxDepth
    /\ FreeName(b, name, parent)
    /\ tree' = [tree EXCEPT ![b] = [name |-> name, parent |-> parent, kept |-> kept]]
    /\ UNCHANGED mail
    /\ ServerEdit

RenameBox(b, name, parent) ==
    /\ Renames
    /\ b \in Present(tree)
    /\ <<name, parent>> # <<tree[b].name, tree[b].parent>>
    /\ parent # Root => parent \in Present(tree) \ Below(tree, b)
    /\ FreeName(b, name, parent)
    /\ tree' = [tree EXCEPT ![b].name = name, ![b].parent = parent]
    /\ \A c \in Present(tree) : Depth(tree', c) <= MaxDepth
    /\ UNCHANGED mail
    /\ ServerEdit

DestroyBox(b) ==
    /\ b \in Present(tree)
    /\ \A c \in Present(tree) : tree[c].parent # b
    /\ Full \/ Quiet(b)
    /\ tree' = [tree EXCEPT ![b] = NoNode]
    /\ mail' = [e \in Email |-> IF mail[e] = b THEN NoBox ELSE mail[e]]
    /\ ServerEdit

KeepBox(b) ==
    /\ Unkeeps
    /\ b \in Present(tree)
    /\ tree' = [tree EXCEPT ![b].kept = ~@]
    /\ UNCHANGED mail
    /\ ServerEdit

\* Delivered to b, or moved there.
PutMail(e, b) ==
    /\ b \in Present(tree)
    /\ mail[e] # b
    /\ mail[e] = NoBox => emails[e] = NoRow /\ file[e] = NoDir
    /\ mail' = [mail EXCEPT ![e] = b]
    /\ UNCHANGED tree
    /\ ServerEdit

DestroyMail(e) ==
    /\ mail[e] # NoBox
    /\ mail' = [mail EXCEPT ![e] = NoBox]
    /\ UNCHANGED tree
    /\ ServerEdit

-----------------------------------------------------------------------------
Daemon ==
    \/ StartTick \/ FetchTree \/ DropRow \/ DropRowRefused \/ DeletesDone
    \/ NextRound \/ WriteRow \/ WriteRowRefused \/ RoundsDone \/ SyncEmails
    \/ \E b \in Box : RemoveDir(b) \/ Create(b) \/ Skip(b) \/ Update(b) \/ RenameRefused(b)

Others ==
    \/ \E b \in Box : \/ \E n \in Name, p \in Box \cup {Root} :
                            \/ \E k \in BOOLEAN : CreateBox(b, n, p, k)
                            \/ RenameBox(b, n, p)
                      \/ DestroyBox(b)
                      \/ KeepBox(b)
                      \/ \E e \in Email : PutMail(e, b)
    \/ \E e \in Email : DestroyMail(e)

Failures == RequestFails \/ Crash

Next == Daemon \/ Others \/ Failures

Spec == Init /\ [][Next]_vars

\* The poll timer starts ticks for ever and a started tick runs to its end.
FairSpec == Spec /\ WF_vars(Daemon)

-----------------------------------------------------------------------------
(***************************************************************************)
(* Properties                                                              *)
(***************************************************************************)

\* apply_diff: once it has gone through, the table holds exactly the mailboxes
\* of the target set (and excluded ones), each under the path of its target,
\* whatever renames, crashes and refused statements came before.
RowsMirrored ==
    tick.pc = "emails" =>
        \A b \in Box :
            IF tick.target[b] # NoRow
            THEN rows[b] # NoRow /\ rows[b].path = tick.target[b].path
            ELSE rows[b] # NoRow => rows[b].path \in Excluded

\* ... and each mailbox of the target set has its Maildir there.
DirsMirrored ==
    tick.pc = "emails" =>
        \A b \in Those(tick.target) : tick.target[b].path \in maildirs

\* The user touches nothing here, so the daemon has nothing to destroy.
MailStays ==
    [][spent'.server = spent.server =>
         \A e \in Email : mail[e] # NoBox => mail'[e] # NoBox]_vars

\* A file leaves the Maildir only when its e-mail is in none of the mirrored
\* mailboxes, or its own mailbox is leaving the mirror.
FilesFollowServer ==
    [][\A e \in Email :
         (file[e] # NoDir /\ file'[e] = NoDir)
            => \/ mail[e] \notin Those(rows)
               \/ tick.target[mail[e]] = NoRow]_vars

\* exclude_mailboxes: the diff never removes a client-only folder, even when a
\* mailbox of that name comes and goes.
ClientFoldersStay == Excluded \subseteq maildirs

\* No state of the stores makes every later tick fail.
KeepsSyncing == []<>(tick.pc = "emails")

\* Once nobody edits and nothing fails, tables and directories are those of
\* the server: every kept mailbox under its path with its kept parent, every
\* e-mail of it in its directory.
Mirrored ==
    /\ \A b \in Box :
         IF Target(tree)[b] = NoRow
         THEN rows[b] # NoRow => rows[b].path \in Excluded
         ELSE rows[b] = [Target(tree)[b] EXCEPT !.parent =
                           IF @ \in Those(Target(tree)) THEN @ ELSE Root]
    /\ \A e \in Email : emails[e] =
         IF mail[e] \in Those(rows) THEN [box |-> mail[e], dir |-> rows[mail[e]].path] ELSE NoRow
    /\ \A e \in Email : file[e] = IF emails[e] = NoRow THEN NoDir ELSE emails[e].dir
    /\ \A b \in Those(rows) : rows[b].path \in maildirs

TreesConverge == <>[]Mirrored

=============================================================================
