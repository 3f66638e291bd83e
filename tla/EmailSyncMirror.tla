-------------------------- MODULE EmailSyncMirror --------------------------
(***************************************************************************)
(* What a tick of EmailSync achieves: no rename overwrites a flag that the *)
(* user set, one undisturbed tick brings the three stores into agreement,  *)
(* and the one after it writes nothing.  The proofs follow a tick from     *)
(* stage to stage; where the disturbances before it left the stores does   *)
(* not matter.                                                             *)
(***************************************************************************)
EXTENDS EmailSyncSafety, OrderLemmas

\* Listed and not yet hydrated, or hydrated and not yet applied.
Waiting(e) == e \in tick.ids \/ tick.got[e] # NoMessage

\* The tick is between two writes for e.
AtWork(e) == tick.pc \in {"row", "members", "unlinked"} /\ tick.job.email = e

\* What the tick has read of a row that it will still compare is what the row
\* says: each e-mail has at most one turn in a tick.
LocalsOK ==
    /\ \A e \in Email : tick.got[e] # NoMessage => (Stage = "apply" /\ e \notin tick.ids)
    /\ (tick.pc \in {"row", "members", "unlinked"} /\ Stage # "orphans") =>
          ~Waiting(tick.job.email) /\ tick.job.email \notin tick.accepted
    /\ Stage \in {"set", "reconcile", "deletes", "get", "apply"} =>
          \A e \in Email : Waiting(e) => tick.local[e] = row[e]

\* A file name and a keyword set show the same flags, and none asks for a
\* deletion.
Agrees(path, kw) == Trashed \notin path.flags /\ FlagString(path.flags) = FlagString(kw)

RowsOK ==
    /\ \A e \in Email : row[e] # NoRow => Agrees(row[e].path, row[e].kw)
    /\ tick.pc = "row" => Agrees(tick.job.row.path, tick.job.row.kw)
    /\ \A e \in Email : file[e] # NoFile =>
          row[e] # NoRow \/ (tick.pc = "row" /\ tick.job.email = e)

BaseInv == LocalsOK /\ RowsOK

-----------------------------------------------------------------------------
LEMMA BaseInit == Init => BaseInv
BY DEF Init, BaseInv, LocalsOK, RowsOK, Idle, Stage

\* A tick that ends or begins forgets its locals.
LEMMA ForgetLocals ==
    ASSUME NEW pc \in {"idle", "orphans"}, tick' = [Idle EXCEPT !.pc = pc]
    PROVE  LocalsOK'
BY DEF Idle, LocalsOK, Stage, Waiting

LEMMA IdleLocals == ASSUME tick' = Idle PROVE LocalsOK'
BY DEF Idle, LocalsOK, Stage, Waiting

LEMMA RowsKept ==
    ASSUME RowsOK, UNCHANGED <<file, row>>, tick.pc # "row", tick'.pc # "row"
    PROVE  RowsOK'
BY DEF RowsOK

\* Steps that leave everything to the next stage, and everything outside.
LEMMA PassingBase ==
    ASSUME TypeOK, BaseInv,
           \/ StartTick \/ CleanupDone \/ Detect \/ SetEmails \/ ReconcileDone
           \/ DeletesDone \/ EndTick \/ ApplyDone \/ Abort \/ SetReplyLost
           \/ \E m \in Scope : QueryPage(m)
           \/ \E e \in Email : DownloadFails(e)
    PROVE  BaseInv'
<1> USE DEF BaseInv, stores, history
<1>1. CASE StartTick
  BY <1>1, ForgetLocals, RowsKept DEF StartTick, Idle
<1>2. CASE CleanupDone
  BY <1>2, RowsKept DEF CleanupDone, TypeOK, Tick, LocalsOK, Stage, Waiting
<1>3. CASE Detect
  BY <1>3, RowsKept DEF Detect, TypeOK, Tick, LocalsOK, Stage, Waiting
<1>4. CASE SetEmails
  <2>1. PICK accepted \in SUBSET Acceptable :
           tick' = [tick EXCEPT !.pc = "reconcile", !.accepted = accepted]
    BY <1>4 DEF SetEmails
  <2>2. tick.pc = "set" /\ UNCHANGED <<file, row>>
    BY <1>4 DEF SetEmails
  <2> QED BY <2>1, <2>2, RowsKept DEF TypeOK, Tick, LocalsOK, Stage, Waiting
<1>5. CASE ReconcileDone
  BY <1>5, RowsKept DEF ReconcileDone, TypeOK, Tick, LocalsOK, Stage, Waiting
<1>6. CASE DeletesDone
  BY <1>6, RowsKept DEF DeletesDone, TypeOK, Tick, LocalsOK, Stage, Waiting
<1>7. CASE EndTick \/ Abort \/ SetReplyLost
  BY <1>7, IdleLocals, RowsKept DEF EndTick, Abort, SetReplyLost, Idle
<1>8. CASE ApplyDone
  BY <1>8, RowsKept DEF ApplyDone, TypeOK, Tick, LocalsOK, Stage, Waiting
<1>9. ASSUME NEW m \in Scope, QueryPage(m) PROVE BaseInv'
  BY <1>9, RowsKept DEF QueryPage, TypeOK, Tick, LocalsOK, Stage, Waiting
<1>10. ASSUME NEW e \in Email, DownloadFails(e) PROVE BaseInv'
  BY <1>10, IdleLocals, RowsKept DEF DownloadFails, Hydrated, Idle
<1> QED BY <1>1, <1>2, <1>3, <1>4, <1>5, <1>6, <1>7, <1>8, <1>9, <1>10

LEMMA GetChunkBase == ASSUME TypeOK, BaseInv, GetChunk PROVE BaseInv'
<1> DEFINE chunk == Chunk(tick.ids)
           got == [e \in Email |-> IF e \in chunk /\ server[e].life = "live"
                                   THEN server[e] ELSE NoMessage]
<1>1. /\ tick.pc = "get" /\ UNCHANGED stores
      /\ tick' = [tick EXCEPT !.pc = "apply", !.ids = tick.ids \ chunk, !.got = got]
  BY DEF GetChunk
<1>2. chunk \subseteq tick.ids
  BY DEF Chunk
<1>3. \A e \in Email : got[e] # NoMessage => e \in chunk
  OBVIOUS
<1> HIDE DEF chunk, got
<1>4. /\ tick'.pc = "apply" /\ tick'.ids = tick.ids \ chunk /\ tick'.got = got
      /\ tick'.local = tick.local
  BY <1>1 DEF TypeOK, Tick
<1>5. LocalsOK'
  BY <1>1, <1>2, <1>3, <1>4 DEF BaseInv, LocalsOK, Stage, Waiting, stores
<1> QED BY <1>1, <1>4, <1>5, RowsKept DEF BaseInv, stores

\* A deletion begins: the file goes or is left, the row is still there.
LEMMA UnlinkBase ==
    ASSUME TypeOK, BaseInv, NEW e \in Email, NEW path, RemoveFile(e, path), UNCHANGED row,
           tick.pc \in {"orphans", "reconcile", "deletes", "apply"},
           tick'.pc = "unlinked", tick'.job = Deleting(e, tick.pc),
           \A f \in Email \ {e} : /\ tick'.local[f] = tick.local[f]
                                  /\ tick'.got[f] = tick.got[f]
                                  /\ f \in tick'.ids <=> f \in tick.ids,
           tick'.accepted \subseteq tick.accepted,
           tick.pc = "orphans" => tick'.ids = tick.ids /\ tick'.got = tick.got,
           tick.pc # "orphans" => ~Waiting(e)' /\ e \notin tick'.accepted
    PROVE  BaseInv'
<1>1. tick'.job.email = e /\ Stage' = tick.pc /\ Stage = tick.pc
  BY DEF Stage, Deleting
<1>2. LocalsOK'
  <2>1. \A f \in Email : tick'.got[f] # NoMessage => (Stage' = "apply" /\ f \notin tick'.ids)
    BY <1>1 DEF BaseInv, LocalsOK, Waiting
  <2>2. Stage' # "orphans" => ~Waiting(e)' /\ e \notin tick'.accepted
    BY <1>1
  <2>3. Stage' \in {"set", "reconcile", "deletes", "get", "apply"} =>
          \A f \in Email : Waiting(f)' => tick'.local[f] = row'[f]
    BY <1>1, <2>2 DEF BaseInv, LocalsOK, Waiting
  <2> QED BY <1>1, <2>1, <2>2, <2>3 DEF LocalsOK
<1>3. RowsOK'
  BY DEF BaseInv, RowsOK, RemoveFile, TypeOK
<1> QED BY <1>2, <1>3 DEF BaseInv

LEMMA DeletionsBase ==
    ASSUME TypeOK, BaseInv, NEW e \in Email,
           \/ CleanupOrphan(e) \/ ReconcileDestroyed(e) \/ DeleteGone(e)
           \/ ApplyOutOfScope(e) /\ tick.local[e] # NoRow
    PROVE  BaseInv'
<1>1. CASE CleanupOrphan(e)
  <2>1. /\ tick.pc = "orphans" /\ RemoveFile(e, row[e].path) /\ UNCHANGED row
        /\ tick'.pc = "unlinked" /\ tick'.job = Deleting(e, tick.pc)
        /\ UNCHANGED <<tick.local, tick.got, tick.ids, tick.accepted>>
    BY <1>1 DEF CleanupOrphan, TypeOK, Tick
  <2> QED BY <2>1, UnlinkBase
<1>2. CASE ReconcileDestroyed(e)
  <2> DEFINE path == IF tick.seen[e] = NoFile THEN tick.local[e].path ELSE tick.seen[e]
  <2>1. /\ tick.pc = "reconcile" /\ RemoveFile(e, path) /\ UNCHANGED row
        /\ tick'.pc = "unlinked" /\ tick'.job = Deleting(e, tick.pc)
        /\ UNCHANGED tick.got /\ tick'.ids = tick.ids \ {e}
        /\ tick'.accepted = tick.accepted \ {e}
        /\ \A f \in Email \ {e} : tick'.local[f] = tick.local[f]
    BY <1>2 DEF ReconcileDestroyed, TypeOK, Tick
  <2>2. ~Waiting(e)'
    BY <2>1 DEF Waiting, BaseInv, LocalsOK, Stage
  <2> QED BY <2>1, <2>2, UnlinkBase
<1>3. CASE DeleteGone(e)
  <2>0. /\ tick.pc = "deletes" /\ RemoveFile(e, tick.local[e].path) /\ UNCHANGED row
        /\ tick' = [tick EXCEPT !.pc = "unlinked", !.job = Deleting(e, "deletes"),
                                !.local[e] = NoRow]
        /\ e \notin tick.ids
    BY <1>3 DEF DeleteGone, IsGone
  <2>1. /\ tick'.pc = "unlinked" /\ tick'.job = Deleting(e, tick.pc)
        /\ UNCHANGED <<tick.got, tick.ids, tick.accepted>>
        /\ \A f \in Email \ {e} : tick'.local[f] = tick.local[f]
    BY <2>0 DEF TypeOK, Tick
  <2>2. ~Waiting(e)' /\ tick.accepted = {}
    BY <2>0, <2>1 DEF Waiting, BaseInv, LocalsOK, Stage, TypeOK, ControlOK
  <2> QED BY <2>0, <2>1, <2>2, UnlinkBase
<1>4. CASE ApplyOutOfScope(e) /\ tick.local[e] # NoRow
  <2>0. /\ tick.pc = "apply" /\ RemoveFile(e, tick.local[e].path) /\ UNCHANGED row
        /\ tick' = [tick EXCEPT !.pc = "unlinked", !.got[e] = NoMessage,
                                !.job = Deleting(e, "apply")]
        /\ tick.got[e] # NoMessage
    BY <1>4 DEF ApplyOutOfScope, Hydrated
  <2>1. /\ tick'.pc = "unlinked" /\ tick'.job = Deleting(e, tick.pc)
        /\ UNCHANGED <<tick.local, tick.ids, tick.accepted>>
        /\ tick'.got[e] = NoMessage
        /\ \A f \in Email \ {e} : tick'.got[f] = tick.got[f]
    BY <2>0 DEF TypeOK, Tick
  <2>2. ~Waiting(e)' /\ tick.accepted = {}
    BY <2>0, <2>1 DEF Waiting, BaseInv, LocalsOK, Stage, TypeOK, ControlOK
  <2> QED BY <2>0, <2>1, <2>2, UnlinkBase
<1> QED BY <1>1, <1>2, <1>3, <1>4

LEMMA DeleteRowBase == ASSUME TypeOK, BaseInv, DeleteRow PROVE BaseInv'
<1> DEFINE e == tick.job.email
<1>1. /\ tick.pc = "unlinked" /\ e \in Email
      /\ tick.job.back \in {"orphans", "reconcile", "deletes", "apply"}
      /\ row' = [row EXCEPT ![e] = NoRow] /\ file' = [file EXCEPT ![e] = NoFile]
      /\ tick' = [tick EXCEPT !.pc = tick.job.back, !.job = NoJob]
  BY DEF DeleteRow, TypeOK, ControlOK, Job
<1>2. /\ tick'.pc = tick.job.back /\ Stage = tick.job.back /\ Stage' = tick.job.back
      /\ UNCHANGED <<tick.ids, tick.got, tick.local, tick.accepted>>
  BY <1>1 DEF TypeOK, Tick, Stage
<1>3. LocalsOK'
  <2>1. \A f \in Email : Waiting(f)' <=> Waiting(f)
    BY <1>2 DEF Waiting
  <2>2. tick.job.back # "orphans" => ~Waiting(e)
    BY <1>1, <1>2 DEF BaseInv, LocalsOK
  <2>3. \A f \in Email \ {e} : row'[f] = row[f]
    BY <1>1 DEF TypeOK
  <2> QED BY <1>1, <1>2, <2>1, <2>2, <2>3 DEF BaseInv, LocalsOK
<1>4. RowsOK'
  BY <1>1, <1>2 DEF BaseInv, RowsOK, TypeOK
<1> QED BY <1>3, <1>4 DEF BaseInv

LEMMA ReconcileUpdatedBase ==
    ASSUME TypeOK, BaseInv, NEW e \in Email, ReconcileUpdated(e) PROVE BaseInv'
<1> DEFINE r == [path |-> tick.seen[e],
                 kw |-> Merged(tick.local[e].kw, tick.seen[e].flags),
                 members |-> tick.local[e].members]
<1>1. /\ tick.pc = "reconcile" /\ ~IsDestroy(tick.seen[e]) /\ UNCHANGED file
      /\ row' = [row EXCEPT ![e] = r]
      /\ tick' = [tick EXCEPT !.accepted = @ \ {e}, !.local[e] = r]
  BY DEF ReconcileUpdated
<1>2. Agrees(r.path, r.kw)
  BY <1>1 DEF Agrees, IsDestroy, Merged, FlagString
<1>6. r \in Row
  <2>1. tick.local[e] \in Row /\ tick.seen[e] \in Path
    BY <1>1 DEF ReconcileUpdated, TypeOK, ControlOK, Tick, IsDestroy
  <2> QED BY <2>1 DEF Row, Merged, Keyword
<1> HIDE DEF r
<1>3. /\ tick'.pc = "reconcile" /\ UNCHANGED <<tick.ids, tick.got>>
      /\ tick'.local[e] = r /\ \A f \in Email \ {e} : tick'.local[f] = tick.local[f]
  BY <1>1 DEF TypeOK, Tick
<1>4. LocalsOK'
  BY <1>1, <1>3 DEF BaseInv, LocalsOK, Stage, Waiting, TypeOK
<1>5. RowsOK'
  BY <1>1, <1>2, <1>3, <1>6, NullsAssumption DEF BaseInv, RowsOK, TypeOK
<1> QED BY <1>4, <1>5 DEF BaseInv

\* A hydrated e-mail gets its file; the row follows.
LEMMA WriteNextBase ==
    ASSUME TypeOK, BaseInv, NEW e \in Email, NEW m \in Scope, Hydrated(e), WriteNext(e, m),
           UNCHANGED row, \A f \in Email \ {e} : file'[f] = file[f]
    PROVE  BaseInv'
<1> DEFINE new == [path |-> TargetPath(e, m), kw |-> tick.got[e].kw,
                   members |-> TargetMembers(e)]
           job == [email |-> e, back |-> "apply", row |-> new]
<1>1. tick.pc = "apply" /\ tick.got[e] # NoMessage /\ e \notin tick.ids /\ tick.accepted = {}
  BY DEF Hydrated, BaseInv, LocalsOK, Stage, TypeOK, ControlOK
<1>2. Agrees(new.path, new.kw)
  BY SetsAssumption DEF Agrees, TargetPath, FlagString
<1>3. tick' = [tick EXCEPT !.pc = "row", !.got[e] = NoMessage, !.job = job]
  BY DEF WriteNext
<1>4. job.email = e /\ job.row = new
  OBVIOUS
<1> HIDE DEF new, job
<1>5. /\ tick'.pc = "row" /\ tick'.job = job
      /\ UNCHANGED <<tick.ids, tick.local, tick.accepted>>
      /\ tick'.got[e] = NoMessage /\ \A f \in Email \ {e} : tick'.got[f] = tick.got[f]
  BY <1>3 DEF TypeOK, Tick
<1>6. LocalsOK'
  BY <1>1, <1>4, <1>5 DEF BaseInv, LocalsOK, Stage, Waiting
<1>7. RowsOK'
  BY <1>1, <1>2, <1>4, <1>5 DEF BaseInv, RowsOK
<1> QED BY <1>6, <1>7 DEF BaseInv

LEMMA ApplyBase ==
    ASSUME TypeOK, BaseInv, NEW e \in Email, NEW m \in Scope,
           ApplyInsert(e, m) \/ ApplyMove(e, m) \/ ApplyUpdate(e, m)
    PROVE  BaseInv'
BY WriteNextBase DEF ApplyInsert, ApplyMove, ApplyUpdate, RenameStored, TypeOK

\* An e-mail that needs nothing.
LEMMA ApplyNothingBase ==
    ASSUME TypeOK, BaseInv, NEW e \in Email,
           \/ \E m \in Scope : ApplyNothing(e, m)
           \/ ApplyOutOfScope(e) /\ tick.local[e] = NoRow
    PROVE  BaseInv'
<1>1. /\ tick.pc = "apply" /\ UNCHANGED <<file, row>>
      /\ tick' = [tick EXCEPT !.got[e] = NoMessage]
  BY DEF ApplyNothing, ApplyOutOfScope, Hydrated, stores
<1>2. /\ tick'.pc = "apply" /\ UNCHANGED <<tick.ids, tick.local>>
      /\ tick'.got[e] = NoMessage /\ \A f \in Email \ {e} : tick'.got[f] = tick.got[f]
  BY <1>1 DEF TypeOK, Tick
<1>3. LocalsOK'
  BY <1>1, <1>2 DEF BaseInv, LocalsOK, Stage, Waiting
<1> QED BY <1>1, <1>2, <1>3, RowsKept DEF BaseInv

LEMMA WriteRowBase == ASSUME TypeOK, BaseInv, WriteRow PROVE BaseInv'
<1> DEFINE e == tick.job.email
           old == IF row[e] = NoRow THEN {} ELSE row[e].members
           new == [tick.job.row EXCEPT !.members = old]
<1>1. /\ tick.pc = "row" /\ e \in Email /\ tick.job.row \in Row /\ UNCHANGED file
      /\ row' = [row EXCEPT ![e] = new] /\ tick' = [tick EXCEPT !.pc = "members"]
  BY DEF WriteRow, TypeOK, ControlOK, Job
<1>2. /\ new.path = tick.job.row.path /\ new.kw = tick.job.row.kw
      /\ new \in Row
  <2>1. old \in SUBSET Scope
    BY <1>1 DEF TypeOK, Row
  <2> QED BY <1>1, <2>1 DEF Row
<1> HIDE DEF new
<1>3. /\ tick'.pc = "members"
      /\ UNCHANGED <<tick.ids, tick.local, tick.got, tick.job, tick.accepted>>
  BY <1>1 DEF TypeOK, Tick
<1>4. LocalsOK'
  BY <1>1, <1>3 DEF BaseInv, LocalsOK, Stage, Waiting, TypeOK
<1>5. RowsOK'
  BY <1>1, <1>2, <1>3, NullsAssumption DEF BaseInv, RowsOK, TypeOK
<1> QED BY <1>4, <1>5 DEF BaseInv

LEMMA WriteMembersBase == ASSUME TypeOK, BaseInv, WriteMembers PROVE BaseInv'
<1> DEFINE e == tick.job.email
<1>1. /\ tick.pc = "members" /\ e \in Email /\ row[e] \in Row /\ UNCHANGED file
      /\ row' = [row EXCEPT ![e].members = tick.job.row.members]
      /\ tick' = [tick EXCEPT !.pc = "apply", !.job = NoJob]
      /\ tick.job.row.members \in SUBSET Scope
  BY DEF WriteMembers, TypeOK, ControlOK, Job, Row
<1>2. /\ row'[e] \in Row /\ row'[e].path = row[e].path /\ row'[e].kw = row[e].kw
      /\ \A f \in Email \ {e} : row'[f] = row[f]
  BY <1>1 DEF TypeOK, Row
<1>3. tick'.pc = "apply" /\ UNCHANGED <<tick.ids, tick.local, tick.got, tick.accepted>>
  BY <1>1 DEF TypeOK, Tick
<1>4. LocalsOK'
  BY <1>1, <1>2, <1>3 DEF BaseInv, LocalsOK, Stage, Waiting
<1>5. RowsOK'
  BY <1>1, <1>2, <1>3, NullsAssumption DEF BaseInv, RowsOK
<1> QED BY <1>4, <1>5 DEF BaseInv

LEMMA CrashBase == ASSUME TypeOK, BaseInv, Crash PROVE BaseInv'
<1> DEFINE e == tick.job.email
<1>1. LocalsOK' /\ tick'.pc = "idle"
  BY IdleLocals DEF Crash, Idle
<1>2. CASE tick.pc = "members"
  <2>1. e \in Email /\ row[e] \in Row /\ UNCHANGED file
    BY <1>2 DEF Crash, InsertTorn, TypeOK, ControlOK, Job
  <2>2. PICK left \in (SUBSET row[e].members) \cup (SUBSET tick.job.row.members) :
           row' = [row EXCEPT ![e].members = left]
    BY <1>2 DEF Crash, MembersTorn
  <2>3. left \in SUBSET Scope
    <3>1. row[e].members \in SUBSET Scope /\ tick.job.row.members \in SUBSET Scope
      BY <1>2, <2>1 DEF TypeOK, ControlOK, Row
    <3> QED BY <2>2, <3>1
  <2>4. /\ row'[e] \in Row /\ row'[e].path = row[e].path /\ row'[e].kw = row[e].kw
        /\ \A f \in Email \ {e} : row'[f] = row[f]
    BY <2>1, <2>2, <2>3 DEF TypeOK, Row
  <2>5. RowsOK'
    BY <1>1, <1>2, <2>1, <2>4, NullsAssumption DEF BaseInv, RowsOK
  <2> QED BY <1>1, <2>5 DEF BaseInv
<1>3. CASE tick.pc # "members"
  <2>1. UNCHANGED row
    BY <1>3 DEF Crash, MembersTorn
  <2>2. \A f \in Email : file'[f] # NoFile =>
           file'[f] = file[f] /\ ~(tick.pc = "row" /\ f = e /\ row[f] = NoRow)
    BY <1>3 DEF Crash, InsertTorn, TypeOK, ControlOK, Job
  <2> QED BY <1>1, <2>1, <2>2 DEF BaseInv, RowsOK
<1> QED BY <1>2, <1>3

LEMMA OthersBase ==
    ASSUME TypeOK, BaseInv, Others PROVE BaseInv'
<1>1. UNCHANGED <<row, tick>> /\ \A e \in Email : file'[e] # NoFile => file[e] # NoFile
  BY DEF Others, ServerDeliver, ServerDestroy, ServerMove, ServerKeyword, ServerEdit,
         UserFlag, UserUnlink, UserEdit, TypeOK
<1> QED BY <1>1 DEF BaseInv, LocalsOK, RowsOK, Stage, Waiting

LEMMA BaseNext == TypeOK /\ BaseInv /\ [Next]_vars => BaseInv'
<1> SUFFICES ASSUME TypeOK, BaseInv, [Next]_vars PROVE BaseInv'
  OBVIOUS
<1>1. CASE UNCHANGED vars
  BY <1>1 DEF vars, BaseInv, LocalsOK, RowsOK, Stage, Waiting
<1>2. ASSUME NEW e \in Email, Apply(e) PROVE BaseInv'
  BY <1>2, PassingBase, DeletionsBase, ApplyBase, ApplyNothingBase DEF Apply
<1> QED
  BY <1>1, <1>2, PassingBase, GetChunkBase, DeletionsBase, DeleteRowBase, ReconcileUpdatedBase,
     WriteRowBase, WriteMembersBase, CrashBase, OthersBase
     DEF Next, Daemon, Failures

LEMMA BaseCorrect == Spec => []BaseInv
BY BaseInit, BaseNext, TypeCorrect, PTL DEF Spec

-----------------------------------------------------------------------------
\* Only the two renames write a file over another, and they find the file
\* under the path that the tick has read.
LEMMA RenameKeepsPushed ==
    ASSUME TypeOK, BaseInv, NEW e \in Email, NEW m \in Scope,
           ApplyMove(e, m) \/ ApplyUpdate(e, m), file'[e] # file[e]
    PROVE  FlagString(file[e].flags) = FlagString(row[e].kw)
<1>1. /\ tick.pc = "apply" /\ tick.got[e] # NoMessage /\ tick.local[e] # NoRow
      /\ RenameStored(e, m)
  BY DEF ApplyMove, ApplyUpdate, Hydrated
<1>2. file[e] = tick.local[e].path
  BY <1>1 DEF RenameStored
<1>3. tick.local[e] = row[e]
  BY <1>1 DEF BaseInv, LocalsOK, Stage, Waiting
<1> QED BY <1>1, <1>2, <1>3 DEF BaseInv, RowsOK, Agrees

LEMMA OnlyRenamesOverwrite ==
    ASSUME TypeOK, BaseInv, Next, spent' = spent, NEW e \in Email,
           file[e] # NoFile, file'[e] # NoFile, row[e] # NoRow, file'[e] # file[e]
    PROVE  \E m \in Scope : ApplyMove(e, m) \/ ApplyUpdate(e, m)
<1>1. ~Others /\ ~Failures
  BY DEF Others, ServerDeliver, ServerDestroy, ServerMove, ServerKeyword, ServerEdit, UserFlag,
         UserUnlink, UserEdit, Failures, Abort, SetReplyLost, Crash, TypeOK, Spent
<1>2. Daemon
  BY <1>1 DEF Next
<1>3. PICK f \in Email : Apply(f)
  <2>1. ~(\E f \in Email : CleanupOrphan(f) \/ ReconcileDestroyed(f) \/ DeleteGone(f))
    BY DEF CleanupOrphan, ReconcileDestroyed, DeleteGone, RemoveFile, TypeOK
  <2>2. ~(\E f \in Email : ReconcileUpdated(f)) /\ ~(\E m \in Scope : QueryPage(m))
    BY DEF ReconcileUpdated, QueryPage, stores
  <2>3. ~DeleteRow
    BY DEF DeleteRow, TypeOK
  <2> QED
    BY <1>2, <2>1, <2>2, <2>3 DEF Daemon, StartTick, CleanupDone, Detect, SetEmails, ReconcileDone,
       DeletesDone, GetChunk, EndTick, ApplyDone, WriteRow, WriteMembers, stores
<1>4. ~ApplyOutOfScope(f) /\ ~DownloadFails(f)
  BY DEF ApplyOutOfScope, RemoveFile, DownloadFails, stores, TypeOK
<1>5. PICK m \in Scope : ApplyInsert(f, m) \/ ApplyMove(f, m) \/ ApplyUpdate(f, m)
  BY <1>3, <1>4 DEF Apply, ApplyNothing, stores
<1>6. f = e
  BY <1>5 DEF ApplyInsert, ApplyMove, ApplyUpdate, RenameStored, TypeOK
<1>7. ~ApplyInsert(f, m)
  BY <1>6 DEF ApplyInsert, Hydrated, BaseInv, LocalsOK, Stage, Waiting
<1> QED BY <1>5, <1>6, <1>7

\* move_email and update_email_in_place rename a file only from the exact
\* stored name, and the flags in that name are those of the stored keywords:
\* whatever races and crashes came before, a flag that the user has set and
\* that is not pushed yet is in no file that the daemon renames.
THEOREM FlagsSurvive == Spec => UnpushedFlagsSurvive
<1> DEFINE Survive == \A e \in Email :
             (spent' = spent /\ file[e] # NoFile /\ file'[e] # NoFile /\ row[e] # NoRow
                /\ FlagString(file'[e].flags) # FlagString(file[e].flags))
                => FlagString(file[e].flags) = FlagString(row[e].kw)
<1>1. TypeOK /\ BaseInv /\ [Next]_vars => [Survive]_vars
  <2> SUFFICES ASSUME TypeOK, BaseInv, Next, NEW e \in Email,
                      spent' = spent, file[e] # NoFile, file'[e] # NoFile, row[e] # NoRow,
                      file'[e] # file[e]
               PROVE  FlagString(file[e].flags) = FlagString(row[e].kw)
    OBVIOUS
  <2> QED BY OnlyRenamesOverwrite, RenameKeepsPushed
<1> QED BY <1>1, TypeCorrect, BaseCorrect, PTL DEF Spec, UnpushedFlagsSurvive

-----------------------------------------------------------------------------
(***************************************************************************)
(* One undisturbed tick, stage by stage.                                   *)
(***************************************************************************)

\* The mirror is to hold e.
Mirrored(e) == server[e].life = "live" /\ server[e].in \cap Scope # {}

\* No local change to e is left to find.
Clean(e) == IF row[e] = NoRow THEN file[e] = NoFile ELSE file[e] = row[e].path

\* Path and keywords of r are the server's, and the file is there.
Written(e, r) ==
    /\ file[e] = r.path
    /\ r.path.dir \in Primaries(server[e].in)
    /\ r.path.flags = FlagString(server[e].kw)
    /\ r.kw = server[e].kw

OrphansCalm == tick.at = {} /\ tick.pos = 0 /\ tick.ids = {}

\* What has been listed is all there is in the mailboxes done, and in the one
\* that is being read up to the position reached.
QueryCalm ==
    /\ tick.at # {} => \E m \in tick.todo : tick.at = {m}
    /\ tick.at = {} => tick.pos = 0
    /\ \A e \in tick.ids : Mirrored(e)
    /\ \A m \in Scope \ tick.todo : Listed(m) \subseteq tick.ids
    /\ \A m \in tick.at : {e \in Listed(m) : Place(Listed(m), e) <= tick.pos} \subseteq tick.ids

\* What the user changed is what detection found, no less.
SetCalm ==
    /\ \A e \in Email : e \in tick.ids <=> Mirrored(e)
    /\ tick.local = row
    /\ \A e \in tick.changed : row[e] # NoRow /\ tick.seen[e] = Resolve(e)
    /\ \A e \in Email \ tick.changed : Clean(e)

\* Pushed and reconciled, if there was anything to push.
Ready(e) ==
    /\ e \in tick.ids <=> Mirrored(e)
    /\ tick.local[e] = IF AtWork(e) THEN NoRow ELSE row[e]
    /\ e \in tick.ids => Clean(e)

ReconcileCalm ==
    /\ \A e \in tick.accepted :
          /\ tick.local[e] = row[e] /\ tick.seen[e] = Resolve(e)
          /\ IF IsDestroy(tick.seen[e]) THEN ~Mirrored(e) ELSE e \in tick.ids <=> Mirrored(e)
    /\ \A e \in Email \ tick.accepted : Ready(e)

DeletesCalm == \A e \in Email : Ready(e)

\* Each e-mail waits for its turn or has had it.
GetCalm ==
    \A e \in Email :
        IF Waiting(e) THEN Mirrored(e) /\ Clean(e) /\ tick.got[e] \in {NoMessage, server[e]}
        ELSE AtWork(e) \/ InSync(e)

WriteCalm ==
    LET e == tick.job.email IN
    /\ tick.pc # "unlinked"
    /\ tick.pc \in {"row", "members"} =>
         /\ Mirrored(e)
         /\ Written(e, tick.job.row)
         /\ tick.job.row.members = server[e].in \cap Scope
    /\ tick.pc = "members" => row[e].path = tick.job.row.path /\ row[e].kw = tick.job.row.kw

CalmOK ==
    calm >= 1 =>
        /\ Stage = "idle" => \A e \in Email : InSync(e)
        /\ Stage = "orphans" => OrphansCalm
        /\ Stage = "query" => QueryCalm
        /\ Stage = "set" => SetCalm
        /\ Stage = "reconcile" => ReconcileCalm
        /\ Stage = "deletes" => DeletesCalm
        /\ Stage = "get" => GetCalm
        /\ Stage = "apply" => GetCalm /\ WriteCalm

\* An e-mail with a mirrored mailbox has a primary one.
LEMMA PrimariesExist ==
    ASSUME NEW in, in \cap Scope # {}
    PROVE  Primaries(in) # {}
<1> DEFINE Ranks == {Rank[m] : m \in in \cap Scope}
<1>1. Ranks \in SUBSET Nat /\ Ranks # {}
  BY SetsAssumption
<1>2. PICK r \in Ranks : \A s \in Ranks : r <= s
  <2> HIDE DEF Ranks
  <2> QED BY <1>1, LeastNatural
<1>3. PICK m \in in \cap Scope : Rank[m] = r
  OBVIOUS
<1> QED BY <1>2, <1>3 DEF Primaries

LEMMA ListedFinite ==
    ASSUME NEW m PROVE Listed(m) \in SUBSET Nat /\ IsFiniteSet(Listed(m))
BY SetsAssumption, FS_Subset DEF Listed

\* A step that goes on from the whole of the tick so far.
LEMMA EnterQuery == ASSUME TypeOK, CalmOK, CleanupDone PROVE CalmOK'
<1>1. /\ tick.pc = "orphans" /\ UNCHANGED calm
      /\ tick' = [tick EXCEPT !.pc = "query", !.todo = Scope]
  BY DEF CleanupDone
<1>2. /\ tick'.pc = "query" /\ tick'.todo = Scope /\ UNCHANGED <<tick.at, tick.pos, tick.ids>>
  BY <1>1 DEF TypeOK, Tick
<1> QED BY <1>1, <1>2 DEF CalmOK, OrphansCalm, QueryCalm, Stage

LEMMA PageCalm ==
    ASSUME TypeOK, CalmOK, NEW m \in Scope, QueryPage(m)
    PROVE  CalmOK'
<1> DEFINE page == Page(m, tick.pos)
           last == Cardinality(page) < PageSize
<1>1. /\ tick.pc = "query" /\ UNCHANGED <<stores, calm>>
      /\ m \in (IF tick.at = {} THEN tick.todo ELSE tick.at)
      /\ tick' = [tick EXCEPT !.ids = @ \cup page, !.todo = IF last THEN @ \ {m} ELSE @,
                              !.at = IF last THEN {} ELSE {m},
                              !.pos = IF last THEN 0 ELSE @ + PageSize]
  BY DEF QueryPage
<1>2. page = {e \in Listed(m) : tick.pos < Place(Listed(m), e)
                                  /\ Place(Listed(m), e) <= tick.pos + PageSize}
  BY DEF Page, Place
<1>3. tick.pos \in Nat /\ PageSize \in Nat
  BY SizesAssumption DEF TypeOK, Tick
<1>4. last => \A e \in Listed(m) : Place(Listed(m), e) <= tick.pos + PageSize
  <2> SUFFICES ASSUME last PROVE \A e \in Listed(m) : Place(Listed(m), e) <= tick.pos + PageSize
    OBVIOUS
  <2>1. Cardinality({e \in Listed(m) : tick.pos < Place(Listed(m), e)
                       /\ Place(Listed(m), e) <= tick.pos + PageSize}) < PageSize
    BY <1>2
  <2> QED BY <1>3, <2>1, ListedFinite, ShortPageIsLast
<1> HIDE DEF page, last
<1>5. /\ tick'.pc = "query" /\ tick'.ids = tick.ids \cup page
      /\ tick'.todo = (IF last THEN tick.todo \ {m} ELSE tick.todo)
      /\ tick'.at = (IF last THEN {} ELSE {m})
      /\ tick'.pos = (IF last THEN 0 ELSE tick.pos + PageSize)
  BY <1>1 DEF TypeOK, Tick
<1> SUFFICES ASSUME calm >= 1 PROVE QueryCalm'
  BY <1>1, <1>5 DEF CalmOK, Stage
<1>6. QueryCalm
  BY <1>1 DEF CalmOK, Stage
<1>7. m \in tick.todo /\ (tick.at # {} => tick.at = {m})
  BY <1>1, <1>6 DEF QueryCalm
<1>8. \A e \in Listed(m) : Place(Listed(m), e) \in Nat \ {0}
  BY ListedFinite, PlacePositive
<1>9. \A e \in Listed(m) : Place(Listed(m), e) <= tick.pos + PageSize => e \in tick'.ids
  <2> SUFFICES ASSUME NEW e \in Listed(m), Place(Listed(m), e) <= tick.pos PROVE e \in tick.ids
    BY <1>2, <1>3, <1>5, <1>8
  <2> QED BY <1>6, <1>7, <1>8 DEF QueryCalm
<1>10. UNCHANGED server /\ \A n : Listed(n)' = Listed(n)
  BY <1>1 DEF Listed, stores
<1>11. \A e \in tick'.ids : Mirrored(e)'
  BY <1>2, <1>5, <1>6, <1>10 DEF QueryCalm, Mirrored, Listed
<1>12. \A n \in Scope \ tick'.todo : Listed(n)' \subseteq tick'.ids
  BY <1>4, <1>5, <1>6, <1>9, <1>10 DEF QueryCalm
<1>13. \A n \in tick'.at : {e \in Listed(n)' : Place(Listed(n)', e) <= tick'.pos} \subseteq tick'.ids
  BY <1>5, <1>9, <1>10
<1> QED BY <1>5, <1>7, <1>11, <1>12, <1>13 DEF QueryCalm

\* Without flags that have no keyword, a file whose flags are those of the row
\* has the row's path.
LEMMA UnchangedIsClean ==
    ASSUME TypeOK, BaseInv, Odd = {}, NEW e \in Email, row[e] # NoRow,
           ~IsDestroy(Resolve(e)), ~IsUpdate(Resolve(e), row[e])
    PROVE  file[e] = row[e].path
<1>1. /\ file[e] # NoFile /\ file[e].dir = row[e].path.dir /\ Trashed \notin file[e].flags
      /\ Merged(row[e].kw, file[e].flags) = row[e].kw
  BY DEF Resolve, IsDestroy, IsUpdate
<1>2. file[e] \in Path /\ row[e].path \in Path
  BY <1>1 DEF TypeOK, Row
<1>3. FlagString(file[e].flags) = FlagString(row[e].kw)
  BY <1>1 DEF Merged, FlagString
<1>4. /\ Trashed \notin row[e].path.flags
      /\ FlagString(row[e].path.flags) = FlagString(row[e].kw)
  BY DEF BaseInv, RowsOK, Agrees
<1>5. file[e].flags = row[e].path.flags
  <2>1. file[e].flags \subseteq Standard /\ row[e].path.flags \subseteq Standard
    BY <1>1, <1>2, <1>4 DEF Path, Flag
  <2> QED BY <1>3, <1>4, <2>1 DEF FlagString
<1> QED BY <1>1, <1>2, <1>5 DEF Path

LEMMA DetectCalm ==
    ASSUME TypeOK, BaseInv, CalmOK, Odd = {}, Detect
    PROVE  CalmOK'
<1> DEFINE seen == [e \in Email |-> IF row[e] = NoRow THEN NoFile ELSE Resolve(e)]
           changed == {e \in Email : row[e] # NoRow /\
                          (IsDestroy(seen[e]) \/ IsUpdate(seen[e], row[e]))}
<1>1. /\ tick.pc = "query" /\ tick.todo = {} /\ UNCHANGED <<stores, calm>>
      /\ tick' = [tick EXCEPT !.local = row, !.changed = changed,
                    !.seen = [e \in Email |-> IF e \in changed THEN seen[e] ELSE NoFile],
                    !.pc = IF changed = {} THEN "deletes" ELSE "set"]
  BY DEF Detect
<1>2. \A e \in changed : e \in Email /\ row[e] # NoRow /\ seen[e] = Resolve(e)
  OBVIOUS
<1>3. \A e \in Email \ changed : Clean(e)
  <2> SUFFICES ASSUME NEW e \in Email \ changed, row[e] # NoRow PROVE file[e] = row[e].path
    BY <1>1 DEF Clean, BaseInv, RowsOK
  <2> QED BY UnchangedIsClean
<1> HIDE DEF seen, changed
<1>4. /\ tick'.pc = (IF changed = {} THEN "deletes" ELSE "set") /\ tick'.local = row
      /\ tick'.changed = changed /\ tick'.ids = tick.ids
      /\ \A e \in changed : tick'.seen[e] = seen[e]
  BY <1>1, <1>2 DEF TypeOK, Tick
<1> SUFFICES ASSUME calm >= 1 PROVE CalmOK'
  BY <1>1 DEF CalmOK
<1>5. \A e \in Email : e \in tick.ids <=> Mirrored(e)
  <2>1. QueryCalm
    BY <1>1 DEF CalmOK, Stage
  <2> QED BY <1>1, <2>1 DEF QueryCalm, Mirrored, Listed, TypeOK, Tick, Message
<1>6. \A e \in Email : /\ (Mirrored(e)' <=> Mirrored(e)) /\ (Clean(e)' <=> Clean(e))
                       /\ Resolve(e)' = Resolve(e)
  BY <1>1 DEF Mirrored, Clean, Resolve, stores
<1>7. CASE changed = {}
  <2>1. DeletesCalm'
    BY <1>1, <1>3, <1>4, <1>5, <1>6, <1>7 DEF DeletesCalm, Ready, AtWork, stores
  <2> QED BY <1>4, <1>7, <2>1 DEF CalmOK, Stage
<1>8. CASE changed # {}
  <2>1. SetCalm'
    BY <1>1, <1>2, <1>3, <1>4, <1>5, <1>6 DEF SetCalm, stores
  <2> QED BY <1>4, <1>8, <2>1 DEF CalmOK, Stage
<1> QED BY <1>7, <1>8

LEMMA SetEmailsCalm ==
    ASSUME TypeOK, BaseInv, CalmOK, SetEmails
    PROVE  CalmOK'
<1>1. PICK accepted \in SUBSET Acceptable :
         /\ ServerAccepts(accepted)
         /\ calm' = (IF accepted = Acceptable THEN calm ELSE 0)
         /\ tick' = [tick EXCEPT !.pc = "reconcile", !.accepted = accepted]
  BY DEF SetEmails
<1>2. tick.pc = "set" /\ UNCHANGED <<file, row>>
  BY DEF SetEmails
<1>3. /\ tick'.pc = "reconcile" /\ tick'.accepted = accepted
      /\ UNCHANGED <<tick.ids, tick.local, tick.seen, tick.changed>>
  BY <1>1 DEF TypeOK, Tick
<1> SUFFICES ASSUME calm >= 1, accepted = Acceptable PROVE ReconcileCalm'
  BY <1>1, <1>3 DEF CalmOK, Stage
<1>4. SetCalm
  BY <1>2 DEF CalmOK, Stage
<1>5. tick.changed \subseteq Email /\ tick.ids \subseteq Email
  BY DEF TypeOK, Tick
<1>6. ASSUME NEW e \in Acceptable
      PROVE  /\ tick'.local[e] = row'[e] /\ tick'.seen[e] = Resolve(e)'
             /\ IF IsDestroy(tick'.seen[e]) THEN ~Mirrored(e)' ELSE e \in tick'.ids <=> Mirrored(e)'
  <2>1. e \in tick.changed /\ e \in Email /\ server[e].life = "live" /\ server[e] \in Message
    BY <1>5 DEF Acceptable, TypeOK
  <2>2. tick'.local[e] = row'[e] /\ tick'.seen[e] = Resolve(e)'
    BY <1>2, <1>3, <1>4, <2>1 DEF SetCalm, Resolve
  <2>3. server'[e] = WrittenBack(e)
    BY <1>1, <2>1 DEF ServerAccepts
  <2>4. CASE IsDestroy(tick.seen[e])
    BY <1>3, <2>2, <2>3, <2>4 DEF WrittenBack, Mirrored
  <2>5. CASE ~IsDestroy(tick.seen[e])
    <3>1. server'[e].life = server[e].life /\ server'[e].in = server[e].in
      BY <2>1, <2>3, <2>5 DEF WrittenBack, Message
    <3> QED BY <1>3, <1>4, <2>1, <2>2, <2>5, <3>1 DEF SetCalm, Mirrored
  <2> QED BY <2>4, <2>5
<1>7. ASSUME NEW e \in Email \ Acceptable PROVE Ready(e)'
  <2>1. server'[e] = server[e]
    BY <1>1 DEF ServerAccepts
  <2>2. Mirrored(e) => Clean(e)
    BY <1>4 DEF SetCalm, Acceptable, Mirrored
  <2>3. ~AtWork(e)'
    BY <1>3 DEF AtWork
  <2> QED BY <1>2, <1>3, <1>4, <2>1, <2>2, <2>3 DEF SetCalm, Ready, Mirrored, Clean
<1> QED BY <1>3, <1>6, <1>7 DEF ReconcileCalm

\* E-mails that a step does not touch stay ready.
LEMMA ReadyKept ==
    ASSUME NEW e, UNCHANGED <<server, file[e], row[e], tick.local[e]>>,
           e \in tick'.ids <=> e \in tick.ids, ~AtWork(e), ~AtWork(e)', Ready(e)
    PROVE  Ready(e)'
BY DEF Ready, Mirrored, Clean

LEMMA ReconcileDestroyedCalm ==
    ASSUME TypeOK, BaseInv, CalmOK, NEW e \in Email, ReconcileDestroyed(e)
    PROVE  CalmOK'
<1>1. /\ tick.pc = "reconcile" /\ e \in tick.accepted /\ IsDestroy(tick.seen[e])
      /\ UNCHANGED <<server, row, calm>>
      /\ \A f \in Email \ {e} : file'[f] = file[f]
      /\ tick' = [tick EXCEPT !.pc = "unlinked", !.job = Deleting(e, "reconcile"),
                              !.accepted = @ \ {e}, !.ids = @ \ {e}, !.local[e] = NoRow]
  BY DEF ReconcileDestroyed, RemoveFile, TypeOK
<1>2. /\ tick'.pc = "unlinked" /\ tick'.job.email = e /\ tick'.job.back = "reconcile"
      /\ tick'.accepted = tick.accepted \ {e} /\ tick'.ids = tick.ids \ {e}
      /\ UNCHANGED tick.seen /\ tick'.local[e] = NoRow
      /\ \A f \in Email \ {e} : tick'.local[f] = tick.local[f]
  BY <1>1 DEF TypeOK, Tick, Deleting
<1> SUFFICES ASSUME calm >= 1 PROVE ReconcileCalm'
  BY <1>1, <1>2 DEF CalmOK, Stage
<1>3. ReconcileCalm
  BY <1>1 DEF CalmOK, Stage
<1>4. tick.accepted \subseteq Email
  BY DEF TypeOK, Tick
<1>5. Ready(e)'
  BY <1>1, <1>2, <1>3 DEF ReconcileCalm, Ready, AtWork, Mirrored
<1>6. \A f \in (Email \ tick.accepted) \ {e} : Ready(f)'
  BY <1>1, <1>2, <1>3, ReadyKept DEF ReconcileCalm, AtWork
<1>7. \A f \in tick'.accepted :
         /\ tick'.local[f] = row'[f] /\ tick'.seen[f] = Resolve(f)'
         /\ IF IsDestroy(tick'.seen[f]) THEN ~Mirrored(f)' ELSE f \in tick'.ids <=> Mirrored(f)'
  BY <1>1, <1>2, <1>3, <1>4 DEF ReconcileCalm, Resolve, Mirrored
<1> QED BY <1>2, <1>5, <1>6, <1>7 DEF ReconcileCalm

LEMMA ReconcileUpdatedCalm ==
    ASSUME TypeOK, BaseInv, CalmOK, NEW e \in Email, ReconcileUpdated(e)
    PROVE  CalmOK'
<1> DEFINE r == [path |-> tick.seen[e],
                 kw |-> Merged(tick.local[e].kw, tick.seen[e].flags),
                 members |-> tick.local[e].members]
<1>1. /\ tick.pc = "reconcile" /\ e \in tick.accepted /\ ~IsDestroy(tick.seen[e])
      /\ UNCHANGED <<server, file, calm>>
      /\ row' = [row EXCEPT ![e] = r]
      /\ tick' = [tick EXCEPT !.accepted = @ \ {e}, !.local[e] = r]
  BY DEF ReconcileUpdated
<1>2. r \in Row
  <2>1. tick.local[e] \in Row /\ tick.seen[e] \in Path
    BY <1>1 DEF TypeOK, ControlOK, Tick, IsDestroy
  <2> QED BY <2>1 DEF Row, Merged, Keyword
<1>3. r.path = tick.seen[e]
  OBVIOUS
<1> HIDE DEF r
<1>4. /\ tick'.pc = "reconcile" /\ tick'.accepted = tick.accepted \ {e}
      /\ UNCHANGED <<tick.ids, tick.seen, tick.job>> /\ tick'.local[e] = r
      /\ \A f \in Email \ {e} : tick'.local[f] = tick.local[f]
  BY <1>1 DEF TypeOK, Tick
<1>5. row'[e] = r /\ \A f \in Email \ {e} : row'[f] = row[f]
  BY <1>1 DEF TypeOK
<1> SUFFICES ASSUME calm >= 1 PROVE ReconcileCalm'
  BY <1>1, <1>4 DEF CalmOK, Stage
<1>6. ReconcileCalm
  BY <1>1 DEF CalmOK, Stage
<1>7. tick.accepted \subseteq Email
  BY DEF TypeOK, Tick
<1>8. Ready(e)'
  <2>1. file[e] = r.path
    BY <1>1, <1>3, <1>6 DEF ReconcileCalm, IsDestroy, Resolve
  <2>2. Clean(e)'
    BY <1>1, <1>2, <1>5, <2>1, NullsAssumption DEF Clean
  <2> QED BY <1>1, <1>4, <1>5, <1>6, <2>2 DEF ReconcileCalm, Ready, AtWork, Mirrored
<1>9. \A f \in (Email \ tick.accepted) \ {e} : Ready(f)'
  BY <1>1, <1>4, <1>5, <1>6, ReadyKept DEF ReconcileCalm, AtWork
<1>10. \A f \in tick'.accepted :
         /\ tick'.local[f] = row'[f] /\ tick'.seen[f] = Resolve(f)'
         /\ IF IsDestroy(tick'.seen[f]) THEN ~Mirrored(f)' ELSE f \in tick'.ids <=> Mirrored(f)'
  BY <1>1, <1>4, <1>5, <1>6, <1>7 DEF ReconcileCalm, Resolve, Mirrored
<1> QED BY <1>4, <1>8, <1>9, <1>10 DEF ReconcileCalm

LEMMA ReconcileDoneCalm == ASSUME TypeOK, CalmOK, ReconcileDone PROVE CalmOK'
<1>1. /\ tick.pc = "reconcile" /\ tick.accepted = {} /\ UNCHANGED <<stores, calm>>
      /\ tick'.pc = "deletes" /\ UNCHANGED <<tick.ids, tick.local>>
  BY DEF ReconcileDone, TypeOK, Tick
<1> SUFFICES ASSUME calm >= 1 PROVE DeletesCalm'
  BY <1>1 DEF CalmOK, Stage
<1>2. ReconcileCalm
  BY <1>1 DEF CalmOK, Stage
<1> QED BY <1>1, <1>2, ReadyKept DEF ReconcileCalm, DeletesCalm, AtWork, stores

LEMMA DeleteGoneCalm ==
    ASSUME TypeOK, BaseInv, CalmOK, NEW e \in Email, DeleteGone(e)
    PROVE  CalmOK'
<1>1. /\ tick.pc = "deletes" /\ e \notin tick.ids
      /\ UNCHANGED <<server, row, calm>>
      /\ \A f \in Email \ {e} : file'[f] = file[f]
      /\ tick' = [tick EXCEPT !.pc = "unlinked", !.job = Deleting(e, "deletes"),
                              !.local[e] = NoRow]
  BY DEF DeleteGone, IsGone, RemoveFile, TypeOK
<1>2. /\ tick'.pc = "unlinked" /\ tick'.job.email = e /\ tick'.job.back = "deletes"
      /\ UNCHANGED tick.ids /\ tick'.local[e] = NoRow
      /\ \A f \in Email \ {e} : tick'.local[f] = tick.local[f]
  BY <1>1 DEF TypeOK, Tick, Deleting
<1> SUFFICES ASSUME calm >= 1 PROVE DeletesCalm'
  BY <1>1, <1>2 DEF CalmOK, Stage
<1>3. DeletesCalm
  BY <1>1 DEF CalmOK, Stage
<1>4. Ready(e)'
  BY <1>1, <1>2, <1>3 DEF DeletesCalm, Ready, AtWork, Mirrored
<1>5. \A f \in Email \ {e} : Ready(f)'
  BY <1>1, <1>2, <1>3, ReadyKept DEF DeletesCalm, AtWork
<1> QED BY <1>4, <1>5 DEF DeletesCalm

LEMMA DeleteRowCalm == ASSUME TypeOK, BaseInv, CalmOK, DeleteRow PROVE CalmOK'
<1>0. PICK e \in Email : e = tick.job.email
  BY DEF DeleteRow, TypeOK, ControlOK, Job
<1>1. /\ tick.pc = "unlinked"
      /\ tick.job.back \in {"orphans", "reconcile", "deletes", "apply"}
      /\ row' = [row EXCEPT ![e] = NoRow] /\ file' = [file EXCEPT ![e] = NoFile]
      /\ tick' = [tick EXCEPT !.pc = tick.job.back, !.job = NoJob]
      /\ UNCHANGED <<server, calm>>
  BY <1>0 DEF DeleteRow, TypeOK, ControlOK, Job
<1>2. /\ tick'.pc = tick.job.back /\ Stage = tick.job.back /\ Stage' = tick.job.back
      /\ UNCHANGED <<tick.at, tick.pos, tick.ids, tick.local, tick.accepted, tick.seen>>
  BY <1>1 DEF TypeOK, Tick, Stage
<1>3. /\ row'[e] = NoRow /\ file'[e] = NoFile
      /\ \A f \in Email \ {e} : row'[f] = row[f] /\ file'[f] = file[f]
  BY <1>1 DEF TypeOK
<1> SUFFICES ASSUME calm >= 1 PROVE CalmOK'
  BY <1>1 DEF CalmOK
<1>4. CASE tick.job.back = "orphans"
  BY <1>2, <1>4 DEF CalmOK, OrphansCalm
<1>5. CASE tick.job.back = "apply"
  BY <1>1, <1>2, <1>5 DEF CalmOK, WriteCalm
<1>6. CASE tick.job.back \in {"reconcile", "deletes"}
  <2>1. e \notin tick.accepted /\ e \notin tick.ids
    BY <1>0, <1>1, <1>2, <1>6 DEF BaseInv, LocalsOK, Waiting
  <2>2. \A f \in Email \ tick.accepted : Ready(f)
    BY <1>2, <1>6 DEF CalmOK, ReconcileCalm, DeletesCalm
  <2>3. \A f \in Email : ~AtWork(f)'
    BY <1>2, <1>6 DEF AtWork
  <2>4. \A f \in Email \ {e} : ~AtWork(f)
    BY <1>0 DEF AtWork
  <2>5. Ready(e)'
    BY <1>0, <1>1, <1>2, <1>3, <2>1, <2>2, <2>3 DEF Ready, AtWork, Mirrored
  <2>6. \A f \in (Email \ tick.accepted) \ {e} : Ready(f)'
    BY <1>1, <1>2, <1>3, <2>2, <2>3, <2>4, ReadyKept
  <2>7. CASE tick.job.back = "deletes"
    <3>1. DeletesCalm
      BY <1>2, <2>7 DEF CalmOK
    <3>2. \A f \in Email \ {e} : Ready(f)'
      BY <1>1, <1>2, <1>3, <2>3, <2>4, <3>1, ReadyKept DEF DeletesCalm
    <3> QED BY <1>2, <2>5, <2>7, <3>2 DEF CalmOK, DeletesCalm
  <2>8. CASE tick.job.back = "reconcile"
    <3>1. ReconcileCalm /\ tick.accepted \subseteq Email
      BY <1>2, <2>8 DEF CalmOK, TypeOK, Tick
    <3>2. \A f \in tick'.accepted :
            /\ tick'.local[f] = row'[f] /\ tick'.seen[f] = Resolve(f)'
            /\ IF IsDestroy(tick'.seen[f]) THEN ~Mirrored(f)' ELSE f \in tick'.ids <=> Mirrored(f)'
      BY <1>1, <1>2, <1>3, <2>1, <3>1 DEF ReconcileCalm, Resolve, Mirrored
    <3>3. ReconcileCalm'
      BY <1>2, <2>5, <2>6, <3>2 DEF ReconcileCalm
    <3> QED BY <1>2, <2>8, <3>3 DEF CalmOK
  <2> QED BY <1>6, <2>7, <2>8
<1> QED BY <1>1, <1>4, <1>5, <1>6

\* What is not waiting and not being written is done.
LEMMA TurnKept ==
    ASSUME NEW e \in Email, GetCalm, ~AtWork(e), UNCHANGED <<server, file[e], row[e]>>,
           UNCHANGED tick.got[e], e \in tick'.ids <=> e \in tick.ids
    PROVE  IF Waiting(e)'
           THEN Mirrored(e)' /\ Clean(e)' /\ tick'.got[e] \in {NoMessage, server'[e]}
           ELSE AtWork(e)' \/ InSync(e)'
<1>1. Waiting(e)' <=> Waiting(e)
  BY DEF Waiting
<1>2. CASE Waiting(e)
  BY <1>1, <1>2 DEF GetCalm, Mirrored, Clean
<1>3. CASE ~Waiting(e)
  BY <1>1, <1>3 DEF GetCalm, InSync
<1> QED BY <1>2, <1>3

LEMMA DeletesDoneCalm == ASSUME TypeOK, BaseInv, CalmOK, DeletesDone PROVE CalmOK'
<1>1. /\ tick.pc = "deletes" /\ UNCHANGED <<stores, calm>>
      /\ tick'.pc = "get" /\ UNCHANGED <<tick.ids, tick.got>>
      /\ \A e \in Email : tick.local[e] = NoRow \/ e \in tick.ids
  BY DEF DeletesDone, IsGone, TypeOK, Tick
<1> SUFFICES ASSUME calm >= 1 PROVE GetCalm'
  BY <1>1 DEF CalmOK, Stage
<1>2. DeletesCalm /\ \A e \in Email : ~AtWork(e)
  BY <1>1 DEF CalmOK, Stage, AtWork
<1> SUFFICES ASSUME NEW e \in Email
             PROVE  IF Waiting(e)'
                    THEN Mirrored(e)' /\ Clean(e)' /\ tick'.got[e] \in {NoMessage, server'[e]}
                    ELSE AtWork(e)' \/ InSync(e)'
  BY DEF GetCalm
<1>3. tick'.got[e] = NoMessage
  BY <1>1 DEF BaseInv, LocalsOK, Stage
<1>4. CASE e \in tick.ids
  BY <1>1, <1>2, <1>3, <1>4 DEF DeletesCalm, Ready, Waiting, Mirrored, Clean, stores
<1>5. CASE e \notin tick.ids
  <2>1. ~Mirrored(e) /\ row[e] = NoRow
    BY <1>1, <1>2, <1>5 DEF DeletesCalm, Ready
  <2>2. file[e] = NoFile
    BY <1>1, <2>1 DEF BaseInv, RowsOK
  <2> QED BY <1>1, <1>3, <1>5, <2>1, <2>2 DEF Waiting, Mirrored, InSync, stores
<1> QED BY <1>4, <1>5

LEMMA GetChunkCalm == ASSUME TypeOK, BaseInv, CalmOK, GetChunk PROVE CalmOK'
<1> DEFINE chunk == Chunk(tick.ids)
           got == [e \in Email |-> IF e \in chunk /\ server[e].life = "live"
                                   THEN server[e] ELSE NoMessage]
<1>1. /\ tick.pc = "get" /\ UNCHANGED <<stores, calm>>
      /\ tick' = [tick EXCEPT !.pc = "apply", !.ids = tick.ids \ chunk, !.got = got]
  BY DEF GetChunk
<1>2. chunk \subseteq tick.ids
  BY DEF Chunk
<1>3. \A e \in Email : got[e] = IF e \in chunk /\ server[e].life = "live"
                                THEN server[e] ELSE NoMessage
  OBVIOUS
<1> HIDE DEF chunk, got
<1>4. tick'.pc = "apply" /\ tick'.ids = tick.ids \ chunk /\ tick'.got = got
  BY <1>1 DEF TypeOK, Tick
<1> SUFFICES ASSUME calm >= 1 PROVE GetCalm' /\ WriteCalm'
  BY <1>1, <1>4 DEF CalmOK, Stage
<1>5. GetCalm /\ \A e \in Email : ~AtWork(e)
  BY <1>1 DEF CalmOK, Stage, AtWork
<1> SUFFICES ASSUME NEW e \in Email
             PROVE  IF Waiting(e)'
                    THEN Mirrored(e)' /\ Clean(e)' /\ tick'.got[e] \in {NoMessage, server'[e]}
                    ELSE AtWork(e)' \/ InSync(e)'
  BY <1>4 DEF GetCalm, WriteCalm
<1>6. tick.got[e] = NoMessage
  BY <1>1 DEF BaseInv, LocalsOK, Stage
<1>7. CASE e \in chunk
  <2>1. Mirrored(e) /\ Clean(e) /\ server[e] \in Message
    BY <1>2, <1>5, <1>7 DEF GetCalm, Waiting, TypeOK
  <2>2. got[e] = server[e] /\ got[e] # NoMessage
    BY <1>3, <1>7, <2>1, NullsAssumption DEF Mirrored
  <2> QED BY <1>1, <1>4, <2>1, <2>2 DEF Waiting, Mirrored, Clean, stores
<1>8. CASE e \notin chunk
  <2>1. tick'.got[e] = tick.got[e] /\ (e \in tick'.ids <=> e \in tick.ids)
    BY <1>3, <1>4, <1>6, <1>8
  <2> QED BY <1>1, <1>5, <2>1, TurnKept DEF stores
<1> QED BY <1>7, <1>8

LEMMA EndTickCalm == ASSUME TypeOK, BaseInv, CalmOK, EndTick PROVE CalmOK'
<1>1. tick.pc = "get" /\ tick.ids = {} /\ UNCHANGED <<stores, calm>> /\ tick'.pc = "idle"
  BY DEF EndTick, Idle
<1> SUFFICES ASSUME calm >= 1, NEW e \in Email PROVE InSync(e)'
  BY <1>1 DEF CalmOK, Stage
<1>2. GetCalm /\ ~AtWork(e) /\ ~Waiting(e)
  BY <1>1 DEF CalmOK, Stage, AtWork, Waiting, BaseInv, LocalsOK
<1> QED BY <1>1, <1>2 DEF GetCalm, InSync, stores

\* What is known of an e-mail whose turn it is.
LEMMA TurnFacts ==
    ASSUME TypeOK, BaseInv, CalmOK, calm >= 1, NEW e \in Email, Hydrated(e)
    PROVE  /\ Mirrored(e) /\ Clean(e) /\ tick.got[e] = server[e] /\ tick.local[e] = row[e]
           /\ e \notin tick.ids /\ GetCalm /\ \A f \in Email : ~AtWork(f)
<1>1. tick.pc = "apply" /\ tick.got[e] # NoMessage
  BY DEF Hydrated
<1>2. GetCalm
  BY <1>1 DEF CalmOK, Stage
<1> QED BY <1>1, <1>2 DEF GetCalm, Waiting, AtWork, BaseInv, LocalsOK, Stage

LEMMA ApplyWritesCalm ==
    ASSUME TypeOK, BaseInv, CalmOK, NEW e \in Email, NEW m \in Scope,
           ApplyInsert(e, m) \/ ApplyMove(e, m) \/ ApplyUpdate(e, m)
    PROVE  CalmOK'
<1> DEFINE r == [path |-> TargetPath(e, m), kw |-> tick.got[e].kw, members |-> TargetMembers(e)]
           job == [email |-> e, back |-> "apply", row |-> r]
<1>1. /\ Hydrated(e) /\ m \in Primaries(tick.got[e].in) /\ UNCHANGED <<server, row, calm>>
      /\ WriteNext(e, m) /\ \A f \in Email \ {e} : file'[f] = file[f]
  BY DEF ApplyInsert, ApplyMove, ApplyUpdate, RenameStored, TypeOK
<1>2. tick' = [tick EXCEPT !.pc = "row", !.got[e] = NoMessage, !.job = job]
  BY <1>1 DEF WriteNext
<1>3. /\ job.email = e /\ job.row = r /\ r.path = TargetPath(e, m) /\ r.kw = tick.got[e].kw
      /\ r.members = tick.got[e].in \cap Scope
  BY DEF TargetMembers
<1> HIDE DEF r, job
<1>4. /\ tick'.pc = "row" /\ tick'.job = job /\ UNCHANGED tick.ids
      /\ tick'.got[e] = NoMessage /\ \A f \in Email \ {e} : tick'.got[f] = tick.got[f]
  BY <1>2 DEF TypeOK, Tick
<1> SUFFICES ASSUME calm >= 1 PROVE GetCalm' /\ WriteCalm'
  BY <1>1, <1>4 DEF CalmOK, Stage
<1>5. /\ Mirrored(e) /\ Clean(e) /\ tick.got[e] = server[e] /\ tick.local[e] = row[e]
      /\ e \notin tick.ids /\ GetCalm /\ \A f \in Email : ~AtWork(f)
  BY <1>1, TurnFacts
<1>6. file'[e] = TargetPath(e, m)
  BY <1>5 DEF ApplyInsert, ApplyMove, ApplyUpdate, RenameStored, Clean, TypeOK
<1>7. WriteCalm'
  <2>1. /\ file'[e] = r.path /\ r.path.dir \in Primaries(server'[e].in)
        /\ r.path.flags = FlagString(server'[e].kw) /\ r.kw = server'[e].kw
    BY <1>1, <1>3, <1>5, <1>6 DEF TargetPath
  <2> QED BY <1>1, <1>3, <1>4, <1>5, <2>1 DEF WriteCalm, Mirrored, Written
<1>8. GetCalm'
  <2>1. ~Waiting(e)' /\ AtWork(e)'
    BY <1>3, <1>4, <1>5 DEF Waiting, AtWork
  <2> QED BY <1>1, <1>4, <1>5, <2>1, TurnKept DEF GetCalm
<1> QED BY <1>7, <1>8

LEMMA ApplyNothingCalm ==
    ASSUME TypeOK, BaseInv, CalmOK, NEW e \in Email, NEW m \in Scope, ApplyNothing(e, m)
    PROVE  CalmOK'
<1>1. /\ Hydrated(e) /\ m \in Primaries(tick.got[e].in) /\ UNCHANGED <<stores, calm>>
      /\ tick.local[e] # NoRow /\ ~Differs(e, m)
      /\ tick' = [tick EXCEPT !.got[e] = NoMessage]
  BY DEF ApplyNothing
<1>2. /\ tick'.pc = "apply" /\ UNCHANGED tick.ids
      /\ tick'.got[e] = NoMessage /\ \A f \in Email \ {e} : tick'.got[f] = tick.got[f]
  BY <1>1 DEF TypeOK, Tick, Hydrated
<1> SUFFICES ASSUME calm >= 1 PROVE GetCalm' /\ WriteCalm'
  BY <1>1, <1>2 DEF CalmOK, Stage
<1>3. /\ Mirrored(e) /\ Clean(e) /\ tick.got[e] = server[e] /\ tick.local[e] = row[e]
      /\ e \notin tick.ids /\ GetCalm /\ \A f \in Email : ~AtWork(f)
  BY <1>1, TurnFacts
<1>4. ~Waiting(e)'
  BY <1>2, <1>3 DEF Waiting
<1>5. InSync(e)'
  <2>1. /\ row[e].path = TargetPath(e, m) /\ row[e].kw = server[e].kw
        /\ row[e].members = server[e].in \cap Scope /\ file[e] = row[e].path
    BY <1>1, <1>3 DEF Differs, TargetMembers, Clean
  <2>2. file[e] # NoFile
    BY <1>1, <1>3, <2>1, NullsAssumption DEF TypeOK, Row
  <2>3. /\ row[e].path.dir = m /\ row[e].path.flags = FlagString(server[e].kw)
    BY <1>3, <2>1 DEF TargetPath
  <2>4. /\ FlagString(file[e].flags) = row[e].path.flags /\ Trashed \notin file[e].flags
    BY <2>1, <2>3, SetsAssumption DEF FlagString
  <2> QED BY <1>1, <1>3, <2>1, <2>2, <2>3, <2>4 DEF InSync, Mirrored, stores
<1>6. GetCalm'
  BY <1>1, <1>2, <1>3, <1>4, <1>5, TurnKept DEF GetCalm, stores
<1> QED BY <1>2, <1>6 DEF WriteCalm

LEMMA ApplyOutCalm ==
    ASSUME TypeOK, BaseInv, CalmOK, NEW e \in Email, ApplyOutOfScope(e)
    PROVE  CalmOK'
<1> SUFFICES ASSUME calm >= 1 PROVE FALSE
  BY DEF ApplyOutOfScope, CalmOK
<1>1. Hydrated(e) /\ Primaries(tick.got[e].in) = {}
  BY DEF ApplyOutOfScope
<1>2. Mirrored(e) /\ tick.got[e] = server[e]
  BY <1>1, TurnFacts
<1> QED BY <1>1, <1>2, PrimariesExist DEF Mirrored

LEMMA ApplyDoneCalm == ASSUME TypeOK, BaseInv, CalmOK, ApplyDone PROVE CalmOK'
<1>1. /\ tick.pc = "apply" /\ UNCHANGED <<stores, calm>>
      /\ tick'.pc = "get" /\ UNCHANGED <<tick.ids, tick.got>>
  BY DEF ApplyDone, TypeOK, Tick
<1> SUFFICES ASSUME calm >= 1 PROVE GetCalm'
  BY <1>1 DEF CalmOK, Stage
<1>2. GetCalm /\ \A e \in Email : ~AtWork(e)
  BY <1>1 DEF CalmOK, Stage, AtWork
<1> QED BY <1>1, <1>2, TurnKept DEF GetCalm, stores

\* Between the two writes of a row nothing else moves.
LEMMA WriteRowCalm == ASSUME TypeOK, BaseInv, CalmOK, WriteRow PROVE CalmOK'
<1>0. PICK e \in Email : e = tick.job.email
  BY DEF WriteRow, TypeOK, ControlOK, Job
<1> DEFINE old == IF row[e] = NoRow THEN {} ELSE row[e].members
           new == [tick.job.row EXCEPT !.members = old]
<1>1. /\ tick.pc = "row" /\ tick.job.row \in Row /\ UNCHANGED <<server, file, calm>>
      /\ row' = [row EXCEPT ![e] = new] /\ tick' = [tick EXCEPT !.pc = "members"]
  BY <1>0 DEF WriteRow, TypeOK, ControlOK
<1>2. new.path = tick.job.row.path /\ new.kw = tick.job.row.kw
  BY <1>1 DEF Row
<1> HIDE DEF new
<1>3. /\ tick'.pc = "members" /\ UNCHANGED <<tick.ids, tick.got, tick.job>>
      /\ row'[e] = new /\ \A f \in Email \ {e} : row'[f] = row[f]
  BY <1>1 DEF TypeOK, Tick
<1> SUFFICES ASSUME calm >= 1 PROVE GetCalm' /\ WriteCalm'
  BY <1>1, <1>3 DEF CalmOK, Stage
<1>4. GetCalm /\ WriteCalm
  BY <1>1 DEF CalmOK, Stage
<1>5. WriteCalm'
  BY <1>0, <1>1, <1>2, <1>3, <1>4 DEF WriteCalm, Mirrored, Written
<1>6. ~Waiting(e)' /\ AtWork(e)' /\ \A f \in Email \ {e} : ~AtWork(f)
  BY <1>0, <1>1, <1>3 DEF BaseInv, LocalsOK, Stage, Waiting, AtWork
<1> QED BY <1>1, <1>3, <1>4, <1>5, <1>6, TurnKept DEF GetCalm

LEMMA WriteMembersCalm == ASSUME TypeOK, BaseInv, CalmOK, WriteMembers PROVE CalmOK'
<1>0. PICK e \in Email : e = tick.job.email
  BY DEF WriteMembers, TypeOK, ControlOK, Job
<1>1. /\ tick.pc = "members" /\ row[e] \in Row /\ UNCHANGED <<server, file, calm>>
      /\ row' = [row EXCEPT ![e].members = tick.job.row.members]
      /\ tick' = [tick EXCEPT !.pc = "apply", !.job = NoJob]
      /\ tick.job.row \in Row
  BY <1>0 DEF WriteMembers, TypeOK, ControlOK
<1>2. /\ row'[e].path = row[e].path /\ row'[e].kw = row[e].kw
      /\ row'[e].members = tick.job.row.members /\ row'[e] \in Row
      /\ \A f \in Email \ {e} : row'[f] = row[f]
  BY <1>1 DEF TypeOK, Row
<1>3. tick'.pc = "apply" /\ UNCHANGED <<tick.ids, tick.got>>
  BY <1>1 DEF TypeOK, Tick
<1> SUFFICES ASSUME calm >= 1 PROVE GetCalm' /\ WriteCalm'
  BY <1>1, <1>3 DEF CalmOK, Stage
<1>4. GetCalm /\ WriteCalm
  BY <1>1 DEF CalmOK, Stage
<1>5. InSync(e)'
  <2>1. /\ row'[e] # NoRow /\ file'[e] # NoFile
    BY <1>0, <1>1, <1>2, <1>4, NullsAssumption DEF WriteCalm, Written, Row
  <2>2. /\ FlagString(row[e].path.flags) = row[e].path.flags /\ Trashed \notin row[e].path.flags
    BY <1>0, <1>1, <1>4, SetsAssumption DEF WriteCalm, Written, FlagString
  <2> QED BY <1>0, <1>1, <1>2, <1>4, <2>1, <2>2 DEF WriteCalm, Written, Mirrored, InSync
<1>6. ~Waiting(e)' /\ \A f \in Email \ {e} : ~AtWork(f)
  BY <1>0, <1>1, <1>3 DEF BaseInv, LocalsOK, Stage, Waiting, AtWork
<1> QED BY <1>1, <1>2, <1>3, <1>4, <1>5, <1>6, TurnKept DEF GetCalm, WriteCalm

LEMMA CalmInit == Init => CalmOK
BY DEF Init, CalmOK

\* What others do, or what fails, ends the calm.
LEMMA StormCalm ==
    ASSUME \/ Others \/ Failures
           \/ \E e \in Email : DownloadFails(e)
    PROVE  CalmOK'
<1>1. calm' = 0
  BY DEF Others, ServerDeliver, ServerDestroy, ServerMove, ServerKeyword, ServerEdit, UserFlag,
         UserUnlink, UserEdit, Failures, Abort, SetReplyLost, Crash, DownloadFails
<1> QED BY <1>1 DEF CalmOK

LEMMA OrphansStageCalm ==
    ASSUME TypeOK, CalmOK, StartTick \/ \E e \in Email : CleanupOrphan(e)
    PROVE  CalmOK'
<1>1. CASE StartTick
  BY <1>1 DEF StartTick, Idle, CalmOK, OrphansCalm, Stage
<1>2. ASSUME NEW e \in Email, CleanupOrphan(e) PROVE CalmOK'
  <2>1. /\ tick.pc = "orphans" /\ tick'.pc = "unlinked" /\ tick'.job.back = "orphans"
        /\ UNCHANGED <<tick.at, tick.pos, tick.ids, calm>>
    BY <1>2 DEF CleanupOrphan, Deleting, TypeOK, Tick
  <2> QED BY <2>1 DEF CalmOK, OrphansCalm, Stage
<1> QED BY <1>1, <1>2

LEMMA CalmNext == TypeOK /\ BaseInv /\ CalmOK /\ Odd = {} /\ [Next]_vars => CalmOK'
<1> SUFFICES ASSUME TypeOK, BaseInv, CalmOK, Odd = {}, [Next]_vars PROVE CalmOK'
  OBVIOUS
<1>1. CASE UNCHANGED vars
  BY <1>1 DEF vars, CalmOK, Stage, OrphansCalm, QueryCalm, Listed, SetCalm, Resolve, Clean, Mirrored,
              Ready, AtWork, ReconcileCalm, DeletesCalm, GetCalm, Waiting, InSync, WriteCalm, Written
<1>2. ASSUME NEW e \in Email, Apply(e) PROVE CalmOK'
  BY <1>2, ApplyOutCalm, StormCalm, ApplyWritesCalm, ApplyNothingCalm DEF Apply
<1>3. CASE Daemon
  BY <1>2, <1>3, OrphansStageCalm, EnterQuery, PageCalm, DetectCalm, SetEmailsCalm,
     ReconcileDestroyedCalm, ReconcileUpdatedCalm, ReconcileDoneCalm, DeleteGoneCalm, DeleteRowCalm,
     DeletesDoneCalm, GetChunkCalm, EndTickCalm, ApplyDoneCalm, WriteRowCalm, WriteMembersCalm
     DEF Daemon
<1> QED BY <1>1, <1>3, StormCalm DEF Next

LEMMA CalmCorrect == ASSUME Odd = {} PROVE Spec => []CalmOK
BY CalmInit, CalmNext, TypeCorrect, BaseCorrect, PTL DEF Spec

\* One tick of sync_emails that runs to its end undisturbed leaves every
\* mirrored e-mail with its row and its file and no other with either, for
\* any number of e-mails, mailboxes, pages and chunks and whatever crashes,
\* races and failed requests came before.  The user's flags all have
\* keywords: one that has none stays in the file name and is never pushed.
THEOREM CalmTicksMirror == ASSUME Odd = {} PROVE Spec => []CalmTickMirrors
<1>1. CalmOK => CalmTickMirrors
  BY DEF CalmOK, CalmTickMirrors, Stage
<1> QED BY <1>1, CalmCorrect, PTL

-----------------------------------------------------------------------------
(***************************************************************************)
(* The tick after it.                                                      *)
(***************************************************************************)

\* The order of pick_primary_mailbox never leaves a tie.
Ranked == \A m, n \in Scope : Rank[m] = Rank[n] => m = n

QuietOK ==
    calm = 2 =>
        /\ tick.pc \notin {"set", "reconcile", "row", "members", "unlinked"}
        /\ \A e \in Email : InSync(e)

\* Detection finds nothing in a Maildir that agrees with the rows.
LEMMA QuietDetect ==
    ASSUME TypeOK, QuietOK, calm = 2, Detect
    PROVE  tick'.pc = "deletes"
<1> DEFINE seen == [e \in Email |-> IF row[e] = NoRow THEN NoFile ELSE Resolve(e)]
           changed == {e \in Email : row[e] # NoRow /\
                          (IsDestroy(seen[e]) \/ IsUpdate(seen[e], row[e]))}
<1>1. tick' = [tick EXCEPT !.local = row, !.changed = changed,
                 !.seen = [e \in Email |-> IF e \in changed THEN seen[e] ELSE NoFile],
                 !.pc = IF changed = {} THEN "deletes" ELSE "set"]
  BY DEF Detect
<1>2. changed = {}
  <2> SUFFICES ASSUME NEW e \in Email, row[e] # NoRow
               PROVE  ~IsDestroy(Resolve(e)) /\ ~IsUpdate(Resolve(e), row[e])
    OBVIOUS
  <2>1. InSync(e) /\ Mirrored(e)
    BY DEF QuietOK, InSync, Mirrored
  <2>2. Resolve(e) = file[e] /\ ~IsDestroy(file[e])
    BY <2>1 DEF InSync, Mirrored, Resolve, IsDestroy
  <2>3. file[e].flags \cap Standard = row[e].kw \cap Standard
    BY <2>1 DEF InSync, Mirrored, FlagString
  <2>4. Merged(row[e].kw, file[e].flags) = row[e].kw
    BY <2>3 DEF Merged
  <2> QED BY <2>2, <2>4 DEF IsUpdate
<1> HIDE DEF changed, seen
<1> QED BY <1>1, <1>2 DEF TypeOK, Tick

\* An e-mail that agrees with the server and is applied needs nothing.
LEMMA QuietApply ==
    ASSUME TypeOK, BaseInv, CalmOK, QuietOK, calm = 2, Ranked, NEW e \in Email, NEW m \in Scope
    PROVE  ~(ApplyInsert(e, m) \/ ApplyMove(e, m) \/ ApplyUpdate(e, m))
<1> SUFFICES ASSUME ApplyInsert(e, m) \/ ApplyMove(e, m) \/ ApplyUpdate(e, m) PROVE FALSE
  OBVIOUS
<1>1. Hydrated(e) /\ m \in Primaries(tick.got[e].in)
  BY DEF ApplyInsert, ApplyMove, ApplyUpdate
<1>2. Mirrored(e) /\ tick.got[e] = server[e] /\ tick.local[e] = row[e]
  BY <1>1, TurnFacts
<1>3. /\ row[e] # NoRow /\ row[e].kw = server[e].kw /\ row[e].members = server[e].in \cap Scope
      /\ row[e].path.dir \in Primaries(server[e].in)
      /\ row[e].path.flags = FlagString(server[e].kw)
  BY <1>2 DEF QuietOK, InSync, Mirrored
<1>4. row[e].path.dir = m
  <2>1. \A n \in Scope : Rank[n] \in Nat
    BY SetsAssumption
  <2>2. PICK n \in Primaries(server[e].in) : n = row[e].path.dir
    BY <1>3
  <2>3. m \in Scope /\ n \in Scope /\ Rank[m] <= Rank[n] /\ Rank[n] <= Rank[m]
    BY <1>1, <1>2, <2>2 DEF Primaries
  <2> QED BY <2>1, <2>2, <2>3 DEF Ranked
<1>5. row[e].path = TargetPath(e, m)
  <2>1. row[e].path \in Path
    BY <1>3 DEF TypeOK, Row
  <2> QED BY <1>2, <1>3, <1>4, <2>1 DEF TargetPath, Path
<1> QED BY <1>2, <1>3, <1>4, <1>5 DEF ApplyInsert, ApplyMove, ApplyUpdate, Differs, TargetMembers

\* Nothing begins a write.
LEMMA QuietPc ==
    ASSUME TypeOK, BaseInv, CalmOK, QuietOK, calm = 2, Ranked, Daemon, calm' = 2
    PROVE  /\ tick'.pc \notin {"set", "reconcile", "row", "members", "unlinked"}
           /\ UNCHANGED stores
<1> DEFINE Quiet == /\ tick'.pc \notin {"set", "reconcile", "row", "members", "unlinked"}
                    /\ UNCHANGED stores
<1>1. tick.pc \notin {"set", "reconcile", "row", "members", "unlinked"}
  BY DEF QuietOK
<1>2. ~(SetEmails \/ ReconcileDone \/ WriteRow \/ WriteMembers \/ DeleteRow)
      /\ \A e \in Email : ~ReconcileDestroyed(e) /\ ~ReconcileUpdated(e)
  BY <1>1 DEF SetEmails, ReconcileDone, WriteRow, WriteMembers, DeleteRow, ReconcileDestroyed,
              ReconcileUpdated
<1>3. \A e \in Email : ~CleanupOrphan(e)
  <2> SUFFICES ASSUME NEW e \in Email, IsOrphan(e) PROVE FALSE
    BY DEF CleanupOrphan
  <2> QED BY DEF QuietOK, IsOrphan, InSync
<1>4. \A e \in Email : ~DeleteGone(e)
  <2> SUFFICES ASSUME NEW e \in Email, tick.pc = "deletes", IsGone(e) PROVE FALSE
    BY DEF DeleteGone
  <2>1. Ready(e) /\ ~AtWork(e)
    BY DEF CalmOK, Stage, DeletesCalm, AtWork
  <2> QED BY <2>1 DEF IsGone, Ready, Mirrored, QuietOK, InSync
<1>5. ASSUME NEW e \in Email, Apply(e) PROVE Quiet
  <2>1. ~DownloadFails(e)
    BY DEF DownloadFails
  <2>2. ~ApplyOutOfScope(e)
    <3> SUFFICES ASSUME Hydrated(e), Primaries(tick.got[e].in) = {} PROVE FALSE
      BY DEF ApplyOutOfScope
    <3>1. Mirrored(e) /\ tick.got[e] = server[e]
      BY TurnFacts
    <3> QED BY <3>1, PrimariesExist DEF Mirrored
  <2>3. PICK m \in Scope : ApplyNothing(e, m)
    BY <1>5, <2>1, <2>2, QuietApply DEF Apply
  <2> QED BY <2>3 DEF ApplyNothing, Hydrated, TypeOK, Tick
<1>6. CASE Detect
  BY <1>6, QuietDetect DEF Detect
<1>7. ASSUME NEW m \in Scope, QueryPage(m) PROVE Quiet
  BY <1>7 DEF QueryPage, TypeOK, Tick
<1>8. CASE StartTick \/ EndTick
  BY <1>8 DEF StartTick, EndTick, Idle
<1>9. CASE CleanupDone \/ DeletesDone \/ ApplyDone
  BY <1>9 DEF CleanupDone, DeletesDone, ApplyDone, TypeOK, Tick
<1>10. CASE GetChunk
  <2> DEFINE got == [e \in Email |-> IF e \in Chunk(tick.ids) /\ server[e].life = "live"
                                     THEN server[e] ELSE NoMessage]
  <2>1. /\ UNCHANGED stores
        /\ tick' = [tick EXCEPT !.pc = "apply", !.ids = @ \ Chunk(tick.ids), !.got = got]
    BY <1>10 DEF GetChunk
  <2> HIDE DEF got
  <2> QED BY <2>1 DEF TypeOK, Tick
<1> QED BY <1>2, <1>3, <1>4, <1>5, <1>6, <1>7, <1>8, <1>9, <1>10 DEF Daemon

LEMMA QuietNext ==
    TypeOK /\ BaseInv /\ CalmOK /\ QuietOK /\ Ranked /\ [Next]_vars => QuietOK'
<1> SUFFICES ASSUME TypeOK, BaseInv, CalmOK, QuietOK, Ranked, [Next]_vars, calm' = 2
             PROVE  QuietOK'
  BY DEF QuietOK
<1>1. CASE UNCHANGED vars
  BY <1>1 DEF vars, QuietOK, InSync
<1>2. CASE StartTick
  BY <1>2 DEF StartTick, Idle, CalmOK, Stage, QuietOK, InSync, stores, TypeOK
<1>3. CASE Next /\ ~StartTick
  <2>1. ~Others /\ ~Failures
    BY DEF Others, ServerDeliver, ServerDestroy, ServerMove, ServerKeyword, ServerEdit, UserFlag,
           UserUnlink, UserEdit, Failures, Abort, SetReplyLost, Crash
  <2>2. Daemon
    BY <1>3, <2>1 DEF Next
  <2>3. calm = 2
    <3>1. CASE SetEmails
      BY <3>1 DEF SetEmails
    <3>2. ASSUME NEW e \in Email, Apply(e) PROVE calm = 2
      BY <3>2 DEF Apply, ApplyOutOfScope, DownloadFails, ApplyInsert, ApplyMove, ApplyUpdate,
                  ApplyNothing
    <3>3. ASSUME NEW e \in Email,
                 CleanupOrphan(e) \/ ReconcileDestroyed(e) \/ ReconcileUpdated(e) \/ DeleteGone(e)
          PROVE  calm = 2
      BY <3>3 DEF CleanupOrphan, ReconcileDestroyed, ReconcileUpdated, DeleteGone
    <3>4. ASSUME NEW m \in Scope, QueryPage(m) PROVE calm = 2
      BY <3>4 DEF QueryPage
    <3>5. CASE \/ CleanupDone \/ Detect \/ ReconcileDone \/ DeletesDone \/ GetChunk \/ EndTick
               \/ ApplyDone \/ WriteRow \/ WriteMembers \/ DeleteRow
      BY <3>5 DEF CleanupDone, Detect, ReconcileDone, DeletesDone, GetChunk, EndTick, ApplyDone,
                  WriteRow, WriteMembers, DeleteRow
    <3> QED BY <1>3, <2>2, <3>1, <3>2, <3>3, <3>4, <3>5 DEF Daemon
  <2> QED BY <2>2, <2>3, QuietPc DEF QuietOK, InSync, stores
<1> QED BY <1>1, <1>2, <1>3

\* The tick after an undisturbed one writes nothing: no Email/set, no rename,
\* no row.  The mailboxes are ranked without a tie: of two primary mailboxes
\* of one rank pick_primary_mailbox takes the one that the reply names first,
\* which need not be the same twice.
THEOREM SecondTickIsSilent == ASSUME Odd = {}, Ranked PROVE Spec => []SecondTickWritesNothing
<1>1. Init => QuietOK
  BY DEF Init, QuietOK
<1>2. QuietOK => SecondTickWritesNothing
  BY DEF QuietOK, SecondTickWritesNothing
<1> QED BY <1>1, <1>2, QuietNext, TypeCorrect, BaseCorrect, CalmCorrect, PTL DEF Spec

=============================================================================
