-------------------------- MODULE EmailSyncProofs --------------------------
(***************************************************************************)
(* Theorems about EmailSync, for every set of e-mails and mailboxes and    *)
(* for every bound on the environment.                                     *)
(***************************************************************************)
EXTENDS EmailSync, FiniteSetTheorems, TLAPS

LEMMA IdleType == Idle \in Tick
BY DEF Idle, Tick, Pcs, NoJob

LEMMA IdleControl == ASSUME tick' = Idle PROVE ControlOK'
BY DEF Idle, ControlOK

\* What Email/set leaves on the server is again a set of messages.
LEMMA ServerAcceptsType ==
    ASSUME TypeOK, tick.pc = "set", NEW accepted \in SUBSET tick.changed,
           ServerAccepts(accepted)
    PROVE  server' \in [Email -> Message]
<1>1. ASSUME NEW e \in accepted PROVE WrittenBack(e) \in Message
  <2>1. tick.seen[e] \in Path \cup {NoFile} /\ tick.local[e] \in Row
    BY DEF TypeOK, ControlOK, Tick
  <2>2. server[e] \in Message
    BY DEF TypeOK, Tick
  <2>3. CASE IsDestroy(tick.seen[e])
    BY <2>3 DEF WrittenBack, Message
  <2>4. CASE ~IsDestroy(tick.seen[e])
    <3>1. Patched(server[e].kw, tick.local[e].kw, tick.seen[e].flags) \in SUBSET Keyword
      BY <2>2 DEF Patched, Message, Keyword
    <3>2. WrittenBack(e) = [server[e] EXCEPT !.kw =
              Patched(server[e].kw, tick.local[e].kw, tick.seen[e].flags)]
      BY <2>4 DEF WrittenBack
    <3> QED BY <2>2, <3>1, <3>2 DEF Message
  <2> QED BY <2>3, <2>4
<1> QED BY <1>1 DEF ServerAccepts, TypeOK

\* A hydrated message becomes a well-typed row to write.
LEMMA WriteNextType ==
    ASSUME TypeOK, NEW e \in Email, NEW m \in Scope, Hydrated(e), WriteNext(e, m)
    PROVE  /\ TargetPath(e, m) \in Path
           /\ tick' \in Tick
           /\ ControlOK'
<1> DEFINE new == [path |-> TargetPath(e, m), kw |-> tick.got[e].kw,
                   members |-> TargetMembers(e)]
           job == [email |-> e, back |-> "apply", row |-> new]
<1>1. tick \in Tick /\ tick.pc = "apply" /\ tick.got[e] \in Message
  BY DEF TypeOK, Hydrated, Tick
<1>2. TargetPath(e, m) \in Path
  BY <1>1 DEF TargetPath, FlagString, Path, Flag
<1>3. new \in Row
  BY <1>1, <1>2 DEF Row, TargetMembers, Message
<1>4. job \in Job /\ job.row \in Row
  BY <1>3 DEF Job
<1>5. tick' = [tick EXCEPT !.pc = "row", !.got[e] = NoMessage, !.job = job]
  BY DEF WriteNext
<1> HIDE DEF new, job
<1>6. tick' \in Tick
  BY <1>1, <1>4, <1>5 DEF Tick, Pcs
<1>7. /\ tick'.pc = "row" /\ tick'.job = job
      /\ tick'.accepted = {}
  BY <1>1, <1>5 DEF TypeOK, ControlOK, Tick
<1> QED BY <1>2, <1>4, <1>6, <1>7 DEF ControlOK

\* Other clients touch the server and nothing else.
LEMMA ServerEditType ==
    ASSUME TypeOK, ServerEdit, server' \in [Email -> Message]
    PROVE  TypeOK'
<1>1. spent' \in Spent
  BY BoundsAssumption DEF TypeOK, ServerEdit, Spent
<1> QED BY <1>1 DEF TypeOK, ServerEdit, history, ControlOK

\* A removal takes the file away or, with a warning, leaves it.
LEMMA RemoveFileType ==
    ASSUME TypeOK, NEW e \in Email, NEW path, RemoveFile(e, path)
    PROVE  file' \in [Email -> Path \cup {NoFile}] /\ spent' \in Spent
<1>1. CASE UNCHANGED spent /\ file' = IF file[e] = path THEN [file EXCEPT ![e] = NoFile] ELSE file
  BY <1>1 DEF TypeOK
<1>2. CASE /\ UNCHANGED file /\ spent.stuck < MaxStuck
           /\ spent' = [spent EXCEPT !.stuck = @ + 1]
  BY <1>2, BoundsAssumption DEF TypeOK, Spent
<1> QED BY <1>1, <1>2 DEF RemoveFile

LEMMA TypeInit == Init => TypeOK
BY IdleType, BoundsAssumption, SetsAssumption
   DEF Init, TypeOK, Unborn, Arrived, Message, Spent, ControlOK, Idle

LEMMA TypeNext == TypeOK /\ [Next]_vars => TypeOK'
<1> SUFFICES ASSUME TypeOK, [Next]_vars PROVE TypeOK'
  OBVIOUS
<1> USE DEF TypeOK, stores, history
<1>1. CASE StartTick
  <2>1. tick' \in Tick /\ tick'.pc = "orphans" /\ tick'.accepted = {}
    BY <1>1, IdleType DEF StartTick, Tick, Pcs, Idle
  <2> QED BY <1>1, <2>1 DEF StartTick, ControlOK
<1>2. CASE CleanupDone
  BY <1>2, IdleType, BoundsAssumption DEF CleanupDone, Tick, Job, Row, Spent, Pcs, NoJob, ControlOK, Idle
<1>3. CASE Detect
  <2> DEFINE found == [e \in Email |-> IF row[e] = NoRow THEN NoFile ELSE Resolve(e)]
             changed == {e \in Email : row[e] # NoRow /\
                           (IsDestroy(found[e]) \/ IsUpdate(found[e], row[e]))}
             kept == [e \in Email |-> IF e \in changed THEN found[e] ELSE NoFile]
             next == IF changed = {} THEN "deletes" ELSE "set"
  <2>1. found \in [Email -> Path \cup {NoFile}]
    BY DEF Resolve
  <2>2. kept \in [Email -> Path \cup {NoFile}] /\ changed \subseteq Email
    BY <2>1
  <2>3. \A e \in changed : row[e] \in Row
    OBVIOUS
  <2>4. tick' = [tick EXCEPT !.local = row, !.changed = changed, !.seen = kept, !.pc = next]
    BY <1>3 DEF Detect
  <2>5. next \in {"deletes", "set"}
    OBVIOUS
  <2>6. tick.pc = "query" /\ UNCHANGED <<server, file, stray, row, spent, asked, touched, calm>>
    BY <1>3 DEF Detect
  <2> HIDE DEF found, changed, kept, next
  <2>7. tick' \in Tick
    BY <2>2, <2>4, <2>5 DEF Tick, Pcs
  <2>8. ControlOK'
    BY <2>3, <2>4, <2>5, <2>6 DEF ControlOK, Tick
  <2> QED BY <2>6, <2>7, <2>8
<1>4. CASE SetEmails
  <2>1. PICK accepted \in SUBSET Acceptable :
           /\ spent.reject + Cardinality(Acceptable \ accepted) <= MaxReject
           /\ ServerAccepts(accepted)
           /\ spent' = [spent EXCEPT !.reject = @ + Cardinality(Acceptable \ accepted)]
           /\ calm' = IF accepted = Acceptable THEN calm ELSE 0
           /\ tick' = [tick EXCEPT !.pc = "reconcile", !.accepted = accepted]
    BY <1>4 DEF SetEmails
  <2>2. tick.pc = "set" /\ UNCHANGED <<file, stray, row, asked, touched>>
    BY <1>4 DEF SetEmails
  <2>3. accepted \subseteq tick.changed /\ Acceptable \ accepted \subseteq Email
    BY <2>1 DEF Acceptable, Tick
  <2>4. Cardinality(Acceptable \ accepted) \in Nat
    BY <2>3, SetsAssumption, FS_Subset, FS_CardinalityType
  <2>5. spent' \in Spent
    <3> DEFINE n == Cardinality(Acceptable \ accepted)
    <3>1. n \in Nat /\ spent.reject \in Nat /\ spent.reject + n <= MaxReject
      BY <2>1, <2>4, BoundsAssumption DEF Spent
    <3>2. spent' = [spent EXCEPT !.reject = @ + n]
      BY <2>1
    <3> HIDE DEF n
    <3>3. spent.reject + n \in 0 .. MaxReject
      BY <3>1, BoundsAssumption
    <3> QED BY <3>2, <3>3 DEF Spent
  <2>6. server' \in [Email -> Message]
    BY <2>1, <2>2, <2>3, ServerAcceptsType
  <2>7. tick' \in Tick
    BY <2>1, <2>3 DEF Tick, Pcs
  <2>8. /\ tick'.pc = "reconcile" /\ tick'.accepted = accepted
        /\ tick'.local = tick.local
    BY <2>1 DEF Tick
  <2>9. \A e \in accepted : tick.local[e] \in Row
    BY <2>2, <2>3 DEF ControlOK
  <2>10. ControlOK'
    BY <2>8, <2>9 DEF ControlOK
  <2> QED BY <2>1, <2>2, <2>5, <2>6, <2>7, <2>10
<1>5. CASE ReconcileDone
  BY <1>5, IdleType, BoundsAssumption DEF ReconcileDone, Tick, Job, Row, Spent, Pcs, NoJob, ControlOK, Idle
<1>6. CASE DeletesDone
  BY <1>6, IdleType, BoundsAssumption DEF DeletesDone, Tick, Job, Row, Spent, Pcs, NoJob, ControlOK, Idle
<1>7. CASE GetChunk
  BY <1>7, IdleType, BoundsAssumption DEF GetChunk, Tick, Job, Row, Spent, Pcs, NoJob, ControlOK, Idle
<1>8. CASE EndTick
  BY <1>8, IdleType, BoundsAssumption DEF EndTick, Tick, Job, Row, Spent, Pcs, NoJob, ControlOK, Idle
<1>9. CASE ApplyDone
  BY <1>9, IdleType, BoundsAssumption DEF ApplyDone, Tick, Job, Row, Spent, Pcs, NoJob, ControlOK, Idle
<1>10. CASE WriteRow
  <2> DEFINE e == tick.job.email
             old == IF row[e] = NoRow THEN {} ELSE row[e].members
             new == [tick.job.row EXCEPT !.members = old]
  <2>1. tick.pc = "row" /\ tick.job \in Job /\ tick.job.row \in Row
    BY <1>10 DEF WriteRow, ControlOK
  <2>2. e \in Email /\ old \in SUBSET Scope
    BY <2>1 DEF Job, Row
  <2>3. new \in Row
    BY <2>1, <2>2 DEF Row
  <2>4. row' = [row EXCEPT ![e] = new] /\ tick' = [tick EXCEPT !.pc = "members"]
    BY <1>10 DEF WriteRow
  <2> HIDE DEF new
  <2>5. row' \in [Email -> Row \cup {NoRow}] /\ row'[e] \in Row
    BY <2>2, <2>3, <2>4
  <2>6. tick' \in Tick /\ tick'.pc = "members" /\ tick'.job = tick.job
        /\ tick'.accepted = tick.accepted /\ tick'.local = tick.local
    BY <2>4 DEF Tick, Pcs
  <2>7. ControlOK'
    BY <2>1, <2>5, <2>6 DEF ControlOK
  <2> HIDE DEF e, old
  <2>8. touched' \subseteq Email \X Flag \X BOOLEAN
    BY <1>10 DEF WriteRow, Unsettled
  <2>9. UNCHANGED <<server, file, stray, spent, asked, calm>>
    BY <1>10 DEF WriteRow
  <2> QED BY <2>5, <2>6, <2>7, <2>8, <2>9
<1>11. CASE WriteMembers
  <2> DEFINE e == tick.job.email
             new == [row[e] EXCEPT !.members = tick.job.row.members]
  <2>1. tick.pc = "members" /\ tick.job \in Job /\ tick.job.row \in Row /\ row[e] \in Row
    BY <1>11 DEF WriteMembers, ControlOK
  <2>2. e \in Email /\ new \in Row
    BY <2>1 DEF Job, Row
  <2>3. row' = [row EXCEPT ![e] = new] /\ tick' = [tick EXCEPT !.pc = "apply", !.job = NoJob]
    BY <1>11 DEF WriteMembers
  <2> HIDE DEF new
  <2>4. row' \in [Email -> Row \cup {NoRow}]
    BY <2>2, <2>3
  <2>5. tick' \in Tick
    BY <2>3 DEF Tick, Pcs
  <2>6. ControlOK'
    BY <2>1, <2>3 DEF ControlOK, Tick
  <2> QED BY <1>11, <2>4, <2>5, <2>6 DEF WriteMembers
<1>12. CASE DeleteRow
  <2> DEFINE e == tick.job.email
  <2>1. tick.pc = "unlinked" /\ tick.job \in Job
    BY <1>12 DEF DeleteRow, ControlOK
  <2>2. e \in Email /\ tick.job.back \in {"orphans", "reconcile", "deletes", "apply"}
    BY <2>1 DEF Job
  <2>3. tick' = [tick EXCEPT !.pc = tick.job.back, !.job = NoJob]
    BY <1>12 DEF DeleteRow
  <2>4. tick' \in Tick
    BY <2>2, <2>3 DEF Tick, Pcs
  <2>5. /\ tick'.pc = tick.job.back
        /\ tick'.accepted = tick.accepted /\ tick'.local = tick.local
    BY <2>3 DEF Tick
  <2>6. tick.accepted # {} => tick.job.back = "reconcile"
    BY <2>1 DEF ControlOK
  <2>7. \A f \in tick.accepted : tick.local[f] \in Row
    BY DEF ControlOK
  <2>8. ControlOK'
    BY <2>2, <2>5, <2>6, <2>7 DEF ControlOK
  <2> QED BY <1>12, <2>2, <2>4, <2>8 DEF DeleteRow
<1>13. CASE Abort
  BY <1>13, IdleType, BoundsAssumption DEF Abort, Tick, Job, Row, Spent, Pcs, NoJob, ControlOK, Idle
<1>14. CASE SetReplyLost
  <2>1. Acceptable \in SUBSET tick.changed
    BY DEF Acceptable
  <2>2. server' \in [Email -> Message]
    BY <1>14, <2>1, ServerAcceptsType DEF SetReplyLost
  <2>3. spent' \in Spent
    BY <1>14, BoundsAssumption DEF SetReplyLost, Spent
  <2> QED BY <1>14, <2>2, <2>3, IdleType, IdleControl DEF SetReplyLost
<1>15. CASE Crash
  <2> DEFINE e == tick.job.email
  <2>1. tick' = Idle /\ calm' = 0 /\ UNCHANGED <<server, asked, touched>>
    BY <1>15 DEF Crash
  <2>2. spent' \in Spent
    BY <1>15, BoundsAssumption DEF Crash, Spent
  <2>3. row' \in [Email -> Row \cup {NoRow}]
    <3>1. CASE tick.pc = "members"
      <4>1. tick.job \in Job /\ tick.job.row \in Row /\ row[e] \in Row
        BY <3>1 DEF ControlOK
      <4>2. PICK left \in (SUBSET row[e].members) \cup (SUBSET tick.job.row.members) :
               row' = [row EXCEPT ![e].members = left]
        BY <1>15, <3>1 DEF Crash, MembersTorn
      <4>3. left \in SUBSET Scope
        <5>1. row[e].members \in SUBSET Scope /\ tick.job.row.members \in SUBSET Scope
          BY <4>1 DEF Row
        <5>2. CASE left \in SUBSET row[e].members
          BY <5>1, <5>2
        <5>3. CASE left \in SUBSET tick.job.row.members
          BY <5>1, <5>3
        <5> QED BY <4>2, <5>2, <5>3
      <4>4. [row[e] EXCEPT !.members = left] \in Row
        BY <4>1, <4>3 DEF Row
      <4> QED BY <4>1, <4>2, <4>4 DEF Job
    <3>2. CASE tick.pc # "members"
      BY <1>15, <3>2 DEF Crash, MembersTorn
    <3> QED BY <3>1, <3>2
  <2>4. stray' \subseteq Email /\ file' \in [Email -> Path \cup {NoFile}]
    <3>1. CASE tick.pc = "row"
      BY <1>15, <3>1 DEF Crash, InsertTorn, ControlOK, Job
    <3>2. CASE tick.pc # "row"
      BY <1>15, <3>2 DEF Crash, InsertTorn
    <3> QED BY <3>1, <3>2
  <2> QED BY <2>1, <2>2, <2>3, <2>4, IdleType, IdleControl
<1>16. ASSUME NEW m \in Scope, QueryPage(m) PROVE TypeOK'
  <2> DEFINE page == Page(m, tick.pos)
             last == Cardinality(page) < PageSize
             todo == IF last THEN tick.todo \ {m} ELSE tick.todo
             at == IF last THEN {} ELSE {m}
             pos == IF last THEN 0 ELSE tick.pos + PageSize
  <2>1. tick.pc = "query"
        /\ tick' = [tick EXCEPT !.ids = tick.ids \cup page, !.todo = todo, !.at = at, !.pos = pos]
    BY <1>16 DEF QueryPage
  <2>2. page \subseteq Email
    BY DEF Page, Listed
  <2>3. todo \in SUBSET Scope /\ at \in SUBSET Scope /\ pos \in Nat
    BY SizesAssumption DEF Tick
  <2> HIDE DEF page, todo, at, pos
  <2>4. tick' \in Tick
    BY <2>1, <2>2, <2>3 DEF Tick
  <2>5. ControlOK'
    BY <2>1 DEF ControlOK, Tick
  <2> QED BY <1>16, <2>4, <2>5 DEF QueryPage
<1>17. ASSUME NEW e \in Email, CleanupOrphan(e) PROVE TypeOK'
  <2>1. Deleting(e, "orphans") \in Job
    BY DEF Deleting, Job
  <2>2. tick.pc = "orphans" /\ tick' = [tick EXCEPT !.pc = "unlinked", !.job = Deleting(e, "orphans")]
    BY <1>17 DEF CleanupOrphan
  <2> HIDE DEF Deleting
  <2>3. tick' \in Tick
    BY <2>1, <2>2 DEF Tick, Pcs
  <2>4. ControlOK'
    BY <2>1, <2>2 DEF ControlOK, Tick
  <2>5. file' \in [Email -> Path \cup {NoFile}] /\ spent' \in Spent
    BY <1>17, RemoveFileType DEF CleanupOrphan
  <2> QED BY <1>17, <2>3, <2>4, <2>5 DEF CleanupOrphan
<1>18. ASSUME NEW e \in Email, ReconcileDestroyed(e) PROVE TypeOK'
  <2> DEFINE job == Deleting(e, "reconcile")
             path == IF tick.seen[e] = NoFile THEN tick.local[e].path ELSE tick.seen[e]
  <2>1. job \in Job
    BY DEF Deleting, Job
  <2>2. /\ tick.pc = "reconcile"
        /\ tick' = [tick EXCEPT !.pc = "unlinked", !.job = job, !.accepted = @ \ {e},
                                !.ids = @ \ {e}, !.local[e] = NoRow]
        /\ RemoveFile(e, path)
    BY <1>18 DEF ReconcileDestroyed
  <2>3. job.back = "reconcile"
    BY DEF Deleting
  <2> HIDE DEF job, path
  <2>4. tick' \in Tick
    BY <2>1, <2>2 DEF Tick, Pcs
  <2>5. /\ tick'.pc = "unlinked" /\ tick'.job = job
        /\ tick'.accepted = tick.accepted \ {e}
        /\ \A f \in Email \ {e} : tick'.local[f] = tick.local[f]
    BY <2>2 DEF Tick
  <2>6. \A f \in tick'.accepted : tick'.local[f] \in Row
    BY <2>5 DEF ControlOK, Tick
  <2>7. ControlOK'
    BY <2>1, <2>3, <2>5, <2>6 DEF ControlOK
  <2>8. file' \in [Email -> Path \cup {NoFile}] /\ spent' \in Spent
    BY <2>2, RemoveFileType
  <2> QED BY <1>18, <2>4, <2>7, <2>8 DEF ReconcileDestroyed
<1>19. ASSUME NEW e \in Email, ReconcileUpdated(e) PROVE TypeOK'
  <2> DEFINE r == [path |-> tick.seen[e],
                   kw |-> Merged(tick.local[e].kw, tick.seen[e].flags),
                   members |-> tick.local[e].members]
  <2>1. tick.pc = "reconcile" /\ e \in tick.accepted /\ tick.local[e] \in Row
    BY <1>19 DEF ReconcileUpdated, ControlOK
  <2>2. tick.seen[e] \in Path
    BY <1>19 DEF ReconcileUpdated, IsDestroy, Tick
  <2>3. r \in Row
    BY <2>1, <2>2 DEF Row, Merged, Keyword
  <2>4. row' = [row EXCEPT ![e] = r]
        /\ tick' = [tick EXCEPT !.accepted = @ \ {e}, !.local[e] = r]
    BY <1>19 DEF ReconcileUpdated
  <2> HIDE DEF r
  <2>5. tick' \in Tick
    BY <2>3, <2>4 DEF Tick
  <2>6. ControlOK'
    BY <2>1, <2>3, <2>4 DEF ControlOK, Tick
  <2>7. row' \in [Email -> Row \cup {NoRow}]
    BY <2>3, <2>4
  <2>8. touched' \subseteq Email \X Flag \X BOOLEAN
    BY <1>19 DEF ReconcileUpdated, Unsettled
  <2>9. UNCHANGED <<server, file, stray, spent, asked, calm>>
    BY <1>19 DEF ReconcileUpdated
  <2> QED BY <2>5, <2>6, <2>7, <2>8, <2>9
<1>20. ASSUME NEW e \in Email, DeleteGone(e) PROVE TypeOK'
  <2>1. Deleting(e, "deletes") \in Job
    BY DEF Deleting, Job
  <2>2. /\ tick.pc = "deletes" /\ RemoveFile(e, tick.local[e].path)
        /\ tick' = [tick EXCEPT !.pc = "unlinked", !.job = Deleting(e, "deletes"),
                                !.local[e] = NoRow]
    BY <1>20 DEF DeleteGone
  <2> HIDE DEF Deleting
  <2>3. tick' \in Tick
    BY <2>1, <2>2 DEF Tick, Pcs
  <2>4. ControlOK'
    BY <2>1, <2>2 DEF ControlOK, Tick
  <2>5. file' \in [Email -> Path \cup {NoFile}] /\ spent' \in Spent
    BY <2>2, RemoveFileType
  <2> QED BY <1>20, <2>3, <2>4, <2>5 DEF DeleteGone
<1>21. ASSUME NEW e \in Email, ApplyOutOfScope(e) PROVE TypeOK'
  <2>1. CASE tick.local[e] = NoRow
    BY <1>21, <2>1 DEF ApplyOutOfScope, Hydrated, Tick, ControlOK
  <2>2. CASE tick.local[e] # NoRow
    <3>1. tick.pc = "apply"
          /\ tick' = [tick EXCEPT !.pc = "unlinked", !.got[e] = NoMessage,
                                  !.job = Deleting(e, "apply")]
          /\ RemoveFile(e, tick.local[e].path)
      BY <1>21, <2>2 DEF ApplyOutOfScope, Hydrated
    <3>2. Deleting(e, "apply") \in Job
      BY DEF Deleting, Job
    <3> HIDE DEF Deleting
    <3>3. tick' \in Tick
      BY <3>1, <3>2 DEF Tick, Pcs
    <3>4. ControlOK'
      BY <3>1, <3>2 DEF ControlOK, Tick
    <3>5. file' \in [Email -> Path \cup {NoFile}] /\ spent' \in Spent
      BY <3>1, RemoveFileType
    <3> QED BY <1>21, <3>3, <3>4, <3>5 DEF ApplyOutOfScope
  <2> QED BY <2>1, <2>2
<1>22. ASSUME NEW e \in Email, DownloadFails(e) PROVE TypeOK'
  <2>1. spent' \in Spent
    BY <1>22, BoundsAssumption DEF DownloadFails, Spent
  <2> QED BY <1>22, <2>1, IdleType, IdleControl DEF DownloadFails
<1>23. ASSUME NEW e \in Email, NEW m \in Scope, ApplyInsert(e, m) PROVE TypeOK'
  <2>1. TargetPath(e, m) \in Path /\ tick' \in Tick /\ ControlOK'
    BY <1>23, WriteNextType DEF ApplyInsert
  <2> QED BY <1>23, <2>1 DEF ApplyInsert
<1>24. ASSUME NEW e \in Email, NEW m \in Scope, ApplyMove(e, m) PROVE TypeOK'
  <2>1. TargetPath(e, m) \in Path /\ tick' \in Tick /\ ControlOK'
    BY <1>24, WriteNextType DEF ApplyMove
  <2> QED BY <1>24, <2>1 DEF ApplyMove, RenameStored
<1>25. ASSUME NEW e \in Email, NEW m \in Scope, ApplyUpdate(e, m) PROVE TypeOK'
  <2>1. TargetPath(e, m) \in Path /\ tick' \in Tick /\ ControlOK'
    BY <1>25, WriteNextType DEF ApplyUpdate
  <2> QED BY <1>25, <2>1 DEF ApplyUpdate, RenameStored
<1>26. ASSUME NEW e \in Email, NEW m \in Scope, ApplyNothing(e, m) PROVE TypeOK'
  BY <1>26 DEF ApplyNothing, Hydrated, Tick, ControlOK
<1>27. ASSUME NEW e \in Email, NEW m \in Scope, ServerDeliver(e, m) PROVE TypeOK'
  <2>1. server' \in [Email -> Message]
    BY <1>27, SetsAssumption DEF ServerDeliver, Message, Arrived
  <2>2. ServerEdit
    BY <1>27 DEF ServerDeliver
  <2> QED BY <2>1, <2>2, ServerEditType
<1>28. ASSUME NEW e \in Email, ServerDestroy(e) PROVE TypeOK'
  <2>1. server' \in [Email -> Message]
    BY <1>28, SetsAssumption DEF ServerDestroy, Message
  <2>2. ServerEdit
    BY <1>28 DEF ServerDestroy
  <2> QED BY <2>1, <2>2, ServerEditType
<1>29. ASSUME NEW e \in Email, NEW in \in SUBSET Mailbox, ServerMove(e, in) PROVE TypeOK'
  <2>1. server' \in [Email -> Message]
    BY <1>29, SetsAssumption DEF ServerMove, Message
  <2>2. ServerEdit
    BY <1>29 DEF ServerMove
  <2> QED BY <2>1, <2>2, ServerEditType
<1>30. ASSUME NEW e \in Email, NEW k \in Keyword, ServerKeyword(e, k) PROVE TypeOK'
  <2>1. server' \in [Email -> Message]
    BY <1>30, SetsAssumption DEF ServerKeyword, Message
  <2>2. ServerEdit
    BY <1>30 DEF ServerKeyword
  <2> QED BY <2>1, <2>2, ServerEditType
<1>31. ASSUME NEW e \in Email, NEW f \in Flag, UserFlag(e, f) PROVE TypeOK'
  <2> DEFINE on == f \notin file[e].flags
  <2>1. file[e] \in Path
    BY <1>31 DEF UserFlag
  <2>2. file' \in [Email -> Path \cup {NoFile}]
    <3>1. CASE on
      BY <1>31, <2>1, <3>1 DEF UserFlag, Path
    <3>2. CASE ~on
      BY <1>31, <2>1, <3>2 DEF UserFlag, Path
    <3> QED BY <3>1, <3>2
  <2>3. touched' = (touched \ {<<e, f, ~on>>}) \cup {<<e, f, on>>} /\ on \in BOOLEAN
    BY <1>31 DEF UserFlag
  <2>4. asked' \subseteq Email /\ touched' \subseteq Email \X Flag \X BOOLEAN
    <3>1. asked' \subseteq Email
      BY <1>31 DEF UserFlag
    <3> HIDE DEF on
    <3>2. <<e, f, on>> \in Email \X Flag \X BOOLEAN
      BY <2>3
    <3>3. touched' \subseteq Email \X Flag \X BOOLEAN
      BY <2>3, <3>2
    <3> QED BY <3>1, <3>3
  <2>5. spent' \in Spent /\ calm' = 0 /\ UNCHANGED <<server, stray, row, tick>>
    BY <1>31, BoundsAssumption DEF UserFlag, UserEdit, Spent
  <2> QED BY <2>2, <2>4, <2>5 DEF ControlOK
<1>32. ASSUME NEW e \in Email, UserUnlink(e) PROVE TypeOK'
  BY <1>32, BoundsAssumption DEF UserUnlink, UserEdit, Path, Spent, ControlOK
<1>33. CASE UNCHANGED vars
  BY <1>33 DEF vars, ControlOK
<1> QED
  BY <1>1, <1>2, <1>3, <1>4, <1>5, <1>6, <1>7, <1>8, <1>9, <1>10, <1>11, <1>12, <1>13, <1>14, <1>15, <1>16, <1>17, <1>18, <1>19, <1>20, <1>21, <1>22, <1>23, <1>24, <1>25, <1>26, <1>27, <1>28, <1>29, <1>30, <1>31, <1>32, <1>33
     DEF Next, Daemon, Others, Failures, Apply

\* Every state has the declared types, and the locals of a running tick are
\* the ones its current step relies on: a row being rewritten exists, a row
\* about to be patched was read.
THEOREM TypeCorrect == Spec => []TypeOK
BY TypeInit, TypeNext, PTL DEF Spec

=============================================================================
