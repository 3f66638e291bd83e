-------------------------- MODULE EmailSyncSafety --------------------------
(***************************************************************************)
(* The safety theorems of EmailSync: what is pushed upstream is what the   *)
(* user did, and a Maildir nobody edits is neither pushed nor left with    *)
(* files of no row.  They rest on one inductive invariant, SafetyInv.      *)
(***************************************************************************)
EXTENDS EmailSyncProofs

\* The user is idle, or edits only before a tick has read the Maildir, with
\* flags that have a keyword, and the server takes what it can take.
Orderly ==
    /\ MaxCrash = 0
    /\ MaxUser = 0 \/ (UserMidTick = FALSE /\ MaxReject = 0 /\ Odd = {})

\* The pass the tick is in, also while it works on one e-mail.
Stage == IF tick.pc \in {"row", "members"} THEN "apply"
         ELSE IF tick.pc = "unlinked" THEN tick.job.back ELSE tick.pc

\* The file of e has changed and its row has not yet.
Torn(e) == tick.pc \in {"row", "unlinked"} /\ tick.job.email = e

\* The standard keywords on which a path and a keyword set disagree are the
\* user's doing.
Explains(e, path, kw) ==
    \A k \in Standard : (k \in path.flags) # (k \in kw)
        => <<e, k, k \in path.flags>> \in touched

\* A row and the file it names differ by what the user did and no more.
Paired(e) ==
    row[e] # NoRow =>
        /\ row[e].path.flags = FlagString(row[e].kw)
        /\ e \notin asked => file[e] # NoFile
        /\ file[e] # NoFile => /\ file[e].dir = row[e].path.dir
                               /\ Explains(e, file[e], row[e].kw)

FilesOK ==
    \A e \in Email :
        /\ ~Torn(e) => Paired(e)
        /\ file[e] # NoFile => /\ file[e].flags \subseteq Standard \cup {Trashed}
                               /\ Trashed \in file[e].flags => e \in asked

\* The row about to be written names the file just written.
WritingOK ==
    tick.pc = "row" =>
        /\ file[tick.job.email] = tick.job.row.path
        /\ tick.job.row.path.flags = FlagString(tick.job.row.kw)

\* What detection found still holds when it is pushed and reconciled.
PushOK ==
    /\ tick.pc = "set" =>
         /\ \A e \in tick.changed :
               /\ tick.seen[e] = file[e]
               /\ file[e] = NoFile => e \in asked
               /\ file[e] # NoFile => Explains(e, file[e], tick.local[e].kw)
         /\ \A e \in Email \ tick.changed :
               tick.local[e] # NoRow => file[e] = tick.local[e].path
    /\ Stage = "reconcile" =>
         /\ \A e \in tick.accepted : tick.seen[e] = file[e]
         /\ \A e \in tick.ids \ tick.accepted :
               (server[e].life = "live" /\ tick.local[e] # NoRow)
                   => file[e] = tick.local[e].path

\* An e-mail still to be applied has its file under the path read before.
Pending(e) ==
    \/ e \in tick.ids /\ server[e].life = "live"
    \/ tick.got[e] # NoMessage

ApplyOK ==
    /\ \A e \in tick.ids : server[e].life # "unborn"
    /\ \A e \in Email : tick.got[e] # NoMessage => (Stage = "apply" /\ e \notin tick.ids)
    /\ (tick.pc = "unlinked" /\ tick.job.back # "orphans") =>
          /\ tick.job.email \notin tick.ids \cup tick.accepted
          /\ tick.got[tick.job.email] = NoMessage
          /\ tick.job.back = "deletes" => tick.local[tick.job.email] = NoRow
    /\ Stage \in {"deletes", "get", "apply"} =>
          \A e \in Email : (Pending(e) /\ tick.local[e] # NoRow)
                               => file[e] = tick.local[e].path

\* An idle user: nothing is found and, if every file can be removed, none
\* stays behind.
IdleOK ==
    MaxUser = 0 =>
        /\ asked = {} /\ touched = {}
        /\ tick.changed = {}
        /\ Stage \notin {"set", "reconcile"}
        /\ Stage = "deletes" =>
              \A e \in Email : tick.local[e] # NoRow => file[e] = tick.local[e].path
        /\ MaxStuck = 0 => /\ stray = {}
                           /\ tick.pc = "unlinked" => file[tick.job.email] = NoFile

SafetyInv == FilesOK /\ WritingOK /\ PushOK /\ ApplyOK /\ IdleOK

-----------------------------------------------------------------------------
LEMMA SafetyInit == Init => SafetyInv
BY SetsAssumption, NullsAssumption
   DEF Init, SafetyInv, FilesOK, Paired, WritingOK, PushOK, ApplyOK, IdleOK, Idle, Stage, Pending

\* A tick that starts or ends outside the work on one e-mail forgets its
\* locals; the stores carry all that has to be remembered.
LEMMA ForgetSafe ==
    ASSUME TypeOK, SafetyInv, tick.pc \notin {"row", "unlinked"},
           UNCHANGED <<file, stray, row, asked, touched>>,
           NEW pc \in {"idle", "orphans"}, tick' = [Idle EXCEPT !.pc = pc]
    PROVE  SafetyInv'
<1>1. /\ tick'.pc = pc /\ tick'.ids = {} /\ tick'.changed = {}
      /\ \A e \in Email : tick'.got[e] = NoMessage
  BY DEF Idle
<1>2. FilesOK'
  BY <1>1 DEF SafetyInv, FilesOK, Torn, Paired, Explains
<1>3. WritingOK' /\ PushOK' /\ ApplyOK'
  BY <1>1 DEF WritingOK, PushOK, ApplyOK, Stage, Pending
<1>4. IdleOK'
  BY <1>1 DEF SafetyInv, IdleOK, Stage
<1> QED BY <1>2, <1>3, <1>4 DEF SafetyInv

\* Other clients deliver and destroy; an id never becomes unborn again, and
\* one that is gone does not return.
LEMMA ServerSafe ==
    ASSUME TypeOK, SafetyInv, UNCHANGED <<file, stray, row, tick, asked, touched>>,
           \A e \in Email :
              /\ server[e].life # "unborn" => server'[e].life # "unborn"
              /\ server'[e].life = "live" => server[e].life \in {"live", "unborn"}
    PROVE  SafetyInv'
<1>1. FilesOK' /\ WritingOK' /\ IdleOK'
  BY DEF SafetyInv, FilesOK, Torn, Paired, Explains, WritingOK, IdleOK, Stage
<1>2. \A e \in tick.ids : server'[e].life = "live" => server[e].life = "live"
  BY DEF SafetyInv, ApplyOK, TypeOK, Tick
<1>3. PushOK'
  <2>1. tick.ids \subseteq Email /\ tick' = tick
    BY DEF TypeOK, Tick
  <2> QED BY <1>2, <2>1 DEF SafetyInv, PushOK, Stage, Explains
<1>4. ApplyOK'
  <2>1. \A e \in Email : Pending(e)' => Pending(e)
    BY <1>2 DEF Pending
  <2>2. tick.ids \subseteq Email
    BY DEF TypeOK, Tick
  <2> QED BY <2>1, <2>2 DEF SafetyInv, ApplyOK, Stage
<1> QED BY <1>1, <1>3, <1>4 DEF SafetyInv

\* Steps that change the locals only, and no stage's claim but their own.
LEMMA StoresSame ==
    ASSUME TypeOK, SafetyInv, UNCHANGED <<stores, history>>,
           tick.pc \notin {"row", "unlinked"}, tick'.pc \notin {"row", "unlinked"}
    PROVE  FilesOK' /\ WritingOK'
BY DEF SafetyInv, FilesOK, Torn, Paired, Explains, WritingOK, stores, history

\* The stores stay as they are while ids are listed.
LEMMA ListingSafe ==
    ASSUME TypeOK, SafetyInv, UNCHANGED <<stores, history>>,
           tick.pc \in {"orphans", "query"}, tick'.pc = "query",
           UNCHANGED <<tick.got, tick.changed>>,
           \A e \in tick'.ids : e \in tick.ids \/ server[e].life = "live"
    PROVE  SafetyInv'
<1>1. FilesOK' /\ WritingOK'
  BY StoresSame
<1>2. PushOK'
  BY DEF PushOK, Stage
<1>3. \A e \in Email : tick.got[e] = NoMessage
  BY DEF SafetyInv, ApplyOK, Stage
<1>4. ApplyOK'
  BY <1>3 DEF SafetyInv, ApplyOK, Stage, stores
<1>5. IdleOK'
  BY DEF SafetyInv, IdleOK, Stage, stores, history
<1> QED BY <1>1, <1>2, <1>4, <1>5 DEF SafetyInv

LEMMA CleanupDoneSafe == ASSUME TypeOK, SafetyInv, CleanupDone PROVE SafetyInv'
<1>1. /\ tick.pc = "orphans" /\ tick'.pc = "query"
      /\ UNCHANGED <<tick.got, tick.changed, tick.ids>>
  BY DEF CleanupDone, TypeOK, Tick
<1> QED BY <1>1, ListingSafe DEF CleanupDone

LEMMA QueryPageSafe ==
    ASSUME TypeOK, SafetyInv, NEW m \in Scope, QueryPage(m) PROVE SafetyInv'
<1>1. /\ tick.pc = "query" /\ tick'.pc = "query"
      /\ UNCHANGED <<tick.got, tick.changed>>
      /\ tick'.ids = tick.ids \cup Page(m, tick.pos)
  BY DEF QueryPage, TypeOK, Tick
<1>2. \A e \in Page(m, tick.pos) : server[e].life = "live"
  BY DEF Page, Listed
<1> QED BY <1>1, <1>2, ListingSafe DEF QueryPage

\* What detection finds is the user's doing; what it passes over has its file
\* under the stored path.
LEMMA DetectFinds ==
    ASSUME TypeOK, SafetyInv, Orderly, tick.pc \in {"orphans", "query"},
           NEW e \in Email, row[e] # NoRow
    PROVE  /\ Resolve(e) = file[e]
           /\ IsDestroy(file[e]) => e \in asked
           /\ file[e] # NoFile => Explains(e, file[e], row[e].kw)
           /\ ~IsDestroy(file[e]) /\ ~IsUpdate(file[e], row[e]) => file[e] = row[e].path
           /\ MaxUser = 0 => ~IsDestroy(file[e]) /\ ~IsUpdate(file[e], row[e])
<1>1. /\ Paired(e)
      /\ file[e] # NoFile => /\ file[e].flags \subseteq Standard \cup {Trashed}
                             /\ Trashed \in file[e].flags => e \in asked
  BY DEF SafetyInv, FilesOK, Torn
<1>2. row[e] \in Row /\ row[e].path \in Path
  BY DEF TypeOK, Row
<1>3. file[e] # NoFile => file[e] \in Path
  BY DEF TypeOK
<1>4. Resolve(e) = file[e]
  BY <1>1 DEF Paired, Resolve
<1>5. IsDestroy(file[e]) => e \in asked
  BY <1>1 DEF Paired, IsDestroy
<1>6. file[e] # NoFile => Explains(e, file[e], row[e].kw)
  BY <1>1 DEF Paired
<1>7. ASSUME file[e] # NoFile, Trashed \notin file[e].flags,
             file[e].flags \cap Standard = row[e].kw \cap Standard
      PROVE  file[e] = row[e].path
  <2>1. file[e].flags = row[e].path.flags
    BY <1>1, <1>7 DEF Paired, FlagString
  <2>2. file[e].dir = row[e].path.dir
    BY <1>1, <1>7 DEF Paired
  <2> QED BY <1>2, <1>3, <1>7, <2>1, <2>2 DEF Path
<1>8. ~IsDestroy(file[e]) /\ ~IsUpdate(file[e], row[e]) => file[e] = row[e].path
  <2> SUFFICES ASSUME ~IsDestroy(file[e]), ~IsUpdate(file[e], row[e]) PROVE file[e] = row[e].path
    OBVIOUS
  <2>1. Merged(row[e].kw, file[e].flags) = row[e].kw
    BY DEF IsUpdate
  <2>2. file[e].flags \cap Standard = row[e].kw \cap Standard
    BY <2>1 DEF Merged
  <2> QED BY <1>7, <2>2 DEF IsDestroy
<1>9. MaxUser = 0 => ~IsDestroy(file[e]) /\ ~IsUpdate(file[e], row[e])
  <2> SUFFICES ASSUME MaxUser = 0 PROVE ~IsDestroy(file[e]) /\ ~IsUpdate(file[e], row[e])
    OBVIOUS
  <2>1. asked = {} /\ touched = {}
    BY DEF SafetyInv, IdleOK
  <2>2. ~IsDestroy(file[e]) /\ file[e] # NoFile
    BY <1>5, <2>1 DEF IsDestroy
  <2>3. \A k \in Standard : (k \in file[e].flags) = (k \in row[e].kw)
    BY <1>6, <2>1, <2>2 DEF Explains
  <2>4. Merged(row[e].kw, file[e].flags) = row[e].kw
    BY <2>3 DEF Merged
  <2> QED BY <2>2, <2>4 DEF IsUpdate
<1> QED BY <1>4, <1>5, <1>6, <1>8, <1>9

LEMMA DetectSafe == ASSUME TypeOK, SafetyInv, Orderly, Detect PROVE SafetyInv'
<1>1. tick.pc = "query" /\ UNCHANGED <<stores, history>>
  BY DEF Detect
<1> DEFINE found == [e \in Email |-> IF row[e] = NoRow THEN NoFile ELSE Resolve(e)]
           changed == {e \in Email : row[e] # NoRow /\
                         (IsDestroy(found[e]) \/ IsUpdate(found[e], row[e]))}
           kept == [e \in Email |-> IF e \in changed THEN found[e] ELSE NoFile]
           next == IF changed = {} THEN "deletes" ELSE "set"
<1>2. tick' = [tick EXCEPT !.local = row, !.changed = changed, !.seen = kept, !.pc = next]
  BY DEF Detect
<1>3. \A e \in changed :
        /\ e \in Email /\ row[e] # NoRow /\ kept[e] = file[e]
        /\ IsDestroy(file[e]) => e \in asked
        /\ file[e] # NoFile => Explains(e, file[e], row[e].kw)
        /\ MaxUser # 0
  BY <1>1, DetectFinds
<1>4. \A e \in Email \ changed : row[e] # NoRow => file[e] = row[e].path
  BY <1>1, DetectFinds
<1>5. next \in {"deletes", "set"} /\ (next = "set" <=> changed # {})
  OBVIOUS
<1> HIDE DEF found, changed, kept, next
<1>6. /\ tick'.pc = next /\ tick'.local = row /\ tick'.changed = changed
      /\ tick'.seen = kept /\ tick'.ids = tick.ids /\ tick'.got = tick.got
  BY <1>2 DEF TypeOK, Tick
<1>7. FilesOK' /\ WritingOK'
  BY <1>1, <1>5, <1>6, StoresSame
<1>8. PushOK'
  BY <1>1, <1>3, <1>4, <1>5, <1>6 DEF PushOK, Stage, IsDestroy, Explains, stores, history
<1>9. \A e \in Email : tick.got[e] = NoMessage
  BY <1>1 DEF SafetyInv, ApplyOK, Stage
<1>10. ApplyOK'
  BY <1>1, <1>4, <1>5, <1>6, <1>9 DEF SafetyInv, ApplyOK, Stage, Pending, stores, history
<1>11. IdleOK'
  BY <1>1, <1>3, <1>4, <1>5, <1>6 DEF SafetyInv, IdleOK, Stage, stores, history
<1> QED BY <1>7, <1>8, <1>10, <1>11 DEF SafetyInv

\* Ends of a tick.
LEMMA StartTickSafe == ASSUME TypeOK, SafetyInv, StartTick PROVE SafetyInv'
BY ForgetSafe DEF StartTick, stores, history

LEMMA IdleSafe ==
    ASSUME TypeOK, SafetyInv, tick.pc \notin {"row", "unlinked"}, tick' = Idle,
           UNCHANGED <<file, stray, row, asked, touched>>
    PROVE  SafetyInv'
<1>1. Idle = [Idle EXCEPT !.pc = "idle"]
  BY DEF Idle
<1>2. "idle" \in {"idle", "orphans"}
  OBVIOUS
<1> QED BY <1>1, <1>2, ForgetSafe

LEMMA AbortSafe ==
    ASSUME TypeOK, SafetyInv,
           \/ Abort \/ SetReplyLost \/ EndTick
           \/ \E e \in Email : DownloadFails(e)
    PROVE  SafetyInv'
BY IdleSafe DEF Abort, SetReplyLost, EndTick, DownloadFails, Hydrated, stores, history

\* With every acceptable entry accepted, an id that is neither accepted nor
\* gone was not changed.
LEMMA SetEmailsSafe == ASSUME TypeOK, SafetyInv, Orderly, SetEmails PROVE SafetyInv'
<1>1. PICK accepted \in SUBSET Acceptable :
         /\ spent.reject + Cardinality(Acceptable \ accepted) <= MaxReject
         /\ ServerAccepts(accepted)
         /\ tick' = [tick EXCEPT !.pc = "reconcile", !.accepted = accepted]
  BY DEF SetEmails
<1>2. tick.pc = "set" /\ UNCHANGED <<file, stray, row, history>>
  BY DEF SetEmails
<1>3. MaxUser # 0
  BY <1>2 DEF SafetyInv, IdleOK, Stage
<1>4. Acceptable \ accepted = {}
  <2>1. spent.reject \in Nat /\ MaxReject = 0
    BY <1>3, BoundsAssumption DEF Orderly, TypeOK, Spent
  <2>2. IsFiniteSet(Acceptable \ accepted)
    BY SetsAssumption, FS_Subset DEF Acceptable, TypeOK, Tick
  <2>3. Cardinality(Acceptable \ accepted) = 0
    BY <1>1, <2>1, <2>2, FS_CardinalityType
  <2> QED BY <2>2, <2>3, FS_EmptySet
<1>5. /\ tick'.pc = "reconcile" /\ tick'.accepted = accepted
      /\ UNCHANGED <<tick.ids, tick.local, tick.seen, tick.got, tick.changed>>
  BY <1>1 DEF TypeOK, Tick
<1>6. accepted \subseteq tick.changed
  BY <1>1 DEF Acceptable
<1>7. \A e \in Email \ accepted : server'[e] = server[e] /\
         (server[e].life = "live" => e \notin tick.changed)
  BY <1>1, <1>4 DEF Acceptable, ServerAccepts
<1>8. \A e \in accepted : server[e].life = "live" /\ server'[e].life # "unborn"
  <2> TAKE e \in accepted
  <2>1. server[e].life = "live" /\ e \in Email
    BY <1>1, <1>6 DEF Acceptable, TypeOK, Tick
  <2>2. server[e] \in Message /\ server'[e] = WrittenBack(e)
    BY <1>1, <2>1 DEF ServerAccepts, TypeOK
  <2>3. server'[e].life \in {"gone", "live"}
    BY <2>1, <2>2 DEF WrittenBack, Message
  <2> QED BY <2>1, <2>3
<1>9. FilesOK' /\ WritingOK'
  BY <1>2, <1>5 DEF SafetyInv, FilesOK, Torn, Paired, Explains, WritingOK, history
<1>10. PushOK'
  <2>1. \A e \in accepted : tick.seen[e] = file[e]
    BY <1>2, <1>6 DEF SafetyInv, PushOK
  <2>2. \A e \in tick.ids \ accepted :
           (server'[e].life = "live" /\ tick.local[e] # NoRow) => file[e] = tick.local[e].path
    BY <1>2, <1>7 DEF SafetyInv, PushOK, TypeOK, Tick
  <2> QED BY <1>2, <1>5, <2>1, <2>2 DEF PushOK, Stage
<1>11. ApplyOK'
  <2>1. \A e \in tick.ids : server'[e].life # "unborn"
    BY <1>7, <1>8 DEF SafetyInv, ApplyOK, TypeOK, Tick
  <2>2. \A e \in Email : tick.got[e] = NoMessage
    BY <1>2 DEF SafetyInv, ApplyOK, Stage
  <2> QED BY <1>5, <2>1, <2>2 DEF ApplyOK, Stage
<1>12. IdleOK'
  BY <1>3 DEF IdleOK
<1> QED BY <1>9, <1>10, <1>11, <1>12 DEF SafetyInv

\* Writing the row of one e-mail settles no edit of another.
LEMMA UnsettledKeeps ==
    ASSUME NEW e, NEW kw, NEW f \in Email \ {e}, NEW k, NEW b, <<f, k, b>> \in touched
    PROVE  <<f, k, b>> \in Unsettled(e, kw)
BY DEF Unsettled

\* Removing a file, the first of the two writes of a deletion.
LEMMA RemoveFileSafe ==
    ASSUME TypeOK, SafetyInv, tick.pc \notin {"row", "unlinked"},
           NEW e \in Email, NEW path, RemoveFile(e, path),
           tick'.pc = "unlinked", tick'.job.email = e, UNCHANGED <<row, asked, touched>>
    PROVE  /\ FilesOK'
           /\ \A f \in Email \ {e} : file'[f] = file[f]
           /\ MaxStuck = 0 /\ file[e] = path => file'[e] = NoFile
<1>1. /\ \A f \in Email \ {e} : file'[f] = file[f]
      /\ file'[e] \in {file[e], NoFile}
      /\ MaxStuck = 0 /\ file[e] = path => file'[e] = NoFile
  BY BoundsAssumption DEF RemoveFile, TypeOK, Spent
<1>2. ASSUME NEW f \in Email PROVE
        /\ ~Torn(f)' => Paired(f)'
        /\ file'[f] # NoFile => /\ file'[f].flags \subseteq Standard \cup {Trashed}
                                /\ Trashed \in file'[f].flags => f \in asked'
  BY <1>1, <1>2 DEF SafetyInv, FilesOK, Torn, Paired, Explains
<1> QED BY <1>1, <1>2 DEF FilesOK

LEMMA ReconcileDestroyedSafe ==
    ASSUME TypeOK, SafetyInv, NEW e \in Email, ReconcileDestroyed(e) PROVE SafetyInv'
<1> DEFINE path == IF tick.seen[e] = NoFile THEN tick.local[e].path ELSE tick.seen[e]
           job == Deleting(e, "reconcile")
<1>1. /\ tick.pc = "reconcile" /\ RemoveFile(e, path)
      /\ tick' = [tick EXCEPT !.pc = "unlinked", !.job = job, !.accepted = @ \ {e},
                              !.ids = @ \ {e}, !.local[e] = NoRow]
      /\ UNCHANGED <<server, stray, row, history>>
  BY DEF ReconcileDestroyed
<1>2. job.email = e /\ job.back = "reconcile"
  BY DEF Deleting
<1> HIDE DEF path, job
<1>4. /\ tick'.pc = "unlinked" /\ tick'.job = job
      /\ tick'.accepted = tick.accepted \ {e} /\ tick'.ids = tick.ids \ {e}
      /\ UNCHANGED <<tick.seen, tick.got, tick.changed>>
      /\ \A f \in Email \ {e} : tick'.local[f] = tick.local[f]
  BY <1>1 DEF TypeOK, Tick
<1>5. MaxUser # 0
  BY <1>1 DEF SafetyInv, IdleOK, Stage
<1>6. FilesOK' /\ \A f \in Email \ {e} : file'[f] = file[f]
  BY <1>1, <1>2, <1>4, RemoveFileSafe DEF history
<1>7. PushOK'
  BY <1>1, <1>2, <1>4, <1>6 DEF SafetyInv, PushOK, Stage, TypeOK, Tick
<1>8. \A f \in Email : tick.got[f] = NoMessage
  BY <1>1 DEF SafetyInv, ApplyOK, Stage
<1>9. ApplyOK'
  BY <1>1, <1>2, <1>4, <1>8 DEF SafetyInv, ApplyOK, Stage
<1>10. WritingOK' /\ IdleOK'
  BY <1>4, <1>5 DEF WritingOK, IdleOK
<1> QED BY <1>6, <1>7, <1>9, <1>10 DEF SafetyInv

LEMMA ReconcileUpdatedSafe ==
    ASSUME TypeOK, SafetyInv, NEW e \in Email, ReconcileUpdated(e) PROVE SafetyInv'
<1> DEFINE kw == Merged(tick.local[e].kw, tick.seen[e].flags)
           r == [path |-> tick.seen[e], kw |-> kw, members |-> tick.local[e].members]
<1>1. /\ tick.pc = "reconcile" /\ e \in tick.accepted /\ ~IsDestroy(tick.seen[e])
      /\ row' = [row EXCEPT ![e] = r]
      /\ tick' = [tick EXCEPT !.accepted = @ \ {e}, !.local[e] = r]
      /\ touched' = Unsettled(e, r.kw)
      /\ UNCHANGED <<server, file, stray, spent, asked>>
  BY DEF ReconcileUpdated
<1>2. file[e] = tick.seen[e] /\ file[e] \in Path /\ file[e] # NoFile /\ Trashed \notin file[e].flags
  BY <1>1, NullsAssumption DEF SafetyInv, PushOK, Stage, IsDestroy, TypeOK
<1>3. file[e].flags \subseteq Standard
  BY <1>2 DEF SafetyInv, FilesOK
<1>4. r.path = file[e] /\ r.path.flags = FlagString(r.kw)
      /\ \A k \in Standard : (k \in file[e].flags) = (k \in r.kw)
  BY <1>2, <1>3 DEF FlagString, Merged
<1> HIDE DEF r
<1>5. /\ tick'.pc = "reconcile"
      /\ tick'.accepted = tick.accepted \ {e} /\ tick'.local[e] = r
      /\ UNCHANGED <<tick.ids, tick.seen, tick.got, tick.changed>>
      /\ \A f \in Email \ {e} : tick'.local[f] = tick.local[f]
  BY <1>1 DEF TypeOK, Tick
<1>6. row'[e] = r /\ \A f \in Email \ {e} : row'[f] = row[f]
  BY <1>1 DEF TypeOK
<1>7. MaxUser # 0
  BY <1>1 DEF SafetyInv, IdleOK, Stage
<1>8. FilesOK'
  <2>1. Paired(e)'
    BY <1>1, <1>2, <1>4, <1>6 DEF Paired, Explains
  <2>2. \A f \in Email \ {e} : Paired(f)'
    BY <1>1, <1>6, UnsettledKeeps DEF SafetyInv, FilesOK, Torn, Paired, Explains
  <2> QED BY <1>1, <2>1, <2>2 DEF SafetyInv, FilesOK
<1>9. PushOK'
  BY <1>1, <1>4, <1>5 DEF SafetyInv, PushOK, Stage, TypeOK, Tick
<1>10. \A f \in Email : tick.got[f] = NoMessage
  BY <1>1 DEF SafetyInv, ApplyOK, Stage
<1>11. ApplyOK'
  BY <1>1, <1>5, <1>10 DEF SafetyInv, ApplyOK, Stage
<1>12. WritingOK' /\ IdleOK'
  BY <1>5, <1>7 DEF WritingOK, IdleOK
<1> QED BY <1>8, <1>9, <1>11, <1>12 DEF SafetyInv

LEMMA ReconcileDoneSafe == ASSUME TypeOK, SafetyInv, ReconcileDone PROVE SafetyInv'
<1>1. /\ tick.pc = "reconcile" /\ tick'.pc = "deletes" /\ tick.accepted = {}
      /\ UNCHANGED <<stores, history, tick.ids, tick.local, tick.got>>
  BY DEF ReconcileDone, TypeOK, Tick
<1>2. MaxUser # 0
  BY <1>1 DEF SafetyInv, IdleOK, Stage
<1>3. \A f \in Email : tick.got[f] = NoMessage
  BY <1>1 DEF SafetyInv, ApplyOK, Stage
<1>4. FilesOK' /\ WritingOK'
  BY <1>1, StoresSame
<1>5. ApplyOK'
  BY <1>1, <1>3 DEF SafetyInv, ApplyOK, PushOK, Stage, Pending, stores
<1> QED BY <1>1, <1>2, <1>4, <1>5 DEF SafetyInv, PushOK, IdleOK, Stage

\* Deletions that follow from what the server lists and what it holds.
LEMMA UnlinkSafe ==
    ASSUME TypeOK, SafetyInv, Orderly, NEW e \in Email, NEW path,
           NEW back \in {"deletes", "apply"}, tick.pc = back,
           RemoveFile(e, path), MaxUser = 0 => file[e] = path,
           tick'.pc = "unlinked", tick'.job = Deleting(e, back),
           e \notin tick.ids, tick'.got[e] = NoMessage,
           \A f \in Email \ {e} : tick'.got[f] = tick.got[f] /\ tick'.local[f] = tick.local[f],
           back = "deletes" => tick'.local[e] = NoRow,
           UNCHANGED <<server, stray, row, asked, touched, tick.ids, tick.changed, tick.accepted>>
    PROVE  SafetyInv'
<1>1. tick'.job.email = e /\ tick'.job.back = back
  BY DEF Deleting
<1>2. /\ FilesOK'
      /\ \A f \in Email \ {e} : file'[f] = file[f]
      /\ MaxUser = 0 /\ MaxStuck = 0 => file'[e] = NoFile
      /\ file'[e] \in {file[e], NoFile}
  BY <1>1, RemoveFileSafe DEF RemoveFile, TypeOK
<1>3. PushOK' /\ WritingOK'
  BY <1>1 DEF PushOK, WritingOK, Stage
<1>4. e \notin tick.accepted
  BY DEF TypeOK, ControlOK
<1>5. ApplyOK'
  <2>1. \A f \in Email : Pending(f)' => f # e /\ Pending(f)
    BY DEF Pending
  <2>2. \A f \in Email : tick'.got[f] # NoMessage => back = "apply" /\ f \notin tick.ids
    BY DEF SafetyInv, ApplyOK, Stage
  <2> QED BY <1>1, <1>2, <1>4, <2>1, <2>2 DEF SafetyInv, ApplyOK, Stage
<1>6. IdleOK'
  <2> SUFFICES ASSUME MaxUser = 0 PROVE IdleOK'
    BY DEF IdleOK
  <2>1. Stage' = back
    BY <1>1 DEF Stage
  <2>2. back = "deletes" =>
          \A f \in Email : tick'.local[f] # NoRow => file'[f] = tick'.local[f].path
    BY <1>2 DEF SafetyInv, IdleOK, Stage
  <2> QED BY <1>1, <1>2, <2>1, <2>2 DEF SafetyInv, IdleOK
<1> QED BY <1>2, <1>3, <1>5, <1>6 DEF SafetyInv

LEMMA CleanupOrphanSafe ==
    ASSUME TypeOK, SafetyInv, Orderly, NEW e \in Email, CleanupOrphan(e) PROVE SafetyInv'
<1>1. /\ tick.pc = "orphans" /\ row[e] # NoRow /\ RemoveFile(e, row[e].path)
      /\ tick' = [tick EXCEPT !.pc = "unlinked", !.job = Deleting(e, "orphans")]
      /\ UNCHANGED <<server, stray, row, asked, touched>>
  BY DEF CleanupOrphan, IsOrphan, history
<1>2. /\ tick'.pc = "unlinked" /\ tick'.job = Deleting(e, "orphans")
      /\ UNCHANGED <<tick.ids, tick.changed, tick.accepted, tick.got, tick.local>>
  BY <1>1 DEF TypeOK, Tick
<1>3. MaxUser = 0 => file[e] = row[e].path
  BY <1>1, DetectFinds
<1>4. tick.got[e] = NoMessage
  BY <1>1 DEF SafetyInv, ApplyOK, Stage
<1>5. FilesOK' /\ (\A f \in Email \ {e} : file'[f] = file[f]) /\ (MaxUser = 0 /\ MaxStuck = 0 => file'[e] = NoFile)
  BY <1>1, <1>2, <1>3, RemoveFileSafe DEF Deleting
<1>6. tick'.job.email = e /\ tick'.job.back = "orphans"
  BY <1>2 DEF Deleting
<1>7. PushOK' /\ WritingOK'
  BY <1>2, <1>6 DEF PushOK, WritingOK, Stage
<1>8. ApplyOK'
  BY <1>1, <1>2, <1>6 DEF SafetyInv, ApplyOK, Stage
<1>9. IdleOK'
  BY <1>1, <1>2, <1>5, <1>6 DEF SafetyInv, IdleOK, Stage
<1> QED BY <1>5, <1>7, <1>8, <1>9 DEF SafetyInv

LEMMA DeleteGoneSafe ==
    ASSUME TypeOK, SafetyInv, Orderly, NEW e \in Email, DeleteGone(e) PROVE SafetyInv'
<1>1. /\ tick.pc = "deletes" /\ IsGone(e) /\ RemoveFile(e, tick.local[e].path)
      /\ tick' = [tick EXCEPT !.pc = "unlinked", !.job = Deleting(e, "deletes"),
                              !.local[e] = NoRow]
      /\ UNCHANGED <<server, stray, row, asked, touched>>
  BY DEF DeleteGone, history
<1>2. /\ tick'.pc = "unlinked" /\ tick'.job = Deleting(e, "deletes") /\ tick'.local[e] = NoRow
      /\ UNCHANGED <<tick.ids, tick.changed, tick.accepted, tick.got>>
      /\ \A f \in Email \ {e} : tick'.local[f] = tick.local[f]
  BY <1>1 DEF TypeOK, Tick
<1>3. MaxUser = 0 => file[e] = tick.local[e].path
  BY <1>1 DEF SafetyInv, IdleOK, Stage, IsGone
<1>4. tick.got[e] = NoMessage
  BY <1>1 DEF SafetyInv, ApplyOK, Stage
<1> QED BY <1>1, <1>2, <1>3, <1>4, UnlinkSafe DEF IsGone

\* The hydrated e-mail is no longer listed and its file is where it was read.
LEMMA HydratedFacts ==
    ASSUME TypeOK, SafetyInv, NEW e \in Email, Hydrated(e)
    PROVE  /\ tick.pc = "apply" /\ e \notin tick.ids
           /\ tick.local[e] # NoRow => file[e] = tick.local[e].path
BY DEF SafetyInv, ApplyOK, Hydrated, Pending, Stage

\* An e-mail that needs no write, or has been looked at, is no longer pending.
LEMMA AppliedSafe ==
    ASSUME TypeOK, SafetyInv, NEW e \in Email, tick.pc = "apply",
           tick' = [tick EXCEPT !.got[e] = NoMessage], UNCHANGED <<stores, history>>
    PROVE  SafetyInv'
<1>1. /\ tick'.pc = "apply" /\ tick'.got[e] = NoMessage
      /\ UNCHANGED <<tick.ids, tick.local, tick.changed, tick.accepted>>
      /\ \A f \in Email \ {e} : tick'.got[f] = tick.got[f]
  BY DEF TypeOK, Tick
<1>2. FilesOK' /\ WritingOK'
  BY <1>1, StoresSame
<1>3. ApplyOK'
  BY <1>1 DEF SafetyInv, ApplyOK, Stage, Pending, stores
<1>4. PushOK' /\ IdleOK'
  BY <1>1 DEF SafetyInv, PushOK, IdleOK, Stage, stores, history
<1> QED BY <1>2, <1>3, <1>4 DEF SafetyInv

LEMMA ApplyOutOfScopeSafe ==
    ASSUME TypeOK, SafetyInv, Orderly, NEW e \in Email, ApplyOutOfScope(e) PROVE SafetyInv'
<1>1. Hydrated(e) /\ UNCHANGED <<server, stray, row, history>>
  BY DEF ApplyOutOfScope
<1>2. CASE tick.local[e] = NoRow
  BY <1>1, <1>2, AppliedSafe DEF ApplyOutOfScope, Hydrated, stores
<1>3. CASE tick.local[e] # NoRow
  <2>1. /\ RemoveFile(e, tick.local[e].path)
        /\ tick' = [tick EXCEPT !.pc = "unlinked", !.got[e] = NoMessage,
                                !.job = Deleting(e, "apply")]
    BY <1>3 DEF ApplyOutOfScope
  <2>2. /\ tick'.pc = "unlinked" /\ tick'.job = Deleting(e, "apply") /\ tick'.got[e] = NoMessage
        /\ UNCHANGED <<tick.ids, tick.changed, tick.accepted, tick.local>>
        /\ \A f \in Email \ {e} : tick'.got[f] = tick.got[f]
    BY <2>1 DEF TypeOK, Tick
  <2>3. tick.pc = "apply" /\ e \notin tick.ids /\ file[e] = tick.local[e].path
    BY <1>1, <1>3, HydratedFacts
  <2> QED BY <1>1, <2>1, <2>2, <2>3, UnlinkSafe DEF history
<1> QED BY <1>2, <1>3

LEMMA DeleteRowSafe == ASSUME TypeOK, SafetyInv, DeleteRow PROVE SafetyInv'
<1> DEFINE e == tick.job.email
           back == tick.job.back
<1>1. /\ tick.pc = "unlinked" /\ tick.job \in Job
      /\ row' = [row EXCEPT ![e] = NoRow]
      /\ stray' = IF file[e] = NoFile THEN stray ELSE stray \cup {e}
      /\ file' = [file EXCEPT ![e] = NoFile]
      /\ tick' = [tick EXCEPT !.pc = back, !.job = NoJob]
      /\ asked' = asked \ {e} /\ touched' = {t \in touched : t[1] # e}
      /\ UNCHANGED server
  BY DEF DeleteRow, TypeOK, ControlOK
<1>2. e \in Email /\ back \in {"orphans", "reconcile", "deletes", "apply"}
  BY <1>1 DEF Job
<1>3. /\ tick'.pc = back
      /\ UNCHANGED <<tick.ids, tick.local, tick.changed, tick.accepted, tick.seen, tick.got>>
  BY <1>1 DEF TypeOK, Tick
<1>4. /\ row'[e] = NoRow /\ file'[e] = NoFile
      /\ \A f \in Email \ {e} : row'[f] = row[f] /\ file'[f] = file[f]
  BY <1>1, <1>2 DEF TypeOK
<1>5. Stage = back /\ Stage' = back
  BY <1>1, <1>2, <1>3 DEF Stage
<1> HIDE DEF e, back
<1>6. FilesOK'
  <2>1. ASSUME NEW f \in Email PROVE Paired(f)'
    <3>1. f # e => Paired(f)
      BY DEF Torn, e, SafetyInv, FilesOK
    <3>2. f # e => /\ f \in asked' <=> f \in asked
                   /\ \A k, b : <<f, k, b>> \in touched' <=> <<f, k, b>> \in touched
      BY <1>1
    <3> QED BY <1>1, <1>4, <2>1, <3>1, <3>2 DEF Paired, Explains
  <2> QED BY <1>1, <1>4, <2>1 DEF SafetyInv, FilesOK
<1>7. WritingOK'
  BY <1>2, <1>3 DEF WritingOK
<1>8. back # "orphans" => e \notin tick.ids \cup tick.accepted /\ tick.got[e] = NoMessage
  BY <1>1 DEF SafetyInv, ApplyOK, e, back
<1>9. PushOK'
  BY <1>1, <1>2, <1>3, <1>4, <1>5, <1>8 DEF SafetyInv, PushOK, TypeOK, Tick
<1>10. ApplyOK'
  BY <1>1, <1>2, <1>3, <1>4, <1>5, <1>8 DEF SafetyInv, ApplyOK, Pending
<1>11. IdleOK'
  <2> SUFFICES ASSUME MaxUser = 0 PROVE IdleOK'
    BY DEF IdleOK
  <2>1. MaxStuck = 0 => stray' = {}
    BY <1>1 DEF SafetyInv, IdleOK, e
  <2>2. back = "deletes" => tick.local[e] = NoRow
    BY <1>1 DEF SafetyInv, ApplyOK, e, back
  <2>3. back = "deletes" => \A f \in Email : tick'.local[f] # NoRow => file'[f] = tick'.local[f].path
    BY <1>3, <1>4, <1>5, <2>2 DEF SafetyInv, IdleOK
  <2> QED BY <1>1, <1>2, <1>3, <1>5, <2>1, <2>3 DEF SafetyInv, IdleOK
<1> QED BY <1>6, <1>7, <1>9, <1>10, <1>11 DEF SafetyInv

LEMMA DeletesDoneSafe == ASSUME TypeOK, SafetyInv, DeletesDone PROVE SafetyInv'
<1>1. /\ tick.pc = "deletes" /\ tick'.pc = "get"
      /\ UNCHANGED <<stores, history, tick.ids, tick.local, tick.got, tick.changed, tick.accepted>>
  BY DEF DeletesDone, TypeOK, Tick
<1>2. FilesOK' /\ WritingOK'
  BY <1>1, StoresSame
<1>3. \A f \in Email : tick.got[f] = NoMessage
  BY <1>1 DEF SafetyInv, ApplyOK, Stage
<1> QED BY <1>1, <1>2, <1>3
        DEF SafetyInv, PushOK, ApplyOK, IdleOK, Stage, Pending, stores, history

LEMMA ApplyDoneSafe == ASSUME TypeOK, SafetyInv, ApplyDone PROVE SafetyInv'
<1>1. /\ tick.pc = "apply" /\ tick'.pc = "get" /\ \A f \in Email : tick.got[f] = NoMessage
      /\ UNCHANGED <<stores, history, tick.ids, tick.local, tick.got, tick.changed, tick.accepted>>
  BY DEF ApplyDone, TypeOK, Tick
<1>2. FilesOK' /\ WritingOK'
  BY <1>1, StoresSame
<1> QED BY <1>1, <1>2
        DEF SafetyInv, PushOK, ApplyOK, IdleOK, Stage, Pending, stores, history

LEMMA GetChunkSafe == ASSUME TypeOK, SafetyInv, GetChunk PROVE SafetyInv'
<1> DEFINE chunk == Chunk(tick.ids)
           got == [e \in Email |-> IF e \in chunk /\ server[e].life = "live"
                                   THEN server[e] ELSE NoMessage]
<1>1. /\ tick.pc = "get" /\ UNCHANGED <<stores, history>>
      /\ tick' = [tick EXCEPT !.pc = "apply", !.ids = @ \ chunk, !.got = got]
  BY DEF GetChunk
<1>2. chunk \subseteq tick.ids
  BY DEF Chunk
<1>3. \A e \in Email : got[e] # NoMessage => e \in chunk /\ server[e].life = "live"
  OBVIOUS
<1> HIDE DEF chunk, got
<1>4. /\ tick'.pc = "apply" /\ tick'.ids = tick.ids \ chunk /\ tick'.got = got
      /\ UNCHANGED <<tick.local, tick.changed, tick.accepted>>
  BY <1>1 DEF TypeOK, Tick
<1>5. FilesOK' /\ WritingOK'
  BY <1>1, <1>4, StoresSame
<1>6. ApplyOK'
  <2>1. \A e \in Email : Pending(e)' => Pending(e)
    BY <1>1, <1>2, <1>3, <1>4 DEF Pending, stores
  <2> QED BY <1>1, <1>2, <1>3, <1>4, <2>1 DEF SafetyInv, ApplyOK, Stage, stores
<1> QED BY <1>1, <1>4, <1>5, <1>6 DEF SafetyInv, PushOK, IdleOK, Stage, stores, history

\* insert_email, move_email and update_email_in_place leave the file where the
\* row they write next will say.
LEMMA WriteNextSafe ==
    ASSUME TypeOK, SafetyInv, NEW e \in Email, NEW m \in Scope, Hydrated(e),
           file' = [file EXCEPT ![e] = TargetPath(e, m)], WriteNext(e, m),
           UNCHANGED <<server, stray, row, asked, touched>>
    PROVE  SafetyInv'
<1> DEFINE path == TargetPath(e, m)
           job == [email |-> e, back |-> "apply",
                   row |-> [path |-> path, kw |-> tick.got[e].kw,
                            members |-> TargetMembers(e)]]
<1>1. tick' = [tick EXCEPT !.pc = "row", !.got[e] = NoMessage, !.job = job]
  BY DEF WriteNext
<1>2. /\ job.email = e /\ job.row.path = path
      /\ path.flags = FlagString(job.row.kw)
      /\ path.flags \subseteq Standard
  BY DEF TargetPath, FlagString
<1>3. file'[e] = path /\ \A f \in Email \ {e} : file'[f] = file[f]
  BY DEF TypeOK
<1> HIDE DEF path, job
<1>4. /\ tick'.pc = "row" /\ tick'.job = job /\ tick'.got[e] = NoMessage
      /\ UNCHANGED <<tick.ids, tick.local, tick.changed, tick.accepted>>
      /\ \A f \in Email \ {e} : tick'.got[f] = tick.got[f]
  BY <1>1 DEF TypeOK, Tick
<1>5. tick.pc = "apply" /\ e \notin tick.ids
  BY HydratedFacts
<1>6. FilesOK'
  <2>1. ASSUME NEW f \in Email \ {e} PROVE Paired(f)'
    BY <1>3, <1>5, <2>1 DEF SafetyInv, FilesOK, Torn, Paired, Explains
  <2>2. Torn(e)'
    BY <1>2, <1>4 DEF Torn
  <2>3. Trashed \notin file'[e].flags
    BY <1>2, <1>3, SetsAssumption
  <2> QED BY <1>2, <1>3, <2>1, <2>2, <2>3 DEF SafetyInv, FilesOK
<1>7. WritingOK'
  BY <1>2, <1>3, <1>4 DEF WritingOK
<1>8. ApplyOK'
  BY <1>3, <1>4, <1>5 DEF SafetyInv, ApplyOK, Stage, Pending
<1>9. PushOK' /\ IdleOK'
  BY <1>4, <1>5 DEF SafetyInv, PushOK, IdleOK, Stage
<1> QED BY <1>6, <1>7, <1>8, <1>9 DEF SafetyInv

LEMMA ApplyWritesSafe ==
    ASSUME TypeOK, SafetyInv, NEW e \in Email, NEW m \in Scope,
           ApplyInsert(e, m) \/ ApplyMove(e, m) \/ ApplyUpdate(e, m)
    PROVE  SafetyInv'
<1>1. /\ Hydrated(e) /\ WriteNext(e, m)
      /\ UNCHANGED <<server, stray, row, asked, touched>>
  BY DEF ApplyInsert, ApplyMove, ApplyUpdate, history
<1>2. file' = [file EXCEPT ![e] = TargetPath(e, m)]
  BY <1>1, HydratedFacts DEF ApplyInsert, ApplyMove, ApplyUpdate, RenameStored
<1> QED BY <1>1, <1>2, WriteNextSafe

LEMMA WriteRowSafe == ASSUME TypeOK, SafetyInv, WriteRow PROVE SafetyInv'
<1> DEFINE e == tick.job.email
           new == tick.job.row
           old == IF row[e] = NoRow THEN {} ELSE row[e].members
           written == [new EXCEPT !.members = old]
<1>1. /\ tick.pc = "row" /\ tick.job \in Job /\ new \in Row
      /\ row' = [row EXCEPT ![e] = written] /\ tick' = [tick EXCEPT !.pc = "members"]
      /\ touched' = Unsettled(e, new.kw)
      /\ UNCHANGED <<server, file, stray, asked>>
  BY DEF WriteRow, TypeOK, ControlOK
<1>2. e \in Email
  BY <1>1 DEF Job
<1>3. written.path = new.path /\ written.kw = new.kw
  BY <1>1 DEF Row
<1>4. file[e] = new.path /\ new.path.flags = FlagString(new.kw)
  BY <1>1 DEF SafetyInv, WritingOK
<1>5. file[e] # NoFile
  BY <1>1, <1>4, NullsAssumption DEF Row
<1> HIDE DEF written
<1>6. row'[e] = written /\ \A f \in Email \ {e} : row'[f] = row[f]
  BY <1>1, <1>2 DEF TypeOK
<1>7. /\ tick'.pc = "members" /\ tick'.job = tick.job
      /\ UNCHANGED <<tick.ids, tick.local, tick.changed, tick.accepted, tick.got>>
  BY <1>1 DEF TypeOK, Tick
<1> HIDE DEF new, e
<1>8. FilesOK'
  <2>1. ASSUME NEW f \in Email PROVE Paired(f)'
    <3>1. CASE f = e
      BY <1>1, <1>3, <1>4, <1>5, <1>6, <3>1 DEF Paired, Explains, FlagString
    <3>2. CASE f # e
      <4>1. ~Torn(f)
        BY <3>2 DEF Torn, e
      <4>2. \A k, b : <<f, k, b>> \in touched => <<f, k, b>> \in touched'
        BY <1>1, <3>2, UnsettledKeeps
      <4> QED BY <1>1, <1>6, <2>1, <3>2, <4>1, <4>2 DEF SafetyInv, FilesOK, Paired, Explains
    <3> QED BY <3>1, <3>2
  <2> QED BY <1>1, <2>1 DEF SafetyInv, FilesOK
<1>9. touched = {} => touched' = {}
  BY <1>1 DEF Unsettled
<1> QED BY <1>1, <1>7, <1>8, <1>9
        DEF SafetyInv, WritingOK, PushOK, ApplyOK, IdleOK, Stage, Pending

LEMMA WriteMembersSafe == ASSUME TypeOK, SafetyInv, WriteMembers PROVE SafetyInv'
<1> DEFINE e == tick.job.email
           written == [row[e] EXCEPT !.members = tick.job.row.members]
<1>1. /\ tick.pc = "members" /\ tick.job \in Job /\ row[e] \in Row
      /\ row' = [row EXCEPT ![e] = written]
      /\ tick' = [tick EXCEPT !.pc = "apply", !.job = NoJob]
      /\ UNCHANGED <<server, file, stray, asked, touched>>
  BY DEF WriteMembers, TypeOK, ControlOK, history
<1>2. e \in Email /\ row[e] # NoRow
  BY <1>1, NullsAssumption DEF Job
<1>3. written.path = row[e].path /\ written.kw = row[e].kw
  BY <1>1 DEF Row
<1> HIDE DEF written
<1>4. row'[e] = written /\ \A f \in Email \ {e} : row'[f] = row[f]
  BY <1>1, <1>2 DEF TypeOK
<1>5. /\ tick'.pc = "apply"
      /\ UNCHANGED <<tick.ids, tick.local, tick.changed, tick.accepted, tick.got>>
  BY <1>1 DEF TypeOK, Tick
<1> HIDE DEF e
<1>6. FilesOK'
  <2>1. ASSUME NEW f \in Email PROVE Paired(f)'
    <3>1. Paired(f)
      BY <1>1 DEF SafetyInv, FilesOK, Torn
    <3> QED BY <1>1, <1>2, <1>3, <1>4, <3>1 DEF Paired, Explains
  <2> QED BY <1>1, <2>1 DEF SafetyInv, FilesOK
<1> QED BY <1>1, <1>5, <1>6
        DEF SafetyInv, WritingOK, PushOK, ApplyOK, IdleOK, Stage, Pending

\* The user edits one file, before the tick has looked at it, and the edit is
\* on record.
LEMMA UserSafe ==
    ASSUME TypeOK, SafetyInv, Orderly, NEW e \in Email, UserEdit,
           \A f \in Email \ {e} : file'[f] = file[f],
           \A f \in Email \ {e} :
              /\ f \in asked' <=> f \in asked
              /\ \A k, b : <<f, k, b>> \in touched => <<f, k, b>> \in touched',
           file'[e] = NoFile => e \in asked',
           file'[e] # NoFile =>
              /\ file[e] # NoFile /\ file'[e].dir = file[e].dir
              /\ file'[e].flags \subseteq Standard \cup {Trashed}
              /\ Trashed \in file'[e].flags => e \in asked'
              /\ \A k \in Standard :
                    \/ /\ (k \in file'[e].flags) = (k \in file[e].flags)
                       /\ \A b : <<e, k, b>> \in touched => <<e, k, b>> \in touched'
                    \/ <<e, k, k \in file'[e].flags>> \in touched'
    PROVE  SafetyInv'
<1>1. MaxUser # 0 /\ UserMidTick = FALSE
  BY BoundsAssumption DEF UserEdit, Orderly, TypeOK, Spent
<1>2. tick.pc \in {"idle", "orphans", "query"} /\ UNCHANGED <<server, stray, row, tick>>
  BY <1>1 DEF UserEdit
<1>3. Paired(e) /\ \A f \in Email : ~Torn(f)'
  BY <1>2 DEF SafetyInv, FilesOK, Torn
<1>4. ASSUME NEW f \in Email \ {e} PROVE Paired(f)'
  BY <1>2, <1>4 DEF SafetyInv, FilesOK, Torn, Paired, Explains
<1>5. Paired(e)'
  <2> SUFFICES ASSUME row[e] # NoRow
               PROVE  /\ row[e].path.flags = FlagString(row[e].kw)
                      /\ e \notin asked' => file'[e] # NoFile
                      /\ file'[e] # NoFile =>
                            /\ file'[e].dir = row[e].path.dir
                            /\ \A k \in Standard : (k \in file'[e].flags) # (k \in row[e].kw)
                                 => <<e, k, k \in file'[e].flags>> \in touched'
    BY <1>2 DEF Paired, Explains
  <2>1. ASSUME file'[e] # NoFile, NEW k \in Standard,
               (k \in file'[e].flags) # (k \in row[e].kw)
        PROVE  <<e, k, k \in file'[e].flags>> \in touched'
    <3>1. CASE /\ (k \in file'[e].flags) = (k \in file[e].flags)
               /\ \A b : <<e, k, b>> \in touched => <<e, k, b>> \in touched'
      <4>1. <<e, k, k \in file[e].flags>> \in touched'
        BY <1>3, <2>1, <3>1 DEF Paired, Explains
      <4>2. <<e, k, k \in file'[e].flags>> = <<e, k, k \in file[e].flags>>
        BY <3>1
      <4> QED BY <4>1, <4>2
    <3>2. CASE <<e, k, k \in file'[e].flags>> \in touched'
      BY <3>2
    <3> QED BY <2>1, <3>1, <3>2
  <2> QED BY <1>3, <2>1 DEF Paired
<1>6. FilesOK'
  BY <1>3, <1>4, <1>5 DEF SafetyInv, FilesOK
<1>7. WritingOK' /\ PushOK' /\ ApplyOK' /\ IdleOK'
  BY <1>1, <1>2 DEF SafetyInv, WritingOK, PushOK, ApplyOK, IdleOK, Stage
<1> QED BY <1>6, <1>7 DEF SafetyInv

LEMMA UserFlagSafe ==
    ASSUME TypeOK, SafetyInv, Orderly, NEW e \in Email, NEW f \in Flag, UserFlag(e, f)
    PROVE  SafetyInv'
<1> DEFINE on == f \notin file[e].flags
<1>1. /\ file[e] # NoFile /\ file[e] \in Path /\ UserEdit
      /\ touched' = (touched \ {<<e, f, ~on>>}) \cup {<<e, f, on>>}
      /\ asked' = IF f # Trashed THEN asked
                  ELSE IF on THEN asked \cup {e} ELSE asked \ {e}
  BY DEF UserFlag, TypeOK
<1>2. Odd = {}
  BY <1>1, BoundsAssumption DEF UserEdit, Orderly, TypeOK, Spent
<1>3. f \in Standard \cup {Trashed}
  BY <1>2 DEF Flag
<1>4. /\ file[e].flags \subseteq Standard \cup {Trashed}
      /\ Trashed \in file[e].flags => e \in asked
  BY <1>1 DEF SafetyInv, FilesOK
<1>5. file' = [file EXCEPT ![e].flags = IF on THEN @ \cup {f} ELSE @ \ {f}]
  BY DEF UserFlag
<1>6. /\ file'[e] \in Path /\ file'[e].dir = file[e].dir
      /\ file'[e].flags = IF on THEN file[e].flags \cup {f} ELSE file[e].flags \ {f}
      /\ \A g \in Email \ {e} : file'[g] = file[g]
  <2>1. CASE on
    BY <1>1, <1>5, <2>1 DEF TypeOK, Path
  <2>2. CASE ~on
    BY <1>1, <1>5, <2>2 DEF TypeOK, Path
  <2> QED BY <2>1, <2>2
<1>7. file'[e] # NoFile
  BY <1>6, NullsAssumption
<1>8. /\ file'[e].flags \subseteq Standard \cup {Trashed}
      /\ Trashed \in file'[e].flags => e \in asked'
      /\ \A g \in Email \ {e} :
            /\ g \in asked' <=> g \in asked
            /\ \A k, b : <<g, k, b>> \in touched => <<g, k, b>> \in touched'
  BY <1>1, <1>3, <1>4, <1>6
<1>9. (f \in file'[e].flags) = on
  BY <1>6
<1>10. \A k \in Standard : k # f =>
          /\ (k \in file'[e].flags) = (k \in file[e].flags)
          /\ \A b : <<e, k, b>> \in touched => <<e, k, b>> \in touched'
  BY <1>1, <1>6
<1>11. <<e, f, f \in file'[e].flags>> \in touched'
  <2>1. <<e, f, f \in file'[e].flags>> = <<e, f, on>>
    BY <1>9
  <2> QED BY <1>1, <2>1
<1>12. \A k \in Standard :
          \/ /\ (k \in file'[e].flags) = (k \in file[e].flags)
             /\ \A b : <<e, k, b>> \in touched => <<e, k, b>> \in touched'
          \/ <<e, k, k \in file'[e].flags>> \in touched'
  BY <1>10, <1>11
<1> HIDE DEF on
<1> QED BY <1>1, <1>6, <1>7, <1>8, <1>12, UserSafe

LEMMA UserUnlinkSafe ==
    ASSUME TypeOK, SafetyInv, Orderly, NEW e \in Email, UserUnlink(e) PROVE SafetyInv'
<1>1. /\ UserEdit /\ file'[e] = NoFile /\ \A g \in Email \ {e} : file'[g] = file[g]
      /\ asked' = asked \cup {e} /\ touched' = touched
  BY DEF UserUnlink, TypeOK
<1> QED BY <1>1, UserSafe

LEMMA ServerActionsSafe ==
    ASSUME TypeOK, SafetyInv, NEW e \in Email,
           \/ \E m \in Scope : ServerDeliver(e, m)
           \/ ServerDestroy(e)
           \/ \E in \in SUBSET Mailbox \ {{}} : ServerMove(e, in)
           \/ \E k \in Keyword : ServerKeyword(e, k)
    PROVE  SafetyInv'
<1>1. ServerEdit
  BY DEF ServerDeliver, ServerDestroy, ServerMove, ServerKeyword
<1>2. \A f \in Email :
         /\ server[f].life # "unborn" => server'[f].life # "unborn"
         /\ server'[f].life = "live" => server[f].life \in {"live", "unborn"}
  <2> TAKE f \in Email
  <2>1. server[e] \in Message
    BY DEF TypeOK
  <2>2. CASE f # e
    BY <2>2 DEF ServerDeliver, ServerDestroy, ServerMove, ServerKeyword, TypeOK, Message
  <2>3. CASE f = e
    BY <2>1, <2>3 DEF ServerDeliver, ServerDestroy, ServerMove, ServerKeyword, TypeOK, Message, Arrived
  <2> QED BY <2>2, <2>3
<1> QED BY <1>1, <1>2, ServerSafe DEF ServerEdit, history

LEMMA SafetyNext ==
    ASSUME TypeOK, SafetyInv, Orderly, [Next]_vars PROVE SafetyInv'
<1>1. ASSUME NEW e \in Email, Apply(e) PROVE SafetyInv'
  <2>1. CASE ApplyOutOfScope(e)
    BY <2>1, ApplyOutOfScopeSafe
  <2>2. CASE DownloadFails(e)
    BY <2>2, AbortSafe
  <2>3. ASSUME NEW m \in Scope, ApplyNothing(e, m) PROVE SafetyInv'
    BY <2>3, AppliedSafe DEF ApplyNothing, Hydrated
  <2> QED BY <1>1, <2>1, <2>2, <2>3, ApplyWritesSafe DEF Apply
<1>2. CASE Daemon
  BY <1>1, <1>2, StartTickSafe, CleanupDoneSafe, DetectSafe, SetEmailsSafe, ReconcileDoneSafe,
     DeletesDoneSafe, GetChunkSafe, AbortSafe, ApplyDoneSafe, WriteRowSafe, WriteMembersSafe,
     DeleteRowSafe, QueryPageSafe, CleanupOrphanSafe, ReconcileDestroyedSafe,
     ReconcileUpdatedSafe, DeleteGoneSafe
     DEF Daemon
<1>3. CASE Others
  BY <1>3, ServerActionsSafe, UserFlagSafe, UserUnlinkSafe DEF Others
<1>4. ~Crash
  BY BoundsAssumption DEF Crash, Orderly, TypeOK, Spent
<1>5. CASE Failures
  BY <1>4, <1>5, AbortSafe DEF Failures
<1>6. CASE UNCHANGED vars
  <2>1. Stage' = Stage /\ \A e \in Email : Torn(e)' = Torn(e) /\ Pending(e)' = Pending(e)
    BY <1>6 DEF vars, Stage, Torn, Pending
  <2> QED BY <1>6, <2>1
          DEF vars, SafetyInv, FilesOK, WritingOK, PushOK, ApplyOK, IdleOK, Paired, Explains
<1> QED BY <1>2, <1>3, <1>5, <1>6 DEF Next

LEMMA SafetyCorrect == ASSUME Orderly PROVE Spec => []SafetyInv
<1>1. TypeOK /\ SafetyInv /\ [Next]_vars => SafetyInv'
  BY SafetyNext
<1> QED BY <1>1, SafetyInit, TypeCorrect, PTL DEF Spec

-----------------------------------------------------------------------------
\* While the user is idle, detection never finds anything to push, whatever
\* other clients do between its steps, however many requests fail.
THEOREM IdleUserPushesNothing ==
    ASSUME MaxUser = 0, MaxCrash = 0 PROVE Spec => []NothingToPush
<1>1. Orderly
  BY DEF Orderly
<1>2. SafetyInv => NothingToPush
  BY DEF SafetyInv, IdleOK, NothingToPush
<1> QED BY <1>1, <1>2, SafetyCorrect, PTL

\* Nor does a tick leave a file behind that no row names, if every file it
\* removes can be removed.
THEOREM IdleUserLeavesNoStray ==
    ASSUME MaxUser = 0, MaxCrash = 0, MaxStuck = 0 PROVE Spec => []NoStray
<1>1. Orderly
  BY DEF Orderly
<1>2. SafetyInv => NoStray
  BY DEF SafetyInv, IdleOK, NoStray
<1> QED BY <1>1, <1>2, SafetyCorrect, PTL

\* Only Email/set changes the server on the daemon's behalf.
LEMMA OnlySetPushes ==
    ASSUME TypeOK, [Next]_vars, ByDaemon, NEW e \in Email, server'[e] # server[e]
    PROVE  /\ tick.pc = "set" /\ e \in tick.changed
           /\ server'[e] = WrittenBack(e)
<1>1. ASSUME ServerEdit PROVE FALSE
  <2>1. spent'.server = spent.server + 1 /\ spent.server \in Nat
    BY <1>1, BoundsAssumption DEF ServerEdit, TypeOK, Spent
  <2> QED BY <2>1 DEF ByDaemon
<1>2. ~\E f \in Email :
         \/ \E m \in Scope : ServerDeliver(f, m)
         \/ ServerDestroy(f)
         \/ \E in \in SUBSET Mailbox \ {{}} : ServerMove(f, in)
         \/ \E k \in Keyword : ServerKeyword(f, k)
  BY <1>1 DEF ServerDeliver, ServerDestroy, ServerMove, ServerKeyword
<1>3. ~Others
  BY <1>2 DEF Others, UserFlag, UserUnlink, UserEdit
<1>4. SetEmails \/ SetReplyLost
  <2>1. ASSUME NEW f \in Email, Apply(f) PROVE server' = server
    BY <2>1 DEF Apply, ApplyOutOfScope, DownloadFails, ApplyInsert, ApplyMove, ApplyUpdate,
                ApplyNothing, stores
  <2>2. CASE Daemon
    BY <2>1, <2>2 DEF Daemon, StartTick, CleanupDone, Detect, ReconcileDone, DeletesDone, GetChunk,
       EndTick, ApplyDone, WriteRow, WriteMembers, DeleteRow, QueryPage, CleanupOrphan,
       ReconcileDestroyed, ReconcileUpdated, DeleteGone, stores
  <2>3. CASE Failures
    BY <2>3 DEF Failures, Abort, Crash, stores
  <2>4. CASE UNCHANGED vars
    BY <2>4 DEF vars
  <2> QED BY <1>3, <2>2, <2>3, <2>4 DEF Next
<1>5. PICK accepted \in SUBSET Acceptable : tick.pc = "set" /\ ServerAccepts(accepted)
  <2>1. CASE SetEmails
    BY <2>1 DEF SetEmails
  <2>2. CASE SetReplyLost
    BY <2>2 DEF SetReplyLost
  <2> QED BY <1>4, <2>1, <2>2
<1> QED BY <1>5 DEF ServerAccepts, Acceptable

\* With an orderly user nothing is destroyed upstream that the user did not
\* ask for, through any interleaving with other clients, any number of failed
\* requests, lost replies and files that cannot be removed, any page and chunk
\* size.
THEOREM DestroysAreRequested ==
    ASSUME Orderly PROVE Spec => DestroyOnlyOnRequest
<1>1. ASSUME TypeOK, SafetyInv, [Next]_vars, NEW e \in Email, ByDaemon,
             server[e].life = "live", server'[e].life = "gone"
      PROVE  e \in asked
  <2>1. tick.pc = "set" /\ e \in tick.changed /\ server'[e] = WrittenBack(e)
    BY <1>1, OnlySetPushes
  <2>2. IsDestroy(tick.seen[e])
    <3>1. server[e] \in Message
      BY <1>1 DEF TypeOK
    <3> QED BY <1>1, <2>1, <3>1 DEF WrittenBack, Message
  <2>3. tick.seen[e] = file[e] /\ (file[e] = NoFile => e \in asked)
    BY <1>1, <2>1 DEF SafetyInv, PushOK
  <2> QED BY <1>1, <2>2, <2>3 DEF SafetyInv, FilesOK, IsDestroy
<1>2. TypeOK /\ SafetyInv /\ [Next]_vars =>
        [\A e \in Email :
           (ByDaemon /\ server[e].life = "live" /\ server'[e].life = "gone") => e \in asked]_vars
  BY <1>1
<1> QED BY <1>2, SafetyCorrect, TypeCorrect, PTL DEF Spec, DestroyOnlyOnRequest

\* And no keyword is changed upstream but by an edit of the user's that is not
\* settled: none is pushed again once its push has been acknowledged, or once
\* a value of the server's has replaced it in the file.
THEOREM PatchesAreEdits ==
    ASSUME Orderly PROVE Spec => PatchesComeFromUser
<1>1. ASSUME TypeOK, SafetyInv, [Next]_vars, NEW e \in Email, ByDaemon,
             server[e].life = "live", server'[e].life = "live",
             NEW k \in Keyword, (k \in server[e].kw) # (k \in server'[e].kw)
      PROVE  <<e, k, k \in server'[e].kw>> \in touched
  <2>1. tick.pc = "set" /\ e \in tick.changed /\ server'[e] = WrittenBack(e)
    BY <1>1, OnlySetPushes
  <2>2. ~IsDestroy(tick.seen[e]) /\ tick.seen[e] # NoFile
    BY <1>1, <2>1 DEF WrittenBack, IsDestroy
  <2>3. server'[e].kw = Patched(server[e].kw, tick.local[e].kw, tick.seen[e].flags)
    <3>1. server[e] \in Message
      BY <1>1 DEF TypeOK
    <3> QED BY <2>1, <2>2, <3>1 DEF WrittenBack, Message
  <2>4. tick.seen[e] = file[e] /\ Explains(e, file[e], tick.local[e].kw)
    BY <1>1, <2>1, <2>2 DEF SafetyInv, PushOK
  <2>5. /\ k \in Standard
        /\ (k \in file[e].flags) # (k \in tick.local[e].kw)
        /\ (k \in server'[e].kw) = (k \in file[e].flags)
    BY <1>1, <2>3, <2>4 DEF Patched
  <2>6. <<e, k, k \in file[e].flags>> \in touched
    BY <2>4, <2>5 DEF Explains
  <2>7. <<e, k, k \in server'[e].kw>> = <<e, k, k \in file[e].flags>>
    BY <2>5
  <2> QED BY <2>6, <2>7
<1>2. TypeOK /\ SafetyInv /\ [Next]_vars =>
        [\A e \in Email :
           (ByDaemon /\ server[e].life = "live" /\ server'[e].life = "live") =>
              \A k \in Keyword : (k \in server[e].kw) # (k \in server'[e].kw) =>
                 <<e, k, k \in server'[e].kw>> \in touched]_vars
  BY <1>1
<1> QED BY <1>2, SafetyCorrect, TypeCorrect, PTL DEF Spec, PatchesComeFromUser

=============================================================================
