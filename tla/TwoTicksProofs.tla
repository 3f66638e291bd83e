---------------------------- MODULE TwoTicksProofs ----------------------------
(***************************************************************************)
(* Theorems about TwoTicks: its types; that no interleaving of the two     *)
(* processes leaves a row behind whose file is gone, unless one dies; that *)
(* ticks which never overlap destroy nothing; and that one tick of the     *)
(* daemon alone repairs whatever came before it.                           *)
(***************************************************************************)
EXTENDS TwoTicks, TLAPS

(***************************************************************************)
(* Types                                                                   *)
(***************************************************************************)
Holding == {"set", "reconcile", "insert", "rename", "update", "clear", "join", "drop"}
Writing == {"insert", "rename", "update", "clear", "join"}
Returns == {"idle", "query", "deletes", "get"}

\* What a step relies on in the locals of its own tick.
Sound(t) ==
    /\ t \in Tick
    /\ t.pc \in Holding => t.local # NoRow
    /\ t.pc = "drop" => t.back \in Returns
    /\ t.pc = "apply" => t.got \in Message
    /\ t.pc \in Writing => t.got \in Message /\ t.got.in \in Box

StoresOK ==
    /\ server \in Message \cup {Gone}
    /\ file \in [Base -> Path \cup {NoFile}]
    /\ row \in Row \cup {NoRow}
    /\ bases \in 0 .. MaxBase

OthersOK ==
    /\ spent \in Spent /\ calm \in BOOLEAN /\ overlap \in BOOLEAN
    /\ torn \subseteq Base

TicksOK == tick \in [Process -> Tick] /\ \A p \in Process : Sound(tick[p])

TypeInv == StoresOK /\ OthersOK /\ TicksOK

\* A step of one process leaves the other's locals alone.
LEMMA StepSound ==
    ASSUME TicksOK, NEW p \in Process, NEW t, Sound(t), Becomes(p, t)
    PROVE  TicksOK'
BY DEF TicksOK, Becomes, Sound

LEMMA IdleSound == Sound(Idle)
BY DEF Sound, Idle, Tick, Pcs, Holding, Writing, Returns

LEMMA EndSound == ASSUME TicksOK, NEW p \in Process, End(p) PROVE TicksOK'
BY IdleSound, StepSound DEF End

LEMMA GotoSound ==
    ASSUME TicksOK, NEW p \in Process, NEW pc \in Pcs \ {"drop"}, Goto(p, pc),
           pc \in Holding => Local(p) # NoRow,
           pc = "apply" => tick[p].got \in Message,
           pc \in Writing => tick[p].got \in Message /\ tick[p].got.in \in Box
    PROVE  TicksOK'
<1>1. tick[p] \in Tick
  BY DEF TicksOK
<1>2. Sound([tick[p] EXCEPT !.pc = pc])
  BY <1>1 DEF Sound, Tick, Local
<1> QED BY <1>2, StepSound DEF Goto

LEMMA TargetType ==
    ASSUME NEW p \in Process, tick[p].got \in Message, tick[p].got.in \in Box
    PROVE  Target(p) \in Path
BY DEF Target, Path, Message

LEMMA LocalType == ASSUME TicksOK, NEW p \in Process, Local(p) # NoRow PROVE Local(p) \in Row
BY DEF TicksOK, Tick, Local

LEMMA UpdateType ==
    ASSUME StoresOK, NEW p \in Process, NEW path \in Path, UpdateRow(p, path)
    PROVE  row' \in Row \cup {NoRow} /\ torn' \subseteq torn
BY DEF StoresOK, UpdateRow, SameRow, Row

LEMMA RemoveType ==
    ASSUME TypeInv, NEW p \in Process, Local(p) # NoRow,
           NEW back \in Returns, Remove(p, back)
    PROVE  TypeInv'
<1> USE DEF history
<1>1. tick[p] \in Tick
  BY DEF TypeInv, TicksOK
<1>2. Sound([tick[p] EXCEPT !.pc = "drop", !.back = back])
  BY <1>1 DEF Sound, Tick, Pcs, Local, Holding, Writing, Returns
<1>3. TicksOK'
  BY <1>2, StepSound DEF Remove, TypeInv
<1>4. StoresOK' /\ OthersOK'
  BY DEF Remove, RemoveFile, TypeInv, StoresOK, OthersOK
<1> QED BY <1>3, <1>4 DEF TypeInv

LEMMA TypeInit == Init => TypeInv
<1> SUFFICES ASSUME Init PROVE TypeInv
  OBVIOUS
<1>1. PICK m \in [in : Box, kw : {{}}] : server = m
  BY DEF Init
<1>2. server \in Message /\ server.in \in Box
  BY <1>1 DEF Message
<1>3. 1 \in Base
  BY BoundsAssumption DEF Base
<1>4. Mirror(server).path \in Path /\ Mirror(server) \in Row
  BY <1>2, <1>3 DEF Mirror, Path, Row, Message
<1>5. StoresOK
  BY <1>2, <1>3, <1>4, BoundsAssumption DEF Init, StoresOK
<1>6. spent \in Spent
  BY BoundsAssumption DEF Init, Spent
<1>9. OthersOK
  BY <1>6 DEF Init, OthersOK
<1>7. Idle \in Tick
  BY IdleSound DEF Sound
<1>8. TicksOK
  BY <1>7, IdleSound DEF Init, TicksOK
<1> QED BY <1>5, <1>9, <1>8 DEF TypeInv

LEMMA TypeNext == TypeInv /\ [Next]_vars => TypeInv'
<1> SUFFICES ASSUME TypeInv, [Next]_vars PROVE TypeInv'
  OBVIOUS
<1> USE DEF history
<1> StoresOK /\ OthersOK /\ TicksOK
  BY DEF TypeInv
<1> USE DEF TypeInv
<1>0. \A p \in Process : Sound(tick[p]) /\ tick[p] \in Tick
  BY DEF TicksOK
<1>p. ASSUME NEW p \in Process, Push(p) PROVE server' \in Message \cup {Gone}
  BY <1>p, <1>0, LocalType DEF Push, StoresOK, Patched, Sound, Tick, Holding, Local, At,
     Row, Path, Message
<1>1. ASSUME NEW p \in Process, Start(p) PROVE TypeInv'
  <2>1. Sound([Idle EXCEPT !.pc = "orphans",
                           !.local = IF row # NoRow /\ row.members = {} THEN row ELSE NoRow])
    BY IdleSound DEF Sound, Tick, Pcs, Holding, Writing, Returns, Idle, StoresOK
  <2>2. TicksOK'
    BY <1>1, <2>1, StepSound DEF Start
  <2>3. StoresOK' /\ OthersOK'
    BY <1>1, BoundsAssumption DEF Start, StoresOK, OthersOK, stores, Spent
  <2> QED BY <2>2, <2>3
<1>2. ASSUME NEW p \in Process, CleanupOrphan(p) PROVE TypeInv'
  <2>1. Remove(p, "query") /\ Local(p) # NoRow
    BY <1>2 DEF CleanupOrphan
  <2>2. "query" \in Returns
    BY DEF Returns
  <2> QED BY <2>1, <2>2, RemoveType
<1>3. ASSUME NEW p \in Process, NoOrphan(p) PROVE TypeInv'
  <2>1. TicksOK'
    BY <1>3, <1>0, GotoSound DEF NoOrphan, Sound, Pcs, Holding, Writing, Local, At
  <2>2. StoresOK' /\ OthersOK'
    BY <1>3 DEF NoOrphan, StoresOK, OthersOK, stores
  <2> QED BY <2>1, <2>2
<1>4. ASSUME NEW p \in Process, Query(p) PROVE TypeInv'
  <2>1. Sound([tick[p] EXCEPT !.pc = "rows", !.listed = server # Gone /\ server.in \in Box])
    BY <1>0 DEF Sound, Tick, Pcs, Holding, Writing, Returns
  <2>2. TicksOK'
    BY <1>4, <2>1, StepSound DEF Query
  <2>3. StoresOK' /\ OthersOK'
    BY <1>4 DEF Query, StoresOK, OthersOK, stores
  <2> QED BY <2>2, <2>3
<1>5. ASSUME NEW p \in Process, ReadRows(p) PROVE TypeInv'
  <2>1. Sound([tick[p] EXCEPT !.pc = "detect", !.local = row])
    BY <1>0 DEF Sound, Tick, Pcs, Holding, Writing, Returns, StoresOK
  <2>2. TicksOK'
    BY <1>5, <2>1, StepSound DEF ReadRows
  <2>3. StoresOK' /\ OthersOK'
    BY <1>5 DEF ReadRows, StoresOK, OthersOK, stores
  <2> QED BY <2>2, <2>3
<1>6. ASSUME NEW p \in Process, Detect(p) PROVE TypeInv'
  <2> DEFINE found == IF Local(p) = NoRow THEN NoFile ELSE Resolve(Local(p))
             changed == /\ Local(p) # NoRow
                        /\ found = NoFile \/ found.flags # Local(p).path.flags
  <2>1. found \in Path \cup {NoFile}
    BY LocalType DEF Resolve, StoresOK, Row
  <2>2. Sound([tick[p] EXCEPT !.pc = IF changed THEN "set" ELSE "deletes", !.found = found])
    BY <2>1, <1>0, ZenonT(30) DEF Sound, Tick, Pcs, Holding, Writing, Returns, Local
  <2>3. TicksOK'
    BY <1>6, <2>2, StepSound DEF Detect
  <2>4. StoresOK' /\ OthersOK'
    BY <1>6 DEF Detect, StoresOK, OthersOK, stores
  <2> QED BY <2>3, <2>4
<1>7. ASSUME NEW p \in Process, SetEmail(p) PROVE TypeInv'
  <2>1. TicksOK'
    BY <1>7, <1>0, GotoSound DEF SetEmail, Push, Sound, Pcs, Holding, Writing, Local, At
  <2>2. server' \in Message \cup {Gone}
    BY <1>7, <1>p DEF SetEmail
  <2>3. StoresOK' /\ OthersOK'
    BY <1>7, <2>2 DEF SetEmail, StoresOK, OthersOK
  <2> QED BY <2>1, <2>3
<1>8. ASSUME NEW p \in Process, SetRejected(p) PROVE TypeInv'
  <2>1. TicksOK'
    BY <1>8, <1>0, GotoSound DEF SetRejected, Sound, Pcs, Holding, Writing, Local, At
  <2>2. StoresOK' /\ OthersOK'
    BY <1>8 DEF SetRejected, StoresOK, OthersOK, stores
  <2> QED BY <2>1, <2>2
<1>9. ASSUME NEW p \in Process, ReconcileDestroyed(p) PROVE TypeInv'
  <2>1. Sound([tick[p] EXCEPT !.pc = "drop", !.back = "deletes", !.listed = FALSE])
    BY <1>9, <1>0 DEF ReconcileDestroyed, Sound, Tick, Pcs, Holding, Writing, Returns, At
  <2>2. TicksOK'
    BY <1>9, <2>1, StepSound DEF ReconcileDestroyed
  <2>3. StoresOK' /\ OthersOK'
    BY <1>9 DEF ReconcileDestroyed, RemoveFile, StoresOK, OthersOK, stores
  <2> QED BY <2>2, <2>3
<1>10. ASSUME NEW p \in Process, ReconcileUpdated(p) PROVE TypeInv'
  <2>1. Local(p) \in Row /\ tick[p].found \in Path
    BY <1>10, <1>0, LocalType DEF ReconcileUpdated, Sound, Tick, Holding, At, Local
  <2>2. Sound([tick[p] EXCEPT !.pc = "deletes", !.local.path = tick[p].found])
    BY <2>1, <1>0 DEF Sound, Tick, Pcs, Holding, Writing, Returns, Local, Row
  <2>3. TicksOK'
    BY <1>10, <2>2, StepSound DEF ReconcileUpdated
  <2>4. row' \in Row \cup {NoRow} /\ torn' \subseteq torn
    BY <1>10, <2>1, UpdateType DEF ReconcileUpdated
  <2>5. StoresOK' /\ OthersOK'
    BY <1>10, <2>4 DEF ReconcileUpdated, StoresOK, OthersOK
  <2> QED BY <2>3, <2>5
<1>11. ASSUME NEW p \in Process, DeleteGone(p) PROVE TypeInv'
  <2>1. Remove(p, "get") /\ Local(p) # NoRow
    BY <1>11 DEF DeleteGone
  <2>2. "get" \in Returns
    BY DEF Returns
  <2> QED BY <2>1, <2>2, RemoveType
<1>12. ASSUME NEW p \in Process, NothingGone(p) PROVE TypeInv'
  <2>1. TicksOK'
    BY <1>12, <1>0, GotoSound DEF NothingGone, Sound, Pcs, Holding, Writing, Local, At
  <2>2. StoresOK' /\ OthersOK'
    BY <1>12 DEF NothingGone, StoresOK, OthersOK, stores
  <2> QED BY <2>1, <2>2
<1>13. ASSUME NEW p \in Process, Drop(p) PROVE TypeInv'
  <2>1. tick[p].back \in Returns
    BY <1>13, <1>0 DEF Drop, Sound, At
  <2>2. Sound([tick[p] EXCEPT !.pc = tick[p].back, !.local = NoRow])
    BY <2>1, <1>0 DEF Sound, Tick, Pcs, Holding, Writing, Returns
  <2>3. TicksOK'
    BY <1>13, <2>2, StepSound DEF Drop
  <2>4. StoresOK' /\ OthersOK'
    BY <1>13 DEF Drop, StoresOK, OthersOK, SameRow
  <2> QED BY <2>3, <2>4
<1>14. ASSUME NEW p \in Process, Get(p) PROVE TypeInv'
  <2>1. server # Gone => Sound([tick[p] EXCEPT !.pc = "apply", !.got = server])
    BY <1>0 DEF Sound, Tick, Pcs, Holding, Writing, Returns, StoresOK
  <2>2. TicksOK'
    BY <1>14, <2>1, StepSound, EndSound DEF Get
  <2>3. StoresOK' /\ OthersOK'
    BY <1>14 DEF Get, StoresOK, OthersOK, stores
  <2> QED BY <2>2, <2>3
<1>15. ASSUME NEW p \in Process, OutOfScope(p) PROVE TypeInv'
  <2>1. CASE Local(p) # NoRow /\ Remove(p, "idle")
    <3>1. "idle" \in Returns
      BY DEF Returns
    <3> QED BY <2>1, <3>1, RemoveType
  <2>2. CASE End(p) /\ UNCHANGED <<stores, spent, history>>
    <3>1. TicksOK'
      BY <2>2, EndSound
    <3>2. StoresOK' /\ OthersOK'
      BY <2>2 DEF StoresOK, OthersOK, stores
    <3> QED BY <3>1, <3>2
  <2> QED BY <1>15, <2>1, <2>2 DEF OutOfScope
<1>16. ASSUME NEW p \in Process, Download(p) PROVE TypeInv'
  <2>1. Target(p) \in Path
    BY <1>16, <1>0, TargetType DEF Download, InScope, Sound, At
  <2>2. bases' \in Base /\ bases' \in 0 .. MaxBase
    BY <1>16, BoundsAssumption DEF Download, StoresOK, Base
  <2>3. [base |-> bases', path |-> Target(p), members |-> {}] \in Row
    BY <2>1, <2>2 DEF Row
  <2>4. Sound([tick[p] EXCEPT !.pc = "insert",
                           !.local = [base |-> bases', path |-> Target(p), members |-> {}]])
    BY <1>16, <2>3, <1>0, NamesAssumption, ZenonT(30)
       DEF Download, InScope, Sound, Tick, Pcs, Holding, Writing, Returns, At
  <2>5. TicksOK'
    BY <1>16, <2>4, StepSound DEF Download
  <2>6. StoresOK' /\ OthersOK'
    BY <1>16, <2>1, <2>2 DEF Download, StoresOK, OthersOK
  <2> QED BY <2>5, <2>6
<1>17. ASSUME NEW p \in Process, DownloadFails(p) PROVE TypeInv'
  <2>1. TicksOK'
    BY <1>17, EndSound DEF DownloadFails
  <2>2. StoresOK' /\ OthersOK'
    BY <1>17 DEF DownloadFails, StoresOK, OthersOK, stores
  <2> QED BY <2>1, <2>2
<1>18. ASSUME NEW p \in Process, InsertRow(p) PROVE TypeInv'
  <2>1. Local(p) \in Row
    BY <1>18, <1>0, LocalType DEF InsertRow, Sound, Holding, Local, At
  <2>2. "join" \in Pcs \ {"drop"}
    BY DEF Pcs
  <2>3. Goto(p, "join") => TicksOK'
    BY <1>18, <1>0, <2>2, GotoSound DEF InsertRow, Sound, Holding, Writing, Local, At
  <2>4. TicksOK'
    BY <1>18, <2>3, EndSound DEF InsertRow
  <2>5. StoresOK' /\ OthersOK'
    BY <1>18, <2>1 DEF InsertRow, StoresOK, OthersOK
  <2> QED BY <2>4, <2>5
<1>19. ASSUME NEW p \in Process, Compare(p) PROVE TypeInv'
  <2>1. tick[p].got \in Message /\ tick[p].got.in \in Box /\ Local(p) # NoRow
    BY <1>19, <1>0 DEF Compare, InScope, Sound, At
  <2>2. {"update", "rename"} \subseteq Pcs \ {"drop"}
    BY DEF Pcs
  <2>3. Goto(p, "update") \/ Goto(p, "rename") => TicksOK'
    BY <2>1, <2>2, GotoSound
  <2>4. End(p) \/ Goto(p, "update") \/ Goto(p, "rename")
    BY <1>19 DEF Compare
  <2>5. TicksOK'
    BY <2>3, <2>4, EndSound
  <2>6. StoresOK' /\ OthersOK'
    BY <1>19 DEF Compare, StoresOK, OthersOK, stores
  <2> QED BY <2>5, <2>6
<1>20. ASSUME NEW p \in Process, Rename(p) PROVE TypeInv'
  <2>1. tick[p].got \in Message /\ tick[p].got.in \in Box /\ Local(p) # NoRow
    BY <1>20, <1>0 DEF Rename, Sound, At, Local, Writing, Holding
  <2>2. "update" \in Pcs \ {"drop"}
    BY DEF Pcs
  <2>3. Goto(p, "update") => TicksOK'
    BY <2>1, <2>2, GotoSound
  <2>4. TicksOK'
    BY <1>20, <2>3, EndSound DEF Rename
  <2>5. Target(p) \in Path
    BY <2>1, TargetType
  <2>6. StoresOK' /\ OthersOK'
    BY <1>20, <2>5 DEF Rename, StoresOK, OthersOK
  <2> QED BY <2>4, <2>6
<1>21. ASSUME NEW p \in Process, Update(p) PROVE TypeInv'
  <2>1. tick[p].got \in Message /\ tick[p].got.in \in Box /\ Local(p) # NoRow
    BY <1>21, <1>0 DEF Update, Sound, At, Local, Writing, Holding
  <2>2. "clear" \in Pcs \ {"drop"}
    BY DEF Pcs
  <2>3. TicksOK'
    BY <1>21, <2>1, <2>2, GotoSound DEF Update
  <2>4. Target(p) \in Path
    BY <2>1, TargetType
  <2>5. row' \in Row \cup {NoRow} /\ torn' \subseteq torn
    BY <1>21, <2>4, UpdateType DEF Update
  <2>6. StoresOK' /\ OthersOK'
    BY <1>21, <2>5 DEF Update, StoresOK, OthersOK
  <2> QED BY <2>3, <2>6
<1>22. ASSUME NEW p \in Process, ClearMembers(p) PROVE TypeInv'
  <2>1. tick[p].got \in Message /\ tick[p].got.in \in Box /\ Local(p) # NoRow
    BY <1>22, <1>0 DEF ClearMembers, Sound, At, Local, Writing, Holding
  <2>2. "join" \in Pcs \ {"drop"}
    BY DEF Pcs
  <2>3. TicksOK'
    BY <1>22, <2>1, <2>2, GotoSound DEF ClearMembers
  <2>4. StoresOK' /\ OthersOK'
    BY <1>22 DEF ClearMembers, StoresOK, OthersOK, SameRow, Row
  <2> QED BY <2>3, <2>4
<1>23. ASSUME NEW p \in Process, InsertMember(p) PROVE TypeInv'
  <2>1. tick[p].got.in \in Box
    BY <1>23, <1>0 DEF InsertMember, Sound, At, Writing
  <2>2. TicksOK'
    BY <1>23, EndSound DEF InsertMember
  <2>3. StoresOK' /\ OthersOK'
    BY <1>23, <2>1 DEF InsertMember, StoresOK, OthersOK, SameRow, Row
  <2> QED BY <2>2, <2>3
<1>24. ASSUME NEW p \in Process, RequestFails(p) PROVE TypeInv'
  <2>1. TicksOK'
    BY <1>24, EndSound DEF RequestFails
  <2>2. spent' \in Spent
    BY <1>24, BoundsAssumption DEF RequestFails, OthersOK, Spent
  <2>3. StoresOK' /\ OthersOK'
    BY <1>24, <2>2 DEF RequestFails, StoresOK, OthersOK, stores
  <2> QED BY <2>1, <2>3
<1>27. ASSUME NEW p \in Process, SetReplyLost(p) PROVE TypeInv'
  <2>1. TicksOK'
    BY <1>27, EndSound DEF SetReplyLost
  <2>2. spent' \in Spent
    BY <1>27, BoundsAssumption DEF SetReplyLost, OthersOK, Spent
  <2>3. server' \in Message \cup {Gone}
    BY <1>27, <1>p DEF SetReplyLost
  <2>4. StoresOK' /\ OthersOK'
    BY <1>27, <2>2, <2>3 DEF SetReplyLost, StoresOK, OthersOK
  <2> QED BY <2>1, <2>4
<1>28. ASSUME NEW p \in Process, Die(p) PROVE TypeInv'
  <2>1. TicksOK'
    BY <1>28, EndSound DEF Die
  <2>2. spent' \in Spent
    BY <1>28, BoundsAssumption DEF Die, OthersOK, Spent
  <2>3. torn' \subseteq Base
    <3>1. Tearing(p) => Local(p) \in Row
      BY <1>0, LocalType DEF Tearing, Sound, Holding, Local
    <3> QED BY <1>28, <3>1 DEF Die, OthersOK, Row
  <2>4. StoresOK' /\ OthersOK'
    BY <1>28, <2>2, <2>3 DEF Die, StoresOK, OthersOK, stores
  <2> QED BY <2>1, <2>4
<1>25. CASE ServerEdit
  <2>1. server' \in Message \cup {Gone}
    BY <1>25 DEF ServerEdit, StoresOK, Message
  <2>2. spent' \in Spent
    BY <1>25, BoundsAssumption DEF ServerEdit, OthersOK, Spent
  <2>3. StoresOK' /\ OthersOK'
    BY <1>25, <2>1, <2>2 DEF ServerEdit, StoresOK, OthersOK
  <2>4. TicksOK'
    BY <1>25 DEF ServerEdit, TicksOK, Sound
  <2> QED BY <2>3, <2>4
<1>26. CASE UNCHANGED vars
  BY <1>26 DEF vars, stores, StoresOK, OthersOK, TicksOK, Sound
<1> QED
  BY <1>1, <1>2, <1>3, <1>4, <1>5, <1>6, <1>7, <1>8, <1>9, <1>10, <1>11, <1>12, <1>13,
     <1>14, <1>15, <1>16, <1>17, <1>18, <1>19, <1>20, <1>21, <1>22, <1>23, <1>24,
     <1>25, <1>26, <1>27, <1>28
  DEF Next, Step

LEMMA TypeAlways == Spec => []TypeInv
BY TypeInit, TypeNext, PTL DEF Spec

\* Every variable keeps its type, for any mailboxes, flags and bounds.
THEOREM TypeCorrect == Spec => []TypeOK
<1>1. TypeInv => TypeOK
  BY DEF TypeInv, TypeOK, StoresOK, OthersOK, TicksOK
<1> QED BY <1>1, TypeAlways, PTL

(***************************************************************************)
(* A row has a file unless a deletion is half done                         *)
(***************************************************************************)
\* Base names are drawn once.
BasesOK ==
    /\ row # NoRow => row.base <= bases
    /\ \A p \in Process : Local(p) # NoRow => Local(p).base <= bases

\* A file that has no row yet is known only to the process that has written it.
OwnOK ==
    \A p \in Process : At(p, "insert") =>
        /\ file[Local(p).base] # NoFile
        /\ row # NoRow => row.base # Local(p).base
        /\ \A q \in Process \ {p} : Local(q) # NoRow => Local(q).base # Local(p).base

FileInv == BasesOK /\ OwnOK /\ RowsKeepFiles

\* What most steps keep: they take no file, name no row that was not there, and
\* neither begin nor end an insertion or a deletion.
Quiet(p) ==
    /\ \A q \in Process \ {p} : tick'[q] = tick[q]
    /\ \/ tick'[p].local = NoRow \/ tick'[p].local = row
       \/ Local(p) # NoRow /\ tick'[p].local.base = Local(p).base
    /\ tick'[p].pc # "insert" /\ ~At(p, "drop")
    /\ bases' = bases
    /\ row' # NoRow => row # NoRow /\ row'.base = row.base
    /\ \A b \in Base : file[b] # NoFile => file'[b] # NoFile
    /\ \A b \in torn \ torn' : file'[b] # NoFile

LEMMA QuietKeeps ==
    ASSUME TypeInv, TypeInv', FileInv, NEW p \in Process, Quiet(p)
    PROVE  FileInv'
<1> USE DEF FileInv, Local, At
<1>1. /\ \/ tick'[p].local = NoRow \/ tick'[p].local = row
         \/ Local(p) # NoRow /\ tick'[p].local.base = Local(p).base
      /\ tick'[p].pc # "insert" /\ ~At(p, "drop")
  BY DEF Quiet
<1>2. \A q \in Process \ {p} : tick'[q] = tick[q]
  BY DEF Quiet
<1>3. BasesOK'
  BY <1>1, <1>2 DEF Quiet, BasesOK
<1>4. \A q \in Process : Local(q) # NoRow => Local(q).base \in Base
  BY LocalType DEF TypeInv, Row
<1>5. OwnOK'
  <2> SUFFICES ASSUME NEW q \in Process, At(q, "insert")'
               PROVE  /\ file'[tick'[q].local.base] # NoFile
                      /\ row' # NoRow => row'.base # tick'[q].local.base
                      /\ \A r \in Process \ {q} : tick'[r].local # NoRow =>
                            tick'[r].local.base # tick'[q].local.base
    BY DEF OwnOK
  <2>1. q # p /\ tick'[q] = tick[q] /\ At(q, "insert")
    BY <1>1, <1>2
  <2>2. Local(q) # NoRow
    BY <2>1 DEF TypeInv, TicksOK, Sound, Holding
  <2>3. file'[tick'[q].local.base] # NoFile
    BY <2>1, <2>2, <1>4 DEF OwnOK, Quiet
  <2>4. row' # NoRow => row'.base # tick'[q].local.base
    BY <2>1 DEF OwnOK, Quiet
  <2>5. ASSUME NEW r \in Process \ {q}, tick'[r].local # NoRow
        PROVE  tick'[r].local.base # tick'[q].local.base
    BY <2>1, <2>5, <1>1, <1>2 DEF OwnOK
  <2> QED BY <2>3, <2>4, <2>5
<1>6. RowsKeepFiles'
  <2> SUFFICES ASSUME row' # NoRow, file'[row'.base] = NoFile, row'.base \notin torn'
               PROVE  \E q \in Process : At(q, "drop")' /\ tick'[q].local.base = row'.base
    BY DEF RowsKeepFiles
  <2>1. row # NoRow /\ row'.base = row.base /\ row.base \in Base
    BY DEF Quiet, TypeInv, StoresOK, Row
  <2>2. file[row.base] = NoFile
    BY <2>1 DEF Quiet
  <2>3. row.base \notin torn
    BY <2>1 DEF Quiet
  <2>4. PICK q \in Process : At(q, "drop") /\ Local(q).base = row.base
    BY <2>1, <2>2, <2>3 DEF RowsKeepFiles
  <2> QED BY <2>1, <2>4, <1>1, <1>2
<1> QED BY <1>3, <1>5, <1>6

\* Taking the file of a row and announcing to drop the row.
Taking(p) ==
    /\ \A q \in Process \ {p} : tick'[q] = tick[q]
    /\ tick'[p].pc = "drop" /\ tick'[p].local = Local(p)
    /\ Local(p) # NoRow /\ ~At(p, "insert") /\ ~At(p, "drop")
    /\ \A b \in Base \ {Local(p).base} : file'[b] = file[b]
    /\ bases' = bases /\ row' = row /\ torn' = torn

LEMMA TakingKeeps ==
    ASSUME TypeInv, TypeInv', FileInv, NEW p \in Process, Taking(p)
    PROVE  FileInv'
<1> USE DEF FileInv, Local, At
<1>1. tick'[p].pc = "drop" /\ tick'[p].local = Local(p)
  BY DEF Taking
<1>2. \A q \in Process \ {p} : tick'[q] = tick[q]
  BY DEF Taking
<1>3. BasesOK'
  BY <1>1, <1>2 DEF Taking, BasesOK
<1>4. OwnOK'
  <2> SUFFICES ASSUME NEW q \in Process, At(q, "insert")'
               PROVE  /\ file'[tick'[q].local.base] # NoFile
                      /\ row' # NoRow => row'.base # tick'[q].local.base
                      /\ \A r \in Process \ {q} : tick'[r].local # NoRow =>
                            tick'[r].local.base # tick'[q].local.base
    BY DEF OwnOK
  <2>1. q # p /\ tick'[q] = tick[q] /\ At(q, "insert")
    BY <1>1, <1>2
  <2>2. Local(q) # NoRow /\ Local(q).base \in Base
    BY <2>1, LocalType DEF TypeInv, TicksOK, Sound, Holding, Row
  <2>3. Local(p).base # Local(q).base
    BY <2>1 DEF OwnOK, Taking
  <2>4. file'[tick'[q].local.base] # NoFile
    BY <2>1, <2>2, <2>3 DEF OwnOK, Taking
  <2>5. \A r \in Process : tick'[r].local = Local(r)
    BY <1>1, <1>2
  <2> QED BY <2>1, <2>4, <2>5 DEF OwnOK, Taking
<1>5. RowsKeepFiles'
  <2> SUFFICES ASSUME row # NoRow, file'[row.base] = NoFile, row.base \notin torn
               PROVE  \E q \in Process : tick'[q].pc = "drop" /\ tick'[q].local.base = row.base
    BY DEF RowsKeepFiles, Taking
  <2>1. CASE row.base = Local(p).base
    BY <2>1, <1>1, <1>2
  <2>2. CASE row.base # Local(p).base
    <3>1. row.base \in Base
      BY DEF TypeInv, StoresOK, Row
    <3>2. file[row.base] = NoFile
      BY <2>2, <3>1 DEF Taking
    <3>3. PICK q \in Process : At(q, "drop") /\ Local(q).base = row.base
      BY <3>2 DEF RowsKeepFiles
    <3> QED BY <3>3, <1>2 DEF Taking
  <2> QED BY <2>1, <2>2
<1> QED BY <1>3, <1>4, <1>5

LEMMA RemoveTakes ==
    ASSUME TypeInv, NEW p \in Process, NEW back, Remove(p, back), Local(p) # NoRow,
           tick[p].pc \in {"orphans", "deletes", "apply"}
    PROVE  Taking(p)
<1>1. tick[p] \in Tick /\ Local(p).base \in Base
  BY LocalType DEF TypeInv, TicksOK, Row
<1>3. /\ \A q \in Process \ {p} : tick'[q] = tick[q]
      /\ tick'[p].pc = "drop" /\ tick'[p].local = Local(p)
  BY <1>1 DEF Remove, Becomes, Tick, Local, TypeInv, TicksOK
<1>4. \A b \in Base \ {Local(p).base} : file'[b] = file[b]
  BY <1>1 DEF Remove, RemoveFile, TypeInv, StoresOK
<1> QED BY <1>3, <1>4 DEF Remove, Taking, At, history

LEMMA FileInit == Init => FileInv
<1> SUFFICES ASSUME Init PROVE FileInv
  OBVIOUS
<1>1. \A p \in Process : Local(p) = NoRow /\ ~At(p, "insert")
  BY DEF Init, Local, At, Idle
<1>2. OwnOK
  BY <1>1 DEF OwnOK
<1>3. 1 \in Base
  BY BoundsAssumption DEF Base
<1>4. BasesOK
  BY <1>1 DEF BasesOK, Init, Mirror
<1>5. TypeInv
  BY TypeInit
<1>6. Mirror(server).path \in Path
  <2>1. server \in [in : Box, kw : {{}}]
    BY DEF Init
  <2> QED BY <2>1 DEF Mirror, Path
<1>7. RowsKeepFiles
  BY <1>3, <1>6, NamesAssumption DEF Init, RowsKeepFiles, Mirror
<1> QED BY <1>2, <1>4, <1>7 DEF FileInv

LEMMA FileNext == TypeInv /\ TypeInv' /\ FileInv /\ [Next]_vars => FileInv'
<1> SUFFICES ASSUME TypeInv, TypeInv', FileInv, [Next]_vars PROVE FileInv'
  OBVIOUS
<1> USE DEF history
<1>0. \A p \in Process : tick[p] \in Tick /\ (Local(p) # NoRow => Local(p) \in Row)
  BY LocalType DEF TypeInv, TicksOK
<1>w. \A p \in Process : tick[p].pc \in Holding => Local(p) # NoRow
  BY DEF TypeInv, TicksOK, Sound, Local
<1>n. Idle.local = NoRow /\ Idle.pc = "idle"
  BY DEF Idle
<1>1. ASSUME NEW p \in Process, Start(p) PROVE FileInv'
  <2>1. /\ \A q \in Process \ {p} : tick'[q] = tick[q]
        /\ \/ tick'[p].local = NoRow \/ tick'[p].local = row
           \/ Local(p) # NoRow /\ tick'[p].local.base = Local(p).base
        /\ tick'[p].pc # "insert" /\ ~At(p, "drop")
    BY <1>1, <1>0, <1>n DEF Start, Becomes, At, Idle, Local, Tick, TypeInv, TicksOK
  <2>2. /\ bases' = bases
        /\ row' # NoRow => row # NoRow /\ row'.base = row.base
        /\ \A b \in Base : file[b] # NoFile => file'[b] # NoFile
        /\ \A b \in torn \ torn' : file'[b] # NoFile
    BY <1>1 DEF Start, stores
  <2>3. Quiet(p)
    BY <2>1, <2>2 DEF Quiet
  <2> QED BY <2>3, QuietKeeps
<1>2. ASSUME NEW p \in Process, CleanupOrphan(p) PROVE FileInv'
  <2>1. Remove(p, "query") /\ Local(p) # NoRow /\ tick[p].pc \in {"orphans", "deletes", "apply"}
    BY <1>2 DEF CleanupOrphan, At
  <2> QED BY <2>1, RemoveTakes, TakingKeeps
<1>3. ASSUME NEW p \in Process, NoOrphan(p) PROVE FileInv'
  <2>1. /\ \A q \in Process \ {p} : tick'[q] = tick[q]
        /\ \/ tick'[p].local = NoRow \/ tick'[p].local = row
           \/ Local(p) # NoRow /\ tick'[p].local.base = Local(p).base
        /\ tick'[p].pc # "insert" /\ ~At(p, "drop")
    BY <1>3, <1>0 DEF NoOrphan, Becomes, Goto, Local, At, Tick, TypeInv, TicksOK
  <2>2. /\ bases' = bases
        /\ row' # NoRow => row # NoRow /\ row'.base = row.base
        /\ \A b \in Base : file[b] # NoFile => file'[b] # NoFile
        /\ \A b \in torn \ torn' : file'[b] # NoFile
    BY <1>3 DEF NoOrphan, Local, stores
  <2>3. Quiet(p)
    BY <2>1, <2>2 DEF Quiet
  <2> QED BY <2>3, QuietKeeps
<1>4. ASSUME NEW p \in Process, Query(p) PROVE FileInv'
  <2>1. /\ \A q \in Process \ {p} : tick'[q] = tick[q]
        /\ \/ tick'[p].local = NoRow \/ tick'[p].local = row
           \/ Local(p) # NoRow /\ tick'[p].local.base = Local(p).base
        /\ tick'[p].pc # "insert" /\ ~At(p, "drop")
    BY <1>4, <1>0 DEF Query, Becomes, At, Local, Tick, TypeInv, TicksOK
  <2>2. /\ bases' = bases
        /\ row' # NoRow => row # NoRow /\ row'.base = row.base
        /\ \A b \in Base : file[b] # NoFile => file'[b] # NoFile
        /\ \A b \in torn \ torn' : file'[b] # NoFile
    BY <1>4 DEF Query, stores
  <2>3. Quiet(p)
    BY <2>1, <2>2 DEF Quiet
  <2> QED BY <2>3, QuietKeeps
<1>5. ASSUME NEW p \in Process, ReadRows(p) PROVE FileInv'
  <2>1. /\ \A q \in Process \ {p} : tick'[q] = tick[q]
        /\ \/ tick'[p].local = NoRow \/ tick'[p].local = row
           \/ Local(p) # NoRow /\ tick'[p].local.base = Local(p).base
        /\ tick'[p].pc # "insert" /\ ~At(p, "drop")
    BY <1>5, <1>0 DEF ReadRows, Becomes, At, Local, Tick, TypeInv, TicksOK
  <2>2. /\ bases' = bases
        /\ row' # NoRow => row # NoRow /\ row'.base = row.base
        /\ \A b \in Base : file[b] # NoFile => file'[b] # NoFile
        /\ \A b \in torn \ torn' : file'[b] # NoFile
    BY <1>5 DEF ReadRows, stores
  <2>3. Quiet(p)
    BY <2>1, <2>2 DEF Quiet
  <2> QED BY <2>3, QuietKeeps
<1>6. ASSUME NEW p \in Process, Detect(p) PROVE FileInv'
  <2>1. /\ \A q \in Process \ {p} : tick'[q] = tick[q]
        /\ \/ tick'[p].local = NoRow \/ tick'[p].local = row
           \/ Local(p) # NoRow /\ tick'[p].local.base = Local(p).base
        /\ tick'[p].pc # "insert" /\ ~At(p, "drop")
    BY <1>6, <1>0 DEF Detect, Becomes, Local, At, Tick, TypeInv, TicksOK
  <2>2. /\ bases' = bases
        /\ row' # NoRow => row # NoRow /\ row'.base = row.base
        /\ \A b \in Base : file[b] # NoFile => file'[b] # NoFile
        /\ \A b \in torn \ torn' : file'[b] # NoFile
    BY <1>6 DEF Detect, Local, stores
  <2>3. Quiet(p)
    BY <2>1, <2>2 DEF Quiet
  <2> QED BY <2>3, QuietKeeps
<1>7. ASSUME NEW p \in Process, SetEmail(p) PROVE FileInv'
  <2>1. /\ \A q \in Process \ {p} : tick'[q] = tick[q]
        /\ \/ tick'[p].local = NoRow \/ tick'[p].local = row
           \/ Local(p) # NoRow /\ tick'[p].local.base = Local(p).base
        /\ tick'[p].pc # "insert" /\ ~At(p, "drop")
    BY <1>7, <1>0 DEF SetEmail, Push, Becomes, Goto, Local, At, Tick, TypeInv, TicksOK
  <2>2. /\ bases' = bases
        /\ row' # NoRow => row # NoRow /\ row'.base = row.base
        /\ \A b \in Base : file[b] # NoFile => file'[b] # NoFile
        /\ \A b \in torn \ torn' : file'[b] # NoFile
    BY <1>7 DEF SetEmail, Local
  <2>3. Quiet(p)
    BY <2>1, <2>2 DEF Quiet
  <2> QED BY <2>3, QuietKeeps
<1>8. ASSUME NEW p \in Process, SetRejected(p) PROVE FileInv'
  <2>1. /\ \A q \in Process \ {p} : tick'[q] = tick[q]
        /\ \/ tick'[p].local = NoRow \/ tick'[p].local = row
           \/ Local(p) # NoRow /\ tick'[p].local.base = Local(p).base
        /\ tick'[p].pc # "insert" /\ ~At(p, "drop")
    BY <1>8, <1>0 DEF SetRejected, Becomes, Goto, At, Local, Tick, TypeInv, TicksOK
  <2>2. /\ bases' = bases
        /\ row' # NoRow => row # NoRow /\ row'.base = row.base
        /\ \A b \in Base : file[b] # NoFile => file'[b] # NoFile
        /\ \A b \in torn \ torn' : file'[b] # NoFile
    BY <1>8 DEF SetRejected, stores
  <2>3. Quiet(p)
    BY <2>1, <2>2 DEF Quiet
  <2> QED BY <2>3, QuietKeeps
<1>9. ASSUME NEW p \in Process, ReconcileDestroyed(p) PROVE FileInv'
  <2>1. Local(p) # NoRow /\ Local(p).base \in Base
    BY <1>9, <1>w, <1>0 DEF ReconcileDestroyed, At, Holding, Row
  <2>2. /\ \A q \in Process \ {p} : tick'[q] = tick[q]
        /\ tick'[p].pc = "drop" /\ tick'[p].local = Local(p)
        /\ ~At(p, "insert") /\ ~At(p, "drop")
    BY <1>9, <1>0 DEF ReconcileDestroyed, Becomes, Tick, TypeInv, TicksOK, Local, At
  <2>3. \A b \in Base \ {Local(p).base} : file'[b] = file[b]
    BY <1>9, <2>1 DEF ReconcileDestroyed, RemoveFile, TypeInv, StoresOK
  <2>4. Taking(p)
    BY <1>9, <2>1, <2>2, <2>3 DEF Taking, ReconcileDestroyed
  <2> QED BY <2>4, TakingKeeps
<1>10. ASSUME NEW p \in Process, ReconcileUpdated(p) PROVE FileInv'
  <2>1. /\ \A q \in Process \ {p} : tick'[q] = tick[q]
        /\ \/ tick'[p].local = NoRow \/ tick'[p].local = row
           \/ Local(p) # NoRow /\ tick'[p].local.base = Local(p).base
        /\ tick'[p].pc # "insert" /\ ~At(p, "drop")
    BY <1>10, <1>0, <1>w DEF ReconcileUpdated, Becomes, UpdateRow, SameRow, Local, At,
       Tick, TypeInv, TicksOK, StoresOK, Row, Holding
  <2>2. /\ bases' = bases
        /\ row' # NoRow => row # NoRow /\ row'.base = row.base
        /\ \A b \in Base : file[b] # NoFile => file'[b] # NoFile
        /\ \A b \in torn \ torn' : file'[b] # NoFile
    BY <1>10 DEF ReconcileUpdated, UpdateRow, SameRow, Local, StoresOK, Row, TypeInv
  <2>3. Quiet(p)
    BY <2>1, <2>2 DEF Quiet
  <2> QED BY <2>3, QuietKeeps
<1>11. ASSUME NEW p \in Process, DeleteGone(p) PROVE FileInv'
  <2>1. Remove(p, "get") /\ Local(p) # NoRow /\ tick[p].pc \in {"orphans", "deletes", "apply"}
    BY <1>11 DEF DeleteGone, At
  <2> QED BY <2>1, RemoveTakes, TakingKeeps
<1>12. ASSUME NEW p \in Process, NothingGone(p) PROVE FileInv'
  <2>1. /\ \A q \in Process \ {p} : tick'[q] = tick[q]
        /\ \/ tick'[p].local = NoRow \/ tick'[p].local = row
           \/ Local(p) # NoRow /\ tick'[p].local.base = Local(p).base
        /\ tick'[p].pc # "insert" /\ ~At(p, "drop")
    BY <1>12, <1>0 DEF NothingGone, Becomes, Goto, Local, At, Tick, TypeInv, TicksOK
  <2>2. /\ bases' = bases
        /\ row' # NoRow => row # NoRow /\ row'.base = row.base
        /\ \A b \in Base : file[b] # NoFile => file'[b] # NoFile
        /\ \A b \in torn \ torn' : file'[b] # NoFile
    BY <1>12 DEF NothingGone, Local, stores
  <2>3. Quiet(p)
    BY <2>1, <2>2 DEF Quiet
  <2> QED BY <2>3, QuietKeeps
<1>13. ASSUME NEW p \in Process, Drop(p) PROVE FileInv'
  <2>1. /\ \A q \in Process \ {p} : tick'[q] = tick[q]
        /\ tick'[p].local = NoRow /\ tick'[p].pc # "insert"
    BY <1>13, <1>0 DEF Drop, Becomes, Tick, TypeInv, TicksOK, Sound, Returns, At
  <2>2. /\ row' = row \/ row' = NoRow
        /\ row' # NoRow => row.base # Local(p).base
        /\ file' = file /\ bases' = bases /\ torn' = torn
    BY <1>13 DEF Drop, SameRow
  <2>3. BasesOK'
    BY <2>1, <2>2 DEF FileInv, BasesOK, Local
  <2>4. OwnOK'
    BY <2>1, <2>2 DEF FileInv, OwnOK, Local, At
  <2>5. RowsKeepFiles'
    BY <2>1, <2>2 DEF FileInv, RowsKeepFiles, Local, At
  <2> QED BY <2>3, <2>4, <2>5 DEF FileInv
<1>14. ASSUME NEW p \in Process, Get(p) PROVE FileInv'
  <2>1. /\ \A q \in Process \ {p} : tick'[q] = tick[q]
        /\ tick'[p] \in {Idle, [tick[p] EXCEPT !.pc = "apply", !.got = server]}
        /\ At(p, "get")
    BY <1>14 DEF Get, Becomes, End, TypeInv, TicksOK
  <2>2. /\ tick'[p].local \in {NoRow, Local(p)}
        /\ tick'[p].pc # "insert" /\ ~At(p, "drop")
    BY <2>1, <1>0, <1>n DEF Tick, Local, At
  <2>3. Quiet(p)
    BY <1>14, <2>1, <2>2 DEF Quiet, Get, stores
  <2> QED BY <2>3, QuietKeeps
<1>15. ASSUME NEW p \in Process, OutOfScope(p) PROVE FileInv'
  <2>1. CASE Local(p) # NoRow /\ Remove(p, "idle")
    BY <1>15, <2>1, RemoveTakes, TakingKeeps DEF OutOfScope, At
  <2>2. CASE End(p) /\ UNCHANGED <<stores, spent, history>>
    <3>1. Quiet(p)
      BY <1>15, <2>2, <1>n DEF OutOfScope, Quiet, End, Becomes, TypeInv, TicksOK, At, stores
    <3> QED BY <3>1, QuietKeeps
  <2> QED BY <1>15, <2>1, <2>2 DEF OutOfScope
<1>16. ASSUME NEW p \in Process, Download(p) PROVE FileInv'
  <2>1. tick[p].got \in Message /\ tick[p].got.in \in Box
    BY <1>16 DEF Download, InScope, TypeInv, TicksOK, Sound, At
  <2>2. Target(p) # NoFile
    BY <2>1, TargetType, NamesAssumption
  <2>3. bases \in Nat /\ bases' = bases + 1 /\ bases' \in Base
    BY <1>16, BoundsAssumption DEF Download, TypeInv, StoresOK, Base
  <2>4. /\ \A q \in Process \ {p} : tick'[q] = tick[q]
        /\ tick'[p].local.base = bases' /\ ~At(p, "drop") /\ row' = row
    BY <1>16, <1>0 DEF Download, InScope, Becomes, Tick, TypeInv, TicksOK, At
  <2>5. file'[bases'] # NoFile /\ \A b \in Base \ {bases'} : file'[b] = file[b]
    BY <1>16, <2>2, <2>3 DEF Download, TypeInv, StoresOK
  <2>6. \A q \in Process : Local(q) # NoRow => Local(q).base \in Base /\ Local(q).base <= bases
    BY <1>0 DEF FileInv, BasesOK, Row
  <2>7. row # NoRow => row.base \in Base /\ row.base <= bases
    BY DEF FileInv, BasesOK, TypeInv, StoresOK, Row
  <2> Base \subseteq Nat
    BY DEF Base
  <2>8. BasesOK'
    <3>1. \A b \in Base : b <= bases => b <= bases'
      BY <2>3
    <3>2. ASSUME NEW q \in Process, tick'[q].local # NoRow PROVE tick'[q].local.base <= bases'
      <4>1. CASE q = p
        BY <4>1, <2>3, <2>4
      <4>2. CASE q # p
        BY <4>2, <3>1, <3>2, <2>4, <2>6 DEF Local
      <4> QED BY <4>1, <4>2
    <3> QED BY <3>1, <3>2, <2>4, <2>7 DEF BasesOK, Local
  <2>9. OwnOK'
    <3> SUFFICES ASSUME NEW q \in Process, tick'[q].pc = "insert"
                 PROVE  /\ file'[tick'[q].local.base] # NoFile
                        /\ row # NoRow => row.base # tick'[q].local.base
                        /\ \A r \in Process \ {q} : tick'[r].local # NoRow =>
                              tick'[r].local.base # tick'[q].local.base
      BY <2>4 DEF OwnOK, Local, At
    <3>1. CASE q = p
      BY <3>1, <2>3, <2>4, <2>5, <2>6, <2>7 DEF Local
    <3>2. CASE q # p
      <4>1. tick'[q] = tick[q] /\ At(q, "insert") /\ Local(q) # NoRow
        BY <3>2, <2>4, <1>w DEF At, Holding
      <4>2. Local(q).base \in Base /\ Local(q).base # bases'
        BY <4>1, <2>3, <2>6
      <4>3. file'[Local(q).base] # NoFile
        BY <4>1, <4>2, <2>5 DEF FileInv, OwnOK
      <4>4. \A r \in Process \ {q} : tick'[r].local # NoRow =>
              tick'[r].local.base # Local(q).base
        BY <4>1, <4>2, <2>4 DEF FileInv, OwnOK, Local
      <4> QED BY <4>1, <4>3, <4>4 DEF FileInv, OwnOK, Local
    <3> QED BY <3>1, <3>2
  <2>10. RowsKeepFiles'
    <3> SUFFICES ASSUME row # NoRow, file'[row.base] = NoFile, row.base \notin torn
                 PROVE  \E q \in Process : tick'[q].pc = "drop" /\ tick'[q].local.base = row.base
      BY <1>16, <2>4 DEF Download, RowsKeepFiles, Local, At
    <3>1. file[row.base] = NoFile
      BY <2>3, <2>5, <2>7
    <3>2. PICK q \in Process : At(q, "drop") /\ Local(q).base = row.base
      BY <3>1 DEF FileInv, RowsKeepFiles
    <3> QED BY <3>2, <2>4 DEF At, Local
  <2> QED BY <2>8, <2>9, <2>10 DEF FileInv
<1>17. ASSUME NEW p \in Process, DownloadFails(p) PROVE FileInv'
  <2>1. /\ \A q \in Process \ {p} : tick'[q] = tick[q]
        /\ \/ tick'[p].local = NoRow \/ tick'[p].local = row
           \/ Local(p) # NoRow /\ tick'[p].local.base = Local(p).base
        /\ tick'[p].pc # "insert" /\ ~At(p, "drop")
    BY <1>17, <1>0, <1>n DEF DownloadFails, Becomes, End, Local, At, InScope, Idle,
       Tick, TypeInv, TicksOK
  <2>2. /\ bases' = bases
        /\ row' # NoRow => row # NoRow /\ row'.base = row.base
        /\ \A b \in Base : file[b] # NoFile => file'[b] # NoFile
        /\ \A b \in torn \ torn' : file'[b] # NoFile
    BY <1>17 DEF DownloadFails, Local, stores
  <2>3. Quiet(p)
    BY <2>1, <2>2 DEF Quiet
  <2> QED BY <2>3, QuietKeeps
<1>18. ASSUME NEW p \in Process, InsertRow(p) PROVE FileInv'
  <2>1. /\ \A q \in Process \ {p} : tick'[q] = tick[q]
        /\ tick'[p].pc \in {"join", "idle"}
        /\ tick'[p].local \in {NoRow, Local(p)}
        /\ At(p, "insert") /\ file' = file /\ bases' = bases /\ torn' = torn
    BY <1>18, <1>0, <1>n DEF InsertRow, Goto, End, Becomes, Tick, TypeInv, TicksOK,
       Local, At
  <2>2. Local(p) # NoRow
    BY <2>1, <1>w DEF At, Holding
  <2>3. row' = row \/ row' = Local(p)
    BY <1>18 DEF InsertRow
  <2>4. BasesOK'
    BY <2>1, <2>2, <2>3 DEF FileInv, BasesOK, Local
  <2>5. OwnOK'
    BY <2>1, <2>2, <2>3 DEF FileInv, OwnOK, Local, At
  <2>6. RowsKeepFiles'
    BY <2>1, <2>2, <2>3 DEF FileInv, OwnOK, RowsKeepFiles, Local, At
  <2> QED BY <2>4, <2>5, <2>6 DEF FileInv
<1>19. ASSUME NEW p \in Process, Compare(p) PROVE FileInv'
  <2>1. /\ End(p) \/ Goto(p, "update") \/ Goto(p, "rename")
        /\ At(p, "apply") /\ row' = row /\ file' = file /\ bases' = bases /\ torn' = torn
    BY <1>19 DEF Compare, InScope, stores
  <2>2. /\ \A q \in Process \ {p} : tick'[q] = tick[q]
        /\ tick'[p].local \in {NoRow, Local(p)}
        /\ tick'[p].pc # "insert" /\ ~At(p, "drop")
    BY <2>1, <1>0, <1>n DEF Goto, End, Becomes, Tick, TypeInv, TicksOK, Local, At
  <2>3. Quiet(p)
    BY <2>1, <2>2 DEF Quiet
  <2> QED BY <2>3, QuietKeeps
<1>20. ASSUME NEW p \in Process, Rename(p) PROVE FileInv'
  <2>0. /\ \A q \in Process \ {p} : tick'[q] = tick[q]
        /\ tick'[p] \in {Idle, [tick[p] EXCEPT !.pc = "update"]}
        /\ At(p, "rename")
    BY <1>20 DEF Rename, Goto, Becomes, End, TypeInv, TicksOK
  <2>1. /\ tick'[p].local \in {NoRow, Local(p)}
        /\ tick'[p].pc # "insert" /\ ~At(p, "drop")
    BY <2>0, <1>0, <1>n DEF Tick, Local, At
  <2>2. Target(p) # NoFile
    BY <1>20, TargetType, NamesAssumption DEF Rename, TypeInv, TicksOK, Sound, Writing, At
  <2>3. \A b \in Base : file[b] # NoFile => file'[b] # NoFile
    BY <1>20, <2>2 DEF Rename, TypeInv, StoresOK
  <2>4. Quiet(p)
    BY <1>20, <2>0, <2>1, <2>3 DEF Rename, Quiet
  <2> QED BY <2>4, QuietKeeps
<1>21. ASSUME NEW p \in Process, Update(p) PROVE FileInv'
  <2>1. /\ \A q \in Process \ {p} : tick'[q] = tick[q]
        /\ \/ tick'[p].local = NoRow \/ tick'[p].local = row
           \/ Local(p) # NoRow /\ tick'[p].local.base = Local(p).base
        /\ tick'[p].pc # "insert" /\ ~At(p, "drop")
    BY <1>21, <1>0, <1>w DEF Update, Becomes, Goto, UpdateRow, SameRow, Local, At, Tick,
       TypeInv, TicksOK, StoresOK, Row, Holding
  <2>2. /\ bases' = bases
        /\ row' # NoRow => row # NoRow /\ row'.base = row.base
        /\ \A b \in Base : file[b] # NoFile => file'[b] # NoFile
        /\ \A b \in torn \ torn' : file'[b] # NoFile
    <3>1. Target(p) # NoFile
      BY <1>21, TargetType, NamesAssumption DEF Update, TypeInv, TicksOK, Sound, Writing, At
    <3> QED BY <1>21, <3>1 DEF Update, UpdateRow, SameRow, Local, StoresOK, Row, TypeInv
  <2>3. Quiet(p)
    BY <2>1, <2>2 DEF Quiet
  <2> QED BY <2>3, QuietKeeps
<1>22. ASSUME NEW p \in Process, ClearMembers(p) PROVE FileInv'
  <2>1. /\ \A q \in Process \ {p} : tick'[q] = tick[q]
        /\ \/ tick'[p].local = NoRow \/ tick'[p].local = row
           \/ Local(p) # NoRow /\ tick'[p].local.base = Local(p).base
        /\ tick'[p].pc # "insert" /\ ~At(p, "drop")
    BY <1>22, <1>0, <1>w DEF ClearMembers, Becomes, Goto, SameRow, Local, At, Tick,
       TypeInv, TicksOK, UpdateRow, StoresOK, Row, Holding
  <2>2. /\ bases' = bases
        /\ row' # NoRow => row # NoRow /\ row'.base = row.base
        /\ \A b \in Base : file[b] # NoFile => file'[b] # NoFile
        /\ \A b \in torn \ torn' : file'[b] # NoFile
    BY <1>22 DEF ClearMembers, SameRow, Local, StoresOK, Row, TypeInv
  <2>3. Quiet(p)
    BY <2>1, <2>2 DEF Quiet
  <2> QED BY <2>3, QuietKeeps
<1>23. ASSUME NEW p \in Process, InsertMember(p) PROVE FileInv'
  <2>1. /\ \A q \in Process \ {p} : tick'[q] = tick[q]
        /\ \/ tick'[p].local = NoRow \/ tick'[p].local = row
           \/ Local(p) # NoRow /\ tick'[p].local.base = Local(p).base
        /\ tick'[p].pc # "insert" /\ ~At(p, "drop")
    BY <1>23, <1>0, <1>n, <1>w DEF InsertMember, Becomes, End, SameRow, Local, At, Idle,
       Tick, TypeInv, TicksOK, UpdateRow, StoresOK, Row, Holding
  <2>2. /\ bases' = bases
        /\ row' # NoRow => row # NoRow /\ row'.base = row.base
        /\ \A b \in Base : file[b] # NoFile => file'[b] # NoFile
        /\ \A b \in torn \ torn' : file'[b] # NoFile
    BY <1>23 DEF InsertMember, SameRow, Local, StoresOK, Row, TypeInv
  <2>3. Quiet(p)
    BY <2>1, <2>2 DEF Quiet
  <2> QED BY <2>3, QuietKeeps
<1>24. ASSUME NEW p \in Process, RequestFails(p) PROVE FileInv'
  <2>1. /\ \A q \in Process \ {p} : tick'[q] = tick[q]
        /\ \/ tick'[p].local = NoRow \/ tick'[p].local = row
           \/ Local(p) # NoRow /\ tick'[p].local.base = Local(p).base
        /\ tick'[p].pc # "insert" /\ ~At(p, "drop")
    BY <1>24, <1>0, <1>n DEF RequestFails, Becomes, End, Idle, Local, At, Tick, TypeInv,
       TicksOK
  <2>2. /\ bases' = bases
        /\ row' # NoRow => row # NoRow /\ row'.base = row.base
        /\ \A b \in Base : file[b] # NoFile => file'[b] # NoFile
        /\ \A b \in torn \ torn' : file'[b] # NoFile
    BY <1>24 DEF RequestFails, stores
  <2>3. Quiet(p)
    BY <2>1, <2>2 DEF Quiet
  <2> QED BY <2>3, QuietKeeps
<1>27. ASSUME NEW p \in Process, SetReplyLost(p) PROVE FileInv'
  <2>1. /\ \A q \in Process \ {p} : tick'[q] = tick[q]
        /\ tick'[p] = Idle /\ ~At(p, "drop")
    BY <1>27 DEF SetReplyLost, Push, Becomes, End, At, TypeInv, TicksOK
  <2>2. UNCHANGED <<file, row, bases, torn>>
    BY <1>27 DEF SetReplyLost
  <2>3. Quiet(p)
    BY <2>1, <2>2, <1>n DEF Quiet
  <2> QED BY <2>3, QuietKeeps
<1>28. ASSUME NEW p \in Process, Die(p) PROVE FileInv'
  <2>1. \A q \in Process \ {p} : tick'[q] = tick[q]
    BY <1>28 DEF Die, Becomes, End, TypeInv, TicksOK
  <2>2. tick'[p].local = NoRow /\ tick'[p].pc = "idle"
    BY <1>28, <1>n DEF Die, Becomes, End, TypeInv, TicksOK
  <2>3. /\ UNCHANGED stores /\ torn \subseteq torn'
        /\ At(p, "drop") /\ ~InPlace(p) => Local(p).base \in torn'
    BY <1>28 DEF Die, Tearing, At
  <2>4. BasesOK' /\ OwnOK'
    BY <2>1, <2>2, <2>3 DEF FileInv, BasesOK, OwnOK, Local, At, stores
  <2>5. RowsKeepFiles'
    <3> SUFFICES ASSUME row # NoRow, file[row.base] = NoFile, row.base \notin torn'
                 PROVE  \E q \in Process : At(q, "drop")' /\ tick'[q].local.base = row.base
      BY <2>3 DEF RowsKeepFiles, Local, stores
    <3>1. PICK q \in Process : At(q, "drop") /\ Local(q).base = row.base
      BY <2>3 DEF FileInv, RowsKeepFiles
    <3>2. Local(q) # NoRow /\ Local(q).path \in Path
      BY <3>1, <1>0, <1>w DEF At, Holding, Row
    <3>3. ~InPlace(q)
      BY <3>1, <3>2, NamesAssumption DEF InPlace
    <3>4. q # p
      BY <2>3, <3>1, <3>3
    <3> QED BY <2>1, <3>1, <3>4 DEF At, Local
  <2> QED BY <2>4, <2>5 DEF FileInv
<1>25. CASE ServerEdit
  BY <1>25 DEF ServerEdit, FileInv, BasesOK, OwnOK, RowsKeepFiles, Local, At
<1>26. CASE UNCHANGED vars
  BY <1>26 DEF vars, stores, history, FileInv, BasesOK, OwnOK, RowsKeepFiles, Local, At
<1> QED
  BY <1>1, <1>2, <1>3, <1>4, <1>5, <1>6, <1>7, <1>8, <1>9, <1>10, <1>11, <1>12, <1>13,
     <1>14, <1>15, <1>16, <1>17, <1>18, <1>19, <1>20, <1>21, <1>22, <1>23, <1>24,
     <1>25, <1>26, <1>27, <1>28
  DEF Next, Step

\* Whatever the two processes take from each other, and however often: whoever
\* removes the file of a row goes on to remove the row.
THEOREM RowsAreBacked == Spec => []RowsKeepFiles
<1>1. FileInv => RowsKeepFiles
  BY DEF FileInv
<1>2. Spec => []FileInv
  BY TypeAlways, FileInit, FileNext, PTL DEF Spec
<1> QED BY <1>1, <1>2, PTL

(***************************************************************************)
(* Ticks one after another, as the lock would have them                    *)
(***************************************************************************)
\* p is the one process that may be in a tick.  The row it has read is the row
\* there is, and the file of an untorn row is where the row says but for the
\* steps that change both.
SerialOK(p) ==
    /\ \A q \in Process \ {p} : At(q, "idle")
    /\ tick[p].pc \in {"detect", "set", "reconcile", "deletes", "get", "apply", "rename", "drop"}
          => Local(p) = row
    /\ tick[p].pc \in {"set", "reconcile"} => row.base \in torn
    /\ At(p, "orphans") => Local(p) \in {NoRow, row}
    /\ At(p, "insert") => row = NoRow /\ file[Local(p).base] = Local(p).path
    /\ At(p, "update") => /\ row # NoRow /\ row.base = Local(p).base /\ row.path = Local(p).path
                          /\ row.base \in torn \/ file[row.base] = Target(p)
    /\ row # NoRow /\ tick[p].pc \notin {"drop", "update"} =>
          row.base \in torn \/ file[row.base] = row.path

SerialInv == ~overlap => \E p \in Process : SerialOK(p)

Act(p) == Start(p) \/ Step(p) \/ RequestFails(p) \/ SetReplyLost(p) \/ Die(p)

LEMMA SerialInit == Init => SerialInv
<1> SUFFICES ASSUME Init PROVE SerialOK("daemon")
  BY DEF SerialInv, Process
<1>1. \A p \in Process : tick[p] = Idle
  BY DEF Init
<1>2. 1 \in Base
  BY BoundsAssumption DEF Base
<1>3. row # NoRow => file[row.base] = row.path
  BY <1>2 DEF Init, Mirror
<1> QED BY <1>1, <1>3 DEF SerialOK, Process, At, Idle

LEMMA SerialStep ==
    ASSUME TypeInv, NEW q \in Process, SerialOK(q), Act(q) \/ ServerEdit \/ UNCHANGED vars
    PROVE  SerialOK(q)'
<1> tick \in [Process -> Tick]
  BY DEF TypeInv, TicksOK
<1>0. tick[q] \in Tick /\ (Local(q) # NoRow => Local(q) \in Row) /\ Idle.pc = "idle"
  BY LocalType DEF TypeInv, TicksOK, Idle
<1>r. row # NoRow => row \in Row /\ row.base \in Base
  BY DEF TypeInv, StoresOK, Row
<1>f. file \in [Base -> Path \cup {NoFile}]
  BY DEF TypeInv, StoresOK
<1>k. tick[q].pc \in Holding => Local(q) # NoRow
  BY DEF TypeInv, TicksOK, Sound, Local
<1> USE DEF SerialOK, At, Local, history
<1>1. ASSUME Start(q) PROVE SerialOK(q)'
  BY <1>1, <1>0, <1>r, <1>f, <1>k
  DEF Start, Becomes, stores, Idle, Target, Tick, Row
<1>2. ASSUME CleanupOrphan(q) PROVE SerialOK(q)'
  BY <1>2, <1>0, <1>r, <1>f, <1>k
  DEF CleanupOrphan, Remove, Becomes, InPlace, Target, Tick, Row
<1>3. ASSUME NoOrphan(q) PROVE SerialOK(q)'
  BY <1>3, <1>0, <1>r, <1>f, <1>k
  DEF NoOrphan, Goto, Becomes, stores, Target, Tick, Row
<1>4. ASSUME Query(q) PROVE SerialOK(q)'
  BY <1>4, <1>0, <1>r, <1>f, <1>k
  DEF Query, Becomes, stores, Target, Tick, Row
<1>5. ASSUME ReadRows(q) PROVE SerialOK(q)'
  BY <1>5, <1>0, <1>r, <1>f, <1>k
  DEF ReadRows, Becomes, stores, Target, Tick, Row
<1>6. ASSUME Detect(q) PROVE SerialOK(q)'
  <2> DEFINE found == IF Local(q) = NoRow THEN NoFile ELSE Resolve(Local(q))
             changed == /\ Local(q) # NoRow
                        /\ found = NoFile \/ found.flags # Local(q).path.flags
  <2>1. Local(q) = row
    BY <1>6 DEF Detect
  <2>2. changed => row # NoRow /\ row.base \in torn
    <3>1. Local(q) # NoRow /\ file[row.base] = row.path => found = Local(q).path
      BY <2>1, <1>0, NamesAssumption DEF Resolve, Row
    <3>2. Local(q) # NoRow => Local(q).path # NoFile
      BY <1>0, NamesAssumption DEF Row
    <3> QED BY <1>6, <2>1, <3>1, <3>2 DEF Detect
  <2>3. /\ tick' = [tick EXCEPT ![q] = [tick[q] EXCEPT !.pc = IF changed THEN "set" ELSE "deletes",
                                                      !.found = found]]
        /\ UNCHANGED <<file, row, torn>>
    BY <1>6 DEF Detect, Becomes, stores
  <2>4. /\ tick'[q].pc = IF changed THEN "set" ELSE "deletes"
        /\ tick'[q].local = row /\ \A o \in Process \ {q} : tick'[o] = tick[o]
    <3> HIDE DEF found, changed
    <3> QED BY <2>1, <2>3, <1>0 DEF Tick
  <2> HIDE DEF found, changed
  <2> QED BY <1>6, <2>2, <2>3, <2>4 DEF Detect
<1>7. ASSUME SetEmail(q) PROVE SerialOK(q)'
  BY <1>7, <1>0 DEF SetEmail, Push, Goto, Becomes, Tick
<1>8. ASSUME SetRejected(q) PROVE SerialOK(q)'
  BY <1>8, <1>0 DEF SetRejected, Goto, Becomes, Tick, stores
<1>9. ASSUME ReconcileDestroyed(q) PROVE SerialOK(q)'
  <2>1. /\ tick'[q].pc = "drop" /\ tick'[q].local = row /\ row' = row
        /\ \A o \in Process \ {q} : tick'[o] = tick[o]
    BY <1>9, <1>0 DEF ReconcileDestroyed, Becomes, Tick
  <2> QED BY <1>9, <2>1
<1>10. ASSUME ReconcileUpdated(q) PROVE SerialOK(q)'
  <2>1. Local(q) = row /\ row.base \in torn /\ row # NoRow /\ row \in Row
    BY <1>10, <1>k, <1>r DEF ReconcileUpdated, Holding
  <2>2. tick' = [tick EXCEPT ![q] = [tick[q] EXCEPT !.pc = "deletes",
                                                    !.local.path = tick[q].found]]
    BY <1>10 DEF ReconcileUpdated, Becomes
  <2>3. /\ tick'[q].pc = "deletes" /\ tick'[q].local = [row EXCEPT !.path = tick[q].found]
        /\ \A o \in Process \ {q} : tick'[o] = tick[o]
    BY <1>0, <2>1, <2>2 DEF Tick
  <2>4. row' = [row EXCEPT !.path = tick[q].found] /\ file' = file
        /\ torn' = IF file[row.base] = tick[q].found THEN torn \ {row.base} ELSE torn
    BY <1>10, <2>1 DEF ReconcileUpdated, UpdateRow, SameRow
  <2>5. row'.base = row.base /\ row'.path = tick[q].found
    BY <2>1, <2>4 DEF Row
  <2> QED BY <2>1, <2>3, <2>4, <2>5
<1>11. ASSUME DeleteGone(q) PROVE SerialOK(q)'
  BY <1>11, <1>0, <1>r, <1>f, <1>k
  DEF DeleteGone, Remove, Becomes, InPlace, Target, Tick, Row
<1>12. ASSUME NothingGone(q) PROVE SerialOK(q)'
  BY <1>12, <1>0, <1>r, <1>f, <1>k
  DEF NothingGone, Goto, Becomes, stores, Target, Tick, Row
<1>13. ASSUME Drop(q) PROVE SerialOK(q)'
  <2>1. tick[q].back \in Returns /\ row = Local(q) /\ Local(q) # NoRow
    BY <1>13, <1>k DEF Drop, TypeInv, TicksOK, Sound, Holding
  <2>2. tick'[q].pc \in Returns /\ tick'[q].local = NoRow /\ row' = NoRow
    BY <1>13, <1>0, <2>1 DEF Drop, Becomes, SameRow, Tick
  <2> QED BY <1>13, <2>2 DEF Drop, Becomes, Returns
<1>14. ASSUME Get(q) PROVE SerialOK(q)'
  <2>1. tick'[q] \in {Idle, [tick[q] EXCEPT !.pc = "apply", !.got = server]}
    BY <1>14 DEF Get, Becomes, End
  <2>a. CASE tick'[q] = Idle
    BY <2>a, <1>14, <1>0 DEF Get, Becomes, End, stores
  <2>b. CASE tick'[q] = [tick[q] EXCEPT !.pc = "apply", !.got = server]
    <3>1. tick'[q].pc = "apply" /\ tick'[q].local = Local(q)
      BY <2>b, <1>0 DEF Tick
    <3> QED BY <1>14, <3>1 DEF Get, Becomes, End, stores
  <2> QED BY <2>1, <2>a, <2>b
<1>15. ASSUME OutOfScope(q) PROVE SerialOK(q)'
  <2>1. CASE Local(q) # NoRow /\ Remove(q, "idle")
    <3>1. tick'[q].pc = "drop" /\ tick'[q].local = Local(q) /\ row' = row
      BY <2>1, <1>0 DEF Remove, Becomes, Tick
    <3> QED BY <1>15, <2>1, <3>1 DEF OutOfScope, Remove, Becomes
  <2>2. CASE End(q) /\ UNCHANGED <<stores, spent, history>>
    BY <1>15, <2>2, <1>0 DEF OutOfScope, End, Becomes, stores
  <2> QED BY <1>15, <2>1, <2>2 DEF OutOfScope
<1>16. ASSUME Download(q) PROVE SerialOK(q)'
  <2>1. /\ tick'[q].pc = "insert"
        /\ tick'[q].local = [base |-> bases', path |-> Target(q), members |-> {}]
    BY <1>16, <1>0 DEF Download, InScope, Becomes, Tick
  <2>2. bases' \in Base /\ row' = NoRow /\ \A o \in Process \ {q} : tick'[o] = tick[o]
    BY <1>16, BoundsAssumption
    DEF Download, InScope, Becomes, Base, TypeInv, StoresOK
  <2>3. file'[bases'] = Target(q)
    BY <1>16, <2>2, <1>f DEF Download
  <2> QED BY <2>1, <2>2, <2>3
<1>17. ASSUME DownloadFails(q) PROVE SerialOK(q)'
  BY <1>17, <1>0, <1>r, <1>f, <1>k
  DEF DownloadFails, End, Becomes, InScope, stores, Idle, Target, Tick, Row
<1>18. ASSUME InsertRow(q) PROVE SerialOK(q)'
  BY <1>18, <1>0, <1>r, <1>f, <1>k
  DEF InsertRow, Goto, End, Becomes, Idle, Target, Tick, Row
<1>19. ASSUME Compare(q) PROVE SerialOK(q)'
  <2>1. row = Local(q) /\ row # NoRow /\ (row.base \in torn \/ InPlace(q))
    BY <1>19 DEF Compare, InScope, InPlace
  <2> DEFINE same == Local(q).path = Target(q)
  <2>2. row' = row /\ file' = file /\ torn' = torn
    BY <1>19 DEF Compare, stores
  <2>3. CASE End(q)
    BY <2>1, <2>2, <2>3, <1>0 DEF End, Becomes, InPlace
  <2>4. CASE Goto(q, "rename")
    <3>1. /\ tick'[q].pc = "rename" /\ tick'[q].local = Local(q)
          /\ \A o \in Process \ {q} : tick'[o] = tick[o]
      BY <2>4, <1>0 DEF Goto, Becomes, Tick
    <3> QED BY <2>1, <2>2, <3>1 DEF InPlace
  <2>5. CASE Goto(q, "update") /\ (same \/ ~InPlace(q))
    <3>1. /\ tick'[q].pc = "update" /\ tick'[q].local = Local(q)
          /\ \A o \in Process \ {q} : tick'[o] = tick[o]
          /\ Target(q)' = Target(q)
      BY <2>5, <1>0 DEF Goto, Becomes, Tick, Target
    <3>2. row.base \in torn \/ file[row.base] = Target(q)
      BY <2>1, <2>5 DEF InPlace
    <3> QED BY <2>1, <2>2, <3>1, <3>2
  <2>6. CASE same
    <3> DEFINE kept == (IF SameRow(q) THEN row.members ELSE {}) = {tick[q].got.in}
    <3>1. (kept => End(q)) /\ (~kept => Goto(q, "update"))
      BY <1>19, <2>6 DEF Compare
    <3> QED BY <2>6, <3>1, <2>3, <2>5
  <2>7. CASE ~same
    <3>1. Goto(q, "rename") \/ (~InPlace(q) /\ Goto(q, "update"))
      BY <1>19, <2>1, <2>7 DEF Compare
    <3> QED BY <3>1, <2>4, <2>5
  <2> QED BY <2>6, <2>7
<1>20. ASSUME Rename(q) PROVE SerialOK(q)'
  <2>1. row = Local(q) /\ row # NoRow /\ row.base \in Base
    BY <1>20, <1>k, <1>r DEF Rename, Holding
  <2>2. CASE InPlace(q)
    <3>1. /\ tick'[q].pc = "update" /\ tick'[q].local = Local(q)
          /\ \A o \in Process \ {q} : tick'[o] = tick[o]
          /\ Target(q)' = Target(q) /\ row' = row /\ torn' = torn
      BY <1>20, <2>2, <1>0 DEF Rename, Goto, Becomes, Tick, Target
    <3>2. file'[row.base] = Target(q)
      BY <1>20, <2>1, <2>2, <1>f DEF Rename
    <3> QED BY <2>1, <3>1, <3>2
  <2>3. CASE ~InPlace(q)
    BY <1>20, <2>1, <2>3, <1>0 DEF Rename, End, Becomes, stores
  <2> QED BY <2>2, <2>3
<1>21. ASSUME Update(q) PROVE SerialOK(q)'
  <2>1. /\ row # NoRow /\ Local(q).base = row.base /\ row \in Row
        /\ row.base \in torn \/ file[row.base] = Target(q)
    BY <1>21, <1>r DEF Update
  <2>2. /\ tick'[q].pc = "clear" /\ \A o \in Process \ {q} : tick'[o] = tick[o]
        /\ file' = file
    BY <1>21, <1>0 DEF Update, Goto, Becomes, Tick
  <2>3. row' = [row EXCEPT !.path = Target(q)]
        /\ torn' = IF file[row.base] = Target(q) THEN torn \ {row.base} ELSE torn
    BY <1>21, <2>1 DEF Update, UpdateRow, SameRow
  <2>4. row'.base = row.base /\ row'.path = Target(q)
    BY <2>1, <2>3 DEF Row
  <2> QED BY <2>1, <2>2, <2>3, <2>4
<1>22. ASSUME ClearMembers(q) PROVE SerialOK(q)'
  BY <1>22, <1>0, <1>r, <1>f, <1>k
  DEF ClearMembers, Goto, Becomes, SameRow, Target, Tick, Row
<1>23. ASSUME InsertMember(q) PROVE SerialOK(q)'
  BY <1>23, <1>0, <1>r, <1>f, <1>k
  DEF InsertMember, End, Becomes, SameRow, Idle, Target, Tick, Row
<1>24. ASSUME RequestFails(q) PROVE SerialOK(q)'
  BY <1>24, <1>0, <1>r, <1>f, <1>k
  DEF RequestFails, End, Becomes, stores, Idle, Target, Tick, Row
<1>25. ASSUME SetReplyLost(q) PROVE SerialOK(q)'
  BY <1>25, <1>0 DEF SetReplyLost, Push, End, Becomes
<1>26. ASSUME Die(q) PROVE SerialOK(q)'
  <2>1. tick'[q] = Idle /\ (\A o \in Process \ {q} : tick'[o] = tick[o])
        /\ UNCHANGED <<file, row>> /\ torn \subseteq torn'
    BY <1>26 DEF Die, End, Becomes, stores
  <2>2. ASSUME row # NoRow PROVE row.base \in torn' \/ file[row.base] = row.path
    <3>1. CASE tick[q].pc \in {"drop", "update"}
      <4>1. row.base = Local(q).base /\ row.path = Local(q).path
        BY <3>1
      <4> QED BY <1>26, <3>1, <4>1 DEF Die, Tearing, InPlace
    <3>2. CASE tick[q].pc \notin {"drop", "update"}
      BY <2>1, <2>2, <3>2
    <3> QED BY <3>1, <3>2
  <2> QED BY <2>1, <2>2, <1>0
<1>27. CASE ServerEdit
  BY <1>27 DEF ServerEdit, Target
<1>28. CASE UNCHANGED vars
  BY <1>28 DEF vars, stores, Target
<1> QED
  BY <1>1, <1>2, <1>3, <1>4, <1>5, <1>6, <1>7, <1>8, <1>9, <1>10, <1>11, <1>12, <1>13,
     <1>14, <1>15, <1>16, <1>17, <1>18, <1>19, <1>20, <1>21, <1>22, <1>23, <1>24,
     <1>25, <1>26, <1>27, <1>28
  DEF Act, Step

\* A tick begins only when no other is on: the process that acts is the one that may.
LEMMA SerialNext == TypeInv /\ SerialInv /\ [Next]_vars => SerialInv'
<1> SUFFICES ASSUME TypeInv, SerialInv, ~overlap', [Next]_vars
             PROVE  \E p \in Process : SerialOK(p)'
  BY DEF SerialInv
<1>0. Idle.pc = "idle" /\ overlap \in BOOLEAN
  BY DEF Idle, TypeInv, OthersOK
<1>1. ~overlap
  <2>1. ASSUME NEW p \in Process, Start(p) PROVE ~overlap
    BY <2>1, <1>0 DEF Start
  <2>2. ASSUME NEW p \in Process, Act(p), ~Start(p) PROVE overlap' = overlap
    BY <2>2
    DEF Act, Step, RequestFails, SetReplyLost, Die, CleanupOrphan, NoOrphan, Query, ReadRows,
        Detect, SetEmail, SetRejected, ReconcileDestroyed, ReconcileUpdated, DeleteGone,
        NothingGone, Drop, Get, OutOfScope, Download, DownloadFails, InsertRow, Compare,
        Rename, Update, ClearMembers, InsertMember, Remove, history
  <2> QED BY <2>1, <2>2 DEF Next, Act, ServerEdit, vars, history
<1>2. PICK p \in Process : SerialOK(p)
  BY <1>1 DEF SerialInv
<1>3. ASSUME NEW q \in Process, Act(q) PROVE SerialOK(q)
  <2>1. CASE q # p
    <3>1. At(q, "idle")
      BY <1>2, <2>1 DEF SerialOK
    <3>2. Start(q)
      BY <1>3, <3>1
      DEF Act, At, Step, RequestFails, SetReplyLost, Push, Die, CleanupOrphan, NoOrphan, Query,
          ReadRows, Detect, SetEmail, SetRejected, ReconcileDestroyed, ReconcileUpdated,
          DeleteGone, NothingGone, Drop, Get, OutOfScope, Download, DownloadFails, InScope,
          InsertRow, Compare, Rename, Update, ClearMembers, InsertMember
    <3>3. \A o \in Process \ {q} : At(o, "idle")
      BY <3>2 DEF Start
    <3> QED BY <1>2, <2>1, <3>1, <3>3 DEF SerialOK, At
  <2> QED BY <1>2, <2>1
<1> QED BY <1>2, <1>3, SerialStep DEF Next, Act

\* The lock would do: ticks that never overlap destroy nothing upstream with a
\* user who leaves the Maildir alone, unless one of them has died between a file
\* operation and the statement that tells the row.
THEOREM SerialTicksAreSafe == Spec => SerialTicksDestroyNothing
<1>1. Spec => []SerialInv
  BY TypeAlways, SerialInit, SerialNext, PTL DEF Spec
<1>2. TypeInv /\ SerialInv /\ [Next]_vars =>
        [ ~overlap /\ ~(row # NoRow /\ row.base \in torn)
          /\ spent'.server = spent.server /\ server # Gone => server' # Gone]_vars
  <2> SUFFICES ASSUME TypeInv, SerialInv, Next, ~overlap, ~(row # NoRow /\ row.base \in torn),
                      spent'.server = spent.server, server # Gone
               PROVE  server' # Gone
    OBVIOUS
  <2>0. PICK p \in Process : SerialOK(p)
    BY DEF SerialInv
  <2>1. CASE ServerEdit
    <3>0. spent \in Spent /\ spent.server \in Nat
      BY BoundsAssumption DEF TypeInv, OthersOK, Spent
    <3>1. spent' = [spent EXCEPT !.server = @ + 1]
      BY <2>1 DEF ServerEdit
    <3>2. spent'.server = spent.server + 1
      BY <3>0, <3>1 DEF Spent
    <3> QED BY <3>0, <3>2
  <2>2. ASSUME NEW q \in Process, Push(q) PROVE FALSE
    <3>1. At(q, "set")
      BY <2>2 DEF Push
    <3>2. q = p
      BY <2>0, <3>1 DEF SerialOK, At
    <3>3. Local(q) = row /\ row.base \in torn
      BY <2>0, <3>1, <3>2 DEF SerialOK, At
    <3>4. Local(q) # NoRow
      BY <3>1 DEF TypeInv, TicksOK, Sound, Holding, At, Local
    <3> QED BY <3>3, <3>4
  <2>3. ASSUME NEW q \in Process, Act(q) PROVE server' = server
    BY <2>2, <2>3
    DEF Act, Start, Step, RequestFails, SetReplyLost, Die, CleanupOrphan, NoOrphan, Query,
        ReadRows, Detect, SetEmail, SetRejected, ReconcileDestroyed, ReconcileUpdated,
        DeleteGone, NothingGone, Drop, Get, OutOfScope, Download, DownloadFails, InsertRow,
        Compare, Rename, Update, ClearMembers, InsertMember, Remove, stores
  <2> QED BY <2>1, <2>3 DEF Next, Act
<1> QED BY <1>1, <1>2, TypeAlways, PTL DEF Spec, SerialTicksDestroyNothing

(***************************************************************************)
(* One tick on its own                                                     *)
(***************************************************************************)
D == "daemon"

\* The tick knows what the server lists, ...
Accurate == tick[D].listed <=> server # Gone /\ server.in \in Box

\* ... or has fetched what it holds.
Current == server # Gone /\ server.in \in Box /\ tick[D].got = server

Backed == row # NoRow => file[row.base] = row.path

\* What an undisturbed tick has made certain by the step it is at, whatever
\* file, row and memberships it began with.
LoneOK ==
    /\ At("sync", "idle")
    /\ At(D, "idle") => InSync
    /\ At(D, "orphans") => Local(D) \in {NoRow, row}
    /\ At(D, "drop") => /\ Local(D) = row
                        /\ \/ tick[D].back = "query"
                           \/ tick[D].back \in {"deletes", "get"} /\ ~tick[D].listed /\ Accurate
    /\ tick[D].pc \in {"rows", "detect", "set", "deletes", "get"} => Accurate
    /\ tick[D].pc \in {"detect", "set", "reconcile", "deletes", "get", "apply", "rename"} =>
          Local(D) = row
    /\ At(D, "set") => tick[D].found = Resolve(row)
    /\ At(D, "reconcile") => /\ tick[D].found = NoFile => server = Gone
                             /\ tick[D].found # NoFile =>
                                   Accurate /\ tick[D].found = file[row.base]
    /\ At(D, "deletes") => ~tick[D].listed \/ Backed
    /\ At(D, "get") => (row # NoRow => tick[D].listed) /\ Backed
    /\ tick[D].pc \in {"apply", "insert", "rename", "update", "clear", "join"} => Current
    /\ tick[D].pc \in {"apply", "rename"} => Backed
    /\ At(D, "insert") => /\ row = NoRow
                          /\ Local(D).path = Target(D) /\ Local(D).members = {}
                          /\ file[Local(D).base] = Target(D)
    /\ tick[D].pc \in {"update", "clear", "join"} => /\ row # NoRow /\ Local(D).base = row.base
                                                     /\ file[row.base] = Target(D)
    /\ tick[D].pc \in {"clear", "join"} => row.path = Target(D)
    /\ At(D, "join") => row.members = {}

LEMMA LoneNext ==
    ASSUME TypeInv, calm => LoneOK, calm', [Next]_vars
    PROVE  LoneOK'
<1> D \in Process /\ tick \in [Process -> Tick] /\ "sync" # D /\ "sync" \in Process
  BY DEF D, Process, TypeInv, TicksOK
<1>0. tick[D] \in Tick /\ (Local(D) # NoRow => Local(D) \in Row) /\ Idle.pc = "idle"
  BY LocalType DEF TypeInv, TicksOK, Idle
<1>r. row # NoRow => row \in Row /\ row.base \in Base
  BY DEF TypeInv, StoresOK, Row
<1>f. file \in [Base -> Path \cup {NoFile}]
  BY DEF TypeInv, StoresOK
<1>k. tick[D].pc \in Holding => Local(D) # NoRow
  BY DEF TypeInv, TicksOK, Sound, Local
<1>m. server \in Message \cup {Gone} /\ Elsewhere \notin Box /\ Gone \notin Message
  BY NamesAssumption DEF TypeInv, StoresOK
<1>s. ASSUME NEW p \in Process, Act(p)
      PROVE  /\ p = D /\ ~RequestFails(p) /\ ~SetReplyLost(p) /\ ~Die(p)
             /\ ~Start(p) => LoneOK
  <2>1. ~RequestFails(p) /\ ~SetReplyLost(p) /\ ~Die(p)
    BY DEF RequestFails, SetReplyLost, Die
  <2>2. p = "sync" => ~Start(p)
    BY DEF Start
  <2>3. ~Start(p) => calm
    BY <1>s, <2>1
    DEF Act, Step, CleanupOrphan, NoOrphan, Query, ReadRows, Detect, SetEmail, SetRejected,
        ReconcileDestroyed, ReconcileUpdated, DeleteGone, NothingGone, Drop, Get, OutOfScope,
        Download, DownloadFails, InsertRow, Compare, Rename, Update, ClearMembers,
        InsertMember, Remove, history
  <2>4. LoneOK => ~Step("sync")
    BY DEF LoneOK, At, Step, CleanupOrphan, NoOrphan, Query, ReadRows, Detect, SetEmail, Push,
           SetRejected, ReconcileDestroyed, ReconcileUpdated, DeleteGone, NothingGone, Drop,
           Get, OutOfScope, Download, DownloadFails, InScope, InsertRow, Compare, Rename,
           Update, ClearMembers, InsertMember
  <2> QED BY <1>s, <2>1, <2>2, <2>3, <2>4 DEF Act, Process, D
<1> USE DEF At, Local
<1>1. ASSUME Start(D) PROVE LoneOK'
  <2>1. /\ tick'[D].pc = "orphans" /\ tick'[D].local \in {NoRow, row}
        /\ tick'["sync"] = tick["sync"] /\ row' = row
    BY <1>1, <1>0, <1>r DEF Start, Becomes, stores, Idle
  <2>2. At("sync", "idle")
    BY <1>1 DEF Start
  <2> QED BY <2>1, <2>2 DEF LoneOK
<1>2. ASSUME LoneOK, CleanupOrphan(D) PROVE LoneOK'
  <2>1. /\ tick'[D].pc = "drop" /\ tick'[D].back = "query" /\ tick'[D].local = tick[D].local
        /\ tick'["sync"] = tick["sync"] /\ row' = row
    BY <1>2, <1>0 DEF CleanupOrphan, Remove, Becomes, Tick
  <2>2. tick[D].local = row
    BY <1>2 DEF CleanupOrphan, LoneOK
  <2> QED BY <1>2, <2>1, <2>2 DEF LoneOK
<1>3. ASSUME LoneOK, NoOrphan(D) PROVE LoneOK'
  <2>1. tick'[D].pc = "query" /\ tick'["sync"] = tick["sync"]
    BY <1>3, <1>0 DEF NoOrphan, Goto, Becomes, Tick
  <2> QED BY <1>3, <2>1 DEF LoneOK
<1>4. ASSUME LoneOK, Query(D) PROVE LoneOK'
  <2>1. /\ tick'[D].pc = "rows" /\ tick'["sync"] = tick["sync"] /\ server' = server
        /\ tick'[D].listed = (server # Gone /\ server.in \in Box)
    BY <1>4, <1>0 DEF Query, Becomes, Tick, stores
  <2> QED BY <1>4, <2>1 DEF LoneOK, Accurate
<1>5. ASSUME LoneOK, ReadRows(D) PROVE LoneOK'
  <2>1. /\ tick'[D].pc = "detect" /\ tick'["sync"] = tick["sync"] /\ server' = server
        /\ tick'[D].listed = tick[D].listed /\ tick'[D].local = row /\ row' = row
    BY <1>5, <1>0 DEF ReadRows, Becomes, Tick, stores
  <2> QED BY <1>5, <2>1 DEF ReadRows, LoneOK, Accurate
<1>6. ASSUME LoneOK, Detect(D) PROVE LoneOK'
  <2> DEFINE found == IF Local(D) = NoRow THEN NoFile ELSE Resolve(Local(D))
             changed == /\ Local(D) # NoRow
                        /\ found = NoFile \/ found.flags # Local(D).path.flags
  <2>1. Local(D) = row /\ Accurate
    BY <1>6 DEF Detect, LoneOK
  <2>2. tick' = [tick EXCEPT ![D] = [tick[D] EXCEPT !.pc = IF changed THEN "set" ELSE "deletes",
                                                    !.found = found]]
        /\ UNCHANGED stores
    BY <1>6 DEF Detect, Becomes
  <2>3. /\ tick'[D].listed = tick[D].listed /\ tick'[D].local = row /\ row' = row
        /\ server' = server /\ file' = file /\ tick'["sync"] = tick["sync"]
        /\ tick'[D].found = found
    BY <1>0, <2>1, <2>2 DEF Tick, stores
  <2>4. Accurate'
    BY <2>1, <2>3 DEF Accurate
  <2>5. CASE changed
    <3>1. tick'[D].pc = "set"
      BY <1>0, <2>2, <2>5 DEF Tick
    <3>2. found = Resolve(row)
      BY <2>1, <2>5
    <3>3. Resolve(row)' = Resolve(row)
      BY <2>3 DEF Resolve
    <3> HIDE DEF found, changed
    <3> QED BY <1>6, <2>3, <2>4, <3>1, <3>2, <3>3 DEF LoneOK
  <2>6. CASE ~changed
    <3>1. tick'[D].pc = "deletes"
      BY <1>0, <2>2, <2>6 DEF Tick
    <3>2. row # NoRow => file[row.base] = row.path
      <4> SUFFICES ASSUME row # NoRow PROVE file[row.base] = row.path
        OBVIOUS
      <4>1. row \in Row /\ file[row.base] \in Path \cup {NoFile} /\ row.path \in Path
        BY <1>r, <1>f DEF Row
      <4>2. Resolve(row) # NoFile /\ Resolve(row).flags = row.path.flags
        BY <2>1, <2>6
      <4>3. file[row.base] \in Path /\ file[row.base].dir = row.path.dir
            /\ file[row.base].flags = row.path.flags
        BY <4>1, <4>2 DEF Resolve
      <4>4. \A x, y \in Path : x.dir = y.dir /\ x.flags = y.flags => x = y
        BY DEF Path
      <4> QED BY <4>1, <4>3, <4>4
    <3>3. Backed'
      BY <2>3, <3>2 DEF Backed
    <3> HIDE DEF found, changed
    <3> QED BY <1>6, <2>3, <2>4, <3>1, <3>3 DEF LoneOK
  <2> QED BY <2>5, <2>6
<1>7. ASSUME LoneOK, SetEmail(D) PROVE LoneOK'
  <2>1. /\ tick'[D].pc = "reconcile" /\ tick'[D].listed = tick[D].listed
        /\ tick'[D].local = tick[D].local /\ tick'[D].found = tick[D].found
        /\ tick'["sync"] = tick["sync"] /\ row' = row /\ file' = file
    BY <1>7, <1>0 DEF SetEmail, Push, Goto, Becomes, Tick
  <2>2. Local(D) = row /\ Accurate /\ tick[D].found = Resolve(row) /\ server # Gone
    BY <1>7 DEF SetEmail, Push, LoneOK
  <2>3. /\ tick[D].found = NoFile => server' = Gone
        /\ tick[D].found # NoFile => server' \in Message /\ server'.in = server.in
    <3>1. CASE tick[D].found = NoFile
      BY <1>7, <3>1 DEF SetEmail, Push
    <3>2. CASE tick[D].found # NoFile
      <4>1. Local(D) \in Row /\ tick[D].found \in Path /\ server \in Message
        BY <1>7, <1>0, <1>k, <1>m, <2>2, <3>2 DEF SetEmail, Push, Tick, Holding
      <4>2. PICK kw : kw = Patched(server.kw, Local(D).path.flags, tick[D].found.flags)
        OBVIOUS
      <4>3. kw \in SUBSET Flag
        BY <4>1, <4>2 DEF Patched, Row, Path, Message
      <4>4. server' = [server EXCEPT !.kw = kw]
        BY <1>7, <3>2, <4>2 DEF SetEmail, Push
      <4> QED BY <3>2, <4>1, <4>3, <4>4 DEF Message
    <3> QED BY <3>1, <3>2
  <2>4. tick[D].found # NoFile => tick[D].found = file[row.base] /\ server' # Gone
    BY <1>m, <2>2, <2>3 DEF Resolve
  <2> QED BY <1>7, <2>1, <2>2, <2>3, <2>4 DEF LoneOK, Accurate
<1>8. ASSUME LoneOK, SetRejected(D) PROVE LoneOK'
  <2>1. /\ tick'[D].pc = "deletes" /\ tick'[D].listed = tick[D].listed
        /\ tick'[D].local = tick[D].local
        /\ tick'["sync"] = tick["sync"] /\ row' = row /\ server' = server /\ server = Gone
    BY <1>8, <1>0 DEF SetRejected, Goto, Becomes, Tick, stores
  <2>2. Local(D) = row /\ Accurate
    BY <1>8 DEF SetRejected, LoneOK
  <2> QED BY <1>8, <2>1, <2>2 DEF LoneOK, Accurate
<1>9. ASSUME LoneOK, ReconcileDestroyed(D) PROVE LoneOK'
  <2>1. /\ tick'[D].pc = "drop" /\ tick'[D].back = "deletes" /\ tick'[D].listed = FALSE
        /\ tick'[D].local = tick[D].local
        /\ tick'["sync"] = tick["sync"] /\ row' = row /\ server' = server
    BY <1>9, <1>0 DEF ReconcileDestroyed, Becomes, Tick
  <2>2. Local(D) = row /\ server = Gone
    BY <1>9 DEF ReconcileDestroyed, LoneOK
  <2> QED BY <1>9, <2>1, <2>2 DEF LoneOK, Accurate
<1>10. ASSUME LoneOK, ReconcileUpdated(D) PROVE LoneOK'
  <2>1. /\ Local(D) = row /\ Accurate /\ tick[D].found = file[row.base] /\ tick[D].found # NoFile
        /\ row # NoRow /\ row \in Row
    BY <1>10, <1>k, <1>r DEF ReconcileUpdated, LoneOK, Holding
  <2>2. tick' = [tick EXCEPT ![D] = [tick[D] EXCEPT !.pc = "deletes",
                                                    !.local.path = tick[D].found]]
    BY <1>10 DEF ReconcileUpdated, Becomes
  <2>3. /\ tick'[D].pc = "deletes" /\ tick'[D].listed = tick[D].listed
        /\ tick'[D].local = [row EXCEPT !.path = tick[D].found]
        /\ tick'["sync"] = tick["sync"]
    BY <1>0, <2>1, <2>2 DEF Tick
  <2>4. row' = [row EXCEPT !.path = tick[D].found] /\ file' = file /\ server' = server
    BY <1>10, <2>1 DEF ReconcileUpdated, UpdateRow, SameRow
  <2>5. row'.base = row.base /\ row'.path = tick[D].found
    BY <2>1, <2>4 DEF Row
  <2> QED BY <1>10, <2>1, <2>3, <2>4, <2>5 DEF LoneOK, Accurate, Backed
<1>11. ASSUME LoneOK, DeleteGone(D) PROVE LoneOK'
  <2>1. /\ tick'[D].pc = "drop" /\ tick'[D].back = "get" /\ tick'[D].local = tick[D].local
        /\ tick'[D].listed = tick[D].listed /\ ~tick[D].listed
        /\ tick'["sync"] = tick["sync"] /\ row' = row /\ server' = server
    BY <1>11, <1>0 DEF DeleteGone, Remove, Becomes, Tick
  <2>2. Local(D) = row /\ Accurate
    BY <1>11 DEF DeleteGone, LoneOK
  <2> QED BY <1>11, <2>1, <2>2 DEF LoneOK, Accurate
<1>12. ASSUME LoneOK, NothingGone(D) PROVE LoneOK'
  <2>1. /\ tick'[D].pc = "get" /\ tick'[D].local = tick[D].local
        /\ tick'[D].listed = tick[D].listed /\ (Local(D) = NoRow \/ tick[D].listed)
        /\ tick'["sync"] = tick["sync"] /\ row' = row /\ server' = server /\ file' = file
    BY <1>12, <1>0 DEF NothingGone, Goto, Becomes, Tick, stores
  <2>2. Local(D) = row /\ Accurate /\ (~tick[D].listed \/ Backed)
    BY <1>12 DEF NothingGone, LoneOK
  <2>3. Backed
    BY <2>1, <2>2 DEF Backed
  <2> QED BY <1>12, <2>1, <2>2, <2>3 DEF LoneOK, Accurate, Backed
<1>13. ASSUME LoneOK, Drop(D) PROVE LoneOK'
  <2>1. /\ Local(D) = row /\ Local(D) # NoRow
        /\ \/ tick[D].back = "query"
           \/ tick[D].back \in {"deletes", "get"} /\ ~tick[D].listed /\ Accurate
    BY <1>13, <1>k DEF Drop, LoneOK, Holding
  <2>2. /\ tick'[D].pc = tick[D].back /\ tick'[D].local = NoRow /\ row' = NoRow
        /\ tick'[D].listed = tick[D].listed
        /\ tick'["sync"] = tick["sync"] /\ server' = server
    BY <1>13, <1>0, <2>1 DEF Drop, Becomes, SameRow, Tick
  <2> QED BY <1>13, <2>1, <2>2 DEF LoneOK, Accurate, Backed
<1>14. ASSUME LoneOK, Get(D) PROVE LoneOK'
  <2>1. Local(D) = row /\ Accurate /\ (row # NoRow => tick[D].listed) /\ Backed
    BY <1>14 DEF Get, LoneOK
  <2>2. UNCHANGED <<server, file, row>> /\ tick'["sync"] = tick["sync"]
    BY <1>14 DEF Get, stores, Becomes, End
  <2>3. CASE tick[D].listed /\ server # Gone
    <3>1. /\ tick'[D].pc = "apply" /\ tick'[D].got = server
          /\ tick'[D].local = tick[D].local
      <4>1. tick' = [tick EXCEPT ![D] = [tick[D] EXCEPT !.pc = "apply", !.got = server]]
        BY <1>14, <2>3, Zenon DEF Get, Becomes
      <4> QED BY <1>0, <4>1 DEF Tick
    <3> QED BY <1>14, <2>1, <2>2, <2>3, <3>1 DEF LoneOK, Accurate, Current, Backed
  <2>4. CASE ~(tick[D].listed /\ server # Gone)
    <3>1. tick'[D].pc = "idle"
      <4>1. End(D)
        BY <1>14, <2>4, Zenon DEF Get
      <4> QED BY <1>0, <4>1 DEF End, Becomes
    <3>2. InSync
      BY <2>1, <2>4 DEF InSync, Accurate
    <3>3. InSync'
      BY <2>2, <3>2 DEF InSync, Mirror
    <3> QED BY <1>14, <2>2, <3>1, <3>3 DEF LoneOK
  <2> QED BY <2>3, <2>4
<1>15. ASSUME LoneOK, OutOfScope(D) PROVE LoneOK'
  BY <1>15, <1>m DEF OutOfScope, LoneOK, Current
<1>16. ASSUME LoneOK, Download(D) PROVE LoneOK'
  <2>1. Current /\ Local(D) = row /\ Local(D) = NoRow
    BY <1>16 DEF Download, InScope, LoneOK
  <2>2. /\ tick'[D].pc = "insert" /\ tick'[D].got = tick[D].got
        /\ tick'[D].local = [base |-> bases', path |-> Target(D), members |-> {}]
        /\ tick'["sync"] = tick["sync"] /\ row' = row /\ server' = server
    BY <1>16, <1>0 DEF Download, Becomes, Tick
  <2>3. bases' \in Base
    BY <1>16, BoundsAssumption DEF Download, Base, TypeInv, StoresOK
  <2>4. file'[bases'] = Target(D)
    BY <1>16, <1>f, <2>3 DEF Download
  <2>5. Target(D)' = Target(D) /\ Current'
    BY <2>1, <2>2 DEF Target, Current
  <2>6. /\ tick'[D].local.base = bases' /\ tick'[D].local.path = Target(D)
        /\ tick'[D].local.members = {}
    BY <2>2
  <2>7. row' = NoRow
    BY <2>1, <2>2
  <2>8. At("sync", "idle")
    BY <1>16 DEF LoneOK
  <2> QED BY <2>2, <2>4, <2>5, <2>6, <2>7, <2>8 DEF LoneOK
<1>17. ASSUME LoneOK, DownloadFails(D) PROVE LoneOK'
  BY <1>17 DEF DownloadFails, InScope, LoneOK, Current
<1>18. ASSUME LoneOK, InsertRow(D) PROVE LoneOK'
  <2>1. /\ Current /\ row = NoRow /\ Local(D) # NoRow
        /\ Local(D).path = Target(D) /\ Local(D).members = {}
        /\ file[Local(D).base] = Target(D)
    BY <1>18, <1>k DEF InsertRow, LoneOK, Holding
  <2>2. /\ tick'[D].pc = "join" /\ tick'[D].got = tick[D].got /\ tick'[D].local = tick[D].local
        /\ tick'["sync"] = tick["sync"] /\ row' = Local(D) /\ server' = server /\ file' = file
    BY <1>18, <1>0, <2>1 DEF InsertRow, Goto, Becomes, Tick
  <2>3. Target(D)' = Target(D) /\ Current'
    BY <2>1, <2>2 DEF Target, Current
  <2> QED BY <1>18, <2>1, <2>2, <2>3 DEF LoneOK
<1>19. ASSUME LoneOK, Compare(D) PROVE LoneOK'
  <2>1. /\ Current /\ row = Local(D) /\ row # NoRow /\ file[row.base] = row.path
        /\ row \in Row
    BY <1>19, <1>r DEF Compare, InScope, LoneOK, Backed
  <2>2. UNCHANGED <<server, file, row>>
    BY <1>19 DEF Compare, stores
  <2> DEFINE same == Local(D).path = Target(D)
  <2>3. ASSUME NEW pc \in {"rename", "update"}, Goto(D, pc)
        PROVE  /\ tick'[D].pc = pc /\ tick'[D].got = tick[D].got
               /\ tick'[D].local = tick[D].local /\ tick'["sync"] = tick["sync"]
               /\ Target(D)' = Target(D) /\ Current' /\ Backed'
    <3>1. tick' = [tick EXCEPT ![D] = [tick[D] EXCEPT !.pc = pc]]
      BY <2>3 DEF Goto, Becomes
    <3>2. /\ tick'[D].pc = pc /\ tick'[D].got = tick[D].got
          /\ tick'[D].local = tick[D].local /\ tick'["sync"] = tick["sync"]
      BY <1>0, <3>1 DEF Tick
    <3> QED BY <2>1, <2>2, <3>2 DEF Target, Current, Backed
  <2>4. CASE same /\ row.members = {tick[D].got.in}
    <3>1. End(D)
      BY <1>19, <2>1, <2>4 DEF Compare, SameRow
    <3>2. tick'[D].pc = "idle" /\ tick'["sync"] = tick["sync"]
      BY <1>0, <3>1 DEF End, Becomes
    <3>3. InSync
      BY <2>1, <2>4 DEF InSync, Current, Mirror, Target, Row
    <3>4. InSync'
      BY <2>2, <3>3 DEF InSync, Mirror
    <3> QED BY <1>19, <3>2, <3>4 DEF LoneOK
  <2>5. CASE same /\ row.members # {tick[D].got.in}
    <3>1. Goto(D, "update")
      BY <1>19, <2>1, <2>5 DEF Compare, SameRow
    <3> QED BY <1>19, <2>1, <2>2, <2>3, <2>5, <3>1 DEF LoneOK
  <2>6. CASE ~same
    <3>1. Goto(D, "rename")
      BY <1>19, <2>1, <2>6 DEF Compare, InPlace
    <3> QED BY <1>19, <2>1, <2>2, <2>3, <3>1 DEF LoneOK
  <2> QED BY <2>4, <2>5, <2>6
<1>20. ASSUME LoneOK, Rename(D) PROVE LoneOK'
  <2>1. /\ Current /\ row = Local(D) /\ row # NoRow /\ InPlace(D) /\ row.base \in Base
    BY <1>20, <1>k, <1>r DEF Rename, LoneOK, Backed, InPlace, Holding
  <2>2. /\ tick'[D].pc = "update" /\ tick'[D].got = tick[D].got
        /\ tick'[D].local = tick[D].local
        /\ tick'["sync"] = tick["sync"] /\ row' = row /\ server' = server
    BY <1>20, <1>0, <2>1 DEF Rename, Goto, Becomes, Tick
  <2>3. file'[row.base] = Target(D)
    BY <1>20, <1>f, <2>1 DEF Rename
  <2>4. Target(D)' = Target(D) /\ Current'
    BY <2>1, <2>2 DEF Target, Current
  <2> QED BY <1>20, <2>1, <2>2, <2>3, <2>4 DEF LoneOK
<1>21. ASSUME LoneOK, Update(D) PROVE LoneOK'
  <2>1. /\ Current /\ row # NoRow /\ Local(D).base = row.base /\ row \in Row
        /\ file[row.base] = Target(D)
    BY <1>21, <1>r DEF Update, LoneOK
  <2>2. /\ tick'[D].pc = "clear" /\ tick'[D].got = tick[D].got
        /\ tick'[D].local = tick[D].local
        /\ tick'["sync"] = tick["sync"] /\ file' = file /\ server' = server
    BY <1>21, <1>0 DEF Update, Goto, Becomes, Tick
  <2>3. row' = [row EXCEPT !.path = Target(D)]
    BY <1>21, <2>1 DEF Update, UpdateRow, SameRow
  <2>4. row'.base = row.base /\ row'.path = Target(D) /\ row' # NoRow
    <3>1. Target(D) \in Path
      BY <1>m, <2>1, TargetType DEF Current
    <3>2. PICK path \in Path : path = Target(D)
      BY <3>1
    <3>3. row' \in Row /\ row'.base = row.base /\ row'.path = path
      BY <2>1, <2>3, <3>2 DEF Row
    <3> QED BY <3>2, <3>3, NamesAssumption
  <2>5. Target(D)' = Target(D) /\ Current'
    BY <2>1, <2>2 DEF Target, Current
  <2> QED BY <1>21, <2>1, <2>2, <2>4, <2>5 DEF LoneOK
<1>22. ASSUME LoneOK, ClearMembers(D) PROVE LoneOK'
  <2>1. /\ Current /\ row # NoRow /\ Local(D).base = row.base /\ row \in Row
        /\ file[row.base] = Target(D) /\ row.path = Target(D)
    BY <1>22, <1>r DEF ClearMembers, LoneOK
  <2>2. /\ tick'[D].pc = "join" /\ tick'[D].got = tick[D].got
        /\ tick'[D].local = tick[D].local
        /\ tick'["sync"] = tick["sync"] /\ file' = file /\ server' = server
    BY <1>22, <1>0 DEF ClearMembers, Goto, Becomes, Tick
  <2>3. row' = [row EXCEPT !.members = {}]
    BY <1>22, <2>1 DEF ClearMembers, SameRow
  <2>4. row'.base = row.base /\ row'.path = row.path /\ row'.members = {} /\ row' \in Row
    BY <2>1, <2>3 DEF Row
  <2>5. Target(D)' = Target(D) /\ Current'
    BY <2>1, <2>2 DEF Target, Current
  <2> QED BY <1>22, <2>1, <2>2, <2>4, <2>5, NamesAssumption DEF LoneOK
<1>23. ASSUME LoneOK, InsertMember(D) PROVE LoneOK'
  <2>1. /\ Current /\ row # NoRow /\ Local(D).base = row.base /\ row \in Row
        /\ file[row.base] = Target(D) /\ row.path = Target(D) /\ row.members = {}
    BY <1>23, <1>r DEF InsertMember, LoneOK
  <2>2. /\ tick'[D].pc = "idle"
        /\ tick'["sync"] = tick["sync"] /\ file' = file /\ server' = server
    BY <1>23, <1>0 DEF InsertMember, End, Becomes
  <2>3. row' = [row EXCEPT !.members = @ \cup {tick[D].got.in}]
    BY <1>23, <2>1 DEF InsertMember, SameRow
  <2>4. /\ row' \in Row /\ row'.base = row.base /\ row'.path = row.path
        /\ row'.members = {tick[D].got.in}
    BY <2>1, <2>3 DEF Row, Current
  <2>5. /\ row'.path = [dir |-> server.in, flags |-> server.kw]
        /\ row'.members = {server.in}
    BY <2>1, <2>4 DEF Current, Target
  <2>6. row' = [base |-> row'.base, path |-> row'.path, members |-> row'.members]
    BY <2>4 DEF Row
  <2>7. InSync'
    BY <2>1, <2>2, <2>4, <2>5, <2>6, NamesAssumption DEF InSync, Mirror, Current
  <2> QED BY <1>23, <2>2, <2>7 DEF LoneOK
<1>25. ~ServerEdit
  BY DEF ServerEdit
<1>26. CASE UNCHANGED vars
  BY <1>26 DEF vars, stores, history, LoneOK, Target, Accurate, Current, Backed, InSync, Mirror, Resolve
<1>27. ASSUME NEW p \in Process, Start(p) \/ Step(p), Act(p) PROVE LoneOK'
  BY <1>27, <1>s, <1>1, <1>2, <1>3, <1>4, <1>5, <1>6, <1>7, <1>8, <1>9, <1>10, <1>11, <1>12,
     <1>13, <1>14, <1>15, <1>16, <1>17, <1>18, <1>19, <1>20, <1>21, <1>22, <1>23
  DEF Step
<1> QED BY <1>s, <1>25, <1>26, <1>27 DEF Next, Act

\* One tick of the daemon on its own puts server, database and Maildir in
\* agreement, whatever two processes have left of files, rows and memberships
\* and wherever a refused statement ended their ticks.
THEOREM OneTickRepairs == Spec => []LoneTickRepairs
<1>1. Init => (calm => LoneOK)
  BY DEF Init
<1>2. TypeInv /\ (calm => LoneOK) /\ [Next]_vars => (calm => LoneOK)'
  BY LoneNext
<1>3. (calm => LoneOK) => LoneTickRepairs
  BY DEF LoneOK, LoneTickRepairs, D
<1> QED BY <1>1, <1>2, <1>3, TypeAlways, PTL DEF Spec

=============================================================================
