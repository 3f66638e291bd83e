-------------------------- MODULE DaemonLoopProofs --------------------------
(***************************************************************************)
(* Theorems about DaemonLoop, for every capacity of the two channels, every *)
(* base and cap of the backoff, every set of settings and every bound on    *)
(* the environment.                                                         *)
(***************************************************************************)
EXTENDS DaemonLoop, TLAPS

(***************************************************************************)
(* The operators                                                           *)
(***************************************************************************)
\* One more event leaves a watch a watch.
LEMMA NoticingType ==
    ASSUME NEW w \in Watch, NEW kind PROVE Noticing(w, kind) \in Watch
BY BoundsAssumption DEF Noticing, Watch, Least

\* What is on its way to the loop is not lost by it, and an event of a kind
\* that counts is on its way.
LEMMA NoticingSignals ==
    ASSUME NEW w \in Watch, NEW kind
    PROVE  /\ Noticing(w, kind) \in Watch
           /\ Noticing(w, kind).on = w.on
           /\ Noticing(w, kind).raw = w.raw
           /\ Noticing(w, kind).deb = w.deb
           /\ Noticing(w, kind).ticks = w.ticks
           /\ Noticing(w, kind).kernel >= w.kernel
           /\ (w.on /\ kind \in RelevantKind) => Noticing(w, kind).kernel > 0
BY BoundsAssumption DEF Noticing, Watch, Least

LEMMA AnnouncedType == ASSUME stream \in Stream PROVE Announced \in Stream
BY BoundsAssumption DEF Announced, Stream, Least

\* An open stream hears the announcement, and no stream loses an earlier one.
LEMMA AnnouncedHeard ==
    ASSUME stream \in Stream
    PROVE  /\ Announced \in Stream /\ Announced.state = stream.state
           /\ stream.state = "open" => Announced.queue > 0
           /\ stream.queue > 0 => Announced.queue > 0
           /\ stream.state = "none" => Announced = stream
BY BoundsAssumption DEF Announced, Stream, Least

LEMMA FaultType == ASSUME TypeOK, Fault PROVE spent' \in Spent
BY BoundsAssumption DEF TypeOK, Fault, Spent

\* RetryBackoff stays between its base and its cap.
LEMMA DelayType ==
    ASSUME NEW delay \in Base .. Cap PROVE NextDelay(delay) \in Base .. Cap
BY DelayAssumption DEF NextDelay, Least

LEMMA GotoType ==
    ASSUME TypeOK, NEW w \in Worker, NEW pc, Goto(w, pc),
           pc \in IF w = "sync" THEN SyncPlaces ELSE SubmitPlaces
    PROVE  TaskOK'
BY DEF TypeOK, TaskOK, Goto, Worker, Task

LEMMA BackOffType ==
    ASSUME TypeOK, NEW w \in Worker, NEW up \in BOOLEAN, BackOff(w, up)
    PROVE  TaskOK' /\ notice' \in [Worker -> Notice]
<1>1. NextDelay(task[w].next) \in Base .. Cap
  BY DelayType DEF TypeOK, TaskOK, Task
<1>2. TaskOK'
  BY <1>1 DEF TypeOK, TaskOK, BackOff, Task, Worker, SyncPlaces, SubmitPlaces
<1>3. notice' \in [Worker -> Notice]
  BY DEF TypeOK, BackOff, SayDown, Notice
<1> QED BY <1>2, <1>3

LEMMA RecoverType ==
    ASSUME TypeOK, NEW w \in Worker, Recover(w)
    PROVE  TaskOK' /\ notice' \in [Worker -> Notice]
<1>1. TaskOK'
  BY DelayAssumption
     DEF TypeOK, TaskOK, Recover, Reset, Task, Worker, SyncPlaces, SubmitPlaces
<1>2. notice' \in [Worker -> Notice]
  BY DEF TypeOK, Recover, SayUp, Notice
<1> QED BY <1>1, <1>2

(***************************************************************************)
(* Types                                                                   *)
(***************************************************************************)
LEMMA TypeInit == Init => TypeOK
<1> SUFFICES ASSUME Init PROVE TypeOK
  OBVIOUS
<1>1. TaskOK
  BY DelayAssumption
     DEF Init, TaskOK, Fresh, Task, Worker, SyncPlaces, SubmitPlaces
<1>2. watch \in Watch /\ stream \in Stream /\ mail \in Mail /\ spent \in Spent
  BY BoundsAssumption, ChannelAssumption
     DEF Init, Unwatched, Disconnected, Watch, Stream, Mail, Spent
<1> QED BY <1>1, <1>2 DEF Init, TypeOK, Nothing, Side, Notice

\* Every step keeps the types.
LEMMA TypeNext == TypeOK /\ [Next]_vars => TypeOK'
<1> SUFFICES ASSUME TypeOK, [Next]_vars PROVE TypeOK'
  OBVIOUS
<1> USE DEF TypeOK, TaskOK, steady, syncing, signals, changes
<1>1. CASE Start
  BY <1>1 DEF Start, Goto, At, Worker, Task, SyncPlaces, SubmitPlaces
<1>2. CASE Terminate \/ Joined \/ PollDue
  BY <1>2 DEF Terminate, Joined, PollDue
<1>3. CASE Forward
  <2>1. watch.kernel - 1 \in 0 .. Burst /\ watch.raw + 1 \in 0 .. RawCap
    BY <1>3, BoundsAssumption, ChannelAssumption DEF Forward, Watch
  <2>2. watch' \in Watch
    BY <1>3, <2>1 DEF Forward, Watch
  <2> QED BY <1>3, <2>1, <2>2 DEF Forward
<1>4. CASE DebounceFirst
  <2>1. watch.raw - 1 \in 0 .. RawCap
    BY <1>4, BoundsAssumption, ChannelAssumption DEF DebounceFirst, Watch
  <2>2. watch' \in Watch
    BY <1>4, <2>1 DEF DebounceFirst, Watch
  <2> QED BY <1>4, <2>1, <2>2 DEF DebounceFirst
<1>5. CASE DebounceOver
  <2>1. /\ 0 \in 0 .. RawCap
        /\ \A left \in 0 .. watch.kernel : left \in 0 .. Burst
    BY <1>5, BoundsAssumption, ChannelAssumption DEF DebounceOver, Watch
  <2>2. watch' \in Watch
    BY <1>5, <2>1 DEF DebounceOver, Watch
  <2> QED BY <1>5, <2>1, <2>2 DEF DebounceOver
<1>6. CASE DebounceSend
  <2>1. watch.ticks + 1 \in 0 .. TickCap
    BY <1>6, BoundsAssumption, ChannelAssumption DEF DebounceSend, Watch
  <2>2. watch' \in Watch
    BY <1>6, <2>1 DEF DebounceSend, Watch
  <2> QED BY <1>6, <2>1, <2>2 DEF DebounceSend
<1>7. CASE DebounceCancelled
  <2>1. watch' \in Watch
    BY <1>7 DEF DebounceCancelled, Watch
  <2> QED BY <1>7, <2>1 DEF DebounceCancelled
<1>8. CASE TickList
  BY <1>8 DEF TickList, Side
<1>9. CASE TickDetect
  BY <1>9, NoticingType DEF TickDetect, Side
<1>10. CASE TickPush
  BY <1>10, NoticingType, AnnouncedType DEF TickPush, Side
<1>11. CASE TickApply
  BY <1>11, NoticingType
     DEF TickApply, AfterTick, Nothing, Goto, At, Worker, Task, SyncPlaces,
     SubmitPlaces
<1>12. CASE TickFails
  BY <1>12, NoticingType, AnnouncedType, FaultType
     DEF TickFails, AfterTick, Nothing, Side, Goto, At, Worker, Task,
     SyncPlaces, SubmitPlaces
<1>13. CASE ClientReady
  <2>1. 0 \in 0 .. Burst /\ 0 \in 0 .. RawCap /\ 0 \in 0 .. TickCap
    BY <1>13, BoundsAssumption, ChannelAssumption
  <2>2. config.watch \in BOOLEAN
    BY <1>13, ConfigAssumption DEF Config
  <2>3. watch' \in Watch
    BY <1>13, <2>1, <2>2 DEF ClientReady, Watch, Unwatched
  <2>4. /\ Fresh("top", TRUE) \in Task(SyncPlaces \cup SubmitPlaces)
        /\ Fresh("top", TRUE).pc = "top"
    BY <1>13, DelayAssumption DEF Fresh, Task, SyncPlaces
  <2>5. TaskOK'
    BY <1>13, <2>4 DEF ClientReady, Task, Worker, SyncPlaces, SubmitPlaces
  <2>6. notice' \in [Worker -> Notice]
    BY <1>13 DEF ClientReady, SayUp, Notice
  <2> QED BY <1>13, <2>3, <2>5, <2>6 DEF ClientReady
<1>14. CASE ClientFails \/ ConnectFails
  BY <1>14, BackOffType, FaultType, ZenonT(30) DEF ClientFails, ConnectFails, Worker
<1>15. CASE SetupCancelled \/ SubmitJoined \/ DropOver
  BY <1>15, GotoType
     DEF SetupCancelled, SubmitJoined, DropOver, Worker, SyncPlaces,
     SubmitPlaces
<1>16. CASE CatchUp
  BY <1>16, GotoType DEF CatchUp, BeginTick, Worker, SyncPlaces, SubmitPlaces
<1>17. CASE LoopReturns
  BY <1>17, GotoType, BoundsAssumption, ChannelAssumption
     DEF LoopReturns, Unwatched, Disconnected, Watch, Stream, Worker,
     SyncPlaces, SubmitPlaces
<1>18. CASE Connect
  <2>1. stream' \in Stream
    BY <1>18, BoundsAssumption DEF Connect, Stream
  <2>2. TaskOK' /\ notice' \in [Worker -> Notice]
    BY <1>18, RecoverType DEF Connect, Worker
  <2> QED BY <1>18, <2>1, <2>2 DEF Connect
<1>19. CASE PollFires
  BY <1>19 DEF PollFires, BeginTick
<1>20. CASE WatchFires
  <2>1. watch' \in Watch
    BY <1>20, ChannelAssumption DEF WatchFires, Watch
  <2> QED BY <1>20, <2>1 DEF WatchFires, BeginTick
<1>21. CASE StateChange
  <2>1. stream' \in Stream
    BY <1>21, BoundsAssumption DEF StateChange, Stream
  <2> QED BY <1>21, <2>1 DEF StateChange, BeginTick
<1>22. CASE StreamEnded
  BY <1>22, GotoType, BoundsAssumption
     DEF StreamEnded, Disconnected, Stream, Worker, SyncPlaces, SubmitPlaces
<1>23. CASE StreamFailed
  BY <1>23, BackOffType, BoundsAssumption
     DEF StreamFailed, Disconnected, Stream, Worker
<1>24. CASE BroughtUp
  BY <1>24, RecoverType DEF BroughtUp, Worker
<1>25. CASE InnerEnds
  BY <1>25, BackOffType, GotoType, FaultType
     DEF InnerEnds, Worker, SubmitPlaces
<1>26. CASE SubmitCancelled \/ BatchDone
  BY <1>26, GotoType
     DEF SubmitCancelled, BatchDone, Worker, SyncPlaces, SubmitPlaces
<1>27. CASE DrainDue \/ NextAttempt
  BY <1>27, GotoType, BoundsAssumption
     DEF DrainDue, NextAttempt, Mail, Worker, SyncPlaces, SubmitPlaces
<1>28. CASE AttemptSucceeds
  BY <1>28, NoticingType
     DEF AttemptSucceeds, SayUp, Notice, Goto, At, Worker, Task, SyncPlaces,
     SubmitPlaces
<1>29. CASE AttemptSettled
  BY <1>29, NoticingType, GotoType
     DEF AttemptSettled, Worker, SyncPlaces, SubmitPlaces
<1>30. CASE AttemptFails
  <2>1. task["submit"] \in Task(SyncPlaces \cup SubmitPlaces)
    BY <1>30 DEF Worker
  <2>2. TaskOK'
    BY <1>30, <2>1 DEF AttemptFails, Task, Worker, SyncPlaces, SubmitPlaces
  <2>3. notice' \in [Worker -> Notice]
    BY <1>30 DEF AttemptFails, SayDown, Notice
  <2> QED BY <1>30, <2>1, <2>2, <2>3, FaultType DEF AttemptFails
<1>31. CASE \E w \in Worker : NetworkAnswers(w)
  BY <1>31, GotoType DEF NetworkAnswers, Worker, SyncPlaces, SubmitPlaces
<1>32. CASE \E w \in Worker : WaitOver(w)
  <2>1. TaskOK'
    BY <1>32, GotoType
       DEF WaitOver, Resume, Task, Worker, SyncPlaces, SubmitPlaces
  <2>2. mail' \in Mail
    BY <1>32, BoundsAssumption DEF WaitOver, Rescheduled, Mail, Least
  <2> QED BY <1>32, <2>1, <2>2 DEF WaitOver
<1>33. CASE \E w \in Worker : WaitCancelled(w)
  <2>1. watch' \in Watch
    BY <1>33, BoundsAssumption, ChannelAssumption
       DEF WaitCancelled, Watch, Unwatched
  <2>2. TaskOK'
    BY <1>33, GotoType
       DEF WaitCancelled, Task, Worker, SyncPlaces, SubmitPlaces
  <2> QED BY <1>33, <2>1, <2>2 DEF WaitCancelled
<1>34. CASE LocalChange
  <2>1. watch' \in Watch
    BY <1>34, NoticingType DEF LocalChange
  <2>2. spent' \in Spent
    BY <1>34, BoundsAssumption DEF LocalChange, Spent
  <2> QED BY <1>34, <2>1, <2>2 DEF LocalChange, Side
<1>35. CASE RemoteChange
  <2>1. spent' \in Spent
    BY <1>35, BoundsAssumption DEF RemoteChange, Spent
  <2> QED BY <1>35, <2>1, AnnouncedType DEF RemoteChange, Side
<1>36. CASE HookEnds
  BY <1>36, NoticingType DEF HookEnds
<1>37. CASE StreamLoss
  <2>1. stream' \in Stream
    BY <1>37, BoundsAssumption DEF StreamLoss, Stream
  <2>2. gap' \in BOOLEAN
    BY <1>37 DEF StreamLoss, Side
  <2> QED BY <1>37, <2>1, <2>2, FaultType DEF StreamLoss
<1>38. CASE QueueMessage
  <2>1. mail' \in Mail
    BY <1>38, BoundsAssumption DEF QueueMessage, Mail, Least
  <2>2. spent' \in Spent
    BY <1>38, BoundsAssumption DEF QueueMessage, Spent
  <2> QED BY <1>38, <2>1, <2>2, NoticingType DEF QueueMessage
<1>39. CASE UNCHANGED vars
  BY <1>39 DEF vars
<1> QED BY <1>1, <1>2, <1>3, <1>4, <1>5, <1>6, <1>7, <1>8, <1>9, <1>10, <1>11,
           <1>12, <1>13, <1>14, <1>15, <1>16, <1>17, <1>18, <1>19, <1>20,
           <1>21, <1>22, <1>23, <1>24, <1>25, <1>26, <1>27, <1>28, <1>29,
           <1>30, <1>31, <1>32, <1>33, <1>34, <1>35, <1>36, <1>37, <1>38, <1>39
           DEF Next, SyncWorker, SubmitWorker, Debouncer, Environment, Loop,
           Tick, Wait, Worker

\* The state is well typed: no channel holds more than its capacity, no delay
\* leaves its range, and each worker is at a place of its own loop.
THEOREM TypeCorrect == Spec => []TypeOK
BY TypeInit, TypeNext, PTL DEF Spec

(***************************************************************************)
(* Signals                                                                 *)
(***************************************************************************)
\* Where a tick, a stream and a watch can exist at all.  A tick runs in the
\* loop only, so that what it has not read yet is still ahead of it; the
\* watch belongs to the loop and is dropped with it.
PlaceOK ==
    /\ main = "start" => task["sync"].pc = "off"
    /\ tick # "none" => task["sync"].pc \in {"catchup", "select"}
    /\ task["sync"].pc = "catchup" => tick # "none"
    /\ stream.state = "none" => stream.queue = 0
    /\ stream.state # "none" <=> task["sync"].pc = "select"
    /\ task["sync"].pc \in {"off", "setup"} => ~task["sync"].up
    /\ (~task["sync"].up \/ task["sync"].pc \in {"join", "exited"}) => ~watch.on

SignalInv == PlaceOK /\ LocalChangeNoticed /\ RemoteChangeNoticed

\* The submit worker touches no part of it but adds events to the watch.
LEMMA SubmitSteps ==
    ASSUME TypeOK, SubmitWorker
    PROVE  /\ task'["sync"] = task["sync"]
           /\ UNCHANGED <<main, tick, owed, got, gap, lapsed, stream>>
           /\ watch' \in {watch, Noticing(watch, "remove"), Noticing(watch, "create")}
BY DEF TypeOK, TaskOK, Worker, SubmitWorker, Wait, Goto, Recover, BackOff,
   Resume, steady, syncing, signals, changes, BroughtUp, InnerEnds,
   SubmitCancelled, DrainDue, NextAttempt, BatchDone, AttemptSucceeds,
   AttemptSettled, AttemptFails, NetworkAnswers, WaitOver, WaitCancelled

LEMMA SignalSubmit ==
    ASSUME TypeOK, SignalInv, SubmitWorker PROVE SignalInv'
BY SubmitSteps, NoticingSignals
   DEF TypeOK, RelevantKind, Watch, SignalInv, PlaceOK, LocalChangeNoticed,
   RemoteChangeNoticed, CatchingUp, Signalled, Cancelled

LEMMA SignalInit == Init => SignalInv
BY DEF Init, Fresh, Unwatched, Disconnected, Nothing, Worker, SignalInv, PlaceOK,
   LocalChangeNoticed, RemoteChangeNoticed, CatchingUp

LEMMA SignalNext == TypeOK /\ SignalInv /\ [Next]_vars => SignalInv'
<1> SUFFICES ASSUME TypeOK, SignalInv, [Next]_vars PROVE SignalInv'
  OBVIOUS
<1> USE DEF TypeOK, TaskOK, steady, syncing, signals, changes, SignalInv,
       PlaceOK, LocalChangeNoticed, RemoteChangeNoticed, CatchingUp, Signalled,
       Cancelled
<1>1. CASE Start \/ SetupCancelled \/ SubmitJoined \/ DropOver
  BY <1>1
     DEF Start, SetupCancelled, SubmitJoined, DropOver, Goto, At, Worker, Task
<1>2. CASE Terminate \/ Joined \/ PollDue
  BY <1>2 DEF Terminate, Joined, PollDue, Worker
<1>3. CASE Forward
  BY <1>3, BoundsAssumption, ChannelAssumption DEF Forward, Watch
<1>4. CASE DebounceFirst
  BY <1>4, BoundsAssumption, ChannelAssumption DEF DebounceFirst, Watch
<1>5. CASE DebounceOver
  BY <1>5, BoundsAssumption, ChannelAssumption DEF DebounceOver, Watch
<1>6. CASE DebounceSend
  BY <1>6, BoundsAssumption, ChannelAssumption DEF DebounceSend, Watch
<1>7. CASE DebounceCancelled
  BY <1>7, BoundsAssumption, ChannelAssumption DEF DebounceCancelled, Watch
<1>8. CASE TickList
  BY <1>8 DEF TickList, Side
<1>9. CASE TickDetect
  BY <1>9, NoticingSignals DEF TickDetect, Side
<1>10. CASE TickPush
  BY <1>10, AnnouncedHeard DEF TickPush, Stream, Side
<1>11. CASE TickApply
  BY <1>11, NoticingSignals
     DEF TickApply, Idle, AfterTick, Nothing, Side, Watch, RelevantKind, Goto,
     At, Worker, Task
<1>12. CASE TickFails
  BY <1>12, NoticingSignals, AnnouncedHeard
     DEF TickFails, Idle, AfterTick, Nothing, Side, Watch, Stream,
     RelevantKind, Goto, At, Worker, Task
<1>13. CASE ClientReady
  BY <1>13 DEF ClientReady, Fresh, Unwatched, Goto, At, Worker, Task
<1>14. CASE ClientFails \/ ConnectFails
  BY <1>14 DEF ClientFails, ConnectFails, BackOff, Goto, At, Worker, Task
<1>15. CASE CatchUp
  BY <1>15 DEF CatchUp, BeginTick, Goto, At, Worker, Task
<1>16. CASE LoopReturns
  BY <1>16, BoundsAssumption
     DEF LoopReturns, Idle, Unwatched, Disconnected, Goto, At, Worker, Task
<1>17. CASE Connect
  BY <1>17, BoundsAssumption DEF Connect, Recover, Goto, At, Worker, Task
<1>18. CASE PollFires \/ WatchFires \/ StateChange
  BY <1>18, BoundsAssumption, ChannelAssumption
     DEF PollFires, WatchFires, StateChange, BeginTick, Selecting, At, Idle,
     WatchReady, Watch, Stream
<1>19. CASE StreamEnded
  BY <1>19
     DEF StreamEnded, Disconnected, Selecting, Idle, Goto, At, Worker, Task
<1>20. CASE StreamFailed
  BY <1>20
     DEF StreamFailed, BackOff, Disconnected, Selecting, Idle, Goto, At,
     Worker, Task
<1>21. CASE NetworkAnswers("sync") \/ WaitOver("sync")
  BY <1>21
     DEF NetworkAnswers, WaitOver, Resume, Rescheduled, Goto, At, Worker, Task
<1>22. CASE WaitCancelled("sync")
  BY <1>22 DEF WaitCancelled, Unwatched, Goto, At, Worker, Task
<1>23. CASE SubmitWorker
  BY <1>23, SignalSubmit
<1>24. CASE LocalChange
  BY <1>24, NoticingSignals DEF LocalChange, Side, Watch, RelevantKind
<1>25. CASE RemoteChange
  BY <1>25, AnnouncedHeard DEF RemoteChange, Stream, Side
<1>26. CASE HookEnds \/ QueueMessage
  BY <1>26, NoticingSignals DEF HookEnds, QueueMessage, RelevantKind, Watch
<1>27. CASE StreamLoss
  BY <1>27, BoundsAssumption DEF StreamLoss, Fault, Stream, Side
<1>28. CASE UNCHANGED vars
  BY <1>28 DEF vars
<1> QED BY <1>1, <1>2, <1>3, <1>4, <1>5, <1>6, <1>7, <1>8, <1>9, <1>10, <1>11,
           <1>12, <1>13, <1>14, <1>15, <1>16, <1>17, <1>18, <1>19, <1>20,
           <1>21, <1>22, <1>23, <1>24, <1>25, <1>26, <1>27, <1>28
           DEF Next, SyncWorker, Debouncer, Environment, Loop, Tick, Wait

LEMMA SignalCorrect == Spec => []SignalInv
BY SignalInit, SignalNext, TypeCorrect, PTL DEF Spec

\* While the watch is up no local change is left without a signal: neither
\* the drain of the debouncer, nor a tick that is running, nor a full channel
\* loses one.
THEOREM LocalSignalsSurvive == Spec => []LocalChangeNoticed
<1>1. SignalInv => LocalChangeNoticed
  BY DEF SignalInv
<1> QED BY <1>1, SignalCorrect, PTL

\* A change on the server that the stream was open for, or that the sync on
\* connect has yet to see, is not lost when the connection is.
THEOREM RemoteSignalsSurvive == Spec => []RemoteChangeNoticed
<1>1. SignalInv => RemoteChangeNoticed
  BY DEF SignalInv
<1> QED BY <1>1, SignalCorrect, PTL

(***************************************************************************)
(* Notices and backoff                                                     *)
(***************************************************************************)
\* The notifier knows what the user was told last, a delay has grown only if
\* the user was told so, and the sync worker listens only once it has taken
\* that back.  The submit worker's own delay is the base one from its bring-up
\* on: a message that fails has a schedule of its own.
NoticeInv ==
    /\ \A w \in Worker : task[w].down <=> notice[w] = "down"
    /\ \A w \in Worker : task[w].next > Base => task[w].down
    /\ task["sync"].pc = "select" => ~task["sync"].down
    /\ task["submit"].pc \in {"select", "batch", "attempt"} => task["submit"].up
    /\ task["submit"].up => task["submit"].next = Base

LEMMA NoticeInit == Init => NoticeInv
BY DelayAssumption DEF Init, NoticeInv, Fresh, Worker

LEMMA NoticeNext == TypeOK /\ NoticeInv /\ [Next]_vars => NoticeInv'
<1> SUFFICES ASSUME TypeOK, NoticeInv, [Next]_vars PROVE NoticeInv'
  OBVIOUS
<1> USE DEF TypeOK, TaskOK, steady, syncing, signals, changes, NoticeInv
<1>1. CASE Terminate \/ Joined \/ PollDue \/ Forward \/ DebounceFirst \/
          DebounceOver \/ DebounceSend \/ DebounceCancelled \/ TickList \/
          TickDetect \/ TickPush \/ PollFires \/ WatchFires \/ StateChange \/
          LocalChange \/ RemoteChange \/ HookEnds \/ StreamLoss \/ QueueMessage
  BY <1>1
     DEF Terminate, Joined, PollDue, Forward, DebounceFirst, DebounceOver,
     DebounceSend, DebounceCancelled, TickList, TickDetect, TickPush,
     PollFires, WatchFires, StateChange, LocalChange, RemoteChange, HookEnds,
     StreamLoss, QueueMessage, BeginTick
<1>2. CASE Start \/ SetupCancelled \/ SubmitJoined \/ CatchUp \/ LoopReturns \/
          StreamEnded \/ DropOver \/ SubmitCancelled \/ BatchDone \/
          DrainDue \/ NextAttempt \/ AttemptSettled
  BY <1>2
     DEF Start, SetupCancelled, SubmitJoined, CatchUp, LoopReturns,
     StreamEnded, DropOver, SubmitCancelled, BatchDone, DrainDue, NextAttempt,
     AttemptSettled, Goto, At, Worker, Task, BeginTick
<1>3. CASE TickApply \/ TickFails
  BY <1>3 DEF TickApply, TickFails, AfterTick, Goto, At, Worker, Task
<1>4. CASE ClientReady
  BY <1>4, DelayAssumption
     DEF ClientReady, SayUp, Fresh, Goto, At, Worker, Task
<1>5. CASE ClientFails \/ ConnectFails \/ StreamFailed \/ InnerEnds
  BY <1>5
     DEF ClientFails, ConnectFails, StreamFailed, InnerEnds, BackOff, SayDown,
     Goto, At, Worker, Task
<1>6. CASE Connect \/ BroughtUp
  BY <1>6, DelayAssumption
     DEF Connect, BroughtUp, Recover, SayUp, Reset, Goto, At, Worker, Task
<1>7. CASE AttemptSucceeds
  BY <1>7 DEF AttemptSucceeds, SayUp, Goto, At, Worker, Task
<1>8. CASE AttemptFails
  BY <1>8 DEF AttemptFails, SayDown, Goto, At, Worker, Task
<1>9. CASE \E w \in Worker : NetworkAnswers(w)
  BY <1>9 DEF NetworkAnswers, Goto, At, Worker, Task
<1>10. CASE \E w \in Worker : WaitOver(w)
  BY <1>10 DEF WaitOver, Resume, Goto, At, Worker, Task
<1>11. CASE \E w \in Worker : WaitCancelled(w)
  BY <1>11 DEF WaitCancelled, Goto, At, Worker, Task
<1>12. CASE UNCHANGED vars
  BY <1>12 DEF vars
<1> QED BY <1>1, <1>2, <1>3, <1>4, <1>5, <1>6, <1>7, <1>8, <1>9, <1>10, <1>11,
           <1>12
           DEF Next, SyncWorker, SubmitWorker, Debouncer, Environment, Loop,
           Tick, Wait, Worker

\* A connected daemon has not left the user with the notice that the server
\* is unreachable, and a worker that waits longer than at first has said so.
THEOREM NoticesCorrect == Spec => []NoticesAreTrue
<1>1. NoticeInv => NoticesAreTrue
  BY DEF NoticeInv, NoticesAreTrue, At, Worker
<1>2. Spec => []NoticeInv
  BY NoticeInit, NoticeNext, TypeCorrect, PTL DEF Spec
<1> QED BY <1>1, <1>2, PTL

(***************************************************************************)
(* Cancellation                                                            *)
(***************************************************************************)
\* A tick begins in one of four steps, and each has looked at the token.
LEMMA TickBegins ==
    ASSUME [Next]_vars, tick = "none", tick' # "none"
    PROVE  ~Cancelled
<1>1. CatchUp \/ PollFires \/ WatchFires \/ StateChange
  BY DEF vars, Next, SyncWorker, SubmitWorker, Debouncer, Environment, Loop,
     Tick, Wait, syncing, Idle, Start, Joined, PollDue, Forward, DebounceFirst,
     DebounceOver, DebounceSend, DebounceCancelled, TickList, TickDetect,
     TickPush, TickApply, TickFails, ClientReady, ClientFails, SetupCancelled,
     SubmitJoined, LoopReturns, Connect, ConnectFails, StreamEnded,
     StreamFailed, DropOver, NetworkAnswers, WaitOver, WaitCancelled, BroughtUp,
     InnerEnds, SubmitCancelled, DrainDue, NextAttempt, BatchDone,
     AttemptSucceeds, AttemptSettled, AttemptFails, Terminate, LocalChange,
     RemoteChange, HookEnds, StreamLoss, QueueMessage
<1> QED BY <1>1 DEF CatchUp, PollFires, WatchFires, StateChange, Selecting, Turn

\* An attempt begins in one step only, and it has looked at the token.
LEMMA AttemptBegins ==
    ASSUME TypeOK, [Next]_vars, ~At("submit", "attempt"), At("submit", "attempt")'
    PROVE  ~Cancelled
<1> USE DEF At, TypeOK, TaskOK, Worker, Task, steady
<1>1. CASE SubmitWorker
  <2>1. NextAttempt
    BY <1>1 DEF SubmitWorker, Wait, Goto, Recover, BackOff, Resume, BroughtUp,
       InnerEnds, SubmitCancelled, DrainDue, BatchDone, AttemptSucceeds,
       AttemptSettled, AttemptFails, NetworkAnswers, WaitOver, WaitCancelled
  <2> QED BY <2>1 DEF NextAttempt
<1>2. CASE SyncWorker
  BY <1>2 DEF SyncWorker, Loop, Tick, Wait, Goto, Recover, BackOff, AfterTick,
     Resume, Fresh, TickList, TickDetect, TickPush, TickApply, TickFails,
     ClientReady, ClientFails, SetupCancelled, SubmitJoined, CatchUp,
     LoopReturns, Connect, ConnectFails, PollFires, WatchFires, StateChange,
     StreamEnded, StreamFailed, DropOver, NetworkAnswers, WaitOver,
     WaitCancelled
<1>3. CASE Start
  BY <1>3 DEF Start
<1>4. CASE Joined \/ PollDue \/ Forward \/ Debouncer \/ Environment
  BY <1>4 DEF Joined, PollDue, Forward, Debouncer, Environment, DebounceFirst,
     DebounceOver, DebounceSend, DebounceCancelled, Terminate, LocalChange,
     RemoteChange, HookEnds, StreamLoss, QueueMessage
<1> QED BY <1>1, <1>2, <1>3, <1>4 DEF vars, Next

\* Once the signal is there no task begins a tick or a send attempt, whatever
\* else is ready at that moment.
THEOREM CancellationIsFinal == Spec => NothingBeginsOnceCancelled
<1>1. TypeOK /\ [Next]_vars =>
        [Cancelled => /\ tick = "none" => tick' = "none"
                      /\ At("submit", "attempt")' => At("submit", "attempt")]_vars
  BY TickBegins, AttemptBegins
<1> QED BY <1>1, TypeCorrect, PTL DEF Spec, NothingBeginsOnceCancelled

=============================================================================
