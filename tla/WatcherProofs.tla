---------------------------- MODULE WatcherProofs ----------------------------
(***************************************************************************)
(* Theorems about Watcher, for every set of files, channel capacity,       *)
(* debounce window, FTS interval and number of faults and restarts.        *)
(***************************************************************************)
EXTENDS Watcher, TLAPS

-----------------------------------------------------------------------------
(***************************************************************************)
(* The inductive invariant. Beside the types: the daemon never consumes    *)
(* what is not written; an event handler has a file; sync_all holds a file *)
(* only while it goes through them, and does not run before the watcher    *)
(* has been tried.                                                         *)
(***************************************************************************)
Handling == {"isnew", "stat", "sync", "announce", "flag"}

TasksInv ==
  /\ \A f \in File : offset[f] <= written[f]
  /\ loop \in Handling => cur \in File
  /\ allFile # NoFile => all = "files"
  /\ watch = "off" => all = "off" /\ loop = "off"

(* Without a fault, whoever has been announced has rows, and a handler that *)
(* took its file for a new one is the only one to announce it.             *)
StartedInv ==
  faults = 0 =>
    \A f \in File :
      /\ startedSent[f] <= 1
      /\ startedSent[f] > 0 => offset[f] > 0
      /\ cur = f /\ loop \in {"stat", "sync", "announce"} /\ wasNew => startedSent[f] = 0
      /\ cur = f /\ loop = "announce" => offset[f] > 0

IInv == TypeOK /\ TasksInv /\ StartedInv /\ LagExplained /\ StaleIsPlanned

LEMMA InvInit == Init => IInv
<1> SUFFICES ASSUME Init PROVE IInv
  OBVIOUS
<1>1. TypeOK
  <2>1. DataTypeOK
    BY MaxLinesAssumption, BoundsAssumption DEF Init, DataTypeOK
  <2>2. /\ allSynced \in BOOLEAN /\ wasNew \in BOOLEAN /\ cancelled \in BOOLEAN
        /\ dirty \in BOOLEAN
    BY Zenon DEF Init
  <2>3. allSize \in 0 .. MaxLines /\ size \in 0 .. MaxLines
    BY MaxLinesAssumption DEF Init
  <2>4. sinceSync \in [File -> 0 .. DebounceTicks] /\ slept \in 0 .. FtsTicks
    BY TicksAssumption DEF Init
  <2>5. SyncAllTypeOK
    BY <2>2, <2>3 DEF Init, SyncAllTypeOK
  <2>6. LoopTypeOK
    BY <2>2, <2>3, <2>4, CapacityAssumption DEF Init, LoopTypeOK
  <2> QED  BY <2>1, <2>5, <2>6 DEF TypeOK
<1>2. TasksInv /\ StartedInv
  BY DEF Init, TasksInv, StartedInv, Handling
<1>3. LagExplained /\ StaleIsPlanned
  BY DEF Init, LagExplained, StaleIsPlanned, RebuiltOrForgotten, MessagesNotForgotten
<1> QED  BY <1>1, <1>2, <1>3 DEF IInv

-----------------------------------------------------------------------------
(* Types.                                                                  *)

(* What the tasks commit, whole or in part, lies between the old offset    *)
(* and the end of the file.                                                *)
LEMMA Commits ==
  ASSUME TypeOK, TasksInv, NEW f \in File, CommitFile(f) \/ CommitPart(f)
  PROVE  /\ offset' \in [File -> 0 .. MaxLines]
         /\ \A g \in File : offset[g] <= offset'[g] /\ offset'[g] <= written[g]
         /\ \A g \in File \ {f} : offset'[g] = offset[g]
         /\ stale' \in {stale, Index}
         /\ stale' \subseteq Index
<1>1. PICK n \in Nat : /\ offset[f] <= n /\ n <= written[f]
                       /\ CommitTo(f, n)
  <2>1. offset[f] \in Nat /\ written[f] \in Nat /\ offset[f] <= written[f]
    BY MaxLinesAssumption DEF TypeOK, DataTypeOK, TasksInv
  <2>2. CASE CommitFile(f)
    BY <2>1, <2>2 DEF CommitFile
  <2>3. CASE CommitPart(f)
    BY <2>1, <2>3 DEF CommitPart
  <2> QED  BY <2>2, <2>3
<1>2. offset' = [offset EXCEPT ![f] = n] /\ stale' \in {stale, Index}
  BY <1>1 DEF CommitTo
<1>3. n \in 0 .. MaxLines
  BY <1>1, MaxLinesAssumption DEF TypeOK, DataTypeOK
<1>4. \A g \in File : offset'[g] = IF g = f THEN n ELSE offset[g]
  BY <1>2 DEF TypeOK, DataTypeOK
<1>5. \A g \in File : offset[g] \in Nat /\ offset[g] <= written[g]
  BY MaxLinesAssumption DEF TypeOK, DataTypeOK, TasksInv
<1>6. offset' \in [File -> 0 .. MaxLines]
  BY <1>2, <1>3 DEF TypeOK, DataTypeOK
<1>7. stale' \in {stale, Index} /\ stale' \subseteq Index
  BY <1>2 DEF TypeOK, DataTypeOK
<1> QED  BY <1>1, <1>4, <1>5, <1>6, <1>7

LEMMA TakesEvent ==
  ASSUME TypeOK, Receive
  PROVE  chan' \in Seq(Event) /\ Len(chan') <= Capacity
<1>1. chan \in Seq(Event) /\ Len(chan) <= Capacity /\ chan # <<>>
  BY DEF TypeOK, LoopTypeOK, Receive
<1>2. chan' \in Seq(Event) /\ Len(chan') = Len(chan) - 1
  BY <1>1 DEF Receive
<1> QED  BY <1>1, <1>2, CapacityAssumption

LEMMA SetsOff ==
  ASSUME BackToSelect
  PROVE  /\ loop' = "select" /\ cur' = NoFile /\ size' \in 0 .. MaxLines
         /\ wasNew' = FALSE /\ slept' \in 0 .. FtsTicks
  BY MaxLinesAssumption, TicksAssumption DEF BackToSelect

LEMMA DataSame ==
  ASSUME DataTypeOK, UNCHANGED <<written, unnoticed, offset, stale, obsVars>>
  PROVE  DataTypeOK'
  BY DEF DataTypeOK, obsVars

LEMMA SyncAllSame ==
  ASSUME SyncAllTypeOK, UNCHANGED allVars
  PROVE  SyncAllTypeOK'
  BY DEF SyncAllTypeOK, allVars

LEMMA LoopSame ==
  ASSUME LoopTypeOK, UNCHANGED <<watch, chan, cancelled, loop, handlerVars, dirty, timeVars>>
  PROVE  LoopTypeOK'
  BY DEF LoopTypeOK, handlerVars, timeVars

(* The outside: writer, notifications, clock, signal, restart.             *)
LEMMA OutsideTyped ==
  ASSUME TypeOK,
         \/ \E f \in File : Write(f) \/ Notify(f)
         \/ OtherEvent \/ Tick \/ Signal \/ Restart \/ UNCHANGED vars
  PROVE  TypeOK'
<1>1. CASE UNCHANGED vars
  BY <1>1, DataSame, SyncAllSame, LoopSame DEF vars, diskVars, dbVars, TypeOK
<1>2. ASSUME NEW f \in File, Write(f)
      PROVE  TypeOK'
  <2>1. written[f] + 1 \in 0 .. MaxLines
    BY <1>2, MaxLinesAssumption DEF Write, TypeOK, DataTypeOK
  <2>2. DataTypeOK'
    BY <1>2, <2>1 DEF Write, TypeOK, DataTypeOK, dbVars, obsVars
  <2> QED  BY <1>2, <2>2, SyncAllSame, LoopSame DEF Write, TypeOK
<1>3. ASSUME NEW f \in File, Notify(f)
      PROVE  TypeOK'
  <2>1. chan' \in Seq(Event) /\ Len(chan') <= Capacity
    BY <1>3, CapacityAssumption DEF Notify, TypeOK, LoopTypeOK, HasRoom, Event
  <2>2. DataTypeOK'
    BY <1>3 DEF Notify, TypeOK, DataTypeOK, dbVars
  <2>3. LoopTypeOK'
    BY <1>3, <2>1 DEF Notify, TypeOK, LoopTypeOK, handlerVars, timeVars
  <2> QED  BY <1>3, <2>2, <2>3, SyncAllSame DEF Notify, TypeOK
<1>4. CASE OtherEvent
  <2>1. chan' \in Seq(Event) /\ Len(chan') <= Capacity
    BY <1>4, CapacityAssumption DEF OtherEvent, TypeOK, LoopTypeOK, HasRoom, Event
  <2>2. LoopTypeOK'
    BY <1>4, <2>1 DEF OtherEvent, TypeOK, LoopTypeOK, handlerVars, timeVars
  <2> QED  BY <1>4, <2>2, DataSame, SyncAllSame DEF OtherEvent, TypeOK, diskVars, dbVars
<1>5. CASE Tick
  <2>1. sinceSync' \in [File -> 0 .. DebounceTicks] /\ slept' \in 0 .. FtsTicks
    BY <1>5, TicksAssumption DEF Tick, Older, TypeOK, LoopTypeOK
  <2>2. LoopTypeOK'
    BY <1>5, <2>1 DEF Tick, TypeOK, LoopTypeOK, handlerVars
  <2> QED  BY <1>5, <2>2, DataSame, SyncAllSame DEF Tick, TypeOK, diskVars, dbVars
<1>6. CASE Signal
  <2>1. LoopTypeOK'
    BY <1>6 DEF Signal, TypeOK, LoopTypeOK, handlerVars, timeVars
  <2> QED  BY <1>6, <2>1, DataSame, SyncAllSame DEF Signal, TypeOK, diskVars, dbVars
<1>7. CASE Restart
  <2>1. DataTypeOK'
    BY <1>7, BoundsAssumption DEF Restart, TypeOK, DataTypeOK, dbVars
  <2>2. /\ allSynced' \in BOOLEAN /\ wasNew' \in BOOLEAN /\ cancelled' \in BOOLEAN
        /\ dirty' \in BOOLEAN
    BY <1>7, Zenon DEF Restart
  <2>3. allSize' \in 0 .. MaxLines /\ size' \in 0 .. MaxLines
    BY <1>7, MaxLinesAssumption DEF Restart
  <2>4. sinceSync' \in [File -> 0 .. DebounceTicks] /\ slept' \in 0 .. FtsTicks
    BY <1>7, TicksAssumption DEF Restart
  <2>5. SyncAllTypeOK'
    BY <1>7, <2>2, <2>3 DEF Restart, SyncAllTypeOK
  <2>6. LoopTypeOK'
    BY <1>7, <2>2, <2>3, <2>4, CapacityAssumption DEF Restart, LoopTypeOK
  <2> QED  BY <2>1, <2>5, <2>6 DEF TypeOK
<1> QED  BY <1>1, <1>2, <1>3, <1>4, <1>5, <1>6, <1>7

LEMMA SyncAllTyped ==
  ASSUME TypeOK, TasksInv, SpawnWatcher \/ SyncAllStep
  PROVE  TypeOK'
<1>1. CASE SpawnWatcher
  <2>1. LoopTypeOK'
    BY <1>1 DEF SpawnWatcher, TypeOK, LoopTypeOK, handlerVars, timeVars
  <2> QED  BY <1>1, <2>1, DataSame, SyncAllSame DEF SpawnWatcher, TypeOK, diskVars, dbVars
<1>2. CASE SyncAllStart \/ AllFilesDone \/ \E f \in File : AllStat(f)
  <2>1. SyncAllTypeOK'
    BY <1>2 DEF SyncAllStart, Walk, AllFilesDone, AllStat, TypeOK, SyncAllTypeOK, DataTypeOK
  <2> QED
    BY <1>2, <2>1, DataSame, LoopSame
    DEF SyncAllStart, Walk, AllFilesDone, AllStat, TypeOK, diskVars, dbVars
<1>3. CASE AllSync
  <2>1. allFile \in File
    BY <1>3 DEF AllSync, TypeOK, SyncAllTypeOK
  <2>2. offset' \in [File -> 0 .. MaxLines] /\ stale' \subseteq Index
    BY <1>3, <2>1, Commits DEF AllSync, TypeOK, DataTypeOK, dbVars
  <2>3. missed' \subseteq File /\ faults' \in 0 .. MaxFaults /\ forgotten' \subseteq Index
    BY <1>3, <2>1, <2>2, BoundsAssumption
    DEF AllSync, TypeOK, DataTypeOK, CommitFile, CommitPart, Fault
  <2>4. DataTypeOK'
    BY <1>3, <2>2, <2>3 DEF AllSync, TypeOK, DataTypeOK, diskVars
  <2>5. allSynced' \in BOOLEAN
    BY <1>3, Zenon DEF AllSync, TypeOK, SyncAllTypeOK
  <2>6. allSize' \in 0 .. MaxLines
    BY <1>3, MaxLinesAssumption DEF AllSync, AllFileDone
  <2>7. SyncAllTypeOK'
    BY <1>3, <2>5, <2>6 DEF AllSync, AllFileDone, TypeOK, SyncAllTypeOK
  <2> QED  BY <1>3, <2>4, <2>7, LoopSame DEF AllSync, TypeOK
<1>4. CASE AllRebuild
  <2>1. stale' \subseteq Index /\ faults' \in 0 .. MaxFaults /\ forgotten' \subseteq Index
    BY <1>4, BoundsAssumption DEF AllRebuild, TypeOK, DataTypeOK, Fault
  <2>2. DataTypeOK'
    BY <1>4, <2>1 DEF AllRebuild, TypeOK, DataTypeOK, diskVars
  <2>3. SyncAllTypeOK'
    BY <1>4 DEF AllRebuild, TypeOK, SyncAllTypeOK
  <2> QED  BY <1>4, <2>2, <2>3, LoopSame DEF AllRebuild, TypeOK
<1> QED  BY <1>1, <1>2, <1>3, <1>4 DEF SyncAllStep

LEMMA EventTyped ==
  ASSUME TypeOK, OpenGate \/ TakeEvent \/ Exit \/ FtsTimer
  PROVE  TypeOK'
<1>1. SyncAllTypeOK'
  BY SyncAllSame
  DEF OpenGate, TakeEvent, IgnoreOther, Debounce, Accept, Exit, FtsTimer, RebuildNotDue,
      Rebuild, RebuildFails, RebuildIndexes, TypeOK
<1>2. DataTypeOK'
  <2>1. CASE OpenGate \/ IgnoreOther \/ Accept \/ RebuildNotDue
    BY <2>1, DataSame DEF OpenGate, IgnoreOther, Accept, RebuildNotDue, TypeOK, diskVars, dbVars
  <2>2. CASE Debounce \/ Exit
    BY <2>2 DEF Debounce, Exit, TypeOK, DataTypeOK, diskVars, dbVars
  <2>3. CASE Rebuild \/ RebuildFails
    BY <2>3, BoundsAssumption
    DEF Rebuild, RebuildFails, RebuildIndexes, Fault, TypeOK, DataTypeOK, diskVars
  <2> QED  BY <2>1, <2>2, <2>3 DEF TakeEvent, FtsTimer
<1>3. LoopTypeOK'
  <2>1. CASE OpenGate \/ FtsTimer
    BY <2>1, SetsOff
    DEF OpenGate, FtsTimer, RebuildNotDue, Rebuild, RebuildFails, RebuildIndexes,
        TypeOK, LoopTypeOK
  <2>2. CASE IgnoreOther \/ Debounce
    BY <2>2, SetsOff, TakesEvent DEF IgnoreOther, Debounce, TypeOK, LoopTypeOK
  <2>3. CASE Accept
    <3>1. sinceSync' \in [File -> 0 .. DebounceTicks]
      BY <2>3, TicksAssumption DEF Accept, TypeOK, LoopTypeOK
    <3> QED  BY <2>3, <3>1, TakesEvent DEF Accept, TypeOK, LoopTypeOK
  <2>4. CASE Exit
    BY <2>4, CapacityAssumption, TicksAssumption DEF Exit, TypeOK, LoopTypeOK, handlerVars
  <2> QED  BY <2>1, <2>2, <2>3, <2>4 DEF TakeEvent
<1> QED  BY <1>1, <1>2, <1>3 DEF TypeOK

LEMMA HandlerTyped ==
  ASSUME TypeOK, TasksInv, Handler
  PROVE  TypeOK'
<1>1. SyncAllTypeOK'
  BY SyncAllSame
  DEF Handler, IsNewFile, Stat, SyncNothing, SyncRecords, Announce, MarkDirty, TypeOK
<1>2. cur \in File
  BY DEF TasksInv, Handling, Handler, IsNewFile, Stat, SyncNothing, SyncRecords, Announce, MarkDirty
<1>3. DataTypeOK'
  <2>1. CASE IsNewFile
    BY <2>1, BoundsAssumption DEF IsNewFile, Fault, TypeOK, DataTypeOK, diskVars, dbVars
  <2>2. CASE Stat
    BY <2>2, DataSame DEF Stat, TypeOK, diskVars, dbVars
  <2>3. CASE SyncNothing \/ SyncRecords
    <3>1. offset' \in [File -> 0 .. MaxLines] /\ stale' \subseteq Index
      BY <1>2, <2>3, Commits DEF SyncNothing, SyncRecords, TypeOK, DataTypeOK, dbVars
    <3>2. missed' \subseteq File /\ faults' \in 0 .. MaxFaults /\ forgotten' \subseteq Index
      BY <1>2, <2>3, <3>1, BoundsAssumption
      DEF SyncNothing, SyncRecords, TypeOK, DataTypeOK, CommitFile, CommitPart, Fault
    <3> QED  BY <2>3, <3>1, <3>2 DEF SyncNothing, SyncRecords, TypeOK, DataTypeOK, diskVars
  <2>4. CASE Announce
    BY <1>2, <2>4 DEF Announce, TypeOK, DataTypeOK, diskVars, dbVars
  <2>5. CASE MarkDirty
    BY <2>5 DEF MarkDirty, TypeOK, DataTypeOK, diskVars, dbVars
  <2> QED  BY <2>1, <2>2, <2>3, <2>4, <2>5 DEF Handler
<1>4. LoopTypeOK'
  <2>1. CASE IsNewFile
    BY <2>1 DEF IsNewFile, TypeOK, LoopTypeOK, timeVars
  <2>2. CASE Stat
    BY <1>2, <2>2 DEF Stat, TypeOK, LoopTypeOK, DataTypeOK, timeVars
  <2>3. CASE SyncNothing \/ MarkDirty
    BY <2>3, SetsOff DEF SyncNothing, MarkDirty, TypeOK, LoopTypeOK
  <2>4. CASE SyncRecords \/ Announce
    BY <2>4 DEF SyncRecords, Announce, TypeOK, LoopTypeOK, handlerVars, timeVars
  <2> QED  BY <2>1, <2>2, <2>3, <2>4 DEF Handler
<1> QED  BY <1>1, <1>3, <1>4 DEF TypeOK

LEMMA TypeStep == TypeOK /\ TasksInv /\ [Next]_vars => TypeOK'
  BY OutsideTyped, SyncAllTyped, EventTyped, HandlerTyped DEF Next

-----------------------------------------------------------------------------
(* The tasks, and the session:started events.                              *)
LEMMA TasksStep == TypeOK /\ TasksInv /\ [Next]_vars => TasksInv'
<1> SUFFICES ASSUME TypeOK, TasksInv, [Next]_vars
             PROVE  TasksInv'
  OBVIOUS
<1>1. \A f \in File : offset'[f] <= written'[f]
  <2>1. CASE UNCHANGED <<offset, written>>
    BY <2>1 DEF TasksInv
  <2>2. ASSUME NEW f \in File, Write(f)
        PROVE  \A g \in File : offset'[g] <= written'[g]
    <3>1. written \in [File -> Nat] /\ offset \in [File -> Nat]
      BY MaxLinesAssumption DEF TypeOK, DataTypeOK
    <3> QED  BY <2>2, <3>1 DEF Write, TasksInv, dbVars
  <2>3. ASSUME NEW f \in File, CommitFile(f) \/ CommitPart(f), UNCHANGED written
        PROVE  \A g \in File : offset'[g] <= written'[g]
    BY <2>3, Commits
  <2>4. CASE AllSync
    <3>1. allFile \in File
      BY <2>4 DEF AllSync, TypeOK, SyncAllTypeOK
    <3> QED  BY <2>1, <2>3, <2>4, <3>1 DEF AllSync, dbVars, diskVars
  <2>5. CASE SyncNothing \/ SyncRecords
    <3>1. cur \in File
      BY <2>5 DEF SyncNothing, SyncRecords, TasksInv, Handling
    <3> QED  BY <2>1, <2>3, <2>5, <3>1 DEF SyncNothing, SyncRecords, dbVars, diskVars
  <2>6. CASE SpawnWatcher \/ SyncAllStart \/ AllFilesDone \/ AllRebuild
             \/ \E f \in File : AllStat(f) \/ Notify(f)
    BY <2>1, <2>6
    DEF SpawnWatcher, SyncAllStart, Walk, AllFilesDone, AllRebuild, AllStat, Notify, dbVars, diskVars
  <2>7. CASE OpenGate \/ TakeEvent \/ Exit \/ FtsTimer
    BY <2>1, <2>7
    DEF OpenGate, TakeEvent, IgnoreOther, Debounce, Accept, Exit, FtsTimer, RebuildNotDue,
        Rebuild, RebuildFails, RebuildIndexes, dbVars, diskVars
  <2>8. CASE IsNewFile \/ Stat \/ Announce \/ MarkDirty
    BY <2>1, <2>8 DEF IsNewFile, Stat, Announce, MarkDirty, dbVars, diskVars
  <2>9. CASE OtherEvent \/ Tick \/ Signal \/ Restart \/ UNCHANGED vars
    BY <2>1, <2>9 DEF OtherEvent, Tick, Signal, Restart, vars, dbVars, diskVars
  <2> QED
    BY <2>2, <2>4, <2>5, <2>6, <2>7, <2>8, <2>9 DEF Next, SyncAllStep, Handler
<1>2. loop' \in Handling => cur' \in File
  <2>1. CASE UNCHANGED <<loop, cur>>
    BY <2>1 DEF TasksInv
  <2>2. CASE SpawnWatcher \/ Exit \/ Restart
    BY <2>2 DEF SpawnWatcher, Exit, Restart, TasksInv, Handling, handlerVars
  <2>3. CASE BackToSelect
    BY <2>3 DEF BackToSelect, Handling
  <2>4. CASE Accept
    BY <2>4 DEF Accept
  <2>5. CASE IsNewFile \/ Stat \/ SyncRecords \/ Announce
    BY <2>5 DEF IsNewFile, Stat, SyncRecords, Announce, TasksInv, Handling, handlerVars
  <2>6. CASE OpenGate \/ IgnoreOther \/ Debounce \/ FtsTimer \/ SyncNothing \/ MarkDirty
    BY <2>3, <2>6
    DEF OpenGate, IgnoreOther, Debounce, FtsTimer, RebuildNotDue, Rebuild, RebuildFails,
        RebuildIndexes, SyncNothing, MarkDirty
  <2>7. CASE SyncAllStep \/ OtherEvent \/ Tick \/ Signal \/ UNCHANGED vars
             \/ \E f \in File : Write(f) \/ Notify(f)
    BY <2>1, <2>7
    DEF SyncAllStep, SyncAllStart, Walk, AllStat, AllSync, AllFilesDone, AllRebuild, OtherEvent,
        Tick, Signal, Write, Notify, vars, handlerVars
  <2> QED
    BY <2>2, <2>4, <2>5, <2>6, <2>7 DEF Next, TakeEvent, Handler
<1>3. (allFile' # NoFile => all' = "files") /\ (watch' = "off" => all' = "off")
  <2>1. CASE UNCHANGED <<all, allFile, watch>>
    BY <2>1 DEF TasksInv
  <2>2. CASE SpawnWatcher \/ SyncAllStep \/ Restart
    BY <2>2
    DEF SpawnWatcher, SyncAllStep, SyncAllStart, Walk, AllStat, AllSync, AllFileDone,
        AllFilesDone, AllRebuild, Restart, TasksInv, allVars
  <2>3. CASE OpenGate \/ TakeEvent \/ Exit \/ FtsTimer
    BY <2>1, <2>3
    DEF OpenGate, TakeEvent, IgnoreOther, Debounce, Accept, Exit, FtsTimer, RebuildNotDue,
        Rebuild, RebuildFails, RebuildIndexes, allVars
  <2>4. CASE Handler
    BY <2>1, <2>4
    DEF Handler, IsNewFile, Stat, SyncNothing, SyncRecords, Announce, MarkDirty, allVars
  <2>5. CASE OtherEvent \/ Tick \/ Signal \/ UNCHANGED vars \/ \E f \in File : Write(f) \/ Notify(f)
    BY <2>1, <2>5 DEF OtherEvent, Tick, Signal, Write, Notify, vars, allVars
  <2> QED
    BY <2>2, <2>3, <2>4, <2>5 DEF Next
<1>4. watch' = "off" => loop' = "off"
  <2>1. CASE UNCHANGED <<loop, watch>>
    BY <2>1 DEF TasksInv
  <2>2. CASE SpawnWatcher \/ Restart
    BY <2>2 DEF SpawnWatcher, Restart
  <2>3. CASE OpenGate \/ TakeEvent \/ Handler \/ Exit \/ FtsTimer
    <3>1. loop # "off" /\ watch' = watch
      BY <2>3
      DEF OpenGate, TakeEvent, IgnoreOther, Debounce, Accept, Receive, Handler, IsNewFile, Stat,
          SyncNothing, SyncRecords, Announce, MarkDirty, Exit, FtsTimer, RebuildNotDue,
          Rebuild, RebuildFails, RebuildIndexes, TimerFires
    <3> QED  BY <3>1 DEF TasksInv
  <2>4. CASE SyncAllStep \/ OtherEvent \/ Tick \/ Signal \/ UNCHANGED vars
             \/ \E f \in File : Write(f) \/ Notify(f)
    BY <2>1, <2>4
    DEF SyncAllStep, SyncAllStart, Walk, AllStat, AllSync, AllFilesDone, AllRebuild, OtherEvent,
        Tick, Signal, Write, Notify, vars
  <2> QED
    BY <2>2, <2>3, <2>4 DEF Next
<1> QED  BY <1>1, <1>2, <1>3, <1>4 DEF TasksInv

(* A failing call leaves nothing to prove, and offsets only grow.          *)
LEMMA StartedKept ==
  ASSUME TypeOK, StartedInv, faults' \in Nat, faults <= faults', startedSent' = startedSent,
         \A f \in File : offset[f] > 0 => offset'[f] > 0,
         \/ UNCHANGED <<loop, cur, wasNew>>
         \/ loop' \notin {"stat", "sync", "announce"}
  PROVE  StartedInv'
<1>1. faults \in Nat
  BY BoundsAssumption DEF TypeOK, DataTypeOK
<1>2. faults' = 0 => faults = 0
  BY <1>1
<1> QED  BY <1>2 DEF StartedInv

LEMMA StartedStep == TypeOK /\ TasksInv /\ StartedInv /\ [Next]_vars => StartedInv'
<1> SUFFICES ASSUME TypeOK, TasksInv, StartedInv, [Next]_vars
             PROVE  StartedInv'
  OBVIOUS
<1>1. /\ faults \in Nat /\ (Fault => faults' \in Nat /\ faults <= faults' /\ faults' # 0)
      /\ startedSent \in [File -> Nat] /\ offset \in [File -> Nat] /\ written \in [File -> Nat]
  BY MaxLinesAssumption, BoundsAssumption DEF TypeOK, DataTypeOK, Fault
<1>2. ASSUME NEW f \in File, CommitFile(f) \/ CommitPart(f)
      PROVE  \A g \in File : offset[g] > 0 => offset'[g] > 0
  BY <1>1, <1>2, Commits, MaxLinesAssumption
<1>3. CASE UNCHANGED <<offset, faults, startedSent, loop, cur, wasNew>>
  BY <1>1, <1>3, StartedKept
<1>4. CASE OtherEvent \/ Tick \/ Signal \/ UNCHANGED vars \/ \E f \in File : Write(f) \/ Notify(f)
  BY <1>3, <1>4 DEF OtherEvent, Tick, Signal, Write, Notify, vars, dbVars, handlerVars, obsVars
<1>5. CASE SyncAllStart \/ AllFilesDone \/ \E f \in File : AllStat(f)
  BY <1>3, <1>5 DEF SyncAllStart, Walk, AllFilesDone, AllStat, dbVars, handlerVars, obsVars
<1>6. CASE AllRebuild
  BY <1>1, <1>6, StartedKept DEF AllRebuild, handlerVars
<1>7. CASE AllSync
  <2>1. allFile \in File
    BY <1>7 DEF AllSync, TypeOK, SyncAllTypeOK
  <2>2. \A g \in File : offset[g] > 0 => offset'[g] > 0
    BY <1>2, <1>7, <2>1 DEF AllSync, dbVars
  <2>3. UNCHANGED faults \/ Fault
    BY <1>7 DEF AllSync, CommitPart
  <2> QED  BY <1>1, <1>7, <2>2, <2>3, StartedKept DEF AllSync, handlerVars
<1>8. CASE SpawnWatcher \/ OpenGate \/ TakeEvent \/ Exit \/ MarkDirty \/ Restart \/ RebuildNotDue
  <2>1. UNCHANGED <<faults, startedSent, offset>>
    BY <1>8
    DEF SpawnWatcher, OpenGate, TakeEvent, IgnoreOther, Debounce, Accept, Exit, MarkDirty,
        Restart, RebuildNotDue, dbVars, obsVars
  <2>2. UNCHANGED <<loop, cur, wasNew>> \/ loop' \notin {"stat", "sync", "announce"}
    <3>1. CASE SpawnWatcher \/ Restart
      BY <3>1 DEF SpawnWatcher, Restart, handlerVars
    <3>2. CASE OpenGate \/ TakeEvent \/ Exit \/ MarkDirty \/ RebuildNotDue
      BY <3>2
      DEF OpenGate, TakeEvent, IgnoreOther, Debounce, Accept, Exit, MarkDirty, RebuildNotDue,
          BackToSelect
    <3> QED  BY <1>8, <3>1, <3>2
  <2> QED  BY <1>1, <2>1, <2>2, StartedKept
<1>9. CASE Rebuild \/ RebuildFails
  BY <1>1, <1>9, StartedKept DEF Rebuild, RebuildFails, RebuildIndexes, BackToSelect
<1>10. CASE IsNewFile
  <2>1. CASE wasNew' = (offset[cur] = 0) /\ UNCHANGED faults
    <3>1. wasNew' => offset[cur] = 0
      BY <2>1, Zenon
    <3>2. UNCHANGED <<offset, startedSent, cur, faults>> /\ loop' = "stat"
      BY <1>10, <2>1 DEF IsNewFile, dbVars
    <3> SUFFICES ASSUME faults = 0, NEW f \in File, cur = f, wasNew'
                 PROVE  startedSent[f] = 0
      BY <3>2 DEF StartedInv
    <3> QED  BY <1>1, <3>1 DEF StartedInv
  <2>2. CASE Fault
    BY <1>1, <2>2 DEF StartedInv
  <2> QED  BY <1>10, <2>1, <2>2 DEF IsNewFile
<1>11. CASE Stat
  BY <1>11 DEF Stat, StartedInv, dbVars, obsVars
<1>12. CASE SyncNothing
  <2>1. cur \in File
    BY <1>12 DEF SyncNothing, TasksInv, Handling
  <2>2. faults' \in Nat /\ faults <= faults'
    BY <1>1, <1>12 DEF SyncNothing, CommitPart
  <2>3. \A g \in File : offset[g] > 0 => offset'[g] > 0
    BY <1>2, <1>12, <2>1 DEF SyncNothing, dbVars
  <2> QED  BY <1>12, <2>2, <2>3, StartedKept DEF SyncNothing, BackToSelect
<1>13. CASE SyncRecords
  <2>1. cur \in File
    BY <1>13 DEF SyncRecords, TasksInv, Handling
  <2>2. \A g \in File : offset[g] > 0 => offset'[g] > 0
    BY <1>2, <1>13, <2>1 DEF SyncRecords
  <2>3. offset'[cur] > 0
    <3>1. offset'[cur] = written[cur]
      BY <1>1, <1>13, <2>1 DEF SyncRecords, CommitFile, CommitTo
    <3>2. PICK k \in offset[cur] + 1 .. written[cur] : TRUE
      BY <1>13 DEF SyncRecords, NewRecords, Records
    <3> QED  BY <1>1, <2>1, <3>1, <3>2
  <2> QED
    BY <1>13, <2>1, <2>2, <2>3 DEF SyncRecords, StartedInv, handlerVars
<1>14. CASE Announce
  <2>1. cur \in File
    BY <1>14 DEF Announce, TasksInv, Handling
  <2>2. UNCHANGED <<faults, offset>> /\ loop' = "flag"
    BY <1>14 DEF Announce, dbVars
  <2> SUFFICES ASSUME faults = 0, NEW f \in File
               PROVE  startedSent'[f] <= 1 /\ (startedSent'[f] > 0 => offset[f] > 0)
    BY <2>2 DEF StartedInv
  <2>3. CASE startedSent'[f] = startedSent[f]
    BY <2>3 DEF StartedInv
  <2>4. CASE wasNew /\ f = cur
    BY <1>1, <1>14, <2>4 DEF Announce, StartedInv
  <2> QED  BY <1>1, <1>14, <2>1, <2>3, <2>4 DEF Announce
<1> QED
  BY <1>4, <1>5, <1>6, <1>7, <1>8, <1>9, <1>10, <1>11, <1>12, <1>13, <1>14
  DEF Next, SyncAllStep, FtsTimer, Handler

-----------------------------------------------------------------------------
(* The lag. What is queued stays so until it is taken.                     *)
LEMMA Enqueued ==
  ASSUME TypeOK, NEW e, chan' = Append(chan, e)
  PROVE  \A f \in File : Queued(f) \/ e = f => Queued(f)'
<1>1. chan \in Seq(Event) /\ Len(chan') = Len(chan) + 1 /\ Len(chan) \in Nat
  BY DEF TypeOK, LoopTypeOK
<1>2. chan'[Len(chan) + 1] = e /\ \A i \in 1 .. Len(chan) : chan'[i] = chan[i]
  BY <1>1
<1> QED  BY <1>1, <1>2 DEF Queued

LEMMA Dequeued ==
  ASSUME TypeOK, Receive
  PROVE  \A f \in File : Queued(f) /\ Head(chan) # f => Queued(f)'
<1> SUFFICES ASSUME NEW f \in File, Queued(f), Head(chan) # f
             PROVE  Queued(f)'
  OBVIOUS
<1>1. chan \in Seq(Event) /\ chan # <<>> /\ chan' = Tail(chan)
  BY DEF TypeOK, LoopTypeOK, Receive
<1>2. PICK i \in 1 .. Len(chan) : chan[i] = f
  BY DEF Queued
<1>3. i # 1
  BY <1>1, <1>2
<1>4. i - 1 \in 1 .. Len(chan') /\ chan'[i - 1] = chan[i]
  BY <1>1, <1>2, <1>3
<1> QED  BY <1>2, <1>4 DEF Queued

(* A file on which nothing new is written and no reader gives up.          *)
Lags(f) == watch = "on" /\ loop # "exited" /\ offset[f] < written[f]

LEMMA LagKept ==
  ASSUME LagExplained, UNCHANGED <<written, offset>>,
         \/ UNCHANGED <<watch, loop>>
         \/ watch' = watch /\ loop # "exited",
         \A f \in File :
           Lags(f)' /\ (WillBeRead(f) \/ f \in missed) => WillBeRead(f)' \/ f \in missed'
  PROVE  LagExplained'
  BY DEF LagExplained, Lags

LEMMA AllLag ==
  ASSUME TypeOK, TasksInv, LagExplained, SpawnWatcher \/ SyncAllStep
  PROVE  LagExplained'
<1>1. \A f \in File : offset[f] \in Nat /\ written[f] \in Nat /\ offset[f] <= written[f]
  BY MaxLinesAssumption DEF TypeOK, DataTypeOK, TasksInv
<1>2. CASE SpawnWatcher
  BY <1>2 DEF SpawnWatcher, TasksInv, LagExplained, WillBeRead, allVars
<1>3. CASE SyncAllStart
  <2> SUFFICES ASSUME NEW f \in File, offset[f] < written[f]
               PROVE  f \in allTodo'
    BY <1>3 DEF SyncAllStart, Walk, LagExplained, WillBeRead, diskVars, dbVars
  <2> QED  BY <1>1, <1>3 DEF SyncAllStart, Walk
<1>4. ASSUME NEW g \in File, AllStat(g)
      PROVE  LagExplained'
  <2>1. UNCHANGED <<written, offset, unnoticed, chan, watch, loop, cur, size, missed, all>>
        /\ allFile = NoFile /\ allFile' = g /\ allSize' = written[g] /\ allTodo' = allTodo \ {g}
    BY <1>4 DEF AllStat, diskVars, dbVars, handlerVars, obsVars
  <2> SUFFICES ASSUME NEW f \in File, Lags(f)', WillBeRead(f) \/ f \in missed
               PROVE  WillBeRead(f)' \/ f \in missed'
    BY <2>1, LagKept
  <2>2. CASE f = g
    BY <2>1, <2>2 DEF WillBeRead, Lags
  <2>3. CASE f # g
    BY <2>1, <2>3, NoFileAssumption DEF WillBeRead, Queued
  <2> QED  BY <2>2, <2>3
<1>5. CASE AllSync
  <2>1. allFile \in File
    BY <1>5 DEF AllSync, TypeOK, SyncAllTypeOK
  <2>2. UNCHANGED <<written, unnoticed, chan, watch, loop, cur, size, all, allTodo>>
    BY <1>5 DEF AllSync, diskVars, handlerVars
  <2>3. \A f \in File \ {allFile} : offset'[f] = offset[f] /\ (f \in missed => f \in missed')
    BY <1>5, <2>1 DEF AllSync, dbVars, CommitFile, CommitPart, CommitTo, TypeOK, DataTypeOK
  <2> SUFFICES ASSUME NEW f \in File, Lags(f)'
               PROVE  WillBeRead(f)' \/ f \in missed'
    BY DEF LagExplained, Lags
  <2>4. CASE f # allFile
    BY <2>2, <2>3, <2>4 DEF LagExplained, Lags, WillBeRead, Queued
  <2>5. CASE f = allFile /\ allSize <= offset[f] /\ UNCHANGED <<offset, missed>>
    <3>1. allSize \in Nat
      BY MaxLinesAssumption DEF TypeOK, SyncAllTypeOK
    <3>2. ~ (allSize > offset[f])
      BY <1>1, <2>5, <3>1
    <3> QED  BY <2>2, <2>5, <3>2 DEF LagExplained, Lags, WillBeRead, Queued
  <2>6. CASE f = allFile /\ CommitFile(f)
    <3>1. offset'[f] = written[f]
      BY <2>6 DEF CommitFile, CommitTo, TypeOK, DataTypeOK
    <3> QED  BY <1>1, <2>2, <3>1 DEF Lags
  <2>7. CASE f = allFile /\ f \in missed'
    BY <2>7
  <2> QED  BY <1>5, <2>4, <2>5, <2>6, <2>7 DEF AllSync, CommitPart, dbVars
<1>6. CASE AllFilesDone \/ AllRebuild
  <2>1. UNCHANGED <<written, offset, unnoticed, chan, watch, loop, cur, size, missed,
                    allTodo, allFile, allSize>> /\ all # "off"
    BY <1>6 DEF AllFilesDone, AllRebuild, diskVars, dbVars, handlerVars, obsVars
  <2> QED  BY <2>1 DEF LagExplained, WillBeRead, Queued
<1> QED  BY <1>2, <1>3, <1>4, <1>5, <1>6 DEF SyncAllStep

LEMMA EventLag ==
  ASSUME TypeOK, TasksInv, LagExplained, OpenGate \/ TakeEvent \/ Exit \/ FtsTimer
  PROVE  LagExplained'
<1>1. UNCHANGED <<written, offset, unnoticed, watch, all, allTodo, allFile, allSize>>
  BY DEF OpenGate, TakeEvent, IgnoreOther, Debounce, Accept, Exit, FtsTimer, RebuildNotDue,
         Rebuild, RebuildFails, RebuildIndexes, diskVars, dbVars, allVars
<1>2. CASE OpenGate \/ FtsTimer
  <2>1. UNCHANGED <<chan, missed>> /\ loop \in {"gated", "select"}
    BY <1>2
    DEF OpenGate, FtsTimer, RebuildNotDue, Rebuild, RebuildFails, RebuildIndexes, TimerFires,
        obsVars
  <2> QED  BY <1>1, <2>1 DEF LagExplained, WillBeRead, Queued
<1>3. CASE Exit
  BY <1>3 DEF Exit, LagExplained
<1>4. CASE IgnoreOther
  <2>1. \A f \in File : Queued(f) => Queued(f)'
    BY <1>4, OtherAssumption, Dequeued DEF IgnoreOther
  <2>2. missed' = missed /\ loop = "select"
    BY <1>4 DEF IgnoreOther, Receive, obsVars
  <2> QED  BY <1>1, <2>1, <2>2 DEF LagExplained, WillBeRead
<1>5. CASE Debounce
  <2>1. \A f \in File : Queued(f) => Queued(f)' \/ f \in missed'
    BY <1>5, Dequeued DEF Debounce
  <2>2. missed \subseteq missed' /\ loop = "select"
    BY <1>5 DEF Debounce, Receive
  <2> QED  BY <1>1, <2>1, <2>2 DEF LagExplained, WillBeRead
<1>6. CASE Accept
  <2>1. \A f \in File : Queued(f) => Queued(f)' \/ cur' = f
    BY <1>6, Dequeued DEF Accept
  <2>2. missed' = missed /\ loop = "select" /\ loop' = "isnew"
    BY <1>6 DEF Accept, Receive, obsVars
  <2> QED  BY <1>1, <2>1, <2>2 DEF LagExplained, WillBeRead
<1> QED  BY <1>2, <1>3, <1>4, <1>5, <1>6 DEF TakeEvent

LEMMA HandlerLag ==
  ASSUME TypeOK, TasksInv, LagExplained, Handler
  PROVE  LagExplained'
<1>1. UNCHANGED <<written, unnoticed, watch, chan, all, allTodo, allFile, allSize>>
  BY DEF Handler, IsNewFile, Stat, SyncNothing, SyncRecords, Announce, MarkDirty, diskVars, allVars
<1>2. cur \in File
  BY DEF TasksInv, Handling, Handler, IsNewFile, Stat, SyncNothing, SyncRecords, Announce, MarkDirty
<1>3. \A f \in File : offset[f] \in Nat /\ written[f] \in Nat
  BY MaxLinesAssumption DEF TypeOK, DataTypeOK
<1>4. CASE IsNewFile
  BY <1>1, <1>4 DEF IsNewFile, LagExplained, WillBeRead, Queued, dbVars
<1>5. CASE Stat
  BY <1>1, <1>2, <1>5 DEF Stat, LagExplained, WillBeRead, Queued, dbVars, obsVars
<1>6. CASE Announce \/ MarkDirty
  <2>1. UNCHANGED <<offset, missed>> /\ loop \in {"announce", "flag"}
    BY <1>6 DEF Announce, MarkDirty, dbVars
  <2> QED  BY <1>1, <2>1 DEF LagExplained, WillBeRead, Queued
<1>7. CASE SyncNothing \/ SyncRecords
  <2>1. loop = "sync"
    BY <1>7 DEF SyncNothing, SyncRecords
  <2>2. \A f \in File \ {cur} : offset'[f] = offset[f] /\ (f \in missed => f \in missed')
    BY <1>2, <1>7 DEF SyncNothing, SyncRecords, dbVars, CommitFile, CommitPart, CommitTo, TypeOK, DataTypeOK
  <2> SUFFICES ASSUME NEW f \in File, Lags(f)'
               PROVE  WillBeRead(f)' \/ f \in missed'
    BY DEF LagExplained, Lags
  <2>3. CASE f # cur
    BY <1>1, <2>1, <2>2, <2>3 DEF LagExplained, Lags, WillBeRead, Queued
  <2>4. CASE f = cur /\ size <= offset[f] /\ UNCHANGED <<offset, missed>>
    <3>1. ~ (size > offset[f])
      BY <1>3, <2>4, MaxLinesAssumption DEF TypeOK, LoopTypeOK
    <3> QED  BY <1>1, <2>1, <2>4, <3>1 DEF LagExplained, Lags, WillBeRead, Queued
  <2>5. CASE f = cur /\ CommitFile(f)
    <3>1. offset'[f] = written[f]
      BY <2>5 DEF CommitFile, CommitTo, TypeOK, DataTypeOK
    <3> QED  BY <1>1, <1>3, <3>1 DEF Lags
  <2>6. CASE f = cur /\ f \in missed'
    BY <2>6
  <2> QED
    BY <1>7, <2>3, <2>4, <2>5, <2>6 DEF SyncNothing, SyncRecords, CommitPart, dbVars
<1> QED  BY <1>4, <1>5, <1>6, <1>7 DEF Handler

LEMMA LagStep == TypeOK /\ TasksInv /\ LagExplained /\ [Next]_vars => LagExplained'
<1> SUFFICES ASSUME TypeOK, TasksInv, LagExplained, [Next]_vars
             PROVE  LagExplained'
  OBVIOUS
<1>1. ASSUME NEW f \in File, Write(f)
      PROVE  LagExplained'
  <2>1. written \in [File -> Nat]
    BY MaxLinesAssumption DEF TypeOK, DataTypeOK
  <2>2. \A g \in File \ {f} : written'[g] = written[g]
    BY <1>1, <2>1 DEF Write
  <2>3. watch = "on" => f \in unnoticed'
    BY <1>1 DEF Write
  <2>4. UNCHANGED <<offset, watch, loop, chan, all, allTodo, allFile, allSize, cur, size, missed>>
        /\ unnoticed \subseteq unnoticed'
    BY <1>1 DEF Write, dbVars, allVars, handlerVars, obsVars
  <2> QED  BY <2>2, <2>3, <2>4 DEF LagExplained, WillBeRead, Queued
<1>2. ASSUME NEW f \in File, Notify(f)
      PROVE  LagExplained'
  <2>1. UNCHANGED <<written, offset, watch, loop, all, allTodo, allFile, allSize, cur, size>>
        /\ unnoticed' = unnoticed \ {f}
    BY <1>2 DEF Notify, dbVars, allVars, handlerVars
  <2>2. CASE HasRoom
    <3>1. chan' = Append(chan, f) /\ missed' = missed
      BY <1>2, <2>2 DEF Notify
    <3> QED  BY <2>1, <3>1, Enqueued DEF LagExplained, WillBeRead
  <2>3. CASE ~ HasRoom
    <3>1. chan' = chan /\ missed' = missed \cup {f}
      BY <1>2, <2>3 DEF Notify
    <3> QED  BY <2>1, <3>1 DEF LagExplained, WillBeRead, Queued
  <2> QED  BY <2>2, <2>3
<1>3. CASE OtherEvent
  <2>1. UNCHANGED <<written, unnoticed, offset, watch, loop, all, allTodo, allFile, allSize,
                    cur, size, missed>>
    BY <1>3 DEF OtherEvent, diskVars, dbVars, allVars, handlerVars, obsVars
  <2>2. \A f \in File : Queued(f) => Queued(f)'
    BY <1>3, Enqueued DEF OtherEvent
  <2> QED  BY <2>1, <2>2 DEF LagExplained, WillBeRead
<1>4. CASE Tick \/ Signal \/ UNCHANGED vars
  <2>1. UNCHANGED <<written, unnoticed, offset, watch, loop, chan, all, allTodo, allFile, allSize,
                    cur, size, missed>>
    BY <1>4 DEF Tick, Signal, vars, diskVars, dbVars, allVars, handlerVars, obsVars
  <2> QED  BY <2>1 DEF LagExplained, WillBeRead, Queued
<1>5. CASE Restart
  BY <1>5 DEF Restart, LagExplained
<1> QED
  BY <1>1, <1>2, <1>3, <1>4, <1>5, AllLag, EventLag, HandlerLag DEF Next

-----------------------------------------------------------------------------
(* The indexes.                                                            *)
LEMMA StaleKept ==
  ASSUME RebuiltOrForgotten, UNCHANGED <<stale, forgotten>>, RebuildPlanned => RebuildPlanned'
  PROVE  RebuiltOrForgotten'
  BY DEF RebuiltOrForgotten

LEMMA StaleListed ==
  ASSUME stale' \subseteq forgotten' \/ RebuildPlanned'
  PROVE  RebuiltOrForgotten'
  BY DEF RebuiltOrForgotten

LEMMA RebuiltStep ==
  TypeOK /\ TasksInv /\ RebuiltOrForgotten /\ [Next]_vars => RebuiltOrForgotten'
<1> SUFFICES ASSUME TypeOK, TasksInv, RebuiltOrForgotten, [Next]_vars
             PROVE  RebuiltOrForgotten'
  OBVIOUS
<1>1. CASE OtherEvent \/ Tick \/ Signal \/ UNCHANGED vars \/ \E f \in File : Write(f) \/ Notify(f)
  BY <1>1, StaleKept
  DEF OtherEvent, Tick, Signal, Write, Notify, vars, dbVars, allVars, obsVars, RebuildPlanned
<1>2. CASE Restart \/ Exit \/ Rebuild \/ RebuildFails
  BY <1>2, StaleListed DEF Restart, Exit, Rebuild, RebuildFails, RebuildIndexes, dbVars
<1>3. CASE SyncAllStart \/ AllFilesDone \/ \E f \in File : AllStat(f)
  BY <1>3, StaleKept
  DEF SyncAllStart, Walk, AllFilesDone, AllStat, dbVars, obsVars, RebuildPlanned
<1>4. CASE SpawnWatcher \/ OpenGate \/ TakeEvent \/ RebuildNotDue
  <2>1. UNCHANGED <<stale, forgotten, dirty, all, allSynced>>
    BY <1>4
    DEF SpawnWatcher, OpenGate, TakeEvent, IgnoreOther, Debounce, Accept, RebuildNotDue,
        dbVars, allVars, obsVars
  <2>2. CASE SpawnWatcher
    <3>1. loop = "off" /\ loop' # "exited"
      BY <2>2 DEF SpawnWatcher, TasksInv
    <3> QED  BY <2>1, <3>1, StaleKept DEF RebuildPlanned
  <2>3. CASE OpenGate \/ TakeEvent \/ RebuildNotDue
    <3>1. loop \in {"gated", "select"} /\ loop' # "exited"
      BY <2>3
      DEF OpenGate, TakeEvent, IgnoreOther, Debounce, Accept, RebuildNotDue, TimerFires,
          Receive, BackToSelect
    <3> QED  BY <2>1, <3>1, StaleKept DEF RebuildPlanned
  <2> QED  BY <1>4, <2>2, <2>3
<1>5. CASE AllSync
  <2>1. all = "files" /\ UNCHANGED <<all, loop, dirty>>
    BY <1>5 DEF AllSync, TasksInv
  <2>2. CASE UNCHANGED <<stale, forgotten, allSynced>>
    BY <2>1, <2>2, StaleKept DEF RebuildPlanned
  <2>3. CASE allSynced' = TRUE
    BY <2>1, <2>3, StaleListed DEF RebuildPlanned
  <2>4. CASE CommitPart(allFile) /\ UNCHANGED allSynced
    <3>1. RebuildPlanned => RebuildPlanned'
      BY <2>1, <2>4 DEF RebuildPlanned
    <3> QED  BY <2>4, <3>1, StaleListed DEF CommitPart
  <2> QED  BY <1>5, <2>2, <2>3, <2>4 DEF AllSync, dbVars
<1>6. CASE AllRebuild
  <2>1. CASE RebuildPlanned'
    BY <2>1, StaleListed
  <2>2. CASE ~ RebuildPlanned'
    BY <1>6, <2>2, StaleListed DEF AllRebuild
  <2> QED  BY <2>1, <2>2
<1>7. CASE SyncNothing
  <2>1. RebuildPlanned => RebuildPlanned'
    BY <1>7 DEF SyncNothing, BackToSelect, RebuildPlanned, allVars
  <2>2. CASE UNCHANGED <<stale, forgotten>>
    BY <2>1, <2>2, StaleKept
  <2>3. CASE CommitPart(cur)
    BY <2>1, <2>3, StaleListed DEF CommitPart
  <2>4. CASE NewRecords(cur) = {} /\ CommitFile(cur) /\ UNCHANGED forgotten
    BY <2>2, <2>4 DEF CommitFile, CommitTo, NewRecords
  <2> QED  BY <1>7, <2>2, <2>3, <2>4 DEF SyncNothing, dbVars
<1>8. CASE SyncRecords \/ MarkDirty
  BY <1>8, StaleListed DEF SyncRecords, MarkDirty, BackToSelect, RebuildPlanned
<1>9. CASE IsNewFile \/ Stat \/ Announce
  BY <1>9, StaleKept DEF IsNewFile, Stat, Announce, dbVars, allVars, obsVars, RebuildPlanned
<1> QED
  BY <1>1, <1>2, <1>3, <1>4, <1>5, <1>6, <1>7, <1>8, <1>9
  DEF Next, SyncAllStep, FtsTimer, Handler

(* Only a rebuild that succeeds while sync_all is the one to do it, a      *)
(* failure and the end of the loop put an index on the list.               *)
LEMMA ForgottenStep ==
  TypeOK /\ TasksInv /\ MessagesNotForgotten /\ [Next]_vars => MessagesNotForgotten'
<1> SUFFICES ASSUME TypeOK, TasksInv, MessagesNotForgotten, [Next]_vars,
                    faults' = 0, restarts' = 0, loop' # "exited"
             PROVE  "messages" \notin forgotten'
  BY DEF MessagesNotForgotten
<1>1. faults \in Nat /\ restarts \in Nat
  BY BoundsAssumption DEF TypeOK, DataTypeOK
<1>2. ~ Fault
  BY <1>1 DEF Fault
<1>3. ~ Restart
  BY <1>1 DEF Restart
<1>4. CASE UNCHANGED <<faults, restarts>> /\ forgotten' \subseteq forgotten /\ loop # "exited"
  BY <1>4 DEF MessagesNotForgotten
<1>5. CASE OtherEvent \/ Tick \/ Signal \/ UNCHANGED vars \/ \E f \in File : Write(f) \/ Notify(f)
  BY <1>4, <1>5 DEF OtherEvent, Tick, Signal, Write, Notify, vars, obsVars
<1>6. CASE SyncAllStart \/ AllFilesDone \/ \E f \in File : AllStat(f)
  BY <1>4, <1>6 DEF SyncAllStart, Walk, AllFilesDone, AllStat, obsVars
<1>7. CASE SpawnWatcher \/ OpenGate \/ TakeEvent \/ RebuildNotDue
  BY <1>4, <1>7
  DEF SpawnWatcher, OpenGate, TakeEvent, IgnoreOther, Debounce, Accept, RebuildNotDue, Receive,
      TimerFires, TasksInv, obsVars
<1>8. CASE AllSync
  BY <1>2, <1>4, <1>8 DEF AllSync, CommitPart
<1>9. CASE AllRebuild
  <2>1. UNCHANGED <<faults, restarts, loop>> /\ forgotten' \in {forgotten, stale \ {"messages"}}
    BY <1>2, <1>9 DEF AllRebuild
  <2> QED  BY <2>1 DEF MessagesNotForgotten
<1>10. CASE SyncNothing
  BY <1>2, <1>4, <1>10 DEF SyncNothing, CommitPart
<1>11. CASE IsNewFile \/ Stat \/ SyncRecords \/ Announce
  BY <1>2, <1>4, <1>11 DEF IsNewFile, Stat, SyncRecords, Announce, obsVars
<1>12. CASE MarkDirty
  BY <1>12 DEF MarkDirty
<1>13. CASE Rebuild
  <2>1. forgotten' \cap Index = {}
    BY <1>13 DEF Rebuild, RebuildIndexes, RebuildOrder, Index
  <2> QED  BY <2>1 DEF Index
<1>14. CASE RebuildFails \/ Exit
  BY <1>2, <1>14 DEF RebuildFails, Exit
<1> QED
  BY <1>3, <1>5, <1>6, <1>7, <1>8, <1>9, <1>10, <1>11, <1>12, <1>13, <1>14
  DEF Next, SyncAllStep, FtsTimer, Handler

LEMMA StaleStep == TypeOK /\ TasksInv /\ StaleIsPlanned /\ [Next]_vars => StaleIsPlanned'
  BY RebuiltStep, ForgottenStep DEF StaleIsPlanned

-----------------------------------------------------------------------------
LEMMA InvStep == IInv /\ [Next]_vars => IInv'
  BY TypeStep, TasksStep, StartedStep, LagStep, StaleStep DEF IInv

(* The inductive invariant holds in every reachable state.                 *)
THEOREM Invariance == Spec => []IInv
  BY InvInit, InvStep, PTL DEF Spec

(* Every reachable state of the daemon is well typed: the channel never    *)
(* holds more than its capacity, and no timer passes its threshold.        *)
THEOREM TypeCorrect == Spec => []TypeOK
<1>1. IInv => TypeOK
  BY DEF IInv
<1> QED  BY <1>1, Invariance, PTL

(* No append falls between the catch-up sync and the live events: a file   *)
(* that lags is going to be read, or an event of it is known as missed.    *)
THEOREM LagAlwaysExplained == Spec => []LagExplained
<1>1. IInv => LagExplained
  BY DEF IInv
<1> QED  BY <1>1, Invariance, PTL

(* No index lacks rows without a rebuild to come or an entry in the list   *)
(* of those the code has lost track of.                                    *)
THEOREM StaleAlwaysPlanned == Spec => []StaleIsPlanned
<1>1. IInv => StaleIsPlanned
  BY DEF IInv
<1> QED  BY <1>1, Invariance, PTL

(* session:started goes out once at most for each file, over any number of *)
(* syncs of both tasks and any number of restarts.                         *)
THEOREM StartedAtMostOnce == Spec => []StartedOnce
<1>1. IInv => StartedOnce
  BY DEF IInv, StartedInv, StartedOnce
<1> QED  BY <1>1, Invariance, PTL
=============================================================================
