------------------------------- MODULE Watcher -------------------------------
(***************************************************************************)
(* Live ingestion in the daemon: the filesystem watcher and its event loop *)
(* (crates/server/src/watcher.rs), the catch-up sync_all beside it         *)
(* (crates/server/src/serve.rs, crates/store/src/sync.rs) and the FTS      *)
(* indexes (crates/store/src/fts.rs), from one start of the daemon to the  *)
(* next. Every SQL statement of the daemon runs on one connection, so one  *)
(* sync_file is one step here once its file has been stat'ed; FileSync     *)
(* models its inside, and the other processes.                             *)
(*                                                                         *)
(* A file is the number of lines in it, an offset the number of lines      *)
(* consumed. Time passes in ticks; every timer is an age that stops at the *)
(* value the code compares it with.                                        *)
(***************************************************************************)
EXTENDS Naturals, Sequences, FiniteSets

CONSTANTS
  File,           (* the .jsonl session files under projects_dir           *)
  NoFile,
  MaxLines,       (* lines the writer may append to a file: a bound        *)
  Blank,          (* the line numbers that carry no record                 *)
  Capacity,       (* of the notify channel (4096 there)                    *)
  DebounceTicks,  (* the debounce window (2 s)                             *)
  FtsTicks,       (* the FTS interval (30 s)                               *)
  MaxFaults,      (* failing SQLite calls: a bound                         *)
  MaxRestarts     (* starts of the daemon after the first: a bound         *)

ASSUME NoFileAssumption == NoFile \notin File
ASSUME MaxLinesAssumption == MaxLines \in Nat
ASSUME BlankAssumption == Blank \subseteq Nat
ASSUME CapacityAssumption == Capacity \in Nat \ {0}
ASSUME TicksAssumption == DebounceTicks \in Nat \ {0} /\ FtsTicks \in Nat \ {0}
ASSUME BoundsAssumption == MaxFaults \in Nat /\ MaxRestarts \in Nat

(* A notify event: a .jsonl path, or anything the loop takes and ignores   *)
(* (another path under projects_dir, a notify error).                      *)
Other == "other"
Event == File \cup {Other}
ASSUME OtherAssumption == Other \notin File

(* fts_message_content, fts_file_operations, fts_attachment_text_content   *)
Index == {"messages", "file_operations", "attachments"}

VARIABLES
  (* disk and operating system *)
  written,      (* lines in each file                                      *)
  unnoticed,    (* files whose last append has not been notified yet       *)
  (* database *)
  offset,       (* sync_metadata, 0 without a row                          *)
  stale,        (* the FTS indexes that lack rows of their content table   *)
  (* the daemon *)
  watch,        (* the notify watcher: "off", "on" or "failed"           *)
  chan,         (* the mpsc channel from the notify callback to the loop   *)
  cancelled,    (* the CancellationToken                                   *)
  all,          (* the sync_all task: where it is ...                      *)
  allTodo,      (* ... the files of its walk it has not come to ...        *)
  allFile,      (* ... the file it has stat'ed ...                         *)
  allSize,      (* ... the size it saw ...                                 *)
  allSynced,    (* ... and files_synced > 0                                *)
  loop,         (* watcher_loop: where it is ...                           *)
  cur,          (* ... the file of the event it is handling ...            *)
  size,         (* ... the size its sync_file saw ...                      *)
  wasNew,       (* ... and was_new_file                                    *)
  dirty,        (* data_ingested_since_fts_rebuild                         *)
  sinceSync,    (* age of the debouncer's entry, capped at DebounceTicks   *)
  slept,        (* age of the current select!'s sleep, capped at FtsTicks  *)
  (* observation *)
  missed,       (* files of an event that was dropped, debounced or failed *)
  forgotten,    (* stale indexes whose rebuild nothing is left to cause    *)
  startedSent,  (* session:started events sent for each file               *)
  faults, restarts

diskVars == <<written, unnoticed>>
dbVars == <<offset, stale>>
allVars == <<all, allTodo, allFile, allSize, allSynced>>
handlerVars == <<cur, size, wasNew>>
timeVars == <<sinceSync, slept>>
obsVars == <<missed, forgotten, startedSent, faults, restarts>>
vars == <<diskVars, dbVars, watch, chan, cancelled, allVars, loop,
          handlerVars, dirty, timeVars, obsVars>>

DataTypeOK ==
  /\ written \in [File -> 0 .. MaxLines]
  /\ offset \in [File -> 0 .. MaxLines]
  /\ stale \subseteq Index
  /\ unnoticed \subseteq File /\ missed \subseteq File
  /\ forgotten \subseteq Index
  /\ startedSent \in [File -> Nat]
  /\ faults \in 0 .. MaxFaults
  /\ restarts \in 0 .. MaxRestarts

SyncAllTypeOK ==
  /\ all \in {"off", "files", "post", "done"}
  /\ allTodo \subseteq File
  /\ allFile \in File \cup {NoFile}
  /\ allSize \in 0 .. MaxLines
  /\ allSynced \in BOOLEAN

LoopTypeOK ==
  /\ watch \in {"off", "on", "failed"}
  /\ chan \in Seq(Event) /\ Len(chan) <= Capacity
  /\ loop \in {"off", "gated", "select", "isnew", "stat", "sync",
               "announce", "flag", "exited"}
  /\ cur \in File \cup {NoFile}
  /\ size \in 0 .. MaxLines
  /\ wasNew \in BOOLEAN /\ cancelled \in BOOLEAN /\ dirty \in BOOLEAN
  /\ sinceSync \in [File -> 0 .. DebounceTicks]
  /\ slept \in 0 .. FtsTicks

TypeOK == DataTypeOK /\ SyncAllTypeOK /\ LoopTypeOK

Init ==
  /\ watch = "off" /\ chan = <<>> /\ cancelled = FALSE
  /\ all = "off" /\ allTodo = {} /\ allFile = NoFile /\ allSize = 0
  /\ allSynced = FALSE
  /\ loop = "off" /\ cur = NoFile /\ size = 0 /\ wasNew = FALSE
  /\ dirty = FALSE
  /\ sinceSync = [f \in File |-> DebounceTicks] /\ slept = 0
  /\ written = [f \in File |-> 0] /\ unnoticed = {}
  /\ offset = [f \in File |-> 0] /\ stale = {}
  /\ missed = {} /\ forgotten = {}
  /\ startedSent = [f \in File |-> 0]
  /\ faults = 0 /\ restarts = 0

-----------------------------------------------------------------------------
(***************************************************************************)
(* The writer, and the notify thread's callback: try_send never waits, an  *)
(* event that finds the channel full or closed is gone.                    *)
(***************************************************************************)
Write(f) ==
  /\ written[f] < MaxLines
  /\ written' = [written EXCEPT ![f] = @ + 1]
  /\ unnoticed' = IF watch = "on" THEN unnoticed \cup {f} ELSE unnoticed
  /\ UNCHANGED <<dbVars, watch, chan, cancelled, allVars, loop, handlerVars,
                 dirty, timeVars, obsVars>>

HasRoomOneMore == Len(chan) <= Capacity /\ loop # "exited"
HasRoom == Len(chan) < Capacity /\ loop # "exited"

Notify(f) ==
  /\ f \in unnoticed
  /\ unnoticed' = unnoticed \ {f}
  /\ chan' = IF HasRoom THEN Append(chan, f) ELSE chan
  /\ missed' = IF HasRoom THEN missed ELSE missed \cup {f}
  /\ UNCHANGED <<written, dbVars, watch, cancelled, allVars, loop, handlerVars,
                 dirty, timeVars, forgotten, startedSent, faults, restarts>>

OtherEvent ==
  /\ watch = "on"
  /\ HasRoom
  /\ chan' = Append(chan, Other)
  /\ UNCHANGED <<diskVars, dbVars, watch, cancelled, allVars, loop, handlerVars,
                 dirty, timeVars, obsVars>>

-----------------------------------------------------------------------------
(***************************************************************************)
(* run_server: the watcher first, then sync_all.                           *)
(***************************************************************************)
SpawnWatcher ==
  /\ watch = "off"
  /\ \/ watch' = "on" /\ loop' = "gated"
     \/ watch' = "failed" /\ UNCHANGED loop
  /\ UNCHANGED <<diskVars, dbVars, chan, cancelled, allVars, handlerVars, dirty,
                 timeVars, obsVars>>

(* sync_all walks the directory tree, then takes the files one by one.     *)
Walk ==
  /\ all = "off"
  /\ all' = "files"
  /\ allTodo' = {f \in File : written[f] > 0}
  /\ UNCHANGED <<diskVars, dbVars, watch, chan, cancelled, allFile, allSize,
                 allSynced, loop, handlerVars, dirty, timeVars, obsVars>>

WalkBeforeWatch == Walk
SyncAllStart == watch # "off" /\ Walk

AllStat(f) ==
  /\ all = "files" /\ allFile = NoFile
  /\ f \in allTodo
  /\ allTodo' = allTodo \ {f}
  /\ allFile' = f
  /\ allSize' = written[f]
  /\ UNCHANGED <<diskVars, dbVars, watch, chan, cancelled, all, allSynced, loop,
                 handlerVars, dirty, timeVars, obsVars>>

(* The loop's flag is set or about to be, or sync_all is going to rebuild. *)
RebuildPlanned ==
  \/ dirty /\ loop # "exited"
  \/ loop \in {"announce", "flag"}
  \/ all \in {"files", "post"} /\ allSynced

(* A SQLite call of the daemon fails (busy for 5 s, disk full).            *)
Fault == faults < MaxFaults /\ faults' = faults + 1

(* The closure of sync_file: it reads the file to its end as it is now.    *)
Records(f, n) == (offset[f] + 1 .. n) \ Blank
NewRecords(f) == Records(f, written[f])

CommitTo(f, n) ==
  /\ offset' = [offset EXCEPT ![f] = n]
  /\ stale' = IF Records(f, n) = {} THEN stale ELSE Index

CommitFile(f) == CommitTo(f, written[f]) /\ missed' = missed \ {f}

(* It fails before its first commit, or after a batch that ended where the *)
(* next record begins; its caller learns of an error and no more.          *)
CommitPart(f) ==
  /\ Fault
  /\ \E n \in offset[f] .. written[f] - 1 :
       /\ n = offset[f] \/ (Records(f, n) # {} /\ n + 1 \notin Blank)
       /\ CommitTo(f, n)
  /\ missed' = missed \cup {f}
  /\ forgotten' = IF RebuildPlanned THEN forgotten ELSE stale'

AllFileDone == allFile' = NoFile /\ allSize' = 0

(* Skipped, synced, or counted under files_errored: what a failing file    *)
(* has committed does not count for files_synced.                          *)
AllSync ==
  /\ allFile # NoFile
  /\ AllFileDone
  /\ \/ /\ allSize <= offset[allFile]
        /\ UNCHANGED <<dbVars, missed, allSynced, forgotten, faults>>
     \/ /\ allSize > offset[allFile]
        /\ CommitFile(allFile)
        /\ allSynced' = TRUE
        /\ forgotten' = forgotten \ {"messages"}
        /\ UNCHANGED faults
     \/ /\ allSize > offset[allFile]
        /\ CommitPart(allFile)
        /\ UNCHANGED allSynced
  /\ UNCHANGED <<diskVars, watch, chan, cancelled, all, allTodo, loop,
                 handlerVars, dirty, timeVars, startedSent, restarts>>

AllFilesDone ==
  /\ all = "files" /\ allTodo = {} /\ allFile = NoFile
  /\ all' = IF allSynced THEN "post" ELSE "done"
  /\ UNCHANGED <<diskVars, dbVars, watch, chan, cancelled, allTodo, allFile,
                 allSize, allSynced, loop, handlerVars, dirty, timeVars, obsVars>>

(* files_synced > 0: one of the three indexes is rebuilt. The completion   *)
(* signal is sent whether or not that failed.                              *)
AllRebuild ==
  /\ all = "post"
  /\ all' = "done"
  /\ \/ stale' = stale \ {"messages"} /\ UNCHANGED faults
     \/ Fault /\ UNCHANGED stale
  /\ UNCHANGED <<diskVars, offset, watch, chan, cancelled, allTodo, allFile,
                 allSize, allSynced, loop, handlerVars, dirty, timeVars, missed,
                 startedSent, restarts>>
  /\ forgotten' = IF RebuildPlanned' THEN forgotten ELSE stale'

SyncAllStep ==
  \/ SyncAllStart \/ AllSync \/ AllFilesDone \/ AllRebuild
  \/ \E f \in File : AllStat(f)

-----------------------------------------------------------------------------
(***************************************************************************)
(* watcher_loop. Every iteration makes a new sleep.                        *)
(***************************************************************************)
BackToSelect ==
  /\ loop' = "select"
  /\ cur' = NoFile /\ size' = 0 /\ wasNew' = FALSE
  /\ slept' = 0

(* sync_all_done.await; the version_history backfill follows at once.      *)
OpenGateIfSynced ==
  /\ loop = "gated"
  /\ all = "done" /\ allSynced
  /\ BackToSelect
  /\ UNCHANGED <<diskVars, dbVars, watch, chan, cancelled, allVars, dirty,
                 sinceSync, obsVars>>

OpenGate ==
  /\ loop = "gated"
  /\ all = "done"
  /\ BackToSelect
  /\ UNCHANGED <<diskVars, dbVars, watch, chan, cancelled, allVars, dirty,
                 sinceSync, obsVars>>

Receive ==
  /\ loop = "select"
  /\ chan # <<>>
  /\ chan' = Tail(chan)

IgnoreOther ==
  /\ Receive
  /\ Head(chan) = Other
  /\ BackToSelect
  /\ UNCHANGED <<diskVars, dbVars, watch, cancelled, allVars, dirty, sinceSync,
                 obsVars>>

(* should_sync is false: the event is skipped, and nothing comes back to it *)
Debounce ==
  /\ Receive
  /\ \E f \in File :
       /\ Head(chan) = f
       /\ sinceSync[f] < DebounceTicks
       /\ missed' = missed \cup {f}
  /\ BackToSelect
  /\ UNCHANGED <<diskVars, dbVars, watch, cancelled, allVars, dirty, sinceSync,
                 forgotten, startedSent, faults, restarts>>

(* should_sync is true and stamps the file.                                *)
Accept ==
  /\ Receive
  /\ \E f \in File :
       /\ Head(chan) = f
       /\ sinceSync[f] = DebounceTicks
       /\ sinceSync' = [sinceSync EXCEPT ![f] = 0]
       /\ cur' = f
  /\ loop' = "isnew"
  /\ UNCHANGED <<diskVars, dbVars, watch, cancelled, allVars, size, wasNew, dirty,
                 slept, obsVars>>

(* is_new_file, which takes a failing query for "new".                     *)
IsNewFile ==
  /\ loop = "isnew"
  /\ loop' = "stat"
  /\ \/ wasNew' = (offset[cur] = 0) /\ UNCHANGED faults
     \/ wasNew' = TRUE /\ Fault
  /\ UNCHANGED <<diskVars, dbVars, watch, chan, cancelled, allVars, cur, size,
                 dirty, timeVars, missed, forgotten, startedSent, restarts>>

Stat ==
  /\ loop = "stat"
  /\ loop' = "sync"
  /\ size' = written[cur]
  /\ UNCHANGED <<diskVars, dbVars, watch, chan, cancelled, allVars, cur, wasNew,
                 dirty, timeVars, obsVars>>

(* sync_file: skipped, synced without a record, failed: back to select!.   *)
SyncNothing ==
  /\ loop = "sync"
  /\ \/ /\ size <= offset[cur]
        /\ UNCHANGED <<dbVars, missed, forgotten, faults>>
     \/ /\ size > offset[cur]
        /\ NewRecords(cur) = {}
        /\ CommitFile(cur)
        /\ UNCHANGED <<forgotten, faults>>
     \/ /\ size > offset[cur]
        /\ CommitPart(cur)
  /\ BackToSelect
  /\ UNCHANGED <<diskVars, watch, chan, cancelled, allVars, dirty, sinceSync,
                 startedSent, restarts>>

SyncRecords ==
  /\ loop = "sync"
  /\ size > offset[cur]
  /\ NewRecords(cur) # {}
  /\ CommitFile(cur)
  /\ loop' = "announce"
  /\ UNCHANGED <<diskVars, watch, chan, cancelled, allVars, handlerVars, dirty,
                 timeVars, forgotten, startedSent, faults, restarts>>

(* session:started, among the events of a sync that brought records.       *)
AnnounceAlways ==
  /\ loop = "announce"
  /\ loop' = "flag"
  /\ startedSent' = [startedSent EXCEPT ![cur] = @ + 1]
  /\ UNCHANGED <<diskVars, dbVars, watch, chan, cancelled, allVars, handlerVars,
                 dirty, timeVars, missed, forgotten, faults, restarts>>

Announce ==
  /\ loop = "announce"
  /\ loop' = "flag"
  /\ startedSent' = IF wasNew THEN [startedSent EXCEPT ![cur] = @ + 1] ELSE startedSent
  /\ UNCHANGED <<diskVars, dbVars, watch, chan, cancelled, allVars, handlerVars,
                 dirty, timeVars, missed, forgotten, faults, restarts>>

(* After the queries of check_version_change and emit_artifact_events.     *)
MarkDirtyIfNew ==
  /\ loop = "flag"
  /\ dirty' = (dirty \/ wasNew)
  /\ forgotten' = {}
  /\ BackToSelect
  /\ UNCHANGED <<diskVars, dbVars, watch, chan, cancelled, allVars, sinceSync,
                 missed, startedSent, faults, restarts>>

MarkDirty ==
  /\ loop = "flag"
  /\ dirty' = TRUE
  /\ forgotten' = {}
  /\ BackToSelect
  /\ UNCHANGED <<diskVars, dbVars, watch, chan, cancelled, allVars, sinceSync,
                 missed, startedSent, faults, restarts>>

Exit ==
  /\ loop = "select"
  /\ cancelled
  /\ loop' = "exited"
  /\ chan' = <<>>
  /\ slept' = 0
  /\ forgotten' = stale
  /\ UNCHANGED <<diskVars, dbVars, watch, cancelled, allVars, handlerVars, dirty,
                 sinceSync, missed, startedSent, faults, restarts>>

(***************************************************************************)
(* The sleep has run out. last_fts_rebuild is at least as old as the sleep *)
(* by then, so its own test cannot fail. The three rebuilds run in turn;   *)
(* when one fails the later ones are left out, and the flag is reset.      *)
(***************************************************************************)
TimerFires == loop = "select" /\ slept = FtsTicks

RebuildNotDue ==
  /\ TimerFires
  /\ ~ dirty
  /\ BackToSelect
  /\ UNCHANGED <<diskVars, dbVars, watch, chan, cancelled, allVars, dirty,
                 sinceSync, obsVars>>

RebuildOrder == <<"messages", "file_operations", "attachments">>

RebuildIndexes(n) ==
  /\ TimerFires
  /\ dirty
  /\ stale' = stale \ {RebuildOrder[i] : i \in 1 .. n}
  /\ dirty' = FALSE
  /\ forgotten' = stale'
  /\ BackToSelect
  /\ UNCHANGED <<diskVars, offset, watch, chan, cancelled, allVars, sinceSync,
                 missed, startedSent, restarts>>

Rebuild == RebuildIndexes(3) /\ UNCHANGED faults
RebuildFails == (\E n \in 0 .. 2 : RebuildIndexes(n)) /\ Fault

FtsTimer == RebuildNotDue \/ Rebuild \/ RebuildFails

-----------------------------------------------------------------------------
(***************************************************************************)
(* Time, signals, and the end of the process: by shutdown, kill or crash   *)
(* it may come anywhere; a supervisor starts the daemon again.             *)
(***************************************************************************)
Older(age, cap) == IF age < cap THEN age + 1 ELSE age

Tick ==
  /\ sinceSync' = [f \in File |-> Older(sinceSync[f], DebounceTicks)]
  /\ slept' = IF loop = "select" THEN Older(slept, FtsTicks) ELSE slept
  /\ UNCHANGED <<diskVars, dbVars, watch, chan, cancelled, allVars, loop,
                 handlerVars, dirty, obsVars>>

Signal ==
  /\ ~ cancelled
  /\ cancelled' = TRUE
  /\ UNCHANGED <<diskVars, dbVars, watch, chan, allVars, loop, handlerVars,
                 dirty, timeVars, obsVars>>

Restart ==
  /\ restarts < MaxRestarts
  /\ restarts' = restarts + 1
  /\ watch' = "off" /\ chan' = <<>> /\ cancelled' = FALSE
  /\ all' = "off" /\ allTodo' = {} /\ allFile' = NoFile /\ allSize' = 0
  /\ allSynced' = FALSE
  /\ loop' = "off" /\ cur' = NoFile /\ size' = 0 /\ wasNew' = FALSE
  /\ dirty' = FALSE
  /\ sinceSync' = [f \in File |-> DebounceTicks] /\ slept' = 0
  /\ unnoticed' = {} /\ missed' = {}
  /\ forgotten' = stale
  /\ UNCHANGED <<written, dbVars, startedSent, faults>>

Handler == IsNewFile \/ Stat \/ SyncNothing \/ SyncRecords \/ Announce \/ MarkDirty
TakeEvent == IgnoreOther \/ Debounce \/ Accept

Next ==
  \/ \E f \in File : Write(f) \/ Notify(f)
  \/ OtherEvent
  \/ SpawnWatcher \/ SyncAllStep
  \/ OpenGate \/ TakeEvent \/ Handler \/ Exit \/ FtsTimer
  \/ Tick \/ Signal \/ Restart

Spec == Init /\ [][Next]_vars

(***************************************************************************)
(* Spawned tasks run; time passes; the OS delivers its notifications. Two  *)
(* branches of select! are weakly fair only by the chance tokio picks the  *)
(* ready branches by: that is strong fairness.                             *)
(***************************************************************************)
Fairness ==
  /\ WF_vars(Tick)
  /\ \A f \in File : WF_vars(Notify(f))
  /\ WF_vars(SpawnWatcher)
  /\ WF_vars(SyncAllStep)
  /\ WF_vars(OpenGate)
  /\ WF_vars(Handler)
  /\ SF_vars(TakeEvent)
  /\ SF_vars(Exit)
  /\ SF_vars(FtsTimer)

FairSpec == Spec /\ Fairness

-----------------------------------------------------------------------------
(***************************************************************************)
(* Properties.                                                             *)
(***************************************************************************)
Queued(f) == \E i \in 1 .. Len(chan) : chan[i] = f

(* Somebody is still going to read f to where it ends now.                 *)
WillBeRead(f) ==
  \/ all = "off" \/ f \in allTodo
  \/ allFile = f /\ allSize > offset[f]
  \/ f \in unnoticed \/ Queued(f)
  \/ cur = f /\ loop \in {"isnew", "stat"}
  \/ cur = f /\ loop = "sync" /\ size > offset[f]

(***************************************************************************)
(* No append falls between two stools: while the daemon watches, a file    *)
(* with unread lines is going to be read, by the catch-up sync or by an    *)
(* event on its way, or one of its events was dropped by the full channel, *)
(* debounced, or met a failing sync. Two tasks, the notify thread and the  *)
(* writer interleave, each with a stat that is stale when it is used.      *)
(***************************************************************************)
LagExplained ==
  \A f \in File :
    watch = "on" /\ loop # "exited" /\ offset[f] < written[f] =>
      WillBeRead(f) \/ f \in missed

(***************************************************************************)
(* An index that lacks rows is going to be rebuilt, or is one of those the *)
(* code loses track of: a periodic rebuild that failed, a daemon that died *)
(* or was stopped before its rebuild, a sync of either task that failed    *)
(* after its first batch, and the two indexes sync_all does not rebuild.   *)
(* While nothing fails and nobody stops the daemon, fts_message_content is *)
(* never lost.                                                             *)
(***************************************************************************)
RebuiltOrForgotten == stale \ forgotten # {} => RebuildPlanned

MessagesNotForgotten ==
  faults = 0 /\ restarts = 0 /\ loop # "exited" => "messages" \notin forgotten

StaleIsPlanned == RebuiltOrForgotten /\ MessagesNotForgotten

(* session:started goes out at most once for a file, over all the syncs,   *)
(* restarts and daemons, unless a query of is_new_file failed.             *)
StartedOnce == faults = 0 => \A f \in File : startedSent[f] <= 1

(* An append the OS reported is ingested, or its event was missed.         *)
EventServed ==
  \A f \in File :
    f \in unnoticed ~> (offset[f] = written[f] \/ f \in missed \/ cancelled)

(***************************************************************************)
(* When the other events under projects_dir end, an index that lacks rows  *)
(* is rebuilt, and they can be found, or it becomes one of those the code  *)
(* has lost track of (see StaleIsPlanned). A periodic rebuild that fails   *)
(* leaves its indexes among these: the retry "on next interval" that       *)
(* watcher.rs:750 announces does not come, for 753 resets the flag.        *)
(***************************************************************************)
QuietThenFresh ==
  <>[][~ OtherEvent]_vars =>
    \A i \in Index : i \in stale ~> (i \notin stale \/ i \in forgotten)

(* A signal ends the loop, whatever it is doing.                           *)
SignalEndsLoop ==
  cancelled ~> (loop = "exited" \/ ~ cancelled \/ watch = "failed")

(* watcher.rs:17: the indexes "are rebuilt periodically (every 30 seconds)" *)
RebuiltPeriodically == dirty ~> (~ dirty \/ cancelled)

(***************************************************************************)
(* README.md:39: "Filesystem watcher syncs JSONL writes within ~5 seconds  *)
(* (debounced)": an event that has reached the loop gets its file read to  *)
(* the end.                                                                *)
(***************************************************************************)
WritesAreSynced ==
  \A f \in File :
    loop = "select" /\ Queued(f) ~> (offset[f] = written[f] \/ cancelled)
=============================================================================
