# TLA+ models of cc-history-api

`cc-history-api` ingests the JSONL session files Claude Code appends to into a
SQLite database and serves them over a CLI, HTTP, a Unix socket and MCP. This
directory holds TLA+ modules of the parts where order, races, crashes and
partial failures decide whether the database is right, the TLC configurations
that check them on small instances, and TLAPS proofs of what holds for every
instance. Paths below are relative to `crates/`.

## 1. Inventory

### 1.1 Components, their state and operations

| Component | State | Operations | Correct when |
|---|---|---|---|
| **Incremental file sync** `store/src/sync.rs` `sync_file`, `core/src/parser.rs` `parse_jsonl` | `sync_metadata` (offset and count per file), one call's locals | stat, SELECT of the offset, open, read and parse, batches of 1000 records each with its offset in one transaction | the offset never passes a record that is neither stored nor reported; every sync that finds data moves on; each record arrives at least once |
| **Record decomposition** `store/src/decompose.rs`, `drift.rs`, `artifacts.rs` | the tables sessions, messages, message_content, tool_executions, token_usage, agents, attachments, hook_executions, system_events, summaries, projects, files, file_operations, git_operations, the two drift logs | one sequence of SQL statements per record type; artifact extraction; the retroactive artifact pass | no foreign key is missing; results meet their tool uses; re-ingestion adds no row with a key; whatever the order and the failures, the tables converge |
| **Watcher and event loop** `server/src/watcher.rs` | notify channel (4096), debounce map, dirty flag, sleep of the `select!` | notify callback, gate on sync_all, event handler (debounce, is_new_file, sync_file, version check, SSE events), FTS timer, cancellation | no append falls between catch-up and live sync; each session starts once; ingested rows become searchable, unless the code loses track of them; a signal ends the loop |
| **Catch-up** `sync_all` | the list of the walk, files_synced, total_records | walk, stat, sync each file, version_history backfill, FTS rebuild, retroactive pass | it and the watcher together read everything |
| **FTS maintenance and search** `store/src/fts.rs` | three external-content indexes | rebuild of each; searches and their merge | an index that lacks rows is going to be rebuilt, or known to be forgotten; what is indexed is found, on one page or another |
| **Server lifecycle** `server/src/serve.rs`, `main.rs` | TCP port, Unix socket file, CancellationToken, spawned tasks | start order, stale-socket removal, bind, signal, drain, cleanup | a daemon is reached by its socket; a signalled one ends; commands answer whatever earlier daemons left behind |
| **Migrations** `store/src/db.rs`, `schema.rs` | `schema_versions`, pragmas | open, ask for each migration, run the missing ones in a transaction each, VACUUM | however many processes open one database, each migration runs once and in order |
| **Version monitoring** `watcher.rs`, `sync.rs` | `version_history`, last known version | check_version_change, backfill | a new version is announced once |
| **SSE** `server/src/events.rs`, `state.rs` | broadcast ring of 1024 | send, subscribe, lag | a lagging client loses events and nothing else |
| **Queries and file history** `query.rs`, `artifact_queries.rs` | none | SELECTs; reconstruct and diff of a file | all views of a session, a plan, a project count the same things; a rebuilt file is the one the session left |
| **SQL and named queries** `sql_passthrough.rs`, `query_registry.rs` | none | validate, bind, rewrite | a named query runs as its text with the values in the places of the names |
| **Bookmarks, export** `bookmarks.rs`, `export.rs` | another program's database; batches of an export | list, search, get; JSON, Markdown, CSV | pages are the whole; an export misses nothing |
| **HTTP API** `server/src/api/`, **client** `daemon_client.rs`, **CLI** `main.rs`, **MCP** `mcp/tools.rs` | none | parse, default, ask, answer; detect a daemon | one question has one answer on every surface, with a daemon and without |
| Record types, output tables, release scripts | none | deserialization, formatting, packaging | out of scope |

### 1.2 How they interact

* Claude Code appends to files that any number of processes read: the daemon
  (watcher loop and sync_all, two tasks) and every `claude-history sync`. They
  meet in SQLite only: WAL, busy timeout 5 s, deferred transactions.
* Inside the daemon all SQL runs on one connection's thread: statements of two
  tasks interleave between `conn.call`s, never inside one.
* notify's thread puts paths on a bounded channel without waiting; the loop
  takes them off after sync_all has signalled that it is done.
* `sync_file` calls `decompose_record` for each record inside a batch's
  transaction; a record that fails is logged and the batch goes on.
* The loop's dirty flag and its sleep decide when the FTS indexes are rebuilt;
  sync_all rebuilds one of the three itself.
* SIGINT/SIGTERM cancel a token that the listeners and the loop observe.
* A command asks the daemon behind the Unix socket (one connection per request,
  after a health check) or, when none answers, opens and migrates the database
  itself. Both ways end in the same functions of the store, as do MCP's tools
  and the HTTP handlers; what differs is how the arguments get there.

### 1.3 What is hard

Races of several processes on one offset; a reader that meets half a line; a
file that grows between stat, open and read; kills between batches; a statement
that fails in the middle of a record; a panic in the middle of a batch; the
hand-over between catch-up and live events; bounded channels; leading-edge
debouncing; timers that events restart; flags that live in memory across a
crash; statements that are idempotent beside others that are not; migrations
that two processes find missing; a socket file that outlives or changes its
daemon; shutdown behind open streams; pages read between commits; one question
encoded in four ways. Every such
place is listed with its line under `hazards` in `PROJECT.json`.

## 2. The modules

| Module | Models | Abstract spec / composition |
|---|---|---|
| `FileSync` | `sync_file` and `parse_jsonl` on one file, by processes `Proc` | implements `AtLeastOnce` |
| `AtLeastOnce` | a consumer that delivers a growing log at least once | |
| `FileSyncProofs`, `FileSyncWholeProofs` | theorems about `FileSync` | extend `FileSync`, `TLAPS` |
| `Watcher` | the daemon: watcher loop, sync_all, FTS timer, restarts | uses `sync_file` as one step per stat and per closure, as justified by `FileSync` |
| `WatcherProofs` | theorems about `Watcher` | extends `Watcher`, `TLAPS` |
| `Decompose` | what `decompose_record` and the retroactive pass write | `FileSync` decides when it is called |
| `DecomposeProofs` | theorems about `Decompose` | extends `Decompose`, `Facts` |
| `Lists` | selecting, sorting, adding up and spelling out lists, as functions of data | used by the surfaces' modules |
| `Facts` | lemmas: induction over a set of numbers; what the operators on lists yield | for the proofs |
| `MigrationsProofs`, `DaemonsProofs` | theorems about `Migrations` and `Daemons` | extend them and `TLAPS` |
| `Migrations` | `init_db` and `run_migrations`, by processes `Proc` | |
| `Daemons` | daemons and commands around one database and one socket | extends `Migrations` |
| `Query`, `ArtifactQueries`, `Search`, `Registry`, `Bookmarks`, `Export` | the store's read side as operators on a database | |
| `Wire`, `Api`, `Client`, `Cli`, `Mcp` | the request line, the router and handlers, the daemon's client, the commands, the tools | each extends what it calls |
| `Surfaces` | the history growing, and all surfaces asked about it | extends `Cli`, `Mcp` |
| `SurfacesProofs` | theorems about `Surfaces` | extends `Surfaces`, `Facts` |
| `MCFileSync`, `MCWatcher`, `MCDecompose`, `MCDaemons`, `MCSurfaces` | instances for TLC: symmetry sets, ports, a corpus of records, a feed and the questions asked of it | |

### 2.1 FileSync

A line is three units (first part of its body, rest, newline), so that an
offset says which of the three things the code's behaviour distinguishes it is:
a line start, inside a body, or between a body and its newline. `kind` says
what each line is: a record, a record with a multi-byte character across the
cut (`wide`), a record whose decomposition panics (`poison`), malformed, blank,
or not UTF-8. The actions follow one call: `StatFile`, `ReadOffset` (with
`unwrap_or(0)` as `ReadOffsetFails`), `OpenFile` (file_length),
`ReadLines`/`ReadError`, then per record `Decompose`, `DecomposeFails` or
`DecomposePanics`, `CommitChunk` with `Boundary` and `Counted`, or
`CommitEmpty`; `TxFails` and `Crash` drop the call anywhere. SQLite's write lock is taken by the
first write of a transaction. `Appends` is the writer. The file never shrinks:
nothing in the code handles truncation.

### 2.2 Watcher

Lines are counted, not cut. One `conn.call` is one step, as the daemon's SQL
runs on one thread. `Write`, `Notify` and `OtherEvent` are the outside;
`SpawnWatcher`, `SyncAllStep` (walk, stat, sync, rebuild) the start;
`OpenGate`, `TakeEvent` (`IgnoreOther`, `Debounce`, `Accept`), `Handler`
(`IsNewFile`, `Stat`, `SyncNothing`, `SyncRecords`, `Announce`, `MarkDirty`), `Exit` and
`FtsTimer` the loop. A sync that fails after some batches is `CommitPart`, in
the loop and in sync_all alike; sync_all counts its file under files_errored,
which rebuilds no index. `forgotten` observes the indexes that lack rows when
nothing is left that would rebuild them.
Timers are ages in ticks that stop at their threshold. `Restart` ends the
process anywhere and starts the next one with what is in the database.

### 2.3 Decompose

The database is one function from rows (table name and unique key) to the
columns the properties ask about: of a message, its session and the columns
its overflow fields go to (`overflow`), which `Revise`, the UPDATE after the
insert, overwrites also when the message was there. Each decomposer is the sequence of its SQL
statements, in the order of the code, with the parents its foreign keys need;
`After` executes a prefix. `Ingest` runs a whole record, `IngestFails` any
proper prefix (no savepoint, the batch commits it), `Reread` moves a file's
offset back, `Retroactive` runs the artifact extraction over every stored tool
execution; one whose extraction fails part of the way is passed over and the rest
committed (`ExtractAll`), `skipped` observes which. A batch that is rolled back is one whose records have not been
handled yet, so it needs no action.

### 2.4 Migrations and Daemons

`Open` makes the connection (and the file); `Check` is the SELECTs up to the
first missing version, in no transaction; `Apply` the transaction, which fails
when another process was faster; `Vacuum` follows when migration `DROPS` (005)
was among those applied. `Busy` is the 5 s timeout, `Close` an end anywhere. A
migration's SQL is one change that fails when it is there already.

`Daemons` gives every process a `stage`. A daemon goes `opening` (StartServe),
`bound` (BindTcp), `clean` (RemoveStale), `serving` (BindUds), `stopping`
(Signal) and ends by `CleanUp` or `Kill`; its event streams, which a graceful
shutdown waits for and only their readers close, are `streams`. A command goes
`looking`, `health` (AskHealth), `detected` (Healthy), then `waiting` and
`served` for each request (Request, Answer), or `direct` and `opening`
(Direct); `Cut` is what it sees of a daemon that goes. `Ingest` commits a
message, by a daemon or by `sync` (StartSync), while an export reads `Batch`
after `Batch`. On a daemon's connection an export is one closure, so nothing
of that daemon comes between its batches; other processes do. `excused` and
`overlapped` observe what the properties except.

### 2.5 The surfaces

A database is a record of tables, a table the sequence of its rows, a text the
sequence of its characters (runs of letters are one). Every query, handler,
client method, command and tool is an operator of the source's name; arguments
that were not given are not in the function's domain, so the defaults are
where the code has them. `Wire` is the request line: the client's escaping,
the extractors' decoding and refusals. `Api!Answer` is the router and its
handlers, `Client!RequestsOf` what a command sends, `Cli!main` a command in a
world with or without a daemon. An operation's snippet may be NULL, and a page
with such a hit is an error (`search_file_operations`), which the handler answers by
500. `Surfaces` has two actions, `Commit` (the next
batch of a file, one transaction) and `Rebuild` (the indexes), and asks every
question in every state.

## 3. The runs

| Run | Instance | Shows |
|---|---|---|
| `sync_torn` | 2 processes, 2 lines (whole, a `wide` line is a record like any other; torn, a `poison` line is), appends that end at any unit, failing writes, batches of 1 | no silent loss, offset within the file, counts cover rows, each commit advances; `IInv` |
| `sync_whole` | 2 processes, 3 lines, whole-line appends, batches of 2, one kill or lost SELECT, fairness | refinement of `AtLeastOnce`, every record is ingested, the offset comes to rest at the end of the file |
| `sync_partial` (violation) | 1 process, 1 line, torn append | parser.rs:78-83 promises a torn line is read again; the clamp saves an offset inside it and its record is lost (as a reported malformed line) |
| `sync_poison` (violation) | 1 process, 2 lines | a panic in `log_overflow` (byte slice inside a character) keeps a file from ever being ingested further |
| `watcher` | 1 file, 3 lines, channel of 1, two failing calls, one restart, fairness; 140,170 states | every lag is explained, every index without its rows has a rebuild planned or is one the code has lost track of, sessions start once; events are served or known missed; in quiet directories an index gets its rows, or becomes one the code has lost track of; a signal ends the loop |
| `watcher_debounce` (violation) | 1 file | the last write of a burst is not synced (README.md:39) |
| `watcher_fts_timer` (violation) | 1 file | events restart the 30 s sleep: the periodic rebuild starves (watcher.rs:16-18) |
| `store` | 2 files of 4 and 3 records, one forked from the other, one failure in a record or in one extraction of the retroactive pass, one reread; 363,310 states | convergence, foreign keys, linked results, counts that cover, first-seen provenance, idempotence of the rows with a key but for counters and a message's overflow columns, healing by the retroactive pass, also past a tool use it fails to extract |
| `store_copies` (violation) | the same files, no failure, one reread | rows without an effective key are stored again (README.md:40 and :133), NULL versions among them (drift.rs:122-126) |
| `store_counts` (violation) | the same files, no fault | the retroactive pass counts every operation again |
| `surfaces` | 2 session files of 2 projects in batches, rebuilds at any time; 511 states, in each about 60 questions | commands answer alike with and without a daemon (`ModesAgree`), tools as HTTP (`ToolsAgree`), views and totals agree, pages tile, files replay, stored text is found, named parameters bind |
| `daemons` | 2 daemons on one port or on two, one command or sync, 2 migrations, 1 kill, locks; 167,170 states | migrations once and in order, a lone daemon's socket leads to it, commands answer, an export misses nothing, what should end ends |

### Bounds and why they are enough

* `NumLines` 2-3 with `BatchSize` 1-2: there is a batch in the middle and a
  last one, and a line on each side of every offset. Two processes: the races
  are pairwise, on one offset; the theorems hold for any number.
* `MaxFaults` 1 or 2, `MaxRestarts` and `MaxRereads` 1: a fault at every place, and
  in `watcher` a second one after it. In
  `sync_torn` writes may fail without bound; kills are then no further
  behaviour, for what a kill leaves is what `TxFails` leaves.
* `watcher` has one file: another file's events fill the channel as any other
  event does, and its four safety properties are proved for any number of files.
  With the first line blank there is a sync without a record, one that makes the
  session no new one, and two that bring records, one of which can be half done.
* `Capacity` 1 makes the channel overflow on the second event; `DebounceTicks`
  1 and `FtsTicks` 1 or 2 are the shortest windows in which something can come
  inside and outside of them. Only comparisons with the thresholds matter.
* The corpus of `store` has a record of every kind that touches a keyed table
  another record touches as well, a command without a path, NULL versions and
  NULL tool ids, a copied message whose overflow fields differ from the
  original's, a session that an attachment creates, and a tool use in a user
  record, which only the retroactive pass extracts (as those of before migration
  003).
  Left out of it are the records that add no case: queue-operation, snapshot
  and unknown ones only write drift rows, which the attachments and the summary
  write too, and a progress record upserts what a system record upserts.
* `CHECK_DEADLOCK FALSE` where files are finite and the daemon may be down for
  good (`Watcher`), every line has been read (`Decompose`), or a single process
  has read everything (`sync_partial`); `FileSync`'s other runs check for deadlock.

* `daemons`: two daemons and one command (or `sync`) make three processes that
  open one database, of which any two race; `LAST` 2 migrations are one to be
  found missing by both and one behind it, the first of them `DROPS`. The ports are
  the same, or two. `Messages` 1 and 2, the later `Stored`, with `BATCH_SIZE`
  1: an earlier message is committed before, between or after the batches. Any
  messages and any batch size are left to the proof (`ExportNeverMisses`).
  A command asks 3 requests (stats) or 0 (an export). `MaxKills` 1 leaves a
  stale socket to the other daemon and to the command.
* `surfaces`: the feed's names and texts hold every character that the request
  line, LIKE or a tokenizer treats apart (`&`, `/`, `_`, `%`, `+`, blank); the
  limits 20 to 500 are 1 to 4 (`MCDefaultLimit`, `MCToolLimit`, in the order of
  the code's), so that pages end inside of the data.
* `daemons` has `CHECK_DEADLOCK FALSE`: every process may have ended; so has
  `surfaces`, where every batch is stored and indexed.

### Fairness

* `FileSync!FairSpec`: a call that has begun runs on, and sync is called again
  and again. The latter is a premise about the environment (file events, daemon
  starts, `claude-history sync`), not about one call; weak fairness of
  `SyncStep(p)` per process. Failing writes and kills are never fair.
* `Watcher!FairSpec`: weak fairness of the spawned tasks, the clock and the
  OS's notifications. tokio's `select!` picks among ready branches at random,
  so a branch that is ready again and again is taken: strong fairness of
  `TakeEvent`, `Exit` and `FtsTimer`. Starvation found under it
  (`watcher_fts_timer`) is therefore not an artefact: the timer branch is
  never ready.

* `Daemons!FairSpec`: weak fairness of what a process does next once it has
  begun (`ServerStep`, `ClientStep`): OS threads and tokio tasks run on.
  Starting, signals, kills, locks, commits and streams that close are never
  fair, so a daemon with streams on both listeners may stop for ever.

## 4. The theorems

`FileSyncProofs`, for every set of processes, number of lines, subset of line
kinds and cuts, batch size, and bound of faults:

* `TypeCorrect`, `Invariance` (`[]IInv`), `SilentLossNever`,
  `OffsetWithinFile`, `CommitsAdvance`, `CountAlwaysCovers`.

`NoSilentLoss` alone is not inductive: nothing in it says why the offset a
commit saves is covered. `IInv` adds, for each call, what it may rely on
whatever the others do: rows and reports only grow, so the lines below the
offset it read (`from`) stay accounted for; each record of its parse is to do,
in the open transaction, or accounted for (`BatchInv`); its offsets are within
the file; and after the first record of a chunk every record to come starts
behind `from`, which is why a commit advances. One lemma per action proves the
step; `Boundary` and `NewOffset` have lemmas of their own. `CountAlwaysCovers`
has an invariant of its own, `CountInv`: what a transaction has pending is at
most what its call has counted in the chunk.

`FileSyncWholeProofs`, if appends leave whole lines and no write fails
(`WholeAppends`): `NothingLost`, `NoFalseReport`, `ImplementsAtLeastOnce` (the
refinement mapping sends the file to its whole lines, the offset to a line
number, the rows to what is delivered). The added invariant is that every offset a call holds
is a line start.

`WatcherProofs`, for every set of files, channel capacity, thresholds and
bounds of faults and restarts: `TypeCorrect`, `LagAlwaysExplained`,
`StaleAlwaysPlanned`, `StartedAtMostOnce`. The inductive invariant adds
`TasksInv` (nobody consumes what is not written, a handler has a file, sync_all
holds one only while it goes through them and does not run before the watcher
has been tried) and `StartedInv` (who is announced has rows, and a handler that took its
file for a new one is the only one to announce it). Without the first a step of
one task could take a file out of `WillBeRead`; without the second
the answer of `is_new_file` could be stale when `Announce` uses it.
`StaleAlwaysPlanned` says two things: outside of `forgotten` a rebuild is planned;
and `messages` gets into `forgotten` by a failing call, the end of a daemon, or a
shutdown only. The other two indexes get there also when sync_all ends, which does
not rebuild them.

`DecomposeProofs`, for every corpus of records, order of the files, failing
statement and rereading: `TypeCorrect`, `NeverRejected`, `ResultsAlwaysLinked`,
`AlwaysConverges`, `CountsAlwaysCover`, `ProjectsNeverAhead`, `FirstSeenStays`,
`ReingestOnlyTallies`, `RetroactiveAlwaysHeals`: every property of `store`. Of a
parsed record `LinesAssumption` asks that its lists are lists, those of paths of
strings, and its overflow is finite, as serde's types are. The argument has
three layers.

* What a decomposer writes (`GoodRecord`): a list of statements is `Good` if
  each has a shape the tables ask for (`Fits`), its parents are inserted by
  statements before it in the list (`Grounded`), and one that puts a mutating
  operation on record stands between those that insert and count its file
  (`Paired`). `\o`, `If`, `Each` and `FlattenSeq`, of which the lists are made,
  keep this (`GoodJoin`, `GoodIf`, `GoodFlat`).
* What executing it does: rows stay, and keep what they say but for counters,
  answers, and the overflow columns of the message that is read (`Later`); a database whose rows hang together (`Sound`: a stored
  tool use is one of a record and its message is there, a message has its session,
  counters are numbers) stays so; and a grounded list is never rejected, so that a
  run executes every statement (`Progress`).
* What the state adds: what is decomposed is stored (`Stored`), what the offset
  has passed is decomposed or has failed (`Passed`), and fails only for a failing
  statement (`FaultsOnly`); uses and later results of a file are
  linked (`Linked`). `ResultsLinked` alone is not inductive: it does not say that the
  row of the use is there when its result comes. For `CountsCover` the operations that
  a failed line, or a tool use the last retroactive pass skipped, put on record are excused, and of all others a file's row counts
  at least as many (`Covers`): a run counts each operation it inserts or finds
  (`CountsTo`), a part of one excuses what it inserts.

`After`, `ExtractAll` and `FlattenSeq` recurse over a list. That these functions
exist, and what they compute, is proved by induction over the set of
the lengths for which it holds (`Facts!Induct`), once for each.

`TypeOK` was restated for this proof: the retroactive pass extracts every stored
tool use, one that a user record carries too, and under the session its message
was first stored with, so that it may store rows that no record's decomposition
inserts (`ArtifactRows`).

`MigrationsProofs`, for every set of processes and number of migrations:
`SchemaAlwaysInOrder`. `SchemaInOrder` does not say why the migration a process
applies is the next one; the invariant `SchemaInv` adds that all versions below
the one a process has come to are applied. A transaction that does not find its
own version applied then finds exactly the ones before it.

`DaemonsProofs`, for every set of daemons and commands, every port, and every
pattern of starts, signals, locks and kills:

* `SchemaSurvivesDaemons`: every step of `Daemons` is a step of `Migrations` or
  leaves the schema alone (`StepOpens`), so its invariant carries over.
* `SocketAlwaysLeads`: `SocketInv` adds that a daemon which has not overlapped
  with another is alone (`Alone`), that the file is only ever that of a daemon
  that serves, stops or was killed (`SocketStage`), and that a daemon whose opening has
  not ended well has bound nothing (`ServerConn`).
* `CommandsAlwaysAnswer`: `CommandInv` says what an unexcused command may rely
  on between two of its steps: the socket leads to a daemon that accepts, so
  does its connection, the database is there and has all migrations, and its
  own opening has nothing to apply. What takes any of this away excuses it.
* `ExportNeverMisses`, for every set of messages and batch size: what an export
  has written at a place is no older than what is there now (`ExportInv`), for
  commits only shift the sorted table behind their own place; so what was behind the
  offset when the export began is behind it or written. The lemmas
  before it say what the n-th message of a finite set is. The attempt refuted
  an earlier form of the property, by which an export was in order unless a message
  older than its first one came late: of three messages, two late ones can
  bring a message it has written behind its offset again. It is in order
  if nothing that is older than what it has written is missing in it (`NothingLate`).

`SurfacesProofs`, for every feed of session files, and every order in which its
batches are stored and the indexes rebuilt:

* `Invariance`: the inductive invariant `IInv` says that tables and indexes hold
  rows of their shape (`Shaped`), that a file is read up to one of its batches
  (`Progress`), and that a stored block has its message (`Kinship`). A search
  joins the index of blocks with the messages, so without `Kinship` a block
  could be stored, indexed and never found.
* `PagesTiled` (`PagesTile`) and, for pages of every length,
  `PagesOfAnyLength`. A sort is a list whose n-th row is the one that n - 1
  others precede (`ArrangedIs`), so what one side of a search has beyond
  offset + limit cannot be among the first offset + limit of both sides merged
  (`TopOfPart`); pages of one list then join (`PagesOf`).
* `EveryTextFound` (`StoredTextIsFound`), for texts of any characters, in blocks,
  attachments and the three columns of an operation: a text's tokens and each of
  its words occur in it (`WholeOccurs`, `WordOccurs`), and what matches in a
  rebuilt index is in the first page that is large enough. Of operations the page
  holds a NULL snippet, and fails, exactly when one without content matches.
* `ModesAlike` (`ModesAgree`), for every command with every argument it can be
  given, in every state. Escaping a text and decoding it again yields the text,
  for one octet at a time; the pairs of a query string split where
  they were joined; a path of a word and an id leads to its own route, and to no
  other but for "search" (`RoutesMatch`, `WordEndpoints`, `IdEndpoints`); and each command
  then puts the arguments where its handler takes them from, with the same
  defaults (`SessionsAlike` and one such lemma per command, joined in `CommandAlike`).
* `TotalsAdded` (`TotalsAgree`): tokens by model, by session and by day add up to
  the same totals, and a session's share is its summary's. Besides `IInv` it
  needs `Origins`, that the messages and the counts of tokens are rows of the
  files (`Provenance`): only then has each row a session, a day and counts that
  are numbers or NULL. The order of texts is total (`TextOrder`, `KeyOrder`), so
  GROUP BY puts each row in one group and the groups' sums add up to the whole
  (`TotalOfGroups`, `GroupsAdded`); a sort or a reversal of the groups changes no
  sum (`TotalShuffled`). The summary takes the counts by their messages' uuids
  and the statistics by a join with the messages: as a uuid belongs to one
  session, they are the same rows (`SharesAgree`, `TotalPicked`).
* `NamesAreBound` (`BindsAsNamed`), for every directory of queries and all
  values. A statement is spelled by walking from its first place on, past a
  whole name at a time. At equal places of the statement and of what it is
  rewritten to the same quotes have been opened, so a position is read back
  where a name was written and nowhere else (`BoundIs`, by induction from the
  end of the statement).

What these ask of the constants: `FeedAssumption` (a batch's rows are lists of
rows, their text columns hold a text or NULL, and a block comes with its message:
`decompose_record` inserts both in one transaction), `CommandsAssumption` (a
command has the arguments clap requires of it or has defaults for, others only of
those it knows, each a number, a flag or a text), `TokensAssumption` (a message of the files has a session
and a timestamp with a day, its model may be NULL; a uuid is the key of one
session's message, 001_initial.sql; a count of tokens is a number or NULL),
`RankAssumption` (no two characters have one place in the collation), `CannedAssumption` (a named query writes its parameters as
names, so `?` is in literals only, and has at most as many as there are numerals:
a query that mixes its own `?1` with names is outside of the claim, its
positions would clash), `NumeralAssumption` (numerals of different numbers
differ), `HexAssumption` and `RoutesAssumption` (escapes of different characters
differ and hold none that is escaped, nor do the words of the routes).

The proofs rest on the named ASSUMEs of the constants and nothing else. TLC
evaluates these in every run.

## 5. Only model-checked, and not modelled

* Liveness (`EventuallyIngested`, `CatchesUp`, the properties of
  `watcher`) and fairness are beyond the proof system.
* So is the liveness of `Daemons`.
* Of the surfaces, `ToolsAgree`, `ViewsAgree` and `HistoryReplays` are checked
  by TLC only. They compare counts and lists of rows of seven tables, whose
  joins would need the keys and foreign keys of all of them in the invariant
  (for tokens and messages alone it is `TotalsAdded`).
* The properties of `surfaces` say what the code does, which has corners:
  `HistoryReplays` is about files that one session writes and edits, by
  operations that succeed, at distinct times. An operation that failed is
  replayed all the same, an edit replaces every occurrence of its old text, an
  edit without a write before it yields nothing, and an unknown message as the
  point in time means no point in time. `ModesAgree` excepts a blank search
  (refused by HTTP, no result directly), an empty id (no route) and the plans of a
  session called "search" (the route of the search of plans).
  `ToolsAgree` excepts git_log's default limit (50, HTTP 100) and a session
  without plans (an empty list, HTTP 404). `ViewsAgree` leaves out the token
  totals of `get_project`, which a view multiplies. It says of a file's
  operation_count that it is at least the number of operations that are no reads:
  reads are not counted (artifacts.rs:274-279), and the retroactive pass counts
  again (`store_counts`). A command without a path is in the timeline but has no
  row in files.
* What the properties except is also where the code does not do what its
  comments say, beside the violation runs. A failed periodic rebuild is not
  retried "on next interval" (watcher.rs:750), for 753 resets the flag:
  `StaleIsPlanned` and `QuietThenFresh` have its indexes among the `forgotten`
  ones. A search of file operations does not find what is in `command`, nor in
  the `old_content` of an operation without content (fts.rs:476-478): the
  snippet is cut from `content` (502), is NULL, and is read into a String (520),
  so that the whole search is an error; `StoredTextIsFound` says so.
* `StartedOnce` bounds the announcements of a session from above. That one is
  never announced, its first sync having failed after a batch or having been
  sync_all's, is what the code does and no property forbids.
* `%` and `_` are escaped for LIKE in some filters (attachments, drift) and not
  in others (sessions, plans, paths); `Query` has each as it is. LIKE's
  disregard of case is not modelled.
* `daemons` excepts what the code leaves open: a second daemon on another port
  takes the first one's socket away, and either's end removes it; a daemon that
  goes between the health check and the request makes the command fail (there
  is no second look), and no request has a timeout. A shutdown does not wait
  for both listeners, as the comment in serve.rs says, but for the first and
  100 ms. The database a daemon serves wins over `--db-path`.
* The loop of the watcher waits for sync_all before its first event
  (watcher.rs:534), although serve.rs:98-100 and watcher.rs:525-528 say that its
  live branch is not gated: `OpenGate` is in the model, and `EventServed` holds
  with it.
* Not modelled: SQLite itself beyond write lock, atomic commit, unique and
  foreign keys; automatic rollback of a transaction by a full disk; truncation
  or replacement of a session file; the regular expressions that read a Bash
  command; columns no property asks about; the loss of the daemon's connection
  for all files after a panic; the ring of 1024 SSE events (tokio's; a client
  that lags loses events by design); version monitoring; the record types
  (serde); output tables, configuration printing and MCP's protocol; release
  scripts.

## 6. Plan

1. *(done)* `FileSync`, `AtLeastOnce`, their proofs; `Watcher`; `Decompose`.
2. *(done)* `Migrations` and `Daemons` with their proofs; the surfaces.
3. *(done)* Proofs about `Watcher` and `Decompose`, and of `ExportMissesNothing`.
4. *(done)* Proofs about the surfaces: the properties of pages, search, named
   queries, totals of tokens, and of the two modes of a command.
5. Version monitoring (`check_version_change`, the backfill of
   version_history), beside `Watcher`.
