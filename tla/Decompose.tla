------------------------------ MODULE Decompose ------------------------------
(***************************************************************************)
(* What a parsed record becomes in the database: decompose_record          *)
(* (crates/store/src/decompose.rs) with its drift log (drift.rs) and its   *)
(* artifact pass (artifacts.rs), and the retroactive artifact pass that    *)
(* sync_all runs over what is stored (crates/store/src/sync.rs).           *)
(*                                                                         *)
(* A record is decomposed by a sequence of SQL statements. The database is *)
(* a function from rows, each named by its table and its UNIQUE key, to    *)
(* what the properties ask of the row's other columns. FileSync says when  *)
(* a record is handed to decompose_record: once, or again after an offset  *)
(* that another process or the user has moved back. A batch that is rolled *)
(* back is one whose records have not been handled yet.                    *)
(***************************************************************************)
EXTENDS Integers, FiniteSets, SequencesExt, Lists

CONSTANTS
  File,         (* the session files; a file's name is its session id      *)
  Lines,        (* the records of each file, in order                      *)
  None,         (* SQL NULL, a missing JSON field, an empty cwd            *)
  MaxFaults,    (* statements that fail (I/O, disk full): a bound          *)
  MaxRereads    (* times a file's offset is moved back: a bound            *)

(* A parsed record has the fields its type asks for; what the properties   *)
(* need of them is that a list is a list, of strings if it is one of paths, *)
(* and that an object has finitely many keys.                              *)
BlockIsParsed(b) ==
  b.type = "tool_use" =>
    /\ IsList(b.git) /\ IsList(b.files)
    /\ \A c \in ToSet(b.files) : IsList(c.paths) /\ None \notin ToSet(c.paths)

RecordIsParsed(r) ==
  /\ r.type \in {"user", "assistant"} =>
       IsList(r.content) /\ \A b \in ToSet(r.content) : BlockIsParsed(b)
  /\ r.type # "unknown" => IsFiniteSet(r.overflow)
  /\ r.type = "user" /\ r.plan => "planContent" \in r.overflow
  /\ r.type = "assistant" => IsFiniteSet(r.inner) /\ IsFiniteSet(r.metered)
  /\ r.type = "attachment" /\ r.body # "unknown" => IsFiniteSet(r.inner)

ASSUME LinesAssumption ==
  /\ DOMAIN Lines = File
  /\ \A f \in File :
       IsList(Lines[f]) /\ \A r \in ToSet(Lines[f]) : RecordIsParsed(r)
ASSUME BoundsAssumption == MaxFaults \in Nat /\ MaxRereads \in Nat

VARIABLES
  db,           (* row -> value                                            *)
  pos,          (* lines of each file the saved offset has passed          *)
  fresh,        (* sync_all's total_records > 0                            *)
  done,         (* lines decomposed without a failure, at least once       *)
  failed,       (* lines whose last decomposition failed                   *)
  skipped,      (* tool uses the last retroactive pass failed to extract   *)
  faults, rereads

vars == <<db, pos, fresh, done, failed, skipped, faults, rereads>>

-----------------------------------------------------------------------------
(***************************************************************************)
(* SQL statements. "insert" is INSERT OR IGNORE, or ON CONFLICT DO NOTHING;*)
(* "tally" is ON CONFLICT DO UPDATE SET count = count + 1, and also any    *)
(* insert that no UNIQUE key stops, the value being the number of copies;  *)
(* "bump" is the UPDATE of files.operation_count, "answer" that of a       *)
(* tool_executions row's result, "update" that of the columns of messages  *)
(* kept for overflow fields, "project" the upsert of projects.             *)
(***************************************************************************)
Statement(op, row, value, parents) ==
  [op |-> op, row |-> row, value |-> value, parents |-> parents]

Insert(row, value, parents) == Statement("insert", row, value, parents)
Tally(row, parents) == Statement("tally", row, 1, parents)

Session(s) == <<"sessions", s>>
Message(u) == <<"messages", u>>
FileRow(s, path) == <<"files", s, path>>

Put(d, row, value) ==
  [r \in DOMAIN d \cup {row} |-> IF r = row THEN value ELSE d[r]]

(* A row of a table whose key is taken is left as it is.                   *)
ReplaceRow(d, row, value) == Put(d, row, value)
DuplicateRow(d, row, value) ==
  Put(d, IF row \in DOMAIN d THEN Append(row, "again") ELSE row, value)
InsertRow(d, row, value) == IF row \in DOMAIN d THEN d ELSE Put(d, row, value)

AnswerByMessage(row, u, tool) == row[1] = "tool_executions" /\ row[2] = u
Answers(row, u, tool) == row[1] = "tool_executions" /\ row[3] = tool

SessionsOf(d, path) == {r \in DOMAIN d : r[1] = "sessions" /\ d[r] = path}

ProjectCountsOn(d, row) == IF row \in DOMAIN d THEN d[row] + 1 ELSE 1
ProjectCount(d, row) ==
  IF row \in DOMAIN d THEN Cardinality(SessionsOf(d, row[2])) ELSE 1

Exec(d, s) ==
  CASE s.op = "insert" -> InsertRow(d, s.row, s.value)
    [] s.op = "tally" ->
         Put(d, s.row, IF s.row \in DOMAIN d THEN d[s.row] + 1 ELSE 1)
    [] s.op = "bump" ->
         IF s.row \in DOMAIN d THEN [d EXCEPT ![s.row] = @ + 1] ELSE d
    [] s.op = "update" ->
         IF s.row \in DOMAIN d THEN [d EXCEPT ![s.row].overflow = s.value] ELSE d
    [] s.op = "answer" ->
         [r \in DOMAIN d |->
            IF Answers(r, s.row[2], s.row[3])
              THEN [d[r] EXCEPT !.answered = TRUE] ELSE d[r]]
    [] s.op = "project" -> Put(d, s.row, ProjectCount(d, s.row))

(* A foreign key has no parent row. Of a duplicate that is ignored it is   *)
(* not looked up.                                                          *)
Rejected(d, s) ==
  /\ ~ s.parents \subseteq DOMAIN d
  /\ s.op = "insert" => s.row \notin DOMAIN d

(* The database after the first n statements; the first that is rejected   *)
(* ends the record with an error, and nothing undoes those before it.      *)
After(d, stmts) ==
  LET run[n \in 0 .. Len(stmts)] ==
        IF n = 0 THEN [db |-> d, ok |-> TRUE]
        ELSE LET before == run[n - 1]
             IN IF before.ok /\ ~ Rejected(before.db, stmts[n])
                  THEN [db |-> Exec(before.db, stmts[n]), ok |-> TRUE]
                  ELSE [db |-> before.db, ok |-> FALSE]
  IN run

Run(d, stmts) == After(d, stmts)[Len(stmts)]

Rows(stmts) ==
  {stmts[i].row : i \in {j \in DOMAIN stmts :
                           stmts[j].op \notin {"bump", "answer", "update"}}}

-----------------------------------------------------------------------------
(***************************************************************************)
(* The artifacts of one tool_use block.                                    *)
(***************************************************************************)
If(cond, stmts) == IF cond THEN stmts ELSE <<>>
Each(seq, Op(_)) == FlattenSeq([i \in DOMAIN seq |-> Op(seq[i])])

UpsertFile(s, path) == Insert(FileRow(s, path), 0, {Session(s)})

(* id is the block's tool_use_id, or the composite one of a Bash command.  *)
FileOperation(s, u, id, path, mutates) ==
  Insert(<<"file_operations", id>>,
         [session |-> s, path |-> path, mutates |-> mutates],
         {Session(s), Message(u)})

Bump(s, path) == Statement("bump", FileRow(s, path), 1, {})

WriteOrEdit(s, u, b) ==
  If(b.path # None, <<UpsertFile(s, b.path),
                      FileOperation(s, u, <<b.tool>>, b.path, TRUE),
                      Bump(s, b.path)>>)

Read(s, u, b) ==
  If(b.path # None, <<UpsertFile(s, b.path),
                      FileOperation(s, u, <<b.tool>>, b.path, FALSE)>>)

GitOperation(s, u, b, op) ==
  <<Insert(<<"git_operations", b.tool, op>>, s, {Session(s), Message(u)})>>

FileCommandUncounted(s, u, b, c) ==
  Each(c.paths, LAMBDA path :
    <<UpsertFile(s, path), FileOperation(s, u, <<b.tool, c.cmd, path>>, path, TRUE)>>)

(* A command without a path gets a synthetic one and no row in files.      *)
FileCommand(s, u, b, c) ==
  If(c.paths = <<>>, <<FileOperation(s, u, <<b.tool>>, None, TRUE)>>) \o
  Each(c.paths, LAMBDA path :
    <<UpsertFile(s, path),
      FileOperation(s, u, <<b.tool, c.cmd, path>>, path, TRUE),
      Bump(s, path)>>)

Bash(s, u, b) ==
  Each(b.git, LAMBDA op : GitOperation(s, u, b, op)) \o
  Each(b.files, LAMBDA c : FileCommand(s, u, b, c))

Artifacts(s, u, b) ==
  If(b.name \in {"Write", "Edit"}, WriteOrEdit(s, u, b)) \o
  If(b.name = "Read", Read(s, u, b)) \o
  If(b.name = "Bash", Bash(s, u, b))

-----------------------------------------------------------------------------
(***************************************************************************)
(* The rows of a record.                                                   *)
(***************************************************************************)
UpsertSession(r) == <<Insert(Session(r.session), r.cwd, {})>>

InsertMessage(r) ==
  <<Insert(Message(r.uuid), [session |-> r.session, overflow |-> {}],
           {Session(r.session)})>>

(* The fields without a column of their own, and is_compact_summary,       *)
(* source_tool_use_id and plan_content, are written to the message by a    *)
(* second statement: to whatever row has this uuid, another copy's too. A  *)
(* field here is its name and its value.                                   *)
Overflow(r) == r.overflow \cup (IF r.type = "assistant" THEN r.inner ELSE {})

Revise(r) == <<Statement("update", Message(r.uuid), Overflow(r), {})>>

UpsertAgent(r) ==
  If(r.agent # None, <<Insert(<<"agents", r.agent>>, r.session, {Session(r.session)})>>)

ContentRow(r, i) ==
  Insert(<<"message_content", r.uuid, i>>, "kept", {Message(r.uuid)})

ContentBlock(r, i) ==
  LET b == r.content[i] IN
  <<ContentRow(r, i)>> \o
  If(b.type = "tool_use",
     <<Insert(<<"tool_executions", r.uuid, b.tool>>,
              [block |-> b, answered |-> FALSE], {Message(r.uuid)})>>) \o
  If(b.type = "tool_result",
     <<Statement("answer", <<"tool_executions", r.uuid, b.tool>>, TRUE, {})>>)

MessageContent(r) == FlattenSeq([i \in DOMAIN r.content |-> ContentBlock(r, i)])

(* One tally per overflow field; a NULL version conflicts with no other.   *)
LogOverflow(type, fields, version) ==
  Each(SetToSeq(fields), LAMBDA field :
    <<Tally(<<"schema_drift_log", field, type, version>>, {})>>)

LogRecordType(name, version) ==
  <<Tally(<<"record_type_drift_log", name, version>>, {})>>

DecomposeUser(r) ==
  UpsertSession(r) \o InsertMessage(r) \o MessageContent(r) \o Revise(r) \o
  If(r.plan, <<ContentRow(r, -1)>>) \o
  UpsertAgent(r) \o LogOverflow("user", r.overflow, r.version)

(* The session is upserted after the message that refers to it.            *)
AssistantMessageFirst(r) ==
  InsertMessage(r) \o UpsertSession(r) \o MessageContent(r) \o UpsertAgent(r)

TokenUsage(r) ==
  If(r.usage, <<Insert(<<"token_usage", r.uuid>>, "kept", {Message(r.uuid)})>> \o
              LogOverflow("assistant.message.usage", r.metered, r.version))

DecomposeAssistant(r) ==
  UpsertSession(r) \o InsertMessage(r) \o MessageContent(r) \o
  TokenUsage(r) \o Revise(r) \o UpsertAgent(r) \o
  LogOverflow("assistant", r.overflow, r.version) \o
  LogOverflow("assistant.message", r.inner, r.version)

DecomposeProgress(r) ==
  UpsertSession(r) \o LogOverflow("progress", r.overflow, r.version)

(* system_events and summaries have no UNIQUE key, and no foreign key.     *)
DecomposeSystem(r) ==
  UpsertSession(r) \o <<Tally(<<"system_events", r.uuid>>, {})>> \o
  UpsertAgent(r) \o LogOverflow("system", r.overflow, r.version)

DecomposeSummary(f, r) ==
  <<Tally(<<"summaries", f, r.leaf>>, {})>> \o LogOverflow("summary", r.overflow, "unknown")

DecomposeLight(r) == LogOverflow(r.type, r.overflow, "unknown")

DecomposeUnknown(r) == LogRecordType(r.name, r.version)

(* hook_executions is UNIQUE over a column that may be NULL.               *)
HookRow(r) ==
  LET row == <<"hook_executions", r.uuid, r.tool>>
      parents == {<<"attachments", r.uuid>>}
  IN <<IF r.tool = None THEN Tally(row, parents) ELSE Insert(row, "kept", parents)>>

DecomposeAttachment(r) ==
  UpsertSession(r) \o
  LogOverflow("attachment", r.overflow, r.version) \o
  <<Insert(<<"attachments", r.uuid>>, r.session, {Session(r.session)})>> \o
  If(r.body = "hook", HookRow(r)) \o
  IF r.body = "unknown" THEN LogRecordType("attachment", r.version)
  ELSE LogOverflow("attachment.body", r.inner, r.version)

UpsertProject(r) ==
  If(r.type \in {"user", "assistant", "progress", "system"} /\ r.cwd # None,
     <<Statement("project", <<"projects", r.cwd>>, 1, {})>>)

DecomposeArtifacts(r) ==
  If(r.type = "assistant",
     Each(r.content, LAMBDA b :
       If(b.type = "tool_use", Artifacts(r.session, r.uuid, b))))

(* decompose_record of a line of file f.                                   *)
Decompose(f, r) ==
  (CASE r.type = "user" -> DecomposeUser(r)
     [] r.type = "assistant" -> DecomposeAssistant(r)
     [] r.type = "progress" -> DecomposeProgress(r)
     [] r.type = "system" -> DecomposeSystem(r)
     [] r.type = "summary" -> DecomposeSummary(f, r)
     [] r.type = "attachment" -> DecomposeAttachment(r)
     [] r.type = "unknown" -> DecomposeUnknown(r)
     [] OTHER -> DecomposeLight(r))
  \o UpsertProject(r) \o DecomposeArtifacts(r)

Statements ==
  [f \in File |-> [k \in DOMAIN Lines[f] |-> Decompose(f, Lines[f][k])]]

AllRows ==
  UNION {UNION {Rows(Statements[f][k]) : k \in DOMAIN Lines[f]} : f \in File}

(* The retroactive pass extracts the tool uses of every stored message,    *)
(* under the session it is stored with: that of any copy.                  *)
Spoken ==
  {r \in UNION {ToSet(Lines[f]) : f \in File} : r.type \in {"user", "assistant"}}

UsesOf(u) ==
  UNION {{b \in ToSet(r.content) : b.type = "tool_use"} : r \in {m \in Spoken : m.uuid = u}}

Extractable(d, row) ==
  row[1] = "tool_executions" /\ Message(row[2]) \in DOMAIN d

ArtifactsOf(d, row) == Artifacts(d[Message(row[2])].session, row[2], d[row].block)

Extractions(d) == {row \in DOMAIN d : Extractable(d, row)}

ArtifactRows ==
  UNION {UNION {Rows(Artifacts(m.session, m.uuid, b)) : b \in UsesOf(m.uuid)} : m \in Spoken}

-----------------------------------------------------------------------------
Counting == {"files", "projects", "system_events", "summaries",
             "schema_drift_log", "record_type_drift_log"}

TypeOK ==
  /\ DOMAIN db \subseteq AllRows \cup ArtifactRows
  /\ \A r \in DOMAIN db : r[1] \in Counting => db[r] \in Nat
  /\ \A f \in File :
       /\ pos[f] \in 0 .. Len(Lines[f])
       /\ done[f] \subseteq DOMAIN Lines[f]
       /\ failed[f] \subseteq DOMAIN Lines[f]
  /\ fresh \in BOOLEAN
  /\ skipped \subseteq Extractions(db)
  /\ faults \in 0 .. MaxFaults
  /\ rereads \in 0 .. MaxRereads

Init ==
  /\ db = <<>>
  /\ pos = [f \in File |-> 0]
  /\ fresh = FALSE
  /\ done = [f \in File |-> {}]
  /\ failed = [f \in File |-> {}]
  /\ skipped = {}
  /\ faults = 0
  /\ rereads = 0

(* The next record of f. By the watcher too: whether the retroactive pass  *)
(* then runs is open in any case.                                          *)
Advance(f) ==
  /\ pos[f] < Len(Lines[f])
  /\ pos' = [pos EXCEPT ![f] = @ + 1]
  /\ fresh' = TRUE
  /\ UNCHANGED <<skipped, rereads>>

Succeeds(f, k) ==
  /\ done' = [done EXCEPT ![f] = @ \cup {k}]
  /\ failed' = [failed EXCEPT ![f] = @ \ {k}]

Fails(f, k) ==
  /\ failed' = [failed EXCEPT ![f] = @ \cup {k}]
  /\ UNCHANGED done

(* A record whose message is known is passed over.                         *)
OutcomeOfNew(f, k) ==
  LET r == Lines[f][k] IN
  IF r.type = "assistant" /\ Message(r.uuid) \in DOMAIN db
    THEN [db |-> db, ok |-> TRUE] ELSE Run(db, Statements[f][k])
Outcome(f, k) == Run(db, Statements[f][k])

Ingest(f) ==
  /\ Advance(f)
  /\ LET k == pos[f] + 1
         outcome == Outcome(f, k)
     IN /\ db' = outcome.db
        /\ IF outcome.ok THEN Succeeds(f, k) ELSE Fails(f, k)
  /\ UNCHANGED faults

(* A statement fails: the record is logged, and counted as handled, with   *)
(* the rows of the statements before it in the batch's transaction.        *)
IngestFails(f) ==
  /\ Advance(f)
  /\ faults < MaxFaults
  /\ faults' = faults + 1
  /\ LET k == pos[f] + 1
         stmts == Statements[f][k]
     IN \E n \in 0 .. Len(stmts) - 1 : db' = After(db, stmts)[n].db
  /\ Fails(f, pos[f] + 1)

(* The offset goes back: by hand (README.md:135), or by a slower process.  *)
Reread(f) ==
  /\ rereads < MaxRereads
  /\ rereads' = rereads + 1
  /\ \E n \in 0 .. pos[f] - 1 : pos' = [pos EXCEPT ![f] = n]
  /\ UNCHANGED <<db, fresh, done, failed, skipped, faults>>

(***************************************************************************)
(* The retroactive pass at the end of sync_all: the artifacts of every     *)
(* tool_executions row. Of each extraction that fails, the number of       *)
(* statements it comes to.                                                 *)
(***************************************************************************)
Cuts(d, bad) ==
  LET Reach(row) == 0 .. Len(ArtifactsOf(d, row)) - 1
  IN {cut \in [bad -> UNION {Reach(row) : row \in bad}] :
        \A row \in bad : cut[row] \in Reach(row)}

ExtractOne(d, row, stmts, cut) ==
  IF row \in DOMAIN cut THEN After(d, stmts)[cut[row]].db ELSE Run(d, stmts).db

(* A failure ends the pass (the ? operator for the match).                 *)
ExtractUntilFailure(d, cut) ==
  LET rows == SetToSeq(Extractions(d))
      pass[n \in 0 .. Len(rows)] ==
        IF n = 0 THEN d
        ELSE IF DOMAIN cut \cap {rows[i] : i \in 1 .. n - 1} # {} THEN pass[n - 1]
        ELSE ExtractOne(pass[n - 1], rows[n], ArtifactsOf(d, rows[n]), cut)
  IN pass[Len(rows)]

(* A tool use whose extraction fails is logged and passed over: what it    *)
(* has done is kept, and the pass goes on.                                 *)
ExtractAll(d, cut) ==
  LET rows == SetToSeq(Extractions(d))
      pass[n \in 0 .. Len(rows)] ==
        IF n = 0 THEN d
        ELSE ExtractOne(pass[n - 1], rows[n], ArtifactsOf(d, rows[n]), cut)
  IN pass[Len(rows)]

Retroactive ==
  /\ fresh
  /\ fresh' = FALSE
  /\ \E bad \in SUBSET Extractions(db) :
       /\ faults + Cardinality(bad) <= MaxFaults
       /\ faults' = faults + Cardinality(bad)
       /\ \E cut \in Cuts(db, bad) : db' = ExtractAll(db, cut)
       /\ skipped' = bad
  /\ UNCHANGED <<pos, done, failed, rereads>>

(* The FTS rebuild before it fails, or its own transaction does.           *)
RetroactiveFails ==
  /\ fresh
  /\ faults < MaxFaults
  /\ faults' = faults + 1
  /\ fresh' = FALSE
  /\ UNCHANGED <<db, pos, done, failed, skipped, rereads>>

Next ==
  \/ \E f \in File : Ingest(f) \/ IngestFails(f) \/ Reread(f)
  \/ Retroactive \/ RetroactiveFails

Spec == Init /\ [][Next]_vars

-----------------------------------------------------------------------------
(***************************************************************************)
(* Properties.                                                             *)
(***************************************************************************)
AllSucceeded == \A f \in File : failed[f] = {}

(* No record ever fails for want of a parent row: only a failing statement *)
(* makes a line fail, whichever file comes first, and whatever an earlier  *)
(* failure has left undone.                                                *)
NothingRejected == \A f \in File : Cardinality(failed[f]) <= faults

(***************************************************************************)
(* A tool_use and its tool_result meet, though they are lines of different *)
(* records and the row of the one is written by the other (ART-04): once a *)
(* file has been read past both without a failure, the row has its result. *)
(***************************************************************************)
ToolBlocks(f, k, type) ==
  IF Lines[f][k].type \in {"user", "assistant"}
    THEN {b \in ToSet(Lines[f][k].content) : b.type = type} ELSE {}

ResultsLinked ==
  \A f \in File : \A i, j \in 1 .. pos[f] :
    i < j /\ {i, j} \cap failed[f] = {} =>
      \A use \in ToolBlocks(f, i, "tool_use"), result \in ToolBlocks(f, j, "tool_result") :
        use.tool = result.tool =>
          db[<<"tool_executions", Lines[f][i].uuid, use.tool>>].answered

(***************************************************************************)
(* First-seen provenance (decompose.rs:128-132): what a session and a      *)
(* message were first stored with stays, though other files hold records   *)
(* of the same session and copies of the same message. Only the overflow   *)
(* columns of a message change, and only to those of the copy being read.  *)
(***************************************************************************)
ReadingCopyOf(row) ==
  \E f \in File :
    /\ pos[f] < pos'[f]
    /\ LET r == Lines[f][pos'[f]] IN
         /\ r.type \in {"user", "assistant"} /\ Message(r.uuid) = row
         /\ db'[row].overflow = Overflow(r)

FirstSeenKept ==
  [][\A row \in DOMAIN db :
       /\ row[1] \in {"sessions", "messages"} => row \in DOMAIN db'
       /\ row[1] = "sessions" => db'[row] = db[row]
       /\ row[1] = "messages" =>
            /\ db'[row].session = db[row].session
            /\ db'[row].overflow = db[row].overflow \/ ReadingCopyOf(row)]_vars

(***************************************************************************)
(* README.md:133: "Re-running sync is idempotent". Ingesting again a line  *)
(* that was once decomposed in full adds no row with a key and changes     *)
(* none, but for the counters, a result that now finds the tool use it     *)
(* came too early for, and the overflow columns of its own message, which  *)
(* another copy may have written since. Rows that have no key are stored   *)
(* again: NoCopies.                                                        *)
(***************************************************************************)
HasKey(r) ==
  /\ r[1] \notin {"system_events", "summaries"}
  /\ r[1] \in {"hook_executions", "record_type_drift_log"} => r[3] # None
  /\ r[1] = "schema_drift_log" => r[4] # None

Tallied(r) == r[1] \in Counting \/ ~ HasKey(r)

SameOrAnswered(r, old, new) ==
  new = old \/ (r[1] = "tool_executions" /\ new = [old EXCEPT !.answered = TRUE])

ReingestChangesOnlyTallies ==
  [][\A f \in File :
       pos[f] + 1 \in done[f] /\ Ingest(f) =>
         /\ DOMAIN db' = DOMAIN db
         /\ \A r \in DOMAIN db : ~ Tallied(r) =>
              \/ SameOrAnswered(r, db[r], db'[r])
              \/ ReadingCopyOf(r) /\ db'[r].session = db[r].session]_vars

(***************************************************************************)
(* README.md:40: "idempotent via UUID-keyed INSERT OR IGNORE - no          *)
(* duplicate rows on re-run" (README.md:133, decompose.rs:5-7 too).        *)
(* And drift.rs:122-126: "every no-version observation conflicts with      *)
(* prior no-version observations", so that each is one row with a count.   *)
(***************************************************************************)
NoCopies ==
  [][\A f \in File :
       pos[f] + 1 \in done[f] /\ Ingest(f) =>
         \A r \in DOMAIN db : ~ HasKey(r) => db'[r] = db[r]]_vars

(***************************************************************************)
(* Convergence: when every file has been read to its end and no line's     *)
(* last decomposition failed, every row any record stands for is there, in *)
(* whatever order the files were read, and however far a failed attempt    *)
(* had come before the line was read again.                                *)
(***************************************************************************)
Converged ==
  AllSucceeded /\ (\A f \in File : pos[f] = Len(Lines[f])) => AllRows \subseteq DOMAIN db

(* The retroactive pass leaves no stored tool use without its artifacts    *)
(* but those it failed to extract and reported, though the record that     *)
(* brought it failed before they were extracted, and though the extraction *)
(* of others fails in the pass.                                            *)
RetroactiveHeals ==
  [][Retroactive =>
       \A row \in DOMAIN db : row[1] = "tool_executions" /\ row \notin skipped' =>
         Rows(ArtifactsOf(db, row)) \subseteq DOMAIN db']_vars

(***************************************************************************)
(* files.operation_count and file_operations are kept by two statements,   *)
(* under two keys: the count covers the mutating operations on record, as  *)
(* long as no failure came between the two.                                *)
(***************************************************************************)
Operations(s, path) ==
  {r \in DOMAIN db :
     /\ r[1] = "file_operations"
     /\ db[r].session = s /\ db[r].path = path /\ db[r].mutates}

CountsCover ==
  AllSucceeded /\ skipped = {} =>
    \A r \in DOMAIN db :
      r[1] = "files" => Cardinality(Operations(r[2], r[3])) <= db[r]

(* projects.session_count is never more than the project's sessions, but   *)
(* for the 1 it starts with.                                               *)
ProjectNeverAhead ==
  \A r \in DOMAIN db :
    r[1] = "projects" => db[r] <= 1 \/ db[r] <= Cardinality(SessionsOf(db, r[2]))

(***************************************************************************)
(* migrations/003_artifacts.sql:15: files "Tracks ... total operation      *)
(* count", and sync.rs:436-437 calls the retroactive pass "Idempotent via  *)
(* INSERT OR IGNORE, safe to run on every sync".                           *)
(***************************************************************************)
CountsExact ==
  \A r \in DOMAIN db :
    r[1] = "files" => Cardinality(Operations(r[2], r[3])) = db[r]
=============================================================================
