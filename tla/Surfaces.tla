------------------------------ MODULE Surfaces ------------------------------
(***************************************************************************)
(* The three surfaces of one history: the command line, the daemon's HTTP  *)
(* interface and the MCP tools, asked while the history grows.             *)
(*                                                                         *)
(* Session files are read batch after batch; a batch is stored by one      *)
(* transaction.  The text indexes lag behind until they are rebuilt.  In   *)
(* every state every question may be asked, so a surface is compared with  *)
(* the others on every history that the files allow.                       *)
(***************************************************************************)
EXTENDS Cli, Mcp

CONSTANTS
    Feed,       \* each file's batches: [rows: table -> rows, uuid, leaves]
    Commands,   \* the commands that are run, with their arguments
    Statements, \* statements for the SQL surfaces, with their parameters
    Canned,     \* the directory of named queries
    GivenValues,    \* the parameters that named queries are run with
    Chb         \* the bookmarks database, or None

\* What the code writes of a row, as far as the properties look into it: a
\* column of text holds a text or NULL, and an attachment holds texts.
NullableText(column) == column = None \/ (column = Some(column[1]) /\ IsList(column[1]))

RowShaped(table, r) ==
    /\ table \in {"message_content", "fts_message_content"} =>
          {"message_uuid", "block_type", "text_content"} \subseteq DOMAIN r
             /\ NullableText(r.text_content)
    /\ table \in {"file_operations", "fts_file_operations"} => \A c \in {"content", "old_content", "command"} :
          c \in DOMAIN r /\ NullableText(r[c])
    /\ table = "attachments" =>
          {"uuid", "inner_type", "texts"} \subseteq DOMAIN r
             /\ IsList(r.texts) /\ \A i \in DOMAIN r.texts : IsList(r.texts[i])
    /\ table = "fts_attachment_text_content" =>
          {"attachment_uuid", "text_content"} \subseteq DOMAIN r /\ IsList(r.text_content)

\* The tables that a record's rows are inserted into; the rest are derived.
Fed == DOMAIN EmptyDatabase
           \ {"fts_message_content", "fts_file_operations", "fts_attachment_text_content", "schema"}

\* A block refers to a message of its record, which one transaction stores.
WithItsMessage(rows, b) ==
    /\ "messages" \in DOMAIN rows
    /\ \E j \in DOMAIN rows["messages"] :
          /\ {"uuid"} \subseteq DOMAIN rows["messages"][j]
          /\ rows["messages"][j].uuid = b.message_uuid

ASSUME FeedAssumption ==
    \A f \in DOMAIN Feed :
        /\ IsList(Feed[f])
        /\ \A k \in DOMAIN Feed[f] : \A t \in DOMAIN Feed[f][k].rows :
              LET rows == Feed[f][k].rows
              IN  /\ t \in Fed
                  /\ IsList(rows[t])
                  /\ \A i \in DOMAIN rows[t] :
                        /\ RowShaped(t, rows[t][i])
                        /\ t = "message_content" => WithItsMessage(rows, rows[t][i])

\* The rows that the feed has for a table.
FeedRows(table) ==
    LET batches == UNION {Range(Feed[f]) : f \in DOMAIN Feed}
    IN  UNION {Range(b.rows[table]) : b \in {b \in batches : table \in DOMAIN b.rows}}

\* A message has one session and a timestamp with a day; its model may be
\* NULL.  A uuid is the key of its message (001_initial.sql).  A count of
\* tokens is a u64 or NULL.
ASSUME TokensAssumption ==
    /\ \A m \in FeedRows("messages") :
          /\ {"uuid", "session_id", "model", "timestamp"} \subseteq DOMAIN m
          /\ Written(m.session_id) /\ Written(m.timestamp) /\ m.timestamp # <<>>
          /\ m.model = None \/ (m.model = Some(m.model[1]) /\ Written(m.model[1]))
    /\ \A m, n \in FeedRows("messages") : m.uuid = n.uuid => m.session_id = n.session_id
    /\ \A u \in FeedRows("token_usage") :
          /\ {"message_uuid", "input_tokens", "output_tokens"} \subseteq DOMAIN u
          /\ DOMAIN u \cap {"session_id", "model", "timestamp"} = {}
          /\ \A c \in {"input_tokens", "output_tokens"} :
                u[c] = None \/ (u[c] = Some(u[c][1]) /\ u[c][1] \in Nat)

\* The commands are those that the command line reads.
ASSUME CommandsAssumption ==
    \A i \in DOMAIN Commands : Parsed(Commands[i].command, Commands[i].a)

\* A named query writes its parameters as names, not as positions, and there
\* is a numeral for each of them.
ASSUME CannedAssumption ==
    Canned # None => \A n \in DOMAIN Canned[1] :
        LET sql == Canned[1][n].sql
        IN  /\ IsList(sql)
            /\ \A i \in DOMAIN sql : sql[i] = "?" => Quoted(sql, i)
            /\ Len(extract_named_params(sql)) <= MaxNumber

VARIABLES
    db,         \* the database
    read        \* the batches stored of each file

vars == <<db, read>>

--------------------------------------------------------------------------
(* Storing a batch.                                                        *)

\* The row of a file is updated by what is done to it; the other rows of the
\* feed are new ones.
SameKey(table, r, s) ==
    table = "files" /\ r.session_id = s.session_id /\ r.file_path = s.file_path

Stored(rows, table, row) ==
    LET old == Places(rows, LAMBDA i : SameKey(table, rows[i], row))
    IN  IF old = <<>> THEN Append(rows, With(row, [id |-> Len(rows) + 1]))
        ELSE [rows EXCEPT ![old[1]] = With(row, @)]

\* The rows of a batch, one after the other.
StoredAll(rows, table, new) ==
    LET upto[n \in 0 .. Len(new)] == IF n = 0 THEN rows ELSE Stored(upto[n - 1], table, new[n])
    IN  upto[Len(new)]

Commit(f) ==
    /\ read[f] < Len(Feed[f])
    /\ LET batch == Feed[f][read[f] + 1]
       IN  db' = [t \in DOMAIN db |->
                     IF t \in DOMAIN batch.rows
                     THEN StoredAll(db[t], t, batch.rows[t])
                     ELSE db[t]]
    /\ read' = [read EXCEPT ![f] = @ + 1]

\* The three rebuilds that end a catch-up.
Rebuilt ==
    rebuild_fts_attachment_text_content(rebuild_fts_file_operations(rebuild_fts_index(db)))

Rebuild ==
    /\ db # Rebuilt
    /\ db' = Rebuilt
    /\ UNCHANGED read

Init ==
    /\ db = EmptyDatabase
    /\ read = [f \in DOMAIN Feed |-> 0]

Next == (\E f \in DOMAIN Feed : Commit(f)) \/ Rebuild

Spec == Init /\ [][Next]_vars

--------------------------------------------------------------------------
(* The command line with and without a daemon.                             *)

Offline == [served |-> None,       default |-> "home", dbs |-> [p \in {"home"} |-> db]]
Online  == [served |-> Some("home"), default |-> "home", dbs |-> [p \in {"home"} |-> db]]

\* What the daemon's interface cannot be asked: a search for nothing, which
\* the handler refuses, an empty id, which the router does not match, and the
\* plans of a session called "search", which it takes for the search of plans.
Unaskable(c) ==
    \/ c.command = "search" /\ Blank(c.a["q"])
    \/ c.command \in {"export", "artifacts", "plans show"} /\ c.a["session_id"] = <<>>
    \/ c.command = "attachments show" /\ c.a["uuid"] = <<>>
    \/ c.command = "plans show" /\ c.a["session_id"] = Word("search")

\* A command prints the same and exits the same whether a daemon serves the
\* database or not: its arguments survive the encoding of the request line,
\* the router and the handler's defaults ("Output format is identical
\* regardless of data source", main.rs).  What cannot be asked of a daemon
\* fails there.
ModesAgree ==
    \A i \in DOMAIN Commands :
        LET c == Commands[i]
        IN  \A out \in {[world \in {Online, Offline} |-> main(world, None, c.command, c.a)]} :
               out[Online] = IF Unaskable(c) THEN Failed ELSE out[Offline]

--------------------------------------------------------------------------
(* The MCP tools and the HTTP interface.                                   *)

Unlimited(a) == Columns(a, DOMAIN a \ {"limit"})

\* The tools that ask what a command asks.
Tools == {"search", "sessions", "query", "files", "git-log", "attachments list",
          "hook-executions", "plans list", "plans show"}

ToolAnswer(command, a) ==
    CASE command = "search"           -> tool_search_messages(db, RenamedTo(a, "q", "query"))
      [] command = "sessions"         -> tool_list_sessions(db, a)
      [] command = "query"            -> tool_query_messages(db, a)
      [] command = "files"            -> tool_list_files(db, a)
      [] command = "git-log"          -> tool_git_log(db, a)
      [] command = "attachments list" -> tool_list_attachments(db, a)
      [] command = "hook-executions"  -> tool_get_hook_executions(db, a)
      [] command = "plans list"       -> tool_list_plans(db, a)
      [] command = "plans show"       -> tool_get_plan(db, a)

\* The tool of messages also takes has_plan, as the endpoint does.
QuestionOf(command, a) ==
    IF command = "query" THEN Post(Path(<<"messages", "query">>), a)
    ELSE RequestsOf(command, a)[1]

\* The tool refuses no blank search and does not filter sessions by plan.
OnlyOverHttp(command, a) ==
    \/ command = "search" /\ Blank(a["q"])
    \/ command = "sessions" /\ "has_plan" \in DOMAIN a

\* The default limit of git operations is the smaller one for the tool; a
\* session without a plan has an empty list for the tool, and is not found
\* over HTTP.
Alike(command, a, tool, reply) ==
    IF command = "plans show" THEN tool = (IF reply.ok THEN reply ELSE Ok(<<>>))
    ELSE IF command = "git-log" /\ "limit" \notin DOMAIN a
         THEN reply.ok /\ IsPrefix(tool.value, reply.value)
    ELSE tool = reply

\* The tools that ask what no command asks: a statement is refused or answered
\* alike, and a named query is answered as the command line answers it, with a
\* daemon and without.
SqlAgrees ==
    /\ \A i \in DOMAIN Statements :
          LET tool == tool_execute_sql(db, Statements[i], FALSE)
              rest == sql_execute(db, Statements[i], FALSE)
          IN  IF tool.ok THEN rest = Json(tool.value) ELSE rest \in {BadRequest, Internal}
    /\ \A n \in DOMAIN Canned[1] : \A v \in DOMAIN GivenValues : \A slow \in BOOLEAN :
          \A world \in {Online, Offline} :
             run_queries_run(world, None, Canned, n, GivenValues[v], slow)
                 = PrintedOr(tool_run_query(db, Canned, n, GivenValues[v], slow))

\* A bookmark that is listed is found by its id and by its label.
BookmarksAgree ==
    LET listed == tool_list_bookmarks(Chb, [limit |-> MANY])
        found(b) == tool_search_bookmarks(Chb, [query |-> b.label, limit |-> MANY])
    IN  /\ listed.ok = (Chb # None)
        /\ listed.ok => \A i \in DOMAIN listed.value :
              /\ tool_get_bookmark(Chb, [id |-> listed.value[i].id]) = Ok(Some(listed.value[i]))
              /\ listed.value[i] \in Range(found(listed.value[i]).value)

\* An MCP tool answers what the HTTP interface answers to the same question,
\* with a limit and without one (mcp/tools.rs, api/).
ToolsAgree ==
    /\ \A i \in DOMAIN Commands : Commands[i].command \in Tools =>
          LET command == Commands[i].command
          IN  \A a \in {Commands[i].a, Unlimited(Commands[i].a)} :
                 \/ OnlyOverHttp(command, a)
                 \/ Alike(command, a, ToolAnswer(command, a),
                          Requested(db, QuestionOf(command, a)))
    /\ SqlAgrees /\ BookmarksAgree

--------------------------------------------------------------------------
(* Views of one history.                                                   *)

Added(rows, column) == Total(Each(rows, LAMBDA r : r[column]))

\* The tokens of the history add up to the same totals by model, by session
\* and by day, and a session's share is what its own summary says (query.rs:
\* token_stats_by_model, token_stats_by_session, token_stats_by_day,
\* session_summary).
TotalsAgree ==
    LET by(group) == analytics_tokens(db, [group_by |-> Word(group)]).body
        Share(s) == Select(by("session"), LAMBDA r : r.group_key = s)
    IN  /\ \A c \in {"message_count", "total_input_tokens", "total_output_tokens"} :
              /\ Added(by("model"), c) = Added(by("session"), c)
              /\ Added(by("session"), c) = Added(by("day"), c)
        /\ \A i \in DOMAIN db.sessions :
              LET s == db.sessions[i].session_id
                  summary == sessions_summary(db, s)
              IN  summary.status = 200 =>
                     /\ summary.body.total_input_tokens = Added(Share(s), "total_input_tokens")
                     /\ summary.body.total_output_tokens = Added(Share(s), "total_output_tokens")

All == [limit |-> MANY]

\* One session, seen by its list entry, its detail, its summary, its tree, its
\* conversation and its messages.
SessionViewsAgree(row) ==
    LET s    == row.session_id
        n    == row.message_count
        talk == sessions_conversation(db, s, All).body
        summary == sessions_summary(db, s)
    IN  /\ sessions_detail(db, s).body.message_count = n
        /\ sessions_detail(db, s).body.primary_model = row.model
        /\ Len(talk) = n
        /\ Each(sessions_tree(db, s).body, LAMBDA t : t.uuid) = Each(talk, LAMBDA m : m.uuid)
        /\ summary.status = (IF n = 0 THEN 404 ELSE 200)
        /\ n > 0 => /\ summary.body.message_count = n
                    /\ summary.body.tool_use_count = Len(artifacts_session(db, s).body.tool_executions)
        /\ \A i \in DOMAIN talk : messages_by_uuid(db, talk[i].uuid).body.token_usage = talk[i].token_usage

\* The plans of a session: the list, the plans themselves, and the filters.
PlansAgree(s) ==
    LET shown  == plan_show(db, s)
        listed == Select(plans_api_list(db, All).body, LAMBDA p : p.session_id = s)
        asked(yes) == messages_query(db, [session_id |-> s, has_plan |-> yes, limit |-> MANY]).body
        with == sessions_list(db, [has_plan |-> TRUE, limit |-> MANY]).body
    IN  /\ plans_api_show(db, s).status = (IF shown = <<>> THEN 404 ELSE 200)
        /\ {p.message_uuid : p \in Range(shown)} = {p.message_uuid : p \in Range(listed)}
        /\ {p.message_uuid : p \in Range(shown)} = {m.uuid : m \in Range(asked(TRUE))}
        /\ Len(asked(TRUE)) + Len(asked(FALSE)) = MessageCount(db, s)
        /\ (shown # <<>>) = (s \in {r.session_id : r \in Range(with)})

\* What a command that names no path is stored with.
Pathless == {Word(p) : p \in {"<cp>", "<mv>", "<rm>", "<mkdir>", "<touch>"}}

\* The operations of a session: its timeline, its artifacts and its files.  A
\* file's detail lists its operations, and may list those of a path that
\* holds its own.  Its count has each of them that is no read, and may have
\* one again that the retroactive pass met (Decompose: CountsExact).
ArtifactViewsAgree(s) ==
    LET parts == artifacts_session(db, s).body
        line  == artifacts_timeline(db, s, All).body
        ofType(t) == Select(line, LAMBDA e : e.entry_type = t)
        Step(e) == Columns(e, {"operation_type", "message_uuid", "timestamp"})
        paths == {f.file_path : f \in Range(parts.files)}
    IN  /\ Len(ofType("git_operation")) = Len(parts.git_operations)
        /\ Len(ofType("tool_execution")) = Len(parts.tool_executions)
        /\ \A e \in Range(ofType("file_operation")) : e.file_path[1] \in paths \cup Pathless
        /\ \A i \in DOMAIN parts.files :
              LET f == parts.files[i]
                  detail == files_detail(db, f.id).body
                  own == Where(detail.operations, "file_path", f.file_path)
                  met == Where(ofType("file_operation"), "file_path", Some(f.file_path))
              IN  /\ detail.file = f
                  /\ Each(own, Step) = Each(met, Step)
                  /\ f.operation_count >= Len(Select(own, LAMBDA o : o.operation_type # Word("read")))
        /\ Len(git_session_commits(db, s).body) = Len(list_git_commits(db, [session_id |-> s], MANY))
        /\ \A c \in Range(git_session_commits(db, s).body) : c \in Range(parts.git_operations)

\* A project is the sum of its sessions.
ProjectViewsAgree(path) ==
    LET mine == Select(sessions_list(db, All).body, LAMBDA r : r.project_path = Some(path))
        detail == projects_detail(db, path)
    IN  /\ detail.status = (IF mine = <<>> THEN 404 ELSE 200)
        /\ mine # <<>> => /\ detail.body.session_count = Len(mine)
                          /\ detail.body.message_count = Added(mine, "message_count")

\* Every view of a session, of its plans, of its artifacts and of its project
\* counts the same things (query.rs, artifact_queries.rs, api/).
ViewsAgree ==
    /\ \A row \in Range(sessions_list(db, All).body) :
          SessionViewsAgree(row) /\ PlansAgree(row.session_id) /\ ArtifactViewsAgree(row.session_id)
    /\ \A p \in Range(db.projects) : ProjectViewsAgree(p.project_path)

--------------------------------------------------------------------------
(* Pages.                                                                  *)

Pages(page(_), n) == FlattenSeq([p \in 1 .. n |-> page(p - 1)])

ConversationTiles(s, k) ==
    LET n == MessageCount(db, s)
    IN  Pages(LAMBDA p : sessions_conversation(db, s, [limit |-> k, offset |-> p * k]).body, n)
            = sessions_conversation(db, s, [limit |-> n]).body

\* A hit of either side is a row of its index.
SearchTiles(q, k) ==
    LET n == Len(db.fts_message_content) + Len(db.fts_attachment_text_content)
    IN  Pages(LAMBDA p : search_messages_and_attachments(db, q, k, p * k), n)
            = search_messages_and_attachments(db, q, n, 0)

\* An export has the messages of the conversation, each once, in its order.
ExportIsWhole(s) ==
    LET whole == sessions_conversation(db, s, [limit |-> MessageCount(db, s)]).body
    IN  /\ Each(load_all_messages(db, s), LAMBDA m : m.uuid) = Each(whole, LAMBDA m : m.uuid)
        /\ Len(export_csv(db, s)[1]) = MessageCount(db, s) + 1

PagesTileBy(k) ==
    /\ \A i \in DOMAIN db.sessions : ConversationTiles(db.sessions[i].session_id, k)
    /\ \A i \in DOMAIN Commands :
          Commands[i].command = "search" => SearchTiles(Commands[i].a["q"], k)

\* Pages of any length, one after the other, are the whole: the conversation,
\* the batches of an export, and a search of messages and attachments, whose
\* two sides are merged before the page is cut (export.rs: load_all_messages;
\* fts.rs: search_messages_and_attachments).
PagesTile ==
    /\ \A k \in 1 .. 3 : PagesTileBy(k)
    /\ \A i \in DOMAIN db.sessions : ExportIsWhole(db.sessions[i].session_id)

--------------------------------------------------------------------------
(* File history.                                                           *)

StoredBatches(f) == SubSeq(Feed[f], 1, read[f])

\* The last text that a file's session left at a path.
LeftAt(f, path) ==
    LET texts == Select(StoredBatches(f), LAMBDA b : path \in DOMAIN b.leaves)
    IN  IF texts = <<>> THEN None ELSE Some(Last(texts).leaves[path])

\* A file that one session wrote and edited is rebuilt as that session left
\* it, after any of its messages; and its diffs lead, one to the next, from
\* nothing to that text (artifact_queries.rs).
HistoryReplays ==
    \A f \in DOMAIN Feed : \A k \in 1 .. read[f] :
        LET b == Feed[f][k]
        IN  \A path \in DOMAIN b.leaves :
               LET diffs == generate_file_diff(db, path, b.session_id)
               IN  /\ reconstruct_file_content(db, path, b.session_id, Some(b.uuid))
                         = Some(b.leaves[path])
                   /\ reconstruct_file_content(db, path, b.session_id, None) = LeftAt(f, path)
                   /\ diffs # <<>> =>
                        /\ diffs[1].from = <<>>
                        /\ Some(Last(diffs).to) = LeftAt(f, path)
                        /\ \A d \in 1 .. Len(diffs) - 1 : diffs[d].to = diffs[d + 1].from

--------------------------------------------------------------------------
(* Search.                                                                 *)

\* A text and each of its words.
Questions(t) == {q \in {t} \cup {<<c>> : c \in Range(Tokens(t))} : Tokens(q) # <<>>}

\* An operation without content holds the phrase: there is nothing to cut its
\* snippet from.
WithoutSnippet(q) == \E o \in Range(db.file_operations) :
    /\ o.content = None
    /\ \E c \in {"old_content", "command"} : Holds(o[c], LAMBDA t : Occurrences(t, q) # {})

\* Once the indexes are rebuilt, every text that was stored is found by each
\* of its words and by itself, whatever characters it holds: a message's
\* block by the search of messages, a plan also by the search of plans, an
\* attachment's text and each text of a file operation by theirs.  But the
\* search of operations fails when it meets one without a snippet: a command is
\* never found, though fts.rs:476-478 promises all three columns.
StoredTextIsFound ==
    db = Rebuilt =>
        /\ \A i \in DOMAIN db.message_content :
              LET b == db.message_content[i]
                  n == Len(db.fts_message_content)
              IN  \A t \in Range(b.text_content) : \A q \in Questions(t) :
                     LET found == {r.message_uuid : r \in Range(search_messages(db, q, n, 0))}
                         plans == {r.message_uuid : r \in Range(search_plans(db, q, n, 0))}
                     IN  /\ b.message_uuid \in found
                         /\ b.block_type = "plan_content" => b.message_uuid \in plans
                         /\ plans \subseteq found
        /\ \A i \in DOMAIN db.attachments :
              LET t == db.attachments[i]
                  n == Len(db.fts_attachment_text_content)
              IN  \A text \in Range(AttachmentTexts(t)) : \A q \in Questions(text) :
                     t.uuid \in {r.message_uuid :
                         r \in Range(search_attachment_text_content(db, q, n, 0))}
        /\ \A i \in DOMAIN db.file_operations : \A c \in {"content", "old_content", "command"} :
              LET o == db.file_operations[i]
                  n == Len(db.fts_file_operations)
              IN  \A text \in Range(o[c]) : \A q \in Questions(text) :
                     LET reply == files_search(db, [q |-> q, limit |-> n])
                     IN  IF WithoutSnippet(q) THEN reply = Internal
                         ELSE reply.status = 200 /\ o.id \in {r.id : r \in Range(reply.body)}

--------------------------------------------------------------------------
(* Named queries.                                                          *)

\* The text of a statement with the values in the places of its names, and in
\* the places of its numbers.
Substituted(sql, given) ==
    Spelled([i \in DOMAIN sql |->
                IF Placeholder(sql, i) THEN <<given[NameAt(sql, i)]>> ELSE <<sql[i]>>],
            [i \in DOMAIN sql |-> After(sql, i)])

Bound(sql, values) ==
    LET position(i) == sql[i] = "?" /\ i < Len(sql) /\ ~Quoted(sql, i)
        valueAt(i)  == values[CHOOSE n \in DOMAIN values : Numeral(n) = <<sql[i + 1]>>]
    IN  Spelled([i \in DOMAIN sql |-> IF position(i) THEN <<valueAt(i)>> ELSE <<sql[i]>>],
                [i \in DOMAIN sql |-> IF position(i) THEN i + 2 ELSE i + 1])

Needed(sql) == {NameAt(sql, i) : i \in {j \in DOMAIN sql : Placeholder(sql, j)}}

RunsAsNamed(query, given, result) ==
    LET valued == [m \in Needed(query.sql) |-> ValueOf(query, given, m)]
        runs   == Rewritten(query.sql, extract_named_params(query.sql))
    IN  /\ result.ok = (validate_sql(runs) /\ \A m \in Needed(query.sql) : valued[m].ok)
        /\ result.ok =>
              Bound(result.value.statement, result.value.values)
                  = Substituted(query.sql, [m \in Needed(query.sql) |-> valued[m].value])

\* A named query runs exactly when each of its parameters has a value of its
\* type and the rewritten statement may run, and then runs as the statement
\* in which every :name outside a literal stands for its value
\* (query_registry.rs: prepare_sql).
BindsAsNamed ==
    LET queries == load_queries(Canned)
    IN  queries.ok => \A n \in DOMAIN queries.value : \A v \in DOMAIN GivenValues :
            RunsAsNamed(queries.value[n], GivenValues[v],
                        tool_run_query(db, Canned, n, GivenValues[v], FALSE))
=============================================================================
