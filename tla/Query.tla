------------------------------- MODULE Query -------------------------------
(***************************************************************************)
(* The read-only queries of the store (query.rs): what each SELECT returns *)
(* for a database.                                                         *)
(*                                                                         *)
(* A database is a record of tables; a table is the sequence of its rows   *)
(* in rowid order, a row a record named by its columns.  A column that may *)
(* be NULL holds None or Some(value).  A text is a sequence of characters  *)
(* (Wire).  The optional filters of a query are one function, defined on   *)
(* the names of those that were given.  Columns that no query looks into   *)
(* (stdout, cwd, slug, tool_input, ...) are not told apart: they stay in   *)
(* the row, under one name.  Rows equal under an ORDER BY keep rowid       *)
(* order; a LIMIT is never negative, as it comes from a usize.             *)
(***************************************************************************)
EXTENDS Wire, FiniteSets, FiniteSetsExt

CONSTANTS
    Rank,   \* the place of each character in the BINARY collation
    Schema  \* the columns of the tables that drift is reported against

\* No two characters have one place.
ASSUME RankAssumption ==
    \A c, d \in DOMAIN Rank : Rank[c] \in Nat /\ (Rank[c] = Rank[d] => c = d)

\* A text of characters that have a place.
Written(text) == text \in Seq(DOMAIN Rank)

EmptyDatabase ==
    [t \in {"sessions", "messages", "message_content", "token_usage", "tool_executions",
            "attachments", "hook_executions", "agents", "projects", "version_history",
            "schema_drift_log", "record_type_drift_log", "files", "file_operations",
            "git_operations", "fts_message_content", "fts_file_operations",
            "fts_attachment_text_content", "schema"} |-> IF t = "schema" THEN Schema ELSE <<>>]

--------------------------------------------------------------------------
(* SQL.                                                                    *)

TextBefore(a, b) ==
    LET common == 1 .. (IF Len(a) < Len(b) THEN Len(a) ELSE Len(b))
        differ == {i \in common : a[i] # b[i]}
    IN  IF differ = {} THEN Len(a) < Len(b)
        ELSE Rank[a[Min(differ)]] < Rank[b[Min(differ)]]

AtLeast(a, b) == ~TextBefore(a, b)

\* text LIKE '%' || p || '%'; with an ESCAPE clause and every wildcard of p
\* escaped there is no wildcard left.
Like(text, p, wildcards) ==
    LET from[i \in 1 .. Len(text) + 1, j \in 1 .. Len(p) + 1] ==
            IF j > Len(p) THEN TRUE
            ELSE IF wildcards /\ p[j] = "%" THEN \E k \in i .. Len(text) + 1 : from[k, j + 1]
            ELSE /\ i <= Len(text)
                 /\ p[j] = text[i] \/ (wildcards /\ p[j] = "_")
                 /\ from[i + 1, j + 1]
    IN  \E i \in 1 .. Len(text) + 1 : from[i, 1]

\* A comparison with NULL is not true.
Holds(column, P(_)) == column # None /\ P(column[1])

\* A filter that was not given adds no condition.
If(a, name, P(_)) == name \in DOMAIN a => P(a[name])

NullableBefore(a, b) == \* NULL sorts first
    IF a = None THEN b # None ELSE b # None /\ TextBefore(a[1], b[1])

Ascending(rows, key)  == Ordered(rows, LAMBDA r, s : TextBefore(r[key], s[key]))
Descending(rows, key) == Ordered(rows, LAMBDA r, s : TextBefore(s[key], r[key]))
MostFirst(rows, key)  == Ordered(rows, LAMBDA r, s : r[key] > s[key])

Limited(rows, limit, offset) ==
    SubSeq(rows, offset + 1, IF offset + limit < Len(rows) THEN offset + limit ELSE Len(rows))

First(rows) == IF rows = <<>> THEN None ELSE Some(rows[1])

Each(rows, F(_)) == [i \in DOMAIN rows |-> F(rows[i])]

Where(rows, column, value) == Select(rows, LAMBDA r : r[column] = value)

\* The named columns of a row.
Columns(row, names) == [c \in names |-> row[c]]

SumOf(rows, column) ==  \* SUM: NULL when no row has a value
    LET known == Select(rows, LAMBDA r : r[column] # None)
    IN  IF known = <<>> THEN None
        ELSE Some(Total(Each(known, LAMBDA r : r[column][1])))

Coalesce(column, default) == IF column = None THEN default ELSE column[1]

Least(texts)    == CHOOSE t \in texts : \A u \in texts : AtLeast(u, t)
Greatest(texts) == CHOOSE t \in texts : \A u \in texts : AtLeast(t, u)

\* The values of a sequence, each where it comes first.
Distinct(values) ==
    Kept(values, {i \in DOMAIN values : \A j \in 1 .. i - 1 : values[j] # values[i]})

\* GROUP BY: the groups in the order of their keys.
Groups(rows, Key(_), Row(_, _)) ==
    LET keys == Ordered(Distinct(Each(rows, Key)), NullableBefore)
    IN  [k \in DOMAIN keys |->
            Row(keys[k], Select(rows, LAMBDA r : Key(r) = keys[k]))]

MessagesOf(db, s) == Where(db.messages, "session_id", s)
SessionOf(db, s)  == First(Where(db.sessions, "session_id", s))

--------------------------------------------------------------------------
(* Sessions and messages.                                                  *)

SessionSummary == {"session_id", "project_path", "first_seen_at", "version"}
SessionDetail  == SessionSummary \cup {"last_seen_at", "slug", "git_branch"}
MessageResult  == {"uuid", "session_id", "type", "timestamp", "model", "stop_reason"}

MessageCount(db, s) == Len(MessagesOf(db, s))

PrimaryModel(db, s) ==
    LET named == Select(MessagesOf(db, s), LAMBDA m : m.model # None)
    IN  IF named = <<>> THEN None ELSE named[1].model

\* The bug forgets that the plan must be the session's own.
HasPlanOfAny(db, s) == \E i \in DOMAIN db.messages : db.messages[i].plan_content # None

HasPlan(db, s) == \E i \in DOMAIN db.messages :
    db.messages[i].session_id = s /\ db.messages[i].plan_content # None

list_sessions(db, a, limit) ==
    LET wanted == Select(db.sessions, LAMBDA s :
            /\ If(a, "project", LAMBDA p : Holds(s.project_path, LAMBDA t : Like(t, p, TRUE)))
            /\ If(a, "after",  LAMBDA d : Holds(s.first_seen_at, LAMBDA t : AtLeast(t, d)))
            /\ If(a, "before", LAMBDA d : Holds(s.first_seen_at, LAMBDA t : AtLeast(d, t)))
            /\ If(a, "has_plan", LAMBDA yes : HasPlan(db, s.session_id) = yes))
        newest == Ordered(wanted, LAMBDA s, t : NullableBefore(t.first_seen_at, s.first_seen_at))
    IN  Each(Limited(newest, limit, 0), LAMBDA s :
            With(Columns(s, SessionSummary),
                 [message_count |-> MessageCount(db, s.session_id),
                  model |-> PrimaryModel(db, s.session_id)]))

get_session(db, s) ==
    Each(SessionOf(db, s), LAMBDA r :
        With(Columns(r, SessionDetail),
             [message_count |-> MessageCount(db, s), primary_model |-> PrimaryModel(db, s)]))

query_messages(db, a, limit) ==
    LET wanted == Select(db.messages, LAMBDA m :
            /\ If(a, "session_id", LAMBDA s : m.session_id = s)
            /\ If(a, "message_type", LAMBDA t : m.type = t)
            /\ If(a, "model", LAMBDA v : m.model = Some(v))
            /\ If(a, "tool", LAMBDA t : \E i \in DOMAIN db.tool_executions :
                    /\ db.tool_executions[i].message_uuid = m.uuid
                    /\ db.tool_executions[i].tool_name = t)
            /\ If(a, "after",  LAMBDA d : AtLeast(m.timestamp, d))
            /\ If(a, "before", LAMBDA d : AtLeast(d, m.timestamp))
            /\ If(a, "has_plan", LAMBDA yes : (m.plan_content # None) = yes))
    IN  Each(Limited(Descending(wanted, "timestamp"), limit, 0), LAMBDA m : Columns(m, MessageResult))

\* The blocks of a message that a user may see, in order.
ExportContentBlock(db, m) ==
    Ordered(Select(db.message_content, LAMBDA b :
                b.message_uuid = m /\ b.block_type # "plan_content"),
            LAMBDA b, c : b.block_index < c.block_index)

ExportTokenUsage(db, m) == First(Where(db.token_usage, "message_uuid", m))

ExportMessage(db, m) ==
    With(Columns(m, MessageResult),
         [content_blocks |-> ExportContentBlock(db, m.uuid),
          token_usage    |-> ExportTokenUsage(db, m.uuid)])

session_messages_for_export(db, s, limit, offset) ==
    Each(Limited(Ascending(MessagesOf(db, s), "timestamp"), limit, offset),
         LAMBDA m : ExportMessage(db, m))

get_message(db, u) == Each(First(Where(db.messages, "uuid", u)), LAMBDA m : ExportMessage(db, m))

ConversationMessage(db, m, thinking, tool_io) ==
    With(Columns(m, {"uuid", "session_id", "type", "timestamp", "model", "parent_uuid", "is_sidechain"}),
         [content_blocks |-> Select(ExportContentBlock(db, m.uuid), LAMBDA b :
              /\ b.block_type = "thinking" => thinking
              /\ b.block_type \in {"tool_use", "tool_result"} => tool_io),
          token_usage |-> ExportTokenUsage(db, m.uuid)])

session_conversation(db, s, thinking, tool_io, limit, offset) ==
    Each(Limited(Ascending(MessagesOf(db, s), "timestamp"), limit, offset),
         LAMBDA m : ConversationMessage(db, m, thinking, tool_io))

\* A child in another session counts too.
TreeNode(db, m) ==
    With(Columns(m, {"uuid", "parent_uuid", "is_sidechain", "type", "timestamp", "model"}),
         [children_count |-> Len(Where(db.messages, "parent_uuid", Some(m.uuid)))])

session_tree(db, s) ==
    Each(Ascending(MessagesOf(db, s), "timestamp"), LAMBDA m : TreeNode(db, m))

session_agents(db, s) ==
    Ordered(Where(db.agents, "session_id", Some(s)),
            LAMBDA x, y : NullableBefore(x.first_seen_at, y.first_seen_at))

\* julianday arithmetic: the duration is kept as its two ends.
SessionSummaryStats(db, s, messages) ==
    LET uuids == {messages[i].uuid : i \in DOMAIN messages}
        used  == Select(db.token_usage, LAMBDA u : u.message_uuid \in uuids)
        tools == Select(db.tool_executions, LAMBDA t : t.message_uuid \in uuids)
        times == {messages[i].timestamp : i \in DOMAIN messages}
    IN  [session_id |-> s, message_count |-> Len(messages),
         total_input_tokens  |-> Coalesce(SumOf(used, "input_tokens"), 0),
         total_output_tokens |-> Coalesce(SumOf(used, "output_tokens"), 0),
         tool_use_count |-> Len(tools),
         unique_tools |-> Cardinality({tools[i].tool_name : i \in DOMAIN tools}),
         duration |-> <<Least(times), Greatest(times)>>]

session_summary(db, s) ==
    IF MessageCount(db, s) = 0 THEN None
    ELSE Some(SessionSummaryStats(db, s, MessagesOf(db, s)))

--------------------------------------------------------------------------
(* Aggregates.                                                             *)

\* token_usage JOIN messages.
UsedTokens(db) ==
    FlattenSeq(Each(db.token_usage, LAMBDA u :
        Each(First(Where(db.messages, "uuid", u.message_uuid)), LAMBDA m : With(u, m))))

TokenStats(key, rows) ==
    [group_key |-> key, message_count |-> Len(rows),
     total_input_tokens   |-> Coalesce(SumOf(rows, "input_tokens"), 0),
     total_output_tokens  |-> Coalesce(SumOf(rows, "output_tokens"), 0),
     total_cache_read     |-> SumOf(rows, "cache_read_input_tokens"),
     total_cache_creation |-> SumOf(rows, "cache_creation_input_tokens")]

Unknown == <<"unknown">>

\* The bug drops the messages that name no model.
ByNamedModel(db) ==
    MostFirst(Groups(Select(UsedTokens(db), LAMBDA r : r.model # None), LAMBDA r : r.model,
                     LAMBDA key, rows : TokenStats(Coalesce(key, Unknown), rows)),
              "total_input_tokens")

token_stats_by_model(db) ==
    MostFirst(Groups(UsedTokens(db), LAMBDA r : r.model,
                     LAMBDA key, rows : TokenStats(Coalesce(key, Unknown), rows)),
              "total_input_tokens")

token_stats_by_session(db, session) ==
    MostFirst(Groups(Select(UsedTokens(db), LAMBDA r : session \in {None, Some(r.session_id)}),
                     LAMBDA r : Some(r.session_id),
                     LAMBDA key, rows : TokenStats(key[1], rows)),
              "total_input_tokens")

\* DATE(timestamp): the first character of a timestamp is its day.
token_stats_by_day(db) ==
    Reverse(Groups(UsedTokens(db), LAMBDA r : Some(<<Head(r.timestamp)>>),
                   LAMBDA key, rows : TokenStats(key[1], rows)))

tool_frequency(db) ==
    MostFirst(Groups(db.tool_executions, LAMBDA t : Some(t.tool_name),
                     LAMBDA key, rows :
                         [tool_name |-> key[1], invocations |-> Len(rows),
                          errors |-> Len(Where(rows, "is_error", TRUE))]),
              "invocations")

\* A percentage is kept as the part and the whole.
model_breakdown(db) ==
    LET named == Select(db.messages, LAMBDA m : m.model # None)
    IN  MostFirst(Groups(named, LAMBDA m : m.model,
                         LAMBDA key, rows :
                             [model |-> key[1], message_count |-> Len(rows),
                              percentage |-> <<Len(rows), Len(named)>>]),
                  "message_count")

version_history(db) ==
    Ascending(Groups(Select(db.messages, LAMBDA m : m.version # None), LAMBDA m : m.version,
                     LAMBDA key, rows :
                         LET times == {rows[i].timestamp : i \in DOMAIN rows}
                         IN  [version |-> key[1], first_seen |-> Least(times),
                              last_seen |-> Greatest(times)]),
              "first_seen")

--------------------------------------------------------------------------
(* Projects.                                                               *)

ProjectEntry == {"project_path", "display_name", "session_count", "first_seen", "last_seen"}

list_projects(db, limit) ==
    Each(Limited(MostFirst(db.projects, "session_count"), limit, 0),
         LAMBDA p : Columns(p, ProjectEntry))

\* v_project_summary joins the sessions with their messages, usage, file and
\* git operations: a message's tokens are summed once for every pair of a
\* file and a git operation of its session.
ProjectDetail(db, path, rows) ==
    LET ids  == {rows[i].session_id : i \in DOMAIN rows}
        Of(table) == Select(table, LAMBDA r : r.session_id \in ids)
        Copies(s) == LET Outer(table) == LET n == Len(Where(table, "session_id", s))
                                         IN  IF n = 0 THEN 1 ELSE n
                     IN  Outer(db.file_operations) * Outer(db.git_operations)
        TokensOf(r) == IF None \in {r.input_tokens, r.output_tokens} THEN 0
                       ELSE r.input_tokens[1] + r.output_tokens[1]
        seen  == {rows[i].first_seen_at : i \in DOMAIN rows} \ {None}
        times == {m.timestamp : m \in Range(Of(db.messages))}
    IN  [project_path |-> path,
         display_name |-> LET p == First(Where(db.projects, "project_path", path))
                          IN  IF p = None THEN None ELSE p[1].display_name,
         session_count |-> Cardinality(ids), message_count |-> Len(Of(db.messages)),
         total_tokens |-> FoldLeft(LAMBDA n, r : n + Copies(r.session_id) * TokensOf(r), 0,
                                   Select(UsedTokens(db), LAMBDA r : r.session_id \in ids)),
         file_operations |-> Len(Of(db.file_operations)),
         git_operations |-> Len(Of(db.git_operations)),
         first_activity |-> IF seen = {} THEN None ELSE Some(Least({t[1] : t \in seen})),
         last_activity |-> IF times = {} THEN None ELSE Some(Greatest(times))]

get_project(db, path) ==
    LET rows == Where(db.sessions, "project_path", Some(path))
    IN  IF rows = <<>> THEN None ELSE Some(ProjectDetail(db, path, rows))

--------------------------------------------------------------------------
(* Attachments, hook executions and plans.                                 *)

ProjectMatches(db, session, p, wildcards) ==
    LET s == SessionOf(db, session)
    IN  s # None /\ Holds(s[1].project_path, LAMBDA t : Like(t, p, wildcards))

attachments_list(db, a, limit) ==
    LET wanted == Select(db.attachments, LAMBDA t :
            /\ If(a, "project", LAMBDA p : ProjectMatches(db, t.session_id, p, FALSE))
            /\ If(a, "inner_type", LAMBDA v : t.inner_type = v)
            /\ If(a, "since", LAMBDA d : AtLeast(t.timestamp, d)))
    IN  Limited(Descending(wanted, "timestamp"), limit, 0)

attachment_by_uuid(db, u) == First(Where(db.attachments, "uuid", u))

hook_executions_list(db, a, limit) ==
    LET wanted == Select(db.hook_executions, LAMBDA h :
            /\ If(a, "tool_use_id", LAMBDA v : h.tool_use_id = Some(v))
            /\ If(a, "hook_event", LAMBDA v : h.hook_event = Some(v))
            /\ If(a, "exit_code", LAMBDA v : h.exit_code = Some(v)))
    IN  Limited(Reverse(wanted), limit, 0)   \* ORDER BY id DESC

PlanFullRow(db, m) ==
    LET s == SessionOf(db, m.session_id)
    IN  [session_id |-> m.session_id, message_uuid |-> m.uuid,
         project_path |-> IF s = None THEN None ELSE s[1].project_path,
         timestamp |-> m.timestamp, plan_content |-> m.plan_content[1]]

\* A plan is shown by its length and its beginning; the model's plans are
\* shorter than the 200 characters of a preview.
PlanRow(db, m) ==
    LET full == PlanFullRow(db, m)
    IN  With(Columns(full, {"session_id", "message_uuid", "project_path", "timestamp"}),
             [plan_content_length  |-> Len(full.plan_content),
              plan_content_preview |-> full.plan_content])

Planned(messages) == Select(messages, LAMBDA m : m.plan_content # None)

plans_list(db, a, limit) ==
    LET wanted == Select(Planned(db.messages), LAMBDA m :
            /\ If(a, "project", LAMBDA p : ProjectMatches(db, m.session_id, p, TRUE))
            /\ If(a, "since", LAMBDA d : AtLeast(m.timestamp, d)))
    IN  Each(Limited(Descending(wanted, "timestamp"), limit, 0), LAMBDA m : PlanRow(db, m))

plan_show(db, s) ==
    Each(Ascending(Planned(MessagesOf(db, s)), "timestamp"), LAMBDA m : PlanFullRow(db, m))

--------------------------------------------------------------------------
(* Versions and drift.                                                     *)

version_history_enhanced(db) == Ascending(db.version_history, "first_seen_at")

FieldsOf(db, version) ==
    {<<d.field_name, d.record_type>> : d \in
        {e \in Range(db.schema_drift_log) : e.version = Some(version)}}

VersionDiffEntry(row, new, disappeared) ==
    With(row, [new_fields |-> new, disappeared_fields |-> disappeared])

\* Each version against the one before it; a version without any drift row
\* is no predecessor for the next.  The order of the lists is a hash set's.
version_history_with_diff(db) ==
    LET versions == version_history_enhanced(db)
        Fields(k) == FieldsOf(db, versions[k].version)
        Before(k) == IF k = 1 THEN {} ELSE Fields(k - 1)
    IN  [k \in DOMAIN versions |->
            VersionDiffEntry(versions[k], Fields(k) \ Before(k), Before(k) \ Fields(k))]

schema_drift_list(db) == Descending(db.schema_drift_log, "first_seen_at")

record_type_drift_list(db, a) ==
    LET wanted == Select(db.record_type_drift_log, LAMBDA d :
            /\ If(a, "type_name", LAMBDA p : Like(d.type_name, p, FALSE))
            /\ If(a, "version", LAMBDA v : d.version = Some(v))
            /\ If(a, "since", LAMBDA t : AtLeast(d.last_seen_at, t)))
        newest == Descending(wanted, "last_seen_at")
    IN  IF "limit" \in DOMAIN a THEN Limited(newest, a["limit"], 0) ELSE newest

record_type_to_table(type) ==
    IF type \in {Word("user"), Word("assistant"), <<"assistant", ".message">>, Word("progress")}
    THEN Some("messages")
    ELSE IF type = <<"assistant", ".message", ".usage">> THEN Some("token_usage")
    ELSE IF type = Word("system") THEN Some("system_events")
    ELSE IF type = Word("summary") THEN Some("summaries")
    ELSE None

\* PRAGMA table_info, for the tables that drift is reported against.
table_columns(db, table) ==
    IF table \in DOMAIN db.schema THEN db.schema[table] ELSE {}

promotion_status(db, d) ==
    LET table   == record_type_to_table(d.record_type)
        columns == IF table = None THEN {} ELSE table_columns(db, table[1])
    IN  IF d.field_name \in columns THEN "promoted"
        ELSE IF Word("extra_json") \in columns THEN "extra_json"
        ELSE "unhandled"

DriftFieldEntry(db, d) ==
    With(Columns(d, {"field_name", "record_type", "sample_value", "occurrence_count", "first_seen_at"}),
         [promotion_status |-> promotion_status(db, d)])

ByText(rows, column) ==
    LET texts == Ordered(Distinct(Each(rows, LAMBDA r : r[column])), TextBefore)
    IN  [k \in DOMAIN texts |-> Where(rows, column, texts[k])]

\* Versions, their record types and their fields, each in the order of its name.
drift_by_version(db) ==
    Groups(Select(db.schema_drift_log, LAMBDA d : d.version # None), LAMBDA d : d.version,
           LAMBDA key, rows :
               [version |-> key[1],
                record_types |-> Each(ByText(rows, "record_type"), LAMBDA of :
                    [record_type |-> of[1].record_type,
                     fields |-> Each(FlattenSeq(ByText(of, "field_name")),
                                     LAMBDA d : DriftFieldEntry(db, d))])])
=============================================================================
