-------------------------- MODULE ArtifactQueries --------------------------
(***************************************************************************)
(* What the store answers about files, git operations and tools            *)
(* (artifact_queries.rs), and how it rebuilds the text of a file from the  *)
(* operations a session recorded on it.                                    *)
(***************************************************************************)
EXTENDS Query

FileEntry     == {"id", "session_id", "file_path", "first_seen", "last_modified",
                  "operation_count"}
FileOperation == {"id", "session_id", "file_path", "operation_type", "content", "old_content",
                  "command", "tool_use_id", "message_uuid", "timestamp"}
GitOperation  == {"id", "session_id", "operation_type", "command", "commit_message", "branch",
                  "tool_use_id", "message_uuid", "timestamp"}

--------------------------------------------------------------------------
(* Lists.                                                                  *)

RenamedTo(a, from, to) ==
    [n \in {IF m = from THEN to ELSE m : m \in DOMAIN a} |-> IF n = to THEN a[from] ELSE a[n]]

\* The surfaces call path what list_files calls path_contains.
ContainsPath(a) == IF "path" \in DOMAIN a THEN RenamedTo(a, "path", "path_contains") ELSE a

list_files(db, a, limit) ==
    LET wanted == Select(db.files, LAMBDA f :
            /\ If(a, "session_id", LAMBDA s : f.session_id = s)
            /\ If(a, "path_contains", LAMBDA p : Like(f.file_path, p, TRUE))
            /\ If(a, "project", LAMBDA p : ProjectMatches(db, f.session_id, p, TRUE)))
    IN  Each(Limited(Descending(wanted, "last_modified"), limit, 0),
             LAMBDA f : Columns(f, FileEntry))

get_file(db, id) == Each(First(Where(db.files, "id", id)), LAMBDA f : Columns(f, FileEntry))

query_file_operations(db, path, a, limit) ==
    LET wanted == Select(db.file_operations, LAMBDA o :
            /\ Like(o.file_path, path, TRUE)
            /\ If(a, "session_id", LAMBDA s : o.session_id = s)
            /\ If(a, "project", LAMBDA p : ProjectMatches(db, o.session_id, p, TRUE)))
    IN  Each(Limited(Ascending(wanted, "timestamp"), limit, 0),
             LAMBDA o : Columns(o, FileOperation))

list_git_operations(db, a, limit) ==
    LET wanted == Select(db.git_operations, LAMBDA g :
            /\ If(a, "session_id", LAMBDA s : g.session_id = s)
            /\ If(a, "operation_type", LAMBDA t : g.operation_type = t))
    IN  Each(Limited(Descending(wanted, "timestamp"), limit, 0),
             LAMBDA g : Columns(g, GitOperation))

list_git_commits(db, a, limit) ==
    LET wanted == Select(db.git_operations, LAMBDA g :
            /\ g.operation_type = Word("commit")
            /\ If(a, "session_id", LAMBDA s : g.session_id = s))
    IN  Each(Limited(Descending(wanted, "timestamp"), limit, 0),
             LAMBDA g : Columns(g, GitOperation))

--------------------------------------------------------------------------
(* A whole session.                                                        *)

\* tool_executions JOIN messages, oldest first.
ToolsOf(db, s) ==
    LET mine == FlattenSeq(Each(db.tool_executions, LAMBDA t :
                    Each(Select(First(Where(db.messages, "uuid", t.message_uuid)),
                                   LAMBDA m : m.session_id = s),
                         LAMBDA m : [tool |-> t, timestamp |-> m.timestamp])))
    IN  Ascending(mine, "timestamp")

\* A result is summarised by its first 500 characters; the model's are shorter.
ToolExecutionEntry(r) ==
    With(Columns(r.tool, {"tool_use_id", "tool_name", "input_json", "is_error", "message_uuid"}),
         [result_summary |-> r.tool.result_content, timestamp |-> r.timestamp])

SessionArtifacts(files, git, tools) ==
    [files |-> files, git_operations |-> git, tool_executions |-> tools]

query_session_artifacts(db, s, manyRows) ==
    SessionArtifacts(list_files(db, [session_id |-> s], manyRows),
                     list_git_operations(db, [session_id |-> s], manyRows),
                     Each(ToolsOf(db, s), LAMBDA r : ToolExecutionEntry(r)))

TimelineEntry(type, operation, details, message, timestamp) ==
    With([entry_type |-> type, operation_type |-> operation, message_uuid |-> message,
          timestamp |-> timestamp],
         With(details,
              [c \in {"file_path", "commit_message", "branch", "tool_name", "result_summary"} |-> None]))

query_session_timeline(db, s, limit) ==
    LET files == Each(Where(db.file_operations, "session_id", s), LAMBDA o :
            TimelineEntry("file_operation", o.operation_type,
                          [file_path |-> Some(o.file_path)], o.message_uuid, o.timestamp))
        gits == Each(Where(db.git_operations, "session_id", s), LAMBDA g :
            TimelineEntry("git_operation", g.operation_type,
                          [commit_message |-> g.commit_message, branch |-> g.branch],
                          g.message_uuid, g.timestamp))
        tools == Each(ToolsOf(db, s), LAMBDA r :
            TimelineEntry("tool_execution", r.tool.tool_name,
                          [tool_name |-> Some(r.tool.tool_name),
                           result_summary |-> r.tool.result_content],
                          Some(r.tool.message_uuid), r.timestamp))
    IN  Limited(Ascending(files \o gits \o tools, "timestamp"), limit, 0)

--------------------------------------------------------------------------
(* The text of a file.                                                     *)

\* The bug replays the operations newest first.
OrderedNewestFirst(db, path, s, cutoff) ==
    Descending(Select(db.file_operations, LAMBDA o :
                   o.file_path = path /\ o.session_id = s), "timestamp")

query_file_operations_ordered(db, path, s, cutoff) ==
    Ascending(Select(db.file_operations, LAMBDA o :
                  /\ o.file_path = path /\ o.session_id = s
                  /\ cutoff # None => AtLeast(cutoff[1], o.timestamp)), "timestamp")

\* str::replace: every occurrence from the left; an empty pattern occurs
\* before each character and at the end.
Replaced(text, old, new) ==
    LET at(i) == i + Len(old) <= Len(text) + 1 /\ SubSeq(text, i, i + Len(old) - 1) = old
    IN  IF old = <<>>
        THEN FlattenSeq([i \in DOMAIN text |-> new \o <<text[i]>>]) \o new
        ELSE Spelled([i \in DOMAIN text |-> IF at(i) THEN new ELSE <<text[i]>>],
                     [i \in DOMAIN text |-> IF at(i) THEN i + Len(old) ELSE i + 1])

\* A write gives the text, an edit changes a known text, nothing else does.
Applied(text, o) ==
    IF o.operation_type = Word("write") /\ o.content # None THEN o.content
    ELSE IF /\ o.operation_type = Word("edit")
            /\ None \notin {text, o.old_content, o.content}
         THEN Some(Replaced(text[1], o.old_content[1], o.content[1]))
    ELSE text

CutoffOf(db, at) ==
    IF at = None THEN None
    ELSE Each(First(Where(db.messages, "uuid", at[1])), LAMBDA m : m.timestamp)

\* The text after each number of operations.
Replayed(ops) ==
    LET after[k \in 0 .. Len(ops)] == IF k = 0 THEN None ELSE Applied(after[k - 1], ops[k])
    IN  after

\* A message nobody knows is no cutoff.
reconstruct_file_content(db, path, s, at) ==
    LET ops == query_file_operations_ordered(db, path, s, CutoffOf(db, at))
    IN  Replayed(ops)[Len(ops)]

\* TextDiff: one unified diff per operation that changed a line, kept as the
\* pair of texts it leads from and to.
generate_file_diff(db, path, s) ==
    LET ops   == query_file_operations_ordered(db, path, s, None)
        after == Replayed(ops)
        diff(k) == [from |-> Coalesce(after[k - 1], <<>>), to |-> Coalesce(after[k], <<>>)]
    IN  Select([k \in DOMAIN ops |-> diff(k)], LAMBDA d : d.from # d.to)
=============================================================================
