----------------------------- MODULE MCSurfaces -----------------------------
(* Two session files of two projects, whose names and texts hold the       *)
(* characters that the request line, LIKE and the search treat apart.      *)
EXTENDS Surfaces

Place(order) == [c \in Range(order) |-> CHOOSE i \in DOMAIN order : order[i] = c]

MCRank == Place(<<" ", "%", "&", "+", "/", "1", "2", "=", "_", "A", "B", "d1", "d2", "f", "g",
    "p", "q", "s", "t1", "t2", "t3", "t4", "t5", "t6", "t7", "t8", "v1", "v2", "w", "x", "y", "z",
    "assistant", "progress", "user", "slug", "extra", ".message", "Write", "Edit", "Bash", "Read">>)

MCHex == [c \in {" ", "%", "&", "+", "/", "=", "?", ":"} |->
    CASE c = " " -> "20" [] c = "%" -> "25" [] c = "&" -> "26" [] c = "+" -> "2B"
      [] c = "/" -> "2F" [] c = "=" -> "3D" [] c = "?" -> "3F" [] c = ":" -> "3A"]

MCSchema == [messages |-> {Word("slug"), Word("extra_json")}, token_usage |-> {Word("extra")},
             schema_versions |-> {Word("version")}]

\* The code's 20, 50, 100 and 500, in order.
MCDefaultLimit == [
    sessions |-> 2, conversation |-> 3, messages |-> 3, search |-> 1, projects |-> 3, files |-> 3,
    files_search |-> 1, git |-> 3, git_commits |-> 3, timeline |-> 4, attachments |-> 2,
    hook_executions |-> 2, plans |-> 2, plans_search |-> 1]

MCToolLimit == [
    search |-> 1, sessions |-> 2, messages |-> 3, files |-> 3, file_history |-> 2, git |-> 2,
    bookmarks |-> 2, attachments |-> 2, hook_executions |-> 2, plans |-> 2]

--------------------------------------------------------------------------
(* Rows.                                                                   *)

S1 == <<"s", "1">>
S2 == <<"s", "&", "2">>
P1 == <<"/", "p", "_", "q">>
P2 == <<"/", "p", "x", "q">>
F  == <<"/", "p", "/", "f">>
G  == <<"/", "p", "/", "f", "/", "g">>

\* No statement of the program sets last_seen_at.
Session(s, p, first, version) ==
    [session_id |-> s, project_path |-> Some(p), first_seen_at |-> Some(first),
     last_seen_at |-> None, version |-> Some(Word(version)), slug |-> None, git_branch |-> None]

Project(p, first, last) ==
    [project_path |-> p, display_name |-> None, session_count |-> 1, first_seen |-> first,
     last_seen |-> last]

Row(u, s, parent, type, time, model, version, plan) ==
    [uuid |-> Word(u), session_id |-> s, parent_uuid |-> parent, is_sidechain |-> FALSE,
     type |-> Word(type), timestamp |-> time, model |-> model, stop_reason |-> None,
     version |-> version, plan_content |-> plan]

Block(u, index, type, text) ==
    [message_uuid |-> Word(u), block_index |-> index, block_type |-> type, text_content |-> text,
     tool_use_id |-> None, tool_name |-> IF type = "tool_use" THEN Some(Word("Write")) ELSE None,
     tool_input |-> None, is_error |-> None]

Usage(u, in, out) ==
    [message_uuid |-> Word(u), input_tokens |-> in, output_tokens |-> out,
     cache_creation_input_tokens |-> None, cache_read_input_tokens |-> Some(1)]

Tool(u, id, name) ==
    [message_uuid |-> Word(u), tool_use_id |-> Word(id), tool_name |-> Word(name),
     input_json |-> None, result_content |-> None, is_error |-> FALSE]

FileRow(s, p, first, last, n) ==
    [session_id |-> s, file_path |-> p, first_seen |-> first, last_modified |-> last,
     operation_count |-> n]

Operation(s, p, type, old, new, u, time) ==
    [session_id |-> s, file_path |-> p, operation_type |-> Word(type), content |-> new,
     old_content |-> old, command |-> None, tool_use_id |-> None, message_uuid |-> Some(Word(u)),
     timestamp |-> time]

\* git commit; touch /p/f; rm -z
Ran == <<"git", " ", "commit", ";", " ", "touch", " ", "/", "p", "/", "f", ";", " ", "rm", " ", "-", "z">>

Command(s, p, type, u, time) ==
    [Operation(s, p, type, None, None, u, time) EXCEPT !.command = Some(Ran)]

GitRow(s, type, u, time) ==
    [session_id |-> s, operation_type |-> Word(type), command |-> Ran,
     commit_message |-> None, branch |-> None, tool_use_id |-> None,
     message_uuid |-> Some(Word(u)), timestamp |-> time]

Drift(field, type, version, time) ==
    [field_name |-> Word(field), record_type |-> type, version |-> Some(Word(version)),
     sample_value |-> None, occurrence_count |-> 1, first_seen_at |-> time]

\* Two days; t1 .. t4 are the first's.
At(t) == <<IF t \in {"t1", "t2", "t3", "t4"} THEN "d1" ELSE "d2", t>>

Batch(s, u, rows, leaves) == [session_id |-> s, uuid |-> Word(u), rows |-> rows, leaves |-> leaves]

--------------------------------------------------------------------------
(* The files.                                                              *)

First1 == Batch(S1, "m1", [
    sessions |-> <<Session(S1, P1, At("t1"), "v1")>>,
    projects |-> <<Project(P1, At("t1"), At("t1"))>>,
    version_history |-> <<[version |-> Word("v1"), first_seen_at |-> At("t1")]>>,
    messages |-> <<Row("m1", S1, None, "user", At("t1"), None, None, None)>>,
    message_content |-> <<Block("m1", 0, "text", Some(<<"x", " ", "y">>))>>], <<>>)

Writes1 == Batch(S1, "m2", [
    messages |-> <<Row("m2", S1, Some(Word("m1")), "assistant", At("t2"), Some(Word("A")),
                       Some(Word("v1")), None)>>,
    message_content |-> <<Block("m2", 0, "thinking", Some(<<"y">>)),
                          Block("m2", 1, "text", Some(<<"x", "&", "z">>)),
                          Block("m2", 2, "tool_use", None)>>,
    token_usage |-> <<Usage("m2", Some(2), Some(1))>>,
    tool_executions |-> <<Tool("m2", "u1", "Write")>>,
    files |-> <<FileRow(S1, F, At("t2"), At("t2"), 1)>>,
    file_operations |-> <<Operation(S1, F, "write", None, Some(<<"x", " ", "y">>), "m2", At("t2"))>>,
    schema_drift_log |-> <<Drift("slug", Word("user"), "v1", At("t2"))>>],
    [p \in {F} |-> <<"x", " ", "y">>])

Plans1 == Batch(S1, "m3", [
    messages |-> <<Row("m3", S1, Some(Word("m2")), "user", At("t5"), None, None, Some(<<"x", "+", "z">>))>>,
    message_content |-> <<Block("m3", 0, "tool_result", Some(<<"w">>)),
                          Block("m3", 1, "plan_content", Some(<<"x", "+", "z">>))>>], <<>>)

Edits1 == Batch(S1, "m4", [
    messages |-> <<Row("m4", S1, Some(Word("m3")), "assistant", At("t7"), None, Some(Word("v2")), None)>>,
    message_content |-> <<Block("m4", 0, "tool_use", None)>>,
    token_usage |-> <<Usage("m4", Some(1), Some(2))>>,
    tool_executions |-> <<Tool("m4", "u2", "Edit"), Tool("m4", "u3", "Bash")>>,
    files |-> <<FileRow(S1, F, At("t2"), At("t7"), 3)>>,
    file_operations |-> <<Operation(S1, F, "edit", Some(<<"y">>), Some(<<"z", "%">>), "m4", At("t7")),
                          Command(S1, F, "bash_touch", "m4", At("t7")),
                          Command(S1, Word("<rm>"), "bash_rm", "m4", At("t7"))>>,
    git_operations |-> <<GitRow(S1, "commit", "m4", At("t7"))>>,
    schema_drift_log |-> <<Drift("extra", <<"assistant", ".message", ".usage">>, "v2", At("t7")),
                           Drift("w", Word("assistant"), "v2", At("t7"))>>],
    [p \in {F} |-> <<"x", " ", "z", "%">>])

\* An edit of every occurrence, in the session's last message of the model.
\* A retroactive pass has counted the write, the edit and the touch again.
Edits1Again == Batch(S1, "m7", [
    messages |-> <<Row("m7", S1, Some(Word("m4")), "assistant", At("t8"), Some(Word("A")),
                       Some(Word("v2")), None)>>,
    token_usage |-> <<Usage("m7", Some(1), Some(1))>>,
    tool_executions |-> <<Tool("m7", "u5", "Edit")>>,
    files |-> <<FileRow(S1, F, At("t2"), At("t8"), 7)>>,
    file_operations |-> <<Operation(S1, F, "edit", Some(<<"x">>), Some(<<"x", "x">>), "m7", At("t8"))>>],
    [p \in {F} |-> <<"x", "x", " ", "z", "%">>])

First2 == Batch(S2, "m5", [
    sessions |-> <<Session(S2, P2, At("t3"), "v2")>>,
    projects |-> <<Project(P2, At("t3"), At("t3"))>>,
    version_history |-> <<[version |-> Word("v2"), first_seen_at |-> At("t3")]>>,
    agents |-> <<[agent_id |-> Word("g"), session_id |-> Some(S2), first_seen_at |-> Some(At("t3"))]>>,
    messages |-> <<Row("m5", S2, None, "user", At("t3"), None, None, Some(<<"%">>))>>,
    message_content |-> <<Block("m5", 0, "text", Some(<<"y", "/", "x", " ", "y">>)),
                          Block("m5", 1, "plan_content", Some(<<"%">>))>>,
    attachments |-> <<[uuid |-> <<"a", "/", "1">>, session_id |-> S2, timestamp |-> At("t3"),
                       inner_type |-> Word("mcp_instructions_delta"),
                       texts |-> <<<<"x", " ", "y">>, <<>>, <<"w">>>>],
                      [uuid |-> Word("a2"), session_id |-> S2, timestamp |-> At("t4"),
                       inner_type |-> Word("hook_success"), texts |-> <<<<"w">>>>]>>,
    hook_executions |-> <<[tool_use_id |-> Some(Word("u1")), hook_event |-> Some(Word("Stop")),
                           exit_code |-> Some(0)]>>], <<>>)

\* One transaction of two messages; the second file's path is part of the
\* first's, and its read does not count.
Writes2 == Batch(S2, "m8", [
    messages |-> <<Row("m6", S2, Some(Word("m5")), "assistant", At("t6"), Some(Word("B")),
                       Some(Word("v1")), None),
                   Row("m8", S2, Some(Word("m6")), "assistant", At("t6"), Some(Word("A")),
                       Some(Word("v1")), None)>>,
    message_content |-> <<Block("m6", 0, "text", Some(<<"x">>)),
                          Block("m8", 0, "text", Some(<<"y", "_", "z">>))>>,
    token_usage |-> <<Usage("m6", Some(2), None), Usage("m8", None, Some(2))>>,
    tool_executions |-> <<Tool("m6", "u4", "Write"), Tool("m8", "u6", "Read"), Tool("m8", "u7", "Write")>>,
    files |-> <<FileRow(S2, G, At("t6"), At("t6"), 1), FileRow(S2, F, At("t6"), At("t6"), 1)>>,
    file_operations |-> <<Operation(S2, G, "write", None, Some(<<"z">>), "m6", At("t6")),
                          Operation(S2, F, "read", None, None, "m8", At("t6")),
                          Operation(S2, F, "write", None, Some(<<"w">>), "m8", At("t6"))>>,
    git_operations |-> <<GitRow(S2, "commit", "m6", At("t6")), GitRow(S2, "push", "m6", At("t6"))>>,
    record_type_drift_log |-> <<[type_name |-> <<"w", "_", "z">>, version |-> Some(Word("v1")),
                                 last_seen_at |-> At("t6")]>>],
    [p \in {F, G} |-> IF p = G THEN <<"z">> ELSE <<"w">>])

MCFeed == [f1 |-> <<First1, Writes1, Plans1, Edits1, Edits1Again>>,
           f2 |-> <<First2, Writes2>>]

--------------------------------------------------------------------------
(* The questions.                                                          *)

Asks(command, a) == [command |-> command, a |-> a]

MCCommands == <<
    Asks("search", [q |-> <<"x">>, limit |-> 1]),
    Asks("search", [q |-> <<"x", " ", "y">>, limit |-> 2]),
    Asks("search", [q |-> <<"x", "&", "z">>, limit |-> MANY]),
    Asks("search", [q |-> <<" ">>, limit |-> 2]),
    Asks("search", [q |-> <<"%">>, limit |-> 2]),
    Asks("sessions", [limit |-> 1]),
    Asks("sessions", [project |-> <<"p", "_", "q">>, limit |-> MANY]),
    Asks("sessions", [project |-> <<"%">>, after |-> At("t2"), before |-> At("t3"), limit |-> 2]),
    Asks("sessions", [has_plan |-> TRUE, limit |-> 2]),
    Asks("query", [session_id |-> S2, limit |-> MANY]),
    Asks("query", [message_type |-> Word("assistant"), model |-> Word("A"), limit |-> 2]),
    Asks("query", [tool |-> Word("Edit"), after |-> At("t4"), limit |-> 2]),
    Asks("query", [before |-> At("t5"), limit |-> 2]),
    Asks("stats", <<>>),
    Asks("stats", [session_id |-> S2]),
    Asks("export", [session_id |-> S1, format |-> Word("json")]),
    Asks("export", [session_id |-> S2, format |-> Word("markdown")]),
    Asks("export", [session_id |-> S2, format |-> Word("csv")]),
    Asks("export", [session_id |-> Word("z"), format |-> Word("csv")]),
    Asks("export", [session_id |-> S1, format |-> Word("w")]),
    Asks("export", [session_id |-> <<>>, format |-> Word("csv")]),
    Asks("version-check", <<>>),
    Asks("schema-drift", [limit |-> 2]),
    Asks("schema-drift", [record_type |-> Word("assistant"), limit |-> 1]),
    Asks("record-type-drift", [type_name |-> <<"_">>, version |-> Word("v1"), since |-> At("t2"),
                              limit |-> 2]),
    Asks("attachments list", [project |-> <<"p", "_", "q">>, limit |-> 2]),
    Asks("attachments list", [inner_type |-> Word("hook_success"), since |-> At("t2"), limit |-> 2]),
    Asks("attachments show", [uuid |-> <<"a", "/", "1">>]),
    Asks("attachments show", [uuid |-> <<>>]),
    Asks("plans list", [project |-> <<"p", "_", "q">>, since |-> At("t3"), limit |-> 1]),
    Asks("plans list", [limit |-> MANY]),
    Asks("plans show", [session_id |-> S2]),
    Asks("plans show", [session_id |-> Word("search")]),
    Asks("hook-executions", [tool_use_id |-> Word("u1"), hook_event |-> Word("Stop"), exit_code |-> 0,
                            limit |-> 2]),
    Asks("hook-executions", [exit_code |-> 1, limit |-> 2]),
    Asks("files", [path |-> F, limit |-> 1]),
    Asks("files", [session_id |-> S2, project |-> <<"p", "_">>, limit |-> 2]),
    Asks("file-history", [path |-> F, session_id |-> S1, limit |-> MANY]),
    Asks("reconstruct", [path |-> F, session_id |-> S1, at |-> Word("m2")]),
    Asks("git-log", [session_id |-> S2, operation_type |-> Word("push"), limit |-> 2]),
    Asks("git-log", [limit |-> 2]),
    Asks("artifacts", [session_id |-> S2]),
    Asks("artifacts", [session_id |-> <<>>]) >>

Text(t)   == <<"text", t>>
Number(t) == <<"number", t>>

MCStatements == <<
    [query |-> <<"SELECT", " ", "?", "1">>, params |-> <<Text(<<"x">>)>>],
    [query |-> <<" ", "WITH", " ", "x", " ", "SELECT", " ", ";", " ">>, params |-> <<>>],
    [query |-> <<"SELECT", " ", "x", ";", "SELECT">>, params |-> <<>>],
    [query |-> <<"EXPLAIN", " ", "DELETE">>, params |-> <<>>],
    [query |-> <<"SELECT", " ", "x", "_", "DELETE">>, params |-> << <<"bool", TRUE>> >>],
    [query |-> <<"SELECT", " ", "x">>, params |-> << <<"array">> >>] >>

\* :x twice, a time in a literal, :y, and a cast.
Named1 == <<"SELECT", " ", ":", "x", " ", "'", "1", ":", "z", "'", " ", ":", "y", " ", ":", "x">>
Named2 == <<"SELECT", " ", ":", "y", "'", "'", ":", "x", "z", ":">>

MCCanned == Some([
    a |-> [sql |-> Named1,
           toml |-> Some([parses |-> TRUE, description |-> Word("w"),
                          params |-> <<ParamDef(Word("x"), None, "integer"),
                                       ParamDef(Word("y"), Some(Word("w")), "text")>>])],
    b |-> [sql |-> Named2, toml |-> None] ])

MCGivenValues == <<
    [n \in {Word("x")} |-> Word("1")],
    [n \in {Word("x"), Word("y")} |-> Word("w")],
    [n \in {Word("x"), Word("y"), <<"x", "z">>} |-> Word("2")],
    <<>> >>

MCIntegerTexts == {Word("1"), Word("2")}

Mark(i, label, tags, time) ==
    [id |-> Word(i), assistant_uuid |-> Word("m2"), session_id |-> S1, label |-> label,
     project_name |-> Word("p"), project_path |-> P1, encoded_dir |-> Word("q"), tags |-> tags,
     created_at |-> time]

MCChb == Some(<<Mark("k1", <<"x", " ", "y">>, None, 1),
                Mark("k2", <<"%">>, Some([text |-> <<"z">>, list |-> <<<<"z">>>>]), 3),
                Mark("k3", <<>>, None, 2)>>)
=============================================================================
