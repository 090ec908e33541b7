-------------------------------- MODULE Mcp --------------------------------
(***************************************************************************)
(* The tools of the MCP service (mcp/tools.rs).  Each reads its            *)
(* parameters, asks the store on the service's own connection, and answers *)
(* with the rows or with an error.                                         *)
(***************************************************************************)
EXTENDS Registry, ArtifactQueries, Search, Bookmarks

CONSTANT ToolLimit   \* the default limit of each tool that has one

Allowed(a, tool) == IF "limit" \in DOMAIN a THEN a["limit"] ELSE ToolLimit[tool]

tool_search_messages(db, a) ==
    Ok(search_messages_and_attachments(db, a["query"], Allowed(a, "search"), 0))

tool_list_sessions(db, a) ==
    Ok(list_sessions(db, Columns(a, DOMAIN a \ {"has_plan"}), Allowed(a, "sessions")))

tool_query_messages(db, a) == Ok(query_messages(db, a, Allowed(a, "messages")))

\* The bug searches the project for the path.
PathAsProject(db, a) ==
    Ok(list_files(db, IF "path" \in DOMAIN a THEN RenamedTo(a, "path", "project") ELSE a,
                  Allowed(a, "files")))

tool_list_files(db, a) ==
    Ok(list_files(db, ContainsPath(a), Allowed(a, "files")))

tool_file_history(db, a) ==
    Ok(query_file_operations(db, a["path"], a, Allowed(a, "file_history")))

tool_git_log(db, a) == Ok(list_git_operations(db, a, Allowed(a, "git")))

tool_get_stats(db) ==
    Ok([token_usage |-> token_stats_by_model(db), tool_frequency |-> tool_frequency(db),
        model_breakdown |-> model_breakdown(db)])

tool_execute_sql(db, a, tooSlow) ==
    IF validate_sql(a["query"]) THEN execute_sql(db, a["query"], a["params"], tooSlow)
    ELSE Err("validation")

RunPrepared(db, prepared, tooSlow) ==
    IF ~prepared.ok THEN prepared
    ELSE execute_sql(db, prepared.value.sql, prepared.value.values, tooSlow)

RunNamed(db, queries, name, given, tooSlow) ==
    IF ~queries.ok THEN queries
    ELSE IF name \notin DOMAIN queries.value THEN Err("no query")
    ELSE RunPrepared(db, prepare_sql(queries.value[name], given), tooSlow)

tool_run_query(db, dir, name, given, tooSlow) ==
    RunNamed(db, load_queries(dir), name, given, tooSlow)

\* The queries that could be loaded; a list of them is in the order of names.
tool_list_queries(dir) == load_queries(dir)

tool_list_bookmarks(chb, a) == list_bookmarks(chb, a, Allowed(a, "bookmarks"))

tool_search_bookmarks(chb, a) == search_bookmarks(chb, a["query"], a, Allowed(a, "bookmarks"))

tool_list_attachments(db, a) == Ok(attachments_list(db, a, Allowed(a, "attachments")))

tool_get_hook_executions(db, a) == Ok(hook_executions_list(db, a, Allowed(a, "hook_executions")))

\* No bookmark is an answer, in words.
tool_get_bookmark(chb, a) == get_bookmark(chb, a)

tool_list_plans(db, a) == Ok(plans_list(db, a, Allowed(a, "plans")))

\* A session without a plan has an empty list.
tool_get_plan(db, a) == Ok(plan_show(db, a["session_id"]))
=============================================================================
