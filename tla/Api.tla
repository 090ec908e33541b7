-------------------------------- MODULE Api --------------------------------
(***************************************************************************)
(* The daemon's HTTP surface: the router of api/mod.rs and its handlers.   *)
(* A handler reads its parameters, gives those that were left out their    *)
(* defaults, asks the store once and turns what is missing into a status.  *)
(*                                                                         *)
(* MANY stands for the limits 1000 and 10000 of the code.                  *)
(***************************************************************************)
EXTENDS ArtifactQueries, Search, Registry, Export

CONSTANTS
    DefaultLimit,   \* the default limit of each route that has one
    MANY

--------------------------------------------------------------------------
(* Responses: error.rs.                                                    *)

Json(x)    == [status |-> 200, body |-> x]
NotFound   == [status |-> 404]
BadRequest == [status |-> 400]
Internal   == [status |-> 500]

\* Ok(Some(row)) or NotFound.
OrNotFound(found) == IF found = None THEN NotFound ELSE Json(found[1])

\* The limit that was given, or the route's own.
LimitOf(a, route) == IF "limit" \in DOMAIN a THEN a["limit"] ELSE DefaultLimit[route]
OffsetOf(a)       == IF "offset" \in DOMAIN a THEN a["offset"] ELSE 0
Given(a, flag)    == flag \in DOMAIN a /\ a[flag]

--------------------------------------------------------------------------
(* Parameters: the fields of the structs that the handlers extract.        *)

SessionsParams       == {"project", "after", "before", "limit", "has_plan"}
ConversationParams   == {"include_thinking", "include_tool_io", "limit", "offset"}
MessageQuery         == {"session_id", "message_type", "model", "tool", "after", "before",
                         "has_plan", "limit"}
SearchParams         == {"q", "limit", "offset"}
TokensParams         == {"group_by", "session_id"}
ExportParams         == {"format"}
VersionsParams       == {"diff"}
DriftParams          == {"record_type", "limit"}
RecordTypeDriftParams == {"type_name", "version", "since", "limit"}
ProjectsParams       == {"limit"}
SqlQuery             == {"query", "params"}
FilesParams          == {"session_id", "path", "project", "limit"}
FileContentParams    == {"at"}
FileSearchParams     == {"q", "limit", "offset"}
FileQueryBody        == {"pattern", "session_id", "limit"}
GitParams            == {"session_id", "operation_type", "limit"}
GitCommitsParams     == {"limit"}
TimelineParams       == {"limit"}
AttachmentsParams    == {"project", "inner_type", "since", "limit"}
HookExecutionsParams == {"tool_use_id", "hook_event", "exit_code", "limit"}
PlansListParams      == {"project", "since", "limit"}
PlansSearchParams    == {"q", "limit", "offset"}

--------------------------------------------------------------------------
(* Handlers.                                                               *)

sessions_list(db, a) == Json(list_sessions(db, a, LimitOf(a, "sessions")))

sessions_detail(db, s) == OrNotFound(get_session(db, s))

sessions_conversation(db, s, a) ==
    Json(session_conversation(db, s, Given(a, "include_thinking"), Given(a, "include_tool_io"),
                              LimitOf(a, "conversation"), OffsetOf(a)))

sessions_tree(db, s) == Json(session_tree(db, s))

sessions_agents(db, s) == Json(session_agents(db, s))

sessions_summary(db, s) == OrNotFound(session_summary(db, s))

messages_query(db, a) == Json(query_messages(db, a, LimitOf(a, "messages")))

messages_by_uuid(db, u) == OrNotFound(get_message(db, u))

Blank(text) == Trim(text) = <<>>

search_search(db, a) ==
    IF Blank(a["q"]) THEN BadRequest
    ELSE Json(search_messages_and_attachments(db, a["q"], LimitOf(a, "search"), OffsetOf(a)))

analytics_tokens(db, a) ==
    LET by == IF "group_by" \in DOMAIN a THEN a["group_by"] ELSE Word("model")
        session == IF "session_id" \in DOMAIN a THEN Some(a["session_id"]) ELSE None
    IN  CASE by = Word("model")   -> Json(token_stats_by_model(db))
          [] by = Word("session") -> Json(token_stats_by_session(db, session))
          [] by = Word("day")     -> Json(token_stats_by_day(db))
          [] OTHER                -> BadRequest

analytics_tools(db) == Json(tool_frequency(db))

analytics_models(db) == Json(model_breakdown(db))

\* The whole export is one call on the connection.  A session that is not
\* there is an error of that call.
export_handler(db, s, a) ==
    LET format == IF "format" \in DOMAIN a THEN a["format"] ELSE Word("json")
    IN  IF format \notin {Word("json"), Word("markdown"), Word("csv")} THEN BadRequest
        ELSE LET file == Exported(db, s, format)
             IN  IF file = None THEN Internal ELSE Json(file[1])

schema_versions(db, a) ==
    Json(IF Given(a, "diff") THEN version_history_with_diff(db) ELSE version_history_enhanced(db))

\* The groups with their first fields, limit of them in all; record types
\* and groups that keep none are left out.
Shortened(groups, limit) ==
    LET Size(types) == FoldLeft(LAMBDA n, t : n + Len(t.fields), 0, types)
        Shorter(types, n) ==
            Select([k \in DOMAIN types |->
                          [types[k] EXCEPT !.fields =
                              LET used == Size(SubSeq(types, 1, k - 1))
                              IN  Limited(@, IF used < n THEN n - used ELSE 0, 0)]],
                      LAMBDA t : t.fields # <<>>)
        Before(k) == FoldLeft(LAMBDA n, g : n + Size(g.record_types), 0, SubSeq(groups, 1, k - 1))
    IN  Select([k \in DOMAIN groups |->
                      [groups[k] EXCEPT !.record_types =
                          Shorter(@, IF Before(k) < limit THEN limit - Before(k) ELSE 0)]],
                  LAMBDA g : g.record_types # <<>>)

OfRecordType(groups, part) ==
    Select(Each(groups, LAMBDA g :
                  [g EXCEPT !.record_types = Select(@, LAMBDA t : Like(t.record_type, part, FALSE))]),
              LAMBDA g : g.record_types # <<>>)

schema_drift(db, a) ==
    LET all  == drift_by_version(db)
        kept == IF "record_type" \in DOMAIN a THEN OfRecordType(all, a["record_type"]) ELSE all
    IN  Json(IF "limit" \in DOMAIN a THEN Shortened(kept, a["limit"]) ELSE kept)

schema_record_type_drift(db, a) == Json(record_type_drift_list(db, a))

\* Every table with its columns, the migrations' own left out; foreign keys
\* and the text of the views are not told apart.
schema_full(db) == Json(Columns(db.schema, DOMAIN db.schema \ {"schema_versions"}))

projects_list(db, a) == Json(list_projects(db, LimitOf(a, "projects")))

projects_detail(db, path) == OrNotFound(get_project(db, path))

\* Validated before it is asked; any other error is the connection's.
sql_execute(db, a, tooSlow) ==
    LET result == execute_sql(db, a["query"], IF "params" \in DOMAIN a THEN a["params"] ELSE <<>>,
                              tooSlow)
    IN  IF ~validate_sql(a["query"]) THEN BadRequest
        ELSE IF result.ok THEN Json(result.value) ELSE Internal

files_list(db, a) ==
    Json(list_files(db, ContainsPath(a), LimitOf(a, "files")))

\* The operations are looked up by LIKE on the path: those of a path that
\* only holds this one are listed too.
files_detail(db, id) ==
    LET file == get_file(db, id)
    IN  OrNotFound(Each(file, LAMBDA f :
            [file |-> f,
             operations |-> query_file_operations(db, f.file_path, [session_id |-> f.session_id],
                                                  MANY)]))

files_content(db, id, a) ==
    LET file == get_file(db, id)
        at   == IF "at" \in DOMAIN a THEN Some(a["at"]) ELSE None
    IN  IF file = None THEN NotFound
        ELSE OrNotFound(reconstruct_file_content(db, file[1].file_path, file[1].session_id, at))

files_diff(db, id) ==
    OrNotFound(Each(get_file(db, id), LAMBDA f : generate_file_diff(db, f.file_path, f.session_id)))

files_search(db, a) ==
    IF Blank(a["q"]) THEN BadRequest
    ELSE LET found == search_file_operations(db, a["q"], LimitOf(a, "files_search"), OffsetOf(a))
         IN  IF found.ok THEN Json(found.value) ELSE Internal

\* A glob: * stands for any text, ? for one character; the filter is applied
\* to at most MANY files, then the limit.
Globbed(path, pattern) ==
    LET from[i \in 1 .. Len(path) + 1, j \in 1 .. Len(pattern) + 1] ==
            IF j > Len(pattern) THEN i > Len(path)
            ELSE IF pattern[j] = "*" THEN \E k \in i .. Len(path) + 1 : from[k, j + 1]
            ELSE i <= Len(path) /\ pattern[j] \in {"?", path[i]} /\ from[i + 1, j + 1]
    IN  from[1, 1]

files_query(db, a) ==
    LET all == list_files(db, Columns(a, DOMAIN a \cap {"session_id"}), MANY)
    IN  Json(Limited(Select(all, LAMBDA f :
                         If(a, "pattern", LAMBDA p : Globbed(f.file_path, p))),
                     LimitOf(a, "files"), 0))

git_list(db, a) == Json(list_git_operations(db, a, LimitOf(a, "git")))

git_commits(db, a) == Json(list_git_commits(db, Columns(a, {}), LimitOf(a, "git_commits")))

git_session_commits(db, s) == Json(list_git_commits(db, [session_id |-> s], MANY))

artifacts_session(db, s) == Json(query_session_artifacts(db, s, MANY))

artifacts_timeline(db, s, a) == Json(query_session_timeline(db, s, LimitOf(a, "timeline")))

attachments_api_list(db, a) == Json(attachments_list(db, a, LimitOf(a, "attachments")))

attachments_api_show(db, u) == OrNotFound(attachment_by_uuid(db, u))

hook_executions_api_list(db, a) ==
    Json(hook_executions_list(db, a, LimitOf(a, "hook_executions")))

plans_api_list(db, a) == Json(plans_list(db, a, LimitOf(a, "plans")))

plans_api_show(db, s) ==
    LET plans == plan_show(db, s) IN IF plans = <<>> THEN NotFound ELSE Json(plans)

plans_api_search(db, a) ==
    IF Blank(a["q"]) THEN BadRequest
    ELSE Json(search_plans(db, a["q"], LimitOf(a, "plans_search"), OffsetOf(a)))

\* The status, the file's size and the version are always there.
health(db) == Json([record_count |-> Len(db.messages)])

--------------------------------------------------------------------------
(* The router: mod.rs.  A fixed word is preferred to an id.                *)

V1(rest) == <<"v1">> \o rest

Routes == <<
    <<"GET",  V1(<<"health">>),                          "health",        {}>>,
    <<"GET",  V1(<<"sessions">>),                        "sessions",      SessionsParams>>,
    <<"GET",  V1(<<"sessions", Hole>>),                  "session",       {}>>,
    <<"GET",  V1(<<"sessions", Hole, "conversation">>),  "conversation",  ConversationParams>>,
    <<"GET",  V1(<<"sessions", Hole, "tree">>),          "tree",          {}>>,
    <<"GET",  V1(<<"sessions", Hole, "agents">>),        "agents",        {}>>,
    <<"GET",  V1(<<"sessions", Hole, "summary">>),       "summary",       {}>>,
    <<"POST", V1(<<"messages", "query">>),               "messages",      MessageQuery>>,
    <<"GET",  V1(<<"messages", Hole>>),                  "message",       {}>>,
    <<"GET",  V1(<<"search">>),                          "search",        SearchParams>>,
    <<"GET",  V1(<<"analytics", "tokens">>),             "tokens",        TokensParams>>,
    <<"GET",  V1(<<"analytics", "tools">>),              "tools",         {}>>,
    <<"GET",  V1(<<"analytics", "models">>),             "models",        {}>>,
    <<"GET",  V1(<<"export", Hole>>),                    "export",        ExportParams>>,
    <<"GET",  V1(<<"schema">>),                          "schema",        {}>>,
    <<"GET",  V1(<<"schema", "versions">>),              "versions",      VersionsParams>>,
    <<"GET",  V1(<<"schema", "drift">>),                 "drift",         DriftParams>>,
    <<"GET",  V1(<<"schema", "record-type-drift">>),     "type_drift",    RecordTypeDriftParams>>,
    <<"GET",  V1(<<"projects">>),                        "projects",      ProjectsParams>>,
    <<"GET",  V1(<<"projects", Hole>>),                  "project",       {}>>,
    <<"POST", V1(<<"sql">>),                             "sql",           SqlQuery>>,
    <<"GET",  V1(<<"files">>),                           "files",         FilesParams>>,
    <<"GET",  V1(<<"files", "search">>),                 "files_search",  FileSearchParams>>,
    <<"POST", V1(<<"files", "query">>),                  "files_query",   FileQueryBody>>,
    <<"GET",  V1(<<"files", Hole>>),                     "file",          {}>>,
    <<"GET",  V1(<<"files", Hole, "content">>),          "content",       FileContentParams>>,
    <<"GET",  V1(<<"files", Hole, "diff">>),             "diff",          {}>>,
    <<"GET",  V1(<<"git">>),                             "git",           GitParams>>,
    <<"GET",  V1(<<"git", "commits">>),                  "git_commits",   GitCommitsParams>>,
    <<"GET",  V1(<<"git", "commits", Hole>>),            "session_commits", {}>>,
    <<"GET",  V1(<<"artifacts", Hole>>),                 "artifacts",     {}>>,
    <<"GET",  V1(<<"artifacts", Hole, "timeline">>),     "timeline",      TimelineParams>>,
    <<"GET",  V1(<<"attachments">>),                     "attachments",   AttachmentsParams>>,
    <<"GET",  V1(<<"attachments", Hole>>),               "attachment",    {}>>,
    <<"GET",  V1(<<"hook-executions">>),                 "hook_executions", HookExecutionsParams>>,
    <<"GET",  V1(<<"plans">>),                           "plans",         PlansListParams>>,
    <<"GET",  V1(<<"plans", "search">>),                 "plans_search",  PlansSearchParams>>,
    <<"GET",  V1(<<"plans", Hole>>),                     "plan",          {}>> >>

\* The words of the paths have letters and "-" only, which are never escaped.
ASSUME RoutesAssumption ==
    \A i \in DOMAIN Routes : Range(Routes[i][2]) \cap Reserved \subseteq {Hole}

\* A number in a path.
WithNumber(text, Handler(_)) ==
    IF Readable("limit", text) THEN Handler(Read("limit", text)) ELSE BadRequest

OfSession(db, name, id, a) ==
    CASE name = "session"      -> sessions_detail(db, id)
      [] name = "conversation" -> sessions_conversation(db, id, a)
      [] name = "tree"         -> sessions_tree(db, id)
      [] name = "agents"       -> sessions_agents(db, id)
      [] name = "summary"      -> sessions_summary(db, id)
      [] name = "message"      -> messages_by_uuid(db, id)
      [] name = "export"       -> export_handler(db, id, a)
      [] name = "project"      -> projects_detail(db, id)
      [] name = "file"         -> WithNumber(id, LAMBDA n : files_detail(db, n))
      [] name = "content"      -> WithNumber(id, LAMBDA n : files_content(db, n, a))
      [] name = "diff"         -> WithNumber(id, LAMBDA n : files_diff(db, n))
      [] name = "session_commits" -> git_session_commits(db, id)
      [] name = "artifacts"    -> artifacts_session(db, id)
      [] name = "timeline"     -> artifacts_timeline(db, id, a)
      [] name = "attachment"   -> attachments_api_show(db, id)
      [] name = "plan"         -> plans_api_show(db, id)

OfAll(db, name, a) ==
    CASE name = "health"       -> health(db)
      [] name = "sessions"     -> sessions_list(db, a)
      [] name = "messages"     -> messages_query(db, a)
      [] name = "search"       -> search_search(db, a)
      [] name = "tokens"       -> analytics_tokens(db, a)
      [] name = "tools"        -> analytics_tools(db)
      [] name = "models"       -> analytics_models(db)
      [] name = "schema"       -> schema_full(db)
      [] name = "versions"     -> schema_versions(db, a)
      [] name = "drift"        -> schema_drift(db, a)
      [] name = "type_drift"   -> schema_record_type_drift(db, a)
      [] name = "projects"     -> projects_list(db, a)
      [] name = "sql"          -> sql_execute(db, a, FALSE)
      [] name = "files"        -> files_list(db, a)
      [] name = "files_search" -> files_search(db, a)
      [] name = "files_query"  -> files_query(db, a)
      [] name = "git"          -> git_list(db, a)
      [] name = "git_commits"  -> git_commits(db, a)
      [] name = "attachments"  -> attachments_api_list(db, a)
      [] name = "hook_executions" -> hook_executions_api_list(db, a)
      [] name = "plans"        -> plans_api_list(db, a)
      [] name = "plans_search" -> plans_api_search(db, a)

\* A query that cannot be read, or has no q where one is needed, is refused.
Dispatched(db, request, route, ids, a) ==
    IF route[1] # request.method THEN [status |-> 405]
    ELSE IF request.method = "GET" /\ Refused(request.query, route[4]) THEN BadRequest
    ELSE IF "q" \in route[4] /\ "q" \notin DOMAIN a THEN BadRequest
    ELSE IF ids = <<>> THEN OfAll(db, route[3], a)
    ELSE OfSession(db, route[3], ids[1], a)

ParametersOf(request, fields) ==
    IF request.method = "POST" THEN Columns(request.body[1], DOMAIN request.body[1] \cap fields)
    ELSE Extracted(request.query, fields)

Served(db, request, segments, routes) ==
    IF routes = <<>> THEN NotFound
    ELSE Dispatched(db, request, routes[1], Ids(routes[1][2], segments),
                    ParametersOf(request, routes[1][4]))

RoutesTo(segments) == Select(Routes, LAMBDA r : Matches(r[2], segments))

Answer(db, request) ==
    LET segments == Split(request.target, "/")
    IN  Served(db, request, segments, RoutesTo(segments))
=============================================================================
