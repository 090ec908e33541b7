------------------------------- MODULE Client -------------------------------
(***************************************************************************)
(* The command line's client of a daemon (daemon_client.rs): one method    *)
(* per endpoint.  A method is the request that it builds from the          *)
(* arguments that were given; the daemon that answers serves a database.   *)
(***************************************************************************)
EXTENDS Api

\* The path of an endpoint, before its id.
Path(words) == Each(V1(words), Word)

\* The arguments that were given, of those the method has.
Sent(a, names) == Columns(a, DOMAIN a \cap names)

\* request: a status that is not a success is an error of the client.
ReplyOf(answer) == IF answer.status = 200 THEN Ok(answer.body) ELSE Err(answer.status)

Requested(db, request) == ReplyOf(Answer(db, request))

\* A 404 is no error where the answer may be missing.
OrMissing(reply) ==
    IF reply.ok THEN Ok(Some(reply.value))
    ELSE IF reply.error = 404 THEN Ok(None)
    ELSE reply

client_sessions(a) ==
    Get(Path(<<"sessions">>), Sent(a, {"project", "after", "before", "has_plan", "limit"}))

client_search(a) == Get(Path(<<"search">>), Sent(a, {"q", "limit", "offset"}))

client_query_messages(a) ==
    Post(Path(<<"messages", "query">>),
         Sent(a, {"session_id", "message_type", "model", "tool", "after", "before", "limit"}))

client_stats_tokens(a) == Get(Path(<<"analytics", "tokens">>), Sent(a, {"group_by", "session_id"}))

client_stats_tools == Get(Path(<<"analytics", "tools">>), <<>>)

client_stats_models == Get(Path(<<"analytics", "models">>), <<>>)

client_export_session(s, a) == Get(Path(<<"export">>) \o <<s>>, Sent(a, {"format"}))

client_version_history == Get(Path(<<"schema", "versions">>), <<>>)

client_schema_drift_grouped(a) ==
    Get(Path(<<"schema", "drift">>), Sent(a, {"record_type", "limit"}))

client_record_type_drift(a) ==
    Get(Path(<<"schema", "record-type-drift">>),
        Sent(a, {"type_name", "version", "since", "limit"}))

client_files(a) == Get(Path(<<"files">>), Sent(a, {"session_id", "path", "project", "limit"}))

client_git_operations(a) ==
    Get(Path(<<"git">>), Sent(a, {"session_id", "operation_type", "limit"}))

client_artifacts(s) == Get(Path(<<"artifacts">>) \o <<s>>, <<>>)

client_attachments_list(a) ==
    Get(Path(<<"attachments">>), Sent(a, {"project", "inner_type", "since", "limit"}))

client_attachment_show(u) == Get(Path(<<"attachments">>) \o <<u>>, <<>>)

client_plans_list(a) == Get(Path(<<"plans">>), Sent(a, {"project", "since", "limit"}))

client_plan_show(s) == Get(Path(<<"plans">>) \o <<s>>, <<>>)

client_hook_executions_list(a) ==
    Get(Path(<<"hook-executions">>),
        Sent(a, {"tool_use_id", "hook_event", "exit_code", "limit"}))

\* The requests of a command, in the order in which it awaits their answers.
RequestsOf(command, a) ==
    CASE command = "search"            -> <<client_search(a)>>
      [] command = "sessions"          -> <<client_sessions(a)>>
      [] command = "query"             -> <<client_query_messages(a)>>
      [] command = "stats"             ->
            << client_stats_tokens(IF "session_id" \in DOMAIN a
                                   THEN With(a, [group_by |-> Word("session")]) ELSE <<>>),
               client_stats_tools, client_stats_models >>
      [] command = "export"            -> <<client_export_session(a["session_id"], a)>>
      [] command = "version-check"     -> <<client_version_history>>
      [] command = "schema-drift"      -> <<client_schema_drift_grouped(a)>>
      [] command = "record-type-drift" -> <<client_record_type_drift(a)>>
      [] command = "attachments list"  -> <<client_attachments_list(a)>>
      [] command = "attachments show"  -> <<client_attachment_show(a["uuid"])>>
      [] command = "plans list"        -> <<client_plans_list(a)>>
      [] command = "plans show"        -> <<client_plan_show(a["session_id"])>>
      [] command = "hook-executions"   -> <<client_hook_executions_list(a)>>
      [] command = "files"             -> <<client_files(a)>>
      [] command = "git-log"           -> <<client_git_operations(a)>>
      [] command = "artifacts"         -> <<client_artifacts(a["session_id"])>>
      [] OTHER                         -> <<>>
=============================================================================
