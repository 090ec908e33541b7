-------------------------------- MODULE Cli --------------------------------
(***************************************************************************)
(* The read commands of the command line (main.rs).  A command finds out   *)
(* once whether a daemon answers; then it asks the daemon through the      *)
(* client, or the store through a connection of its own, and prints what   *)
(* it got.                                                                 *)
(*                                                                         *)
(* The world of a command is a record: served is the path of the database  *)
(* that a healthy daemon serves (or None), dbs the databases that exist by *)
(* path, default the path that is used when none is given.                 *)
(***************************************************************************)
EXTENDS Client

Failed           == [exit |-> "FAILURE"]
Printed(out)     == [exit |-> "SUCCESS", out |-> out]
Nothing          == [exit |-> "SUCCESS"]
PrintedOr(reply) == IF reply.ok THEN Printed(reply.value) ELSE Failed

--------------------------------------------------------------------------
(* The arguments of the commands, as clap reads them (--json is left out): *)
(* those that are always there, as they are required or have a default,    *)
(* and those that may be.                                                  *)

CommandNames == {
    "search", "sessions", "query", "stats", "export", "version-check", "schema-drift",
    "record-type-drift", "attachments list", "attachments show", "plans list", "plans show",
    "hook-executions", "files", "file-history", "reconstruct", "git-log", "artifacts"}

Always(command) ==
    CASE command = "search"                   -> {"q", "limit"}
      [] command = "export"                   -> {"session_id", "format"}
      [] command = "attachments show"         -> {"uuid"}
      [] command \in {"plans show", "artifacts"} -> {"session_id"}
      [] command = "file-history"             -> {"path", "limit"}
      [] command = "reconstruct"              -> {"path", "session_id"}
      [] command \in {"stats", "version-check"} -> {}
      [] OTHER                                -> {"limit"}

Perhaps(command) ==
    CASE command = "sessions"          -> {"project", "after", "before", "has_plan"}
      [] command = "query"             -> {"session_id", "message_type", "model", "tool", "after",
                                           "before"}
      [] command = "stats"             -> {"session_id"}
      [] command = "schema-drift"      -> {"record_type"}
      [] command = "record-type-drift" -> {"type_name", "version", "since"}
      [] command = "attachments list"  -> {"project", "inner_type", "since"}
      [] command = "plans list"        -> {"project", "since"}
      [] command = "hook-executions"   -> {"tool_use_id", "hook_event", "exit_code"}
      [] command = "files"             -> {"session_id", "path", "project"}
      [] command = "file-history"      -> {"session_id", "project"}
      [] command = "reconstruct"       -> {"at"}
      [] command = "git-log"           -> {"session_id", "operation_type"}
      [] OTHER                         -> {}

\* An argument is a number, a flag or a text.
OfItsType(name, v) ==
    IF name \in Numeric THEN v \in 0 .. MaxNumber
    ELSE IF name \in Flag THEN v \in BOOLEAN
    ELSE IsList(v)

Parsed(command, a) ==
    /\ command \in CommandNames
    /\ a = [n \in DOMAIN a |-> a[n]]
    /\ Always(command) \subseteq DOMAIN a
    /\ DOMAIN a \subseteq Always(command) \cup Perhaps(command)
    /\ \A n \in DOMAIN a : OfItsType(n, a[n])

--------------------------------------------------------------------------
(* Connections.                                                            *)

resolve_db_path(world, arg) == IF arg # None THEN arg[1] ELSE world.default

\* Opening creates a database that is not there.
init_db(world, path) == IF path \in DOMAIN world.dbs THEN world.dbs[path] ELSE EmptyDatabase

\* A daemon is asked for what it serves, whatever path was given; without one
\* the database must be there.  A mode is the database that is asked, and
\* whether a daemon asks it.
resolve_connection_mode(world, arg) ==
    LET path == resolve_db_path(world, arg)
    IN  IF world.served # None THEN Ok([daemon |-> TRUE, db |-> world.dbs[world.served[1]]])
        ELSE IF path \in DOMAIN world.dbs THEN Ok([daemon |-> FALSE, db |-> init_db(world, path)])
        ELSE Err("no database")

\* Commands that the daemon has no endpoint for open the default database.
OwnDatabase(world, mode) ==
    IF mode.daemon THEN init_db(world, resolve_db_path(world, None)) ELSE mode.db

\* What a daemon replied to the command's requests.
RepliesTo(mode, command, a) ==
    Each(IF mode.daemon THEN RequestsOf(command, a) ELSE <<>>,
         LAMBDA request : Requested(mode.db, request))

\* The daemon's first reply, or what the command's own connection read.
Asked(mode, directly) == IF mode.daemon THEN mode.replies[1] ELSE Ok(directly)

\* Rows that are printed only when there are any.
Noticed(reply) ==
    IF ~reply.ok THEN Failed
    ELSE IF reply.value = <<>> THEN Nothing ELSE Printed(reply.value)

--------------------------------------------------------------------------
(* Commands: mode also holds the replies of its daemon.                    *)

run_search(mode, a) ==
    PrintedOr(Asked(mode, search_messages_and_attachments(mode.db, a["q"], a["limit"], 0)))

run_sessions(mode, a) == PrintedOr(Asked(mode, list_sessions(mode.db, a, a["limit"])))

run_query(mode, a) ==
    PrintedOr(Asked(mode, query_messages(mode.db, Sent(a, DOMAIN a \ {"has_plan"}), a["limit"])))

\* Three requests, or one call.
run_stats(mode, a) ==
    IF ~mode.daemon
    THEN Printed(<< IF "session_id" \in DOMAIN a
                    THEN token_stats_by_session(mode.db, Some(a["session_id"]))
                    ELSE token_stats_by_model(mode.db),
                    tool_frequency(mode.db), model_breakdown(mode.db) >>)
    ELSE IF \A i \in 1 .. 3 : mode.replies[i].ok
    THEN Printed(Each(mode.replies, LAMBDA r : r.value))
    ELSE Failed

run_export(mode, a) ==
    LET file == Exported(mode.db, a["session_id"], a["format"])
    IN  IF a["format"] \notin {Word("json"), Word("markdown"), Word("csv")} THEN Failed
        ELSE IF mode.daemon THEN PrintedOr(mode.replies[1])
        ELSE IF file = None THEN Failed ELSE Printed(file[1])

run_version_check(mode) == Noticed(Asked(mode, version_history_enhanced(mode.db)))

\* The command filters and shortens as the handler of the daemon does.
run_schema_drift(mode, a) ==
    LET all  == drift_by_version(mode.db)
        kept == IF "record_type" \in DOMAIN a THEN OfRecordType(all, a["record_type"]) ELSE all
    IN  Noticed(Asked(mode, Shortened(kept, a["limit"])))

run_record_type_drift(mode, a) == Noticed(Asked(mode, record_type_drift_list(mode.db, a)))

run_attachments_list(mode, a) ==
    PrintedOr(Asked(mode, attachments_list(mode.db, a, a["limit"])))

run_attachments_show(mode, a) ==
    LET found == IF mode.daemon THEN OrMissing(mode.replies[1])
                 ELSE Ok(attachment_by_uuid(mode.db, a["uuid"]))
    IN  IF found.ok /\ found.value # None THEN Printed(found.value[1]) ELSE Failed

run_plans_list(mode, a) == PrintedOr(Asked(mode, plans_list(mode.db, a, a["limit"])))

run_plans_show(mode, a) ==
    LET found == IF mode.daemon THEN OrMissing(mode.replies[1])
                 ELSE Ok(Some(plan_show(mode.db, a["session_id"])))
    IN  IF found.ok /\ found.value \notin {None, Some(<<>>)} THEN Printed(found.value[1]) ELSE Failed

run_hook_executions(mode, a) ==
    PrintedOr(Asked(mode, hook_executions_list(mode.db, a, a["limit"])))

run_files(mode, a) == PrintedOr(Asked(mode, list_files(mode.db, ContainsPath(a), a["limit"])))

run_git_log(mode, a) == PrintedOr(Asked(mode, list_git_operations(mode.db, a, a["limit"])))

run_artifacts(mode, a) ==
    PrintedOr(Asked(mode, query_session_artifacts(mode.db, a["session_id"], MANY)))

run_file_history(world, mode, a) ==
    Printed(query_file_operations(OwnDatabase(world, mode), a["path"], a, a["limit"]))

\* A file nothing is known of is no failure.
run_reconstruct(world, mode, a) ==
    LET text == reconstruct_file_content(OwnDatabase(world, mode), a["path"], a["session_id"],
                                         IF "at" \in DOMAIN a THEN Some(a["at"]) ELSE None)
    IN  IF text = None THEN Nothing ELSE Printed(text[1])

--------------------------------------------------------------------------
(* Queries of the user's directory.                                        *)

run_queries_list(dir) ==
    LET queries == load_queries(dir)
    IN  IF ~queries.ok THEN Failed
        ELSE IF queries.value = <<>> THEN Nothing ELSE Printed(queries.value)

run_queries_show(dir, name) ==
    LET queries == load_queries(dir)
    IN  IF queries.ok /\ name \in DOMAIN queries.value THEN Printed(queries.value[name]) ELSE Failed

\* The query is prepared before a connection is looked for.
PreparedOf(queries, name, given) ==
    IF ~queries.ok \/ name \notin DOMAIN queries.value THEN Err("no query")
    ELSE prepare_sql(queries.value[name], given)

RunOn(world, mode, prepared, tooSlow) ==
    IF ~mode.ok \/ ~prepared.ok THEN Failed
    ELSE PrintedOr(execute_sql(OwnDatabase(world, mode.value), prepared.value.sql,
                               prepared.value.values, tooSlow))

run_queries_run(world, arg, dir, name, given, tooSlow) ==
    RunOn(world, resolve_connection_mode(world, arg),
          PreparedOf(load_queries(dir), name, given), tooSlow)

--------------------------------------------------------------------------

Run(world, mode, command, a) ==
    CASE command = "search"            -> run_search(mode, a)
      [] command = "sessions"          -> run_sessions(mode, a)
      [] command = "query"             -> run_query(mode, a)
      [] command = "stats"             -> run_stats(mode, a)
      [] command = "export"            -> run_export(mode, a)
      [] command = "version-check"     -> run_version_check(mode)
      [] command = "schema-drift"      -> run_schema_drift(mode, a)
      [] command = "record-type-drift" -> run_record_type_drift(mode, a)
      [] command = "attachments list"  -> run_attachments_list(mode, a)
      [] command = "attachments show"  -> run_attachments_show(mode, a)
      [] command = "plans list"        -> run_plans_list(mode, a)
      [] command = "plans show"        -> run_plans_show(mode, a)
      [] command = "hook-executions"   -> run_hook_executions(mode, a)
      [] command = "files"             -> run_files(mode, a)
      [] command = "file-history"      -> run_file_history(world, mode, a)
      [] command = "reconstruct"       -> run_reconstruct(world, mode, a)
      [] command = "git-log"           -> run_git_log(mode, a)
      [] command = "artifacts"         -> run_artifacts(mode, a)

InMode(world, found, command, a) ==
    IF ~found.ok THEN Failed
    ELSE Run(world, With(found.value, [replies |-> RepliesTo(found.value, command, a)]), command, a)

\* main: a command and its arguments, in a world.
main(world, arg, command, a) == InMode(world, resolve_connection_mode(world, arg), command, a)
=============================================================================
