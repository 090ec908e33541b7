------------------------------ MODULE Daemons ------------------------------
(***************************************************************************)
(* The processes around one database: daemons that start, serve, are       *)
(* signalled or killed (crates/server/src/main.rs: run_serve, serve.rs),   *)
(* and commands: `sync`, and those that look for a daemon on the Unix      *)
(* socket and read the database themselves when none answers               *)
(* (daemon_client.rs: detect_connection_mode).  Opening the database is    *)
(* Migrations.                                                             *)
(*                                                                         *)
(* The database's content is the set of its messages, named by the order   *)
(* of their timestamps.  The socket file names the daemon that bound it,   *)
(* also when that daemon is gone.                                          *)
(***************************************************************************)
EXTENDS Migrations, FiniteSets, FiniteSetsExt, SequencesExt

CONSTANTS
    Server, Client,     \* the daemons, and the processes of commands
    NoServer,
    Port,       \* --port of every daemon: the functions that may be
    Requests,   \* the requests of a command: 3 for stats, 1, and 0 for an export
    Messages,   \* the timestamps there may be: a bound
    Stored,     \* those that a database has at the beginning
    BATCH_SIZE, \* messages an export reads at a time
    MaxKills    \* daemons that are killed: a bound

ASSUME ProcAssumption ==
    Proc = Server \cup Client /\ Server \cap Client = {} /\ NoServer \notin Proc
ASSUME PortAssumption == Port \subseteq [Server -> Nat]
ASSUME RequestsAssumption == Requests \subseteq Nat
ASSUME MessagesAssumption ==
    Messages \subseteq Nat /\ Stored \subseteq Messages /\ IsFiniteSet(Stored)
ASSUME BatchAssumption == BATCH_SIZE \in Nat \ {0}
ASSUME KillsAssumption == MaxKills \in Nat

VARIABLES
    messages,   \* the rows of messages
    socket,     \* the daemon that the socket file leads to, or NoServer
    stage,      \* where each process is
    port,       \* a daemon's port ...
    streams,    \* ... and, as it stops, its listeners with an open event stream
    peer,       \* the daemon at the other end of a command's connection
    left,       \* the requests a command has still to send; 0 for an export
    out,        \* what an export has written
    (* observation *)
    start,      \* the messages there were when an export began
    excused,    \* commands that found no migrated database, met a lock, or ran
                \* while a daemon ended or the socket changed
    overlapped  \* daemons that were not alone for all of their life

serverVars  == <<port, streams>>
commandVars == <<peer, left, out, start>>
obsVars     == <<excused, overlapped>>
vars == <<openVars, messages, socket, stage, serverVars, commandVars, obsVars>>

Listener == {"tcp", "uds"}
Ended    == {"ended", "killed", "done", "failed"}

TypeOK ==
    /\ OpenTypeOK
    /\ messages \subseteq Messages
    /\ socket \in Server \cup {NoServer}
    /\ stage \in [Proc -> Ended \cup {"off", "opening", "bound", "clean", "serving",
                     "stopping", "looking", "health", "detected", "waiting", "served",
                     "direct", "syncing"}]
    /\ port \in Port
    /\ streams \in [Server -> SUBSET Listener]
    /\ peer \in [Client -> Server \cup {NoServer}]
    /\ left \in [Client -> Nat]
    /\ out \in [Client -> Seq(Messages)]
    /\ start \in [Client -> SUBSET Messages]
    /\ excused \subseteq Client
    /\ overlapped \subseteq Server

Init ==
    /\ OpenInit
    /\ messages = IF exists THEN Stored ELSE {}
    /\ socket = NoServer
    /\ stage = [p \in Proc |-> "off"]
    /\ port \in Port
    /\ streams = [p \in Server |-> {}]
    /\ peer = [c \in Client |-> NoServer]
    /\ left = [c \in Client |-> 0]
    /\ out = [c \in Client |-> <<>>]
    /\ start = [c \in Client |-> {}]
    /\ excused = {} /\ overlapped = {}

Goes(p, where) == stage' = [stage EXCEPT ![p] = where]

Alive(p)  == stage[p] \notin Ended \cup {"off"}
IsOpen(p) == stage[p] = "opening" /\ conn[p] = "open"       \* init_db has returned

HasPort(p) == stage[p] \in {"bound", "clean", "serving"}
Accepting  == {p \in Server : stage[p] = "serving"}          \* on their sockets
Exports(c) == left[c] = 0 /\ (IsOpen(c) \/ stage[c] = "served")
Serves(p)  == stage[p] \in {"serving", "stopping"}

\* A step that takes a daemon or a socket away from the commands that run.
Disturb == excused' = excused \cup {c \in Client : Alive(c)}

\* The daemon's process is gone, with its streams.
Exits(p, how) ==
    /\ Goes(p, how) /\ Close(p)
    /\ streams' = [streams EXCEPT ![p] = {}]
    /\ overlapped' = overlapped \ {p}

--------------------------------------------------------------------------
(* A daemon's start: run_serve and run_server.                             *)

\* A database must be there; sync makes it.
StartServe(p) ==
    /\ stage[p] = "off"
    /\ \/ exists /\ Goes(p, "opening") /\ Open(p)
       \/ ~exists /\ Goes(p, "ended") /\ UNCHANGED openVars
    /\ LET others == {q \in Server \ {p} : Alive(q)}
       IN  overlapped' = IF exists /\ others # {} THEN overlapped \cup others \cup {p}
                         ELSE overlapped
    /\ UNCHANGED <<messages, socket, serverVars, commandVars, excused>>

\* With the database open the watcher and sync_all are spawned (Ingest).  The
\* TCP listener comes first, so that of two daemons on one port the later
\* leaves the other's socket alone.
BindTcp(p) ==
    /\ IsOpen(p)
    /\ IF \E q \in Server : port[q] = port[p] /\ HasPort(q)
       THEN Exits(p, "ended")
       ELSE Goes(p, "bound") /\ UNCHANGED <<openVars, streams, overlapped>>
    /\ UNCHANGED <<messages, socket, port, commandVars, excused>>

\* Whatever file is there is taken for a stale one.
RemoveStale(p) ==
    /\ stage[p] = "bound"
    /\ Goes(p, "clean")
    /\ socket' = NoServer
    /\ IF socket = NoServer THEN UNCHANGED excused ELSE Disturb
    /\ UNCHANGED <<openVars, messages, serverVars, commandVars, overlapped>>

\* A bug that would bind first and remove the file it has just made.
BindThenRemove(p) ==
    /\ stage[p] = "clean"
    /\ Goes(p, "serving")
    /\ socket' = NoServer
    /\ UNCHANGED <<openVars, messages, serverVars, commandVars, obsVars>>

BindUds(p) ==
    /\ stage[p] = "clean"
    /\ IF socket = NoServer
       THEN /\ Goes(p, "serving") /\ socket' = p
            /\ UNCHANGED <<openVars, streams, overlapped>>
       ELSE Exits(p, "ended") /\ UNCHANGED socket
    /\ UNCHANGED <<messages, port, commandVars, excused>>

--------------------------------------------------------------------------
(* A daemon's end.                                                         *)

\* SIGINT or SIGTERM cancels the token, and both listeners stop accepting.
\* GET /v1/events and MCP have open streams on some of them.  Before the
\* handler is there a signal is a kill, and a second one is nothing.
Signal(p) ==
    /\ stage[p] = "serving"
    /\ Goes(p, "stopping")
    /\ streams' \in {[streams EXCEPT ![p] = S] : S \in SUBSET Listener}
    /\ Disturb
    /\ UNCHANGED <<openVars, messages, socket, port, commandVars, overlapped>>

InFlight(p) == {c \in Client : peer[c] = p /\ stage[c] \in {"health", "waiting", "served"}}

\* A graceful shutdown waits for every connection; an event stream does not
\* look at the token.
Drained(p, l) == l \notin streams[p] /\ (l = "uds" => InFlight(p) = {})

CleansUp(p) ==
    /\ Exits(p, "ended")
    /\ socket' = NoServer
    /\ Disturb
    /\ UNCHANGED <<messages, port, commandVars>>

\* A bug that would wait for both listeners.
CleanUpAfterBoth(p) ==
    /\ stage[p] = "stopping" /\ \A l \in Listener : Drained(p, l)
    /\ CleansUp(p)

\* The first listener that is done ends the select!; the other one has 100 ms
\* more.  Whatever file is there by now is removed, and the process exits.
CleanUp(p) ==
    /\ stage[p] = "stopping" /\ \E l \in Listener : Drained(p, l)
    /\ CleansUp(p)

\* SIGKILL, a crash, or a signal before the handler.
Kill(p) ==
    /\ Alive(p) /\ Cardinality({q \in Server : stage[q] = "killed"}) < MaxKills
    /\ Exits(p, "killed") /\ Disturb
    /\ UNCHANGED <<messages, socket, port, commandVars>>

CloseStream(p, l) ==
    /\ l \in streams[p]
    /\ streams' = [streams EXCEPT ![p] = @ \ {l}]
    /\ UNCHANGED <<openVars, messages, socket, stage, port, commandVars, obsVars>>

--------------------------------------------------------------------------
(* Ingestion, by a daemon's watcher and sync_all and by `sync`.            *)

Begins(c) ==
    excused' = IF exists /\ Len(applied) = LAST THEN excused ELSE excused \cup {c}

\* `sync` looks for no daemon, and makes the database.
StartSync(c) ==
    /\ stage[c] = "off"
    /\ Goes(c, "syncing") /\ Open(c) /\ Begins(c)
    /\ UNCHANGED <<messages, socket, serverVars, commandVars, overlapped>>

SyncEnds(c) ==
    /\ stage[c] = "syncing" /\ conn[c] = "open"
    /\ Goes(c, "done") /\ Close(c)
    /\ UNCHANGED <<messages, socket, serverVars, commandVars, obsVars>>

\* The daemon's statements run on one connection, which an export holds.
Exporting(p) == \E c \in Client : peer[c] = p /\ stage[c] = "served"

Ingest(p) ==
    /\ conn[p] = "open" /\ (p \in Server \/ stage[p] = "syncing")
    /\ ~Exporting(p)
    /\ \E m \in Messages \ messages : messages' = messages \cup {m}
    /\ UNCHANGED <<openVars, socket, stage, serverVars, commandVars, obsVars>>

--------------------------------------------------------------------------
(* A command.                                                              *)

Forgets(c) ==
    /\ peer' = [peer EXCEPT ![c] = NoServer]
    /\ left' = [left EXCEPT ![c] = 0]
    /\ out' = [out EXCEPT ![c] = <<>>]
    /\ start' = [start EXCEPT ![c] = {}]

\* The command has answered, and exits.
Done(c) ==
    /\ Goes(c, "done") /\ Forgets(c)
    /\ IF conn[c] = "open" THEN Close(c) ELSE UNCHANGED openVars
    /\ excused' = excused \ {c}

StartCommand(c) ==
    /\ stage[c] = "off"
    /\ Goes(c, "looking")
    /\ \E n \in Requests : /\ left' = [left EXCEPT ![c] = n]
                           /\ start' = [start EXCEPT ![c] = IF n = 0 THEN messages ELSE {}]
    /\ Begins(c)
    /\ UNCHANGED <<openVars, messages, socket, serverVars, peer, out, overlapped>>

\* A bug that would trust the file: the health check is left out.
TrustSocket(c) ==
    /\ stage[c] = "looking"
    /\ Goes(c, IF socket = NoServer THEN "direct" ELSE "detected")
    /\ UNCHANGED <<openVars, messages, socket, serverVars, commandVars, obsVars>>

\* What a command still asks after a failure changes nothing.
Fails(c) == Goes(c, "failed") /\ Forgets(c)

Connected(c, how) ==
    /\ socket \in Accepting
    /\ Goes(c, how) /\ peer' = [peer EXCEPT ![c] = socket]
    /\ UNCHANGED <<left, out, start>>

Keeps(c, where) ==
    /\ Goes(c, where) /\ peer' = [peer EXCEPT ![c] = NoServer]
    /\ UNCHANGED <<left, out, start>>

\* socket_path.exists() and the connection for the health check.
AskHealth(c) ==
    /\ stage[c] = "looking"
    /\ Connected(c, "health") \/ (socket \notin Accepting /\ Keeps(c, "direct"))
    /\ UNCHANGED <<openVars, messages, socket, serverVars, obsVars>>

\* A new connection for every request, to whom the file leads by now.
Request(c) ==
    /\ stage[c] = "detected"
    /\ Connected(c, "waiting") \/ (socket \notin Accepting /\ Fails(c))
    /\ UNCHANGED <<openVars, messages, socket, serverVars, obsVars>>

Free(c) == Serves(peer[c]) /\ ~Exporting(peer[c])

Healthy(c) ==
    /\ stage[c] = "health" /\ Free(c)
    /\ Keeps(c, "detected")
    /\ UNCHANGED <<openVars, messages, socket, serverVars, obsVars>>

\* One request after the other; the export's response is written at once.
Answer(c) ==
    /\ stage[c] = "waiting" /\ Free(c)
    /\ \/ /\ left[c] = 0 /\ Goes(c, "served")
          /\ UNCHANGED <<openVars, commandVars, excused>>
       \/ left[c] = 1 /\ Done(c)
       \/ /\ left[c] > 1 /\ Goes(c, "detected")
          /\ left' = [left EXCEPT ![c] = @ - 1]
          /\ peer' = [peer EXCEPT ![c] = NoServer]
          /\ UNCHANGED <<openVars, out, start, excused>>
    /\ UNCHANGED <<messages, socket, serverVars, overlapped>>

\* The daemon is gone, or closes its listener before it has taken the
\* connection.  Only the health check has another way.
Cut(c) ==
    /\ \/ stage[c] = "health" /\ peer[c] \notin Accepting /\ Keeps(c, "direct")
       \/ stage[c] = "waiting" /\ peer[c] \notin Accepting /\ Fails(c)
       \/ stage[c] = "served" /\ ~Serves(peer[c]) /\ Fails(c)
    /\ UNCHANGED <<openVars, messages, socket, serverVars, obsVars>>

\* No daemon: the database must be there, and is opened and migrated.
Direct(c) ==
    /\ stage[c] = "direct"
    /\ \/ exists /\ Goes(c, "opening") /\ Open(c) /\ UNCHANGED commandVars
       \/ ~exists /\ Fails(c) /\ UNCHANGED openVars
    /\ UNCHANGED <<messages, socket, serverVars, obsVars>>

\* The command's own connection: stats is one closure of three statements.
Read(c) ==
    /\ IsOpen(c) /\ left[c] > 0 /\ Done(c)
    /\ UNCHANGED <<messages, socket, serverVars, overlapped>>

\* A bug that would read the newest first.
NewestFirst ==
    CHOOSE s \in [1 .. Cardinality(messages) -> messages] :
        \A i, j \in DOMAIN s : i < j => s[i] > s[j]

Ascending(s) == \A i, j \in DOMAIN s : i < j => s[i] < s[j]

Sorted == CHOOSE s \in [1 .. Cardinality(messages) -> messages] : Ascending(s)

\* A batch is a SELECT of its own: what another process commits between two of
\* them shifts the rest.
Batch(c) ==
    /\ Exports(c) /\ (stage[c] = "served" => Serves(peer[c]))
    /\ LET batch == SubSeq(Sorted, Len(out[c]) + 1,
                           Min({Len(out[c]) + BATCH_SIZE, Len(Sorted)}))
       IN  \/ /\ Len(batch) = BATCH_SIZE
              /\ out' = [out EXCEPT ![c] = @ \o batch]
              /\ UNCHANGED <<openVars, stage, peer, left, start, excused>>
           \/ Len(batch) < BATCH_SIZE /\ Done(c)
    /\ UNCHANGED <<messages, socket, serverVars, overlapped>>

--------------------------------------------------------------------------

\* Steps of the opening, of any process.
Opens(p) ==
    /\ OpenStep(p)
    /\ UNCHANGED <<messages, socket, stage, serverVars, commandVars, obsVars>>

OpenFails(p) ==
    /\ Busy(p)
    /\ excused' = excused \cup ({p} \cap Client)
    /\ UNCHANGED <<messages, socket, stage, serverVars, commandVars, overlapped>>

\* init_db has failed.
GiveUp(p) ==
    /\ conn[p] = "error"
    /\ \/ p \in Client /\ Fails(p) /\ Close(p) /\ UNCHANGED <<streams, overlapped>>
       \/ p \in Server /\ Exits(p, "ended") /\ UNCHANGED commandVars
    /\ UNCHANGED <<messages, socket, port, excused>>

ServerStep(p) ==
    \/ Opens(p) \/ GiveUp(p) \/ BindTcp(p) \/ RemoveStale(p) \/ BindUds(p)
    \/ CleanUp(p)

ClientStep(c) ==
    \/ AskHealth(c) \/ Healthy(c) \/ Request(c) \/ Answer(c) \/ Cut(c)
    \/ Direct(c) \/ Opens(c) \/ GiveUp(c) \/ SyncEnds(c) \/ Read(c) \/ Batch(c)

Next ==
    \/ \E p \in Server :
          \/ StartServe(p) \/ ServerStep(p) \/ Signal(p) \/ Kill(p)
          \/ \E l \in Listener : CloseStream(p, l)
    \/ \E c \in Client : StartCommand(c) \/ StartSync(c) \/ ClientStep(c)
    \/ \E p \in Proc : Ingest(p) \/ OpenFails(p)

Spec == Init /\ [][Next]_vars

\* What has begun goes on; starts, signals, kills, locks and other people's
\* streams need not come.
Fairness ==
    /\ \A p \in Server : WF_vars(ServerStep(p))
    /\ \A c \in Client : WF_vars(ClientStep(c))

FairSpec == Spec /\ Fairness

--------------------------------------------------------------------------
(* Properties.                                                             *)

\* A daemon that was alone for all of its life is reached by its socket as
\* long as it serves, and a socket file that leads to nobody is the trace of a
\* kill (serve.rs: the file is removed before the bind and after the end).
SocketLeadsToDaemon ==
    /\ \A p \in Accepting \ overlapped : socket = p
    /\ socket # NoServer /\ ~Alive(socket) => stage[socket] = "killed"

\* A command that finds a migrated database answers, whatever sockets earlier
\* daemons have left behind: only a daemon that ends, a socket that is taken
\* away or a lock during the command can make it fail (daemon_client.rs:
\* "avoids committing to daemon mode when a stale socket file exists").
CommandsAnswer ==
    \A c \in Client : stage[c] = "failed" => c \in excused

\* However other processes commit between the batches of an export, what it
\* has written and what its offset has not come to hold all that was there
\* when it began; and unless something has come behind the newest message it
\* has written, it has written each message once and in the order of time
\* (export.rs: load_all_messages).
MissesNothing(c) ==
    start[c] \subseteq Range(out[c]) \cup Range(SubSeq(Sorted, Len(out[c]) + 1, Len(Sorted)))

NothingLate(c) ==
    \A m \in messages, i \in DOMAIN out[c] : m <= out[c][i] => m \in Range(out[c])

ExportMissesNothing ==
    \A c \in Client : Exports(c) =>
        MissesNothing(c) /\ (NothingLate(c) => Ascending(out[c]))

\* Every command ends, and a daemon that is signalled ends unless an event
\* stream holds each of its listeners (serve.rs: select! of the two handles).
EverythingEnds ==
    /\ \A c \in Client : stage[c] \in {"looking", "syncing"} ~> stage[c] \in {"done", "failed"}
    /\ \A p \in Server : stage[p] = "stopping" ~> (stage[p] \in Ended \/ streams[p] = Listener)
=============================================================================
