----------------------------- MODULE Migrations -----------------------------
(***************************************************************************)
(* Opening the database (crates/store/src/db.rs: init_db) and the pending  *)
(* migrations that every opening applies (crates/store/src/schema.rs), by  *)
(* any number of processes at once: the daemon, `claude-history sync` and  *)
(* every command that finds no daemon.                                     *)
(*                                                                         *)
(* A migration is asked for outside of the transaction that applies it.    *)
(* The transaction is one step: what other connections see of it is its    *)
(* commit, and a process that dies inside leaves nothing of it.            *)
(***************************************************************************)
EXTENDS Naturals, Sequences

CONSTANTS
    Proc,       \* the processes that open the database
    LAST,       \* the number of MIGRATIONS (11)
    DROPS       \* the one that drops tables and asks for a VACUUM (005)

ASSUME LastAssumption  == LAST \in Nat
ASSUME DropsAssumption == DROPS \in Nat

VARIABLES
    exists,     \* the database file is there
    applied,    \* schema_versions, in the order of its rows
    conn,       \* the connection of each process ...
    version,    \* ... the migration it has come to, while it opens ...
    vacuum      \* ... and needs_vacuum

openVars == <<exists, applied, conn, version, vacuum>>

Opening == {"checking", "applying", "vacuuming"}

OpenTypeOK ==
    /\ exists \in BOOLEAN
    /\ applied \in Seq(1 .. LAST)
    /\ conn \in [Proc -> {"closed", "open", "error"} \cup Opening]
    /\ version \in [Proc -> 1 .. LAST + 1]
    /\ vacuum \in [Proc -> BOOLEAN]

\* The database of any earlier release, or none.
OpenInit ==
    /\ exists \in BOOLEAN
    /\ \E n \in 0 .. LAST : /\ applied = [i \in 1 .. n |-> i]
                            /\ ~exists => n = 0
    /\ conn = [p \in Proc |-> "closed"]
    /\ version = [p \in Proc |-> 1]
    /\ vacuum = [p \in Proc |-> FALSE]

Applied(v) == \E i \in DOMAIN applied : applied[i] = v

--------------------------------------------------------------------------

\* The end of an opening, and of what it kept.
Leaves(p, how) ==
    /\ conn' = [conn EXCEPT ![p] = how]
    /\ version' = [version EXCEPT ![p] = 1]
    /\ vacuum' = [vacuum EXCEPT ![p] = FALSE]

\* The connection is made, which creates the file, and its pragmas are set.
Open(p) ==
    /\ conn[p] = "closed"
    /\ exists' = TRUE
    /\ conn' = [conn EXCEPT ![p] = "checking"]
    /\ UNCHANGED <<applied, version, vacuum>>

Missing(p) == {v \in version[p] .. LAST : ~Applied(v)}

\* SELECT COUNT(*) > 0 FROM schema_versions, version by version and in no
\* transaction, up to the first that is missing: versions never go away, so
\* that the time of the last question stands for the earlier ones.
Check(p) ==
    /\ conn[p] = "checking"
    /\ \/ \E v \in Missing(p) :
            /\ \A w \in Missing(p) : v <= w
            /\ conn' = [conn EXCEPT ![p] = "applying"]
            /\ version' = [version EXCEPT ![p] = v]
            /\ UNCHANGED vacuum
       \/ /\ Missing(p) = {} /\ vacuum[p]
          /\ conn' = [conn EXCEPT ![p] = "vacuuming"]
          /\ UNCHANGED <<version, vacuum>>
       \/ Missing(p) = {} /\ ~vacuum[p] /\ Leaves(p, "open")
    /\ UNCHANGED <<exists, applied>>

Applies(p) ==
    /\ applied' = Append(applied, version[p])
    /\ vacuum' = [vacuum EXCEPT ![p] = @ \/ version[p] = DROPS]
    /\ version' = [version EXCEPT ![p] = @ + 1]
    /\ conn' = [conn EXCEPT ![p] = "checking"]

\* A bug that would let a migration run over what it has already done:
\* CREATE .. IF NOT EXISTS throughout, and INSERT OR IGNORE of the version.
ApplyAgain(p) == conn[p] = "applying" /\ Applies(p) /\ UNCHANGED exists

\* The transaction waits for the write lock at its first statement.  When
\* another process has applied the migration meanwhile it fails, at a table
\* or a column that is there or at the key of schema_versions, and is rolled
\* back.
Apply(p) ==
    /\ conn[p] = "applying"
    /\ IF Applied(version[p]) THEN Leaves(p, "error") /\ UNCHANGED applied
                              ELSE Applies(p)
    /\ UNCHANGED exists

\* VACUUM of the dropped tables: a process that ends before it has left the
\* file as large as it was, and none asks for it again.
Vacuum(p) ==
    /\ conn[p] = "vacuuming" /\ Leaves(p, "open")
    /\ UNCHANGED <<exists, applied>>

\* A statement of the opening meets a lock for longer than the busy timeout.
Busy(p) ==
    /\ conn[p] \in Opening /\ Leaves(p, "error")
    /\ UNCHANGED <<exists, applied>>

\* The process ends, at any place.
Close(p) ==
    /\ conn[p] # "closed" /\ Leaves(p, "closed")
    /\ UNCHANGED <<exists, applied>>

OpenStep(p) == Check(p) \/ Apply(p) \/ Vacuum(p)

OpenNext == \E p \in Proc : Open(p) \/ OpenStep(p) \/ Busy(p) \/ Close(p)

OpenSpec == OpenInit /\ [][OpenNext]_openVars

--------------------------------------------------------------------------

\* However many processes open the database at once, each migration is
\* applied once and in order, and a connection that init_db has handed out
\* has all of them (schema.rs: "Each migration is applied at most once").
SchemaInOrder ==
    /\ \A i \in DOMAIN applied : applied[i] = i
    /\ \A p \in Proc : conn[p] \in {"open", "vacuuming"} => Len(applied) = LAST
=============================================================================
