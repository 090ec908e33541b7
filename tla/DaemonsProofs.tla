--------------------------- MODULE DaemonsProofs ---------------------------
(***************************************************************************)
(* Theorems about Daemons, for every set of daemons and commands, every    *)
(* number of migrations, and every pattern of starts, signals, locks and   *)
(* kills.                                                                  *)
(***************************************************************************)
EXTENDS Daemons, MigrationsProofs, Facts, FiniteSetTheorems

LEMMA StepOpens ==
  ASSUME Next
  PROVE  [OpenNext]_openVars
<1>1. Server \subseteq Proc /\ Client \subseteq Proc
  BY ProcAssumption
<1>2. ASSUME NEW p \in Server, StartServe(p)
      PROVE  [OpenNext]_openVars
  BY <1>1, <1>2 DEF StartServe, OpenNext
<1>3. ASSUME NEW p \in Server, ServerStep(p)
      PROVE  [OpenNext]_openVars
  <2>1. CASE Opens(p)
    BY <1>1, <2>1 DEF Opens, OpenNext
  <2>2. CASE GiveUp(p)
    <3>1. Close(p)
      BY <2>2 DEF GiveUp, Exits
    <3> QED  BY <1>1, <3>1 DEF OpenNext
  <2>3. CASE BindTcp(p)
    <3>1. Close(p) \/ UNCHANGED openVars
      BY <2>3, Zenon DEF BindTcp, Exits
    <3> QED  BY <1>1, <3>1 DEF OpenNext
  <2>4. CASE RemoveStale(p)
    BY <2>4 DEF RemoveStale
  <2>5. CASE BindUds(p)
    <3>1. Close(p) \/ UNCHANGED openVars
      BY <2>5, Zenon DEF BindUds, Exits
    <3> QED  BY <1>1, <3>1 DEF OpenNext
  <2>6. CASE CleanUp(p)
    <3>1. Close(p)
      BY <2>6 DEF CleanUp, CleansUp, Exits
    <3> QED  BY <1>1, <3>1 DEF OpenNext
  <2> QED  BY <1>3, <2>1, <2>2, <2>3, <2>4, <2>5, <2>6 DEF ServerStep
<1>4. ASSUME NEW p \in Server, Signal(p) \/ (\E l \in Listener : CloseStream(p, l))
      PROVE  [OpenNext]_openVars
  BY <1>4 DEF Signal, CloseStream
<1>5. ASSUME NEW p \in Server, Kill(p)
      PROVE  [OpenNext]_openVars
  BY <1>1, <1>5 DEF Kill, Exits, OpenNext
<1>6. ASSUME NEW c \in Client, StartCommand(c) \/ AskHealth(c) \/ Healthy(c) \/ Request(c) \/ Cut(c)
      PROVE  [OpenNext]_openVars
  BY <1>6 DEF StartCommand, AskHealth, Healthy, Request, Cut
<1>7. ASSUME NEW c \in Client, StartSync(c) \/ Direct(c)
      PROVE  [OpenNext]_openVars
  <2>1. Open(c) \/ UNCHANGED openVars
    BY <1>7 DEF StartSync, Direct
  <2> QED  BY <1>1, <2>1 DEF OpenNext
<1>8. ASSUME NEW c \in Client, SyncEnds(c) \/ Opens(c)
      PROVE  [OpenNext]_openVars
  BY <1>1, <1>8 DEF SyncEnds, Opens, OpenNext
<1>9. ASSUME NEW c \in Client, GiveUp(c)
      PROVE  [OpenNext]_openVars
  <2>1. Close(c)
    BY <1>9 DEF GiveUp, Exits
  <2> QED  BY <1>1, <2>1 DEF OpenNext
<1>10. ASSUME NEW c \in Client, Answer(c) \/ Read(c) \/ Batch(c)
       PROVE  [OpenNext]_openVars
  <2>1. Done(c) \/ UNCHANGED openVars
    BY <1>10, Zenon DEF Answer, Read, Batch
  <2>2. Close(c) \/ UNCHANGED openVars
    BY <2>1 DEF Done
  <2> QED  BY <1>1, <2>2 DEF OpenNext
<1>11. ASSUME NEW p \in Proc, Ingest(p) \/ OpenFails(p)
       PROVE  [OpenNext]_openVars
  BY <1>11 DEF Ingest, OpenFails, OpenNext
<1> QED
  BY <1>2, <1>3, <1>4, <1>5, <1>6, <1>7, <1>8, <1>9, <1>10, <1>11 DEF Next, ClientStep

LEMMA SchemaStep ==
  ASSUME SchemaInv, [Next]_vars
  PROVE  SchemaInv'
<1>1. CASE Next
  BY <1>1, StepOpens, StepSchema
<1>2. CASE UNCHANGED vars
  BY <1>2, StepSchema DEF vars
<1> QED  BY <1>1, <1>2

\* Whatever daemons and commands do around the database, they open it as
\* Migrations says, so that each migration is applied once and in order.
THEOREM SchemaSurvivesDaemons == Spec => []SchemaInOrder
<1>1. Init => SchemaInv
  BY InitSchema DEF Init
<1>2. SchemaInv /\ [Next]_vars => SchemaInv'
  BY SchemaStep
<1>3. SchemaInv => SchemaInOrder
  BY SchemaFollows
<1> QED  BY <1>1, <1>2, <1>3, PTL DEF Spec

--------------------------------------------------------------------------
(* A daemon and its socket.                                                *)

Stages == Ended \cup {"off", "opening", "bound", "clean", "serving", "stopping", "looking",
                      "health", "detected", "waiting", "served", "direct", "syncing"}

DaemonTypes ==
    /\ stage \in [Proc -> Stages]
    /\ socket \in Server \cup {NoServer}
    /\ overlapped \subseteq Server

\* Who has not overlapped is alone.
Alone ==
    \A p \in Server : Alive(p) /\ p \notin overlapped => \A q \in Server \ {p} : ~Alive(q)

\* The file is made by who then serves, and a regular end removes it.
SocketStage ==
    socket # NoServer => stage[socket] \in {"serving", "stopping", "killed"}

\* An opening that has not ended well is a start that has not gone on.
ServerConn ==
    \A p \in Server : conn[p] \in Opening \cup {"error"} => stage[p] = "opening"

Leads == \A p \in Accepting \ overlapped : socket = p

SocketInv ==
    /\ SchemaInv /\ DaemonTypes
    /\ Alone /\ SocketStage /\ ServerConn /\ Leads

\* A step that leaves the daemons where they are keeps the invariant.
LEMMA DaemonsStay ==
  ASSUME SocketInv, SchemaInv', stage' \in [Proc -> Stages], UNCHANGED <<socket, overlapped>>,
         \A p \in Server : stage'[p] = stage[p] /\ conn'[p] = conn[p]
  PROVE  SocketInv'
BY DEF SocketInv, DaemonTypes, Alone, SocketStage, ServerConn, Leads, Accepting, Alive, Ended

\* A step of one process's opening is nothing to the others.
LEMMA OpensAlone ==
  ASSUME SchemaInv, NEW p \in Proc,
         Open(p) \/ OpenStep(p) \/ Busy(p) \/ Close(p) \/ UNCHANGED openVars
  PROVE  \A q \in Proc \ {p} : conn'[q] = conn[q]
<1>1. conn \in [Proc -> {"closed", "open", "error"} \cup Opening]
  BY DEF SchemaInv, OpenTypeOK
<1>2. conn' = conn \/ \E how : conn' = [conn EXCEPT ![p] = how]
  BY DEF Open, OpenStep, Check, Apply, Applies, Vacuum, Busy, Close, Leaves, openVars
<1> QED  BY <1>1, <1>2

\* The other processes stay where they are.
StaysElsewhere(p) ==
    /\ stage' \in [Proc -> Stages]
    /\ \A q \in Proc \ {p} : stage'[q] = stage[q]

\* A command's step is one of its process, and of its connection.
LEMMA ClientAlone ==
  ASSUME DaemonTypes, NEW c \in Client, StartCommand(c) \/ StartSync(c) \/ ClientStep(c)
  PROVE  /\ UNCHANGED <<socket, overlapped>>
         /\ StaysElsewhere(c)
         /\ Open(c) \/ OpenStep(c) \/ Busy(c) \/ Close(c) \/ UNCHANGED openVars
<1>1. c \in Proc /\ c \notin Server
  BY ProcAssumption
<1> USE <1>1 DEF Goes, DaemonTypes, StaysElsewhere, Stages, Ended
<1>a. UNCHANGED stage => StaysElsewhere(c)
  BY DEF StaysElsewhere, DaemonTypes
<1>b. Done(c) => StaysElsewhere(c) /\ (Close(c) \/ UNCHANGED openVars)
  BY DEF Done
<1>c. Fails(c) => StaysElsewhere(c)
  BY DEF Fails
<1>d. ASSUME NEW where \in Stages, Connected(c, where) \/ Keeps(c, where)
      PROVE  StaysElsewhere(c)
  BY <1>d DEF Connected, Keeps
<1>2. CASE StartCommand(c)
  BY <1>2 DEF StartCommand, obsVars
<1>3. CASE StartSync(c)
  BY <1>3 DEF StartSync, obsVars
<1>4. CASE AskHealth(c)
  BY <1>4, <1>d DEF AskHealth, obsVars
<1>5. CASE Healthy(c)
  BY <1>5, <1>d DEF Healthy, obsVars
<1>6. CASE Request(c)
  BY <1>6, <1>c, <1>d DEF Request, obsVars
<1>7. CASE Cut(c)
  BY <1>7, <1>c, <1>d DEF Cut, obsVars
<1>8. CASE Direct(c)
  BY <1>8, <1>c DEF Direct, obsVars
<1>9. CASE Opens(c)
  BY <1>9, <1>a DEF Opens, obsVars
<1>10. CASE GiveUp(c)
  BY <1>10, <1>c DEF GiveUp, obsVars
<1>11. CASE SyncEnds(c)
  BY <1>11 DEF SyncEnds, obsVars
<1>12. CASE Answer(c)
  BY <1>12, <1>a, <1>b DEF Answer, obsVars
<1>13. CASE Read(c)
  BY <1>13, <1>b DEF Read, obsVars
<1>14. CASE Batch(c)
  BY <1>14, <1>a, <1>b DEF Batch, obsVars
<1> QED
  BY <1>2, <1>3, <1>4, <1>5, <1>6, <1>7, <1>8, <1>9, <1>10, <1>11, <1>12, <1>13, <1>14
     DEF ClientStep

LEMMA ClientKeepsSocket ==
  ASSUME SocketInv, SchemaInv', NEW c \in Client, StartCommand(c) \/ StartSync(c) \/ ClientStep(c)
  PROVE  SocketInv'
<1>1. c \in Proc /\ c \notin Server /\ Server \subseteq Proc
  BY ProcAssumption
<1>2. \A p \in Server : conn'[p] = conn[p]
  BY <1>1, ClientAlone, OpensAlone DEF SocketInv
<1>3. /\ stage' \in [Proc -> Stages]
      /\ \A p \in Server : stage'[p] = stage[p]
  <2>1. StaysElsewhere(c)
    BY ClientAlone DEF SocketInv
  <2> QED  BY <1>1, <2>1 DEF StaysElsewhere
<1>4. UNCHANGED <<socket, overlapped>>
  BY ClientAlone DEF SocketInv
<1> QED  BY <1>2, <1>3, <1>4, DaemonsStay

\* The process of a daemon ends, and may take the socket file with it.
LEMMA ExitKeepsSocket ==
  ASSUME SocketInv, SchemaInv', NEW p \in Server, NEW how \in {"ended", "killed"}, Exits(p, how),
         socket' = socket \/ socket' = NoServer,
         how = "ended" /\ socket = p => socket' = NoServer,
         Accepting \ {p} # {} /\ socket' # socket => Alive(p)
  PROVE  SocketInv'
<1>1. p \in Proc /\ Server \subseteq Proc /\ NoServer \notin Server
  BY ProcAssumption
<1>2. /\ stage'[p] = how /\ conn'[p] = "closed" /\ stage' \in [Proc -> Stages]
      /\ overlapped' = overlapped \ {p}
      /\ \A q \in Server \ {p} : stage'[q] = stage[q] /\ conn'[q] = conn[q]
  <2>1. StaysElsewhere(p) /\ stage'[p] = how
    BY <1>1 DEF Exits, Goes, StaysElsewhere, SocketInv, DaemonTypes, Stages, Ended
  <2>2. conn'[p] = "closed" /\ \A q \in Proc \ {p} : conn'[q] = conn[q]
    BY <1>1 DEF Exits, Close, Leaves, SocketInv, SchemaInv, OpenTypeOK
  <2> QED  BY <1>1, <2>1, <2>2 DEF Exits, StaysElsewhere
<1>3. DaemonTypes'
  BY <1>2 DEF SocketInv, DaemonTypes
<1>4. Alone'
  BY <1>2 DEF SocketInv, Alone, Alive, Ended
<1>5. SocketStage'
  BY <1>1, <1>2 DEF SocketInv, SocketStage, DaemonTypes
<1>6. ServerConn'
  BY <1>2 DEF SocketInv, ServerConn, Opening
<1>7. Leads'
  <2> SUFFICES ASSUME NEW q \in Server, stage'[q] = "serving", q \notin overlapped'
               PROVE  socket' = q
    BY DEF Leads, Accepting
  <2>1. q # p /\ stage[q] = "serving" /\ q \notin overlapped
    BY <1>2
  <2>2. socket = q /\ Alive(q)
    BY <2>1 DEF SocketInv, Leads, Accepting, Alive, Ended
  <2>3. ~Alive(p)
    BY <2>1, <2>2 DEF SocketInv, Alone
  <2> QED  BY <2>1, <2>2, <2>3 DEF Accepting
<1> QED  BY <1>3, <1>4, <1>5, <1>6, <1>7 DEF SocketInv

\* A daemon that is not yet at its socket gives up.
LEMMA StartEndsQuietly ==
  ASSUME SocketInv, SchemaInv', NEW p \in Server, stage[p] \in {"opening", "clean"},
         Exits(p, "ended"), UNCHANGED socket
  PROVE  SocketInv'
<1>1. socket # p
  BY ProcAssumption DEF SocketInv, SocketStage
<1> QED  BY <1>1, ExitKeepsSocket

\* The file of another daemon is taken away, by one that is not alone then.
LEMMA RemoveKeepsSocket ==
  ASSUME SocketInv, SchemaInv', NEW p \in Server, RemoveStale(p)
  PROVE  SocketInv'
<1>1. p \in Proc /\ Server \subseteq Proc /\ NoServer \notin Server
  BY ProcAssumption
<1>2. /\ stage[p] = "bound" /\ stage'[p] = "clean" /\ StaysElsewhere(p)
      /\ socket' = NoServer /\ UNCHANGED <<conn, overlapped>>
  BY <1>1 DEF RemoveStale, Goes, SocketInv, DaemonTypes, StaysElsewhere, Stages, Ended, openVars
<1>3. DaemonTypes'
  BY <1>2 DEF SocketInv, DaemonTypes, StaysElsewhere
<1>4. Alone'
  BY <1>1, <1>2 DEF SocketInv, Alone, Alive, Ended, StaysElsewhere
<1>5. SocketStage'
  BY <1>2 DEF SocketStage
<1>6. ServerConn'
  BY <1>1, <1>2 DEF SocketInv, ServerConn, StaysElsewhere
<1>7. Leads'
  <2> SUFFICES ASSUME NEW q \in Server, stage'[q] = "serving", q \notin overlapped'
               PROVE  FALSE
    BY DEF Leads, Accepting
  <2>1. q # p /\ stage[q] = "serving" /\ q \notin overlapped
    BY <1>1, <1>2 DEF StaysElsewhere
  <2>2. Alive(q) /\ Alive(p)
    BY <1>2, <2>1 DEF Alive, Ended
  <2> QED  BY <2>1, <2>2 DEF SocketInv, Alone
<1> QED  BY <1>3, <1>4, <1>5, <1>6, <1>7 DEF SocketInv

\* The file is a daemon's own from here on.
LEMMA BindKeepsSocket ==
  ASSUME SocketInv, SchemaInv', NEW p \in Server, BindUds(p)
  PROVE  SocketInv'
<1>1. p \in Proc /\ Server \subseteq Proc /\ NoServer \notin Server
  BY ProcAssumption
<1>2. CASE socket # NoServer
  BY <1>2, StartEndsQuietly DEF BindUds
<1>3. CASE socket = NoServer
  <2>1. /\ stage[p] = "clean" /\ stage'[p] = "serving" /\ StaysElsewhere(p)
        /\ socket' = p /\ UNCHANGED <<conn, overlapped>>
    BY <1>1, <1>3 DEF BindUds, Goes, SocketInv, DaemonTypes, StaysElsewhere, Stages, Ended, openVars
  <2>2. DaemonTypes'
    BY <2>1 DEF SocketInv, DaemonTypes, StaysElsewhere
  <2>3. Alone'
    BY <1>1, <2>1 DEF SocketInv, Alone, Alive, Ended, StaysElsewhere
  <2>4. SocketStage'
    BY <2>1 DEF SocketStage
  <2>5. ServerConn'
    BY <1>1, <2>1 DEF SocketInv, ServerConn, StaysElsewhere
  <2>6. Leads'
    <3> SUFFICES ASSUME NEW q \in Server \ {p}, stage'[q] = "serving", q \notin overlapped'
                 PROVE  FALSE
      BY <2>1 DEF Leads, Accepting
    <3>1. stage[q] = "serving" /\ q \notin overlapped
      BY <1>1, <2>1 DEF StaysElsewhere
    <3>2. Alive(q) /\ Alive(p)
      BY <2>1, <3>1 DEF Alive, Ended
    <3> QED  BY <3>1, <3>2 DEF SocketInv, Alone
  <2> QED  BY <2>2, <2>3, <2>4, <2>5, <2>6 DEF SocketInv
<1> QED  BY <1>2, <1>3

\* Who starts beside others is not alone, and neither are they from then on.
LEMMA StartKeepsSocket ==
  ASSUME SocketInv, SchemaInv', NEW p \in Server, StartServe(p)
  PROVE  SocketInv'
<1>1. p \in Proc /\ Server \subseteq Proc /\ NoServer \notin Server
  BY ProcAssumption
<1>2. stage[p] = "off" /\ socket' = socket
  BY DEF StartServe
<1>3. StaysElsewhere(p)
  BY <1>1 DEF StartServe, Goes, SocketInv, DaemonTypes, StaysElsewhere, Stages, Ended
<1>4. \A q \in Server \ {p} : conn'[q] = conn[q] /\ stage'[q] = stage[q]
  BY <1>1, <1>3, OpensAlone DEF StartServe, StaysElsewhere, SocketInv
<1>5. socket # p
  BY <1>1, <1>2 DEF SocketInv, SocketStage
<1>6. \/ /\ exists /\ stage'[p] = "opening"
         /\ overlapped' = IF {q \in Server \ {p} : Alive(q)} # {}
                          THEN overlapped \cup {q \in Server \ {p} : Alive(q)} \cup {p}
                          ELSE overlapped
      \/ /\ ~exists /\ stage'[p] = "ended" /\ UNCHANGED <<overlapped, conn>>
  BY <1>1 DEF StartServe, Goes, SocketInv, DaemonTypes, openVars
<1>7. DaemonTypes'
  BY <1>2, <1>3, <1>6 DEF SocketInv, DaemonTypes, StaysElsewhere
<1>8. Alone'
  BY <1>4, <1>6 DEF SocketInv, Alone, Alive, Ended
<1>9. SocketStage'
  BY <1>1, <1>2, <1>4, <1>5, <1>7 DEF SocketInv, SocketStage, DaemonTypes
<1>10. ServerConn'
  BY <1>1, <1>2, <1>4, <1>6 DEF SocketInv, ServerConn
<1>11. Leads'
  BY <1>2, <1>4, <1>6 DEF SocketInv, Leads, Accepting
<1> QED  BY <1>7, <1>8, <1>9, <1>10, <1>11 DEF SocketInv

\* A daemon that was alive stays so, and keeps its socket if it has one.
LEMMA GoesOnKeepsSocket ==
  ASSUME SocketInv, SchemaInv', NEW p \in Server,
         \/ stage[p] = "opening" /\ conn[p] = "open" /\ Goes(p, "bound")
         \/ stage[p] = "serving" /\ Goes(p, "stopping"),
         UNCHANGED <<socket, conn, overlapped>>
  PROVE  SocketInv'
<1>1. p \in Proc /\ Server \subseteq Proc /\ NoServer \notin Server
  BY ProcAssumption
<1>2. /\ StaysElsewhere(p)
      /\ \/ stage[p] = "opening" /\ conn[p] = "open" /\ stage'[p] = "bound"
         \/ stage[p] = "serving" /\ stage'[p] = "stopping"
  BY <1>1 DEF Goes, SocketInv, DaemonTypes, StaysElsewhere, Stages, Ended
<1>3. DaemonTypes'
  BY <1>2 DEF SocketInv, DaemonTypes, StaysElsewhere
<1>4. Alone'
  BY <1>1, <1>2 DEF SocketInv, Alone, Alive, Ended, StaysElsewhere
<1>5. SocketStage'
  BY <1>1, <1>2 DEF SocketInv, SocketStage, DaemonTypes, StaysElsewhere
<1>6. ServerConn'
  BY <1>1, <1>2 DEF SocketInv, ServerConn, StaysElsewhere, Opening
<1>7. Leads'
  BY <1>1, <1>2 DEF SocketInv, Leads, Accepting, StaysElsewhere
<1> QED  BY <1>3, <1>4, <1>5, <1>6, <1>7 DEF SocketInv

\* An opening that goes on, or fails, was one.
LEMMA OpeningKeepsSocket ==
  ASSUME SocketInv, SchemaInv', NEW p \in Proc, OpenStep(p) \/ Busy(p),
         UNCHANGED <<socket, stage, overlapped>>
  PROVE  SocketInv'
<1>1. Server \subseteq Proc
  BY ProcAssumption
<1>2. \A q \in Server \ {p} : conn'[q] = conn[q]
  BY <1>1, OpensAlone DEF SocketInv
<1>3. conn[p] \in Opening
  BY DEF OpenStep, Check, Apply, Vacuum, Busy, Opening
<1>4. ServerConn'
  BY <1>2, <1>3 DEF SocketInv, ServerConn
<1>5. DaemonTypes' /\ Alone' /\ SocketStage' /\ Leads'
  BY DEF SocketInv, DaemonTypes, Alone, SocketStage, Leads, Accepting, Alive
<1> QED  BY <1>4, <1>5 DEF SocketInv

LEMMA ServerKeepsSocket ==
  ASSUME SocketInv, SchemaInv', NEW p \in Server, ServerStep(p)
  PROVE  SocketInv'
<1>1. p \in Proc /\ p \notin Client
  BY ProcAssumption
<1>2. CASE Opens(p)
  BY <1>1, <1>2, OpeningKeepsSocket DEF Opens, obsVars
<1>3. CASE GiveUp(p)
  <2>1. stage[p] = "opening"
    BY <1>3 DEF GiveUp, SocketInv, ServerConn
  <2>2. Exits(p, "ended") /\ UNCHANGED socket
    BY <1>1, <1>3 DEF GiveUp
  <2> QED  BY <2>1, <2>2, StartEndsQuietly
<1>4. CASE BindTcp(p)
  <2>1. IsOpen(p) /\ UNCHANGED socket
    BY <1>4 DEF BindTcp
  <2>2. CASE Exits(p, "ended")
    BY <2>1, <2>2, StartEndsQuietly DEF IsOpen
  <2>3. CASE Goes(p, "bound") /\ UNCHANGED <<openVars, streams, overlapped>>
    BY <2>1, <2>3, GoesOnKeepsSocket DEF IsOpen, openVars
  <2> QED  BY <1>4, <2>2, <2>3, Zenon DEF BindTcp
<1>5. CASE RemoveStale(p)
  BY <1>5, RemoveKeepsSocket
<1>6. CASE BindUds(p)
  BY <1>6, BindKeepsSocket
<1>7. CASE CleanUp(p)
  <2>1. stage[p] = "stopping" /\ Exits(p, "ended") /\ socket' = NoServer
    BY <1>7 DEF CleanUp, CleansUp
  <2>2. Alive(p)
    BY <2>1 DEF Alive, Ended
  <2> QED  BY <2>1, <2>2, ExitKeepsSocket
<1> QED  BY <1>2, <1>3, <1>4, <1>5, <1>6, <1>7 DEF ServerStep

LEMMA StepSocket ==
  ASSUME SocketInv, SchemaInv', [Next]_vars
  PROVE  SocketInv'
<1>1. CASE UNCHANGED vars
  BY <1>1 DEF vars, openVars, obsVars, SocketInv, DaemonTypes, Alone, SocketStage, ServerConn,
              Leads, Accepting, Alive
<1>2. ASSUME NEW p \in Server, StartServe(p) \/ ServerStep(p)
      PROVE  SocketInv'
  BY <1>2, StartKeepsSocket, ServerKeepsSocket
<1>3. ASSUME NEW p \in Server, Signal(p)
      PROVE  SocketInv'
  BY <1>3, GoesOnKeepsSocket DEF Signal, openVars
<1>4. ASSUME NEW p \in Server, Kill(p)
      PROVE  SocketInv'
  BY <1>4, ExitKeepsSocket DEF Kill
<1>5. ASSUME NEW p \in Server, NEW l \in Listener, CloseStream(p, l)
      PROVE  SocketInv'
  BY <1>5 DEF CloseStream, openVars, obsVars, SocketInv, DaemonTypes, Alone, SocketStage,
              ServerConn, Leads, Accepting, Alive
<1>6. ASSUME NEW c \in Client, StartCommand(c) \/ StartSync(c) \/ ClientStep(c)
      PROVE  SocketInv'
  BY <1>6, ClientKeepsSocket
<1>7. ASSUME NEW p \in Proc, Ingest(p)
      PROVE  SocketInv'
  BY <1>7 DEF Ingest, openVars, obsVars, SocketInv, DaemonTypes, Alone, SocketStage,
              ServerConn, Leads, Accepting, Alive
<1>8. ASSUME NEW p \in Proc, OpenFails(p)
      PROVE  SocketInv'
  BY <1>8, OpeningKeepsSocket DEF OpenFails
<1> QED  BY <1>1, <1>2, <1>3, <1>4, <1>5, <1>6, <1>7, <1>8 DEF Next

LEMMA InitSocket ==
  ASSUME Init
  PROVE  SocketInv
<1>1. SchemaInv
  BY InitSchema DEF Init
<1>2. Server \subseteq Proc /\ NoServer \notin Proc
  BY ProcAssumption
<1>3. DaemonTypes /\ \A p \in Server : stage[p] = "off" /\ conn[p] = "closed"
  BY <1>2 DEF Init, OpenInit, DaemonTypes, Stages
<1>4. Alone /\ ServerConn /\ Leads
  BY <1>3 DEF Alone, Alive, ServerConn, Opening, Leads, Accepting
<1>5. SocketStage
  BY DEF Init, SocketStage
<1> QED  BY <1>1, <1>3, <1>4, <1>5 DEF SocketInv

\* A daemon that is alone is reached by its socket, and a file that leads to
\* nobody is the trace of a kill, however many daemons come and go.
THEOREM SocketAlwaysLeads == Spec => []SocketLeadsToDaemon
<1>1. Init => SocketInv
  BY InitSocket
<1>2. SocketInv /\ [Next]_vars => SocketInv'
  <2>1. ASSUME SocketInv, [Next]_vars
        PROVE  SchemaInv'
    BY <2>1, SchemaStep DEF SocketInv
  <2> QED  BY <2>1, StepSocket
<1>3. SocketInv => SocketLeadsToDaemon
  BY DEF SocketInv, SocketStage, Leads, SocketLeadsToDaemon, Alive, Ended
<1> QED  BY <1>1, <1>2, <1>3, PTL DEF Spec

--------------------------------------------------------------------------
(* A command and its answer.                                              *)

Online(c) == stage[c] \in {"health", "detected", "waiting", "served"}

\* What a command has found is there, unless it is excused: a socket that
\* leads to a daemon, a peer that serves, a migrated database.
CommandOK(c) ==
    /\ c \notin excused =>
         /\ Online(c) => socket \in Accepting
         /\ Online(c) /\ stage[c] # "detected" => peer[c] \in Accepting
         /\ Alive(c) => exists /\ Len(applied) = LAST
         /\ conn[c] \notin {"applying", "error"}
         /\ stage[c] # "failed"
    /\ conn[c] # "closed" => stage[c] \in {"opening", "syncing"}

CommandInv ==
    /\ SocketInv
    /\ peer \in [Client -> Server \cup {NoServer}]
    /\ \A c \in Client : CommandOK(c)

LEMMA MigratedStays ==
  ASSUME SocketInv, [Next]_vars
  PROVE  /\ exists => exists'
         /\ Len(applied) = LAST => Len(applied') = LAST
<1>1. CASE Next
  BY <1>1, StepOpens, MigratedForGood DEF SocketInv
<1>2. CASE UNCHANGED vars
  BY <1>2 DEF vars, openVars
<1> QED  BY <1>1, <1>2

\* A command that a step leaves alone is excused by it, or keeps what it has
\* found.
LEMMA CommandStays ==
  ASSUME CommandInv, [Next]_vars, NEW c \in Client,
         stage'[c] = stage[c], conn'[c] = conn[c], peer'[c] = peer[c],
         c \in excused => c \in excused',
         \/ Alive(c) => c \in excused'
         \/ Accepting \subseteq Accepting' /\ socket' \in (IF socket = NoServer THEN Server \cup {NoServer} ELSE {socket})
  PROVE  CommandOK(c)'
<1>1. /\ exists => exists'
      /\ Len(applied) = LAST => Len(applied') = LAST
  BY MigratedStays DEF CommandInv
<1>2. NoServer \notin Accepting
  BY ProcAssumption DEF Accepting
<1>3. CommandOK(c)
  BY DEF CommandInv
<1>4. CASE Alive(c) => c \in excused'
  BY <1>1, <1>3, <1>4 DEF CommandOK, Online, Alive, Ended
<1>5. CASE /\ Accepting \subseteq Accepting'
           /\ socket' \in (IF socket = NoServer THEN Server \cup {NoServer} ELSE {socket})
  BY <1>1, <1>2, <1>3, <1>5 DEF CommandOK, Online, Alive
<1> QED  BY <1>4, <1>5

\* A daemon's step.
LEMMA ServerKeepsCommands ==
  ASSUME CommandInv, Next, SocketInv', NEW p \in Server,
         \/ StartServe(p) \/ ServerStep(p) \/ Signal(p) \/ Kill(p) \/ OpenFails(p)
         \/ Ingest(p) \/ \E l \in Listener : CloseStream(p, l)
  PROVE  CommandInv'
<1>1. p \in Proc /\ p \notin Client /\ Client \subseteq Proc /\ Server \subseteq Proc
  BY ProcAssumption
<1>2. UNCHANGED peer
  BY <1>1 DEF StartServe, ServerStep, Signal, Kill, OpenFails, Ingest, CloseStream, Opens, GiveUp,
        BindTcp, RemoveStale, BindUds, CleanUp, CleansUp, commandVars
<1>3. StaysElsewhere(p)
  BY <1>1 DEF StartServe, ServerStep, Signal, Kill, OpenFails, Ingest, CloseStream, Opens, GiveUp,
        BindTcp, RemoveStale, BindUds, CleanUp, CleansUp, Exits, Goes, StaysElsewhere, CommandInv,
        SocketInv, DaemonTypes, Stages, Ended
<1>4. Open(p) \/ OpenStep(p) \/ Busy(p) \/ Close(p) \/ UNCHANGED openVars
  BY <1>1 DEF StartServe, ServerStep, Signal, Kill, OpenFails, Ingest, CloseStream, Opens, GiveUp,
        BindTcp, RemoveStale, BindUds, CleanUp, CleansUp, Exits
<1>5. \A c \in Client : stage'[c] = stage[c] /\ conn'[c] = conn[c]
  BY <1>1, <1>3, <1>4, OpensAlone DEF StaysElsewhere, CommandInv, SocketInv
<1>6. excused \subseteq excused'
  BY <1>1 DEF StartServe, ServerStep, Signal, Kill, OpenFails, Ingest, CloseStream, Opens, GiveUp,
        BindTcp, RemoveStale, BindUds, CleanUp, CleansUp, Disturb, obsVars
<1>7. \/ Disturb
      \/ /\ Accepting \subseteq Accepting'
         /\ socket' \in (IF socket = NoServer THEN Server \cup {NoServer} ELSE {socket})
  <2> SUFFICES ASSUME ~Disturb
               PROVE  /\ Accepting \subseteq Accepting'
                      /\ socket' \in (IF socket = NoServer THEN Server \cup {NoServer} ELSE {socket})
    OBVIOUS
  <2>1. stage[p] # "serving" \/ stage' = stage
    BY <1>1 DEF StartServe, ServerStep, Signal, Kill, OpenFails, Ingest, CloseStream, Opens, GiveUp,
        BindTcp, IsOpen, RemoveStale, BindUds, CleanUp, CleansUp, CommandInv, SocketInv, ServerConn
  <2>2. Accepting \subseteq Accepting'
    BY <1>1, <1>3, <2>1 DEF Accepting, StaysElsewhere
  <2>3. socket' = socket \/ (socket = NoServer /\ socket' \in Server)
    BY <1>1 DEF StartServe, ServerStep, Signal, Kill, OpenFails, Ingest, CloseStream, Opens, GiveUp,
        BindTcp, RemoveStale, BindUds, CleanUp, CleansUp, obsVars
  <2> QED  BY <2>2, <2>3
<1>8. Disturb => \A c \in Client : Alive(c) => c \in excused'
  BY DEF Disturb
<1>9. ASSUME NEW c \in Client
      PROVE  CommandOK(c)'
  BY <1>2, <1>5, <1>6, <1>7, <1>8, CommandStays
<1> QED  BY <1>2, <1>9 DEF CommandInv

\* A command's step as the other commands see it.
LEMMA OthersKeepFound ==
  ASSUME CommandInv, Next, NEW c \in Client,
         StartCommand(c) \/ StartSync(c) \/ ClientStep(c) \/ OpenFails(c) \/ Ingest(c),
         NEW d \in Client \ {c}
  PROVE  CommandOK(d)'
<1>1. c \in Proc /\ c \notin Server /\ d \in Proc /\ Server \subseteq Proc
  BY ProcAssumption
<1>2. /\ UNCHANGED <<socket, overlapped>> /\ StaysElsewhere(c)
      /\ Open(c) \/ OpenStep(c) \/ Busy(c) \/ Close(c) \/ UNCHANGED openVars
  <2>1. CASE StartCommand(c) \/ StartSync(c) \/ ClientStep(c)
    BY <2>1, ClientAlone DEF CommandInv, SocketInv
  <2>2. CASE OpenFails(c) \/ Ingest(c)
    BY <2>2 DEF OpenFails, Ingest, obsVars, StaysElsewhere, CommandInv, SocketInv, DaemonTypes
  <2> QED  BY <2>1, <2>2
<1>3. stage'[d] = stage[d] /\ conn'[d] = conn[d]
  BY <1>1, <1>2, OpensAlone DEF StaysElsewhere, CommandInv, SocketInv
<1>4. peer'[d] = peer[d]
  <2>1. peer' = peer \/ \E q : peer' = [peer EXCEPT ![c] = q]
    BY <1>1 DEF StartCommand, StartSync, ClientStep, OpenFails, Ingest, AskHealth, Healthy, Request,
          Answer, Cut, Direct, Opens, GiveUp, SyncEnds, Read, Batch, Connected, Keeps, Fails, Done,
          Forgets, commandVars
  <2> QED  BY <2>1 DEF CommandInv
<1>5. d \in excused => d \in excused'
  BY <1>1 DEF StartCommand, StartSync, ClientStep, OpenFails, Ingest, AskHealth, Healthy, Request,
        Answer, Cut, Direct, Opens, GiveUp, SyncEnds, Read, Batch, Begins, Done, obsVars
<1>6. Accepting' = Accepting
  BY <1>1, <1>2 DEF Accepting, StaysElsewhere
<1>7. socket' \in (IF socket = NoServer THEN Server \cup {NoServer} ELSE {socket})
  BY <1>2
<1> QED  BY <1>3, <1>4, <1>5, <1>6, <1>7, CommandStays

\* A command's own step.
LEMMA OwnKeepsFound ==
  ASSUME CommandInv, Next, NEW c \in Client,
         StartCommand(c) \/ StartSync(c) \/ ClientStep(c) \/ OpenFails(c) \/ Ingest(c)
  PROVE  CommandOK(c)' /\ peer' \in [Client -> Server \cup {NoServer}]
<1>1. c \in Proc /\ c \notin Server /\ Server \subseteq Proc /\ NoServer \notin Server
  BY ProcAssumption
<1>2. /\ stage \in [Proc -> Stages] /\ peer \in [Client -> Server \cup {NoServer}]
      /\ conn \in [Proc -> {"closed", "open", "error"} \cup Opening]
      /\ SocketInv /\ SchemaInv /\ CommandOK(c)
  BY DEF CommandInv, SocketInv, DaemonTypes, SchemaInv, OpenTypeOK
<1>3. /\ exists => exists'
      /\ Len(applied) = LAST => Len(applied') = LAST
  BY MigratedStays DEF CommandInv
<1>4. ASSUME Len(applied) = LAST
      PROVE  Missing(c) = {}
  <2>1. version[c] \in 1 .. LAST + 1
    BY <1>1, <1>2 DEF SchemaInv, OpenTypeOK
  <2> QED  BY <1>2, <1>4, <2>1, AppliedUpTo, LastAssumption DEF Missing
<1>5. ASSUME Done(c), stage[c] \in {"waiting", "served"} \/ conn[c] = "open", UNCHANGED socket
      PROVE  CommandOK(c)' /\ peer' \in [Client -> Server \cup {NoServer}]
  <2>1. stage'[c] = "done" /\ peer' \in [Client -> Server \cup {NoServer}]
    BY <1>1, <1>2, <1>5 DEF Done, Goes, Forgets
  <2>2. conn'[c] = "closed"
    BY <1>1, <1>2, <1>5 DEF Done, Close, Leaves, openVars, CommandOK
  <2> QED  BY <2>1, <2>2 DEF CommandOK, Online, Alive, Ended
<1>6. ASSUME Fails(c), c \in excused', conn'[c] = "closed"
      PROVE  CommandOK(c)' /\ peer' \in [Client -> Server \cup {NoServer}]
  BY <1>1, <1>2, <1>6 DEF Fails, Forgets, Goes, CommandOK, Stages, Ended
<1>7. ASSUME Online(c) \/ stage[c] \in {"off", "looking", "direct"}
      PROVE  conn[c] = "closed"
  BY <1>2, <1>7 DEF CommandOK, Online
<1>8. CASE StartCommand(c)
  <2>1. stage'[c] = "looking" /\ conn'[c] = "closed"
    BY <1>1, <1>2, <1>7, <1>8 DEF StartCommand, Goes, openVars
  <2>2. c \notin excused' => exists' /\ Len(applied') = LAST
    BY <1>3, <1>8 DEF StartCommand, Begins
  <2> QED  BY <1>2, <1>8, <2>1, <2>2 DEF StartCommand, CommandOK, Online
<1>9. CASE StartSync(c)
  <2>1. stage'[c] = "syncing" /\ conn'[c] = "checking"
    BY <1>1, <1>2, <1>9 DEF StartSync, Goes, Open
  <2>2. c \notin excused' => exists' /\ Len(applied') = LAST
    BY <1>3, <1>9 DEF StartSync, Begins
  <2> QED  BY <1>2, <1>9, <2>1, <2>2 DEF StartSync, CommandOK, Online, commandVars
<1>10. CASE AskHealth(c)
  <2>1. conn'[c] = "closed" /\ excused' = excused /\ socket' = socket /\ Alive(c)
    BY <1>7, <1>10 DEF AskHealth, openVars, obsVars, Alive, Ended
  <2>2. CASE Connected(c, "health")
    <3>1. /\ stage'[c] = "health" /\ StaysElsewhere(c) /\ peer'[c] = socket /\ socket \in Accepting
          /\ peer' \in [Client -> Server \cup {NoServer}]
      BY <1>1, <1>2, <2>2 DEF Connected, Goes, StaysElsewhere, Stages, Accepting
    <3>2. Accepting' = Accepting
      BY <1>1, <3>1 DEF Accepting, StaysElsewhere
    <3> QED  BY <1>2, <1>3, <2>1, <3>1, <3>2 DEF CommandOK
  <2>3. CASE Keeps(c, "direct")
    BY <1>1, <1>2, <1>3, <2>1, <2>3 DEF Keeps, Goes, CommandOK, Online
  <2> QED  BY <1>10, <2>2, <2>3 DEF AskHealth
<1>11. CASE Healthy(c)
  <2>1. /\ conn'[c] = "closed" /\ excused' = excused /\ socket' = socket /\ Alive(c) /\ Online(c)
        /\ stage'[c] = "detected" /\ StaysElsewhere(c)
        /\ peer' \in [Client -> Server \cup {NoServer}]
    BY <1>1, <1>2, <1>7, <1>11 DEF Healthy, Keeps, Goes, openVars, obsVars, Alive, Ended, Online,
                                   StaysElsewhere, Stages
  <2>2. Accepting' = Accepting
    BY <1>1, <2>1 DEF Accepting, StaysElsewhere
  <2> QED  BY <1>2, <1>3, <2>1, <2>2 DEF CommandOK
<1>12. CASE Request(c)
  <2>1. /\ conn'[c] = "closed" /\ excused' = excused /\ socket' = socket /\ Alive(c) /\ Online(c)
    BY <1>7, <1>12 DEF Request, openVars, obsVars, Alive, Ended, Online
  <2>2. CASE Connected(c, "waiting")
    <3>1. /\ stage'[c] = "waiting" /\ StaysElsewhere(c) /\ peer'[c] = socket /\ socket \in Accepting
          /\ peer' \in [Client -> Server \cup {NoServer}]
      BY <1>1, <1>2, <2>2 DEF Connected, Goes, StaysElsewhere, Stages, Accepting
    <3>2. Accepting' = Accepting
      BY <1>1, <3>1 DEF Accepting, StaysElsewhere
    <3> QED  BY <1>2, <1>3, <2>1, <3>1, <3>2 DEF CommandOK
  <2>3. CASE socket \notin Accepting /\ Fails(c)
    BY <1>2, <1>6, <2>1, <2>3 DEF CommandOK
  <2> QED  BY <1>12, <2>2, <2>3 DEF Request
<1>13. CASE Answer(c)
  <2>1. stage[c] = "waiting" /\ socket' = socket /\ Alive(c) /\ Online(c)
    BY <1>13 DEF Answer, Alive, Ended, Online
  <2>2. CASE Done(c)
    BY <1>5, <2>1, <2>2
  <2>3. CASE /\ Goes(c, "served") \/ Goes(c, "detected")
             /\ UNCHANGED <<openVars, excused>>
             /\ stage'[c] # "detected" => peer' = peer
             /\ peer' \in [Client -> Server \cup {NoServer}]
    <3>1. conn'[c] = "closed" /\ stage'[c] \in {"served", "detected"} /\ StaysElsewhere(c)
      BY <1>1, <1>2, <1>7, <2>1, <2>3 DEF Goes, openVars, StaysElsewhere, Stages, Ended
    <3>2. Accepting' = Accepting
      BY <1>1, <3>1 DEF Accepting, StaysElsewhere
    <3> QED  BY <1>2, <1>3, <2>1, <2>3, <3>1, <3>2 DEF CommandOK
  <2> QED  BY <1>1, <1>2, <1>13, <2>2, <2>3 DEF Answer, Goes, commandVars
<1>14. CASE Cut(c)
  <2>1. /\ conn'[c] = "closed" /\ excused' = excused /\ socket' = socket /\ Alive(c) /\ Online(c)
    BY <1>7, <1>14 DEF Cut, openVars, obsVars, Alive, Ended, Online
  <2>2. CASE Keeps(c, "direct")
    BY <1>1, <1>2, <1>3, <2>1, <2>2 DEF Keeps, Goes, CommandOK, Online
  <2>3. CASE Fails(c)
    <3>1. peer[c] \notin Accepting /\ stage[c] \in {"waiting", "served"}
      BY <1>1, <1>2, <1>14, <2>3 DEF Cut, Keeps, Fails, Goes, Serves, Accepting
    <3> QED  BY <1>2, <1>6, <2>1, <2>3, <3>1 DEF CommandOK
  <2> QED  BY <1>14, <2>2, <2>3 DEF Cut
<1>15. CASE Direct(c)
  <2>1. excused' = excused /\ Alive(c) /\ conn[c] = "closed"
    BY <1>7, <1>15 DEF Direct, obsVars, Alive, Ended
  <2>2. CASE Goes(c, "opening") /\ Open(c) /\ UNCHANGED commandVars
    BY <1>1, <1>2, <1>3, <2>1, <2>2 DEF Goes, Open, commandVars, CommandOK, Online
  <2>3. CASE ~exists /\ Fails(c) /\ UNCHANGED openVars
    BY <1>2, <1>6, <2>1, <2>3 DEF CommandOK, openVars
  <2> QED  BY <1>15, <2>2, <2>3 DEF Direct
<1>16. CASE Opens(c)
  <2>1. /\ excused' = excused /\ stage' = stage /\ peer' = peer /\ conn[c] \in Opening
        /\ stage[c] \in {"opening", "syncing"}
    BY <1>2, <1>16 DEF Opens, OpenStep, Check, Apply, Vacuum, Opening, obsVars, commandVars, CommandOK
  <2>2. Alive(c) /\ ~Online(c)
    BY <2>1 DEF Alive, Ended, Online
  <2>3. ASSUME c \notin excused
        PROVE  conn'[c] \notin {"applying", "error"}
    <3>1. Len(applied) = LAST /\ conn[c] # "applying"
      BY <1>2, <2>2, <2>3 DEF CommandOK
    <3>2. Missing(c) = {}
      BY <1>4, <3>1
    <3> QED  BY <1>1, <1>2, <1>16, <3>1, <3>2 DEF Opens, OpenStep, Check, Apply, Vacuum, Leaves
  <2> QED  BY <1>2, <1>3, <2>1, <2>2, <2>3 DEF CommandOK, Online
<1>17. CASE GiveUp(c)
  <2>1. Fails(c) /\ conn'[c] = "closed" /\ conn[c] = "error" /\ excused' = excused
    BY <1>1, <1>2, <1>17 DEF GiveUp, Close, Leaves
  <2> QED  BY <1>2, <1>6, <2>1 DEF CommandOK
<1>18. CASE SyncEnds(c)
  BY <1>1, <1>2, <1>18 DEF SyncEnds, Goes, Close, Leaves, commandVars, CommandOK, Online, Alive, Ended
<1>19. CASE Read(c)
  BY <1>5, <1>19 DEF Read, IsOpen
<1>20. CASE Batch(c)
  <2>1. UNCHANGED socket /\ (stage[c] = "served" \/ conn[c] = "open")
    BY <1>20 DEF Batch, Exports, IsOpen
  <2>2. CASE Done(c)
    BY <1>5, <2>1, <2>2
  <2>3. CASE UNCHANGED <<openVars, stage, peer, left, start, excused>>
    BY <1>2, <2>1, <2>3 DEF openVars, CommandOK, Online, Alive, Accepting
  <2> QED  BY <1>20, <2>2, <2>3, Zenon DEF Batch
<1>21. CASE OpenFails(c)
  <2>1. /\ c \in excused' /\ stage' = stage /\ peer' = peer /\ conn[c] \in Opening
    BY <1>21 DEF OpenFails, Busy, commandVars
  <2> QED  BY <1>2, <2>1 DEF CommandOK, Opening
<1>22. CASE Ingest(c)
  BY <1>2, <1>22 DEF Ingest, openVars, commandVars, obsVars, CommandOK, Online, Alive, Accepting
<1> QED
  BY <1>8, <1>9, <1>10, <1>11, <1>12, <1>13, <1>14, <1>15, <1>16, <1>17, <1>18, <1>19, <1>20,
     <1>21, <1>22 DEF ClientStep

LEMMA StepCommand ==
  ASSUME CommandInv, SocketInv', [Next]_vars
  PROVE  CommandInv'
<1>1. CASE UNCHANGED vars
  BY <1>1 DEF vars, openVars, serverVars, commandVars, obsVars, CommandInv, CommandOK, Online,
              Alive, Accepting
<1>2. ASSUME Next, NEW c \in Client,
             StartCommand(c) \/ StartSync(c) \/ ClientStep(c) \/ OpenFails(c) \/ Ingest(c)
      PROVE  CommandInv'
  <2>1. \A d \in Client \ {c} : CommandOK(d)'
    BY <1>2, OthersKeepFound
  <2>2. CommandOK(c)' /\ peer' \in [Client -> Server \cup {NoServer}]
    BY <1>2, OwnKeepsFound
  <2> QED  BY <2>1, <2>2 DEF CommandInv
<1>3. ASSUME Next, NEW p \in Server,
             \/ StartServe(p) \/ ServerStep(p) \/ Signal(p) \/ Kill(p) \/ OpenFails(p)
             \/ Ingest(p) \/ \E l \in Listener : CloseStream(p, l)
      PROVE  CommandInv'
  BY <1>3, ServerKeepsCommands
<1> QED  BY <1>1, <1>2, <1>3, ProcAssumption DEF Next

LEMMA InitCommand ==
  ASSUME Init
  PROVE  CommandInv
<1>1. Client \subseteq Proc
  BY ProcAssumption
<1>2. peer \in [Client -> Server \cup {NoServer}]
  BY DEF Init
<1>3. ASSUME NEW c \in Client
      PROVE  CommandOK(c)
  BY <1>1 DEF Init, OpenInit, CommandOK, Online, Alive
<1> QED  BY <1>2, <1>3, InitSocket DEF CommandInv

\* Whatever daemons and other commands do, a command that fails was excused:
\* a daemon ended or the socket changed while it ran, it met a lock, or there
\* was no migrated database when it began.
THEOREM CommandsAlwaysAnswer == Spec => []CommandsAnswer
<1>1. Init => CommandInv
  BY InitCommand
<1>2. CommandInv /\ [Next]_vars => CommandInv'
  <2>1. ASSUME CommandInv, [Next]_vars
        PROVE  SocketInv'
    <3>1. SocketInv
      BY <2>1 DEF CommandInv
    <3>2. SchemaInv'
      BY <2>1, <3>1, SchemaStep DEF SocketInv
    <3> QED  BY <2>1, <3>1, <3>2, StepSocket
  <2> QED  BY <2>1, StepCommand
<1>3. CommandInv => CommandsAnswer
  BY DEF CommandInv, CommandOK, CommandsAnswer
<1> QED  BY <1>1, <1>2, <1>3, PTL DEF Spec

--------------------------------------------------------------------------
(* What an export reads.                                                  *)

\* A finite set of numbers has an ascending enumeration.
Enumerates(s, S) == s \in [1 .. Cardinality(S) -> S] /\ Ascending(s)

LEMMA EnumerationExists ==
  ASSUME NEW S \in SUBSET Nat, IsFiniteSet(S)
  PROVE  \E s : Enumerates(s, S)
<1> DEFINE T == {n \in Nat : \A R \in SUBSET Nat :
                   IsFiniteSet(R) /\ Cardinality(R) = n => \E s : Enumerates(s, R)}
<1>1. 0 \in T
  <2> SUFFICES ASSUME NEW R \in SUBSET Nat, IsFiniteSet(R), Cardinality(R) = 0
               PROVE  \E s : Enumerates(s, R)
    OBVIOUS
  <2>1. R = {}
    BY FS_EmptySet
  <2>2. Enumerates(<<>>, R)
    BY <2>1, FS_EmptySet DEF Enumerates, Ascending
  <2> QED  BY <2>2
<1>2. ASSUME NEW n \in Nat, n \in T
      PROVE  n + 1 \in T
  <2> SUFFICES ASSUME NEW R \in SUBSET Nat, IsFiniteSet(R), Cardinality(R) = n + 1
               PROVE  \E s : Enumerates(s, R)
    OBVIOUS
  <2>1. R # {}
    BY FS_EmptySet
  <2>2. PICK m \in R : \A j \in R : m <= j
    BY <2>1, LeastExists
  <2>3. IsFiniteSet(R \ {m}) /\ Cardinality(R \ {m}) = n
    <3>1. IsFiniteSet(R \ {m}) /\ Cardinality(R \ {m}) = Cardinality(R) - 1
      BY <2>2, FS_RemoveElement, Zenon
    <3> QED  BY <3>1
  <2>4. PICK s : Enumerates(s, R \ {m})
    BY <1>2, <2>3
  <2> DEFINE t == [i \in 1 .. n + 1 |-> IF i = 1 THEN m ELSE s[i - 1]]
  <2>5. s \in [1 .. n -> R \ {m}] /\ \A i, j \in 1 .. n : i < j => s[i] < s[j]
    BY <2>3, <2>4 DEF Enumerates, Ascending
  <2>6. \A i \in 1 .. n + 1 : i # 1 => i - 1 \in 1 .. n
    OBVIOUS
  <2>7. \A i \in 1 .. n + 1 : i # 1 => s[i - 1] \in R /\ m < s[i - 1]
    <3>1. \A j \in R \ {m} : m < j
      BY <2>2
    <3> QED  BY <2>5, <2>6, <3>1
  <2>8. t \in [1 .. n + 1 -> R]
    BY <2>7
  <2>9. ASSUME NEW i \in 1 .. n + 1, NEW j \in 1 .. n + 1, i < j
        PROVE  t[i] < t[j]
    <3>1. CASE i = 1
      BY <2>7, <2>9, <3>1
    <3>2. CASE i # 1
      BY <2>5, <2>6, <2>9, <3>2
    <3> QED  BY <3>1, <3>2
  <2>10. Enumerates(t, R)
    BY <2>8, <2>9 DEF Enumerates, Ascending
  <2> QED  BY <2>10
<1>3. \A n \in Nat : n \in T
  <2> HIDE DEF T
  <2> QED  BY <1>1, <1>2, Induct
<1>4. Cardinality(S) \in T
  BY <1>3, FS_CardinalityType
<1> QED  BY <1>4

\* It reaches every element.
LEMMA EnumerationOnto ==
  ASSUME NEW S \in SUBSET Nat, IsFiniteSet(S), NEW s, Enumerates(s, S), NEW m \in S
  PROVE  \E i \in 1 .. Cardinality(S) : s[i] = m
<1> DEFINE n == Cardinality(S)
<1>1. n \in Nat
  BY FS_CardinalityType
<1>2. s \in [1 .. n -> S] /\ \A i, j \in 1 .. n : i < j => s[i] < s[j]
  BY DEF Enumerates, Ascending
<1>3. IsFiniteSet(1 .. n) /\ Cardinality(1 .. n) = n
  BY <1>1, FS_Interval
<1>4. \A i, j \in 1 .. n : s[i] = s[j] => i = j
  <2> SUFFICES ASSUME NEW i \in 1 .. n, NEW j \in 1 .. n, s[i] = s[j], i # j
               PROVE  FALSE
    OBVIOUS
  <2>1. s[i] \in Nat
    BY <1>2, Zenon
  <2>2. i < j \/ j < i
    OBVIOUS
  <2>3. s[i] < s[j] \/ s[j] < s[i]
    BY <1>2, <2>2, Zenon
  <2> QED  BY <2>1, <2>3
<1>5. s \in Injection(1 .. n, S)
  BY <1>2, <1>4 DEF Injection, IsInjective
<1>6. s \in Surjection(1 .. n, S)
  <2> HIDE DEF n
  <2> QED  BY <1>3, <1>5, FS_Injection DEF n
<1> QED  BY <1>6 DEF Surjection

\* In a larger set an element comes no earlier.
LEMMA EnumerationShifts ==
  ASSUME NEW S \in SUBSET Nat, NEW T \in SUBSET Nat, IsFiniteSet(S), IsFiniteSet(T), S \subseteq T,
         NEW s, Enumerates(s, S), NEW t, Enumerates(t, T)
  PROVE  \A i \in 1 .. Cardinality(S) : \E j \in i .. Cardinality(T) : t[j] = s[i]
<1> DEFINE n == Cardinality(S)
           Shifted(i) == i \in 1 .. n => \E j \in i .. Cardinality(T) : t[j] = s[i]
           D == {i \in Nat : Shifted(i)}
<1>1. n \in Nat /\ Cardinality(T) \in Nat
  BY FS_CardinalityType
<1>2. /\ s \in [1 .. n -> S] /\ \A i, j \in 1 .. n : i < j => s[i] < s[j]
      /\ t \in [1 .. Cardinality(T) -> T]
      /\ \A i, j \in 1 .. Cardinality(T) : i < j => t[i] < t[j]
  BY DEF Enumerates, Ascending
<1>3. ASSUME NEW i \in 1 .. n
      PROVE  \E j \in 1 .. Cardinality(T) : t[j] = s[i]
  <2>1. s[i] \in S
    BY <1>2
  <2>2. s[i] \in T
    BY <2>1
  <2>3. \A m \in T : \E j \in 1 .. Cardinality(T) : t[j] = m
    BY EnumerationOnto
  <2> QED  BY <2>2, <2>3
<1> HIDE DEF n
<1>4. 0 \in D
  OBVIOUS
<1>5. ASSUME NEW i \in Nat, i \in D
      PROVE  i + 1 \in D
  <2> SUFFICES ASSUME i + 1 \in 1 .. n
               PROVE  \E j \in i + 1 .. Cardinality(T) : t[j] = s[i + 1]
    OBVIOUS
  <2>1. PICK j \in 1 .. Cardinality(T) : t[j] = s[i + 1]
    BY <1>3
  <2>2. CASE i = 0
    BY <2>1, <2>2
  <2>3. CASE i # 0
    <3>1. i \in 1 .. n
      BY <1>1, <2>3
    <3>2. PICK k \in i .. Cardinality(T) : t[k] = s[i]
      BY <1>5, <3>1
    <3>3. k \in 1 .. Cardinality(T) /\ t[k] < t[j]
      BY <1>1, <1>2, <2>1, <2>3, <3>1, <3>2
    <3>4. ~ (j <= k)
      <4>1. t[j] \in Nat /\ t[k] \in Nat
        BY <1>2, <3>3
      <4>2. j < k => t[j] < t[k]
        BY <1>2, <3>3
      <4> QED  BY <3>3, <4>1, <4>2
    <3>5. j \in i + 1 .. Cardinality(T)
      BY <1>1, <3>2, <3>4
    <3> QED  BY <2>1, <3>5
  <2> QED  BY <2>2, <2>3
<1>6. \A i \in Nat : i \in D
  <2> HIDE DEF D
  <2> QED  BY <1>4, <1>5, Induct
<1> QED  BY <1>1, <1>6 DEF n

\* What is nowhere older than an ascending enumeration, and holds everything
\* up to its newest, is the enumeration's beginning.
LEMMA AscendingWhenBehind ==
  ASSUME NEW S \in SUBSET Nat, IsFiniteSet(S), NEW s, Enumerates(s, S),
         NEW k \in 0 .. Cardinality(S), NEW w \in [1 .. k -> Nat],
         \A i \in 1 .. k : s[i] <= w[i],
         \A m \in S, i \in 1 .. k : m <= w[i] => m \in Range(w)
  PROVE  Ascending(w)
<1> DEFINE R == Range(w)
           P == [i \in 1 .. k |-> s[i]]
<1>1. k \in Nat /\ Cardinality(S) \in Nat /\ 1 .. k \subseteq 1 .. Cardinality(S)
  BY FS_CardinalityType
<1>2. /\ s \in [1 .. Cardinality(S) -> S]
      /\ \A i, j \in 1 .. Cardinality(S) : i < j => s[i] < s[j]
  BY DEF Enumerates, Ascending
<1>3. \A i \in 1 .. k : s[i] \in S /\ s[i] \in Nat /\ s[i] \in R
  BY <1>1, <1>2
<1>4. \A i, j \in 1 .. k : i < j => s[i] < s[j]
  BY <1>1, <1>2
<1>5. \A i, j \in 1 .. k : s[i] = s[j] => i = j
  <2> SUFFICES ASSUME NEW i \in 1 .. k, NEW j \in 1 .. k, s[i] = s[j], i # j
               PROVE  FALSE
    OBVIOUS
  <2>1. s[i] < s[j] \/ s[j] < s[i]
    BY <1>4
  <2> QED  BY <1>3, <2>1
<1>6. IsFiniteSet(1 .. k) /\ Cardinality(1 .. k) = k
  BY <1>1, FS_Interval
<1>7. w \in Surjection(1 .. k, R)
  BY DEF Surjection, Range
<1>8. IsFiniteSet(R) /\ Cardinality(R) <= k
  BY <1>6, <1>7, FS_Surjection
<1>9. P \in Injection(1 .. k, R)
  BY <1>3, <1>5 DEF Injection, IsInjective
<1>10. Cardinality(R) = k
  <2>1. k <= Cardinality(R)
    BY <1>6, <1>8, <1>9, FS_Injection
  <2> QED  BY <1>1, <1>8, <2>1, FS_CardinalityType
<1>11. \A i, j \in 1 .. k : w[i] = w[j] => i = j
  <2>1. w \in Injection(1 .. k, R)
    BY <1>6, <1>7, <1>10, FS_Surjection
  <2> QED  BY <2>1 DEF Injection, IsInjective
<1>12. \A i \in 1 .. k : \E j \in 1 .. k : w[i] = s[j]
  <2>1. P \in Surjection(1 .. k, R)
    BY <1>6, <1>8, <1>9, <1>10, FS_Injection
  <2>2. \A i \in 1 .. k : w[i] \in R
    BY DEF Range
  <2> QED  BY <2>1, <2>2 DEF Surjection
<1>13. \A i \in 1 .. k : w[i] = s[i]
  <2> DEFINE U == {i \in 1 .. k : w[i] # s[i]}
  <2> SUFFICES ASSUME U # {}
               PROVE  FALSE
    OBVIOUS
  <2>1. PICK i \in U : \A j \in U : j <= i
    <3>1. U \in SUBSET (0 .. k)
      OBVIOUS
    <3> HIDE DEF U
    <3> QED  BY <1>1, <3>1, GreatestExists
  <2>2. PICK j \in 1 .. k : w[i] = s[j]
    BY <1>12
  <2>3. j # i /\ s[i] <= s[j]
    BY <2>1, <2>2
  <2>4. ~ (j < i)
    <3>1. j < i => s[j] < s[i]
      BY <1>4
    <3> QED  BY <1>3, <2>3, <3>1
  <2>5. j \notin U
    BY <2>1, <2>3, <2>4
  <2>6. w[j] = w[i]
    BY <2>2, <2>5
  <2> QED  BY <1>11, <2>3, <2>6
<1> QED  BY <1>4, <1>13 DEF Ascending

Enumeration(S) == CHOOSE s \in [1 .. Cardinality(S) -> S] : Ascending(s)

LEMMA EnumerationIs ==
  ASSUME NEW S \in SUBSET Nat, IsFiniteSet(S)
  PROVE  /\ Enumerates(Enumeration(S), S)
         /\ Cardinality(S) \in Nat
         /\ Enumeration(S) \in Seq(S) /\ Len(Enumeration(S)) = Cardinality(S)
<1>1. \E s : Enumerates(s, S)
  BY EnumerationExists
<1>2. Enumerates(Enumeration(S), S)
  BY <1>1 DEF Enumeration, Enumerates
<1>3. Cardinality(S) \in Nat
  BY FS_CardinalityType
<1>4. Enumeration(S) \in [1 .. Cardinality(S) -> S]
  BY <1>2 DEF Enumerates
<1> QED  BY <1>2, <1>3, <1>4

LEMMA SortedIs == Sorted = Enumeration(messages) /\ Sorted' = Enumeration(messages')
  BY DEF Sorted, Enumeration

--------------------------------------------------------------------------
(* An export.                                                             *)

\* The messages its offset has not come to.
Rest(c) == {Sorted[i] : i \in Len(out[c]) + 1 .. Cardinality(messages)}

\* What it has written at a place is no older than what is there now.
ExportOK(c) ==
    /\ out[c] \in Seq(messages) /\ Len(out[c]) <= Cardinality(messages)
    /\ start[c] \subseteq messages
    /\ start[c] \subseteq Range(out[c]) \cup Rest(c)
    /\ \A i \in 1 .. Len(out[c]) : Sorted[i] <= out[c][i]
    /\ stage[c] = "off" => out[c] = <<>>

ExportInv ==
    /\ SocketInv
    /\ messages \in SUBSET Nat /\ IsFiniteSet(messages)
    /\ out \in [Client -> Seq(messages)]
    /\ start \in [Client -> SUBSET messages]
    /\ \A c \in Client : ExportOK(c)

LEMMA MessagesGrow ==
  ASSUME ExportInv, [Next]_vars
  PROVE  /\ messages \subseteq messages'
         /\ messages' \in SUBSET Nat /\ IsFiniteSet(messages')
<1>1. UNCHANGED messages \/ \E m \in Messages : messages' = messages \cup {m}
  <2>1. CASE UNCHANGED vars
    BY <2>1 DEF vars
  <2>2. ASSUME NEW p \in Server,
               \/ StartServe(p) \/ ServerStep(p) \/ Signal(p) \/ Kill(p)
               \/ \E l \in Listener : CloseStream(p, l)
        PROVE  UNCHANGED messages
    BY <2>2 DEF StartServe, ServerStep, Signal, Kill, CloseStream, Opens, GiveUp,
        BindTcp, RemoveStale, BindUds, CleanUp, CleansUp
  <2>3. ASSUME NEW c \in Client, StartCommand(c) \/ StartSync(c) \/ ClientStep(c)
        PROVE  UNCHANGED messages
    BY <2>3 DEF StartCommand, StartSync, ClientStep, AskHealth, Healthy, Request,
        Answer, Cut, Direct, Opens, GiveUp, SyncEnds, Read, Batch
  <2>4. ASSUME NEW p \in Proc, Ingest(p) \/ OpenFails(p)
        PROVE  UNCHANGED messages \/ \E m \in Messages : messages' = messages \cup {m}
    BY <2>4 DEF Ingest, OpenFails
  <2> QED  BY <2>1, <2>2, <2>3, <2>4 DEF Next
<1>2. ASSUME NEW m \in Messages, messages' = messages \cup {m}
      PROVE  messages' \in SUBSET Nat /\ IsFiniteSet(messages')
  <2>1. messages' \in SUBSET Nat
    BY <1>2, MessagesAssumption DEF ExportInv
  <2> QED  BY <1>2, <2>1, FS_AddElement DEF ExportInv
<1> QED  BY <1>1, <1>2 DEF ExportInv

\* However the messages grow, what it has still to come to is still to come.
LEMMA ExportShifts ==
  ASSUME ExportInv, messages \subseteq messages', messages' \in SUBSET Nat,
         IsFiniteSet(messages'), NEW c \in Client,
         out'[c] = out[c], start'[c] = start[c], stage'[c] = "off" => stage[c] = "off"
  PROVE  ExportOK(c)'
<1> DEFINE n == Cardinality(messages)
           k == Len(out[c])
<1>1. ExportOK(c) /\ messages \in SUBSET Nat /\ IsFiniteSet(messages)
  BY DEF ExportInv
<1>2. Enumerates(Sorted, messages) /\ n \in Nat
  BY <1>1, EnumerationIs, SortedIs
<1>3. Enumerates(Sorted', messages') /\ n' \in Nat
  BY EnumerationIs, SortedIs
<1>4. \A i \in 1 .. n : \E j \in i .. n' : Sorted'[j] = Sorted[i]
  BY <1>1, <1>2, <1>3, EnumerationShifts
<1>5. n <= n' /\ k \in Nat /\ k <= n /\ out[c] \in Seq(messages')
  <2>1. n <= n'
    BY FS_Subset
  <2> QED  BY <1>1, <2>1 DEF ExportOK
<1>6. \A i, j \in 1 .. n' : i <= j => Sorted'[i] <= Sorted'[j]
  <2>1. Sorted' \in [1 .. n' -> Nat] /\ \A i, j \in 1 .. n' : i < j => Sorted'[i] < Sorted'[j]
    BY <1>3 DEF Enumerates, Ascending
  <2> QED  BY <1>3, <2>1
<1>7. ASSUME NEW i \in 1 .. k
      PROVE  Sorted'[i] <= out[c][i]
  <2>1. i \in 1 .. n /\ i \in 1 .. n'
    BY <1>2, <1>3, <1>5
  <2>2. PICK j \in i .. n' : Sorted'[j] = Sorted[i]
    BY <1>4, <2>1
  <2>3. Sorted'[i] <= Sorted[i]
    <3>1. j \in 1 .. n' /\ i <= j
      BY <1>3, <2>1, <2>2
    <3> QED  BY <1>6, <2>1, <2>2, <3>1
  <2>4. Sorted[i] <= out[c][i]
    BY <1>1 DEF ExportOK
  <2>5. Sorted'[i] \in Nat /\ Sorted[i] \in Nat /\ out[c][i] \in Nat
    <3>1. Sorted'[i] \in messages' /\ Sorted[i] \in messages
      BY <1>2, <1>3, <2>1 DEF Enumerates
    <3>2. out[c][i] \in messages
      BY <1>1 DEF ExportOK
    <3> QED  BY <1>1, <3>1, <3>2
  <2> QED  BY <2>3, <2>4, <2>5
<1>8. Rest(c) \subseteq Rest(c)'
  <2> SUFFICES ASSUME NEW i \in k + 1 .. n
               PROVE  \E j \in k + 1 .. n' : Sorted'[j] = Sorted[i]
    BY DEF Rest
  <2>1. i \in 1 .. n
    BY <1>2, <1>5
  <2>2. PICK j \in i .. n' : Sorted'[j] = Sorted[i]
    BY <1>4, <2>1
  <2>3. j \in k + 1 .. n'
    BY <1>3, <1>5
  <2> QED  BY <2>2, <2>3
<1>9. start'[c] \subseteq messages' /\ start'[c] \subseteq Range(out'[c]) \cup Rest(c)'
  BY <1>1, <1>8 DEF ExportOK
<1>10. Len(out'[c]) <= n' /\ out'[c] \in Seq(messages')
  BY <1>2, <1>3, <1>5
<1>11. \A i \in 1 .. Len(out'[c]) : Sorted'[i] <= out'[c][i]
  BY <1>7
<1>12. stage'[c] = "off" => out'[c] = <<>>
  BY <1>1 DEF ExportOK
<1> QED  BY <1>9, <1>10, <1>11, <1>12 DEF ExportOK

\* An export that has written nothing has everything before it.
LEMMA ExportBegins ==
  ASSUME messages' \in SUBSET Nat, IsFiniteSet(messages'), NEW c \in Client,
         out'[c] = <<>>, start'[c] \subseteq messages'
  PROVE  ExportOK(c)'
<1>1. Enumerates(Sorted', messages') /\ Cardinality(messages') \in Nat
  BY EnumerationIs, SortedIs
<1>2. \A m \in messages' : \E i \in 1 .. Cardinality(messages') : Sorted'[i] = m
  BY <1>1, EnumerationOnto
<1>3. Len(out'[c]) = 0 /\ out'[c] \in Seq(messages')
  OBVIOUS
<1>4. messages' \subseteq Rest(c)'
  <2>1. Len(out'[c]) + 1 = 1
    BY <1>3
  <2> QED  BY <1>2, <2>1 DEF Rest
<1>5. \A i \in 1 .. Len(out'[c]) : Sorted'[i] <= out'[c][i]
  BY <1>3
<1>6. start'[c] \subseteq Range(out'[c]) \cup Rest(c)'
  BY <1>4, Zenon
<1>7. Len(out'[c]) <= Cardinality(messages')
  BY <1>1, <1>3
<1> QED  BY <1>3, <1>5, <1>6, <1>7 DEF ExportOK

LEMMA BatchIs ==
  ASSUME NEW S, NEW s \in Seq(S), NEW w \in Seq(S), NEW b \in Nat, Len(w) + b <= Len(s),
         NEW v, v = w \o SubSeq(s, Len(w) + 1, Len(w) + b)
  PROVE  /\ v \in Seq(S) /\ Len(v) = Len(w) + b
         /\ \A i \in 1 .. Len(w) : v[i] = w[i]
         /\ \A i \in Len(w) + 1 .. Len(w) + b : v[i] = s[i]
<1> DEFINE k == Len(w)
           batch == SubSeq(s, k + 1, k + b)
<1>1. k \in Nat /\ Len(s) \in Nat
  OBVIOUS
<1>2. batch \in Seq(S) /\ Len(batch) = b /\ \A i \in 1 .. b : batch[i] = s[k + i]
  <2>1. \A i \in k + 1 .. k + b : s[i] \in S
    BY <1>1
  <2>2. k + 1 \in Int /\ k + b \in Int
    BY <1>1
  <2> QED  BY <1>1, <2>1, <2>2, SubSeqProperties
<1> HIDE DEF batch
<1>3. v = w \o batch
  BY DEF batch
<1>4. v \in Seq(S) /\ Len(v) = k + b /\ \A i \in 1 .. k : v[i] = w[i]
  BY <1>1, <1>2, <1>3
<1>5. ASSUME NEW i \in k + 1 .. k + b
      PROVE  v[i] = s[i]
  <2>1. i - k \in 1 .. b /\ k + (i - k) = i /\ i \in 1 .. k + b /\ ~ (i <= k)
    BY <1>1
  <2>2. v[i] = batch[i - k]
    BY <1>1, <1>2, <1>3, <2>1
  <2>3. batch[i - k] = s[k + (i - k)]
    BY <1>2, <2>1
  <2> QED  BY <2>1, <2>2, <2>3
<1> QED  BY <1>4, <1>5

\* A batch takes the next messages in their order.
LEMMA ExportWrites ==
  ASSUME ExportInv, NEW c \in Client, NEW b \in Nat, Len(out[c]) + b <= Len(Sorted),
         out'[c] = out[c] \o SubSeq(Sorted, Len(out[c]) + 1, Len(out[c]) + b),
         messages' = messages, start'[c] = start[c], stage'[c] # "off"
  PROVE  ExportOK(c)'
<1> DEFINE n == Cardinality(messages)
           k == Len(out[c])
<1>1. ExportOK(c) /\ messages \in SUBSET Nat /\ IsFiniteSet(messages)
  BY DEF ExportInv
<1>2. /\ Sorted \in Seq(messages) /\ Len(Sorted) = n /\ n \in Nat
  BY <1>1, EnumerationIs, SortedIs
<1>3. Sorted' = Sorted
  BY SortedIs
<1>4. k \in Nat /\ k + b <= n /\ out[c] \in Seq(messages)
  BY <1>1, <1>2 DEF ExportOK
<1>5. /\ out'[c] \in Seq(messages) /\ Len(out'[c]) = k + b
      /\ \A i \in 1 .. k : out'[c][i] = out[c][i]
      /\ \A i \in k + 1 .. k + b : out'[c][i] = Sorted[i]
  <2> DEFINE w == out[c]
             v == out'[c]
             s == Sorted
  <2>1. /\ s \in Seq(messages) /\ w \in Seq(messages) /\ Len(w) + b <= Len(s)
        /\ v = w \o SubSeq(s, Len(w) + 1, Len(w) + b)
    BY <1>2, <1>4
  <2> HIDE DEF w, v, s
  <2>2. /\ v \in Seq(messages) /\ Len(v) = Len(w) + b
        /\ \A i \in 1 .. Len(w) : v[i] = w[i]
        /\ \A i \in Len(w) + 1 .. Len(w) + b : v[i] = s[i]
    BY <2>1, BatchIs
  <2> QED  BY <2>2 DEF w, v, s
<1>6. Range(out[c]) \cup Rest(c) \subseteq Range(out'[c]) \cup Rest(c)'
  <2> DEFINE v == out'[c]
  <2>1. /\ v \in Seq(messages) /\ Len(v) = k + b
        /\ \A i \in 1 .. k : v[i] = out[c][i]
        /\ \A i \in k + 1 .. k + b : v[i] = Sorted[i]
    BY <1>5
  <2> HIDE DEF v
  <2>2. \A i \in 1 .. k : out[c][i] \in Range(v)
    <3>1. \A i \in 1 .. k : i \in 1 .. Len(v)
      BY <1>4, <2>1
    <3>2. Range(v) = {v[i] : i \in 1 .. Len(v)}
      BY <2>1, RangeEquality
    <3> QED  BY <2>1, <3>1, <3>2
  <2>3. \A i \in k + 1 .. k + b : Sorted[i] \in Range(v)
    <3>1. \A i \in k + 1 .. k + b : i \in 1 .. Len(v)
      BY <1>4, <2>1
    <3>2. Range(v) = {v[i] : i \in 1 .. Len(v)}
      BY <2>1, RangeEquality
    <3> QED  BY <2>1, <3>1, <3>2
  <2>4. Range(out[c]) \subseteq Range(v)
    <3>1. Range(out[c]) = {out[c][i] : i \in 1 .. k}
      BY <1>4, RangeEquality
    <3> QED  BY <2>2, <3>1
  <2>5. \A i \in k + 1 .. n : i \in k + 1 .. k + b \/ i \in Len(v) + 1 .. n
    BY <1>2, <1>4, <2>1
  <2>6. Rest(c) \subseteq Range(v) \cup {Sorted[i] : i \in Len(v) + 1 .. n}
    BY <2>3, <2>5 DEF Rest
  <2>7. Rest(c)' = {Sorted[i] : i \in Len(v) + 1 .. n}
    BY <1>3 DEF Rest, v
  <2> QED  BY <2>4, <2>6, <2>7 DEF v
<1>7. \A i \in 1 .. k + b : Sorted[i] <= out'[c][i]
  <2>1. \A i \in 1 .. k : Sorted[i] <= out[c][i]
    BY <1>1 DEF ExportOK
  <2>2. \A i \in 1 .. k + b : Sorted[i] \in Nat
    <3>1. \A i \in 1 .. k + b : Sorted[i] \in messages
      BY <1>2, <1>4
    <3> QED  BY <1>1, <3>1
  <2>3. \A i \in 1 .. k + b : i \in 1 .. k \/ i \in k + 1 .. k + b
    BY <1>4
  <2>4. \A i \in 1 .. k + b : Sorted[i] <= Sorted[i]
    BY <2>2
  <2> QED  BY <1>5, <2>1, <2>3, <2>4
<1>8. start'[c] \subseteq messages' /\ start'[c] \subseteq Range(out'[c]) \cup Rest(c)'
  BY <1>1, <1>6 DEF ExportOK
<1> QED  BY <1>3, <1>4, <1>5, <1>7, <1>8 DEF ExportOK

\* The batch a step writes is a full one.
LEMMA FullBatch ==
  ASSUME ExportInv, NEW c \in Client, stage[c] # "off",
         LET batch == SubSeq(Sorted, Len(out[c]) + 1, Min({Len(out[c]) + BATCH_SIZE, Len(Sorted)}))
         IN  Len(batch) = BATCH_SIZE /\ out' = [out EXCEPT ![c] = @ \o batch],
         UNCHANGED <<messages, start, stage>>
  PROVE  ExportOK(c)'
<1> DEFINE k == Len(out[c])
           n == Len(Sorted)
           last == Min({k + BATCH_SIZE, n})
<1>1. /\ Sorted \in Seq(messages) /\ n \in Nat /\ out[c] \in Seq(messages) /\ k \in Nat
      /\ BATCH_SIZE \in Nat \ {0} /\ out \in [Client -> Seq(messages)]
  BY EnumerationIs, SortedIs, BatchAssumption DEF ExportInv, ExportOK
<1>2. last \in {k + BATCH_SIZE, n} /\ last <= k + BATCH_SIZE /\ last <= n
  <2>1. {k + BATCH_SIZE, n} \in SUBSET Nat
    BY <1>1
  <2> QED  BY <2>1, MinIsLeast
<1>3. k + BATCH_SIZE <= n /\ last = k + BATCH_SIZE
  <2>1. last \in Nat
    BY <1>1, <1>2
  <2>2. \A i \in k + 1 .. last : Sorted[i] \in messages
    BY <1>1, <1>2, <2>1
  <2>3. Len(SubSeq(Sorted, k + 1, last)) = IF k + 1 <= last THEN last - (k + 1) + 1 ELSE 0
    BY <1>1, <2>1, <2>2, SubSeqProperties
  <2>4. Len(SubSeq(Sorted, k + 1, last)) = BATCH_SIZE
    OBVIOUS
  <2> HIDE DEF last, n, k
  <2>5. last = k + BATCH_SIZE
    BY <1>1, <1>2, <2>1, <2>3, <2>4
  <2> QED  BY <1>2, <2>5
<1>4. out'[c] = out[c] \o SubSeq(Sorted, k + 1, k + BATCH_SIZE)
  BY <1>1, <1>3
<1> QED  BY <1>1, <1>3, <1>4, ExportWrites

\* What a step does to an export: it leaves it alone, empties it or writes a
\* batch, and nobody is switched off.
LEMMA ExportStep ==
  ASSUME ExportInv, [Next]_vars, NEW c \in Client
  PROVE  /\ out' \in [Client -> Seq(messages')]
         /\ start' \in [Client -> SUBSET messages']
         /\ ExportOK(c)'
<1>1. c \in Proc /\ Client \subseteq Proc /\ Server \subseteq Proc /\ Server \cap Client = {}
  BY ProcAssumption
<1>2. /\ stage \in [Proc -> Stages] /\ out \in [Client -> Seq(messages)]
      /\ start \in [Client -> SUBSET messages] /\ ExportOK(c)
  BY DEF ExportInv, SocketInv, DaemonTypes
<1>3. messages \subseteq messages' /\ messages' \in SUBSET Nat /\ IsFiniteSet(messages')
  BY MessagesGrow
<1>4. out \in [Client -> Seq(messages')] /\ start \in [Client -> SUBSET messages']
  <2>1. ASSUME NEW w \in Seq(messages)
        PROVE  w \in Seq(messages')
    <3>1. Len(w) \in Nat /\ w \in [1 .. Len(w) -> messages]
      OBVIOUS
    <3>2. w \in [1 .. Len(w) -> messages']
      BY <1>3, <3>1
    <3> QED  BY <3>1, <3>2
  <2> QED  BY <1>2, <1>3, <2>1
<1>5. ASSUME UNCHANGED <<out, start>>, stage'[c] = "off" => stage[c] = "off"
      PROVE  /\ out' \in [Client -> Seq(messages')]
             /\ start' \in [Client -> SUBSET messages'] /\ ExportOK(c)'
  BY <1>3, <1>4, <1>5, ExportShifts
<1>6. ASSUME NEW d \in Client, Forgets(d), stage'[c] = "off" => stage[c] = "off"
      PROVE  /\ out' \in [Client -> Seq(messages')]
             /\ start' \in [Client -> SUBSET messages'] /\ ExportOK(c)'
  <2>1. out' \in [Client -> Seq(messages')] /\ start' \in [Client -> SUBSET messages']
    BY <1>4, <1>6 DEF Forgets
  <2>2. CASE c = d
    <3>1. out'[c] = <<>> /\ start'[c] = {}
      BY <1>2, <1>6, <2>2 DEF Forgets
    <3> QED  BY <1>3, <2>1, <3>1, ExportBegins
  <2>3. CASE c # d
    <3>1. out'[c] = out[c] /\ start'[c] = start[c]
      BY <1>2, <1>6, <2>3 DEF Forgets
    <3> QED  BY <1>3, <1>6, <2>1, <3>1, ExportShifts
  <2> QED  BY <2>2, <2>3
<1>7. CASE UNCHANGED vars
  BY <1>5, <1>7 DEF vars, commandVars
<1>8. ASSUME NEW p \in Server,
             \/ StartServe(p) \/ ServerStep(p) \/ Signal(p) \/ Kill(p) \/ OpenFails(p)
             \/ Ingest(p) \/ \E l \in Listener : CloseStream(p, l)
      PROVE  UNCHANGED <<out, start>> /\ stage'[c] = stage[c]
  BY <1>1, <1>2, <1>8
  DEF StartServe, ServerStep, Signal, Kill, OpenFails, Ingest, CloseStream, Opens, GiveUp,
      BindTcp, RemoveStale, BindUds, CleanUp, CleansUp, Exits, Goes, commandVars
<1>9. ASSUME NEW d \in Client,
             \/ StartSync(d) \/ AskHealth(d) \/ Healthy(d) \/ Opens(d) \/ SyncEnds(d)
             \/ OpenFails(d) \/ Ingest(d)
      PROVE  UNCHANGED <<out, start>> /\ (stage'[c] = "off" => stage[c] = "off")
  BY <1>1, <1>2, <1>9
  DEF StartSync, AskHealth, Healthy, Opens, SyncEnds, OpenFails, Ingest, Connected, Keeps, Goes,
      commandVars
<1>10. ASSUME NEW d \in Client, StartCommand(d)
       PROVE  /\ out' \in [Client -> Seq(messages')]
              /\ start' \in [Client -> SUBSET messages'] /\ ExportOK(c)'
  <2>1. out' = out /\ messages' = messages /\ stage[d] = "off" /\ ~ (stage'[c] = "off" /\ c = d)
        /\ \E n : start' = [start EXCEPT ![d] = IF n = 0 THEN messages ELSE {}]
    BY <1>1, <1>2, <1>10 DEF StartCommand, Goes
  <2>2. out' \in [Client -> Seq(messages')] /\ start' \in [Client -> SUBSET messages']
    BY <1>2, <2>1
  <2>3. CASE c = d
    <3>1. out'[c] = <<>> /\ start'[c] \subseteq messages'
      BY <1>2, <2>1, <2>2, <2>3 DEF ExportOK
    <3> QED  BY <1>3, <2>2, <3>1, ExportBegins
  <2>4. CASE c # d
    <3>1. start'[c] = start[c] /\ stage'[c] = stage[c]
      BY <1>1, <1>2, <1>10, <2>1, <2>4 DEF StartCommand, Goes
    <3> QED  BY <1>3, <2>1, <2>2, <3>1, ExportShifts
  <2> QED  BY <2>3, <2>4
<1>11. ASSUME NEW d \in Client, Request(d) \/ Answer(d) \/ Cut(d) \/ Direct(d) \/ GiveUp(d) \/ Read(d)
       PROVE  /\ Forgets(d) \/ UNCHANGED <<out, start>>
              /\ stage'[c] = "off" => stage[c] = "off"
  BY <1>1, <1>2, <1>11
  DEF Request, Answer, Cut, Direct, GiveUp, Read, Connected, Keeps, Fails, Done, Goes, commandVars,
      Exits
<1>12. ASSUME NEW d \in Client, Batch(d)
       PROVE  /\ out' \in [Client -> Seq(messages')]
              /\ start' \in [Client -> SUBSET messages'] /\ ExportOK(c)'
  <2> DEFINE batch == SubSeq(Sorted, Len(out[d]) + 1,
                             Min({Len(out[d]) + BATCH_SIZE, Len(Sorted)}))
  <2>1. CASE Done(d)
    <3>1. Forgets(d) /\ (stage'[c] = "off" => stage[c] = "off")
      BY <1>1, <1>2, <2>1 DEF Done, Goes
    <3> QED  BY <1>6, <3>1
  <2>2. CASE /\ Len(batch) = BATCH_SIZE
             /\ out' = [out EXCEPT ![d] = @ \o batch]
             /\ UNCHANGED <<openVars, stage, peer, left, start, excused>>
    <3>1. messages' = messages /\ stage[d] # "off"
      BY <1>12 DEF Batch, Exports, IsOpen
    <3>2. ExportOK(d)'
      BY <2>2, <3>1, FullBatch
    <3>3. out'[d] \in Seq(messages')
      BY <3>2 DEF ExportOK
    <3>4. out' \in [Client -> Seq(messages')]
      <4> HIDE DEF batch
      <4>1. out' = [out EXCEPT ![d] = out'[d]]
        BY <1>2, <2>2
      <4> QED  BY <1>4, <3>3, <4>1
    <3>5. c # d => out'[c] = out[c]
      BY <1>2, <2>2
    <3>6. c # d => ExportOK(c)'
      BY <1>3, <2>2, <3>5, ExportShifts
    <3> QED  BY <1>4, <2>2, <3>2, <3>4, <3>6
  <2> QED  BY <1>12, <2>1, <2>2, Zenon DEF Batch
<1> QED
  BY <1>5, <1>6, <1>7, <1>8, <1>9, <1>10, <1>11, <1>12, ProcAssumption DEF Next, ClientStep

\* Without a command there is no export.
LEMMA NoCommand ==
  ASSUME ExportInv, [Next]_vars, Client = {}
  PROVE  out' \in [Client -> Seq(messages')] /\ start' \in [Client -> SUBSET messages']
<1>1. CASE UNCHANGED vars
  BY <1>1 DEF vars, commandVars, ExportInv
<1>2. ASSUME NEW p \in Server,
             \/ StartServe(p) \/ ServerStep(p) \/ Signal(p) \/ Kill(p) \/ OpenFails(p)
             \/ Ingest(p) \/ \E l \in Listener : CloseStream(p, l)
      PROVE  UNCHANGED <<out, start>>
  BY <1>2, ProcAssumption
  DEF StartServe, ServerStep, Signal, Kill, OpenFails, Ingest, CloseStream, Opens, GiveUp,
      BindTcp, RemoveStale, BindUds, CleanUp, CleansUp, Exits, Goes, commandVars
<1>3. out' = out /\ start' = start
  BY <1>1, <1>2, ProcAssumption DEF Next, vars, commandVars
<1> QED  BY <1>3 DEF ExportInv

LEMMA InitExport == Init => ExportInv
<1> SUFFICES ASSUME Init
             PROVE  ExportInv
  OBVIOUS
<1>1. messages \in SUBSET Nat /\ IsFiniteSet(messages)
  BY MessagesAssumption, FS_EmptySet DEF Init
<1>2. out \in [Client -> Seq(messages)] /\ start \in [Client -> SUBSET messages]
  BY DEF Init
<1>3. Cardinality(messages) \in Nat
  BY <1>1, FS_CardinalityType
<1>4. ASSUME NEW c \in Client
      PROVE  ExportOK(c)
  <2>1. out[c] = <<>> /\ start[c] = {}
    BY DEF Init
  <2>2. Len(out[c]) = 0
    BY <2>1
  <2> QED  BY <1>3, <2>1, <2>2 DEF ExportOK
<1> QED  BY <1>1, <1>2, <1>4, InitSocket DEF ExportInv

LEMMA ExportSafe ==
  ASSUME ExportInv, NEW c \in Client
  PROVE  MissesNothing(c) /\ (NothingLate(c) => Ascending(out[c]))
<1> DEFINE n == Cardinality(messages)
           k == Len(out[c])
<1>1. ExportOK(c) /\ messages \in SUBSET Nat /\ IsFiniteSet(messages)
  BY DEF ExportInv
<1>2. /\ Enumerates(Sorted, messages) /\ Sorted \in Seq(messages) /\ Len(Sorted) = n /\ n \in Nat
  BY <1>1, EnumerationIs, SortedIs
<1>3. k \in 0 .. n /\ out[c] \in [1 .. k -> Nat]
  <2>1. out[c] \in Seq(messages) /\ k <= n
    BY <1>1 DEF ExportOK
  <2>2. k \in Nat /\ out[c] \in [1 .. k -> messages]
    BY <2>1
  <2>3. out[c] \in [1 .. k -> Nat]
    BY <1>1, <2>2
  <2>4. k \in 0 .. n
    BY <1>2, <2>1, <2>2
  <2> QED  BY <2>3, <2>4
<1>4. MissesNothing(c)
  <2> DEFINE rest == SubSeq(Sorted, k + 1, n)
  <2>1. \A i \in k + 1 .. n : Sorted[i] \in messages
    BY <1>2, <1>3
  <2>2. /\ rest \in Seq(messages) /\ Len(rest) = IF k + 1 <= n THEN n - (k + 1) + 1 ELSE 0
        /\ \A i \in 1 .. n - (k + 1) + 1 : rest[i] = Sorted[k + 1 + i - 1]
    BY <1>2, <1>3, <2>1, SubSeqProperties
  <2> HIDE DEF rest
  <2>3. Range(rest) = {rest[i] : i \in 1 .. Len(rest)}
    BY <2>2, RangeEquality
  <2>4. ASSUME NEW i \in k + 1 .. n
        PROVE  Sorted[i] \in Range(rest)
    <3>1. i - k \in 1 .. Len(rest) /\ i - k \in 1 .. n - (k + 1) + 1 /\ k + 1 + (i - k) - 1 = i
      <4>1. k \in Nat /\ n \in Nat /\ k + 1 <= n
        BY <1>2, <1>3
      <4>2. Len(rest) = n - k
        BY <2>2, <4>1
      <4> HIDE DEF k, n
      <4> QED  BY <4>1, <4>2
    <3>2. rest[i - k] = Sorted[i]
      BY <2>2, <3>1
    <3> QED  BY <2>3, <3>1, <3>2
  <2>5. Rest(c) \subseteq Range(rest)
    BY <2>4 DEF Rest
  <2>6. rest = SubSeq(Sorted, Len(out[c]) + 1, Len(Sorted))
    BY <1>2 DEF rest
  <2> QED  BY <1>1, <2>5, <2>6 DEF ExportOK, MissesNothing
<1>5. ASSUME NothingLate(c)
      PROVE  Ascending(out[c])
  <2>1. DOMAIN out[c] = 1 .. k /\ \A i \in 1 .. k : Sorted[i] <= out[c][i]
    BY <1>1, <1>3 DEF ExportOK
  <2>2. \A m \in messages, i \in 1 .. k : m <= out[c][i] => m \in Range(out[c])
    BY <1>5, <2>1 DEF NothingLate
  <2> QED  BY <1>1, <1>2, <1>3, <2>1, <2>2, AscendingWhenBehind
<1> QED  BY <1>4, <1>5

\* Whatever is committed between the batches of an export, it misses nothing
\* that was there when it began, and it is in order and without repetition
\* unless something came behind what it had written.
THEOREM ExportNeverMisses == Spec => []ExportMissesNothing
<1>1. Init => ExportInv
  BY InitExport
<1>2. ExportInv /\ [Next]_vars => ExportInv'
  <2>1. ASSUME ExportInv, [Next]_vars
        PROVE  ExportInv'
    <3>1. SocketInv /\ SchemaInv
      BY <2>1 DEF ExportInv, SocketInv
    <3>2. SchemaInv'
      BY <2>1, <3>1, SchemaStep
    <3>3. SocketInv'
      BY <2>1, <3>1, <3>2, StepSocket
    <3>4. messages' \in SUBSET Nat /\ IsFiniteSet(messages')
      BY <2>1, MessagesGrow
    <3>5. \A c \in Client : ExportOK(c)'
      BY <2>1, ExportStep
    <3>6. out' \in [Client -> Seq(messages')] /\ start' \in [Client -> SUBSET messages']
      <4>1. CASE Client = {}
        BY <2>1, <4>1, NoCommand
      <4>2. CASE Client # {}
        BY <2>1, <4>2, ExportStep
      <4> QED  BY <4>1, <4>2
    <3> QED  BY <3>3, <3>4, <3>5, <3>6 DEF ExportInv
  <2> QED  BY <2>1
<1>3. ExportInv => ExportMissesNothing
  <2>1. ASSUME ExportInv
        PROVE  ExportMissesNothing
    BY <2>1, ExportSafe DEF ExportMissesNothing
  <2> QED  BY <2>1
<1> QED  BY <1>1, <1>2, <1>3, PTL DEF Spec
=============================================================================
