-------------------------- MODULE MigrationsProofs --------------------------
(***************************************************************************)
(* However many processes open the database, and whatever their number is  *)
(* and that of the migrations, each migration is applied once and in order.*)
(*                                                                         *)
(* SchemaInOrder is not inductive: nothing in it says why the migration a  *)
(* process applies is the next one.  The invariant adds that all versions  *)
(* below the one a process has come to are applied, though it has asked    *)
(* for them in no transaction: versions never go away.                     *)
(***************************************************************************)
EXTENDS Migrations, SequenceTheorems, TLAPS

\* What a process may rely on.
ConnInv(p) ==
    /\ version[p] <= Len(applied) + 1
    /\ conn[p] = "applying" => version[p] <= LAST
    /\ conn[p] \in {"open", "vacuuming"} => Len(applied) = LAST

SchemaInv ==
    /\ OpenTypeOK
    /\ \A i \in DOMAIN applied : applied[i] = i
    /\ \A p \in Proc : ConnInv(p)

\* A table whose rows are in order has no more than LAST of them.
LEMMA InOrderBounded ==
  ASSUME NEW s \in Seq(1 .. LAST), \A i \in DOMAIN s : s[i] = i
  PROVE  Len(s) \in 0 .. LAST /\ DOMAIN s = 1 .. Len(s)
<1>1. Len(s) \in Nat /\ DOMAIN s = 1 .. Len(s)
  OBVIOUS
<1>2. ASSUME Len(s) # 0
      PROVE  Len(s) <= LAST
  <2>1. Len(s) \in DOMAIN s
    BY <1>1, <1>2
  <2>2. s \in [1 .. Len(s) -> 1 .. LAST]
    BY LenProperties, Zenon
  <2>3. s[Len(s)] \in 1 .. LAST
    BY <1>1, <2>1, <2>2
  <2> QED  BY <2>1, <2>3
<1> QED  BY <1>1, <1>2, LastAssumption

\* The versions that are applied are those up to the length of the table, and
\* there are no more than LAST.
LEMMA AppliedUpTo ==
  ASSUME SchemaInv
  PROVE  /\ Len(applied) \in 0 .. LAST
         /\ DOMAIN applied = 1 .. Len(applied)
         /\ \A v \in Nat \ {0} : Applied(v) <=> v <= Len(applied)
<1>1. applied \in Seq(1 .. LAST) /\ \A i \in DOMAIN applied : applied[i] = i
  BY DEF SchemaInv, OpenTypeOK
<1>2. Len(applied) \in 0 .. LAST /\ DOMAIN applied = 1 .. Len(applied)
  BY <1>1, InOrderBounded
<1>3. \A v \in Nat \ {0} : Applied(v) <=> v <= Len(applied)
  BY <1>1, <1>2 DEF Applied
<1> QED  BY <1>2, <1>3

\* A process that a step leaves alone keeps what it relies on, as the table
\* only grows, and not behind its end.
LEMMA OtherKeeps ==
  ASSUME SchemaInv, NEW q \in Proc,
         conn'[q] = conn[q], version'[q] = version[q],
         Len(applied') \in Nat, Len(applied') >= Len(applied), Len(applied') <= LAST
  PROVE  ConnInv(q)'
<1>1. Len(applied) \in 0 .. LAST
  BY AppliedUpTo
<1>2. version[q] \in Nat /\ ConnInv(q)
  BY LastAssumption DEF SchemaInv, OpenTypeOK
<1> QED  BY <1>1, <1>2, LastAssumption DEF ConnInv

\* So does every process, in a step of p that leaves the table alone and gives
\* p what it may rely on.
LEMMA SameTable ==
  ASSUME SchemaInv, NEW p \in Proc, OpenTypeOK', UNCHANGED applied, ConnInv(p)',
         \A q \in Proc \ {p} : conn'[q] = conn[q] /\ version'[q] = version[q]
  PROVE  SchemaInv'
<1>1. Len(applied) \in 0 .. LAST
  BY AppliedUpTo
<1>2. \A q \in Proc : ConnInv(q)'
  <2> SUFFICES ASSUME NEW q \in Proc \ {p}
               PROVE  ConnInv(q)'
    OBVIOUS
  <2> QED  BY <1>1, OtherKeeps, LastAssumption
<1> QED  BY <1>2 DEF SchemaInv

\* The end of an opening: p has let go of the version it had come to.
LEMMA LeavesKeeps ==
  ASSUME SchemaInv, NEW p \in Proc, NEW how \in {"closed", "open", "error"},
         Leaves(p, how), exists' \in BOOLEAN, UNCHANGED applied,
         how = "open" => Len(applied) = LAST
  PROVE  SchemaInv'
<1>1. Len(applied) \in 0 .. LAST
  BY AppliedUpTo
<1>2. /\ conn'[p] = how /\ version'[p] = 1
      /\ \A q \in Proc \ {p} : conn'[q] = conn[q] /\ version'[q] = version[q]
  BY DEF Leaves, SchemaInv, OpenTypeOK
<1>3. OpenTypeOK'
  BY LastAssumption DEF Leaves, SchemaInv, OpenTypeOK
<1>4. ConnInv(p)'
  BY <1>1, <1>2 DEF ConnInv
<1> QED  BY <1>2, <1>3, <1>4, SameTable

LEMMA OpenKeeps ==
  ASSUME SchemaInv, NEW p \in Proc, Open(p)
  PROVE  SchemaInv'
<1>1. /\ conn'[p] = "checking" /\ version'[p] = version[p]
      /\ \A q \in Proc \ {p} : conn'[q] = conn[q] /\ version'[q] = version[q]
  BY DEF Open, SchemaInv, OpenTypeOK
<1>2. OpenTypeOK'
  BY DEF Open, Opening, SchemaInv, OpenTypeOK
<1>3. ConnInv(p)'
  BY <1>1 DEF Open, ConnInv, SchemaInv
<1> QED  BY <1>1, <1>2, <1>3, SameTable DEF Open

LEMMA CheckKeeps ==
  ASSUME SchemaInv, NEW p \in Proc, Check(p)
  PROVE  SchemaInv'
<1>1. /\ Len(applied) \in 0 .. LAST
      /\ \A v \in Nat \ {0} : Applied(v) <=> v <= Len(applied)
  BY AppliedUpTo
<1>2. /\ version[p] \in 1 .. LAST + 1 /\ version[p] <= Len(applied) + 1
      /\ exists \in BOOLEAN /\ UNCHANGED <<exists, applied>>
  BY DEF Check, ConnInv, SchemaInv, OpenTypeOK
<1>3. ASSUME NEW v \in Missing(p), \A w \in Missing(p) : v <= w,
             conn' = [conn EXCEPT ![p] = "applying"],
             version' = [version EXCEPT ![p] = v], UNCHANGED vacuum
      PROVE  SchemaInv'
  <2>1. v \in 1 .. LAST /\ v > Len(applied)
    BY <1>1, <1>2, LastAssumption DEF Missing
  <2>2. Len(applied) + 1 \in Missing(p)
    BY <1>1, <1>2, <2>1, LastAssumption DEF Missing
  <2>3. v = Len(applied) + 1
    BY <1>1, <1>3, <2>1, <2>2
  <2>4. /\ conn'[p] = "applying" /\ version'[p] = v
        /\ \A q \in Proc \ {p} : conn'[q] = conn[q] /\ version'[q] = version[q]
    BY <1>3 DEF SchemaInv, OpenTypeOK
  <2>5. OpenTypeOK'
    BY <1>2, <1>3, <2>1, LastAssumption DEF Opening, SchemaInv, OpenTypeOK
  <2>6. ConnInv(p)'
    BY <1>2, <2>1, <2>3, <2>4 DEF ConnInv
  <2> QED  BY <1>2, <2>4, <2>5, <2>6, SameTable
<1>4. ASSUME Missing(p) = {}
      PROVE  Len(applied) = LAST
  <2>1. ASSUME Len(applied) < LAST
        PROVE  Len(applied) + 1 \in Missing(p)
    BY <1>1, <1>2, <2>1, LastAssumption DEF Missing
  <2> QED  BY <1>1, <1>4, <2>1, LastAssumption
<1>5. ASSUME Missing(p) = {}, conn' = [conn EXCEPT ![p] = "vacuuming"],
             UNCHANGED <<version, vacuum>>
      PROVE  SchemaInv'
  <2>1. /\ conn'[p] = "vacuuming" /\ version'[p] = version[p]
        /\ \A q \in Proc \ {p} : conn'[q] = conn[q] /\ version'[q] = version[q]
    BY <1>5 DEF SchemaInv, OpenTypeOK
  <2>2. OpenTypeOK'
    BY <1>2, <1>5 DEF Opening, SchemaInv, OpenTypeOK
  <2>3. ConnInv(p)'
    BY <1>2, <1>4, <1>5, <2>1 DEF ConnInv
  <2> QED  BY <1>2, <2>1, <2>2, <2>3, SameTable
<1>6. ASSUME Missing(p) = {}, Leaves(p, "open")
      PROVE  SchemaInv'
  BY <1>2, <1>4, <1>6, LeavesKeeps
<1> QED  BY <1>3, <1>5, <1>6 DEF Check

\* What is not applied by now, and has all before it, is the next one.
LEMMA ApplyKeeps ==
  ASSUME SchemaInv, NEW p \in Proc, Apply(p)
  PROVE  SchemaInv'
<1>1. /\ Len(applied) \in 0 .. LAST /\ DOMAIN applied = 1 .. Len(applied)
      /\ \A v \in Nat \ {0} : Applied(v) <=> v <= Len(applied)
  BY AppliedUpTo
<1>2. /\ version[p] \in 1 .. LAST /\ version[p] <= Len(applied) + 1
      /\ exists \in BOOLEAN /\ UNCHANGED exists
      /\ applied \in Seq(1 .. LAST) /\ \A i \in DOMAIN applied : applied[i] = i
  BY LastAssumption DEF Apply, ConnInv, SchemaInv, OpenTypeOK
<1>3. CASE Applied(version[p])
  <2>1. Leaves(p, "error") /\ UNCHANGED applied
    BY <1>3 DEF Apply
  <2> QED  BY <1>2, <2>1, LeavesKeeps
<1>4. CASE ~Applied(version[p])
  <2>1. Applies(p)
    BY <1>4 DEF Apply
  <2>2. version[p] = Len(applied) + 1 /\ Len(applied) + 1 <= LAST
    BY <1>1, <1>2, <1>4
  <2>3. applied' = Append(applied, version[p])
    BY <2>1 DEF Applies
  <2>4. /\ applied' \in Seq(1 .. LAST) /\ Len(applied') = Len(applied) + 1
        /\ \A i \in DOMAIN applied' : applied'[i] = i
    BY <1>2, <2>2, <2>3
  <2>5. /\ conn'[p] = "checking" /\ version'[p] = version[p] + 1
        /\ \A q \in Proc \ {p} : conn'[q] = conn[q] /\ version'[q] = version[q]
    BY <2>1 DEF Applies, SchemaInv, OpenTypeOK
  <2>6. OpenTypeOK'
    <3>1. conn' \in [Proc -> {"closed", "open", "error"} \cup Opening]
      BY <2>1 DEF Applies, Opening, SchemaInv, OpenTypeOK
    <3>2. version' \in [Proc -> 1 .. LAST + 1]
      BY <1>2, <2>1, LastAssumption DEF Applies, SchemaInv, OpenTypeOK
    <3>3. vacuum' \in [Proc -> BOOLEAN]
      BY <2>1, Zenon DEF Applies, SchemaInv, OpenTypeOK
    <3> QED  BY <1>2, <2>4, <3>1, <3>2, <3>3 DEF OpenTypeOK
  <2>7. ConnInv(p)'
    BY <1>1, <1>2, <2>2, <2>4, <2>5 DEF ConnInv
  <2>8. ASSUME NEW q \in Proc \ {p}
        PROVE  ConnInv(q)'
    BY <1>1, <2>2, <2>4, <2>5, OtherKeeps, LastAssumption
  <2> QED  BY <2>4, <2>6, <2>7, <2>8 DEF SchemaInv
<1> QED  BY <1>3, <1>4

LEMMA EndKeeps ==
  ASSUME SchemaInv, NEW p \in Proc, Vacuum(p) \/ Busy(p) \/ Close(p)
  PROVE  SchemaInv'
<1>1. exists \in BOOLEAN
  BY DEF SchemaInv, OpenTypeOK
<1>2. CASE Vacuum(p)
  BY <1>1, <1>2, LeavesKeeps DEF Vacuum, ConnInv, SchemaInv
<1>3. CASE Busy(p)
  BY <1>1, <1>3, LeavesKeeps DEF Busy
<1>4. CASE Close(p)
  BY <1>1, <1>4, LeavesKeeps DEF Close
<1> QED  BY <1>2, <1>3, <1>4

--------------------------------------------------------------------------

LEMMA InitSchema ==
  ASSUME OpenInit
  PROVE  SchemaInv
<1>1. PICK n \in 0 .. LAST : applied = [i \in 1 .. n |-> i]
  BY DEF OpenInit
<1>2. /\ Len(applied) = n /\ applied \in Seq(1 .. LAST)
      /\ \A i \in DOMAIN applied : applied[i] = i
  BY <1>1, LastAssumption
<1>3. OpenTypeOK
  BY <1>2, LastAssumption DEF OpenInit, OpenTypeOK
<1>4. ASSUME NEW p \in Proc
      PROVE  ConnInv(p)
  <2>1. conn[p] = "closed" /\ version[p] = 1
    BY DEF OpenInit
  <2> QED  BY <1>2, <2>1 DEF ConnInv
<1> QED  BY <1>2, <1>3, <1>4 DEF SchemaInv

LEMMA StepSchema ==
  ASSUME SchemaInv, [OpenNext]_openVars
  PROVE  SchemaInv'
<1>1. CASE UNCHANGED openVars
  BY <1>1 DEF openVars, SchemaInv, OpenTypeOK, ConnInv
<1>2. ASSUME NEW p \in Proc, Open(p) \/ OpenStep(p) \/ Busy(p) \/ Close(p)
      PROVE  SchemaInv'
  BY <1>2, OpenKeeps, CheckKeeps, ApplyKeeps, EndKeeps DEF OpenStep
<1> QED  BY <1>1, <1>2 DEF OpenNext

\* A database stays, and so does one that has all of the migrations.
LEMMA MigratedForGood ==
  ASSUME SchemaInv, [OpenNext]_openVars
  PROVE  /\ exists => exists'
         /\ Len(applied) = LAST => Len(applied') = LAST
<1>1. applied \in Seq(1 .. LAST)
  BY DEF SchemaInv, OpenTypeOK
<1>2. (exists => exists') /\ (applied' = applied \/ \E v : applied' = Append(applied, v))
  BY DEF OpenNext, OpenStep, Open, Check, Apply, Applies, Vacuum, Busy, Close, openVars
<1>3. Len(applied') \in Nat /\ Len(applied') >= Len(applied)
  BY <1>1, <1>2
<1>4. SchemaInv'
  BY StepSchema
<1>5. Len(applied') \in 0 .. LAST
  <2>1. applied' \in Seq(1 .. LAST) /\ \A i \in DOMAIN applied' : applied'[i] = i
    BY <1>4 DEF SchemaInv, OpenTypeOK
  <2> QED  BY <2>1, InOrderBounded
<1> QED  BY <1>2, <1>3, <1>5, LastAssumption

LEMMA SchemaFollows ==
  ASSUME SchemaInv
  PROVE  SchemaInOrder
BY DEF SchemaInv, ConnInv, SchemaInOrder

\* For every set of processes and number of migrations: each migration is
\* applied once and in order, and who has an open connection has all of them.
THEOREM SchemaAlwaysInOrder == OpenSpec => []SchemaInOrder
<1>1. OpenInit => SchemaInv
  BY InitSchema
<1>2. SchemaInv /\ [OpenNext]_openVars => SchemaInv'
  BY StepSchema
<1>3. SchemaInv => SchemaInOrder
  BY SchemaFollows
<1> QED  BY <1>1, <1>2, <1>3, PTL DEF OpenSpec
=============================================================================
