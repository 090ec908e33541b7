------------------------- MODULE FileSyncWholeProofs -------------------------
(***************************************************************************)
(* FileSync when every append leaves whole lines and no statement fails:   *)
(* nothing is lost, and ingestion implements AtLeastOnce. The processes,   *)
(* their number, their kills, the file and the batch size are arbitrary.   *)
(***************************************************************************)
EXTENDS FileSyncProofs

WholeAppends == Cuts = {0} /\ ~ MayFail

(* Every position a call holds is a line start, so no parse sees a part of *)
(* a record line, and no record line is warned about.                      *)
AtLineStart(o) == o % 3 = 0

WholeInv ==
  /\ AtLineStart(len) /\ AtLineStart(lastOffset)
  /\ \A p \in Proc : AtLineStart(seen[p]) /\ AtLineStart(from[p]) /\ AtLineStart(target[p])
  /\ OnlyMalformedReported

LEMMA LineStartsAre ==
  ASSUME NEW k \in Nat
  PROVE  AtLineStart(3 * k)
  BY DEF AtLineStart

LEMMA Thirds ==
  ASSUME NEW o \in Nat, AtLineStart(o)
  PROVE  o \div 3 \in Nat /\ o = 3 * (o \div 3)
  BY DEF AtLineStart

LEMMA WholeReadsWarnOfNoRecord ==
  ASSUME NEW f \in Nat, NEW e \in Nat, AtLineStart(f), AtLineStart(e),
         NEW k \in Warned(f, e)
  PROVE  ~ IsRecord(k)
<1>1. k \in Line /\ k \in Nat /\ k \in Touched(f, e)
  BY Constants DEF Warned, Touched
<1>2. f < 3 * k + 3 /\ 3 * k < e
  BY <1>1 DEF Touched
<1>3. f <= 3 * k /\ 3 * k + 2 <= e
  BY <1>1, <1>2 DEF AtLineStart
<1>4. QED
  BY <1>1, <1>3 DEF Warned, Records, Whole

LEMMA WholeInit == Init => WholeInv
  BY DEF Init, WholeInv, AtLineStart, OnlyMalformedReported

LEMMA WholeReturn ==
  ASSUME TypeOK, WholeInv, NEW p \in Proc, Return(p)
  PROVE  \A q \in Proc : AtLineStart(seen'[q]) /\ AtLineStart(from'[q]) /\ AtLineStart(target'[q])
<1>1. AtLineStart(0)
  BY DEF AtLineStart
<1>2. ASSUME NEW q \in Proc
      PROVE  /\ seen'[q] \in {0, seen[q]}
             /\ from'[q] \in {0, from[q]}
             /\ target'[q] \in {0, target[q]}
  BY DEF Return, TypeOK
<1>3. QED
  BY <1>1, <1>2 DEF WholeInv

LEMMA WholeStep ==
  ASSUME WholeAppends
  PROVE  IInv /\ WholeInv /\ [Next]_vars => WholeInv'
<1> SUFFICES ASSUME IInv, WholeInv, [Next]_vars
             PROVE  WholeInv'
  OBVIOUS
<1> USE DEF fileVars, metaVars, callVars
<1>1. TypeOK /\ ~ MayFail
  BY DEF IInv, WholeAppends
<1>2. AtLineStart(0)
  BY DEF AtLineStart
<1>3. CASE Appends
  BY <1>3 DEF Appends, WholeAppends, WholeInv, AtLineStart, OnlyMalformedReported, IsRecord
<1>4. ASSUME NEW p \in Proc, StatFile(p) \/ OpenFile(p)
      PROVE  WholeInv'
  <2>1. \A q \in Proc : seen'[q] \in {len, seen[q]}
    BY <1>1, <1>4 DEF StatFile, OpenFile, TypeOK
  <2>2. QED
    BY <1>4, <2>1 DEF StatFile, OpenFile, WholeInv, OnlyMalformedReported, IsRecord
<1>5. ASSUME NEW p \in Proc, Return(p), UNCHANGED <<fileVars, reported>>,
             AtLineStart(lastOffset')
      PROVE  WholeInv'
  BY <1>1, <1>5, WholeReturn DEF WholeInv, OnlyMalformedReported, IsRecord
<1>6. ASSUME NEW p \in Proc, ReadOffset(p) \/ ReadOffsetFails(p)
      PROVE  WholeInv'
  <2>1. PICK o \in {0, lastOffset} : UseOffset(p, o)
    BY <1>6 DEF ReadOffset, ReadOffsetFails
  <2>2. AtLineStart(o) /\ UNCHANGED <<fileVars, metaVars, reported>>
    BY <1>2, <1>6 DEF ReadOffset, ReadOffsetFails, WholeInv
  <2>3. CASE Return(p)
    BY <1>5, <2>2, <2>3 DEF WholeInv
  <2>4. CASE ~ Return(p)
    <3>1. \A q \in Proc : /\ seen'[q] \in {0, seen[q]}
                          /\ from'[q] \in {o, from[q]}
                          /\ target'[q] = target[q]
      BY <1>1, <2>1, <2>4 DEF UseOffset, TypeOK
    <3>2. QED
      BY <1>2, <2>2, <3>1 DEF WholeInv, OnlyMalformedReported, IsRecord
  <2>5. QED
    BY <2>3, <2>4
<1>7. ASSUME NEW p \in Proc, ReadLines(p)
      PROVE  WholeInv'
  <2>1. from[p] \in Nat /\ len \in Nat /\ seen[p] \in Nat /\ seen[p] <= len
    BY <1>1, Constants DEF TypeOK, IInv, CallInv
  <2>2. NewOffset(seen[p], len) = seen[p]
    BY <2>1, NewOffsetIsFileLength
  <2>3. \A q \in Proc : /\ seen'[q] \in {0, seen[q]}
                        /\ from'[q] = from[q]
                        /\ target'[q] \in {seen[q], target[q]}
    BY <1>1, <1>7, <2>2 DEF ReadLines, TypeOK
  <2>4. \A k \in Warned(from[p], len) : ~ IsRecord(k)
    BY <2>1, WholeReadsWarnOfNoRecord DEF WholeInv
  <2>5. OnlyMalformedReported'
    BY <1>7, <2>4 DEF ReadLines, WholeInv, OnlyMalformedReported, IsRecord
  <2>6. QED
    BY <1>2, <1>7, <2>3, <2>5 DEF ReadLines, WholeInv
<1>8. ASSUME NEW p \in Proc, ReadError(p) \/ DecomposePanics(p) \/ Crash(p)
      PROVE  WholeInv'
  BY <1>5, <1>8 DEF ReadError, DecomposePanics, Crash, WholeInv
<1>9. ASSUME NEW p \in Proc, CommitEmpty(p)
      PROVE  WholeInv'
  BY <1>5, <1>9 DEF CommitEmpty, WholeInv
<1>10. ASSUME NEW p \in Proc, Decompose(p)
       PROVE  WholeInv'
  BY <1>10 DEF Decompose, WholeInv, OnlyMalformedReported, IsRecord
<1>11. ASSUME NEW p \in Proc, CommitChunk(p)
       PROVE  WholeInv'
  <2>1. AtLineStart(Boundary(p))
    <3>1. CASE todo[p] = {}
      BY <3>1 DEF Boundary, WholeInv
    <3>2. CASE todo[p] # {}
      <4>1. Min(todo[p]) \in Nat
        BY <1>1, <3>2, NextRecordTyped, Constants
      <4>2. QED
        BY <3>2, <4>1, LineStartsAre DEF Boundary, LineStart
    <3>3. QED
      BY <3>1, <3>2
  <2>2. CASE Return(p)
    BY <1>5, <1>11, <2>1, <2>2 DEF CommitChunk, SaveChunk
  <2>3. CASE NextChunk(p)
    BY <1>11, <2>1, <2>3 DEF CommitChunk, SaveChunk, NextChunk, WholeInv,
                             OnlyMalformedReported, IsRecord
  <2>4. QED
    BY <1>11, <2>2, <2>3 DEF CommitChunk
<1>12. CASE UNCHANGED vars
  BY <1>12 DEF vars, WholeInv, OnlyMalformedReported, IsRecord
<1>13. QED
  BY <1>1, <1>3, <1>4, <1>6, <1>7, <1>8, <1>9, <1>10, <1>11, <1>12
  DEF Next, SyncStep, DecomposeFails, TxFails

LEMMA WholeInvariance ==
  ASSUME WholeAppends
  PROVE  Spec => [](IInv /\ WholeInv)
  BY Invariance, WholeInit, WholeStep, PTL DEF Spec

(* A whole record line that the offset has passed is in the database.      *)
THEOREM NothingLost ==
  ASSUME WholeAppends
  PROVE  Spec => []PassedIsIngested
<1>1. IInv /\ WholeInv => PassedIsIngested
  BY DEF IInv, WholeInv, NoSilentLoss, OnlyMalformedReported, PassedIsIngested
<1>2. QED
  BY <1>1, WholeInvariance, PTL

(* No record line is reported as malformed or failed.                      *)
THEOREM NoFalseReport ==
  ASSUME WholeAppends
  PROVE  Spec => []OnlyMalformedReported
<1>1. IInv /\ WholeInv => OnlyMalformedReported
  BY DEF WholeInv
<1>2. QED
  BY <1>1, WholeInvariance, PTL

-----------------------------------------------------------------------------
(* Kept free of \div, which the SMT solver would otherwise chase.           *)
LEMMA TripleOrder ==
  ASSUME NEW a \in Nat, NEW b \in Nat
  PROVE  /\ 3 * a < 3 * b => a < b
         /\ 3 * a <= 3 * b => a \in 0 .. b
  OBVIOUS

LEMMA LineStartOrder ==
  ASSUME NEW x \in Nat, NEW y \in Nat, AtLineStart(x), AtLineStart(y)
  PROVE  /\ x < y => x \div 3 < y \div 3
         /\ x <= y => x \div 3 \in 0 .. (y \div 3)
<1> DEFINE a == x \div 3
           b == y \div 3
<1>1. a \in Nat /\ b \in Nat /\ x = 3 * a /\ y = 3 * b
  BY Thirds
<1>2. (x < y => 3 * a < 3 * b) /\ (x <= y => 3 * a <= 3 * b)
  BY <1>1
<1> HIDE DEF a, b
<1>3. (3 * a < 3 * b => a < b) /\ (3 * a <= 3 * b => a \in 0 .. b)
  BY <1>1, TripleOrder
<1>4. (x < y => a < b) /\ (x <= y => a \in 0 .. b)
  BY <1>2, <1>3
<1>5. QED
  BY <1>4 DEF a, b

(* The refinement: an append is a Write, a commit a Deliver, and every     *)
(* other step of every process leaves the log and the cursor as they are.  *)
LEMMA RefinesInit == Init => ALO!Init
<1> SUFFICES ASSUME Init
             PROVE  ALO!Init
  OBVIOUS
<1>1. {k \in Line : IsRecord(k)} \subseteq Nat
  BY Constants
<1>2. len \div 3 = 0 /\ lastOffset \div 3 = 0 /\ rows = {}
  BY DEF Init
<1>3. QED
  BY <1>1, <1>2 DEF ALO!Init

LEMMA RefinesAppend ==
  ASSUME IInv, IInv', WholeInv, WholeInv', Appends
  PROVE  ALO!Write
<1>1. /\ len \in Nat /\ len' \in Nat /\ len < len'
      /\ AtLineStart(len) /\ AtLineStart(len')
  BY Constants DEF IInv, TypeOK, WholeInv, Appends
<1>2. len' \div 3 \in Nat /\ len \div 3 < len' \div 3
  BY <1>1, Thirds, LineStartOrder
<1>3. {k \in Line : IsRecord(k)}' = {k \in Line : IsRecord(k)}
  BY DEF Appends, IsRecord
<1>4. UNCHANGED <<lastOffset, rows>>
  BY DEF Appends, metaVars
<1>5. QED
  BY <1>2, <1>3, <1>4 DEF ALO!Write

LEMMA RefinesCommit ==
  ASSUME IInv, IInv', WholeInv, WholeInv',
         UNCHANGED <<kind, len>>, rows \subseteq rows'
  PROVE  ALO!Deliver
<1> DEFINE W == {k \in Line : IsRecord(k)}
<1>1. /\ len \in Nat /\ lastOffset' \in Nat /\ lastOffset' <= len
      /\ AtLineStart(len) /\ AtLineStart(lastOffset')
  BY Constants DEF IInv, TypeOK, WithinFile, WholeInv
<1>2. W' = W /\ \A k : IsRecord(k)' <=> IsRecord(k)
  BY DEF IsRecord
<1>3. /\ len \div 3 \in Nat /\ len = 3 * (len \div 3)
      /\ lastOffset' \div 3 \in Nat /\ lastOffset' = 3 * (lastOffset' \div 3)
  BY <1>1, Thirds
<1>4. lastOffset' \div 3 \in 0 .. (len \div 3)
  BY <1>1, LineStartOrder
<1>5. rows' \subseteq ALO!Before(len \div 3)
  <2> SUFFICES ASSUME NEW k \in rows'
               PROVE  k \in W /\ k < len \div 3
    BY DEF ALO!Before
  <2>1. k \in Line /\ IsRecord(k) /\ 3 * k + 2 <= len /\ k \in Nat
    BY <1>2, Constants DEF IInv, TypeOK, WithinFile, Complete, LineStart
  <2>2. QED
    BY <1>3, <2>1
<1>6. ALO!Before(lastOffset' \div 3) \subseteq rows'
  <2> SUFFICES ASSUME NEW k \in W, k < lastOffset' \div 3
               PROVE  k \in rows'
    BY DEF ALO!Before
  <2>1. k \in Line /\ IsRecord(k)' /\ k \in Nat
    BY <1>2, Constants
  <2>2. Started(k, lastOffset')
    BY <1>3, <2>1 DEF Started, LineStart
  <2>3. QED
    BY <2>1, <2>2 DEF IInv, NoSilentLoss, WholeInv, OnlyMalformedReported, Started
<1>7. QED
  BY <1>2, <1>4, <1>5, <1>6 DEF ALO!Deliver, ALO!Before

LEMMA RefinesNext ==
  ASSUME WholeAppends
  PROVE  /\ IInv /\ IInv' /\ WholeInv /\ WholeInv' /\ [Next]_vars
         => [ALO!Next]_(ALO!vars)
<1> SUFFICES ASSUME IInv, IInv', WholeInv, WholeInv', [Next]_vars
             PROVE  [ALO!Next]_(ALO!vars)
  OBVIOUS
<1> USE DEF fileVars, metaVars, callVars
<1>1. CASE Appends
  BY <1>1, RefinesAppend DEF ALO!Next
<1>2. ASSUME NEW p \in Proc, CommitEmpty(p) \/ CommitChunk(p)
      PROVE  ALO!Next
  <2>1. UNCHANGED <<kind, len>> /\ rows \subseteq rows'
    BY <1>2 DEF CommitEmpty, CommitChunk, SaveChunk
  <2>2. QED
    BY <2>1, RefinesCommit DEF ALO!Next
<1>3. ASSUME UNCHANGED <<kind, len, lastOffset, rows>>
      PROVE  UNCHANGED ALO!vars
  BY <1>3 DEF ALO!vars, IsRecord
<1>4. ASSUME NEW p \in Proc,
             \/ StatFile(p) \/ ReadOffset(p) \/ ReadOffsetFails(p)
             \/ OpenFile(p) \/ ReadLines(p)
             \/ ReadError(p) \/ Decompose(p) \/ DecomposePanics(p) \/ Crash(p)
      PROVE  UNCHANGED <<kind, len, lastOffset, rows>>
  BY <1>4 DEF StatFile, ReadOffset, ReadOffsetFails, OpenFile, ReadLines,
              ReadError, Decompose, DecomposePanics, Crash
<1>5. CASE UNCHANGED vars
  BY <1>3, <1>5 DEF vars
<1>6. ~ MayFail
  BY DEF WholeAppends
<1>7. QED
  BY <1>1, <1>2, <1>3, <1>4, <1>5, <1>6
  DEF Next, SyncStep, DecomposeFails, TxFails

(* sync_file, run by any number of processes at once, killed anywhere, is  *)
(* an at-least-once consumer of the file.                                  *)
THEOREM ImplementsAtLeastOnce ==
  ASSUME WholeAppends
  PROVE  Spec => DeliversAtLeastOnce
  BY RefinesInit, RefinesNext, WholeInvariance, PTL
  DEF Spec, DeliversAtLeastOnce, ALO!Spec
=============================================================================
