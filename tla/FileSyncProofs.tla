--------------------------- MODULE FileSyncProofs ---------------------------
(***************************************************************************)
(* Theorems about FileSync, for every set of processes, file, batch size,  *)
(* kind of append and pattern of failures.                                 *)
(***************************************************************************)
EXTENDS FileSync, Facts, FiniteSetTheorems, TLAPS

-----------------------------------------------------------------------------
(* The parser's arithmetic.                                                *)
LEMMA Constants ==
  /\ NumLines \in Nat
  /\ MaxLen \in Nat
  /\ Line \subseteq Nat
  /\ Offset \subseteq Nat
  /\ \A k \in Line : LineStart(k) \in Offset /\ LineStart(k) + 3 <= MaxLen
  BY NumLinesAssumption DEF MaxLen, Line, Offset, LineStart

(* The clamp: a parse that reaches the end of the file saves exactly the   *)
(* length the file had when it was opened, wherever its lines end.         *)
THEOREM NewOffsetIsFileLength ==
  ASSUME NEW length \in Nat, NEW e \in Nat, length <= e
  PROVE  NewOffset(length, e) = length
  BY DEF NewOffset, OffsetAfterLoop, Smaller

(* Every record line begun before the end of a read is below the offset    *)
(* the read started from, parsed, or warned about.                         *)
LEMMA ParseAccounts ==
  ASSUME NEW f \in Nat, NEW e \in Nat, NEW k \in Line, IsRecord(k), LineStart(k) < e
  PROVE  \/ LineStart(k) < f
         \/ k \in Records(f, e)
         \/ k \in Warned(f, e)
<1>1. k \in Nat
  BY Constants
<1>2. kind[k] # "blank"
  BY DEF IsRecord
<1>3. CASE f <= 3 * k
  <2>1. k \in Touched(f, e) /\ ~ Empty(k, f)
    BY <1>1, <1>3 DEF Touched, Empty, LineStart
  <2>2. QED
    BY <1>2, <2>1 DEF Records, Warned
<1>4. CASE ~ (f <= 3 * k)
  BY <1>1, <1>4 DEF LineStart
<1>5. QED
  BY <1>3, <1>4

LEMMA RecordsAre ==
  ASSUME NEW f \in Nat, NEW e \in Nat
  PROVE  /\ Records(f, e) \subseteq Line
         /\ \A k \in Records(f, e) :
              IsRecord(k) /\ f <= LineStart(k) /\ LineStart(k) + 2 <= e
         /\ Warned(f, e) \subseteq Line
  BY DEF Records, Warned, Touched, Whole, LineStart

-----------------------------------------------------------------------------
(* Type correctness.                                                       *)
LEMMA NextRecordTyped ==
  ASSUME TypeOK, NEW p \in Proc, todo[p] # {}
  PROVE  /\ Min(todo[p]) \in todo[p]
         /\ Min(todo[p]) \in Line
         /\ LineStart(Min(todo[p])) \in Offset
         /\ \A j \in todo[p] : Min(todo[p]) <= j
<1>1. todo[p] \in SUBSET Line
  BY DEF TypeOK
<1>2. todo[p] \in SUBSET Nat
  BY <1>1, Constants
<1>3. QED
  BY <1>1, <1>2, MinIsLeast, Constants

LEMMA ReturnTyped ==
  ASSUME TypeOK, NEW p \in Proc, Return(p)
  PROVE  /\ lock' \in Proc \cup {NoProc}
         /\ pc' \in [Proc -> {"idle", "stat", "parse", "opened", "batch", "empty"}]
         /\ seen' \in [Proc -> Offset]
         /\ from' \in [Proc -> Offset]
         /\ target' \in [Proc -> Offset]
         /\ todo' \in [Proc -> SUBSET Line]
         /\ inChunk' \in [Proc -> 0 .. BatchSize]
         /\ pend' \in [Proc -> SUBSET Line]
<1>1. 0 \in Offset /\ 0 \in 0 .. BatchSize
  BY Constants, BatchSizeAssumption DEF Offset
<1>2. QED
  BY <1>1 DEF TypeOK, Return

LEMMA TypeInit == Init => TypeOK
<1>1. 0 \in Offset /\ 0 \in 0 .. BatchSize /\ 0 \in 0 .. MaxFaults
  BY Constants, BatchSizeAssumption, MaxFaultsAssumption DEF Offset
<1>2. QED
  BY <1>1 DEF Init, TypeOK

LEMMA TypeStep == TypeOK /\ [Next]_vars => TypeOK'
<1> SUFFICES ASSUME TypeOK, [Next]_vars
             PROVE  TypeOK'
  OBVIOUS
<1> USE DEF fileVars, metaVars, callVars
<1>1. CASE Appends
  BY <1>1 DEF Appends, TypeOK
<1>2. ASSUME NEW p \in Proc, StatFile(p)
      PROVE  TypeOK'
  BY <1>2 DEF StatFile, TypeOK
<1>3. ASSUME NEW p \in Proc, NEW o \in Offset, UseOffset(p, o),
             UNCHANGED <<fileVars, metaVars, reported>>,
             faults' \in 0 .. MaxFaults
      PROVE  TypeOK'
  <2>1. CASE Return(p)
    BY <1>3, <2>1, ReturnTyped DEF TypeOK
  <2>2. CASE ~ Return(p)
    <3>1. 0 \in Offset
      BY Constants DEF Offset
    <3>2. QED
      BY <1>3, <2>2, <3>1 DEF UseOffset, TypeOK
  <2>3. QED
    BY <2>1, <2>2
<1>4. ASSUME NEW p \in Proc, ReadOffset(p)
      PROVE  TypeOK'
  <2>1. lastOffset \in Offset /\ faults' \in 0 .. MaxFaults
    BY <1>4 DEF ReadOffset, TypeOK
  <2>2. QED
    BY <1>3, <1>4, <2>1 DEF ReadOffset
<1>5. ASSUME NEW p \in Proc, ReadOffsetFails(p)
      PROVE  TypeOK'
  <2>1. 0 \in Offset /\ faults' \in 0 .. MaxFaults
    BY <1>5, Constants, MaxFaultsAssumption DEF ReadOffsetFails, TypeOK, Offset
  <2>2. QED
    BY <1>3, <1>5, <2>1 DEF ReadOffsetFails
<1>6. ASSUME NEW p \in Proc, OpenFile(p)
      PROVE  TypeOK'
  BY <1>6 DEF OpenFile, TypeOK
<1>7. ASSUME NEW p \in Proc, ReadLines(p)
      PROVE  TypeOK'
  <2>1. from[p] \in Nat /\ len \in Nat /\ len \in Offset /\ seen[p] \in Offset
    BY Constants DEF TypeOK
  <2>2. NewOffset(seen[p], len) \in Offset
    BY <2>1, Constants DEF NewOffset, OffsetAfterLoop, Smaller, Offset
  <2>3. 0 \in Offset
    BY Constants DEF Offset
  <2>4. QED
    BY <1>7, <2>1, <2>2, <2>3, RecordsAre DEF ReadLines, TypeOK
<1>8. ASSUME NEW p \in Proc, ReadError(p) \/ TxFails(p) \/ DecomposePanics(p)
      PROVE  TypeOK'
  BY <1>8, ReturnTyped DEF ReadError, TxFails, DecomposePanics, TypeOK
<1>9. ASSUME NEW p \in Proc, CommitEmpty(p)
      PROVE  TypeOK'
  BY <1>9, ReturnTyped DEF CommitEmpty, TypeOK
<1>10. ASSUME NEW p \in Proc, Decompose(p) \/ DecomposeFails(p)
       PROVE  TypeOK'
  <2>1. inChunk[p] + 1 \in 0 .. BatchSize /\ todo[p] # {}
    BY <1>10, BatchSizeAssumption DEF Decompose, DecomposeFails, ChunkDone, TypeOK
  <2>2. QED
    BY <1>10, <2>1, NextRecordTyped DEF Decompose, DecomposeFails, Handled, TypeOK
<1>11. ASSUME NEW p \in Proc, CommitChunk(p)
       PROVE  TypeOK'
  <2>1. Boundary(p) \in Offset
    BY NextRecordTyped DEF Boundary, TypeOK
  <2>2. lastOffset' \in Offset /\ recordCount' \in Nat /\ rows' \subseteq Line
    BY <1>11, <2>1, BatchSizeAssumption DEF CommitChunk, SaveChunk, Counted, TypeOK
  <2>3. CASE todo[p] = {}
    BY <1>11, <2>2, <2>3, ReturnTyped DEF CommitChunk, TypeOK
  <2>4. CASE todo[p] # {}
    BY <1>11, <2>2, <2>4, BatchSizeAssumption DEF CommitChunk, NextChunk, TypeOK
  <2>5. QED
    BY <2>3, <2>4
<1>12. ASSUME NEW p \in Proc, Crash(p)
       PROVE  TypeOK'
  <2>1. faults' \in 0 .. MaxFaults
    BY <1>12, MaxFaultsAssumption DEF Crash, TypeOK
  <2>2. QED
    BY <1>12, <2>1, ReturnTyped DEF Crash, TypeOK
<1>13. CASE UNCHANGED vars
  BY <1>13 DEF vars, TypeOK
<1>14. QED
  BY <1>1, <1>2, <1>4, <1>5, <1>6, <1>7, <1>8, <1>9, <1>10, <1>11, <1>12, <1>13
  DEF Next, SyncStep

(* TypeOK holds in every reachable state, for any number of processes.     *)
THEOREM TypeCorrect == Spec => []TypeOK
  BY TypeInit, TypeStep, PTL DEF Spec

-----------------------------------------------------------------------------
(***************************************************************************)
(* The inductive invariant IInv. A step of one call leaves the locals of   *)
(* the other calls alone and only adds rows, reports and file contents;    *)
(* that is all CallInv of the others needs.                                *)
(***************************************************************************)
Grows ==
  /\ kind' = kind
  /\ len <= len'
  /\ rows \subseteq rows'
  /\ reported \subseteq reported'

SameCall(q) ==
  /\ pc'[q] = pc[q]
  /\ seen'[q] = seen[q]
  /\ from'[q] = from[q]
  /\ target'[q] = target[q]
  /\ todo'[q] = todo[q]
  /\ inChunk'[q] = inChunk[q]
  /\ pend'[q] = pend[q]

LEMMA OtherCall ==
  ASSUME TypeOK, TypeOK', NEW q \in Proc, CallInv(q), Grows, SameCall(q)
  PROVE  CallInv(q)'
<1>1. len \in Nat /\ len' \in Nat /\ seen[q] \in Nat /\ from[q] \in Nat /\ target[q] \in Nat
  BY Constants DEF TypeOK
<1>2. \A k \in Line : LineStart(k) \in Nat
  BY Constants
<1>3. \A k : /\ IsRecord(k)' <=> IsRecord(k)
             /\ Accounted(k) => Accounted(k)'
  BY DEF Grows, IsRecord, Accounted
<1>4. todo[q] \subseteq Line /\ pend[q] \subseteq Line
  BY DEF TypeOK
<1>5. \A k \in Line : Complete(k) => Complete(k)'
  BY <1>1, <1>2 DEF Grows, Complete
<1>6. AccountedBelow(from[q]) => AccountedBelow(from[q])'
  BY <1>3 DEF AccountedBelow, SameCall, Started
<1>7. BatchInv(q) => BatchInv(q)'
  BY <1>3 DEF BatchInv, SameCall, Started
<1>8. seen'[q] <= len' /\ from'[q] <= len' /\ target'[q] <= len'
  BY <1>1 DEF CallInv, SameCall, Grows
<1>9. pc'[q] = "parse" => from'[q] < len'
  BY <1>1 DEF CallInv, SameCall, Grows
<1>10. \A k \in todo'[q] \cup pend'[q] : IsRecord(k)' /\ Complete(k)'
  BY <1>3, <1>4, <1>5 DEF CallInv, SameCall
<1>11. QED
  BY <1>6, <1>7, <1>8, <1>9, <1>10 DEF CallInv, SameCall

(* A call that has returned has nothing left to promise.                   *)
LEMMA ReturnedCall ==
  ASSUME TypeOK, TypeOK', NEW p \in Proc, Return(p)
  PROVE  /\ CallInv(p)'
         /\ \A q \in Proc \ {p} : SameCall(q)
<1>1. /\ pc'[p] = "idle" /\ seen'[p] = 0 /\ from'[p] = 0 /\ target'[p] = 0
      /\ todo'[p] = {} /\ inChunk'[p] = 0 /\ pend'[p] = {}
  BY DEF Return, TypeOK
<1>2. 0 <= len'
  BY Constants DEF TypeOK
<1>3. AccountedBelow(from[p])'
  BY <1>1, Constants DEF AccountedBelow, Started, Offset
<1>4. CallInv(p)'
  BY <1>1, <1>2, <1>3 DEF CallInv
<1>5. QED
  BY <1>4 DEF Return, SameCall, TypeOK

LEMMA DatabaseUntouched ==
  ASSUME TypeOK, TypeOK', NoSilentLoss, WithinFile, Grows, UNCHANGED <<lastOffset, rows>>
  PROVE  NoSilentLoss' /\ WithinFile'
<1>1. \A k \in Line : LineStart(k) \in Nat
  BY Constants
<1>2. len \in Nat /\ len' \in Nat /\ lastOffset \in Nat /\ rows \subseteq Line
  BY Constants DEF TypeOK
<1>3. NoSilentLoss'
  BY DEF NoSilentLoss, Grows, IsRecord, Started
<1>4. WithinFile'
  BY <1>1, <1>2 DEF WithinFile, Grows, IsRecord, Complete
<1>5. QED
  BY <1>3, <1>4

(* Before the parse: the stat, the SELECT and the open.                    *)
LEMMA StatFileStep ==
  ASSUME IInv, TypeOK', NEW p \in Proc, StatFile(p)
  PROVE  CallInv(p)'
<1>1. /\ pc'[p] = "stat" /\ seen'[p] = len /\ len' = len
      /\ \A k : IsRecord(k)' <=> IsRecord(k)
      /\ \A k : Accounted(k)' <=> Accounted(k)
  BY DEF StatFile, IInv, TypeOK, fileVars, metaVars, IsRecord, Accounted
<1>2. len \in Nat
  BY Constants DEF IInv, TypeOK
<1>3. QED
  BY <1>1, <1>2 DEF StatFile, IInv, CallInv, AccountedBelow, Started, fileVars

LEMMA UseOffsetStep ==
  ASSUME IInv, TypeOK', NEW p \in Proc, pc[p] = "stat",
         NEW o \in Offset, o <= lastOffset, UseOffset(p, o),
         UNCHANGED <<fileVars, metaVars, reported>>
  PROVE  CallInv(p)' /\ \A q \in Proc \ {p} : SameCall(q)
<1>1. CASE Return(p)
  BY <1>1, ReturnedCall DEF IInv
<1>2. CASE ~ Return(p)
  <2>1. /\ pc'[p] = "parse" /\ seen'[p] = 0 /\ from'[p] = o /\ len' = len
        /\ \A k : IsRecord(k)' <=> IsRecord(k)
        /\ \A k : Accounted(k)' <=> Accounted(k)
    BY <1>2 DEF UseOffset, IInv, TypeOK, fileVars, metaVars, IsRecord, Accounted
  <2>2. /\ len \in Nat /\ seen[p] \in Nat /\ lastOffset \in Nat /\ o \in Nat
        /\ \A k \in Line : LineStart(k) \in Nat
    BY Constants DEF IInv, TypeOK
  <2>3. o < seen[p] /\ seen[p] <= len
    BY <1>2, <2>2 DEF UseOffset, IInv, CallInv
  <2>4. AccountedBelow(o)
    BY <2>2 DEF IInv, NoSilentLoss, AccountedBelow, Accounted, Started
  <2>5. AccountedBelow(from[p])'
    BY <2>1, <2>4 DEF AccountedBelow, Started
  <2>6. target'[p] = target[p] /\ todo'[p] = todo[p] /\ pend'[p] = pend[p] /\ inChunk'[p] = inChunk[p]
    BY <1>2 DEF UseOffset
  <2>7. target[p] <= len /\ todo[p] = {} /\ pend[p] = {} /\ inChunk[p] = 0
    BY DEF IInv, CallInv
  <2>8. CallInv(p)'
    BY <2>1, <2>2, <2>3, <2>5, <2>6, <2>7 DEF CallInv
  <2>9. QED
    BY <1>2, <2>8 DEF UseOffset, SameCall, IInv, TypeOK
<1>3. QED
  BY <1>1, <1>2

LEMMA OpenFileStep ==
  ASSUME IInv, TypeOK', NEW p \in Proc, OpenFile(p)
  PROVE  CallInv(p)'
<1>1. /\ pc'[p] = "opened" /\ seen'[p] = len /\ len' = len
      /\ \A k : IsRecord(k)' <=> IsRecord(k)
      /\ \A k : Accounted(k)' <=> Accounted(k)
  BY DEF OpenFile, IInv, TypeOK, fileVars, metaVars, IsRecord, Accounted
<1>2. len \in Nat
  BY Constants DEF IInv, TypeOK
<1>3. QED
  BY <1>1, <1>2 DEF OpenFile, IInv, CallInv, AccountedBelow, Started, fileVars

(* The parse: what it finds is to do, what it passes over is warned about. *)
LEMMA ReadLinesStep ==
  ASSUME IInv, TypeOK', NEW p \in Proc, ReadLines(p)
  PROVE  CallInv(p)'
<1> DEFINE R == Records(from[p], len)
<1>1. /\ len \in Nat /\ seen[p] \in Nat /\ from[p] \in Nat
      /\ \A k \in Line : LineStart(k) \in Nat /\ k \in Nat
  BY Constants DEF IInv, TypeOK
<1>2. from[p] < seen[p] /\ seen[p] <= len
  BY DEF ReadLines, IInv, CallInv
<1>3. /\ pc'[p] \in {"batch", "empty"} /\ (pc'[p] = "empty" => R = {})
      /\ seen'[p] = 0 /\ target'[p] = seen[p] /\ todo'[p] = R
      /\ from' = from /\ len' = len /\ rows' = rows
      /\ reported' = reported \cup Warned(from[p], len)
      /\ \A k : IsRecord(k)' <=> IsRecord(k)
  BY <1>1, <1>2, NewOffsetIsFileLength
  DEF ReadLines, IInv, TypeOK, fileVars, metaVars, IsRecord
<1>4. inChunk'[p] = 0 /\ pend'[p] = {}
  BY DEF ReadLines, IInv, CallInv
<1>5. \A k : Accounted(k) => Accounted(k)'
  BY <1>3 DEF Accounted
<1>6. AccountedBelow(from[p])'
  BY <1>3, <1>5 DEF IInv, CallInv, AccountedBelow, Started
<1>7. \A k \in R : /\ k \in Line /\ IsRecord(k)
                   /\ from[p] <= LineStart(k) /\ LineStart(k) + 2 <= len
  BY <1>1, RecordsAre
<1>8. ASSUME NEW k \in Line \ R, IsRecord(k),
             LineStart(k) < seen[p] \/ \E j \in R : k < j
      PROVE  Accounted(k)'
  <2>1. LineStart(k) < len
    BY <1>1, <1>2, <1>7, <1>8 DEF LineStart
  <2>2. LineStart(k) < from[p] \/ k \in Warned(from[p], len)
    BY <1>1, <1>8, <2>1, ParseAccounts
  <2>3. LineStart(k) < from[p] => Accounted(k)
    BY <1>8 DEF IInv, CallInv, AccountedBelow, Started
  <2>4. QED
    BY <1>3, <1>5, <2>2, <2>3 DEF Accounted
<1>9. BatchInv(p)'
  BY <1>1, <1>2, <1>3, <1>4, <1>7, <1>8 DEF BatchInv, Started
<1>10. QED
  BY <1>1, <1>2, <1>3, <1>4, <1>6, <1>7, <1>9 DEF CallInv, Complete

(* One record: it moves from the records to do to the open transaction, or *)
(* to the reported ones.                                                   *)
LEMMA HandledStep ==
  ASSUME IInv, TypeOK', NEW p \in Proc, Decompose(p) \/ DecomposeFails(p)
  PROVE  CallInv(p)' /\ Grows
<1> DEFINE m == Min(todo[p])
<1>1. todo[p] # {} /\ pc[p] = "batch" /\ inChunk[p] \in Nat
  BY BatchSizeAssumption DEF Decompose, DecomposeFails, ChunkDone, IInv, TypeOK
<1>2. m \in todo[p] /\ m \in Line /\ \A j \in todo[p] : m <= j
  BY <1>1, NextRecordTyped DEF IInv
<1>3. /\ pc' = pc /\ seen' = seen /\ from' = from /\ target' = target
      /\ todo'[p] = todo[p] \ {m} /\ inChunk'[p] = inChunk[p] + 1
      /\ kind' = kind /\ len' = len /\ rows' = rows /\ reported \subseteq reported'
      /\ \/ pend'[p] = pend[p] \cup {m}
         \/ pend'[p] = pend[p] /\ m \in reported'
  BY <1>2 DEF Decompose, DecomposeFails, Handled, IInv, TypeOK, fileVars, metaVars
<1>4. len \in Nat /\ todo[p] \subseteq Line /\ pend[p] \subseteq Line
      /\ from[p] \in Nat /\ target[p] \in Nat
      /\ \A k \in Line : k \in Nat /\ LineStart(k) \in Nat
  BY Constants DEF IInv, TypeOK
<1>5. Grows
  BY <1>3, <1>4 DEF Grows
<1>6. \A k : /\ IsRecord(k)' <=> IsRecord(k)
             /\ Accounted(k) => Accounted(k)'
             /\ Complete(k)' <=> Complete(k)
  BY <1>3 DEF IsRecord, Accounted, Complete
<1>7. BatchInv(p)'
  <2>1. CallInv(p) /\ BatchInv(p)
    BY <1>1 DEF IInv, CallInv
  <2>2. from'[p] < target'[p]
    BY <1>3, <2>1 DEF BatchInv
  <2>3. ASSUME NEW k \in Line \ todo'[p], IsRecord(k)',
               Started(k, target'[p]) \/ \E j \in todo'[p] : k < j
        PROVE  Accounted(k)' \/ k \in pend'[p]
    <3>1. CASE k = m
      BY <1>3, <3>1 DEF Accounted
    <3>2. CASE k # m
      <4>1. k \in Line \ todo[p] /\ IsRecord(k)
        BY <1>3, <1>6, <2>3, <3>2
      <4>2. Started(k, target[p]) \/ \E j \in todo[p] : k < j
        BY <1>3, <2>3
      <4>3. Accounted(k) \/ k \in pend[p]
        BY <2>1, <4>1, <4>2 DEF BatchInv
      <4>4. QED
        BY <1>3, <1>6, <4>3
    <3>3. QED
      BY <3>1, <3>2
  <2>4. \A j \in todo'[p] : from'[p] < LineStart(j)
    <3>1. from[p] <= LineStart(m)
      BY <1>2, <2>1 DEF BatchInv
    <3>2. \A j \in todo[p] \ {m} : LineStart(m) < LineStart(j)
      BY <1>2, <1>4 DEF LineStart
    <3>3. QED
      BY <1>2, <1>3, <1>4, <3>1, <3>2
  <2>5. \A j \in todo'[p] : from'[p] <= LineStart(j)
    BY <1>3, <1>4, <2>4
  <2>6. QED
    BY <1>1, <1>3, <2>2, <2>3, <2>4, <2>5 DEF BatchInv, Started
<1>8. \A k \in todo'[p] \cup pend'[p] : IsRecord(k)' /\ Complete(k)'
  BY <1>2, <1>3, <1>6 DEF IInv, CallInv
<1>9. AccountedBelow(from[p])'
  BY <1>3, <1>6 DEF IInv, CallInv, AccountedBelow, Started
<1>10. QED
  BY <1>1, <1>3, <1>5, <1>7, <1>8, <1>9 DEF IInv, CallInv

(* The offset saved with a chunk.                                          *)
LEMMA BoundaryLies ==
  ASSUME IInv, NEW p \in Proc, pc[p] = "batch", ChunkDone(p)
  PROVE  /\ Boundary(p) \in Offset
         /\ from[p] < Boundary(p) /\ Boundary(p) <= len
         /\ \A k \in Line : IsRecord(k) /\ Started(k, Boundary(p))
                            => Accounted(k) \/ k \in pend[p]
<1>1. CallInv(p) /\ BatchInv(p) /\ TypeOK
  BY DEF IInv, CallInv
<1>2. CASE todo[p] = {}
  BY <1>1, <1>2 DEF Boundary, BatchInv, CallInv, TypeOK
<1>3. CASE todo[p] # {}
  <2> DEFINE m == Min(todo[p])
  <2>1. m \in todo[p] /\ m \in Line /\ LineStart(m) \in Offset /\ \A j \in todo[p] : m <= j
    BY <1>1, <1>3, NextRecordTyped
  <2>2. Boundary(p) = LineStart(m)
    BY <1>3 DEF Boundary
  <2>3. inChunk[p] > 0
    BY <1>3, BatchSizeAssumption DEF ChunkDone
  <2>4. from[p] < LineStart(m)
    BY <1>1, <2>1, <2>3 DEF BatchInv
  <2>5. LineStart(m) <= len
    <3>1. Complete(m)
      BY <1>1, <2>1 DEF CallInv
    <3>2. len \in Nat /\ LineStart(m) \in Nat
      BY <1>1, <2>1, Constants DEF TypeOK
    <3>3. QED
      BY <3>1, <3>2 DEF Complete
  <2>6. ASSUME NEW k \in Line, IsRecord(k), Started(k, LineStart(m))
        PROVE  Accounted(k) \/ k \in pend[p]
    <3>1. k \in Nat /\ m \in Nat
      BY <2>1, Constants
    <3>2. k < m
      BY <2>6, <3>1 DEF Started, LineStart
    <3>3. k \notin todo[p]
      BY <2>1, <3>1, <3>2
    <3>4. QED
      BY <1>1, <2>1, <2>6, <3>2, <3>3 DEF BatchInv
  <2>7. QED
    BY <2>1, <2>2, <2>4, <2>5, <2>6
<1>4. QED
  BY <1>2, <1>3

LEMMA CommitChunkStep ==
  ASSUME IInv, TypeOK', NEW p \in Proc, CommitChunk(p)
  PROVE  /\ CallInv(p)' /\ \A q \in Proc \ {p} : SameCall(q)
         /\ Grows /\ NoSilentLoss' /\ WithinFile'
<1>1. /\ pc[p] = "batch" /\ ChunkDone(p)
      /\ lastOffset' = Boundary(p) /\ rows' = rows \cup pend[p]
      /\ kind' = kind /\ len' = len /\ reported' = reported
  BY DEF CommitChunk, SaveChunk, fileVars
<1>2. len \in Nat
  BY Constants DEF IInv, TypeOK
<1>3. Grows
  BY <1>1, <1>2 DEF Grows
<1>4. \A k : /\ IsRecord(k)' <=> IsRecord(k)
             /\ Accounted(k)' <=> Accounted(k) \/ k \in pend[p]
             /\ Complete(k)' <=> Complete(k)
  BY <1>1 DEF IsRecord, Accounted, Complete
<1>5. NoSilentLoss'
  BY <1>1, <1>4, BoundaryLies DEF NoSilentLoss, Accounted, Started
<1>6. WithinFile'
  BY <1>1, <1>4, BoundaryLies DEF IInv, CallInv, WithinFile
<1>7. CASE todo[p] = {}
  BY <1>3, <1>5, <1>6, <1>7, ReturnedCall DEF CommitChunk, IInv
<1>8. CASE todo[p] # {}
  <2>1. /\ inChunk'[p] = 0 /\ pend'[p] = {}
        /\ UNCHANGED <<pc, seen, from, target, todo>>
    BY <1>8 DEF CommitChunk, NextChunk, IInv, TypeOK
  <2>2. CallInv(p) /\ BatchInv(p)
    BY <1>1 DEF IInv, CallInv
  <2>3. BatchInv(p)'
    BY <1>1, <1>4, <2>1, <2>2 DEF BatchInv, Started
  <2>4. AccountedBelow(from[p])'
    BY <1>4, <2>1, <2>2 DEF CallInv, AccountedBelow, Started
  <2>5. CallInv(p)'
    BY <1>1, <1>4, <2>1, <2>2, <2>3, <2>4 DEF CallInv
  <2>6. QED
    BY <1>3, <1>5, <1>6, <1>8, <2>5 DEF CommitChunk, NextChunk, SameCall, IInv, TypeOK
<1>9. QED
  BY <1>7, <1>8

LEMMA CommitEmptyStep ==
  ASSUME IInv, TypeOK', NEW p \in Proc, CommitEmpty(p)
  PROVE  /\ Grows /\ NoSilentLoss' /\ WithinFile'
         /\ from[p] < lastOffset'
<1>1. /\ pc[p] = "empty" /\ lastOffset' = target[p]
      /\ kind' = kind /\ len' = len /\ rows' = rows /\ reported' = reported
  BY DEF CommitEmpty, fileVars
<1>2. CallInv(p) /\ BatchInv(p) /\ todo[p] = {} /\ pend[p] = {}
  BY <1>1 DEF IInv, CallInv, BatchInv
<1>3. len \in Nat
  BY Constants DEF IInv, TypeOK
<1>4. Grows
  BY <1>1, <1>3 DEF Grows
<1>5. NoSilentLoss'
  BY <1>1, <1>2 DEF NoSilentLoss, BatchInv, Accounted, Started, IsRecord
<1>6. WithinFile'
  BY <1>1, <1>2 DEF IInv, CallInv, WithinFile, IsRecord, Complete
<1>7. QED
  BY <1>1, <1>2, <1>4, <1>5, <1>6 DEF BatchInv

LEMMA InvInit == Init => IInv
<1> SUFFICES ASSUME Init
             PROVE  IInv
  OBVIOUS
<1>1. TypeOK
  BY TypeInit
<1>2. NoSilentLoss /\ WithinFile
  BY Constants DEF Init, NoSilentLoss, WithinFile, Started, Offset
<1>3. \A p \in Proc : CallInv(p)
  BY Constants DEF Init, CallInv, AccountedBelow, Started, Offset
<1>4. QED
  BY <1>1, <1>2, <1>3 DEF IInv

LEMMA InvStep == IInv /\ [Next]_vars => IInv'
<1> SUFFICES ASSUME IInv, [Next]_vars
             PROVE  IInv'
  OBVIOUS
<1> USE DEF fileVars, metaVars, callVars
<1>1. TypeOK /\ TypeOK' /\ NoSilentLoss /\ WithinFile
  BY TypeStep DEF IInv
<1>2. len \in Nat /\ len' \in Nat
  BY <1>1, Constants DEF TypeOK
<1>3. ASSUME NEW p \in Proc, CallInv(p)', \A q \in Proc \ {p} : SameCall(q), Grows,
             NoSilentLoss', WithinFile'
      PROVE  IInv'
  <2>1. \A q \in Proc \ {p} : CallInv(q)'
    BY <1>1, <1>3, OtherCall DEF IInv
  <2>2. QED
    BY <1>1, <1>3, <2>1 DEF IInv
<1>4. ASSUME NEW p \in Proc, CallInv(p)', \A q \in Proc \ {p} : SameCall(q), Grows,
             UNCHANGED <<lastOffset, rows>>
      PROVE  IInv'
  BY <1>1, <1>3, <1>4, DatabaseUntouched
<1>5. CASE Appends
  <2>1. Grows /\ UNCHANGED <<lastOffset, rows>> /\ \A q \in Proc : SameCall(q)
    BY <1>2, <1>5 DEF Appends, Grows, SameCall
  <2>2. QED
    BY <1>1, <2>1, OtherCall, DatabaseUntouched DEF IInv
<1>6. ASSUME NEW p \in Proc, StatFile(p)
      PROVE  IInv'
  <2>1. \A q \in Proc \ {p} : SameCall(q)
    BY <1>1, <1>6 DEF StatFile, SameCall, TypeOK
  <2>2. Grows /\ UNCHANGED <<lastOffset, rows>>
    BY <1>2, <1>6 DEF StatFile, Grows
  <2>3. QED
    BY <1>1, <1>4, <1>6, <2>1, <2>2, StatFileStep
<1>7. ASSUME NEW p \in Proc, ReadOffset(p)
      PROVE  IInv'
  <2>1. lastOffset \in Offset /\ lastOffset <= lastOffset
    BY <1>1, Constants DEF TypeOK
  <2>2. Grows
    BY <1>2, <1>7 DEF ReadOffset, Grows
  <2>3. QED
    BY <1>1, <1>4, <1>7, <2>1, <2>2, UseOffsetStep DEF ReadOffset
<1>8. ASSUME NEW p \in Proc, ReadOffsetFails(p)
      PROVE  IInv'
  <2>1. 0 \in Offset /\ 0 <= lastOffset
    BY <1>1, Constants DEF TypeOK, Offset
  <2>2. Grows
    BY <1>2, <1>8 DEF ReadOffsetFails, Grows
  <2>3. QED
    BY <1>1, <1>4, <1>8, <2>1, <2>2, UseOffsetStep DEF ReadOffsetFails
<1>9. ASSUME NEW p \in Proc, OpenFile(p)
      PROVE  IInv'
  <2>1. \A q \in Proc \ {p} : SameCall(q)
    BY <1>1, <1>9 DEF OpenFile, SameCall, TypeOK
  <2>2. Grows /\ UNCHANGED <<lastOffset, rows>>
    BY <1>2, <1>9 DEF OpenFile, Grows
  <2>3. QED
    BY <1>1, <1>4, <1>9, <2>1, <2>2, OpenFileStep
<1>10. ASSUME NEW p \in Proc, ReadLines(p)
       PROVE  IInv'
  <2>1. \A q \in Proc \ {p} : SameCall(q)
    BY <1>1, <1>10 DEF ReadLines, SameCall, TypeOK
  <2>2. Grows /\ UNCHANGED <<lastOffset, rows>>
    BY <1>2, <1>10 DEF ReadLines, Grows
  <2>3. QED
    BY <1>1, <1>4, <1>10, <2>1, <2>2, ReadLinesStep
<1>11. ASSUME NEW p \in Proc, Return(p), UNCHANGED <<fileVars, metaVars, reported>>
       PROVE  IInv'
  BY <1>1, <1>2, <1>4, <1>11, ReturnedCall DEF Grows
<1>12. ASSUME NEW p \in Proc, ReadError(p) \/ TxFails(p) \/ DecomposePanics(p) \/ Crash(p)
       PROVE  IInv'
  BY <1>11, <1>12 DEF ReadError, TxFails, DecomposePanics, Crash
<1>13. ASSUME NEW p \in Proc, CommitEmpty(p)
       PROVE  IInv'
  BY <1>1, <1>3, <1>13, CommitEmptyStep, ReturnedCall DEF CommitEmpty
<1>14. ASSUME NEW p \in Proc, Decompose(p) \/ DecomposeFails(p)
       PROVE  IInv'
  <2>1. \A q \in Proc \ {p} : SameCall(q)
    BY <1>1, <1>14 DEF Decompose, DecomposeFails, Handled, SameCall, TypeOK
  <2>2. UNCHANGED <<lastOffset, rows>>
    BY <1>14 DEF Decompose, DecomposeFails
  <2>3. QED
    BY <1>1, <1>4, <1>14, <2>1, <2>2, HandledStep
<1>15. ASSUME NEW p \in Proc, CommitChunk(p)
       PROVE  IInv'
  BY <1>1, <1>3, <1>15, CommitChunkStep
<1>16. CASE UNCHANGED vars
  <2>1. Grows /\ UNCHANGED <<lastOffset, rows>> /\ \A q \in Proc : SameCall(q)
    BY <1>2, <1>16 DEF vars, Grows, SameCall
  <2>2. QED
    BY <1>1, <2>1, OtherCall, DatabaseUntouched DEF IInv
<1>17. QED
  BY <1>5, <1>6, <1>7, <1>8, <1>9, <1>10, <1>12, <1>13, <1>14, <1>15, <1>16
  DEF Next, SyncStep

(* IInv holds in every reachable state.                                    *)
THEOREM Invariance == Spec => []IInv
  BY InvInit, InvStep, PTL DEF Spec

(* No record line the offset has moved past is lost without a report.      *)
THEOREM SilentLossNever == Spec => []NoSilentLoss
<1>1. IInv => NoSilentLoss
  BY DEF IInv
<1>2. QED
  BY <1>1, Invariance, PTL

(* The offset stays within the file, and rows come from complete bodies.   *)
THEOREM OffsetWithinFile == Spec => []WithinFile
<1>1. IInv => WithinFile
  BY DEF IInv
<1>2. QED
  BY <1>1, Invariance, PTL

(* Every commit moves the offset past the one its call started from.       *)
THEOREM CommitsAdvance == Spec => CommitAdvances
<1>1. IInv /\ [Next]_vars
        => [\A p \in Proc : CommitChunk(p) \/ CommitEmpty(p) => lastOffset' > from[p]]_vars
  <2> SUFFICES ASSUME IInv, [Next]_vars, NEW p \in Proc, CommitChunk(p) \/ CommitEmpty(p)
               PROVE  lastOffset' > from[p]
    OBVIOUS
  <2>1. TypeOK'
    BY TypeStep DEF IInv
  <2>2. from[p] \in Nat
    BY Constants DEF IInv, TypeOK
  <2>3. CASE CommitChunk(p)
    BY <2>2, <2>3, BoundaryLies, Constants DEF CommitChunk, SaveChunk
  <2>4. CASE CommitEmpty(p)
    <3>1. from[p] < lastOffset' /\ lastOffset' \in Nat
      BY <2>1, <2>4, CommitEmptyStep, Constants DEF TypeOK
    <3>2. QED
      BY <2>2, <3>1
  <2>5. QED
    BY <2>3, <2>4
<1>2. QED
  BY <1>1, Invariance, PTL DEF Spec, CommitAdvances
-----------------------------------------------------------------------------
(***************************************************************************)
(* record_count. A chunk counts each record it handles, and its            *)
(* transaction holds at most those.                                        *)
(***************************************************************************)
CountInv ==
  /\ CountCoversRows
  /\ \A p \in Proc : Cardinality(pend[p]) <= inChunk[p]

LEMMA LinesFinite ==
  ASSUME NEW S \in SUBSET Line
  PROVE  IsFiniteSet(S) /\ Cardinality(S) \in Nat
<1>1. IsFiniteSet(Line)
  BY NumLinesAssumption, FS_Interval DEF Line
<1>2. IsFiniteSet(S)
  BY <1>1, FS_Subset
<1>3. QED
  BY <1>2, FS_CardinalityType

LEMMA UnionCounts ==
  ASSUME NEW S \in SUBSET Line, NEW T \in SUBSET Line
  PROVE  Cardinality(S \cup T) <= Cardinality(S) + Cardinality(T)
<1>1. IsFiniteSet(S) /\ IsFiniteSet(T) /\ IsFiniteSet(S \cap T)
  BY LinesFinite
<1>2. Cardinality(S \cup T) = Cardinality(S) + Cardinality(T) - Cardinality(S \cap T)
  BY <1>1, FS_Union
<1>3. Cardinality(S) \in Nat /\ Cardinality(T) \in Nat /\ Cardinality(S \cap T) \in Nat
  BY LinesFinite
<1>4. QED
  BY <1>2, <1>3

LEMMA CountInit ==
  ASSUME Init
  PROVE  CountInv
  BY FS_EmptySet DEF Init, CountInv, CountCoversRows

LEMMA ReturnCounts ==
  ASSUME TypeOK, CountInv, NEW p \in Proc, Return(p)
  PROVE  \A q \in Proc : Cardinality(pend'[q]) <= inChunk'[q]
  BY FS_EmptySet DEF TypeOK, CountInv, Return

LEMMA HandledCounts ==
  ASSUME TypeOK, CountInv, NEW p \in Proc, Decompose(p) \/ DecomposeFails(p)
  PROVE  \A q \in Proc : Cardinality(pend'[q]) <= inChunk'[q]
<1> SUFFICES ASSUME NEW q \in Proc
             PROVE  Cardinality(pend'[q]) <= inChunk'[q]
  OBVIOUS
<1>1. pend[q] \in SUBSET Line /\ inChunk[q] \in Nat
  BY BatchSizeAssumption DEF TypeOK
<1>2. Cardinality(pend[q]) \in Nat /\ IsFiniteSet(pend[q]) /\ Cardinality(pend[q]) <= inChunk[q]
  BY <1>1, LinesFinite DEF CountInv
<1>3. CASE q # p
  <2>1. pend'[q] = pend[q] /\ inChunk'[q] = inChunk[q]
    BY <1>3 DEF TypeOK, Decompose, DecomposeFails, Handled
  <2>2. QED
    BY <1>2, <2>1
<1>4. CASE q = p
  <2>1. inChunk'[q] = inChunk[q] + 1
    BY <1>4 DEF TypeOK, Decompose, DecomposeFails, Handled
  <2>2. CASE pend'[q] = pend[q]
    BY <1>1, <1>2, <2>1, <2>2
  <2>3. CASE Decompose(p)
    <3>1. pend'[q] = pend[q] \cup {Min(todo[p])}
      BY <1>4, <2>3 DEF TypeOK, Decompose
    <3>2. Cardinality(pend[q] \cup {Min(todo[p])}) \in {Cardinality(pend[q]), Cardinality(pend[q]) + 1}
      BY <1>2, FS_AddElement, Zenon
    <3>3. Cardinality(pend'[q]) \in {Cardinality(pend[q]), Cardinality(pend[q]) + 1}
      BY <3>1, <3>2, Zenon
    <3>4. QED
      BY <1>1, <1>2, <2>1, <3>3
  <2>4. CASE DecomposeFails(p)
    BY <2>2, <2>4 DEF DecomposeFails
  <2>5. QED
    BY <2>3, <2>4
<1>5. QED
  BY <1>3, <1>4

LEMMA CommitCounts ==
  ASSUME TypeOK, CountInv, NEW p \in Proc, CommitChunk(p)
  PROVE  CountInv'
<1>1. CountCoversRows'
  <2>1. rows \in SUBSET Line /\ pend[p] \in SUBSET Line
    BY DEF TypeOK
  <2>2. recordCount \in Nat /\ inChunk[p] \in Nat
    BY BatchSizeAssumption DEF TypeOK
  <2>3. Cardinality(rows) <= recordCount /\ Cardinality(pend[p]) <= inChunk[p]
    BY DEF CountInv, CountCoversRows
  <2>4. rows' = rows \cup pend[p] /\ recordCount' = recordCount + inChunk[p]
    BY DEF CommitChunk, SaveChunk, Counted
  <2>5. Cardinality(rows \cup pend[p]) <= Cardinality(rows) + Cardinality(pend[p])
    BY <2>1, UnionCounts
  <2>6. /\ Cardinality(rows) \in Nat /\ Cardinality(pend[p]) \in Nat
        /\ Cardinality(rows \cup pend[p]) \in Nat
    BY <2>1, LinesFinite
  <2>7. QED
    BY <2>2, <2>3, <2>4, <2>5, <2>6 DEF CountCoversRows
<1>2. \A q \in Proc : Cardinality(pend'[q]) <= inChunk'[q]
  <2>1. CASE Return(p)
    BY <2>1, ReturnCounts
  <2>2. CASE NextChunk(p)
    BY <2>2, FS_EmptySet DEF TypeOK, CountInv, NextChunk
  <2>3. QED
    BY <2>1, <2>2 DEF CommitChunk
<1>3. QED
  BY <1>1, <1>2 DEF CountInv

LEMMA CountStep ==
  ASSUME TypeOK, CountInv, [Next]_vars
  PROVE  CountInv'
<1>1. ASSUME UNCHANGED <<rows, recordCount>>,
             \A q \in Proc : Cardinality(pend'[q]) <= inChunk'[q]
      PROVE  CountInv'
  BY <1>1 DEF CountInv, CountCoversRows
<1>2. CASE UNCHANGED vars \/ Appends
  BY <1>1, <1>2 DEF vars, callVars, metaVars, Appends, CountInv
<1>3. ASSUME NEW p \in Proc, Return(p), UNCHANGED <<rows, recordCount>>
      PROVE  CountInv'
  BY <1>1, <1>3, ReturnCounts
<1>4. ASSUME NEW p \in Proc, StatFile(p) \/ OpenFile(p) \/ ReadLines(p)
      PROVE  CountInv'
  BY <1>1, <1>4 DEF StatFile, OpenFile, ReadLines, metaVars, CountInv
<1>5. ASSUME NEW p \in Proc, ReadOffset(p) \/ ReadOffsetFails(p)
      PROVE  CountInv'
  BY <1>1, <1>3, <1>5 DEF ReadOffset, ReadOffsetFails, UseOffset, metaVars, CountInv
<1>6. ASSUME NEW p \in Proc,
             ReadError(p) \/ CommitEmpty(p) \/ DecomposePanics(p) \/ TxFails(p) \/ Crash(p)
      PROVE  CountInv'
  BY <1>3, <1>6 DEF ReadError, CommitEmpty, DecomposePanics, TxFails, Crash, metaVars
<1>7. ASSUME NEW p \in Proc, Decompose(p) \/ DecomposeFails(p)
      PROVE  CountInv'
  BY <1>1, <1>7, HandledCounts DEF Decompose, DecomposeFails, metaVars
<1>8. QED
  BY <1>2, <1>4, <1>5, <1>6, <1>7, CommitCounts DEF Next, SyncStep

(* sync_metadata.record_count covers the rows, through any number of       *)
(* rereads, failed records, lost transactions and racing processes.        *)
THEOREM CountAlwaysCovers == Spec => []CountCoversRows
<1>1. Init => CountInv
  BY CountInit
<1>2. TypeOK /\ CountInv /\ [Next]_vars => CountInv'
  BY CountStep
<1>3. CountInv => CountCoversRows
  BY DEF CountInv
<1>4. QED
  BY <1>1, <1>2, <1>3, TypeCorrect, PTL DEF Spec
=============================================================================
