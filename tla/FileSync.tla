------------------------------ MODULE FileSync ------------------------------
(***************************************************************************)
(* Incremental ingestion of ONE JSONL session file by sync_file            *)
(* (crates/store/src/sync.rs) and parse_jsonl (crates/core/src/parser.rs): *)
(* Claude Code appends to the file while any number of processes (the      *)
(* daemon, `claude-history sync` runs) each read it from the byte offset   *)
(* saved in sync_metadata, and commit the records they find in batches,    *)
(* every batch in one SQLite transaction together with the new offset.     *)
(*                                                                         *)
(* The file is measured in units. A line has three: the first part of its  *)
(* body, the rest of its body, its newline. Line k (from 0) holds units    *)
(* 3k, 3k+1 and 3k+2, so an offset 3k is a line start, 3k+1 lies inside a  *)
(* body and 3k+2 between a complete body and its newline: the three        *)
(* positions the code's behaviour tells apart.                             *)
(***************************************************************************)
EXTENDS Naturals, FiniteSets, FiniteSetsExt

CONSTANTS
  Proc,         (* the processes that run sync_file on this file           *)
  NoProc,       (* "nobody holds SQLite's write lock"                      *)
  NumLines,     (* lines the writer may write: bounds the model            *)
  Kinds,        (* what a line of the file may be, a subset of AllKinds    *)
  Cuts,         (* where in a line an append may leave the end of the file *)
  BatchSize,    (* sync.rs BATCH_SIZE (1000 there)                         *)
  MayFail,      (* do SQLite's writes fail (SQLITE_BUSY, constraints)?     *)
  MaxFaults     (* kills and failing SELECTs together: bounds the model    *)

(***************************************************************************)
(* "record"    parses as a JSONLRecord                                     *)
(* "wide"      parses too, but units 3k and 3k+1 share a multi-byte        *)
(*             character: a half of the line is not UTF-8                  *)
(* "poison"    parses, but decompose_record panics on it: log_overflow     *)
(*             cuts a sample inside a character (drift.rs:62)              *)
(* "malformed" UTF-8, but not a record                                     *)
(* "blank"     white space only                                            *)
(* "binary"    not UTF-8                                                   *)
(***************************************************************************)
AllKinds == {"record", "wide", "poison", "malformed", "blank", "binary"}

ASSUME NumLinesAssumption == NumLines \in Nat
ASSUME KindsAssumption == Kinds \subseteq AllKinds
ASSUME CutsAssumption == Cuts \subseteq 0 .. 2
ASSUME BatchSizeAssumption == BatchSize \in Nat \ {0}
ASSUME MayFailAssumption == MayFail \in BOOLEAN
ASSUME MaxFaultsAssumption == MaxFaults \in Nat
ASSUME NoProcAssumption == NoProc \notin Proc

Line == 0 .. NumLines - 1
MaxLen == 3 * NumLines
Offset == 0 .. MaxLen

VARIABLES
  (* the file *)
  kind,         (* what each line is or will be: never changes             *)
  len,          (* the file's length                                       *)
  (* the database *)
  lastOffset,   (* sync_metadata.last_byte_offset, 0 without a row         *)
  recordCount,  (* sync_metadata.record_count                              *)
  rows,         (* lines whose record some transaction committed           *)
  lock,         (* the process that holds SQLite's write lock              *)
  (* one sync_file call per process *)
  pc,           (* where the call is                                       *)
  seen,         (* file_size, then parse_jsonl's file_length; 0 when dead  *)
  from,         (* last_offset as read from sync_metadata                  *)
  target,       (* parsed.new_offset                                       *)
  todo,         (* parsed records that no chunk has taken up yet           *)
  inChunk,      (* records of the current chunk handled so far             *)
  pend,         (* records decomposed in the open transaction              *)
  (* observation *)
  reported,     (* lines some call warned about or counted as failed       *)
  faults        (* kills and failing SELECTs so far                        *)

fileVars == <<kind, len>>
metaVars == <<lastOffset, recordCount, rows>>
callVars == <<pc, seen, from, target, todo, inChunk, pend>>
vars == <<fileVars, metaVars, lock, callVars, reported, faults>>

-----------------------------------------------------------------------------
(***************************************************************************)
(* parse_jsonl on the units from..end-1, as operators.                     *)
(***************************************************************************)
Smaller(a, b) == IF a <= b THEN a ELSE b

LineStart(k) == 3 * k

(* The lines BufReader::lines() returns some part of.                      *)
Touched(f, e) == {k \in Line : f < 3 * k + 3 /\ 3 * k < e}

(* The part returned holds the whole body / is empty.                      *)
Whole(k, f, e) == f <= 3 * k /\ 3 * k + 2 <= e
Empty(k, f) == f = 3 * k + 2

(* lines() gives InvalidData on a part that is not UTF-8.                  *)
NotUtf8(k, f, e) ==
  /\ ~ Empty(k, f)
  /\ \/ kind[k] = "binary"
     \/ kind[k] = "wide" /\ ~ Whole(k, f, e)

Unreadable(f, e) == \E k \in Touched(f, e) : NotUtf8(k, f, e)

IsRecord(k) == kind[k] \in {"record", "wide", "poison"}

RecordsBeforeEof(f, e) ==
  {k \in Touched(f, e) : IsRecord(k) /\ Whole(k, f, e) /\ 3 * k + 3 < e}
Records(f, e) == {k \in Touched(f, e) : IsRecord(k) /\ Whole(k, f, e)}

Warned(f, e) ==
  {k \in Touched(f, e) \ Records(f, e) : kind[k] # "blank" /\ ~ Empty(k, f)}

(* current_offset after the loop: +1 per line, whether or not the last one *)
(* has its newline; then the clamp to file_length.                         *)
OffsetAfterLoop(e) == IF e % 3 = 0 THEN e ELSE e + 1

Unclamped(length, e) == OffsetAfterLoop(e)
NoNewlineCounted(length, e) == IF e % 3 = 0 THEN e - 1 ELSE e
NewOffset(length, e) == Smaller(OffsetAfterLoop(e), length)

-----------------------------------------------------------------------------
TypeOK ==
  /\ kind \in [Line -> Kinds]
  /\ len \in Offset
  /\ lastOffset \in Offset
  /\ recordCount \in Nat
  /\ rows \subseteq Line
  /\ lock \in Proc \cup {NoProc}
  /\ pc \in [Proc -> {"idle", "stat", "parse", "opened", "batch", "empty"}]
  /\ seen \in [Proc -> Offset]
  /\ from \in [Proc -> Offset]
  /\ target \in [Proc -> Offset]
  /\ todo \in [Proc -> SUBSET Line]
  /\ inChunk \in [Proc -> 0 .. BatchSize]
  /\ pend \in [Proc -> SUBSET Line]
  /\ reported \subseteq Line
  /\ faults \in 0 .. MaxFaults

Init ==
  /\ kind \in [Line -> Kinds]
  /\ len = 0
  /\ lastOffset = 0
  /\ recordCount = 0
  /\ rows = {}
  /\ lock = NoProc
  /\ pc = [p \in Proc |-> "idle"]
  /\ seen = [p \in Proc |-> 0]
  /\ from = [p \in Proc |-> 0]
  /\ target = [p \in Proc |-> 0]
  /\ todo = [p \in Proc |-> {}]
  /\ inChunk = [p \in Proc |-> 0]
  /\ pend = [p \in Proc |-> {}]
  /\ reported = {}
  /\ faults = 0

-----------------------------------------------------------------------------
(***************************************************************************)
(* The writer: Claude Code appends. The file never shrinks.                *)
(***************************************************************************)
Appends ==
  /\ \E l \in Offset : len < l /\ l % 3 \in Cuts /\ len' = l
  /\ UNCHANGED <<kind, metaVars, lock, callVars, reported, faults>>

(***************************************************************************)
(* The call returns: its locals are gone, an open transaction is dropped   *)
(* (rolled back unless committed in this step) and its lock released.      *)
(***************************************************************************)
Return(p) ==
  /\ pc' = [pc EXCEPT ![p] = "idle"]
  /\ seen' = [seen EXCEPT ![p] = 0]
  /\ from' = [from EXCEPT ![p] = 0]
  /\ target' = [target EXCEPT ![p] = 0]
  /\ todo' = [todo EXCEPT ![p] = {}]
  /\ inChunk' = [inChunk EXCEPT ![p] = 0]
  /\ pend' = [pend EXCEPT ![p] = {}]
  /\ lock' = IF lock = p THEN NoProc ELSE lock

(* let file_size = std::fs::metadata(..).len(), before conn.call.          *)
StatFile(p) ==
  /\ pc[p] = "idle"
  /\ pc' = [pc EXCEPT ![p] = "stat"]
  /\ seen' = [seen EXCEPT ![p] = len]
  /\ UNCHANGED <<fileVars, metaVars, lock, from, target, todo, inChunk, pend,
                 reported, faults>>

(* A file that has not grown past the offset is skipped.                   *)
UseOffset(p, o) ==
  \/ seen[p] <= o /\ Return(p)
  \/ /\ seen[p] > o
     /\ pc' = [pc EXCEPT ![p] = "parse"]
     /\ from' = [from EXCEPT ![p] = o]
     /\ seen' = [seen EXCEPT ![p] = 0]
     /\ UNCHANGED <<lock, target, todo, inChunk, pend>>

(* The SELECT of last_byte_offset; unwrap_or(0) makes 0 of any error.      *)
ReadOffset(p) ==
  /\ pc[p] = "stat"
  /\ UseOffset(p, lastOffset)
  /\ UNCHANGED <<fileVars, metaVars, reported, faults>>

ReadOffsetFails(p) ==
  /\ pc[p] = "stat"
  /\ faults < MaxFaults
  /\ faults' = faults + 1
  /\ UseOffset(p, 0)
  /\ UNCHANGED <<fileVars, metaVars, reported>>

(* parse_jsonl opens the file and takes file_length. The file only grows,  *)
(* so from_offset >= file_length cannot happen after ReadOffset's test.    *)
OpenFile(p) ==
  /\ pc[p] = "parse"
  /\ pc' = [pc EXCEPT ![p] = "opened"]
  /\ seen' = [seen EXCEPT ![p] = len]
  /\ UNCHANGED <<fileVars, metaVars, lock, from, target, todo, inChunk, pend,
                 reported, faults>>

(* The loop over lines() reads to the end of the file as it is by now.     *)
ReadLines(p) ==
  /\ pc[p] = "opened"
  /\ ~ Unreadable(from[p], len)
  /\ target' = [target EXCEPT ![p] = NewOffset(seen[p], len)]
  /\ todo' = [todo EXCEPT ![p] = Records(from[p], len)]
  /\ pc' = [pc EXCEPT ![p] = IF Records(from[p], len) = {} THEN "empty" ELSE "batch"]
  /\ reported' = reported \cup Warned(from[p], len)
  /\ seen' = [seen EXCEPT ![p] = 0]
  /\ UNCHANGED <<fileVars, metaVars, lock, from, inChunk, pend, faults>>

(* `let line = line_result?`: the whole parse is lost, sync_file fails.    *)
ReadError(p) ==
  /\ pc[p] = "opened"
  /\ Unreadable(from[p], len)
  /\ Return(p)
  /\ UNCHANGED <<fileVars, metaVars, reported, faults>>

(* No record: the offset alone is saved; record_count starts at 0 or stays.*)
CommitEmpty(p) ==
  /\ pc[p] = "empty"
  /\ lock = NoProc
  /\ lastOffset' = target[p]
  /\ Return(p)
  /\ UNCHANGED <<fileVars, recordCount, rows, reported, faults>>

(***************************************************************************)
(* One chunk of at most BatchSize records, in one deferred transaction: it *)
(* holds the write lock from its first write to its end.                   *)
(***************************************************************************)
ChunkDoneLate(p) == inChunk[p] > BatchSize \/ todo[p] = {}
ChunkDone(p) == inChunk[p] = BatchSize \/ todo[p] = {}

Handled(p, k) ==
  /\ todo' = [todo EXCEPT ![p] = @ \ {k}]
  /\ inChunk' = [inChunk EXCEPT ![p] = @ + 1]

(* decompose_record succeeds on the next record.                           *)
Decompose(p) ==
  /\ pc[p] = "batch"
  /\ ~ ChunkDone(p)
  /\ kind[Min(todo[p])] # "poison"
  /\ lock \in {NoProc, p}
  /\ lock' = p
  /\ Handled(p, Min(todo[p]))
  /\ pend' = [pend EXCEPT ![p] = @ \cup {Min(todo[p])}]
  /\ UNCHANGED <<fileVars, metaVars, pc, seen, from, target, reported, faults>>

(* decompose_record fails: logged, counted, and the loop goes on with the  *)
(* next record. The lock is not taken when the failure is SQLITE_BUSY.     *)
DecomposeFails(p) ==
  /\ MayFail
  /\ pc[p] = "batch"
  /\ ~ ChunkDone(p)
  /\ lock' \in {lock} \cup (IF lock = NoProc THEN {p} ELSE {})
  /\ Handled(p, Min(todo[p]))
  /\ reported' = reported \cup {Min(todo[p])}
  /\ UNCHANGED <<fileVars, metaVars, pc, seen, from, target, pend, faults>>

(* It panics: the call ends, and with it the connection; the transaction   *)
(* unwinds. Until the process is restarted its calls fail at once.         *)
DecomposePanics(p) ==
  /\ pc[p] = "batch"
  /\ ~ ChunkDone(p)
  /\ kind[Min(todo[p])] = "poison"
  /\ lock \in {NoProc, p}
  /\ Return(p)
  /\ UNCHANGED <<fileVars, metaVars, reported, faults>>

(* The offset saved with a chunk: the next chunk's first record, or the    *)
(* parser's new_offset with the last chunk.                                *)
BoundaryIsTarget(p) == target[p]
BoundaryOneLineLow(p) ==
  IF todo[p] = {} THEN target[p] ELSE LineStart(Min(todo[p]) - 1)
Boundary(p) == IF todo[p] = {} THEN target[p] ELSE LineStart(Min(todo[p]))

CountedLastOnly(p) == recordCount + (IF todo[p] = {} THEN inChunk[p] ELSE 0)
Counted(p) == recordCount + inChunk[p]

(* The chunk's rows and its offset become visible together.                *)
SaveChunk(p) ==
  /\ lastOffset' = Boundary(p)
  /\ recordCount' = Counted(p)
  /\ rows' = rows \cup pend[p]

NextChunk(p) ==
  /\ inChunk' = [inChunk EXCEPT ![p] = 0]
  /\ pend' = [pend EXCEPT ![p] = {}]
  /\ lock' = NoProc
  /\ UNCHANGED <<pc, seen, from, target, todo>>

CommitChunk(p) ==
  /\ pc[p] = "batch"
  /\ ChunkDone(p)
  /\ lock \in {NoProc, p}
  /\ SaveChunk(p)
  /\ IF todo[p] = {} THEN Return(p) ELSE NextChunk(p)
  /\ UNCHANGED <<fileVars, reported, faults>>

(* BEGIN, the upsert of sync_metadata or COMMIT fails: `?` leaves          *)
(* sync_file and drops the transaction.                                    *)
TxFails(p) ==
  /\ MayFail
  /\ pc[p] \in {"batch", "empty"}
  /\ Return(p)
  /\ UNCHANGED <<fileVars, metaVars, reported, faults>>

(* The process dies; SQLite's recovery rolls an open transaction back. Of  *)
(* a call that has written nothing yet nothing is left, and of one that has *)
(* what TxFails leaves.                                                    *)
Crash(p) ==
  /\ pc[p] # "idle"
  /\ faults < MaxFaults
  /\ faults' = faults + 1
  /\ Return(p)
  /\ UNCHANGED <<fileVars, metaVars, reported>>

SyncStep(p) ==
  \/ StatFile(p) \/ ReadOffset(p) \/ OpenFile(p)
  \/ ReadLines(p) \/ ReadError(p) \/ CommitEmpty(p)
  \/ Decompose(p) \/ DecomposePanics(p) \/ CommitChunk(p)

Next ==
  \/ Appends
  \/ \E p \in Proc : SyncStep(p)
  \/ \E p \in Proc : ReadOffsetFails(p) \/ DecomposeFails(p) \/ TxFails(p) \/ Crash(p)

Spec == Init /\ [][Next]_vars

(* A sync call, once made, runs on, and sync is called again and again: by *)
(* file events, by every daemon start, by every `claude-history sync`.     *)
FairSpec == Spec /\ \A p \in Proc : WF_vars(SyncStep(p))

-----------------------------------------------------------------------------
(***************************************************************************)
(* Properties.                                                             *)
(***************************************************************************)
Started(k, o) == LineStart(k) < o
Complete(k) == LineStart(k) + 2 <= len

(***************************************************************************)
(* No silent loss: a record line that the saved offset has moved past, or  *)
(* into, is in the database or some call reported it (a parse warning or a *)
(* failed decomposition). Whatever processes race, crash or fail between   *)
(* the stat, the SELECT, the open, the read and each batch's commit.       *)
(***************************************************************************)
NoSilentLoss ==
  \A k \in Line : IsRecord(k) /\ Started(k, lastOffset) => k \in rows \cup reported

(* The same of what is committed: the offset never passes the file's end   *)
(* (the clamp of parser.rs:162), and rows come from complete bodies only.  *)
WithinFile ==
  /\ lastOffset <= len
  /\ \A k \in rows : IsRecord(k) /\ Complete(k)

(* sync_metadata.record_count counts at least every record committed.      *)
CountCoversRows == Cardinality(rows) <= recordCount

(* A commit by p moves the offset past the one p started from: a sync that *)
(* found new data never leaves the file to be read again from the same     *)
(* place, so no sequence of successful syncs repeats for ever.             *)
CommitAdvances ==
  [][\A p \in Proc : CommitChunk(p) \/ CommitEmpty(p) => lastOffset' > from[p]]_vars

(***************************************************************************)
(* Of appends that leave no torn line and statements that do not fail: a   *)
(* record line the saved offset has passed is in the database.             *)
(* parser.rs:78-83 promises it of torn lines as well: "a partial line at   *)
(* EOF will be re-read on the next sync because the offset won't advance   *)
(* past it".                                                               *)
(***************************************************************************)
PassedIsIngested ==
  \A k \in Line : IsRecord(k) /\ Started(k, lastOffset) => k \in rows

(***************************************************************************)
(* The inductive invariant behind NoSilentLoss and WithinFile: what a call *)
(* of sync_file may rely on between two of its steps, whatever the other   *)
(* processes do meanwhile. Rows and reports only grow, so what was         *)
(* accounted for below the offset a call read stays so; and a record of    *)
(* its parse is still to do, in the open transaction, or accounted for.    *)
(***************************************************************************)
Accounted(k) == k \in rows \cup reported

AccountedBelow(o) ==
  \A k \in Line : IsRecord(k) /\ Started(k, o) => Accounted(k)

BatchInv(p) ==
  /\ from[p] < target[p]
  /\ \A k \in Line \ todo[p] :
       IsRecord(k) /\ (Started(k, target[p]) \/ \E j \in todo[p] : k < j)
         => Accounted(k) \/ k \in pend[p]
  /\ \A j \in todo[p] : from[p] <= LineStart(j)
  /\ inChunk[p] > 0 => \A j \in todo[p] : from[p] < LineStart(j)
  /\ pc[p] = "empty" => todo[p] = {} /\ pend[p] = {}

CallInv(p) ==
  /\ seen[p] <= len /\ from[p] <= len /\ target[p] <= len
  /\ AccountedBelow(from[p])
  /\ \A k \in todo[p] \cup pend[p] : IsRecord(k) /\ Complete(k)
  /\ pc[p] \in {"idle", "stat", "parse", "opened"} =>
       todo[p] = {} /\ pend[p] = {} /\ inChunk[p] = 0
  /\ pc[p] = "parse" => from[p] < len
  /\ pc[p] = "opened" => from[p] < seen[p]
  /\ pc[p] \in {"batch", "empty"} => BatchInv(p)

IInv == TypeOK /\ NoSilentLoss /\ WithinFile /\ \A p \in Proc : CallInv(p)

(* No record line is ever reported as a malformed or failed one.           *)
OnlyMalformedReported == \A k \in reported : ~ IsRecord(k)

(* Every complete record line is ingested, through any number of rereads   *)
(* from an offset another process has moved back.                          *)
EventuallyIngested ==
  \A k \in Line : (IsRecord(k) /\ Complete(k)) ~> (k \in rows)

(* README.md:133: sync_all "catches up any sessions missed". A record that *)
(* cannot be decomposed does not keep the others of its file out.          *)
SoundLinesIngested ==
  \A k \in Line : (kind[k] = "record" /\ Complete(k)) ~> (k \in rows)

(* Once the writer stops for good, so do the rereads: the offset reaches   *)
(* the end of the file and stays.                                          *)
CatchesUp == <>[](lastOffset = len)

(***************************************************************************)
(* With whole-line appends and no failing statement, FileSync implements   *)
(* AtLeastOnce: every step of every process is, for the log and the        *)
(* cursor, an atomic delivery or nothing.                                  *)
(***************************************************************************)
ALO == INSTANCE AtLeastOnce
         WITH wanted <- {k \in Line : IsRecord(k)},
              written <- len \div 3,
              cursor <- lastOffset \div 3,
              delivered <- rows

DeliversAtLeastOnce == ALO!Spec
=============================================================================
