----------------------------- MODULE AtLeastOnce -----------------------------
(***************************************************************************)
(* What ingestion promises, whatever reads, batches, processes and kills   *)
(* it is made of: a consumer of an append-only log whose cursor and whose  *)
(* deliveries change in one atomic step. The cursor may go back, entries   *)
(* may be delivered again and ahead of the cursor, but it never stands     *)
(* past a wanted entry that was not delivered.                             *)
(***************************************************************************)
EXTENDS Naturals

VARIABLES
  wanted,     (* the entries that carry a record: never changes            *)
  written,    (* entries 0 .. written-1 are in the log                     *)
  cursor,     (* where the consumer resumes                                *)
  delivered   (* entries handed over at least once                         *)

vars == <<wanted, written, cursor, delivered>>

Before(n) == {k \in wanted : k < n}

Init ==
  /\ wanted \subseteq Nat
  /\ written = 0
  /\ cursor = 0
  /\ delivered = {}

Write ==
  /\ written' \in Nat
  /\ written' > written
  /\ UNCHANGED <<wanted, cursor, delivered>>

Deliver ==
  /\ cursor' \in 0 .. written
  /\ delivered \subseteq delivered'
  /\ delivered' \subseteq Before(written)
  /\ Before(cursor') \subseteq delivered'
  /\ UNCHANGED <<wanted, written>>

Next == Write \/ Deliver

Spec == Init /\ [][Next]_vars
=============================================================================
