--------------------------- MODULE DecomposeProofs ---------------------------
(***************************************************************************)
(* Theorems about Decompose, for every corpus of records, every order in   *)
(* which the files are read, every failing statement and every rereading.  *)
(***************************************************************************)
EXTENDS Decompose, Facts

LEMMA Chosen ==
  ASSUME NEW cond, NEW s, IsList(s)
  PROVE  /\ If(cond, s) = s \/ If(cond, s) = <<>>
         /\ IsList(If(cond, s))
         /\ cond => If(cond, s) = s
<1>1. cond => If(cond, s) = s
  BY DEF If
<1>2. ~ cond => If(cond, s) = <<>>
  BY DEF If
<1>3. IsList(If(cond, s))
  <2>1. CASE cond
    BY <1>1, <2>1
  <2>2. CASE ~ cond
    BY <1>2, <2>2, NoElements
  <2> QED  BY <2>1, <2>2
<1> QED  BY <1>1, <1>2, <1>3

-----------------------------------------------------------------------------
(***************************************************************************)
(* What every statement of decompose_record is like, and in what order the *)
(* statements of a record come.                                            *)
(***************************************************************************)
Speaks(r) ==
  /\ \E f \in File : r \in ToSet(Lines[f])
  /\ r.type \in {"user", "assistant"}

(* A message with uuid u is of session s; it has the tool use b.           *)
HasSession(u, s) == \E r : Speaks(r) /\ r.uuid = u /\ r.session = s
HasUse(u, b) ==
  \E r : Speaks(r) /\ r.uuid = u /\ b \in ToSet(r.content) /\ b.type = "tool_use"

(* Each operation is used on its own tables.                               *)
Fits(s) ==
  /\ s.op \in {"insert", "tally", "bump", "answer", "project"}
  /\ s.op = "insert" /\ s.row[1] \in Counting =>
       /\ s.row = FileRow(s.row[2], s.row[3]) /\ s.row[3] # None
       /\ s.value = 0
  /\ s.op = "insert" /\ s.row[1] = "tool_executions" =>
       /\ s.row = <<"tool_executions", s.row[2], s.value.block.tool>>
       /\ s.value = [block |-> s.value.block, answered |-> FALSE]
       /\ HasUse(s.row[2], s.value.block)
       /\ Message(s.row[2]) \in s.parents
  /\ s.op = "insert" /\ s.row[1] = "messages" =>
       /\ s.row = Message(s.row[2])
       /\ s.value = [session |-> s.value.session, overflow |-> {}]
       /\ HasSession(s.row[2], s.value.session)
       /\ Session(s.value.session) \in s.parents
  /\ s.op = "tally" =>
       \/ s.row[1] \in Counting \ {"files", "projects"}
       \/ s.row[1] = "hook_executions" /\ s.row[3] = None
  /\ s.op = "bump" => s.row[1] = "files"
  /\ s.op = "project" => s.row[1] = "projects"

Inserts(stmts, row) ==
  \E j \in 1 .. Len(stmts) : stmts[j].op = "insert" /\ stmts[j].row = row

(* Of the rows in K, or of an earlier statement, is every parent.          *)
Grounded(K, stmts) ==
  \A i \in 1 .. Len(stmts) : \A p \in stmts[i].parents :
    p \in K \/ \E j \in 1 .. i - 1 : stmts[j].op = "insert" /\ stmts[j].row = p

(* A mutating operation on a file stands between the statement that puts   *)
(* the file there and the one that counts the operation.                   *)
Counts(s) ==
  /\ s.op = "insert" /\ s.row[1] = "file_operations"
  /\ s.value.mutates /\ s.value.path # None
Target(s) == FileRow(s.value.session, s.value.path)

Counted(stmts, i) ==
  /\ i - 1 \in 1 .. Len(stmts) /\ i + 1 \in 1 .. Len(stmts)
  /\ stmts[i - 1].op = "insert" /\ stmts[i - 1].row = Target(stmts[i])
  /\ stmts[i + 1].op = "bump" /\ stmts[i + 1].row = Target(stmts[i])

Paired(stmts) == \A i \in 1 .. Len(stmts) : Counts(stmts[i]) => Counted(stmts, i)

(* It need not be counted.                                                 *)
Lone(s) == Fits(s) /\ ~ Counts(s)

(* The UPDATE of a message's overflow columns, by one of its copies.        *)
Revision(r) == Statement("update", Message(r.uuid), Overflow(r), {})
Revisions == {Revision(r) : r \in Spoken}

(* All statements fit, but for those of X, which are revisions.             *)
GoodBut(X, K, stmts) ==
  /\ IsList(stmts) /\ Grounded(K, stmts) /\ Paired(stmts)
  /\ \A s \in ToSet(stmts) : Fits(s) \/ s \in X

Good(K, stmts) == GoodBut({}, K, stmts)

LEMMA GoodNone ==
  ASSUME NEW K
  PROVE  Good(K, <<>>)
<1>1. IsList(<<>>) /\ \A s \in ToSet(<<>>) : Fits(s)
  BY NoElements
<1>2. \A i \in 1 .. Len(<<>>) : FALSE
  BY NoElements
<1>3. Grounded(K, <<>>)
  BY <1>2, Zenon DEF Grounded
<1>4. Paired(<<>>)
  BY <1>2, Zenon DEF Paired
<1> QED  BY <1>1, <1>3, <1>4 DEF Good, GoodBut

LEMMA GoodOne ==
  ASSUME NEW K, NEW s, Lone(s), s.parents \subseteq K
  PROVE  Good(K, <<s>>)
<1>1. IsList(<<s>>) /\ \A e \in ToSet(<<s>>) : Fits(e)
  BY OneElement DEF Lone
<1>2. \A i \in 1 .. Len(<<s>>) : <<s>>[i] = s
  BY OneElement
<1>3. Grounded(K, <<s>>)
  BY <1>2 DEF Grounded
<1>4. Paired(<<s>>)
  BY <1>2 DEF Paired, Lone
<1> QED  BY <1>1, <1>3, <1>4 DEF Good, GoodBut, Lone

LEMMA InsertsOne ==
  ASSUME NEW s, s.op = "insert"
  PROVE  Inserts(<<s>>, s.row)
  BY OneElement DEF Inserts

LEMMA GoodIf ==
  ASSUME NEW K, NEW cond, NEW s, cond => Good(K, s)
  PROVE  Good(K, If(cond, s))
<1>1. CASE cond
  BY <1>1 DEF If
<1>2. CASE ~ cond
  BY <1>2, GoodNone DEF If
<1> QED  BY <1>1, <1>2

LEMMA GoodJoin ==
  ASSUME NEW X, NEW K, NEW L, NEW a, NEW b, GoodBut(X, K, a), GoodBut(X, L, b),
         \A p \in L : p \in K \/ Inserts(a, p)
  PROVE  /\ GoodBut(X, K, a \o b)
         /\ \A p : Inserts(a, p) \/ Inserts(b, p) => Inserts(a \o b, p)
<1> DEFINE c == a \o b
<1>1. IsList(a) /\ IsList(b) /\ Len(a) \in Nat /\ Len(b) \in Nat
  BY ListIs DEF GoodBut
<1>2. /\ IsList(c) /\ Len(c) = Len(a) + Len(b)
      /\ \A i \in 1 .. Len(a) : c[i] = a[i]
      /\ \A i \in 1 .. Len(b) : c[Len(a) + i] = b[i]
      /\ \A i \in 1 .. Len(a) + Len(b) :
              i <= Len(a) \/ \E j \in 1 .. Len(b) : i = Len(a) + j
      /\ \A x : x \in ToSet(c) <=> x \in ToSet(a) \/ x \in ToSet(b)
  BY <1>1, Joined
<1> HIDE DEF c
<1>3. \A s \in ToSet(c) : Fits(s) \/ s \in X
  BY <1>2 DEF GoodBut
<1>4. ASSUME NEW i \in 1 .. Len(c), NEW p \in c[i].parents
      PROVE  p \in K \/ \E j \in 1 .. i - 1 : c[j].op = "insert" /\ c[j].row = p
  <2>1. CASE i <= Len(a)
    <3>1. i \in 1 .. Len(a) /\ 1 .. i - 1 \subseteq 1 .. Len(a)
      BY <1>1, <1>2, <2>1
    <3>2. p \in a[i].parents
      BY <1>2, <1>4, <3>1
    <3>3. p \in K \/ \E j \in 1 .. i - 1 : a[j].op = "insert" /\ a[j].row = p
      BY <3>1, <3>2 DEF GoodBut, Grounded
    <3> QED  BY <1>2, <3>1, <3>3
  <2>2. CASE \E j \in 1 .. Len(b) : i = Len(a) + j
    <3>1. PICK j \in 1 .. Len(b) : i = Len(a) + j
      BY <2>2
    <3>2. p \in b[j].parents
      BY <1>2, <1>4, <3>1
    <3>3. CASE p \in L
      <4>1. p \in K \/ \E k \in 1 .. Len(a) : a[k].op = "insert" /\ a[k].row = p
        BY <3>3 DEF Inserts
      <4>2. 1 .. Len(a) \subseteq 1 .. i - 1
        BY <1>1, <3>1
      <4> QED  BY <1>2, <4>1, <4>2
    <3>4. CASE p \notin L
      <4>1. PICK k \in 1 .. j - 1 : b[k].op = "insert" /\ b[k].row = p
        BY <3>2, <3>4 DEF GoodBut, Grounded
      <4>2. k \in 1 .. Len(b) /\ Len(a) + k \in 1 .. i - 1
        BY <1>1, <3>1
      <4> QED  BY <1>2, <4>1, <4>2
    <3> QED  BY <3>3, <3>4
  <2> QED  BY <1>2, <2>1, <2>2
<1>5. ASSUME NEW p, Inserts(a, p) \/ Inserts(b, p)
      PROVE  Inserts(c, p)
  <2>1. CASE Inserts(a, p)
    <3>1. PICK j \in 1 .. Len(a) : a[j].op = "insert" /\ a[j].row = p
      BY <2>1 DEF Inserts
    <3>2. j \in 1 .. Len(c)
      BY <1>1, <1>2
    <3> QED  BY <1>2, <3>1, <3>2 DEF Inserts
  <2>2. CASE Inserts(b, p)
    <3>1. PICK j \in 1 .. Len(b) : b[j].op = "insert" /\ b[j].row = p
      BY <2>2 DEF Inserts
    <3>2. Len(a) + j \in 1 .. Len(c)
      BY <1>1, <1>2
    <3> QED  BY <1>2, <3>1, <3>2 DEF Inserts
  <2> QED  BY <1>5, <2>1, <2>2
<1>6. ASSUME NEW i \in 1 .. Len(c), Counts(c[i])
      PROVE  Counted(c, i)
  <2>1. CASE i <= Len(a)
    <3>1. i \in 1 .. Len(a)
      BY <1>1, <1>2, <2>1
    <3>2. Counted(a, i) /\ c[i] = a[i]
      BY <1>2, <1>6, <3>1 DEF GoodBut, Paired
    <3>3. c[i - 1] = a[i - 1] /\ c[i + 1] = a[i + 1]
      BY <1>2, <3>2 DEF Counted
    <3>4. i - 1 \in 1 .. Len(c) /\ i + 1 \in 1 .. Len(c)
      BY <1>1, <1>2, <3>2 DEF Counted
    <3> QED  BY <3>2, <3>3, <3>4 DEF Counted
  <2>2. CASE \E j \in 1 .. Len(b) : i = Len(a) + j
    <3>1. PICK j \in 1 .. Len(b) : i = Len(a) + j
      BY <2>2
    <3>2. c[i] = b[j]
      BY <1>2, <3>1
    <3>3. Counted(b, j)
      BY <1>6, <3>2 DEF GoodBut, Paired
    <3>4. /\ i - 1 = Len(a) + (j - 1) /\ i + 1 = Len(a) + (j + 1)
          /\ i - 1 \in 1 .. Len(c) /\ i + 1 \in 1 .. Len(c)
      BY <1>1, <1>2, <3>1, <3>3 DEF Counted
    <3>5. c[i - 1] = b[j - 1] /\ c[i + 1] = b[j + 1]
      BY <1>2, <3>3, <3>4 DEF Counted
    <3> QED  BY <3>2, <3>3, <3>4, <3>5 DEF Counted
  <2> QED  BY <1>2, <2>1, <2>2
<1>7. GoodBut(X, K, c)
  BY <1>2, <1>3, <1>4, <1>6 DEF GoodBut, Grounded, Paired
<1> QED  BY <1>5, <1>7 DEF c

LEMMA GoodTwo ==
  ASSUME NEW K, NEW a, NEW b, Good(K, a), Good(K, b)
  PROVE  Good(K, a \o b)
  BY GoodJoin, Zenon DEF Good, GoodBut

LEMMA GoodFlat ==
  ASSUME NEW K, NEW n \in Nat, NEW ss, ss = [i \in 1 .. n |-> ss[i]],
         \A i \in 1 .. n : Good(K, ss[i])
  PROVE  Good(K, FlattenSeq(ss))
<1>1. IsList(ss) /\ Len(ss) = n
  BY ListFrom
<1>2. CASE n = 0
  <2>1. FlattenSeq(ss) = ss
    BY <1>1, <1>2, Zenon DEF FlattenSeq
  <2>2. \A x : x \notin ToSet(ss)
    BY <1>1, <1>2, ListIs
  <2>3. \A i \in 1 .. Len(ss) : FALSE
    BY <1>1, <1>2
  <2> QED  BY <1>1, <2>1, <2>2, <2>3 DEF Good, GoodBut, Grounded, Paired
<1>3. CASE n # 0
  <2>1. PICK g : IsFlat(g, ss, n) /\ FlattenSeq(ss) = g[n]
    BY <1>1, <1>3, FlatIs
  <2>2. \A i \in 1 .. n : g[i] = IF i = 1 THEN ss[i] ELSE g[i - 1] \o ss[i]
    BY <2>1 DEF IsFlat
  <2> DEFINE T == {m \in Nat : m \in 1 .. n => Good(K, g[m])}
  <2>3. 0 \in T
    OBVIOUS
  <2>4. ASSUME NEW m \in Nat, m \in T
        PROVE  m + 1 \in T
    <3>1. CASE m + 1 \notin 1 .. n
      BY <3>1
    <3>2. CASE m = 0 /\ m + 1 \in 1 .. n
      BY <2>2, <3>2
    <3>3. CASE m # 0 /\ m + 1 \in 1 .. n
      <4>1. m \in 1 .. n /\ m + 1 # 1 /\ m + 1 - 1 = m
        BY <3>3
      <4>2. Good(K, g[m]) /\ Good(K, ss[m + 1])
        BY <2>4, <3>3, <4>1
      <4>3. g[m + 1] = g[m] \o ss[m + 1]
        <5>1. g[m + 1] = IF m + 1 = 1 THEN ss[m + 1] ELSE g[m + 1 - 1] \o ss[m + 1]
          BY <2>2, <3>3
        <5> QED  BY <4>1, <5>1
      <4>4. Good(K, g[m] \o ss[m + 1])
        <5>1. \A a, b : Good(K, a) /\ Good(K, b) => Good(K, a \o b)
          BY GoodTwo
        <5> QED  BY <4>2, <5>1
      <4>5. Good(K, g[m + 1])
        BY <4>3, <4>4, Zenon
      <4> QED  BY <4>5
    <3> QED  BY <3>1, <3>2, <3>3
  <2> HIDE DEF T
  <2>5. n \in T
    BY <2>3, <2>4, Induct
  <2>6. Good(K, g[n])
    BY <1>3, <2>5 DEF T
  <2> QED  BY <2>1, <2>6
<1> QED  BY <1>2, <1>3

LEMMA GoodPair ==
  ASSUME NEW K, NEW x, NEW y, Lone(x), Lone(y), x.parents \subseteq K, y.parents \subseteq K
  PROVE  Good(K, <<x, y>>)
<1>1. <<x, y>> = <<x>> \o <<y>>
  <2>1. /\ <<x, y>> \in Seq({x, y}) /\ <<x>> \in Seq({x, y}) /\ <<y>> \in Seq({x, y})
        /\ Len(<<x, y>>) = 2 /\ Len(<<x>>) = 1 /\ Len(<<y>>) = 1
    OBVIOUS
  <2> DEFINE c == <<x>> \o <<y>>
  <2>2. c \in Seq({x, y}) /\ Len(c) = 2 /\ c[1] = x /\ c[2] = y
    BY <2>1, ConcatProperties
  <2>3. \A i \in 1 .. 2 : <<x, y>>[i] = c[i]
    BY <2>2
  <2> HIDE DEF c
  <2>4. <<x, y>> = c
    BY <2>1, <2>2, <2>3, SeqEqual
  <2> QED  BY <2>4 DEF c
<1>2. Good(K, <<x>>) /\ Good(K, <<y>>)
  BY GoodOne
<1>3. Good(K, <<x>> \o <<y>>)
  BY <1>2, GoodTwo
<1> QED  BY <1>1, <1>3

LEMMA GoodTriple ==
  ASSUME NEW K, NEW x, NEW y, NEW z, Lone(x), Fits(y), Lone(z),
         x.op = "insert", x.row = Target(y), z.op = "bump", z.row = Target(y),
         x.parents \subseteq K, y.parents \subseteq K, z.parents \subseteq K
  PROVE  Good(K, <<x, y, z>>)
<1> DEFINE c == <<x, y, z>>
<1>1. /\ c = [i \in 1 .. 3 |-> c[i]] /\ c[1] = x /\ c[2] = y /\ c[3] = z
  OBVIOUS
<1>2. \A i \in 1 .. 3 : i = 1 \/ i = 2 \/ i = 3
  OBVIOUS
<1> HIDE DEF c
<1>3. IsList(c) /\ Len(c) = 3
  BY <1>1, ListFrom
<1>4. \A e \in ToSet(c) : Fits(e)
  <2>1. \A e : e \in ToSet(c) <=> \E i \in 1 .. 3 : e = c[i]
    BY <1>3, ListIs
  <2> QED  BY <1>1, <1>2, <2>1 DEF Lone
<1>5. Grounded(K, c)
  BY <1>1, <1>2, <1>3 DEF Grounded
<1>6. ASSUME NEW i \in 1 .. 3, Counts(c[i])
      PROVE  Counted(c, i)
  <2>1. i = 2
    BY <1>1, <1>2, <1>6 DEF Lone
  <2>2. /\ i - 1 = 1 /\ i + 1 = 3
        /\ i - 1 \in 1 .. Len(c) /\ i + 1 \in 1 .. Len(c)
    BY <1>3, <2>1
  <2> QED  BY <1>1, <2>1, <2>2 DEF Counted
<1>7. Good(K, c)
  BY <1>3, <1>4, <1>5, <1>6 DEF Good, GoodBut, Paired
<1> QED  BY <1>7 DEF c

LEMMA FitsPlain ==
  ASSUME NEW row, NEW value, NEW parents,
         row[1] \notin {"tool_executions", "messages", "file_operations"},
         row[1] \notin Counting
  PROVE  /\ Lone(Insert(row, value, parents))
         /\ Insert(row, value, parents).parents = parents
         /\ Insert(row, value, parents).op = "insert"
         /\ Insert(row, value, parents).row = row
  BY DEF Lone, Fits, Counts, Insert, Statement

-----------------------------------------------------------------------------
(* Artifacts refer to the session and to the message.                      *)
Refs(s, u) == {Session(s), Message(u)}

LEMMA LoneUpsertFile ==
  ASSUME NEW s, NEW u, NEW path, path # None
  PROVE  /\ Lone(UpsertFile(s, path)) /\ UpsertFile(s, path).parents \subseteq Refs(s, u)
         /\ UpsertFile(s, path).op = "insert" /\ UpsertFile(s, path).row = FileRow(s, path)
<1> DEFINE row == FileRow(s, path)
           e == UpsertFile(s, path)
<1>1. row[1] = "files" /\ row[2] = s /\ row[3] = path
  BY DEF FileRow
<1>2. /\ e.op = "insert" /\ e.row = row /\ e.value = 0
      /\ e.parents = {Session(s)}
  BY DEF UpsertFile, Insert, Statement
<1> HIDE DEF e, row
<1>3. e.row = FileRow(e.row[2], e.row[3])
  BY <1>1, <1>2 DEF row
<1>4. Lone(e)
  BY <1>1, <1>2, <1>3 DEF Lone, Fits, Counts
<1> QED  BY <1>2, <1>4 DEF Refs, e, row

LEMMA FitsFileOperation ==
  ASSUME NEW s, NEW u, NEW id, NEW path, NEW mutates, NEW e,
         e = FileOperation(s, u, id, path, mutates)
  PROVE  /\ Fits(e) /\ e.parents \subseteq Refs(s, u)
         /\ Target(e) = FileRow(s, path)
         /\ path = None \/ mutates = FALSE => Lone(e)
<1> DEFINE row == <<"file_operations", id>>
<1>1. row[1] = "file_operations"
  OBVIOUS
<1>2. row[1] \notin Counting
  BY <1>1 DEF Counting
<1>3. /\ e.op = "insert" /\ e.row = row /\ e.parents = Refs(s, u)
      /\ e.value = [session |-> s, path |-> path, mutates |-> mutates]
  BY DEF FileOperation, Insert, Statement, Refs
<1> HIDE DEF row
<1>4. e.value.session = s /\ e.value.path = path /\ e.value.mutates = mutates
  BY <1>3
<1>5. Fits(e)
  BY <1>1, <1>2, <1>3 DEF Fits
<1>6. path = None => ~ Counts(e)
  BY <1>4 DEF Counts
<1>7. mutates = FALSE => ~ Counts(e)
  BY <1>4, Zenon DEF Counts
<1> QED  BY <1>3, <1>4, <1>5, <1>6, <1>7 DEF Lone, Target

LEMMA LoneBump ==
  ASSUME NEW s, NEW u, NEW path
  PROVE  /\ Lone(Bump(s, path)) /\ Bump(s, path).parents \subseteq Refs(s, u)
         /\ Bump(s, path).op = "bump" /\ Bump(s, path).row = FileRow(s, path)
  BY DEF Lone, Fits, Counts, Bump, Statement, FileRow

(* The statements of one mutating operation.                               *)
LEMMA GoodMutation ==
  ASSUME NEW s, NEW u, NEW id, NEW path, path # None
  PROVE  Good(Refs(s, u), <<UpsertFile(s, path), FileOperation(s, u, id, path, TRUE), Bump(s, path)>>)
<1> DEFINE x == UpsertFile(s, path)
           y == FileOperation(s, u, id, path, TRUE)
           z == Bump(s, path)
           K == Refs(s, u)
<1>1. /\ Lone(x) /\ x.parents \subseteq K /\ x.op = "insert" /\ x.row = FileRow(s, path)
      /\ Lone(z) /\ z.parents \subseteq K /\ z.op = "bump" /\ z.row = FileRow(s, path)
  BY LoneUpsertFile, LoneBump
<1>2. Fits(y) /\ y.parents \subseteq K /\ Target(y) = FileRow(s, path)
  <2>1. y = FileOperation(s, u, id, path, TRUE)
    OBVIOUS
  <2> HIDE DEF y
  <2> QED  BY <2>1, FitsFileOperation
<1> HIDE DEF x, y, z, K
<1>3. Good(K, <<x, y, z>>)
  BY <1>1, <1>2, GoodTriple
<1> QED  BY <1>3 DEF x, y, z, K

LEMMA FitsGitOperation ==
  ASSUME NEW s, NEW u, NEW b, NEW op
  PROVE  Good(Refs(s, u), GitOperation(s, u, b, op))
<1> DEFINE row == <<"git_operations", b.tool, op>>
           e == Insert(row, s, {Session(s), Message(u)})
<1>1. row[1] = "git_operations"
  OBVIOUS
<1>2. row[1] \notin Counting
  BY <1>1 DEF Counting
<1> HIDE DEF row
<1>3. Lone(e) /\ e.parents = {Session(s), Message(u)}
  BY <1>1, <1>2, FitsPlain
<1>4. GitOperation(s, u, b, op) = <<e>>
  BY DEF GitOperation, row
<1> HIDE DEF e
<1>5. Good(Refs(s, u), <<e>>)
  BY <1>3, GoodOne DEF Refs
<1> QED  BY <1>4, <1>5

LEMMA GoodFileCommand ==
  ASSUME NEW s, NEW u, NEW b, NEW c, IsList(c.paths), None \notin ToSet(c.paths)
  PROVE  Good(Refs(s, u), FileCommand(s, u, b, c))
<1> DEFINE K == Refs(s, u)
           One(path) == <<UpsertFile(s, path),
                          FileOperation(s, u, <<b.tool, c.cmd, path>>, path, TRUE),
                          Bump(s, path)>>
           ss == [i \in DOMAIN c.paths |-> One(c.paths[i])]
           pathless == If(c.paths = <<>>, <<FileOperation(s, u, <<b.tool>>, None, TRUE)>>)
<1>1. DOMAIN c.paths = 1 .. Len(c.paths) /\ Len(c.paths) \in Nat
  BY ListIs
<1>2. \A i \in 1 .. Len(c.paths) : Good(K, One(c.paths[i]))
  <2> TAKE i \in 1 .. Len(c.paths)
  <2>1. c.paths[i] # None
    BY <1>1 DEF ToSet
  <2> QED  BY <2>1, GoodMutation
<1>3. Good(K, FlattenSeq(ss))
  <2>1. ss = [i \in 1 .. Len(c.paths) |-> ss[i]]
    BY <1>1
  <2>2. \A i \in 1 .. Len(c.paths) : Good(K, ss[i])
    BY <1>1, <1>2
  <2> HIDE DEF ss, K
  <2> QED  BY <1>1, <2>1, <2>2, GoodFlat
<1>4. Good(K, pathless)
  <2> DEFINE y == FileOperation(s, u, <<b.tool>>, None, TRUE)
  <2>1. Lone(y) /\ y.parents \subseteq K
    BY FitsFileOperation
  <2> HIDE DEF y
  <2>2. Good(K, <<y>>)
    BY <2>1, GoodOne
  <2>3. Good(K, <<FileOperation(s, u, <<b.tool>>, None, TRUE)>>)
    BY <2>2 DEF y
  <2> QED  BY <2>3, GoodIf
<1>5. FileCommand(s, u, b, c) = pathless \o FlattenSeq(ss)
  BY DEF FileCommand, Each
<1> HIDE DEF pathless, ss, K
<1>6. Good(K, pathless \o FlattenSeq(ss))
  BY <1>3, <1>4, GoodTwo
<1> QED  BY <1>5, <1>6 DEF K

LEMMA Listed ==
  ASSUME NEW S, IsFiniteSet(S)
  PROVE  /\ IsList(SetToSeq(S))
         /\ \A x : x \in ToSet(SetToSeq(S)) <=> x \in S
<1> DEFINE n == Cardinality(S)
<1>1. n \in Nat /\ ExistsBijection(1 .. n, S)
  BY FS_CardinalityType
<1>2. PICK g : g \in Bijection(1 .. n, S)
  BY <1>1 DEF ExistsBijection
<1>3. g \in [1 .. n -> S] /\ IsInjective(g)
  BY <1>2 DEF Bijection, Injection
<1> DEFINE f == SetToSeq(S)
<1>4. f \in [1 .. n -> S] /\ IsInjective(f)
  BY <1>3, Zenon DEF SetToSeq
<1>5. f \in Injection(1 .. n, S)
  BY <1>4 DEF Injection
<1> HIDE DEF f
<1>6. IsFiniteSet(1 .. n) /\ Cardinality(1 .. n) = n
  BY <1>1, FS_Interval
<1> HIDE DEF n
<1>7. f \in Surjection(1 .. n, S)
  BY <1>5, <1>6, FS_Injection DEF n
<1>8. IsList(f) /\ Len(f) = n
  <2>1. f = [i \in 1 .. n |-> f[i]]
    BY <1>4
  <2> QED  BY <1>1, <2>1, ListFrom
<1>9. \A x : x \in ToSet(f) <=> x \in S
  <2>1. \A x : x \in ToSet(f) <=> \E i \in 1 .. n : x = f[i]
    BY <1>8, ListIs
  <2>2. \A x \in S : \E i \in 1 .. n : f[i] = x
    BY <1>7 DEF Surjection
  <2> QED  BY <1>4, <2>1, <2>2
<1> QED  BY <1>8, <1>9 DEF f

LEMMA GoodBash ==
  ASSUME NEW s, NEW u, NEW b, b.type = "tool_use", BlockIsParsed(b)
  PROVE  Good(Refs(s, u), Bash(s, u, b))
<1> DEFINE K == Refs(s, u)
           gs == [i \in DOMAIN b.git |-> GitOperation(s, u, b, b.git[i])]
           cs == [i \in DOMAIN b.files |-> FileCommand(s, u, b, b.files[i])]
<1>1. /\ IsList(b.git) /\ IsList(b.files)
      /\ \A c \in ToSet(b.files) : IsList(c.paths) /\ None \notin ToSet(c.paths)
  BY DEF BlockIsParsed
<1>2. /\ DOMAIN b.git = 1 .. Len(b.git) /\ Len(b.git) \in Nat
      /\ DOMAIN b.files = 1 .. Len(b.files) /\ Len(b.files) \in Nat
  BY <1>1, ListIs
<1>3. Good(K, FlattenSeq(gs))
  <2>1. gs = [i \in 1 .. Len(b.git) |-> gs[i]]
    BY <1>2
  <2>2. \A i \in 1 .. Len(b.git) : Good(K, gs[i])
    BY <1>2, FitsGitOperation
  <2> HIDE DEF gs, K
  <2> QED  BY <1>2, <2>1, <2>2, GoodFlat
<1>4. Good(K, FlattenSeq(cs))
  <2>1. cs = [i \in 1 .. Len(b.files) |-> cs[i]]
    BY <1>2
  <2>2. \A i \in 1 .. Len(b.files) : Good(K, cs[i])
    <3> TAKE i \in 1 .. Len(b.files)
    <3>1. b.files[i] \in ToSet(b.files)
      BY <1>2 DEF ToSet
    <3>2. IsList(b.files[i].paths) /\ None \notin ToSet(b.files[i].paths)
      BY <1>1, <3>1
    <3>3. Good(K, FileCommand(s, u, b, b.files[i]))
      BY <3>2, GoodFileCommand
    <3> QED  BY <1>2, <3>3
  <2> HIDE DEF cs, K
  <2> QED  BY <1>2, <2>1, <2>2, GoodFlat
<1>5. Bash(s, u, b) = FlattenSeq(gs) \o FlattenSeq(cs)
  BY DEF Bash, Each
<1> HIDE DEF gs, cs, K
<1>6. Good(K, FlattenSeq(gs) \o FlattenSeq(cs))
  BY <1>3, <1>4, GoodTwo
<1> QED  BY <1>5, <1>6 DEF K

LEMMA GoodArtifacts ==
  ASSUME NEW s, NEW u, NEW b, b.type = "tool_use", BlockIsParsed(b)
  PROVE  Good(Refs(s, u), Artifacts(s, u, b))
<1> DEFINE K == Refs(s, u)
<1>1. Good(K, WriteOrEdit(s, u, b))
  <2>1. b.path # None =>
          Good(K, <<UpsertFile(s, b.path), FileOperation(s, u, <<b.tool>>, b.path, TRUE), Bump(s, b.path)>>)
    BY GoodMutation
  <2> QED  BY <2>1, GoodIf DEF WriteOrEdit
<1>2. Good(K, Read(s, u, b))
  <2>1. ASSUME b.path # None
        PROVE  Good(K, <<UpsertFile(s, b.path), FileOperation(s, u, <<b.tool>>, b.path, FALSE)>>)
    <3> DEFINE x == UpsertFile(s, b.path)
               y == FileOperation(s, u, <<b.tool>>, b.path, FALSE)
    <3>1. Lone(x) /\ x.parents \subseteq K /\ Lone(y) /\ y.parents \subseteq K
      BY <2>1, LoneUpsertFile, FitsFileOperation
    <3> HIDE DEF x, y, K
    <3>2. Good(K, <<x, y>>)
      BY <3>1, GoodPair
    <3> QED  BY <3>2 DEF x, y
  <2> QED  BY <2>1, GoodIf DEF Read
<1>3. Good(K, Bash(s, u, b))
  BY GoodBash
<1> HIDE DEF K
<1> DEFINE x == If(b.name \in {"Write", "Edit"}, WriteOrEdit(s, u, b))
           y == If(b.name = "Read", Read(s, u, b))
           z == If(b.name = "Bash", Bash(s, u, b))
<1>4. Good(K, x) /\ Good(K, y) /\ Good(K, z)
  BY <1>1, <1>2, <1>3, GoodIf
<1>5. Artifacts(s, u, b) = (x \o y) \o z
  BY DEF Artifacts
<1> HIDE DEF x, y, z
<1>6. Good(K, x \o y)
  BY <1>4, GoodTwo
<1>7. Good(K, (x \o y) \o z)
  BY <1>4, <1>6, GoodTwo
<1> QED  BY <1>5, <1>7 DEF K

-----------------------------------------------------------------------------
(* A record's statements stand alone, and put the rows in K there.         *)
HoldsBut(X, K, stmts) == GoodBut(X, {}, stmts) /\ \A p \in K : Inserts(stmts, p)

Holds(K, stmts) == HoldsBut({}, K, stmts)

LEMMA HoldsMore ==
  ASSUME NEW X, NEW K, NEW L, NEW a, NEW b, HoldsBut(X, K, a), GoodBut(X, K, b),
         \A p \in L : p \in K \/ Inserts(b, p)
  PROVE  HoldsBut(X, L, a \o b)
<1>1. GoodBut(X, {}, a) /\ \A p \in K : Inserts(a, p)
  BY DEF HoldsBut
<1>2. \A p \in K : p \in {} \/ Inserts(a, p)
  BY <1>1
<1>3. /\ GoodBut(X, {}, a \o b)
      /\ \A p : Inserts(a, p) \/ Inserts(b, p) => Inserts(a \o b, p)
  BY <1>1, <1>2, GoodJoin
<1> QED  BY <1>1, <1>3 DEF HoldsBut

LEMMA HoldsOver ==
  ASSUME NEW K, NEW L, NEW a, NEW b, Holds(K, a), Good(K, b), \A p \in L : p \in K \/ Inserts(b, p)
  PROVE  Holds(L, a \o b)
<1> DEFINE X == {}
<1>1. HoldsBut(X, K, a) /\ GoodBut(X, K, b)
  BY DEF Holds, Good
<1> HIDE DEF X
<1>2. HoldsBut(X, L, a \o b)
  BY <1>1, HoldsMore
<1> QED  BY <1>2 DEF Holds, X

LEMMA HoldsJoin ==
  ASSUME NEW K, NEW a, NEW b, Holds(K, a), Good(K, b)
  PROVE  Holds(K, a \o b)
  BY HoldsOver

(* What is good without exceptions is so with them.                         *)
LEMMA GoodStill ==
  ASSUME NEW X, NEW Y, X \subseteq Y, NEW K, NEW s
  PROVE  GoodBut(X, K, s) => GoodBut(Y, K, s)
  BY DEF GoodBut

LEMMA HoldsStill ==
  ASSUME NEW X, NEW K, NEW s, Holds(K, s)
  PROVE  HoldsBut(X, K, s)
  BY GoodStill DEF Holds, HoldsBut

(* More statements, of which those of X are excepted.                       *)
LEMMA HoldsOn ==
  ASSUME NEW X, NEW K, NEW a, NEW b, HoldsBut(X, K, a), Good(K, b)
  PROVE  HoldsBut(X, K, a \o b)
<1>1. GoodBut(X, K, b)
  BY GoodStill DEF Good, GoodBut
<1> QED  BY <1>1, HoldsMore

LEMMA HoldsRevised ==
  ASSUME NEW K, NEW a, NEW r, Holds(K, a)
  PROVE  HoldsBut({Revision(r)}, K, a \o Revise(r))
<1> DEFINE e == Revision(r)
           X == {e}
<1>1. e.op = "update" /\ e.parents = {}
  BY DEF Revision, Statement
<1>2. Revise(r) = <<e>>
  BY DEF Revise, Revision
<1> HIDE DEF e
<1>3. IsList(<<e>>) /\ Len(<<e>>) = 1 /\ \A s \in ToSet(<<e>>) : s = e
  BY OneElement
<1>4. \A i \in 1 .. Len(<<e>>) : <<e>>[i] = e
  BY OneElement
<1>5. Grounded(K, <<e>>)
  BY <1>1, <1>4 DEF Grounded
<1>6. Paired(<<e>>)
  BY <1>1, <1>4 DEF Paired, Counts
<1>7. GoodBut(X, K, <<e>>)
  BY <1>3, <1>5, <1>6 DEF GoodBut
<1> HIDE DEF X
<1>8. HoldsBut(X, K, a)
  BY HoldsStill
<1>9. HoldsBut(X, K, a \o <<e>>)
  BY <1>7, <1>8, HoldsMore
<1> QED  BY <1>2, <1>9 DEF X, e

LEMMA GoodAnywhere ==
  ASSUME NEW K, NEW s, Good({}, s)
  PROVE  Good(K, s)
  BY DEF Good, GoodBut, Grounded

LEMMA HoldsNothing ==
  ASSUME NEW s, Good({}, s)
  PROVE  Holds({}, s)
  BY DEF Holds, HoldsBut, Good

LEMMA GoodUpsertSession ==
  ASSUME NEW r
  PROVE  Holds({Session(r.session)}, UpsertSession(r))
<1> DEFINE row == Session(r.session)
           e == Insert(row, r.cwd, {})
<1>1. row[1] = "sessions"
  BY DEF Session
<1>2. row[1] \notin Counting
  BY <1>1 DEF Counting
<1> HIDE DEF row
<1>3. Lone(e) /\ e.parents = {} /\ e.op = "insert" /\ e.row = row
  BY <1>1, <1>2, FitsPlain
<1>4. UpsertSession(r) = <<e>>
  BY DEF UpsertSession, row
<1> HIDE DEF e
<1>5. Good({}, <<e>>) /\ Inserts(<<e>>, row)
  BY <1>3, GoodOne, InsertsOne
<1> QED  BY <1>4, <1>5 DEF Holds, HoldsBut, Good, row

MessageRow(r) ==
  Insert(Message(r.uuid), [session |-> r.session, overflow |-> {}], {Session(r.session)})

LEMMA FitsMessage ==
  ASSUME NEW r, Speaks(r)
  PROVE  /\ Lone(MessageRow(r)) /\ MessageRow(r).parents = {Session(r.session)}
         /\ MessageRow(r).op = "insert" /\ MessageRow(r).row = Message(r.uuid)
<1> DEFINE row == Message(r.uuid)
           v == [session |-> r.session, overflow |-> {}]
           e == MessageRow(r)
<1>1. row[1] = "messages" /\ row[2] = r.uuid
  BY DEF Message
<1>2. row[1] \notin Counting
  BY <1>1 DEF Counting
<1>3. /\ e.op = "insert" /\ e.row = row /\ e.value = v
      /\ e.parents = {Session(r.session)}
  BY DEF MessageRow, Insert, Statement
<1>4. HasSession(r.uuid, r.session)
  BY DEF HasSession
<1>5. v.session = r.session /\ v = [session |-> v.session, overflow |-> {}]
  OBVIOUS
<1> HIDE DEF e, row, v
<1>6. /\ e.row = Message(e.row[2]) /\ HasSession(e.row[2], e.value.session)
      /\ Session(e.value.session) \in e.parents
      /\ e.value = [session |-> e.value.session, overflow |-> {}]
  BY <1>1, <1>3, <1>4, <1>5 DEF row
<1>7. Lone(e)
  BY <1>1, <1>2, <1>3, <1>6 DEF Lone, Fits, Counts
<1> QED  BY <1>3, <1>7 DEF e, row

LEMMA GoodOpening ==
  ASSUME NEW r, Speaks(r)
  PROVE  Holds(Refs(r.session, r.uuid), UpsertSession(r) \o InsertMessage(r))
<1> DEFINE K == {Session(r.session)}
           e == MessageRow(r)
<1>1. Holds(K, UpsertSession(r))
  BY GoodUpsertSession
<1>2. Lone(e) /\ e.parents \subseteq K /\ e.op = "insert" /\ e.row = Message(r.uuid)
  BY FitsMessage
<1>3. InsertMessage(r) = <<e>>
  BY DEF InsertMessage, MessageRow
<1> HIDE DEF K, e
<1>4. Good(K, <<e>>) /\ Inserts(<<e>>, Message(r.uuid))
  BY <1>2, GoodOne, InsertsOne
<1>5. \A p \in Refs(r.session, r.uuid) : p \in K \/ Inserts(<<e>>, p)
  BY <1>4 DEF Refs, K
<1>6. Holds(Refs(r.session, r.uuid), UpsertSession(r) \o <<e>>)
  BY <1>1, <1>4, <1>5, HoldsOver
<1> QED  BY <1>3, <1>6

LEMMA FitsContentRow ==
  ASSUME NEW r, NEW s, NEW i
  PROVE  Good(Refs(s, r.uuid), <<ContentRow(r, i)>>)
<1> DEFINE row == <<"message_content", r.uuid, i>>
           e == Insert(row, "kept", {Message(r.uuid)})
<1>1. row[1] = "message_content"
  OBVIOUS
<1>2. row[1] \notin Counting
  BY <1>1 DEF Counting
<1> HIDE DEF row
<1>3. Lone(e) /\ e.parents = {Message(r.uuid)}
  BY <1>1, <1>2, FitsPlain
<1>4. ContentRow(r, i) = e
  BY DEF ContentRow, row
<1> HIDE DEF e
<1>5. Good(Refs(s, r.uuid), <<e>>)
  BY <1>3, GoodOne DEF Refs
<1> QED  BY <1>4, <1>5

UseRow(u, b) ==
  Insert(<<"tool_executions", u, b.tool>>, [block |-> b, answered |-> FALSE], {Message(u)})

AnswerRow(u, b) == Statement("answer", <<"tool_executions", u, b.tool>>, TRUE, {})

LEMMA FitsUse ==
  ASSUME NEW u, NEW s, NEW b, HasUse(u, b)
  PROVE  Good(Refs(s, u), <<UseRow(u, b)>>)
<1> DEFINE row == <<"tool_executions", u, b.tool>>
           e == UseRow(u, b)
<1>1. row[1] = "tool_executions" /\ row[2] = u
  OBVIOUS
<1>2. row[1] \notin Counting
  BY <1>1 DEF Counting
<1>3. /\ e.op = "insert" /\ e.row = row /\ e.value = [block |-> b, answered |-> FALSE]
      /\ e.parents = {Message(u)}
  BY DEF UseRow, Insert, Statement
<1>4. e.value.block = b
  BY <1>3
<1> HIDE DEF e, row
<1>5. e.row = <<"tool_executions", e.row[2], e.value.block.tool>>
  BY <1>1, <1>3, <1>4 DEF row
<1>6. /\ HasUse(e.row[2], e.value.block) /\ Message(e.row[2]) \in e.parents
      /\ e.value = [block |-> e.value.block, answered |-> FALSE]
  BY <1>1, <1>3, <1>4
<1>7. Lone(e)
  BY <1>1, <1>2, <1>3, <1>5, <1>6 DEF Lone, Fits, Counts
<1>8. Good(Refs(s, u), <<e>>)
  BY <1>3, <1>7, GoodOne DEF Refs
<1> QED  BY <1>8 DEF e

LEMMA FitsAnswer ==
  ASSUME NEW K, NEW u, NEW b
  PROVE  Good(K, <<AnswerRow(u, b)>>)
<1>1. Lone(AnswerRow(u, b)) /\ AnswerRow(u, b).parents \subseteq K
  BY DEF Lone, Fits, Counts, AnswerRow, Statement
<1> QED  BY <1>1, GoodOne

LEMMA ContentBlockIs ==
  ASSUME NEW r, NEW i
  PROVE  ContentBlock(r, i) =
           (<<ContentRow(r, i)>>
             \o If(r.content[i].type = "tool_use", <<UseRow(r.uuid, r.content[i])>>))
             \o If(r.content[i].type = "tool_result", <<AnswerRow(r.uuid, r.content[i])>>)
  BY DEF ContentBlock, UseRow, AnswerRow

LEMMA SpeechIsParsed ==
  ASSUME NEW r, Speaks(r)
  PROVE  /\ IsList(r.content) /\ IsFiniteSet(r.overflow)
         /\ r.type = "assistant" => IsFiniteSet(r.inner) /\ IsFiniteSet(r.metered)
         /\ \A b \in ToSet(r.content) : BlockIsParsed(b)
  BY LinesAssumption DEF Speaks, RecordIsParsed

LEMMA GoodMessageContent ==
  ASSUME NEW r, Speaks(r)
  PROVE  Good(Refs(r.session, r.uuid), MessageContent(r))
<1> DEFINE K == Refs(r.session, r.uuid)
           n == Len(r.content)
           ss == [i \in DOMAIN r.content |-> ContentBlock(r, i)]
<1>1. n \in Nat /\ DOMAIN r.content = 1 .. n
  BY SpeechIsParsed, ListIs
<1>2. ASSUME NEW i \in 1 .. n
      PROVE  Good(K, ContentBlock(r, i))
  <2> DEFINE b == r.content[i]
             x == <<ContentRow(r, i)>>
             y == If(b.type = "tool_use", <<UseRow(r.uuid, b)>>)
             z == If(b.type = "tool_result", <<AnswerRow(r.uuid, b)>>)
  <2>1. Good(K, x)
    BY FitsContentRow
  <2>2. Good(K, y)
    <3>1. CASE b.type = "tool_use"
      <4>1. b \in ToSet(r.content)
        BY <1>1 DEF ToSet
      <4>2. HasUse(r.uuid, b)
        BY <3>1, <4>1 DEF HasUse
      <4> HIDE DEF b
      <4>3. Good(K, <<UseRow(r.uuid, b)>>)
        BY <4>2, FitsUse
      <4> QED  BY <4>3, GoodIf
    <3>2. CASE b.type # "tool_use"
      BY <3>2, GoodIf
    <3> QED  BY <3>1, <3>2
  <2>3. Good(K, z)
    <3>1. Good(K, <<AnswerRow(r.uuid, b)>>)
      BY FitsAnswer
    <3> QED  BY <3>1, GoodIf
  <2>4. ContentBlock(r, i) = (x \o y) \o z
    BY ContentBlockIs
  <2> HIDE DEF x, y, z, K
  <2>5. Good(K, x \o y)
    BY <2>1, <2>2, GoodTwo
  <2>6. Good(K, (x \o y) \o z)
    BY <2>3, <2>5, GoodTwo
  <2> QED  BY <2>4, <2>6
<1>3. ss = [i \in 1 .. n |-> ss[i]]
  BY <1>1
<1>4. \A i \in 1 .. n : Good(K, ss[i])
  BY <1>1, <1>2
<1>5. MessageContent(r) = FlattenSeq(ss)
  BY DEF MessageContent
<1> HIDE DEF ss, K, n
<1>6. Good(K, FlattenSeq(ss))
  BY <1>1, <1>3, <1>4, GoodFlat
<1> QED  BY <1>5, <1>6 DEF K

LEMMA FitsTally ==
  ASSUME NEW row, NEW parents, row[1] \in Counting \ {"files", "projects"}
  PROVE  /\ Lone(Tally(row, parents)) /\ Tally(row, parents).parents = parents
         /\ Tally(row, parents).op = "tally" /\ Tally(row, parents).row = row
  BY DEF Lone, Fits, Counts, Tally, Statement

LEMMA GoodTally ==
  ASSUME NEW K, NEW row, row[1] \in Counting \ {"files", "projects"}
  PROVE  Good(K, <<Tally(row, {})>>)
<1>1. Lone(Tally(row, {})) /\ Tally(row, {}).parents \subseteq K
  BY FitsTally
<1> QED  BY <1>1, GoodOne

LEMMA GoodLogOverflow ==
  ASSUME NEW K, NEW type, NEW fields, NEW version, IsFiniteSet(fields)
  PROVE  Good(K, LogOverflow(type, fields, version))
<1> DEFINE seq == SetToSeq(fields)
           One(field) == <<Tally(<<"schema_drift_log", field, type, version>>, {})>>
           ss == [i \in DOMAIN seq |-> One(seq[i])]
<1>1. DOMAIN seq = 1 .. Len(seq) /\ Len(seq) \in Nat
  BY Listed, ListIs
<1>2. ASSUME NEW field
      PROVE  Good(K, One(field))
  <2> DEFINE row == <<"schema_drift_log", field, type, version>>
  <2>1. row[1] \in Counting \ {"files", "projects"}
    BY DEF Counting
  <2> HIDE DEF row
  <2>2. Good(K, <<Tally(row, {})>>)
    BY <2>1, GoodTally
  <2> QED  BY <2>2 DEF row
<1>3. LogOverflow(type, fields, version) = FlattenSeq(ss)
  BY DEF LogOverflow, Each
<1> HIDE DEF One
<1>4. ss = [i \in 1 .. Len(seq) |-> ss[i]]
  BY <1>1
<1>5. \A i \in 1 .. Len(seq) : Good(K, ss[i])
  BY <1>1, <1>2
<1> HIDE DEF ss, seq
<1>6. Good(K, FlattenSeq(ss))
  BY <1>1, <1>4, <1>5, GoodFlat
<1> QED  BY <1>3, <1>6

LEMMA GoodLogRecordType ==
  ASSUME NEW K, NEW name, NEW version
  PROVE  Good(K, LogRecordType(name, version))
<1> DEFINE row == <<"record_type_drift_log", name, version>>
<1>1. row[1] \in Counting \ {"files", "projects"}
  BY DEF Counting
<1>2. LogRecordType(name, version) = <<Tally(row, {})>>
  BY DEF LogRecordType
<1> HIDE DEF row
<1> QED  BY <1>1, <1>2, GoodTally

LEMMA GoodUpsertAgent ==
  ASSUME NEW r
  PROVE  Good({Session(r.session)}, UpsertAgent(r))
<1> DEFINE row == <<"agents", r.agent>>
           e == Insert(row, r.session, {Session(r.session)})
<1>1. row[1] = "agents"
  OBVIOUS
<1>2. row[1] \notin Counting
  BY <1>1 DEF Counting
<1>3. UpsertAgent(r) = If(r.agent # None, <<e>>)
  BY DEF UpsertAgent
<1> HIDE DEF row
<1>4. Lone(e) /\ e.parents = {Session(r.session)}
  BY <1>1, <1>2, FitsPlain
<1> HIDE DEF e
<1>5. Good({Session(r.session)}, <<e>>)
  BY <1>4, GoodOne
<1> QED  BY <1>3, <1>5, GoodIf

LEMMA GoodMore ==
  ASSUME NEW K, NEW L, NEW s, Good(K, s), K \subseteq L
  PROVE  Good(L, s)
  BY DEF Good, GoodBut, Grounded

LEMMA GoodAgentOfMessage ==
  ASSUME NEW r
  PROVE  Good(Refs(r.session, r.uuid), UpsertAgent(r))
<1>1. {Session(r.session)} \subseteq Refs(r.session, r.uuid)
  BY DEF Refs
<1>2. Good({Session(r.session)}, UpsertAgent(r))
  BY GoodUpsertAgent
<1> DEFINE K == {Session(r.session)}
           L == Refs(r.session, r.uuid)
           a == UpsertAgent(r)
<1> HIDE DEF K, L, a
<1>3. K \subseteq L /\ Good(K, a)
  BY <1>1, <1>2 DEF K, L, a
<1>4. Good(L, a)
  BY <1>3, GoodMore
<1> QED  BY <1>4 DEF L, a

LEMMA HoldsUser ==
  ASSUME NEW r, Speaks(r)
  PROVE  HoldsBut({Revision(r)}, Refs(r.session, r.uuid), DecomposeUser(r))
<1> DEFINE K == Refs(r.session, r.uuid)
           X == {Revision(r)}
           p == If(r.plan, <<ContentRow(r, -1)>>)
           o == UpsertSession(r) \o InsertMessage(r)
           l == LogOverflow("user", r.overflow, r.version)
           v == Revise(r)
<1>1. Holds(K, o)
  BY GoodOpening
<1>2. Good(K, MessageContent(r))
  BY GoodMessageContent
<1>3. Good(K, p)
  BY FitsContentRow, GoodIf
<1>4. Good(K, UpsertAgent(r))
  BY GoodAgentOfMessage
<1>5. Good(K, l)
  BY SpeechIsParsed, GoodLogOverflow
<1>6. DecomposeUser(r) = ((((o \o MessageContent(r)) \o v) \o p) \o UpsertAgent(r)) \o l
  BY DEF DecomposeUser
<1> HIDE DEF K, o, p, l
<1>7. Holds(K, o \o MessageContent(r))
  BY <1>1, <1>2, HoldsJoin
<1>8. HoldsBut(X, K, (o \o MessageContent(r)) \o v)
  BY <1>7, HoldsRevised
<1> HIDE DEF X, v
<1>9. HoldsBut(X, K, ((o \o MessageContent(r)) \o v) \o p)
  BY <1>3, <1>8, HoldsOn
<1>10. HoldsBut(X, K, (((o \o MessageContent(r)) \o v) \o p) \o UpsertAgent(r))
  BY <1>4, <1>9, HoldsOn
<1>11. HoldsBut(X, K, ((((o \o MessageContent(r)) \o v) \o p) \o UpsertAgent(r)) \o l)
  BY <1>5, <1>10, HoldsOn
<1> QED  BY <1>6, <1>11 DEF K, X

LEMMA GoodTokenUsage ==
  ASSUME NEW r, Speaks(r), r.type = "assistant"
  PROVE  Good(Refs(r.session, r.uuid), TokenUsage(r))
<1> DEFINE K == Refs(r.session, r.uuid)
           row == <<"token_usage", r.uuid>>
           e == Insert(row, "kept", {Message(r.uuid)})
           l == LogOverflow("assistant.message.usage", r.metered, r.version)
<1>1. row[1] = "token_usage"
  OBVIOUS
<1>2. row[1] \notin Counting
  BY <1>1 DEF Counting
<1>3. TokenUsage(r) = If(r.usage, <<e>> \o l)
  BY DEF TokenUsage
<1>4. Good(K, l)
  BY SpeechIsParsed, GoodLogOverflow
<1> HIDE DEF row
<1>5. Lone(e) /\ e.parents = {Message(r.uuid)}
  BY <1>1, <1>2, FitsPlain
<1> HIDE DEF e
<1>6. Good(K, <<e>>)
  BY <1>5, GoodOne DEF Refs
<1> HIDE DEF K, l
<1>7. Good(K, <<e>> \o l)
  BY <1>4, <1>6, GoodTwo
<1>8. Good(K, If(r.usage, <<e>> \o l))
  BY <1>7, GoodIf
<1> QED  BY <1>3, <1>8 DEF K

LEMMA HoldsAssistant ==
  ASSUME NEW r, Speaks(r), r.type = "assistant"
  PROVE  HoldsBut({Revision(r)}, Refs(r.session, r.uuid), DecomposeAssistant(r))
<1> DEFINE K == Refs(r.session, r.uuid)
           X == {Revision(r)}
           o == UpsertSession(r) \o InsertMessage(r)
           p == TokenUsage(r)
           v == Revise(r)
           l == LogOverflow("assistant", r.overflow, r.version)
           w == LogOverflow("assistant.message", r.inner, r.version)
<1>1. Holds(K, o)
  BY GoodOpening
<1>2. Good(K, MessageContent(r)) /\ Good(K, p)
  BY GoodMessageContent, GoodTokenUsage
<1>3. Good(K, UpsertAgent(r))
  BY GoodAgentOfMessage
<1>4. Good(K, l) /\ Good(K, w)
  BY SpeechIsParsed, GoodLogOverflow
<1>5. DecomposeAssistant(r) =
        (((((o \o MessageContent(r)) \o p) \o v) \o UpsertAgent(r)) \o l) \o w
  BY DEF DecomposeAssistant
<1> HIDE DEF K, o, p, l, w
<1>6. Holds(K, o \o MessageContent(r))
  BY <1>1, <1>2, HoldsJoin
<1>7. Holds(K, (o \o MessageContent(r)) \o p)
  BY <1>2, <1>6, HoldsJoin
<1>8. HoldsBut(X, K, ((o \o MessageContent(r)) \o p) \o v)
  BY <1>7, HoldsRevised
<1> HIDE DEF X, v
<1>9. HoldsBut(X, K, (((o \o MessageContent(r)) \o p) \o v) \o UpsertAgent(r))
  BY <1>3, <1>8, HoldsOn
<1>10. HoldsBut(X, K, ((((o \o MessageContent(r)) \o p) \o v) \o UpsertAgent(r)) \o l)
  BY <1>4, <1>9, HoldsOn
<1>11. HoldsBut(X, K, (((((o \o MessageContent(r)) \o p) \o v) \o UpsertAgent(r)) \o l) \o w)
  BY <1>4, <1>10, HoldsOn
<1> QED  BY <1>5, <1>11 DEF K, X

LEMMA HoldsProgress ==
  ASSUME NEW r, IsFiniteSet(r.overflow)
  PROVE  Good({}, DecomposeProgress(r))
<1> DEFINE K == {Session(r.session)}
<1>1. Holds(K, UpsertSession(r)) /\ Good(K, LogOverflow("progress", r.overflow, r.version))
  BY GoodUpsertSession, GoodLogOverflow
<1> HIDE DEF K
<1>2. Holds(K, UpsertSession(r) \o LogOverflow("progress", r.overflow, r.version))
  BY <1>1, HoldsJoin
<1> QED  BY <1>2 DEF Holds, HoldsBut, Good, DecomposeProgress

LEMMA HoldsSystem ==
  ASSUME NEW r, IsFiniteSet(r.overflow)
  PROVE  Good({}, DecomposeSystem(r))
<1> DEFINE K == {Session(r.session)}
           row == <<"system_events", r.uuid>>
           e == <<Tally(row, {})>>
           l == LogOverflow("system", r.overflow, r.version)
<1>1. row[1] \in Counting \ {"files", "projects"}
  BY DEF Counting
<1>2. DecomposeSystem(r) = ((UpsertSession(r) \o e) \o UpsertAgent(r)) \o l
  BY DEF DecomposeSystem
<1> HIDE DEF row
<1>3. Holds(K, UpsertSession(r)) /\ Good(K, e) /\ Good(K, UpsertAgent(r)) /\ Good(K, l)
  BY <1>1, GoodUpsertSession, GoodTally, GoodUpsertAgent, GoodLogOverflow
<1> HIDE DEF K, e, l
<1>4. Holds(K, UpsertSession(r) \o e)
  BY <1>3, HoldsJoin
<1>5. Holds(K, (UpsertSession(r) \o e) \o UpsertAgent(r))
  BY <1>3, <1>4, HoldsJoin
<1>6. Holds(K, ((UpsertSession(r) \o e) \o UpsertAgent(r)) \o l)
  BY <1>3, <1>5, HoldsJoin
<1> QED  BY <1>2, <1>6 DEF Holds, HoldsBut, Good

LEMMA GoodSummary ==
  ASSUME NEW f, NEW r, IsFiniteSet(r.overflow)
  PROVE  Good({}, DecomposeSummary(f, r))
<1> DEFINE row == <<"summaries", f, r.leaf>>
           e == <<Tally(row, {})>>
           l == LogOverflow("summary", r.overflow, "unknown")
<1>1. row[1] \in Counting \ {"files", "projects"}
  BY DEF Counting
<1>2. DecomposeSummary(f, r) = e \o l
  BY DEF DecomposeSummary
<1> HIDE DEF row
<1>3. Good({}, e) /\ Good({}, l)
  BY <1>1, GoodTally, GoodLogOverflow
<1> HIDE DEF e, l
<1>4. Good({}, e \o l)
  BY <1>3, GoodTwo
<1> QED  BY <1>2, <1>4

LEMMA GoodHook ==
  ASSUME NEW r
  PROVE  Good({<<"attachments", r.uuid>>}, HookRow(r))
<1> DEFINE row == <<"hook_executions", r.uuid, r.tool>>
           parents == {<<"attachments", r.uuid>>}
           x == Tally(row, parents)
           y == Insert(row, "kept", parents)
<1>1. row[1] = "hook_executions" /\ row[3] = r.tool
  OBVIOUS
<1>2. row[1] \notin Counting
  BY <1>1 DEF Counting
<1>3. HookRow(r) = <<IF r.tool = None THEN x ELSE y>>
  BY DEF HookRow
<1> HIDE DEF row, parents
<1>4. Lone(y) /\ y.parents = parents
  BY <1>1, <1>2, FitsPlain
<1>5. r.tool = None => Lone(x) /\ x.parents = parents
  BY <1>1 DEF Lone, Fits, Counts, Tally, Statement
<1> HIDE DEF x, y
<1>6. CASE r.tool = None
  <2>1. Good(parents, <<x>>)
    BY <1>5, <1>6, GoodOne
  <2> QED  BY <1>3, <1>6, <2>1 DEF parents
<1>7. CASE r.tool # None
  <2>1. Good(parents, <<y>>)
    BY <1>4, GoodOne
  <2> QED  BY <1>3, <1>7, <2>1 DEF parents
<1> QED  BY <1>6, <1>7

LEMMA GoodAttachment ==
  ASSUME NEW r, IsFiniteSet(r.overflow), r.body # "unknown" => IsFiniteSet(r.inner)
  PROVE  Good({}, DecomposeAttachment(r))
<1> DEFINE K == {Session(r.session)}
           row == <<"attachments", r.uuid>>
           e == Insert(row, r.session, {Session(r.session)})
           l == LogOverflow("attachment", r.overflow, r.version)
           h == If(r.body = "hook", HookRow(r))
           t == IF r.body = "unknown" THEN LogRecordType("attachment", r.version)
                ELSE LogOverflow("attachment.body", r.inner, r.version)
<1>1. row[1] = "attachments"
  OBVIOUS
<1>2. row[1] \notin Counting
  BY <1>1 DEF Counting
<1>3. DecomposeAttachment(r) = (((UpsertSession(r) \o l) \o <<e>>) \o h) \o t
  BY DEF DecomposeAttachment
<1>4. Good({row}, h)
  BY GoodHook, GoodIf
<1>5. Good({row}, t)
  BY GoodLogRecordType, GoodLogOverflow
<1>6. Good(K, l)
  BY GoodLogOverflow
<1> HIDE DEF row
<1>7. Lone(e) /\ e.parents = K /\ e.op = "insert" /\ e.row = row
  BY <1>1, <1>2, FitsPlain
<1>8. Holds(K, UpsertSession(r))
  BY GoodUpsertSession
<1> HIDE DEF K, e, l, h, t
<1>9. Good(K, <<e>>) /\ Inserts(<<e>>, row)
  BY <1>7, GoodOne, InsertsOne
<1>10. Holds(K, UpsertSession(r) \o l)
  BY <1>6, <1>8, HoldsJoin
<1>11. \A p \in {row} : p \in K \/ Inserts(<<e>>, p)
  BY <1>9
<1>12. Holds({row}, (UpsertSession(r) \o l) \o <<e>>)
  <2> DEFINE L == {row}
             a == UpsertSession(r) \o l
  <2>1. Holds(K, a) /\ \A p \in L : p \in K \/ Inserts(<<e>>, p)
    BY <1>10, <1>11
  <2> HIDE DEF L, a
  <2>2. Holds(L, a \o <<e>>)
    BY <1>9, <2>1, HoldsOver
  <2> QED  BY <2>2 DEF L, a
<1>13. Holds({row}, ((UpsertSession(r) \o l) \o <<e>>) \o h)
  BY <1>4, <1>12, HoldsJoin
<1>14. Holds({row}, (((UpsertSession(r) \o l) \o <<e>>) \o h) \o t)
  BY <1>5, <1>13, HoldsJoin
<1> QED  BY <1>3, <1>14 DEF Holds, HoldsBut, Good

LEMMA GoodProject ==
  ASSUME NEW K, NEW r
  PROVE  Good(K, UpsertProject(r))
<1> DEFINE e == Statement("project", <<"projects", r.cwd>>, 1, {})
           cond == r.type \in {"user", "assistant", "progress", "system"} /\ r.cwd # None
<1>1. Lone(e) /\ e.parents = {}
  BY DEF Lone, Fits, Counts, Statement
<1>2. UpsertProject(r) = If(cond, <<e>>)
  BY DEF UpsertProject
<1> HIDE DEF e, cond
<1>3. Good(K, <<e>>)
  BY <1>1, GoodOne
<1> QED  BY <1>2, <1>3, GoodIf

LEMMA GoodDecomposeArtifacts ==
  ASSUME NEW r, Speaks(r)
  PROVE  Good(Refs(r.session, r.uuid), DecomposeArtifacts(r))
<1> DEFINE K == Refs(r.session, r.uuid)
           One(b) == If(b.type = "tool_use", Artifacts(r.session, r.uuid, b))
           n == Len(r.content)
           ss == [i \in DOMAIN r.content |-> One(r.content[i])]
<1>1. n \in Nat /\ DOMAIN r.content = 1 .. n /\ \A b \in ToSet(r.content) : BlockIsParsed(b)
  BY SpeechIsParsed, ListIs
<1>2. ASSUME NEW b \in ToSet(r.content)
      PROVE  Good(K, One(b))
  <2>1. CASE b.type = "tool_use"
    <3>1. Good(K, Artifacts(r.session, r.uuid, b))
      BY <1>1, <2>1, GoodArtifacts
    <3> QED  BY <3>1, GoodIf
  <2>2. CASE b.type # "tool_use"
    BY <2>2, GoodIf
  <2> QED  BY <2>1, <2>2
<1>3. DecomposeArtifacts(r) = If(r.type = "assistant", FlattenSeq(ss))
  BY DEF DecomposeArtifacts, Each
<1> HIDE DEF One, K
<1>4. ss = [i \in 1 .. n |-> ss[i]]
  BY <1>1
<1>5. \A i \in 1 .. n : Good(K, ss[i])
  <2> TAKE i \in 1 .. n
  <2>1. r.content[i] \in ToSet(r.content)
    BY <1>1 DEF ToSet
  <2> QED  BY <1>1, <1>2, <2>1
<1> HIDE DEF ss, n
<1>6. Good(K, FlattenSeq(ss))
  BY <1>1, <1>4, <1>5, GoodFlat
<1> QED  BY <1>3, <1>6, GoodIf DEF K

(* The first part of decompose_record, by the type of the record.          *)
DecomposeByType(f, r) ==
  CASE r.type = "user" -> DecomposeUser(r)
    [] r.type = "assistant" -> DecomposeAssistant(r)
    [] r.type = "progress" -> DecomposeProgress(r)
    [] r.type = "system" -> DecomposeSystem(r)
    [] r.type = "summary" -> DecomposeSummary(f, r)
    [] r.type = "attachment" -> DecomposeAttachment(r)
    [] r.type = "unknown" -> DecomposeUnknown(r)
    [] OTHER -> DecomposeLight(r)

LEMMA DecomposeIs ==
  ASSUME NEW f, NEW r
  PROVE  Decompose(f, r) = (DecomposeByType(f, r) \o UpsertProject(r)) \o DecomposeArtifacts(r)
  BY DEF Decompose, DecomposeByType

(* A message's own revision.                                               *)
Own(r) == IF r.type \in {"user", "assistant"} THEN {Revision(r)} ELSE {}

(* Every record's statements find the parents they need.                   *)
LEMMA GoodRecord ==
  ASSUME NEW f \in File, NEW r \in ToSet(Lines[f])
  PROVE  GoodBut(Own(r), {}, Decompose(f, r))
<1> DEFINE first == DecomposeByType(f, r)
<1>1. /\ r.type # "unknown" => IsFiniteSet(r.overflow)
      /\ r.type = "attachment" /\ r.body # "unknown" => IsFiniteSet(r.inner)
  BY LinesAssumption DEF RecordIsParsed
<1>2. CASE r.type \in {"user", "assistant"}
  <2> DEFINE K == Refs(r.session, r.uuid)
             X == Own(r)
  <2>1. Speaks(r) /\ X = {Revision(r)}
    BY <1>2 DEF Speaks, Own
  <2>4. HoldsBut(X, K, first)
    <3>1. CASE r.type = "user"
      <4>1. first = DecomposeUser(r)
        BY <3>1 DEF DecomposeByType
      <4>2. HoldsBut(X, K, DecomposeUser(r))
        BY <2>1, HoldsUser
      <4> QED  BY <4>1, <4>2
    <3>2. CASE r.type = "assistant"
      <4>1. first = DecomposeAssistant(r)
        BY <3>2 DEF DecomposeByType
      <4>2. HoldsBut(X, K, DecomposeAssistant(r))
        BY <2>1, <3>2, HoldsAssistant
      <4> QED  BY <4>1, <4>2
    <3> QED  BY <1>2, <3>1, <3>2
  <2>5. Good(K, DecomposeArtifacts(r)) /\ Good(K, UpsertProject(r))
    BY <2>1, GoodDecomposeArtifacts, GoodProject
  <2> HIDE DEF first, K, X
  <2>6. HoldsBut(X, K, first \o UpsertProject(r))
    BY <2>4, <2>5, HoldsOn
  <2>7. HoldsBut(X, K, (first \o UpsertProject(r)) \o DecomposeArtifacts(r))
    BY <2>5, <2>6, HoldsOn
  <2> QED  BY <2>7, DecomposeIs DEF HoldsBut, first, X
<1>3. CASE r.type \notin {"user", "assistant"}
  <2>1. Good({}, first)
    <3>1. CASE r.type = "progress"
      <4>1. first = DecomposeProgress(r)
        BY <3>1 DEF DecomposeByType
      <4> QED  BY <1>1, <3>1, <4>1, HoldsProgress
    <3>2. CASE r.type = "system"
      <4>1. first = DecomposeSystem(r)
        BY <3>2 DEF DecomposeByType
      <4> QED  BY <1>1, <3>2, <4>1, HoldsSystem
    <3>3. CASE r.type = "summary"
      <4>1. first = DecomposeSummary(f, r)
        BY <3>3 DEF DecomposeByType
      <4> QED  BY <1>1, <3>3, <4>1, GoodSummary
    <3>4. CASE r.type = "attachment"
      <4>1. first = DecomposeAttachment(r)
        BY <3>4 DEF DecomposeByType
      <4> QED  BY <1>1, <3>4, <4>1, GoodAttachment
    <3>5. CASE r.type = "unknown"
      <4>1. first = LogRecordType(r.name, r.version)
        BY <3>5 DEF DecomposeByType, DecomposeUnknown
      <4> QED  BY <4>1, GoodLogRecordType
    <3>6. CASE r.type \notin {"progress", "system", "summary", "attachment", "unknown"}
      <4>1. first = LogOverflow(r.type, r.overflow, "unknown")
        BY <1>3, <3>6 DEF DecomposeByType, DecomposeLight
      <4> QED  BY <1>1, <3>6, <4>1, GoodLogOverflow
    <3> QED  BY <3>1, <3>2, <3>3, <3>4, <3>5, <3>6
  <2>2. Good({}, UpsertProject(r))
    BY GoodProject
  <2>3. Good({}, DecomposeArtifacts(r))
    BY <1>3, GoodNone DEF DecomposeArtifacts, If
  <2> HIDE DEF first
  <2>4. Good({}, first \o UpsertProject(r))
    BY <2>1, <2>2, GoodTwo
  <2>5. Good({}, (first \o UpsertProject(r)) \o DecomposeArtifacts(r))
    BY <2>3, <2>4, GoodTwo
  <2>6. Own(r) = {}
    BY <1>3 DEF Own
  <2> QED  BY <2>5, <2>6, DecomposeIs DEF first, Good, GoodBut
<1> QED  BY <1>2, <1>3

LEMMA GoodStatements ==
  ASSUME NEW f \in File, NEW k \in DOMAIN Lines[f]
  PROVE  /\ GoodBut(Own(Lines[f][k]), {}, Statements[f][k])
         /\ Own(Lines[f][k]) \subseteq Revisions
<1>1. Lines[f][k] \in ToSet(Lines[f])
  BY DEF ToSet
<1>2. GoodBut(Own(Lines[f][k]), {}, Decompose(f, Lines[f][k]))
  BY <1>1, GoodRecord
<1>3. Statements[f][k] = Decompose(f, Lines[f][k])
  BY DEF Statements
<1>4. Own(Lines[f][k]) \subseteq Revisions
  BY <1>1 DEF Own, Revisions, Spoken
<1> QED  BY <1>2, <1>3, <1>4

-----------------------------------------------------------------------------
(***************************************************************************)
(* What one statement does to the database.                                *)
(***************************************************************************)
LEMMA ExecIs ==
  ASSUME NEW d, NEW s
  PROVE  /\ s.op = "insert" => Exec(d, s) = InsertRow(d, s.row, s.value)
         /\ s.op = "tally" =>
              Exec(d, s) = Put(d, s.row, IF s.row \in DOMAIN d THEN d[s.row] + 1 ELSE 1)
         /\ s.op = "bump" =>
              Exec(d, s) = IF s.row \in DOMAIN d THEN [d EXCEPT ![s.row] = @ + 1] ELSE d
         /\ s.op = "answer" =>
              Exec(d, s) = [r \in DOMAIN d |->
                              IF Answers(r, s.row[2], s.row[3])
                                THEN [d[r] EXCEPT !.answered = TRUE] ELSE d[r]]
         /\ s.op = "project" => Exec(d, s) = Put(d, s.row, ProjectCount(d, s.row))
         /\ s.op = "update" =>
              Exec(d, s) = IF s.row \in DOMAIN d
                             THEN [d EXCEPT ![s.row].overflow = s.value] ELSE d
  BY DEF Exec

LEMMA RevisionIs ==
  ASSUME NEW s \in Revisions
  PROVE  s.op = "update" /\ s.row[1] = "messages" /\ s.parents = {}
  BY DEF Revisions, Revision, Statement, Message

(* The overflow columns of the message r are written by a statement of X.  *)
Revised(X, r, old, new) ==
  /\ r[1] = "messages"
  /\ \E s \in X : s.row = r /\ new = [old EXCEPT !.overflow = s.value]

(* Nothing is lost or changed but counters, copies and results, and what   *)
(* the statements of X write.                                              *)
LaterBut(X, d, e) ==
  /\ DOMAIN d \subseteq DOMAIN e
  /\ \A r \in DOMAIN d :
       ~ Tallied(r) => SameOrAnswered(r, d[r], e[r]) \/ Revised(X, r, d[r], e[r])

Later(d, e) == LaterBut(Revisions, d, e)

LEMMA LaterSelf ==
  ASSUME NEW X, NEW d
  PROVE  LaterBut(X, d, d)
  BY DEF LaterBut, SameOrAnswered

LEMMA LaterStill ==
  ASSUME NEW X \in SUBSET Revisions, NEW d, NEW e, LaterBut(X, d, e)
  PROVE  Later(d, e)
  BY DEF Later, LaterBut, Revised

LEMMA LaterJoin ==
  ASSUME NEW X, NEW a, NEW b, NEW c, LaterBut(X, a, b), LaterBut(X, b, c)
  PROVE  LaterBut(X, a, c)
<1>1. DOMAIN a \subseteq DOMAIN c
  BY DEF LaterBut
<1>2. ASSUME NEW r \in DOMAIN a, ~ Tallied(r)
      PROVE  SameOrAnswered(r, a[r], c[r]) \/ Revised(X, r, a[r], c[r])
  <2>1. /\ SameOrAnswered(r, a[r], b[r]) \/ Revised(X, r, a[r], b[r])
        /\ SameOrAnswered(r, b[r], c[r]) \/ Revised(X, r, b[r], c[r])
    BY <1>2 DEF LaterBut
  <2>2. CASE r[1] = "messages"
    <3> DEFINE u == a[r]
               v == b[r]
               w == c[r]
    <3>1. /\ v = u \/ \E s \in X : s.row = r /\ v = [u EXCEPT !.overflow = s.value]
          /\ w = v \/ \E s \in X : s.row = r /\ w = [v EXCEPT !.overflow = s.value]
      BY <2>1, <2>2 DEF SameOrAnswered, Revised
    <3>2. \A x, y, z : [[x EXCEPT !.overflow = y] EXCEPT !.overflow = z] = [x EXCEPT !.overflow = z]
      OBVIOUS
    <3> HIDE DEF u, v, w
    <3>3. w = u \/ \E s \in X : s.row = r /\ w = [u EXCEPT !.overflow = s.value]
      BY <3>1, <3>2
    <3> QED  BY <2>2, <3>3 DEF SameOrAnswered, Revised, u, w
  <2>3. CASE r[1] # "messages"
    <3>1. SameOrAnswered(r, a[r], b[r]) /\ SameOrAnswered(r, b[r], c[r])
      BY <2>1, <2>3 DEF Revised
    <3>2. \A v : [[v EXCEPT !.answered = TRUE] EXCEPT !.answered = TRUE] = [v EXCEPT !.answered = TRUE]
      OBVIOUS
    <3> QED  BY <3>1, <3>2 DEF SameOrAnswered
  <2> QED  BY <2>2, <2>3
<1> QED  BY <1>1, <1>2 DEF LaterBut

Adds(s) == s.op \notin {"bump", "answer", "update"}

LEMMA ExecDomain ==
  ASSUME NEW d, NEW s, Fits(s) \/ s \in Revisions
  PROVE  /\ DOMAIN Exec(d, s) = DOMAIN d \cup (IF Adds(s) THEN {s.row} ELSE {})
         /\ d = [r \in DOMAIN d |-> d[r]] =>
              Exec(d, s) = [r \in DOMAIN Exec(d, s) |-> Exec(d, s)[r]]
<1> DEFINE e == Exec(d, s)
<1>1. CASE s.op = "insert"
  <2>1. e = IF s.row \in DOMAIN d THEN d ELSE Put(d, s.row, s.value)
    BY <1>1, ExecIs DEF InsertRow
  <2> QED  BY <1>1, <2>1 DEF Adds, Put
<1>2. CASE s.op = "tally"
  <2>1. e = Put(d, s.row, IF s.row \in DOMAIN d THEN d[s.row] + 1 ELSE 1)
    BY <1>2, ExecIs
  <2> QED  BY <1>2, <2>1 DEF Adds, Put
<1>3. CASE s.op = "bump"
  <2>1. e = IF s.row \in DOMAIN d THEN [d EXCEPT ![s.row] = @ + 1] ELSE d
    BY <1>3, ExecIs
  <2> QED  BY <1>3, <2>1 DEF Adds
<1>4. CASE s.op = "answer"
  <2>1. e = [r \in DOMAIN d |-> IF Answers(r, s.row[2], s.row[3])
                                  THEN [d[r] EXCEPT !.answered = TRUE] ELSE d[r]]
    BY <1>4, ExecIs
  <2> QED  BY <1>4, <2>1 DEF Adds
<1>5. CASE s.op = "project"
  <2>1. e = Put(d, s.row, ProjectCount(d, s.row))
    BY <1>5, ExecIs
  <2> QED  BY <1>5, <2>1 DEF Adds, Put
<1>6. CASE s.op = "update"
  <2>1. e = IF s.row \in DOMAIN d THEN [d EXCEPT ![s.row].overflow = s.value] ELSE d
    BY <1>6, ExecIs
  <2> QED  BY <1>6, <2>1 DEF Adds
<1>7. Fits(s) \/ s.op = "update"
  BY RevisionIs
<1> QED  BY <1>1, <1>2, <1>3, <1>4, <1>5, <1>6, <1>7 DEF Fits

LEMMA ExecLater ==
  ASSUME NEW X \in SUBSET Revisions, NEW d, NEW s, Fits(s) \/ s \in X
  PROVE  LaterBut(X, d, Exec(d, s))
<1> DEFINE e == Exec(d, s)
<1>1. DOMAIN d \subseteq DOMAIN e
  <2>1. DOMAIN e = DOMAIN d \cup (IF Adds(s) THEN {s.row} ELSE {})
    <3>1. Fits(s) \/ s \in Revisions
      OBVIOUS
    <3> QED  BY <3>1, ExecDomain
  <2> HIDE DEF e
  <2> QED  BY <2>1
<1>2. ASSUME NEW r \in DOMAIN d, ~ Tallied(r)
      PROVE  SameOrAnswered(r, d[r], e[r]) \/ Revised(X, r, d[r], e[r])
  <2>7. Fits(s) \/ (s \in X /\ s.op = "update")
    BY RevisionIs
  <2>1. CASE s.op = "insert"
    <3>1. e = IF s.row \in DOMAIN d THEN d ELSE Put(d, s.row, s.value)
      BY <2>1, ExecIs DEF InsertRow
    <3>2. e[r] = d[r]
      BY <3>1 DEF Put
    <3> QED  BY <3>2 DEF SameOrAnswered
  <2>2. CASE s.op = "tally"
    <3>1. e = Put(d, s.row, IF s.row \in DOMAIN d THEN d[s.row] + 1 ELSE 1)
      BY <2>2, ExecIs
    <3>2. r # s.row
      BY <1>2, <2>2, <2>7 DEF Fits, Tallied, HasKey
    <3>3. e[r] = d[r]
      BY <3>1, <3>2 DEF Put
    <3> QED  BY <3>3 DEF SameOrAnswered
  <2>3. CASE s.op = "bump"
    <3>1. e = IF s.row \in DOMAIN d THEN [d EXCEPT ![s.row] = @ + 1] ELSE d
      BY <2>3, ExecIs
    <3>2. r # s.row
      BY <1>2, <2>3, <2>7 DEF Fits, Tallied, Counting
    <3>3. e[r] = d[r]
      BY <3>1, <3>2
    <3> QED  BY <3>3 DEF SameOrAnswered
  <2>4. CASE s.op = "answer"
    <3>1. e = [q \in DOMAIN d |-> IF Answers(q, s.row[2], s.row[3])
                                    THEN [d[q] EXCEPT !.answered = TRUE] ELSE d[q]]
      BY <2>4, ExecIs
    <3>2. e[r] = IF Answers(r, s.row[2], s.row[3])
                   THEN [d[r] EXCEPT !.answered = TRUE] ELSE d[r]
      BY <3>1
    <3> QED  BY <3>2 DEF SameOrAnswered, Answers
  <2>5. CASE s.op = "project"
    <3>1. e = Put(d, s.row, ProjectCount(d, s.row))
      BY <2>5, ExecIs
    <3>2. r # s.row
      BY <1>2, <2>5, <2>7 DEF Fits, Tallied, Counting
    <3>3. e[r] = d[r]
      BY <3>1, <3>2 DEF Put
    <3> QED  BY <3>3 DEF SameOrAnswered
  <2>6. CASE s.op = "update"
    <3>1. e = IF s.row \in DOMAIN d THEN [d EXCEPT ![s.row].overflow = s.value] ELSE d
      BY <2>6, ExecIs
    <3>2. s \in X /\ s.row[1] = "messages"
      BY <2>6, <2>7, RevisionIs DEF Fits
    <3>3. CASE r = s.row
      <4>1. e[r] = [d[r] EXCEPT !.overflow = s.value]
        BY <3>1, <3>3
      <4> QED  BY <3>2, <3>3, <4>1 DEF Revised
    <3>4. CASE r # s.row
      <4>1. e[r] = d[r]
        BY <3>1, <3>4
      <4> QED  BY <4>1 DEF SameOrAnswered
    <3> QED  BY <3>3, <3>4
  <2> QED  BY <2>1, <2>2, <2>3, <2>4, <2>5, <2>6, <2>7 DEF Fits
<1> QED  BY <1>1, <1>2 DEF LaterBut

(***************************************************************************)
(* The invariant of the database itself.                                   *)
(***************************************************************************)
UseOk(d, r) ==
  r[1] = "tool_executions" =>
    /\ r = <<"tool_executions", r[2], d[r].block.tool>>
    /\ d[r] = [block |-> d[r].block, answered |-> d[r].answered]
    /\ HasUse(r[2], d[r].block)
    /\ Message(r[2]) \in DOMAIN d

MessageOk(d, r) ==
  r[1] = "messages" =>
    /\ r = Message(r[2])
    /\ d[r] = [session |-> d[r].session, overflow |-> d[r].overflow]
    /\ HasSession(r[2], d[r].session)
    /\ Session(d[r].session) \in DOMAIN d

NumberOk(d, r) == r[1] \in Counting => d[r] \in Nat

ProjectOk(d, r) ==
  r[1] = "projects" => d[r] <= 1 \/ d[r] <= Cardinality(SessionsOf(d, r[2]))

Sound(d) ==
  /\ d = [r \in DOMAIN d |-> d[r]]
  /\ IsFiniteSet(DOMAIN d)
  /\ \A r \in DOMAIN d : UseOk(d, r) /\ MessageOk(d, r) /\ NumberOk(d, r) /\ ProjectOk(d, r)

LEMMA SessionsGrow ==
  ASSUME NEW d, NEW e, Later(d, e), IsFiniteSet(DOMAIN e), NEW path
  PROVE  /\ Cardinality(SessionsOf(d, path)) \in Nat
         /\ Cardinality(SessionsOf(e, path)) \in Nat
         /\ Cardinality(SessionsOf(d, path)) <= Cardinality(SessionsOf(e, path))
<1>1. SessionsOf(d, path) \subseteq SessionsOf(e, path)
  <2> SUFFICES ASSUME NEW r \in DOMAIN d, r[1] = "sessions", d[r] = path
               PROVE  r \in DOMAIN e /\ e[r] = path
    BY DEF SessionsOf
  <2>1. ~ Tallied(r)
    BY DEF Tallied, Counting, HasKey
  <2> QED  BY <2>1 DEF Later, LaterBut, SameOrAnswered, Revised
<1>2. SessionsOf(e, path) \in SUBSET (DOMAIN e)
  BY DEF SessionsOf
<1> DEFINE S == SessionsOf(d, path)
           T == SessionsOf(e, path)
<1> HIDE DEF S, T
<1>3. IsFiniteSet(T)
  BY <1>2, FS_Subset DEF T
<1>4. S \in SUBSET T
  BY <1>1 DEF S, T
<1>5. IsFiniteSet(S) /\ Cardinality(S) <= Cardinality(T)
  BY <1>3, <1>4, FS_Subset
<1>6. Cardinality(S) \in Nat /\ Cardinality(T) \in Nat
  BY <1>3, <1>5, FS_CardinalityType
<1> QED  BY <1>5, <1>6 DEF S, T

LEMMA SoundLater ==
  ASSUME NEW d, NEW e, Sound(d), Later(d, e),
         e = [r \in DOMAIN e |-> e[r]], IsFiniteSet(DOMAIN e),
         \A r \in DOMAIN e : NumberOk(e, r),
         \A r \in DOMAIN e \ DOMAIN d : UseOk(e, r) /\ MessageOk(e, r),
         \A r \in DOMAIN e : r[1] = "projects" =>
           \/ r \in DOMAIN d /\ e[r] = d[r]
           \/ e[r] = 1
           \/ e[r] = Cardinality(SessionsOf(d, r[2]))
  PROVE  Sound(e)
<1>1. ASSUME NEW r \in DOMAIN d, r[1] = "tool_executions"
      PROVE  UseOk(e, r)
  <2>1. ~ Tallied(r)
    BY <1>1 DEF Tallied, Counting, HasKey
  <2>2. e[r] = d[r] \/ e[r] = [d[r] EXCEPT !.answered = TRUE]
    BY <1>1, <2>1 DEF Later, LaterBut, SameOrAnswered, Revised
  <2>3. UseOk(d, r)
    BY DEF Sound
  <2>4. d[r] = [block |-> d[r].block, answered |-> d[r].answered]
    BY <1>1, <2>3 DEF UseOk
  <2>5. e[r].block = d[r].block /\ e[r] = [block |-> e[r].block, answered |-> e[r].answered]
    <3> DEFINE v == d[r]
               w == e[r]
               x == v.block
               y == v.answered
    <3>1. v = [block |-> x, answered |-> y]
      BY <2>4
    <3>2. w = v \/ w = [v EXCEPT !.answered = TRUE]
      BY <2>2
    <3> HIDE DEF v, w, x, y
    <3>3. w.block = x /\ w = [block |-> w.block, answered |-> w.answered]
      BY <3>1, <3>2
    <3> QED  BY <3>3 DEF w, x, v
  <2>6. Message(r[2]) \in DOMAIN e
    BY <1>1, <2>3 DEF UseOk, Later, LaterBut
  <2>7. r = <<"tool_executions", r[2], e[r].block.tool>> /\ HasUse(r[2], e[r].block)
    BY <1>1, <2>3, <2>5 DEF UseOk
  <2> QED  BY <2>5, <2>6, <2>7 DEF UseOk
<1>2. ASSUME NEW r \in DOMAIN d, r[1] = "messages"
      PROVE  MessageOk(e, r)
  <2>1. ~ Tallied(r)
    BY <1>2 DEF Tallied, Counting, HasKey
  <2> DEFINE v == d[r]
             w == e[r]
  <2>2. w = v \/ \E x : w = [v EXCEPT !.overflow = x]
    BY <1>2, <2>1 DEF Later, LaterBut, SameOrAnswered, Revised
  <2>3. MessageOk(d, r)
    BY DEF Sound
  <2>4. v = [session |-> v.session, overflow |-> v.overflow]
    BY <1>2, <2>3 DEF MessageOk
  <2>5. /\ r = Message(r[2]) /\ HasSession(r[2], v.session)
        /\ Session(v.session) \in DOMAIN e
    BY <1>2, <2>3 DEF MessageOk, Later, LaterBut
  <2> HIDE DEF v, w
  <2>6. w.session = v.session /\ w = [session |-> w.session, overflow |-> w.overflow]
    BY <2>2, <2>4
  <2>7. MessageOk(e, r)
    BY <2>5, <2>6 DEF MessageOk, w
  <2> QED  BY <2>7
<1>3. ASSUME NEW r \in DOMAIN e, r[1] = "projects"
      PROVE  e[r] <= 1 \/ e[r] <= Cardinality(SessionsOf(e, r[2]))
  <2> DEFINE m == Cardinality(SessionsOf(d, r[2]))
             n == Cardinality(SessionsOf(e, r[2]))
  <2>1. m \in Nat /\ n \in Nat /\ m <= n
    BY SessionsGrow
  <2> HIDE DEF m, n
  <2>2. CASE r \in DOMAIN d /\ e[r] = d[r]
    <3>1. d[r] <= 1 \/ d[r] <= m
      BY <1>3, <2>2 DEF Sound, ProjectOk, m
    <3>2. d[r] \in Nat
      BY <1>3, <2>2 DEF Sound, NumberOk, Counting
    <3>3. e[r] <= 1 \/ e[r] <= n
      BY <2>1, <2>2, <3>1, <3>2
    <3> QED  BY <3>3 DEF n
  <2>3. CASE e[r] = 1
    BY <2>3
  <2>4. CASE e[r] = m
    BY <2>1, <2>4 DEF n
  <2> QED  BY <1>3, <2>2, <2>3, <2>4 DEF m
<1>4. \A r \in DOMAIN e : UseOk(e, r)
  BY <1>1 DEF UseOk
<1>5. \A r \in DOMAIN e : MessageOk(e, r)
  BY <1>2 DEF MessageOk
<1>6. \A r \in DOMAIN e : ProjectOk(e, r)
  BY <1>3 DEF ProjectOk
<1> QED  BY <1>4, <1>5, <1>6 DEF Sound

LEMMA ExecNumbers ==
  ASSUME NEW d, NEW s, Sound(d), Fits(s) \/ s \in Revisions, NEW r \in DOMAIN Exec(d, s)
  PROVE  /\ NumberOk(Exec(d, s), r)
         /\ r[1] = "projects" =>
              \/ r \in DOMAIN d /\ Exec(d, s)[r] = d[r]
              \/ Exec(d, s)[r] = 1
              \/ Exec(d, s)[r] = Cardinality(SessionsOf(d, r[2]))
<1> DEFINE e == Exec(d, s)
<1>1. r \in DOMAIN d \/ (Adds(s) /\ r = s.row)
  <2>1. DOMAIN e = DOMAIN d \cup (IF Adds(s) THEN {s.row} ELSE {})
    BY ExecDomain
  <2>2. r \in DOMAIN e
    OBVIOUS
  <2> HIDE DEF e
  <2> QED  BY <2>1, <2>2
<1>2. r \in DOMAIN d => NumberOk(d, r)
  BY DEF Sound
<1>9. Fits(s) \/ (s.op = "update" /\ s.row[1] = "messages")
  BY RevisionIs
<1>3. CASE s.op = "insert"
  <2>1. e = IF s.row \in DOMAIN d THEN d ELSE Put(d, s.row, s.value)
    BY <1>3, ExecIs DEF InsertRow
  <2>2. (r \in DOMAIN d /\ e[r] = d[r]) \/ (r = s.row /\ e[r] = s.value)
    BY <1>1, <2>1 DEF Put
  <2>3. r = s.row /\ r[1] \in Counting => r[1] = "files" /\ s.value = 0
    <3>1. \A a, b : FileRow(a, b)[1] = "files"
      BY DEF FileRow
    <3> QED  BY <1>3, <1>9, <3>1 DEF Fits
  <2> HIDE DEF e
  <2>4. NumberOk(e, r)
    BY <1>2, <2>2, <2>3 DEF NumberOk
  <2>5. r[1] = "projects" => r \in DOMAIN d /\ e[r] = d[r]
    BY <2>2, <2>3 DEF Counting
  <2> QED  BY <2>4, <2>5 DEF e
<1>4. CASE s.op = "tally"
  <2>1. e = Put(d, s.row, IF s.row \in DOMAIN d THEN d[s.row] + 1 ELSE 1)
    BY <1>4, ExecIs
  <2>2. \/ r \in DOMAIN d /\ e[r] = d[r]
        \/ r = s.row /\ e[r] = IF r \in DOMAIN d THEN d[r] + 1 ELSE 1
    BY <1>1, <2>1 DEF Put
  <2>3. r = s.row => r[1] # "projects"
    BY <1>4, <1>9 DEF Fits
  <2> HIDE DEF e
  <2>4. NumberOk(e, r)
    BY <1>2, <2>2 DEF NumberOk
  <2> QED  BY <2>2, <2>3, <2>4 DEF e
<1>5. CASE s.op = "bump"
  <2>1. e = IF s.row \in DOMAIN d THEN [d EXCEPT ![s.row] = @ + 1] ELSE d
    BY <1>5, ExecIs
  <2>2. r \in DOMAIN d /\ (e[r] = d[r] \/ (r = s.row /\ e[r] = d[r] + 1))
    BY <1>1, <1>5, <2>1 DEF Adds
  <2>3. r = s.row => r[1] = "files"
    BY <1>5, <1>9 DEF Fits
  <2> HIDE DEF e
  <2>4. NumberOk(e, r)
    BY <1>2, <2>2 DEF NumberOk
  <2> QED  BY <2>2, <2>3, <2>4 DEF e
<1>6. CASE s.op = "answer"
  <2>1. e = [q \in DOMAIN d |-> IF Answers(q, s.row[2], s.row[3])
                                  THEN [d[q] EXCEPT !.answered = TRUE] ELSE d[q]]
    BY <1>6, ExecIs
  <2>2. r \in DOMAIN d /\ (e[r] = d[r] \/ r[1] = "tool_executions")
    BY <1>1, <1>6, <2>1 DEF Adds, Answers
  <2> HIDE DEF e
  <2>3. NumberOk(e, r)
    BY <1>2, <2>2 DEF NumberOk, Counting
  <2> QED  BY <2>2, <2>3 DEF e
<1>7. CASE s.op = "project"
  <2> DEFINE n == Cardinality(SessionsOf(d, r[2]))
  <2>1. e = Put(d, s.row, ProjectCount(d, s.row))
    BY <1>7, ExecIs
  <2>2. \/ r \in DOMAIN d /\ e[r] = d[r]
        \/ r = s.row /\ e[r] = ProjectCount(d, r)
    BY <1>1, <2>1 DEF Put
  <2>3. ProjectCount(d, r) = n \/ ProjectCount(d, r) = 1
    BY DEF ProjectCount
  <2>4. n \in Nat
    <3>1. Later(d, d) /\ IsFiniteSet(DOMAIN d)
      BY LaterSelf DEF Sound, Later
    <3> QED  BY <3>1, SessionsGrow
  <2> HIDE DEF e, n
  <2>5. NumberOk(e, r)
    BY <1>2, <2>2, <2>3, <2>4 DEF NumberOk
  <2> QED  BY <2>2, <2>3, <2>5 DEF e, n
<1>8. CASE s.op = "update"
  <2>1. e = IF s.row \in DOMAIN d THEN [d EXCEPT ![s.row].overflow = s.value] ELSE d
    BY <1>8, ExecIs
  <2>2. s.row[1] = "messages"
    BY <1>8, <1>9 DEF Fits
  <2>3. r \in DOMAIN d /\ (e[r] = d[r] \/ r[1] = "messages")
    BY <1>1, <1>8, <2>1, <2>2 DEF Adds
  <2> HIDE DEF e
  <2>4. NumberOk(e, r)
    BY <1>2, <2>3 DEF NumberOk, Counting
  <2> QED  BY <2>3, <2>4 DEF e
<1> QED  BY <1>3, <1>4, <1>5, <1>6, <1>7, <1>8, <1>9 DEF Fits

LEMMA ExecSound ==
  ASSUME NEW d, NEW s, Sound(d), Fits(s) \/ s \in Revisions, ~ Rejected(d, s)
  PROVE  Sound(Exec(d, s))
<1> DEFINE e == Exec(d, s)
<1>1. Later(d, e)
  BY ExecLater DEF Later
<1>9. Fits(s) \/ s.op = "update"
  BY RevisionIs
<1>2. DOMAIN e = DOMAIN d \cup (IF Adds(s) THEN {s.row} ELSE {})
  BY ExecDomain
<1>3. e = [r \in DOMAIN e |-> e[r]]
  BY ExecDomain DEF Sound
<1>4. /\ \A r \in DOMAIN e : NumberOk(e, r)
      /\ \A r \in DOMAIN e : r[1] = "projects" =>
           \/ r \in DOMAIN d /\ e[r] = d[r]
           \/ e[r] = 1
           \/ e[r] = Cardinality(SessionsOf(d, r[2]))
  BY ExecNumbers
<1>5. ASSUME s.op = "insert", s.row \notin DOMAIN d
      PROVE  e[s.row] = s.value
  <2>1. e = Put(d, s.row, s.value)
    BY <1>5, ExecIs DEF InsertRow
  <2> QED  BY <2>1 DEF Put
<1> HIDE DEF e
<1>6. IsFiniteSet(DOMAIN e)
  <2>1. IsFiniteSet(DOMAIN d)
    BY DEF Sound
  <2>2. IsFiniteSet(DOMAIN d \cup {s.row})
    BY <2>1, FS_AddElement
  <2> QED  BY <1>2, <2>1, <2>2
<1>7. ASSUME NEW r \in DOMAIN e \ DOMAIN d
      PROVE  UseOk(e, r) /\ MessageOk(e, r)
  <2>1. r = s.row /\ Adds(s)
    BY <1>2
  <2>2. CASE s.op = "insert"
    <3>1. e[r] = s.value /\ s.parents \subseteq DOMAIN d /\ DOMAIN d \subseteq DOMAIN e
      BY <1>1, <1>5, <2>1, <2>2 DEF Rejected, Later, LaterBut
    <3>2. UseOk(e, r)
      BY <1>9, <2>1, <2>2, <3>1 DEF Fits, UseOk
    <3>3. MessageOk(e, r)
      BY <1>9, <2>1, <2>2, <3>1 DEF Fits, MessageOk
    <3> QED  BY <3>2, <3>3
  <2>3. CASE s.op # "insert"
    <3>1. r[1] # "tool_executions" /\ r[1] # "messages"
      BY <1>9, <2>1, <2>3 DEF Fits, Counting, Adds
    <3> QED  BY <3>1 DEF UseOk, MessageOk
  <2> QED  BY <2>2, <2>3
<1>8. Sound(e)
  BY <1>1, <1>3, <1>4, <1>6, <1>7, SoundLater
<1> QED  BY <1>8 DEF e

-----------------------------------------------------------------------------
(***************************************************************************)
(* What the statements of a record do, one after the other.                *)
(***************************************************************************)
Then(before, s) ==
  IF before.ok /\ ~ Rejected(before.db, s)
    THEN [db |-> Exec(before.db, s), ok |-> TRUE]
    ELSE [db |-> before.db, ok |-> FALSE]

IsRun(g, d, stmts, n) ==
  g = [i \in 0 .. n |-> IF i = 0 THEN [db |-> d, ok |-> TRUE] ELSE Then(g[i - 1], stmts[i])]

LEMMA RunExists ==
  ASSUME NEW d, NEW stmts, NEW n \in Nat
  PROVE  \E g : IsRun(g, d, stmts, n)
<1> DEFINE T == {m \in Nat : \E g : IsRun(g, d, stmts, m)}
           start == [db |-> d, ok |-> TRUE]
<1>1. 0 \in T
  <2> DEFINE g == [i \in 0 .. 0 |-> start]
  <2>1. IsRun(g, d, stmts, 0)
    BY DEF IsRun
  <2> QED  BY <2>1
<1>2. ASSUME NEW m \in Nat, m \in T
      PROVE  m + 1 \in T
  <2>1. PICK g : IsRun(g, d, stmts, m)
    BY <1>2
  <2> DEFINE h == [i \in 0 .. m + 1 |-> IF i \in 0 .. m THEN g[i] ELSE Then(g[m], stmts[m + 1])]
  <2>2. \A i \in 0 .. m : h[i] = g[i]
    OBVIOUS
  <2>3. h[m + 1] = Then(g[m], stmts[m + 1])
    OBVIOUS
  <2>4. \A i \in 0 .. m : g[i] = IF i = 0 THEN start ELSE Then(g[i - 1], stmts[i])
    BY <2>1 DEF IsRun
  <2>5. h = [i \in 0 .. m + 1 |-> h[i]]
    OBVIOUS
  <2> HIDE DEF h, start
  <2>6. \A i \in 0 .. m + 1 : h[i] = IF i = 0 THEN start ELSE Then(h[i - 1], stmts[i])
    <3> TAKE i \in 0 .. m + 1
    <3>1. CASE i \in 0 .. m
      <4>1. i = 0 \/ i - 1 \in 0 .. m
        BY <3>1
      <4> QED  BY <2>2, <2>4, <3>1, <4>1
    <3>2. CASE i = m + 1
      <4>1. m \in 0 .. m /\ i # 0 /\ i - 1 = m
        BY <3>2
      <4>2. h[m] = g[m]
        BY <2>2, <4>1
      <4> QED  BY <2>3, <3>2, <4>1, <4>2
    <3> QED  BY <3>1, <3>2
  <2>7. h = [i \in 0 .. m + 1 |-> IF i = 0 THEN start ELSE Then(h[i - 1], stmts[i])]
    BY <2>5, <2>6
  <2>8. IsRun(h, d, stmts, m + 1)
    BY <2>7 DEF IsRun, start
  <2> QED  BY <2>8
<1> HIDE DEF T
<1>3. n \in T
  BY <1>1, <1>2, Induct
<1> QED  BY <1>3 DEF T

LEMMA AfterIs ==
  ASSUME NEW d, NEW stmts, Len(stmts) \in Nat
  PROVE  /\ After(d, stmts)[0] = [db |-> d, ok |-> TRUE]
         /\ \A n \in 0 .. Len(stmts) - 1 :
              After(d, stmts)[n + 1] = Then(After(d, stmts)[n], stmts[n + 1])
<1> DEFINE g == CHOOSE h : IsRun(h, d, stmts, Len(stmts))
<1>1. IsRun(g, d, stmts, Len(stmts))
  BY RunExists, Zenon
<1>2. After(d, stmts) = g
  BY Zenon DEF After, IsRun, Then
<1> HIDE DEF g
<1>3. g[0] = [db |-> d, ok |-> TRUE]
  BY <1>1 DEF IsRun
<1>4. ASSUME NEW n \in 0 .. Len(stmts) - 1
      PROVE  g[n + 1] = Then(g[n], stmts[n + 1])
  <2>1. n + 1 \in 0 .. Len(stmts) /\ n + 1 # 0 /\ n + 1 - 1 = n
    OBVIOUS
  <2>2. g[n + 1] = IF n + 1 = 0 THEN [db |-> d, ok |-> TRUE]
                   ELSE Then(g[n + 1 - 1], stmts[n + 1])
    <3>1. \A i \in 0 .. Len(stmts) :
            g[i] = IF i = 0 THEN [db |-> d, ok |-> TRUE] ELSE Then(g[i - 1], stmts[i])
      BY <1>1 DEF IsRun
    <3> QED  BY <2>1, <3>1
  <2> QED  BY <2>1, <2>2
<1> QED  BY <1>2, <1>3, <1>4

LEMMA UseStays ==
  ASSUME NEW d, NEW e, Sound(d), Later(d, e), NEW r, r \in DOMAIN d,
         r[1] = "tool_executions"
  PROVE  r \in DOMAIN e /\ e[r].block = d[r].block
<1>1. ~ Tallied(r)
  BY DEF Tallied, Counting, HasKey
<1>2. e[r] = d[r] \/ e[r] = [d[r] EXCEPT !.answered = TRUE]
  BY <1>1 DEF Later, LaterBut, SameOrAnswered, Revised
<1>3. d[r] = [block |-> d[r].block, answered |-> d[r].answered]
  BY DEF Sound, UseOk
<1> DEFINE v == d[r]
           w == e[r]
<1>4. r \in DOMAIN e
  BY DEF Later, LaterBut
<1>5. v = [block |-> v.block, answered |-> v.answered] /\ (w = v \/ w = [v EXCEPT !.answered = TRUE])
  BY <1>2, <1>3
<1> HIDE DEF v, w
<1>6. w.block = v.block
  BY <1>5
<1> QED  BY <1>4, <1>6 DEF v, w

LEMMA StillAnswered ==
  ASSUME NEW d, NEW e, Sound(d), Later(d, e), NEW r, r \in DOMAIN d,
         r[1] = "tool_executions", d[r].answered = TRUE
  PROVE  e[r].answered = TRUE
<1>1. ~ Tallied(r)
  BY DEF Tallied, Counting, HasKey
<1>2. e[r] = d[r] \/ e[r] = [d[r] EXCEPT !.answered = TRUE]
  BY <1>1 DEF Later, LaterBut, SameOrAnswered, Revised
<1>3. d[r] = [block |-> d[r].block, answered |-> d[r].answered]
  BY DEF Sound, UseOk
<1> DEFINE v == d[r]
           w == e[r]
<1>4. v = [block |-> v.block, answered |-> v.answered] /\ (w = v \/ w = [v EXCEPT !.answered = TRUE])
  BY <1>2, <1>3
<1>5. v.answered = TRUE
  OBVIOUS
<1> HIDE DEF v, w
<1>6. w.answered = TRUE
  BY <1>4, <1>5
<1> QED  BY <1>6 DEF w

(* The row r has its result, if one of the first n statements brings it.   *)
Answered(d, stmts, n, r) ==
  \E i \in 1 .. n : stmts[i].op = "answer" /\ Answers(r, stmts[i].row[2], stmts[i].row[3])

Progress(X, d, K, stmts, a, n) ==
  /\ a.ok \in BOOLEAN
  /\ Sound(a.db) /\ LaterBut(X, d, a.db)
  /\ DOMAIN a.db \subseteq DOMAIN d \cup Rows(stmts)
  /\ a.ok => \A i \in 1 .. n : Adds(stmts[i]) => stmts[i].row \in DOMAIN a.db
  /\ a.ok => \A r \in DOMAIN d : Answered(d, stmts, n, r) => a.db[r].answered = TRUE
  /\ K \subseteq DOMAIN d => a.ok

LEMMA Progresses ==
  ASSUME NEW X \in SUBSET Revisions, NEW d, NEW K, NEW stmts, Sound(d), GoodBut(X, K, stmts),
         NEW a, NEW n \in 0 .. Len(stmts) - 1, Progress(X, d, K, stmts, a, n)
  PROVE  Progress(X, d, K, stmts, Then(a, stmts[n + 1]), n + 1)
<1> DEFINE s == stmts[n + 1]
           e == Exec(a.db, s)
           b == Then(a, s)
<1>1. Len(stmts) \in Nat /\ DOMAIN stmts = 1 .. Len(stmts)
  BY ListIs DEF GoodBut
<1>2. n + 1 \in 1 .. Len(stmts) /\ n \in Nat
  BY <1>1
<1>3. Fits(s) \/ s \in X
  BY <1>1, <1>2 DEF GoodBut, ToSet
<1>4. CASE ~ (a.ok /\ ~ Rejected(a.db, s))
  <2>1. b = [db |-> a.db, ok |-> FALSE]
    BY <1>4 DEF Then
  <2>2. b.db = a.db /\ b.ok = FALSE
    BY <2>1
  <2>3. ~ (K \subseteq DOMAIN d)
    <3> SUFFICES ASSUME K \subseteq DOMAIN d
                 PROVE  FALSE
      OBVIOUS
    <3>1. a.ok /\ Rejected(a.db, s)
      BY <1>4 DEF Progress
    <3>2. PICK p \in s.parents : p \notin DOMAIN a.db
      BY <3>1 DEF Rejected
    <3>3. DOMAIN d \subseteq DOMAIN a.db
      BY DEF Progress, LaterBut
    <3>4. p \notin K
      BY <3>2, <3>3
    <3>5. PICK j \in 1 .. n : stmts[j].op = "insert" /\ stmts[j].row = p
      <4>1. n + 1 - 1 = n
        BY <1>2
      <4>2. \E j \in 1 .. n + 1 - 1 : stmts[j].op = "insert" /\ stmts[j].row = p
        BY <1>2, <3>2, <3>4 DEF GoodBut, Grounded
      <4> QED  BY <4>1, <4>2
    <3>6. p \in DOMAIN a.db
      BY <3>1, <3>5 DEF Progress, Adds
    <3> QED  BY <3>2, <3>6
  <2> HIDE DEF b
  <2>4. Progress(X, d, K, stmts, b, n + 1)
    BY <2>2, <2>3 DEF Progress
  <2> QED  BY <2>4 DEF b
<1>5. CASE a.ok /\ ~ Rejected(a.db, s)
  <2>1. b = [db |-> e, ok |-> TRUE]
    BY <1>5 DEF Then
  <2>2. b.db = e /\ b.ok = TRUE
    BY <2>1
  <2>3. Sound(a.db) /\ LaterBut(X, d, a.db) /\ DOMAIN a.db \subseteq DOMAIN d \cup Rows(stmts)
    BY DEF Progress
  <2>4. Sound(e) /\ LaterBut(X, a.db, e)
    BY <1>3, <1>5, <2>3, ExecSound, ExecLater
  <2>5. DOMAIN e = DOMAIN a.db \cup (IF Adds(s) THEN {s.row} ELSE {})
    BY <1>3, ExecDomain
  <2>6. Adds(s) => s.row \in Rows(stmts)
    BY <1>1, <1>2 DEF Rows, Adds
  <2>7. ASSUME NEW r \in DOMAIN a.db, s.op = "answer", Answers(r, s.row[2], s.row[3])
        PROVE  e[r].answered = TRUE
    <3>1. e = [q \in DOMAIN a.db |-> IF Answers(q, s.row[2], s.row[3])
                                       THEN [a.db[q] EXCEPT !.answered = TRUE] ELSE a.db[q]]
      BY <2>7, ExecIs
    <3>2. e[r] = [a.db[r] EXCEPT !.answered = TRUE]
      BY <2>7, <3>1
    <3>3. a.db[r] = [block |-> a.db[r].block, answered |-> a.db[r].answered]
      BY <2>3, <2>7 DEF Sound, UseOk, Answers
    <3> DEFINE v == a.db[r]
               w == e[r]
    <3>4. w = [v EXCEPT !.answered = TRUE] /\ v = [block |-> v.block, answered |-> v.answered]
      BY <3>2, <3>3
    <3> HIDE DEF v, w
    <3>5. w.answered = TRUE
      BY <3>4
    <3> QED  BY <3>5 DEF w
  <2> HIDE DEF b, e
  <2>8. LaterBut(X, d, e)
    BY <2>3, <2>4, LaterJoin
  <2>9. DOMAIN e \subseteq DOMAIN d \cup Rows(stmts)
    BY <2>3, <2>5, <2>6
  <2>10. \A i \in 1 .. n + 1 : Adds(stmts[i]) => stmts[i].row \in DOMAIN e
    <3> TAKE i \in 1 .. n + 1
    <3>1. CASE i \in 1 .. n
      BY <1>5, <2>5, <3>1 DEF Progress
    <3>2. CASE i = n + 1
      BY <2>5, <3>2
    <3> QED  BY <1>2, <3>1, <3>2
  <2>11. ASSUME NEW r \in DOMAIN d, Answered(d, stmts, n + 1, r)
         PROVE  e[r].answered = TRUE
    <3>1. PICK i \in 1 .. n + 1 :
            stmts[i].op = "answer" /\ Answers(r, stmts[i].row[2], stmts[i].row[3])
      BY <2>11 DEF Answered
    <3>2. r \in DOMAIN a.db
      BY <2>3 DEF LaterBut
    <3>3. CASE i \in 1 .. n
      <4>1. a.db[r].answered = TRUE
        BY <1>5, <3>1, <3>3 DEF Progress, Answered
      <4>2. r[1] = "tool_executions"
        BY <3>1 DEF Answers
      <4> DEFINE v == a.db
      <4>3. Sound(v) /\ Later(v, e) /\ r \in DOMAIN v /\ v[r].answered = TRUE
        BY <2>3, <2>4, <3>2, <4>1, LaterStill
      <4> HIDE DEF v
      <4> QED  BY <4>2, <4>3, StillAnswered, Zenon
    <3>4. CASE i = n + 1
      <4>1. s.op = "answer" /\ Answers(r, s.row[2], s.row[3])
        BY <3>1, <3>4
      <4> QED  BY <2>7, <3>2, <4>1, Zenon
    <3>5. i \in 1 .. n \/ i = n + 1
      BY <1>2
    <3> QED  BY <3>3, <3>4, <3>5, Zenon
  <2>12. Progress(X, d, K, stmts, b, n + 1)
    BY <2>2, <2>4, <2>8, <2>9, <2>10, <2>11 DEF Progress
  <2> QED  BY <2>12 DEF b
<1> QED  BY <1>4, <1>5

LEMMA AfterProgresses ==
  ASSUME NEW X \in SUBSET Revisions, NEW d, NEW K, NEW stmts, Sound(d), GoodBut(X, K, stmts)
  PROVE  \A n \in 0 .. Len(stmts) : Progress(X, d, K, stmts, After(d, stmts)[n], n)
<1> DEFINE g == After(d, stmts)
           T == {n \in Nat : n \in 0 .. Len(stmts) => Progress(X, d, K, stmts, g[n], n)}
<1>1. Len(stmts) \in Nat
  BY ListIs DEF GoodBut
<1>2. g[0] = [db |-> d, ok |-> TRUE]
  BY <1>1, AfterIs
<1>3. \A n \in 0 .. Len(stmts) - 1 : g[n + 1] = Then(g[n], stmts[n + 1])
  BY <1>1, AfterIs
<1> HIDE DEF g
<1>4. Progress(X, d, K, stmts, g[0], 0)
  <2>1. g[0].db = d /\ g[0].ok = TRUE
    BY <1>2
  <2>2. \A i \in 1 .. 0 : FALSE
    OBVIOUS
  <2> QED  BY <2>1, <2>2, LaterSelf DEF Progress, Answered
<1>5. 0 \in T
  BY <1>4
<1>6. ASSUME NEW n \in Nat, n \in T
      PROVE  n + 1 \in T
  <2> SUFFICES ASSUME n + 1 \in 0 .. Len(stmts)
               PROVE  Progress(X, d, K, stmts, g[n + 1], n + 1)
    OBVIOUS
  <2>1. n \in 0 .. Len(stmts) - 1 /\ n \in 0 .. Len(stmts)
    BY <1>1
  <2>2. Progress(X, d, K, stmts, g[n], n)
    BY <1>6, <2>1
  <2> DEFINE a == g[n]
  <2> HIDE DEF a
  <2>3. Progress(X, d, K, stmts, a, n)
    BY <2>2 DEF a
  <2>4. Progress(X, d, K, stmts, Then(a, stmts[n + 1]), n + 1)
    BY <2>1, <2>3, Progresses
  <2> QED  BY <1>3, <2>1, <2>4 DEF a
<1> HIDE DEF T
<1>7. \A n \in Nat : n \in T
  BY <1>5, <1>6, Induct
<1> QED  BY <1>1, <1>7 DEF T, g

LEMMA RunIs ==
  ASSUME NEW X \in SUBSET Revisions, NEW d, NEW K, NEW stmts, Sound(d), GoodBut(X, K, stmts)
  PROVE  /\ Sound(Run(d, stmts).db) /\ LaterBut(X, d, Run(d, stmts).db)
         /\ DOMAIN Run(d, stmts).db \subseteq DOMAIN d \cup Rows(stmts)
         /\ K \subseteq DOMAIN d => Run(d, stmts).ok
         /\ Run(d, stmts).ok => Rows(stmts) \subseteq DOMAIN Run(d, stmts).db
         /\ Run(d, stmts).ok => \A r \in DOMAIN d :
              Answered(d, stmts, Len(stmts), r) => Run(d, stmts).db[r].answered = TRUE
<1> DEFINE a == Run(d, stmts)
<1>1. Len(stmts) \in Nat /\ DOMAIN stmts = 1 .. Len(stmts)
  BY ListIs DEF GoodBut
<1>2. Progress(X, d, K, stmts, a, Len(stmts))
  BY <1>1, AfterProgresses DEF Run
<1> HIDE DEF a
<1>3. a.ok => Rows(stmts) \subseteq DOMAIN a.db
  BY <1>1, <1>2 DEF Progress, Rows, Adds
<1>4. /\ Sound(a.db) /\ LaterBut(X, d, a.db) /\ DOMAIN a.db \subseteq DOMAIN d \cup Rows(stmts)
      /\ K \subseteq DOMAIN d => a.ok
  BY <1>2 DEF Progress
<1>5. a.ok => \A r \in DOMAIN d : Answered(d, stmts, Len(stmts), r) => a.db[r].answered = TRUE
  BY <1>2, Zenon DEF Progress
<1> QED  BY <1>3, <1>4, <1>5 DEF a

-----------------------------------------------------------------------------
(***************************************************************************)
(* Operations and their counts. An operation that a failed line has put on *)
(* record need not be counted yet; of all others, the row of their file    *)
(* counts at least as many.                                                *)
(***************************************************************************)
Value(d, row) == IF row \in DOMAIN d THEN d[row] ELSE 0

(* The statements among the first n that row is to count.                  *)
Mutations(stmts, row, n) ==
  {i \in 1 .. n : Counts(stmts[i]) /\ Target(stmts[i]) = row}

IsInserted(stmts, o, v) ==
  \E i \in 1 .. Len(stmts) :
    stmts[i].op = "insert" /\ stmts[i].row = o /\ stmts[i].value = v

(* Of the statement lists of F.                                            *)
Excused(F, o, v) == \E stmts \in F : IsInserted(stmts, o, v)

Mutating(d, row) ==
  {o \in DOMAIN d : /\ o[1] = "file_operations" /\ d[o].mutates
                    /\ FileRow(d[o].session, d[o].path) = row}

Due(F, d, row) == {o \in Mutating(d, row) : ~ Excused(F, o, d[o])}

Covers(F, d) ==
  \A s, path : path # None =>
    Cardinality(Due(F, d, FileRow(s, path))) <= Value(d, FileRow(s, path))

LEMMA ValueNumber ==
  ASSUME NEW d, Sound(d), NEW row, row[1] = "files"
  PROVE  Value(d, row) \in Nat
  BY DEF Value, Sound, NumberOk, Counting

LEMMA ExecCounts ==
  ASSUME NEW d, Sound(d), NEW s, Fits(s) \/ s \in Revisions, NEW row, row[1] = "files"
  PROVE  /\ Value(Exec(d, s), row) \in Nat
         /\ Value(d, row) <= Value(Exec(d, s), row)
         /\ s.op = "bump" /\ s.row = row /\ row \in DOMAIN d =>
              Value(Exec(d, s), row) = Value(d, row) + 1
<1> DEFINE e == Exec(d, s)
           v == Value(d, row)
<1>1. v \in Nat
  BY ValueNumber
<1>8. Fits(s) \/ (s.op = "update" /\ s.row[1] = "messages")
  BY RevisionIs
<1>2. CASE s.op = "insert"
  <2>1. e = IF s.row \in DOMAIN d THEN d ELSE Put(d, s.row, s.value)
    BY <1>2, ExecIs DEF InsertRow
  <2>2. s.row = row => s.value = 0
    BY <1>2, <1>8 DEF Fits, Counting
  <2>3. Value(e, row) = v
    BY <2>1, <2>2 DEF Value, Put
  <2> QED  BY <1>1, <1>2, <2>3
<1>3. CASE s.op = "tally"
  <2>1. e = Put(d, s.row, IF s.row \in DOMAIN d THEN d[s.row] + 1 ELSE 1)
    BY <1>3, ExecIs
  <2>2. s.row # row
    BY <1>3, <1>8 DEF Fits
  <2>3. Value(e, row) = v
    BY <2>1, <2>2 DEF Value, Put
  <2> QED  BY <1>1, <1>3, <2>3
<1>4. CASE s.op = "bump"
  <2>1. e = IF s.row \in DOMAIN d THEN [d EXCEPT ![s.row] = @ + 1] ELSE d
    BY <1>4, ExecIs
  <2>2. CASE s.row = row /\ row \in DOMAIN d
    <3>1. Value(e, row) = v + 1
      BY <2>1, <2>2 DEF Value
    <3> QED  BY <1>1, <3>1
  <2>3. CASE ~ (s.row = row /\ row \in DOMAIN d)
    <3>1. Value(e, row) = v
      BY <2>1, <2>3 DEF Value
    <3> QED  BY <1>1, <2>3, <3>1
  <2> QED  BY <2>2, <2>3
<1>5. CASE s.op = "answer"
  <2>1. e = [r \in DOMAIN d |-> IF Answers(r, s.row[2], s.row[3])
                                  THEN [d[r] EXCEPT !.answered = TRUE] ELSE d[r]]
    BY <1>5, ExecIs
  <2>2. ~ Answers(row, s.row[2], s.row[3])
    BY DEF Answers
  <2>3. Value(e, row) = v
    BY <2>1, <2>2 DEF Value
  <2> QED  BY <1>1, <1>5, <2>3
<1>6. CASE s.op = "project"
  <2>1. e = Put(d, s.row, ProjectCount(d, s.row))
    BY <1>6, ExecIs
  <2>2. s.row # row
    BY <1>6, <1>8 DEF Fits
  <2>3. Value(e, row) = v
    BY <2>1, <2>2 DEF Value, Put
  <2> QED  BY <1>1, <1>6, <2>3
<1>7. CASE s.op = "update"
  <2>1. e = IF s.row \in DOMAIN d THEN [d EXCEPT ![s.row].overflow = s.value] ELSE d
    BY <1>7, ExecIs
  <2>2. s.row # row
    BY <1>7, <1>8 DEF Fits
  <2>3. Value(e, row) = v
    BY <2>1, <2>2 DEF Value
  <2> QED  BY <1>1, <1>7, <2>3
<1> QED  BY <1>2, <1>3, <1>4, <1>5, <1>6, <1>7, <1>8 DEF Fits

LEMMA MutationsGrow ==
  ASSUME NEW stmts, NEW row, NEW n \in Nat
  PROVE  /\ IsFiniteSet(Mutations(stmts, row, n)) /\ Cardinality(Mutations(stmts, row, n)) \in Nat
         /\ n > 0 =>
              Cardinality(Mutations(stmts, row, n)) =
                Cardinality(Mutations(stmts, row, n - 1))
                  + (IF Counts(stmts[n]) /\ Target(stmts[n]) = row THEN 1 ELSE 0)
<1> DEFINE M(m) == Mutations(stmts, row, m)
           new == Counts(stmts[n]) /\ Target(stmts[n]) = row
<1>1. ASSUME NEW m \in Int
      PROVE  IsFiniteSet(M(m)) /\ Cardinality(M(m)) \in Nat
  <2>1. IsFiniteSet(1 .. m)
    BY FS_Interval
  <2>2. M(m) \in SUBSET (1 .. m)
    BY DEF Mutations
  <2> HIDE DEF M
  <2> QED  BY <2>1, <2>2, FS_Subset, FS_CardinalityType
<1>2. ASSUME n > 0
      PROVE  Cardinality(M(n)) = Cardinality(M(n - 1)) + (IF new THEN 1 ELSE 0)
  <2>1. \A i : i \in 1 .. n <=> i \in 1 .. n - 1 \/ i = n
    BY <1>2
  <2>2. n \notin M(n - 1)
    BY DEF Mutations
  <2>3. CASE new
    <3>1. M(n) = M(n - 1) \cup {n}
      BY <2>1, <2>3 DEF Mutations
    <3>2. IsFiniteSet(M(n - 1)) /\ Cardinality(M(n - 1)) \in Nat
      BY <1>1
    <3> HIDE DEF M, new
    <3>3. Cardinality(M(n)) = Cardinality(M(n - 1)) + 1
      BY <2>2, <3>1, <3>2, FS_AddElement
    <3> QED  BY <2>3, <3>3
  <2>4. CASE ~ new
    <3>1. M(n) = M(n - 1)
      BY <2>1, <2>4 DEF Mutations
    <3>2. Cardinality(M(n - 1)) \in Nat
      BY <1>1
    <3> HIDE DEF M, new
    <3> QED  BY <2>4, <3>1, <3>2
  <2> QED  BY <2>3, <2>4
<1> QED  BY <1>1, <1>2

(* A run that is not rejected counts each operation it puts on record, or  *)
(* finds there.                                                            *)
CountsTo(d, stmts, row, a, n) ==
  /\ Value(a.db, row) \in Nat /\ Value(d, row) <= Value(a.db, row)
  /\ a.ok /\ n > 0 =>
       Value(d, row) + Cardinality(Mutations(stmts, row, n - 1)) <= Value(a.db, row)

LEMMA CountsOn ==
  ASSUME NEW X \in SUBSET Revisions, NEW d, NEW K, NEW stmts, Sound(d), GoodBut(X, K, stmts), NEW row, row[1] = "files",
         NEW a, NEW n \in 0 .. Len(stmts) - 1, Progress(X, d, K, stmts, a, n),
         CountsTo(d, stmts, row, a, n)
  PROVE  CountsTo(d, stmts, row, Then(a, stmts[n + 1]), n + 1)
<1> DEFINE s == stmts[n + 1]
           b == Then(a, s)
           v == Value(d, row)
           w == Value(a.db, row)
           x == Value(Exec(a.db, s), row)
           c == Cardinality(Mutations(stmts, row, n))
<1>1. Len(stmts) \in Nat /\ DOMAIN stmts = 1 .. Len(stmts)
  BY ListIs DEF GoodBut
<1>2. n \in Nat /\ n + 1 \in 1 .. Len(stmts) /\ n + 1 > 0 /\ n + 1 - 1 = n
  BY <1>1
<1>3. (Fits(s) \/ s \in X) /\ Sound(a.db)
  BY <1>1, <1>2 DEF GoodBut, ToSet, Progress
<1>4. v \in Nat /\ w \in Nat /\ v <= w /\ c \in Nat
  BY <1>2, ValueNumber, MutationsGrow DEF CountsTo
<1>5. x \in Nat /\ w <= x /\ (s.op = "bump" /\ s.row = row /\ row \in DOMAIN a.db => x = w + 1)
  BY <1>3, ExecCounts
<1>6. CASE ~ (a.ok /\ ~ Rejected(a.db, s))
  <2>1. b.db = a.db /\ b.ok = FALSE
    BY <1>6 DEF Then
  <2>2. ~ b.ok
    BY <2>1, Zenon
  <2> QED  BY <1>4, <2>1, <2>2 DEF CountsTo
<1>7. CASE a.ok /\ ~ Rejected(a.db, s)
  <2>1. b.db = Exec(a.db, s)
    BY <1>7 DEF Then
  <2>2. v + c <= x
    <3>1. CASE n = 0
      <4>1. Mutations(stmts, row, n) = {}
        BY <3>1 DEF Mutations
      <4>2. c = 0
        BY <4>1, FS_EmptySet
      <4> HIDE DEF v, w, x, c
      <4> QED  BY <1>4, <1>5, <4>2
    <3>2. CASE n # 0
      <4> DEFINE e == Cardinality(Mutations(stmts, row, n - 1))
                 new == Counts(stmts[n]) /\ Target(stmts[n]) = row
      <4>1. n > 0 /\ n - 1 \in Nat /\ n \in 1 .. Len(stmts)
        BY <1>2, <3>2
      <4>2. c = e + (IF new THEN 1 ELSE 0) /\ e \in Nat
        BY <1>2, <4>1, MutationsGrow
      <4>3. v + e <= w
        BY <1>7, <4>1 DEF CountsTo
      <4>4. CASE new
        <5>1. Counted(stmts, n)
          BY <4>1, <4>4 DEF GoodBut, Paired
        <5>2. s.op = "bump" /\ s.row = row
          BY <4>4, <5>1 DEF Counted
        <5>3. /\ stmts[n - 1].op = "insert" /\ stmts[n - 1].row = row
              /\ n - 1 \in 1 .. n
          BY <1>2, <4>4, <5>1 DEF Counted
        <5>4. row \in DOMAIN a.db
          BY <1>7, <5>3 DEF Progress, Adds
        <5>5. x = w + 1
          BY <1>5, <5>2, <5>4
        <5> HIDE DEF v, w, x, c, e, new
        <5> QED  BY <1>4, <4>2, <4>3, <4>4, <5>5
      <4>5. CASE ~ new
        <5> HIDE DEF v, w, x, c, e, new
        <5> QED  BY <1>4, <1>5, <4>2, <4>3, <4>5
      <4> QED  BY <4>4, <4>5
    <3> QED  BY <3>1, <3>2
  <2>3. v <= x
    <3> HIDE DEF v, w, x, c
    <3> QED  BY <1>4, <1>5
  <2>4. v + Cardinality(Mutations(stmts, row, n + 1 - 1)) <= x
    BY <1>2, <2>2
  <2> QED  BY <1>5, <2>1, <2>3, <2>4 DEF CountsTo
<1> QED  BY <1>6, <1>7

(* What a run puts on record is what one of its statements says.           *)
Records(d, stmts, a) ==
  \A o \in DOMAIN a.db :
    o[1] = "file_operations" =>
      \/ o \in DOMAIN d /\ a.db[o] = d[o]
      \/ IsInserted(stmts, o, a.db[o])

LEMMA RecordsOn ==
  ASSUME NEW X \in SUBSET Revisions, NEW d, NEW K, NEW stmts, GoodBut(X, K, stmts),
         NEW a, NEW n \in 0 .. Len(stmts) - 1, Records(d, stmts, a)
  PROVE  Records(d, stmts, Then(a, stmts[n + 1]))
<1> DEFINE s == stmts[n + 1]
           b == Then(a, s)
           e == Exec(a.db, s)
<1>1. Len(stmts) \in Nat /\ DOMAIN stmts = 1 .. Len(stmts)
  BY ListIs DEF GoodBut
<1>2. n + 1 \in 1 .. Len(stmts)
  BY <1>1
<1>3. Fits(s) \/ s \in X
  BY <1>1, <1>2 DEF GoodBut, ToSet
<1>4. CASE ~ (a.ok /\ ~ Rejected(a.db, s))
  <2>1. b.db = a.db
    BY <1>4 DEF Then
  <2> HIDE DEF b
  <2> QED  BY <2>1 DEF Records, b
<1>5. CASE a.ok /\ ~ Rejected(a.db, s)
  <2>1. b.db = e
    BY <1>5 DEF Then
  <2>2. DOMAIN e = DOMAIN a.db \cup (IF Adds(s) THEN {s.row} ELSE {}) /\ LaterBut(X, a.db, e)
    BY <1>3, ExecDomain, ExecLater
  <2>3. ASSUME NEW o \in DOMAIN e, o[1] = "file_operations"
        PROVE  \/ o \in DOMAIN d /\ e[o] = d[o]
               \/ IsInserted(stmts, o, e[o])
    <3>1. CASE o \in DOMAIN a.db
      <4>1. ~ Tallied(o)
        BY <2>3 DEF Tallied, Counting, HasKey
      <4>2. e[o] = a.db[o]
        BY <2>2, <2>3, <3>1, <4>1 DEF LaterBut, SameOrAnswered, Revised
      <4> HIDE DEF e
      <4> QED  BY <2>3, <3>1, <4>2 DEF Records
    <3>2. CASE o \notin DOMAIN a.db
      <4>1. o = s.row /\ Adds(s)
        BY <2>2, <3>2
      <4>2. s.op = "insert"
        BY <1>3, <2>3, <4>1, RevisionIs DEF Fits, Adds, Counting
      <4>3. e = Put(a.db, s.row, s.value)
        <5>1. e = InsertRow(a.db, s.row, s.value)
          BY <4>2, ExecIs
        <5> QED  BY <3>2, <4>1, <5>1 DEF InsertRow
      <4>4. e[o] = s.value
        BY <4>1, <4>3 DEF Put
      <4>5. IsInserted(stmts, o, e[o])
        BY <1>2, <4>1, <4>2, <4>4 DEF IsInserted
      <4> QED  BY <4>5
    <3> QED  BY <3>1, <3>2
  <2> HIDE DEF b, e
  <2> QED  BY <2>1, <2>3 DEF Records, b
<1> QED  BY <1>4, <1>5

LEMMA RunCounts ==
  ASSUME NEW X \in SUBSET Revisions, NEW d, NEW K, NEW stmts, Sound(d), GoodBut(X, K, stmts)
  PROVE  \A n \in 0 .. Len(stmts) :
           /\ Records(d, stmts, After(d, stmts)[n])
           /\ \A row : row[1] = "files" => CountsTo(d, stmts, row, After(d, stmts)[n], n)
<1> DEFINE g == After(d, stmts)
           Fine(n) == /\ Records(d, stmts, g[n])
                      /\ \A row : row[1] = "files" => CountsTo(d, stmts, row, g[n], n)
           T == {n \in Nat : n \in 0 .. Len(stmts) => Fine(n)}
<1>1. Len(stmts) \in Nat
  BY ListIs DEF GoodBut
<1>2. g[0] = [db |-> d, ok |-> TRUE]
  BY <1>1, AfterIs
<1>3. \A n \in 0 .. Len(stmts) - 1 : g[n + 1] = Then(g[n], stmts[n + 1])
  BY <1>1, AfterIs
<1>4. \A n \in 0 .. Len(stmts) : Progress(X, d, K, stmts, g[n], n)
  BY AfterProgresses
<1> HIDE DEF g
<1>5. 0 \in T
  <2>1. g[0].db = d
    BY <1>2
  <2>2. Records(d, stmts, g[0])
    BY <2>1 DEF Records
  <2>3. ASSUME NEW row, row[1] = "files"
        PROVE  CountsTo(d, stmts, row, g[0], 0)
    BY <2>1, <2>3, ValueNumber DEF CountsTo
  <2> QED  BY <2>2, <2>3
<1>6. ASSUME NEW n \in Nat, n \in T
      PROVE  n + 1 \in T
  <2> SUFFICES ASSUME n + 1 \in 0 .. Len(stmts)
               PROVE  Fine(n + 1)
    OBVIOUS
  <2>1. n \in 0 .. Len(stmts) - 1 /\ n \in 0 .. Len(stmts)
    BY <1>1
  <2>2. Fine(n)
    BY <1>6, <2>1
  <2> DEFINE a == g[n]
  <2>3. Progress(X, d, K, stmts, a, n) /\ Records(d, stmts, a)
    BY <1>4, <2>1, <2>2
  <2>4. \A row : row[1] = "files" => CountsTo(d, stmts, row, a, n)
    BY <2>2
  <2>5. g[n + 1] = Then(a, stmts[n + 1])
    BY <1>3, <2>1
  <2> HIDE DEF a
  <2>6. Records(d, stmts, Then(a, stmts[n + 1]))
    BY <2>1, <2>3, RecordsOn
  <2>7. ASSUME NEW row, row[1] = "files"
        PROVE  CountsTo(d, stmts, row, Then(a, stmts[n + 1]), n + 1)
    BY <2>1, <2>3, <2>4, <2>7, CountsOn
  <2> QED  BY <2>5, <2>6, <2>7
<1> HIDE DEF T
<1>7. \A n \in Nat : n \in T
  BY <1>5, <1>6, Induct
<1>8. \A n \in 0 .. Len(stmts) : Fine(n)
  BY <1>1, <1>7 DEF T
<1> QED  BY <1>8 DEF g

(* The rows that the mutations of a list insert are no more than these.    *)
LEMMA MutatedRows ==
  ASSUME NEW stmts, NEW row, NEW n \in Nat
  PROVE  /\ IsFiniteSet({stmts[i].row : i \in Mutations(stmts, row, n)})
         /\ Cardinality({stmts[i].row : i \in Mutations(stmts, row, n)})
              <= Cardinality(Mutations(stmts, row, n))
<1> DEFINE M == Mutations(stmts, row, n)
           Z == {stmts[i].row : i \in M}
           h == [i \in M |-> stmts[i].row]
<1>1. IsFiniteSet(M)
  BY MutationsGrow
<1> HIDE DEF M
<1>2. h \in Surjection(M, Z)
  BY DEF Surjection
<1> HIDE DEF h, Z
<1>3. IsFiniteSet(Z) /\ Cardinality(Z) <= Cardinality(M)
  BY <1>1, <1>2, FS_Surjection
<1> QED  BY <1>3 DEF M, Z

LEMMA DueFinite ==
  ASSUME NEW F, NEW d, Sound(d), NEW row
  PROVE  IsFiniteSet(Due(F, d, row)) /\ Cardinality(Due(F, d, row)) \in Nat
<1>1. Due(F, d, row) \in SUBSET (DOMAIN d)
  BY DEF Due, Mutating
<1> QED  BY <1>1, FS_Subset, FS_CardinalityType DEF Sound

(* A whole run, of a line that was excused before, or of no line.          *)
LEMMA RunCovers ==
  ASSUME NEW X \in SUBSET Revisions, NEW d, NEW K, NEW stmts, Sound(d), GoodBut(X, K, stmts), K \subseteq DOMAIN d,
         NEW F, NEW G, Covers(F, d),
         \A o, v : Excused(F, o, v) => Excused(G, o, v) \/ IsInserted(stmts, o, v)
  PROVE  Covers(G, Run(d, stmts).db)
<1> SUFFICES ASSUME NEW s, NEW path, path # None
             PROVE  Cardinality(Due(G, Run(d, stmts).db, FileRow(s, path)))
                      <= Value(Run(d, stmts).db, FileRow(s, path))
  BY DEF Covers
<1> DEFINE row == FileRow(s, path)
           n == Len(stmts)
           a == Run(d, stmts)
           M == Mutations(stmts, row, n)
           S == Due(F, d, row)
           R == Due(G, a.db, row)
           Z == {stmts[i].row : i \in M}
<1>1. n \in Nat
  BY ListIs DEF GoodBut
<1>2. row[1] = "files" /\ row[3] = path
  BY DEF FileRow
<1>3. Records(d, stmts, a) /\ CountsTo(d, stmts, row, a, n)
  BY <1>1, <1>2, RunCounts DEF Run
<1>4. a.ok /\ Sound(a.db)
  BY RunIs
<1>5. Cardinality(S) <= Value(d, row) /\ Value(d, row) \in Nat
  BY <1>2, ValueNumber DEF Covers
<1>6. /\ IsFiniteSet(S) /\ Cardinality(S) \in Nat
      /\ IsFiniteSet(R) /\ Cardinality(R) \in Nat
  BY <1>4, DueFinite
<1>7. /\ IsFiniteSet(Z) /\ Cardinality(Z) <= Cardinality(M)
      /\ Cardinality(M) \in Nat
  BY <1>1, MutatedRows, MutationsGrow
<1>8. Value(d, row) + Cardinality(M) <= Value(a.db, row) /\ Value(a.db, row) \in Nat
  <2>1. CASE n = 0
    <3>1. M = {}
      BY <2>1 DEF Mutations
    <3>2. Cardinality(M) = 0
      BY <3>1, FS_EmptySet
    <3> HIDE DEF M, a, row
    <3> QED  BY <1>3, <1>5, <3>2 DEF CountsTo
  <2>2. CASE n # 0
    <3>1. ~ Counts(stmts[n])
      <4>1. n \in 1 .. n /\ ~ (n + 1 \in 1 .. n)
        BY <1>1, <2>2
      <4> QED  BY <4>1 DEF GoodBut, Paired, Counted
    <3>2. Cardinality(M) = Cardinality(Mutations(stmts, row, n - 1)) + 0
      BY <1>1, <2>2, <3>1, MutationsGrow
    <3>3. n - 1 \in Nat /\ n > 0
      BY <1>1, <2>2
    <3>4. Cardinality(Mutations(stmts, row, n - 1)) \in Nat
      BY <3>3, MutationsGrow
    <3> HIDE DEF M, a, row
    <3> QED  BY <1>3, <1>4, <3>2, <3>3, <3>4 DEF CountsTo
  <2> QED  BY <2>1, <2>2
<1>9. R \subseteq S \cup Z
  <2> SUFFICES ASSUME NEW o \in R, o \notin S
               PROVE  o \in Z
    OBVIOUS
  <2> DEFINE v == a.db[o]
  <2>1. /\ o \in DOMAIN a.db /\ o[1] = "file_operations" /\ v.mutates
        /\ FileRow(v.session, v.path) = row /\ ~ Excused(G, o, v)
    BY DEF Due, Mutating
  <2>2. \/ o \in DOMAIN d /\ v = d[o]
        \/ IsInserted(stmts, o, v)
    BY <1>3, <2>1 DEF Records
  <2> HIDE DEF v, row
  <2>3. IsInserted(stmts, o, v)
    <3>1. CASE o \in DOMAIN d /\ v = d[o]
      <4>1. o \in Mutating(d, row)
        BY <2>1, <3>1 DEF Mutating
      <4>2. Excused(F, o, v)
        BY <3>1, <4>1 DEF Due
      <4> QED  BY <2>1, <4>2
    <3> QED  BY <2>2, <3>1
  <2>4. PICK i \in 1 .. n : stmts[i].op = "insert" /\ stmts[i].row = o /\ stmts[i].value = v
    BY <2>3 DEF IsInserted
  <2>5. v.path # None
    <3>1. FileRow(v.session, v.path)[3] = v.path
      BY DEF FileRow
    <3> QED  BY <1>2, <2>1, <3>1
  <2>6. i \in M
    BY <2>1, <2>4, <2>5 DEF Mutations, Counts, Target
  <2> QED  BY <2>4, <2>6
<1> HIDE DEF S, R, Z, M, a, n, row
<1>10. IsFiniteSet(S \cup Z) /\ Cardinality(S \cup Z) <= Cardinality(S) + Cardinality(Z)
  <2>1. /\ IsFiniteSet(S \cup Z)
        /\ Cardinality(S \cup Z) = Cardinality(S) + Cardinality(Z) - Cardinality(S \cap Z)
    BY <1>6, <1>7, FS_Union
  <2>2. Cardinality(S \cap Z) \in Nat /\ Cardinality(Z) \in Nat
    BY <1>6, <1>7, FS_Intersection, FS_CardinalityType
  <2> QED  BY <1>6, <2>1, <2>2
<1>11. Cardinality(R) <= Cardinality(S \cup Z) /\ Cardinality(S \cup Z) \in Nat
  BY <1>9, <1>10, FS_Subset, FS_CardinalityType
<1>12. Cardinality(Z) \in Nat
  BY <1>7, FS_CardinalityType
<1>13. Cardinality(R) <= Value(a.db, row)
  BY <1>5, <1>6, <1>7, <1>8, <1>10, <1>11, <1>12
<1> QED  BY <1>13 DEF R, a, row

(* A run that a failing statement ends, whose line is excused from now on. *)
LEMMA PartCovers ==
  ASSUME NEW X \in SUBSET Revisions, NEW d, NEW K, NEW stmts, Sound(d), GoodBut(X, K, stmts), NEW n \in 0 .. Len(stmts),
         NEW F, NEW G, Covers(F, d),
         \A o, v : Excused(F, o, v) \/ IsInserted(stmts, o, v) => Excused(G, o, v)
  PROVE  Covers(G, After(d, stmts)[n].db)
<1> SUFFICES ASSUME NEW s, NEW path, path # None
             PROVE  Cardinality(Due(G, After(d, stmts)[n].db, FileRow(s, path)))
                      <= Value(After(d, stmts)[n].db, FileRow(s, path))
  BY DEF Covers
<1> DEFINE row == FileRow(s, path)
           a == After(d, stmts)[n]
           S == Due(F, d, row)
           R == Due(G, a.db, row)
<1>1. row[1] = "files"
  BY DEF FileRow
<1>2. Records(d, stmts, a) /\ CountsTo(d, stmts, row, a, n)
  BY <1>1, RunCounts
<1>3. Cardinality(S) <= Value(d, row) /\ Value(d, row) \in Nat
  BY <1>1, ValueNumber DEF Covers
<1>4. IsFiniteSet(S) /\ Cardinality(S) \in Nat
  BY DueFinite
<1>5. R \in SUBSET S
  <2> SUFFICES ASSUME NEW o \in R
               PROVE  o \in S
    OBVIOUS
  <2> DEFINE v == a.db[o]
  <2>1. /\ o \in DOMAIN a.db /\ o[1] = "file_operations" /\ v.mutates
        /\ FileRow(v.session, v.path) = row /\ ~ Excused(G, o, v)
    BY DEF Due, Mutating
  <2>2. \/ o \in DOMAIN d /\ v = d[o]
        \/ IsInserted(stmts, o, v)
    BY <1>2, <2>1 DEF Records
  <2> HIDE DEF v, row
  <2>3. o \in DOMAIN d /\ v = d[o]
    BY <2>1, <2>2
  <2> QED  BY <2>1, <2>3 DEF Due, Mutating
<1>6. Value(d, row) <= Value(a.db, row) /\ Value(a.db, row) \in Nat
  BY <1>2 DEF CountsTo
<1> HIDE DEF S, R, a, row
<1>7. Cardinality(R) <= Cardinality(S) /\ Cardinality(R) \in Nat
  BY <1>4, <1>5, FS_Subset, FS_CardinalityType
<1>8. Cardinality(R) <= Value(a.db, row)
  BY <1>3, <1>4, <1>6, <1>7
<1> QED  BY <1>8 DEF R, a, row

-----------------------------------------------------------------------------
(***************************************************************************)
(* The retroactive pass.                                                   *)
(***************************************************************************)
LEMMA ArtifactsOfIs ==
  ASSUME NEW d, Sound(d), NEW row \in DOMAIN d, row[1] = "tool_executions"
  PROVE  /\ Extractable(d, row)
         /\ Refs(d[Message(row[2])].session, row[2]) \subseteq DOMAIN d
         /\ Good(Refs(d[Message(row[2])].session, row[2]), ArtifactsOf(d, row))
         /\ Rows(ArtifactsOf(d, row)) \subseteq ArtifactRows
<1> DEFINE u == row[2]
           b == d[row].block
           s == d[Message(u)].session
<1>1. HasUse(u, b) /\ Message(u) \in DOMAIN d
  BY DEF Sound, UseOk
<1>2. Message(u)[1] = "messages" /\ Message(u)[2] = u
  BY DEF Message
<1>3. HasSession(u, s) /\ Session(s) \in DOMAIN d
  <2>1. MessageOk(d, Message(u))
    BY <1>1 DEF Sound
  <2> QED  BY <1>2, <2>1 DEF MessageOk
<1>4. Extractable(d, row)
  BY <1>1 DEF Extractable
<1>5. ArtifactsOf(d, row) = Artifacts(s, u, b)
  BY DEF ArtifactsOf
<1> HIDE DEF u, b, s
<1>6. Refs(s, u) \subseteq DOMAIN d
  BY <1>1, <1>3 DEF Refs
<1>7. b.type = "tool_use" /\ BlockIsParsed(b)
  BY <1>1, SpeechIsParsed DEF HasUse
<1>8. Good(Refs(s, u), Artifacts(s, u, b))
  BY <1>7, GoodArtifacts
<1>9. Rows(Artifacts(s, u, b)) \subseteq ArtifactRows
  <2>1. PICK m : Speaks(m) /\ m.uuid = u /\ m.session = s
    BY <1>3 DEF HasSession
  <2>2. PICK r : Speaks(r) /\ r.uuid = u /\ b \in ToSet(r.content) /\ b.type = "tool_use"
    BY <1>1 DEF HasUse
  <2>3. m \in Spoken /\ r \in Spoken
    BY <2>1, <2>2 DEF Speaks, Spoken
  <2>4. b \in UsesOf(m.uuid)
    BY <2>1, <2>2, <2>3 DEF UsesOf
  <2> HIDE DEF Rows
  <2> QED  BY <2>1, <2>3, <2>4 DEF ArtifactRows
<1> QED  BY <1>4, <1>5, <1>6, <1>8, <1>9 DEF u, s

(* They stay the same while the database grows.                            *)
LEMMA ArtifactsStay ==
  ASSUME NEW d, NEW e, Sound(d), Later(d, e), NEW row \in DOMAIN d, row[1] = "tool_executions"
  PROVE  ArtifactsOf(e, row) = ArtifactsOf(d, row)
<1> DEFINE m == Message(row[2])
           v == d[m]
           w == e[m]
<1>1. e[row].block = d[row].block
  BY UseStays
<1>2. m \in DOMAIN d /\ m[1] = "messages"
  BY DEF Sound, UseOk, Message
<1>3. v = [session |-> v.session, overflow |-> v.overflow]
  BY <1>2 DEF Sound, MessageOk
<1>4. ~ Tallied(m)
  BY <1>2 DEF Tallied, Counting, HasKey
<1>5. w = v \/ \E x : w = [v EXCEPT !.overflow = x]
  BY <1>2, <1>4 DEF Later, LaterBut, SameOrAnswered, Revised
<1> HIDE DEF m, v, w
<1>6. w.session = v.session
  BY <1>3, <1>5
<1> QED  BY <1>1, <1>6 DEF ArtifactsOf, m, v, w

(* One extraction, in full or cut short.                                   *)
Extracted(x, d, row, cut) == ExtractOne(x, row, ArtifactsOf(d, row), cut)

IsPass(g, d, rows, cut, n) ==
  g = [i \in 0 .. n |-> IF i = 0 THEN d ELSE Extracted(g[i - 1], d, rows[i], cut)]

LEMMA PassExists ==
  ASSUME NEW d, NEW rows, NEW cut, NEW n \in Nat
  PROVE  \E g : IsPass(g, d, rows, cut, n)
<1> DEFINE T == {m \in Nat : \E g : IsPass(g, d, rows, cut, m)}
           After1(x, i) == Extracted(x, d, rows[i], cut)
<1>1. 0 \in T
  <2> DEFINE g == [i \in 0 .. 0 |-> d]
  <2>1. IsPass(g, d, rows, cut, 0)
    BY DEF IsPass
  <2> QED  BY <2>1
<1>2. ASSUME NEW m \in Nat, m \in T
      PROVE  m + 1 \in T
  <2>1. PICK g : IsPass(g, d, rows, cut, m)
    BY <1>2
  <2> DEFINE h == [i \in 0 .. m + 1 |-> IF i \in 0 .. m THEN g[i] ELSE After1(g[m], m + 1)]
  <2>2. \A i \in 0 .. m : h[i] = g[i]
    OBVIOUS
  <2>3. h[m + 1] = After1(g[m], m + 1)
    OBVIOUS
  <2>4. \A i \in 0 .. m : g[i] = IF i = 0 THEN d ELSE After1(g[i - 1], i)
    BY <2>1 DEF IsPass
  <2>5. h = [i \in 0 .. m + 1 |-> h[i]]
    OBVIOUS
  <2> HIDE DEF h, After1
  <2>6. \A i \in 0 .. m + 1 : h[i] = IF i = 0 THEN d ELSE After1(h[i - 1], i)
    <3> TAKE i \in 0 .. m + 1
    <3>1. CASE i \in 0 .. m
      <4>1. i = 0 \/ i - 1 \in 0 .. m
        BY <3>1
      <4> QED  BY <2>2, <2>4, <3>1, <4>1
    <3>2. CASE i = m + 1
      <4>1. m \in 0 .. m /\ i # 0 /\ i - 1 = m
        BY <3>2
      <4>2. h[m] = g[m]
        BY <2>2, <4>1
      <4> QED  BY <2>3, <3>2, <4>1, <4>2
    <3> QED  BY <3>1, <3>2
  <2>7. h = [i \in 0 .. m + 1 |-> IF i = 0 THEN d ELSE After1(h[i - 1], i)]
    BY <2>5, <2>6
  <2>8. IsPass(h, d, rows, cut, m + 1)
    BY <2>7 DEF IsPass, After1
  <2> QED  BY <2>8
<1> HIDE DEF T
<1>3. n \in T
  BY <1>1, <1>2, Induct
<1> QED  BY <1>3 DEF T

(* The statements that the tool uses in S may have left undone.            *)
Pending(d, S) == {ArtifactsOf(d, row) : row \in S}

LEMMA PendingLess ==
  ASSUME NEW F, NEW G, F \subseteq G, NEW o, NEW v, Excused(F, o, v)
  PROVE  Excused(G, o, v)
  BY DEF Excused

LEMMA CoversMore ==
  ASSUME NEW F, NEW G, F \subseteq G, NEW d, Sound(d), Covers(F, d)
  PROVE  Covers(G, d)
<1> SUFFICES ASSUME NEW s, NEW path, path # None
             PROVE  Cardinality(Due(G, d, FileRow(s, path))) <= Value(d, FileRow(s, path))
  BY DEF Covers
<1> DEFINE row == FileRow(s, path)
           S == Due(F, d, row)
           R == Due(G, d, row)
<1>1. Cardinality(S) <= Value(d, row) /\ Value(d, row) \in Nat
  <2>1. row[1] = "files"
    BY DEF FileRow
  <2> QED  BY <2>1, ValueNumber DEF Covers
<1>2. IsFiniteSet(S) /\ Cardinality(S) \in Nat
  BY DueFinite
<1>3. R \in SUBSET S
  BY PendingLess DEF Due
<1> HIDE DEF S, R, row
<1>4. Cardinality(R) <= Cardinality(S) /\ Cardinality(R) \in Nat
  BY <1>2, <1>3, FS_Subset, FS_CardinalityType
<1>5. Cardinality(R) <= Value(d, row)
  BY <1>1, <1>2, <1>4
<1> QED  BY <1>5 DEF R, row

(* One extraction of the pass, from x, a later state of the d it began     *)
(* with. It needs no excuse, unless it is cut short.                       *)
LEMMA ExtractOneIs ==
  ASSUME NEW d, Sound(d), NEW bad, NEW cut \in Cuts(d, bad),
         NEW row \in DOMAIN d, row[1] = "tool_executions",
         NEW x, Sound(x), LaterBut({}, d, x)
  PROVE  /\ Sound(Extracted(x, d, row, cut)) /\ LaterBut({}, x, Extracted(x, d, row, cut))
         /\ DOMAIN Extracted(x, d, row, cut) \subseteq DOMAIN x \cup ArtifactRows
         /\ row \notin bad => Rows(ArtifactsOf(d, row)) \subseteq DOMAIN Extracted(x, d, row, cut)
         /\ \A F, G : Covers(F, x) /\ F \subseteq G \cup {ArtifactsOf(d, row)}
                      /\ (row \in bad => ArtifactsOf(d, row) \in G) =>
              Covers(G, Extracted(x, d, row, cut))
<1> DEFINE K == Refs(d[Message(row[2])].session, row[2])
           stmts == ArtifactsOf(d, row)
           X == {}
           e == Extracted(x, d, row, cut)
<1>1. K \subseteq DOMAIN d /\ Good(K, stmts) /\ Rows(stmts) \subseteq ArtifactRows
  BY ArtifactsOfIs
<1>2. GoodBut(X, K, stmts) /\ X \in SUBSET Revisions /\ LaterBut(X, d, x)
  BY <1>1 DEF Good
<1>3. K \subseteq DOMAIN x
  BY <1>1, <1>2 DEF LaterBut
<1>4. DOMAIN cut = bad /\ \A q \in bad : cut[q] \in 0 .. Len(ArtifactsOf(d, q)) - 1
  BY DEF Cuts
<1>5. Len(stmts) \in Nat
  BY <1>2, ListIs DEF GoodBut
<1>6. row \in bad => cut[row] \in 0 .. Len(stmts)
  <2>1. row \in bad => cut[row] \in 0 .. Len(stmts) - 1
    BY <1>4
  <2> HIDE DEF stmts
  <2> QED  BY <1>5, <2>1
<1>7. e = IF row \in bad THEN After(x, stmts)[cut[row]].db ELSE Run(x, stmts).db
  BY <1>4 DEF Extracted, ExtractOne
<1> HIDE DEF K, stmts, X, e
<1>8. CASE row \notin bad
  <2>1. e = Run(x, stmts).db
    BY <1>7, <1>8
  <2>2. /\ Sound(e) /\ LaterBut(X, x, e) /\ DOMAIN e \subseteq DOMAIN x \cup Rows(stmts)
        /\ Rows(stmts) \subseteq DOMAIN e
    BY <1>2, <1>3, <2>1, RunIs
  <2>3. ASSUME NEW F, NEW G, Covers(F, x), F \subseteq G \cup {stmts}
        PROVE  Covers(G, e)
    <3>1. \A o, v : Excused(F, o, v) => Excused(G, o, v) \/ IsInserted(stmts, o, v)
      BY <2>3 DEF Excused
    <3> QED  BY <1>2, <1>3, <2>1, <2>3, <3>1, RunCovers
  <2> QED  BY <1>1, <1>8, <2>2, <2>3 DEF X, e, stmts
<1>9. CASE row \in bad
  <2> DEFINE n == cut[row]
  <2>1. e = After(x, stmts)[n].db /\ n \in 0 .. Len(stmts)
    BY <1>6, <1>7, <1>9
  <2> HIDE DEF n
  <2> DEFINE a == After(x, stmts)[n]
  <2>2. Progress(X, x, K, stmts, a, n)
    BY <1>2, <2>1, AfterProgresses
  <2>3. e = a.db
    BY <2>1
  <2> HIDE DEF a
  <2>4. Sound(e) /\ LaterBut(X, x, e) /\ DOMAIN e \subseteq DOMAIN x \cup Rows(stmts)
    BY <2>2, <2>3 DEF Progress
  <2>5. ASSUME NEW F, NEW G, Covers(F, x), F \subseteq G \cup {stmts}, stmts \in G
        PROVE  Covers(G, e)
    <3>1. \A o, v : Excused(F, o, v) \/ IsInserted(stmts, o, v) => Excused(G, o, v)
      BY <2>5 DEF Excused
    <3> QED  BY <1>2, <2>1, <2>5, <3>1, PartCovers
  <2> QED  BY <1>1, <1>9, <2>4, <2>5 DEF X, e, stmts
<1> QED  BY <1>8, <1>9

(* What the pass still has to make good after its first m extractions.     *)
Left(old, rows, m) == old \ {rows[i] : i \in 1 .. m}

LEMMA ExtractAllIs ==
  ASSUME NEW d, Sound(d), NEW bad \in SUBSET Extractions(d), NEW cut \in Cuts(d, bad)
  PROVE  /\ Sound(ExtractAll(d, cut)) /\ LaterBut({}, d, ExtractAll(d, cut))
         /\ DOMAIN ExtractAll(d, cut) \subseteq DOMAIN d \cup ArtifactRows
         /\ \A row \in DOMAIN d : row[1] = "tool_executions" /\ row \notin bad =>
              Rows(ArtifactsOf(d, row)) \subseteq DOMAIN ExtractAll(d, cut)
         /\ \A B, old : old \subseteq Extractions(d) /\ Covers(B \cup Pending(d, old), d) =>
              Covers(B \cup Pending(d, bad), ExtractAll(d, cut))
<1> DEFINE S == Extractions(d)
           rows == SetToSeq(S)
           n == Len(rows)
           g == CHOOSE h : IsPass(h, d, rows, cut, n)
           X == {}
<1>1. IsFiniteSet(S)
  <2>1. S \in SUBSET (DOMAIN d)
    BY DEF Extractions
  <2> HIDE DEF S
  <2> QED  BY <2>1, FS_Subset DEF Sound
<1>2. \A row \in S : row \in DOMAIN d /\ row[1] = "tool_executions"
  BY DEF Extractions, Extractable
<1>3. \A row \in DOMAIN d : row[1] = "tool_executions" => row \in S
  BY ArtifactsOfIs DEF Extractions
<1>4. ExtractAll(d, cut) = g[n]
  BY Zenon DEF ExtractAll, IsPass, Extracted
<1> HIDE DEF S
<1>5. n \in Nat /\ \A x : x \in S <=> \E i \in 1 .. n : x = rows[i]
  <2>1. IsList(rows) /\ \A x : x \in ToSet(rows) <=> x \in S
    BY <1>1, Listed
  <2> HIDE DEF rows
  <2> QED  BY <2>1, ListIs
<1>6. IsPass(g, d, rows, cut, n)
  BY <1>5, PassExists, Zenon
<1> HIDE DEF rows, n, g, X
<1>7. g[0] = d /\ \A m \in 0 .. n - 1 : g[m + 1] = Extracted(g[m], d, rows[m + 1], cut)
  <2>1. \A i \in 0 .. n : g[i] = IF i = 0 THEN d ELSE Extracted(g[i - 1], d, rows[i], cut)
    BY <1>6 DEF IsPass
  <2>2. 0 \in 0 .. n
    BY <1>5
  <2>3. \A m \in 0 .. n - 1 : m + 1 \in 0 .. n /\ m + 1 # 0 /\ m + 1 - 1 = m
    BY <1>5
  <2>4. g[0] = d
    BY <2>1, <2>2
  <2>5. ASSUME NEW m \in 0 .. n - 1
        PROVE  g[m + 1] = Extracted(g[m], d, rows[m + 1], cut)
    BY <2>1, <2>3
  <2> QED  BY <2>4, <2>5
<1> DEFINE Rest(B, old, m) == (B \cup Pending(d, bad)) \cup Pending(d, Left(old, rows, m))
           Passed(m) == /\ Sound(g[m]) /\ LaterBut(X, d, g[m])
                        /\ DOMAIN g[m] \subseteq DOMAIN d \cup ArtifactRows
                        /\ \A i \in 1 .. m : rows[i] \notin bad =>
                             Rows(ArtifactsOf(d, rows[i])) \subseteq DOMAIN g[m]
                        /\ \A B, old : Covers(B \cup Pending(d, old), d) =>
                             Covers(Rest(B, old, m), g[m])
           T == {m \in Nat : m \in 0 .. n => Passed(m)}
<1>8. 0 \in T
  <2>1. \A i \in 1 .. 0 : FALSE
    OBVIOUS
  <2>2. ASSUME NEW B, NEW old, Covers(B \cup Pending(d, old), d)
        PROVE  Covers(Rest(B, old, 0), d)
    <3>1. Left(old, rows, 0) = old
      BY <2>1 DEF Left
    <3> DEFINE F == B \cup Pending(d, old)
               G == Rest(B, old, 0)
    <3>2. F \subseteq G
      BY <3>1
    <3> HIDE DEF F, G
    <3>3. Covers(G, d)
      BY <2>2, <3>2, CoversMore DEF F
    <3> QED  BY <3>3 DEF G
  <2> HIDE DEF Rest
  <2>3. Passed(0)
    BY <1>7, <2>1, <2>2, LaterSelf
  <2> QED  BY <2>3
<1>9. ASSUME NEW m \in Nat, m \in T
      PROVE  m + 1 \in T
  <2> SUFFICES ASSUME m + 1 \in 0 .. n
               PROVE  Passed(m + 1)
    OBVIOUS
  <2>1. m \in 0 .. n /\ m \in 0 .. n - 1 /\ m + 1 \in 1 .. n
    BY <1>5
  <2>2. Passed(m)
    BY <1>9, <2>1
  <2> DEFINE row == rows[m + 1]
             x == g[m]
             e == Extracted(x, d, row, cut)
             stmts == ArtifactsOf(d, row)
  <2>3. row \in DOMAIN d /\ row[1] = "tool_executions"
    BY <1>2, <1>5, <2>1
  <2>4. g[m + 1] = e
    BY <1>7, <2>1
  <2>5. Sound(x) /\ LaterBut(X, d, x) /\ DOMAIN x \subseteq DOMAIN d \cup ArtifactRows
    BY <2>2
  <2>6. \A i \in 1 .. m : rows[i] \notin bad => Rows(ArtifactsOf(d, rows[i])) \subseteq DOMAIN x
    BY <2>2
  <2>7. \A B, old : Covers(B \cup Pending(d, old), d) => Covers(Rest(B, old, m), x)
    BY <2>2
  <2> HIDE DEF x, row, Passed, Rest
  <2>8. /\ Sound(e) /\ LaterBut(X, x, e)
        /\ DOMAIN e \subseteq DOMAIN x \cup ArtifactRows
        /\ row \notin bad => Rows(stmts) \subseteq DOMAIN e
        /\ \A F, G : Covers(F, x) /\ F \subseteq G \cup {stmts} /\ (row \in bad => stmts \in G) =>
             Covers(G, e)
    BY <2>3, <2>5, ExtractOneIs DEF X
  <2>9. LaterBut(X, d, e)
    <3> HIDE DEF e
    <3> QED  BY <2>5, <2>8, LaterJoin
  <2>10. DOMAIN e \subseteq DOMAIN d \cup ArtifactRows
    BY <2>5, <2>8
  <2>11. \A i \in 1 .. m + 1 : rows[i] \notin bad => Rows(ArtifactsOf(d, rows[i])) \subseteq DOMAIN e
    <3> TAKE i \in 1 .. m + 1
    <3>1. CASE i \in 1 .. m
      BY <2>6, <2>8, <3>1 DEF LaterBut
    <3>2. CASE i = m + 1
      BY <2>8, <3>2 DEF stmts, row
    <3>3. i \in 1 .. m \/ i = m + 1
      OBVIOUS
    <3> QED  BY <3>1, <3>2, <3>3
  <2>12. ASSUME NEW B, NEW old, Covers(B \cup Pending(d, old), d)
         PROVE  Covers(Rest(B, old, m + 1), e)
    <3> DEFINE F == Rest(B, old, m)
               G == Rest(B, old, m + 1)
    <3>1. Covers(F, x)
      BY <2>7, <2>12
    <3>2. \A q : q \in Left(old, rows, m) => q \in Left(old, rows, m + 1) \/ q = row
      <4>1. \A i \in 1 .. m + 1 : i \in 1 .. m \/ i = m + 1
        OBVIOUS
      <4> QED  BY <4>1 DEF Left, row
    <3>3. F \subseteq G \cup {stmts}
      BY <3>2 DEF Rest, Pending, stmts
    <3>4. row \in bad => stmts \in G
      BY DEF Rest, Pending, stmts
    <3> HIDE DEF F, G, e, stmts
    <3>5. Covers(G, e)
      BY <2>8, <3>1, <3>3, <3>4
    <3> QED  BY <3>5 DEF G
  <2> HIDE DEF e, stmts
  <2> QED  BY <2>4, <2>8, <2>9, <2>10, <2>11, <2>12 DEF Passed
<1> HIDE DEF T
<1>10. n \in T
  BY <1>5, <1>8, <1>9, Induct
<1>11. Passed(n)
  BY <1>5, <1>10 DEF T
<1>12. \A row \in DOMAIN d : row[1] = "tool_executions" /\ row \notin bad =>
         Rows(ArtifactsOf(d, row)) \subseteq DOMAIN g[n]
  BY <1>3, <1>5, <1>11
<1>13. ASSUME NEW B, NEW old, old \subseteq Extractions(d), Covers(B \cup Pending(d, old), d)
       PROVE  Covers(B \cup Pending(d, bad), g[n])
  <2>1. Covers(Rest(B, old, n), g[n])
    BY <1>11, <1>13
  <2>2. Left(old, rows, n) = {}
    BY <1>5, <1>13 DEF Left, S
  <2>3. Rest(B, old, n) = B \cup Pending(d, bad)
    BY <2>2 DEF Pending
  <2> QED  BY <2>1, <2>3
<1> QED  BY <1>4, <1>11, <1>12, <1>13 DEF X

-----------------------------------------------------------------------------
(***************************************************************************)
(* Every block of a message has its statement.                             *)
(***************************************************************************)
LEMMA InJoined ==
  ASSUME NEW a, NEW b, IsList(a), IsList(b), NEW x, x \in ToSet(a) \/ x \in ToSet(b)
  PROVE  IsList(a \o b) /\ x \in ToSet(a \o b)
  BY Joined

LEMMA BlockStatement ==
  ASSUME NEW r, Speaks(r), NEW b \in ToSet(r.content), NEW x,
         \/ b.type = "tool_use" /\ x = UseRow(r.uuid, b)
         \/ b.type = "tool_result" /\ x = AnswerRow(r.uuid, b)
  PROVE  IsList(MessageContent(r)) /\ x \in ToSet(MessageContent(r))
<1> DEFINE n == Len(r.content)
           ss == [i \in DOMAIN r.content |-> ContentBlock(r, i)]
           y(i) == If(r.content[i].type = "tool_use", <<UseRow(r.uuid, r.content[i])>>)
           z(i) == If(r.content[i].type = "tool_result", <<AnswerRow(r.uuid, r.content[i])>>)
<1>1. n \in Nat /\ DOMAIN r.content = 1 .. n
  BY SpeechIsParsed, ListIs
<1>2. PICK k \in 1 .. n : b = r.content[k]
  BY <1>1 DEF ToSet
<1>3. \A i : IsList(y(i)) /\ IsList(z(i)) /\ IsList(<<ContentRow(r, i)>>)
  BY OneElement, Chosen
<1>4. x \in ToSet(y(k)) \/ x \in ToSet(z(k))
  <2>1. CASE b.type = "tool_use" /\ x = UseRow(r.uuid, b)
    <3>1. y(k) = <<x>>
      BY <1>2, <2>1 DEF If
    <3> QED  BY <3>1, OneElement
  <2>2. CASE b.type = "tool_result" /\ x = AnswerRow(r.uuid, b)
    <3>1. z(k) = <<x>>
      BY <1>2, <2>2 DEF If
    <3> QED  BY <3>1, OneElement
  <2> QED  BY <2>1, <2>2
<1>5. \A i : ContentBlock(r, i) = (<<ContentRow(r, i)>> \o y(i)) \o z(i)
  BY ContentBlockIs
<1>6. MessageContent(r) = FlattenSeq(ss)
  BY DEF MessageContent
<1>7. ss = [i \in 1 .. n |-> ss[i]] /\ \A i \in 1 .. n : ss[i] = ContentBlock(r, i)
  BY <1>1
<1> HIDE DEF ss, y, z, n
<1>8. \A i : IsList(<<ContentRow(r, i)>> \o y(i))
  BY <1>3, Joined
<1>9. \A i : IsList((<<ContentRow(r, i)>> \o y(i)) \o z(i))
  BY <1>3, <1>8, Joined
<1>10. x \in ToSet((<<ContentRow(r, k)>> \o y(k)) \o z(k))
  <2> DEFINE c == <<ContentRow(r, k)>>
             w == y(k)
             v == z(k)
  <2>1. IsList(c) /\ IsList(w) /\ IsList(v) /\ (x \in ToSet(w) \/ x \in ToSet(v))
    BY <1>3, <1>4
  <2> HIDE DEF c, w, v
  <2>2. IsList(c \o w) /\ (x \in ToSet(w) => x \in ToSet(c \o w))
    BY <2>1, Joined
  <2>3. x \in ToSet((c \o w) \o v)
    BY <2>1, <2>2, InJoined
  <2> QED  BY <2>3 DEF c, w, v
<1>11. \A i \in 1 .. n : IsList(ss[i])
  BY <1>5, <1>7, <1>9
<1>12. x \in ToSet(ss[k])
  BY <1>5, <1>7, <1>10
<1>13. IsList(FlattenSeq(ss)) /\ x \in ToSet(FlattenSeq(ss))
  BY <1>1, <1>7, <1>11, <1>12, Flattened
<1> QED  BY <1>6, <1>13

LEMMA SpeechStatement ==
  ASSUME NEW f \in File, NEW k \in DOMAIN Lines[f], NEW r, r = Lines[f][k], Speaks(r),
         NEW x, IsList(MessageContent(r)), x \in ToSet(MessageContent(r))
  PROVE  x \in ToSet(Statements[f][k])
<1> DEFINE o == UpsertSession(r) \o InsertMessage(r)
           m == MessageContent(r)
           v == Revise(r)
           p == If(r.plan, <<ContentRow(r, -1)>>)
           q == TokenUsage(r)
           a == UpsertAgent(r)
           l == LogOverflow("user", r.overflow, r.version)
           c == LogOverflow("assistant", r.overflow, r.version)
           w == LogOverflow("assistant.message", r.inner, r.version)
           j == UpsertProject(r)
           t == DecomposeArtifacts(r)
           first == DecomposeByType(f, r)
<1>1. Statements[f][k] = (first \o j) \o t
  BY DecomposeIs DEF Statements
<1>2. r.type = "user" => first = ((((o \o m) \o v) \o p) \o a) \o l
  BY DEF DecomposeByType, DecomposeUser
<1>3. r.type = "assistant" => first = (((((o \o m) \o q) \o v) \o a) \o c) \o w
  BY DEF DecomposeByType, DecomposeAssistant
<1>4. IsList(o)
  BY GoodOpening DEF Holds, HoldsBut, GoodBut
<1>5. IsList(p) /\ IsList(v)
  BY OneElement, Chosen DEF Revise
<1>6. IsList(a) /\ IsList(l) /\ IsList(j) /\ IsList(t)
  <2>1. Good(Refs(r.session, r.uuid), a) /\ Good({}, l) /\ Good({}, j) /\ Good(Refs(r.session, r.uuid), t)
    BY GoodAgentOfMessage, GoodLogOverflow, SpeechIsParsed, GoodProject, GoodDecomposeArtifacts
  <2> QED  BY <2>1 DEF Good, GoodBut
<1>7. r.type = "assistant" => IsList(q) /\ IsList(c) /\ IsList(w)
  <2> SUFFICES ASSUME r.type = "assistant"
               PROVE  IsList(q) /\ IsList(c) /\ IsList(w)
    OBVIOUS
  <2>1. Good(Refs(r.session, r.uuid), q) /\ Good({}, c) /\ Good({}, w)
    BY GoodTokenUsage, GoodLogOverflow, SpeechIsParsed
  <2> QED  BY <2>1 DEF Good, GoodBut
<1>8. IsList(m) /\ x \in ToSet(m)
  OBVIOUS
<1> HIDE DEF o, m, v, p, q, a, l, c, w, j, t, first
<1>9. IsList(o \o m) /\ x \in ToSet(o \o m)
  BY <1>4, <1>8, InJoined
<1>10. IsList(first) /\ x \in ToSet(first)
  <2>1. CASE r.type = "user"
    <3>1. IsList((o \o m) \o v) /\ x \in ToSet((o \o m) \o v)
      BY <1>5, <1>9, InJoined
    <3>2. IsList(((o \o m) \o v) \o p) /\ x \in ToSet(((o \o m) \o v) \o p)
      BY <1>5, <3>1, InJoined
    <3>3. IsList((((o \o m) \o v) \o p) \o a) /\ x \in ToSet((((o \o m) \o v) \o p) \o a)
      BY <1>6, <3>2, InJoined
    <3>4. IsList(((((o \o m) \o v) \o p) \o a) \o l) /\ x \in ToSet(((((o \o m) \o v) \o p) \o a) \o l)
      BY <1>6, <3>3, InJoined
    <3> QED  BY <1>2, <2>1, <3>4
  <2>2. CASE r.type = "assistant"
    <3>1. IsList((o \o m) \o q) /\ x \in ToSet((o \o m) \o q)
      BY <1>7, <1>9, <2>2, InJoined
    <3>2. IsList(((o \o m) \o q) \o v) /\ x \in ToSet(((o \o m) \o q) \o v)
      BY <1>5, <3>1, InJoined
    <3>3. IsList((((o \o m) \o q) \o v) \o a) /\ x \in ToSet((((o \o m) \o q) \o v) \o a)
      BY <1>6, <3>2, InJoined
    <3>4. IsList(((((o \o m) \o q) \o v) \o a) \o c) /\ x \in ToSet(((((o \o m) \o q) \o v) \o a) \o c)
      BY <1>7, <2>2, <3>3, InJoined
    <3>5. /\ IsList((((((o \o m) \o q) \o v) \o a) \o c) \o w)
          /\ x \in ToSet((((((o \o m) \o q) \o v) \o a) \o c) \o w)
      BY <1>7, <2>2, <3>4, InJoined
    <3> QED  BY <1>3, <2>2, <3>5
  <2> QED  BY <2>1, <2>2 DEF Speaks
<1>11. IsList(first \o j) /\ x \in ToSet(first \o j)
  BY <1>6, <1>10, InJoined
<1>12. x \in ToSet((first \o j) \o t)
  BY <1>6, <1>11, InJoined
<1> QED  BY <1>1, <1>12

ToolRow(f, k, b) == <<"tool_executions", Lines[f][k].uuid, b.tool>>

LEMMA UseIsStored ==
  ASSUME NEW f \in File, NEW k \in DOMAIN Lines[f], NEW b \in ToolBlocks(f, k, "tool_use")
  PROVE  ToolRow(f, k, b) \in Rows(Statements[f][k])
<1> DEFINE r == Lines[f][k]
           x == UseRow(r.uuid, b)
<1>1. Speaks(r) /\ b \in ToSet(r.content) /\ b.type = "tool_use"
  BY DEF ToolBlocks, Speaks, ToSet
<1>2. x.op = "insert" /\ x.row = ToolRow(f, k, b)
  BY DEF UseRow, Insert, Statement, ToolRow
<1>3. r = Lines[f][k]
  OBVIOUS
<1>4. b.type = "tool_use" /\ x = UseRow(r.uuid, b)
  BY <1>1
<1> HIDE DEF r, x
<1>5. IsList(MessageContent(r)) /\ x \in ToSet(MessageContent(r))
  BY <1>1, <1>4, BlockStatement
<1>6. x \in ToSet(Statements[f][k])
  BY <1>1, <1>3, <1>5, SpeechStatement
<1> QED  BY <1>2, <1>6 DEF Rows, ToSet

LEMMA ResultAnswers ==
  ASSUME NEW f \in File, NEW k \in DOMAIN Lines[f], NEW b \in ToolBlocks(f, k, "tool_result"),
         NEW d, NEW row, row[1] = "tool_executions", row[3] = b.tool
  PROVE  Answered(d, Statements[f][k], Len(Statements[f][k]), row)
<1> DEFINE r == Lines[f][k]
           x == AnswerRow(r.uuid, b)
           stmts == Statements[f][k]
<1>1. Speaks(r) /\ b \in ToSet(r.content) /\ b.type = "tool_result"
  BY DEF ToolBlocks, Speaks, ToSet
<1>2. x.op = "answer" /\ x.row[3] = b.tool
  BY DEF AnswerRow, Statement
<1>3. r = Lines[f][k]
  OBVIOUS
<1>4. b.type = "tool_result" /\ x = AnswerRow(r.uuid, b)
  BY <1>1
<1>5. IsList(stmts)
  BY GoodStatements DEF GoodBut
<1> HIDE DEF r, x
<1>6. IsList(MessageContent(r)) /\ x \in ToSet(MessageContent(r))
  BY <1>1, <1>4, BlockStatement
<1>7. x \in ToSet(stmts)
  BY <1>1, <1>3, <1>6, SpeechStatement
<1> HIDE DEF stmts
<1>8. PICK i \in 1 .. Len(stmts) : x = stmts[i]
  BY <1>5, <1>7, ListIs
<1> QED  BY <1>2, <1>8 DEF Answered, Answers, stmts

-----------------------------------------------------------------------------
(***************************************************************************)
(* The inductive invariant. What is decomposed is stored (Stored), what    *)
(* the offset has passed is decomposed or has failed (Passed), and fails   *)
(* only for a failing statement (FaultsOnly); Sound says that the rows     *)
(* hang together, whichever of them a failure has left out.                *)
(***************************************************************************)
Types ==
  /\ pos \in [File -> Nat]
  /\ done \in [File -> SUBSET Nat]
  /\ failed \in [File -> SUBSET Nat]

Stored == \A f \in File : \A k \in done[f] : Rows(Statements[f][k]) \subseteq DOMAIN db

Passed == \A f \in File : \A k \in 1 .. pos[f] : k \in done[f] \/ k \in failed[f]

FaultsOnly == \A f \in File : IsFiniteSet(failed[f]) /\ Cardinality(failed[f]) <= faults

Meets(f, i, j, use, result) ==
  /\ i < j
  /\ use \in ToolBlocks(f, i, "tool_use")
  /\ result \in ToolBlocks(f, j, "tool_result")
  /\ use.tool = result.tool

Linked ==
  \A f \in File : \A i, j \in 1 .. pos[f] :
    i \notin failed[f] /\ j \notin failed[f] =>
      \A use, result : Meets(f, i, j, use, result) =>
        db[ToolRow(f, i, use)].answered = TRUE

IInv ==
  Types /\ TypeOK /\ Sound(db) /\ Stored /\ Passed /\ FaultsOnly /\ Linked

LEMMA LinesAreLists ==
  ASSUME NEW f \in File
  PROVE  Len(Lines[f]) \in Nat /\ DOMAIN Lines[f] = 1 .. Len(Lines[f])
  BY LinesAssumption, ListIs

LEMMA InitIInv ==
  ASSUME Init
  PROVE  IInv
<1>1. DOMAIN db = {} /\ IsFiniteSet(DOMAIN db)
  <2>1. DOMAIN db = {}
    BY DEF Init
  <2> QED  BY <2>1, FS_EmptySet
<1>2. Types
  BY DEF Init, Types
<1>3. \A f \in File : pos[f] = 0 /\ done[f] = {} /\ failed[f] = {}
  BY DEF Init
<1>4. TypeOK
  <2>1. \A f \in File : pos[f] \in 0 .. Len(Lines[f])
    BY <1>3, LinesAreLists
  <2>2. \A f \in File : done[f] \subseteq DOMAIN Lines[f] /\ failed[f] \subseteq DOMAIN Lines[f]
    BY <1>3
  <2>3. faults \in 0 .. MaxFaults /\ rereads \in 0 .. MaxRereads
    BY BoundsAssumption DEF Init
  <2>4. fresh \in BOOLEAN
    BY Zenon DEF Init
  <2>5. skipped \subseteq Extractions(db)
    BY DEF Init
  <2> QED  BY <1>1, <2>1, <2>2, <2>3, <2>4, <2>5 DEF TypeOK
<1>5. Sound(db)
  <2>1. db = [r \in DOMAIN db |-> db[r]]
    BY DEF Init
  <2> QED  BY <1>1, <2>1 DEF Sound
<1>6. Stored /\ Passed /\ Linked
  BY <1>3 DEF Stored, Passed, Linked
<1>7. FaultsOnly
  <2>1. faults = 0
    BY DEF Init
  <2> QED  BY <1>3, <2>1, FS_EmptySet DEF FaultsOnly
<1> QED  BY <1>2, <1>4, <1>5, <1>6, <1>7 DEF IInv

LEMMA StatementRows ==
  ASSUME NEW f \in File, NEW k \in DOMAIN Lines[f]
  PROVE  Rows(Statements[f][k]) \subseteq AllRows
<1> HIDE DEF Rows, Statements
<1> QED  BY DEF AllRows

LEMMA AdvanceIs ==
  ASSUME IInv, NEW f \in File, Advance(f)
  PROVE  /\ pos[f] + 1 \in DOMAIN Lines[f] /\ pos[f] \in Nat
         /\ pos' = [pos EXCEPT ![f] = pos[f] + 1]
         /\ GoodBut(Own(Lines[f][pos[f] + 1]), {}, Statements[f][pos[f] + 1])
         /\ Own(Lines[f][pos[f] + 1]) \in SUBSET Revisions
<1>1. pos[f] \in Nat /\ Len(Lines[f]) \in Nat
  BY LinesAreLists DEF IInv, Types
<1>2. pos[f] + 1 \in DOMAIN Lines[f]
  BY <1>1, LinesAreLists DEF Advance
<1> QED  BY <1>1, <1>2, GoodStatements DEF Advance

\* What a line that is ingested changes, when it is its file's line k.
Ingested(f, k) ==
  /\ Sound(db') /\ LaterBut(Own(Lines[f][k]), db, db') /\ Later(db, db')
  /\ DOMAIN db' \subseteq DOMAIN db \cup Rows(Statements[f][k])
  /\ Rows(Statements[f][k]) \subseteq DOMAIN db'
  /\ \A r \in DOMAIN db :
       Answered(db, Statements[f][k], Len(Statements[f][k]), r) => db'[r].answered = TRUE
  /\ k \in DOMAIN Lines[f] /\ pos' = [pos EXCEPT ![f] = k]
  /\ done' = [done EXCEPT ![f] = done[f] \cup {k}]
  /\ failed' = [failed EXCEPT ![f] = failed[f] \ {k}]
  /\ UNCHANGED <<skipped, faults, rereads>> /\ fresh' \in BOOLEAN

LEMMA IngestIs ==
  ASSUME IInv, NEW f \in File, Ingest(f), NEW k, k = pos[f] + 1
  PROVE  Ingested(f, k)
<1> DEFINE stmts == Statements[f][k]
           X == Own(Lines[f][k])
           out == Run(db, stmts)
<1>1. Advance(f)
  BY DEF Ingest
<1>2. /\ k \in DOMAIN Lines[f] /\ pos' = [pos EXCEPT ![f] = k] /\ GoodBut(X, {}, stmts)
      /\ X \in SUBSET Revisions
  BY <1>1, AdvanceIs
<1>3. Sound(db)
  BY DEF IInv
<1>4. db' = out.db /\ IF out.ok THEN Succeeds(f, k) ELSE Fails(f, k)
  BY DEF Ingest, Outcome
<1> HIDE DEF stmts, X
<1>5. /\ Sound(out.db) /\ LaterBut(X, db, out.db)
      /\ DOMAIN out.db \subseteq DOMAIN db \cup Rows(stmts)
      /\ {} \subseteq DOMAIN db => out.ok
      /\ out.ok => Rows(stmts) \subseteq DOMAIN out.db
      /\ out.ok => \A r \in DOMAIN db :
           Answered(db, stmts, Len(stmts), r) => out.db[r].answered = TRUE
  BY <1>2, <1>3, RunIs
<1> HIDE DEF out
<1>6. out.ok
  BY <1>5
<1>7. Succeeds(f, k)
  BY <1>4, <1>6
<1>8. /\ Sound(db') /\ LaterBut(X, db, db') /\ Later(db, db')
      /\ DOMAIN db' \subseteq DOMAIN db \cup Rows(stmts) /\ Rows(stmts) \subseteq DOMAIN db'
  BY <1>2, <1>4, <1>5, <1>6, LaterStill
<1>9. \A r \in DOMAIN db : Answered(db, stmts, Len(stmts), r) => db'[r].answered = TRUE
  BY <1>4, <1>5, <1>6, Zenon
<1>10. /\ done' = [done EXCEPT ![f] = done[f] \cup {k}]
       /\ failed' = [failed EXCEPT ![f] = failed[f] \ {k}]
  BY <1>7 DEF Succeeds
<1>11. UNCHANGED <<skipped, faults, rereads>> /\ fresh' \in BOOLEAN
  BY DEF Ingest, Advance
<1> QED  BY <1>2, <1>8, <1>9, <1>10, <1>11 DEF Ingested, stmts, X

LEMMA IngestFailsIs ==
  ASSUME IInv, NEW f \in File, IngestFails(f), NEW k, k = pos[f] + 1
  PROVE  /\ Sound(db') /\ LaterBut(Own(Lines[f][k]), db, db') /\ Later(db, db')
         /\ DOMAIN db' \subseteq DOMAIN db \cup Rows(Statements[f][k])
         /\ k \in DOMAIN Lines[f] /\ pos' = [pos EXCEPT ![f] = k]
         /\ failed' = [failed EXCEPT ![f] = failed[f] \cup {k}]
         /\ UNCHANGED <<done, skipped, rereads>> /\ fresh' \in BOOLEAN
         /\ faults < MaxFaults /\ faults' = faults + 1
<1> DEFINE stmts == Statements[f][k]
           X == Own(Lines[f][k])
<1>1. Advance(f) /\ Fails(f, k)
  BY DEF IngestFails
<1>2. /\ k \in DOMAIN Lines[f] /\ pos' = [pos EXCEPT ![f] = k] /\ GoodBut(X, {}, stmts)
      /\ X \in SUBSET Revisions
  BY <1>1, AdvanceIs
<1>3. Sound(db)
  BY DEF IInv
<1>4. PICK n \in 0 .. Len(stmts) - 1 : db' = After(db, stmts)[n].db
  BY DEF IngestFails
<1>5. failed' = [failed EXCEPT ![f] = failed[f] \cup {k}] /\ UNCHANGED done
  BY <1>1 DEF Fails
<1>6. UNCHANGED <<skipped, rereads>> /\ fresh' \in BOOLEAN /\ faults < MaxFaults /\ faults' = faults + 1
  BY DEF IngestFails, Advance
<1> HIDE DEF stmts, X
<1>7. n \in 0 .. Len(stmts)
  <2>1. Len(stmts) \in Nat
    BY <1>2, ListIs DEF GoodBut
  <2> QED  BY <1>4, <2>1
<1>8. Progress(X, db, {}, stmts, After(db, stmts)[n], n)
  BY <1>2, <1>3, <1>7, AfterProgresses
<1>9. /\ Sound(db') /\ LaterBut(X, db, db')
      /\ DOMAIN db' \subseteq DOMAIN db \cup Rows(stmts)
  BY <1>4, <1>8 DEF Progress
<1>10. Later(db, db')
  BY <1>2, <1>9, LaterStill
<1> QED  BY <1>2, <1>5, <1>6, <1>9, <1>10 DEF stmts, X

(* What any step does to the database.                                     *)
LEMMA DbStep ==
  ASSUME IInv, [Next]_vars
  PROVE  /\ Sound(db') /\ Later(db, db')
         /\ DOMAIN db' \subseteq AllRows \cup ArtifactRows
<1>1. Sound(db) /\ DOMAIN db \subseteq AllRows \cup ArtifactRows
  BY DEF IInv, TypeOK
<1>2. ASSUME NEW f \in File, Ingest(f) \/ IngestFails(f)
      PROVE  /\ Sound(db') /\ Later(db, db')
             /\ DOMAIN db' \subseteq AllRows \cup ArtifactRows
  <2> DEFINE k == pos[f] + 1
  <2>1. k = pos[f] + 1
    OBVIOUS
  <2> HIDE DEF k
  <2>2. /\ Sound(db') /\ Later(db, db') /\ k \in DOMAIN Lines[f]
        /\ DOMAIN db' \subseteq DOMAIN db \cup Rows(Statements[f][k])
    BY <1>2, <2>1, IngestIs, IngestFailsIs DEF Ingested
  <2>3. Rows(Statements[f][k]) \subseteq AllRows
    BY <2>2, StatementRows
  <2> QED  BY <1>1, <2>2, <2>3
<1>3. CASE Retroactive
  <2>1. PICK bad \in SUBSET Extractions(db) : \E c \in Cuts(db, bad) : db' = ExtractAll(db, c)
    BY <1>3 DEF Retroactive
  <2>5. PICK cut \in Cuts(db, bad) : db' = ExtractAll(db, cut)
    BY <2>1
  <2> DEFINE e == ExtractAll(db, cut)
             X == {}
  <2>2. Sound(e) /\ LaterBut(X, db, e) /\ DOMAIN e \subseteq DOMAIN db \cup ArtifactRows
    BY <1>1, ExtractAllIs
  <2>3. X \in SUBSET Revisions
    OBVIOUS
  <2> HIDE DEF e, X
  <2>4. Later(db, e)
    BY <2>2, <2>3, LaterStill
  <2> QED  BY <1>1, <2>2, <2>4, <2>5 DEF e
<1>4. CASE db' = db
  BY <1>1, <1>4, LaterSelf DEF Later
<1>5. ASSUME NEW f \in File, Reread(f)
      PROVE  db' = db
  BY <1>5 DEF Reread
<1>6. RetroactiveFails \/ UNCHANGED vars => db' = db
  BY DEF RetroactiveFails, vars
<1> QED  BY <1>2, <1>3, <1>4, <1>5, <1>6 DEF Next

(* A tool use that has been skipped can still be extracted, and comes to   *)
(* the same statements.                                                    *)
LEMMA ExtractionsStay ==
  ASSUME NEW d, NEW e, Sound(d), Later(d, e), NEW S \in SUBSET Extractions(d)
  PROVE  S \subseteq Extractions(e) /\ Pending(e, S) = Pending(d, S)
<1>1. \A row \in S : row \in DOMAIN d /\ row[1] = "tool_executions" /\ Message(row[2]) \in DOMAIN d
  BY DEF Extractions, Extractable
<1>2. S \subseteq Extractions(e)
  BY <1>1 DEF Extractions, Extractable, Later, LaterBut
<1>3. \A row \in S : ArtifactsOf(e, row) = ArtifactsOf(d, row)
  BY <1>1, ArtifactsStay
<1>4. Pending(e, S) = Pending(d, S)
  BY <1>3 DEF Pending
<1> QED  BY <1>2, <1>4

(* What is linked stays linked.                                            *)
LEMMA LinkStays ==
  ASSUME IInv, NEW f \in File, NEW i \in 1 .. pos[f], i \notin failed[f],
         NEW use \in ToolBlocks(f, i, "tool_use"),
         NEW e, Later(db, e)
  PROVE  /\ ToolRow(f, i, use) \in DOMAIN db
         /\ db[ToolRow(f, i, use)].answered = TRUE => e[ToolRow(f, i, use)].answered = TRUE
<1> DEFINE row == ToolRow(f, i, use)
<1>1. i \in done[f]
  BY DEF IInv, Passed
<1>2. i \in DOMAIN Lines[f]
  BY <1>1 DEF IInv, TypeOK
<1>3. row \in Rows(Statements[f][i])
  BY <1>2, UseIsStored
<1>4. row \in DOMAIN db
  BY <1>1, <1>3 DEF IInv, Stored
<1>5. row[1] = "tool_executions"
  BY DEF ToolRow
<1> HIDE DEF row
<1>6. db[row].answered = TRUE => e[row].answered = TRUE
  BY <1>4, <1>5, StillAnswered DEF IInv
<1> QED  BY <1>4, <1>6 DEF row

(* A step that reads no line: the offsets may go back.                     *)
LEMMA LookBack ==
  ASSUME IInv, [Next]_vars, UNCHANGED <<done, failed, faults>>,
         pos' \in [File -> Nat], \A f \in File : pos'[f] <= pos[f]
  PROVE  Stored' /\ Passed' /\ FaultsOnly' /\ Linked'
<1>1. Sound(db) /\ Later(db, db')
  BY DbStep DEF IInv
<1>2. Stored'
  BY <1>1 DEF IInv, Stored, Later, LaterBut
<1>3. \A f \in File : 1 .. pos'[f] \subseteq 1 .. pos[f]
  BY DEF IInv, Types
<1>4. Passed'
  BY <1>3 DEF IInv, Passed
<1>5. FaultsOnly'
  BY DEF IInv, FaultsOnly
<1>6. Linked'
  <2> SUFFICES ASSUME NEW f \in File, NEW i \in 1 .. pos[f], NEW j \in 1 .. pos[f],
                      i \notin failed[f], j \notin failed[f],
                      NEW use, NEW result, Meets(f, i, j, use, result)
               PROVE  db'[ToolRow(f, i, use)].answered = TRUE
    BY <1>3 DEF Linked
  <2>1. db[ToolRow(f, i, use)].answered = TRUE
    BY DEF IInv, Linked
  <2>2. use \in ToolBlocks(f, i, "tool_use")
    BY DEF Meets
  <2> QED  BY <1>1, <2>1, <2>2, LinkStays
<1> QED  BY <1>2, <1>4, <1>5, <1>6

LEMMA IngestLinks ==
  ASSUME IInv, NEW f \in File, Ingest(f)
  PROVE  Linked'
<1> DEFINE k == pos[f] + 1
<1>1. k = pos[f] + 1 /\ pos[f] \in Nat
  BY DEF IInv, Types
<1> HIDE DEF k
<1>2. /\ Later(db, db') /\ pos' = [pos EXCEPT ![f] = k]
      /\ failed' = [failed EXCEPT ![f] = failed[f] \ {k}] /\ k \in DOMAIN Lines[f]
      /\ \A r \in DOMAIN db :
           Answered(db, Statements[f][k], Len(Statements[f][k]), r) => db'[r].answered = TRUE
  <2>1. Ingested(f, k)
    BY <1>1, IngestIs
  <2> QED  BY <2>1 DEF Ingested
<1>3. pos \in [File -> Nat] /\ failed \in [File -> SUBSET Nat]
  BY DEF IInv, Types
<1> SUFFICES ASSUME NEW g \in File, NEW i \in 1 .. pos'[g], NEW j \in 1 .. pos'[g],
                    i \notin failed'[g], j \notin failed'[g],
                    NEW use, NEW result, Meets(g, i, j, use, result)
             PROVE  db'[ToolRow(g, i, use)].answered = TRUE
  BY DEF Linked
<1>4. /\ use \in ToolBlocks(g, i, "tool_use") /\ result \in ToolBlocks(g, j, "tool_result")
      /\ use.tool = result.tool /\ i < j
  BY DEF Meets
<1>5. i \in 1 .. pos[g] /\ i \notin failed[g]
  <2>1. CASE g = f
    <3>1. pos'[g] = pos[g] + 1 /\ pos[g] \in Nat
      BY <1>1, <1>2, <1>3, <2>1
    <3>2. i \in 1 .. pos[g] /\ i # k
      BY <1>1, <1>4, <2>1, <3>1
    <3> QED  BY <1>2, <1>3, <2>1, <3>2
  <2>2. CASE g # f
    BY <1>2, <1>3, <2>2
  <2> QED  BY <2>1, <2>2
<1>6. CASE g = f /\ j = k
  <2> DEFINE row == ToolRow(f, i, use)
  <2>1. row \in DOMAIN db
    BY <1>2, <1>4, <1>5, <1>6, LinkStays
  <2>2. row[1] = "tool_executions" /\ row[3] = result.tool
    BY <1>4 DEF ToolRow
  <2> HIDE DEF row
  <2>3. Answered(db, Statements[f][k], Len(Statements[f][k]), row)
    BY <1>2, <1>4, <1>6, <2>2, ResultAnswers
  <2>4. db'[row].answered = TRUE
    BY <1>2, <2>1, <2>3, Zenon
  <2> QED  BY <1>6, <2>4 DEF row
<1>7. CASE ~ (g = f /\ j = k)
  <2>1. j \in 1 .. pos[g] /\ j \notin failed[g]
    <3>1. CASE g = f
      BY <1>1, <1>2, <1>3, <1>7, <3>1
    <3>2. CASE g # f
      BY <1>2, <1>3, <3>2
    <3> QED  BY <3>1, <3>2
  <2>2. db[ToolRow(g, i, use)].answered = TRUE
    BY <1>5, <2>1 DEF IInv, Linked
  <2> QED  BY <1>2, <1>4, <1>5, <2>2, LinkStays
<1> QED  BY <1>6, <1>7

LEMMA IngestInv ==
  ASSUME IInv, NEW f \in File, Ingest(f)
  PROVE  IInv'
<1> DEFINE k == pos[f] + 1
<1>1. k = pos[f] + 1 /\ pos[f] \in Nat
  BY DEF IInv, Types
<1> HIDE DEF k
<1>2. /\ Sound(db') /\ Later(db, db') /\ k \in DOMAIN Lines[f]
      /\ Rows(Statements[f][k]) \subseteq DOMAIN db'
      /\ pos' = [pos EXCEPT ![f] = k]
      /\ done' = [done EXCEPT ![f] = done[f] \cup {k}]
      /\ failed' = [failed EXCEPT ![f] = failed[f] \ {k}]
      /\ UNCHANGED <<skipped, faults, rereads>> /\ fresh' \in BOOLEAN
  <2>1. Ingested(f, k)
    BY <1>1, IngestIs
  <2> QED  BY <2>1 DEF Ingested
<1>3. DOMAIN db' \subseteq AllRows \cup ArtifactRows
  <2>1. Next
    BY DEF Next
  <2> QED  BY <2>1, DbStep
<1>4. /\ pos \in [File -> Nat] /\ done \in [File -> SUBSET Nat] /\ failed \in [File -> SUBSET Nat]
      /\ DOMAIN Lines[f] = 1 .. Len(Lines[f]) /\ Len(Lines[f]) \in Nat
  BY LinesAreLists DEF IInv, Types
<1>5. /\ pos'[f] = k /\ done'[f] = done[f] \cup {k} /\ failed'[f] = failed[f] \ {k}
      /\ \A g \in File : g # f => pos'[g] = pos[g] /\ done'[g] = done[g] /\ failed'[g] = failed[g]
  BY <1>2, <1>4
<1>6. Types'
  BY <1>1, <1>2, <1>4 DEF Types
<1>7. TypeOK'
  <2>1. k \in 0 .. Len(Lines[f])
    BY <1>2, <1>4
  <2>2. \A g \in File :
          pos'[g] \in 0 .. Len(Lines[g]) /\ done'[g] \subseteq DOMAIN Lines[g]
            /\ failed'[g] \subseteq DOMAIN Lines[g]
    BY <1>2, <1>5, <2>1 DEF IInv, TypeOK
  <2>3. \A r \in DOMAIN db' : r[1] \in Counting => db'[r] \in Nat
    BY <1>2 DEF Sound, NumberOk
  <2>4. skipped' \subseteq Extractions(db')
    BY <1>2, ExtractionsStay DEF IInv, TypeOK
  <2> QED  BY <1>2, <1>3, <2>2, <2>3, <2>4 DEF IInv, TypeOK
<1>8. Stored'
  <2> SUFFICES ASSUME NEW g \in File, NEW i \in done'[g]
               PROVE  Rows(Statements[g][i]) \subseteq DOMAIN db'
    BY DEF Stored
  <2>1. CASE g = f /\ i = k
    BY <1>2, <2>1
  <2>2. CASE ~ (g = f /\ i = k)
    <3>1. i \in done[g]
      BY <1>5, <2>2
    <3> QED  BY <1>2, <3>1 DEF IInv, Stored, Later, LaterBut
  <2> QED  BY <2>1, <2>2
<1>9. Passed'
  <2> SUFFICES ASSUME NEW g \in File, NEW i \in 1 .. pos'[g]
               PROVE  i \in done'[g] \/ i \in failed'[g]
    BY DEF Passed
  <2>1. CASE g = f /\ i = k
    BY <1>5, <2>1
  <2>2. CASE ~ (g = f /\ i = k)
    <3>1. i \in 1 .. pos[g]
      BY <1>1, <1>5, <2>2
    <3>2. i \in done[g] \/ i \in failed[g]
      BY <3>1 DEF IInv, Passed
    <3> QED  BY <1>5, <2>2, <3>2
  <2> QED  BY <2>1, <2>2
<1>10. FaultsOnly'
  <2> SUFFICES ASSUME NEW g \in File
               PROVE  IsFiniteSet(failed'[g]) /\ Cardinality(failed'[g]) <= faults
    BY <1>2 DEF FaultsOnly
  <2>1. IsFiniteSet(failed[g]) /\ Cardinality(failed[g]) <= faults /\ faults \in Nat
    BY DEF IInv, FaultsOnly, TypeOK
  <2>2. failed'[g] \in SUBSET failed[g]
    BY <1>5
  <2> DEFINE S == failed[g]
             R == failed'[g]
  <2>3. IsFiniteSet(S) /\ R \in SUBSET S
    BY <2>1, <2>2
  <2> HIDE DEF S, R
  <2>4. IsFiniteSet(R) /\ Cardinality(R) <= Cardinality(S) /\ Cardinality(R) \in Nat /\ Cardinality(S) \in Nat
    BY <2>3, FS_Subset, FS_CardinalityType
  <2>5. Cardinality(R) <= faults
    BY <2>1, <2>4 DEF S
  <2> QED  BY <2>4, <2>5 DEF R
<1>11. Linked'
  BY IngestLinks
<1> QED  BY <1>2, <1>6, <1>7, <1>8, <1>9, <1>10, <1>11 DEF IInv

LEMMA IngestFailsInv ==
  ASSUME IInv, NEW f \in File, IngestFails(f)
  PROVE  IInv'
<1> DEFINE k == pos[f] + 1
<1>1. k = pos[f] + 1 /\ pos[f] \in Nat
  BY DEF IInv, Types
<1> HIDE DEF k
<1>2. /\ Sound(db') /\ Later(db, db') /\ k \in DOMAIN Lines[f]
      /\ pos' = [pos EXCEPT ![f] = k]
      /\ failed' = [failed EXCEPT ![f] = failed[f] \cup {k}]
      /\ UNCHANGED <<done, skipped, rereads>> /\ fresh' \in BOOLEAN
      /\ faults < MaxFaults /\ faults' = faults + 1
  BY <1>1, IngestFailsIs
<1>3. DOMAIN db' \subseteq AllRows \cup ArtifactRows
  <2>1. Next
    BY DEF Next
  <2> QED  BY <2>1, DbStep
<1>4. /\ pos \in [File -> Nat] /\ done \in [File -> SUBSET Nat] /\ failed \in [File -> SUBSET Nat]
      /\ DOMAIN Lines[f] = 1 .. Len(Lines[f]) /\ Len(Lines[f]) \in Nat
  BY LinesAreLists DEF IInv, Types
<1>5. /\ pos'[f] = k /\ failed'[f] = failed[f] \cup {k} /\ done' = done
      /\ \A g \in File : g # f => pos'[g] = pos[g] /\ failed'[g] = failed[g]
  BY <1>2, <1>4
<1>6. Types'
  BY <1>1, <1>2, <1>4 DEF Types
<1>7. TypeOK'
  <2>1. k \in 0 .. Len(Lines[f])
    BY <1>2, <1>4
  <2>2. \A g \in File :
          pos'[g] \in 0 .. Len(Lines[g]) /\ done'[g] \subseteq DOMAIN Lines[g]
            /\ failed'[g] \subseteq DOMAIN Lines[g]
    BY <1>2, <1>5, <2>1 DEF IInv, TypeOK
  <2>3. \A r \in DOMAIN db' : r[1] \in Counting => db'[r] \in Nat
    BY <1>2 DEF Sound, NumberOk
  <2>4. faults' \in 0 .. MaxFaults
    BY <1>2, BoundsAssumption DEF IInv, TypeOK
  <2>5. skipped' \subseteq Extractions(db')
    BY <1>2, ExtractionsStay DEF IInv, TypeOK
  <2> QED  BY <1>2, <1>3, <2>2, <2>3, <2>4, <2>5 DEF IInv, TypeOK
<1>8. Stored'
  BY <1>2 DEF IInv, Stored, Later, LaterBut
<1>9. Passed'
  <2> SUFFICES ASSUME NEW g \in File, NEW i \in 1 .. pos'[g]
               PROVE  i \in done'[g] \/ i \in failed'[g]
    BY DEF Passed
  <2>1. CASE g = f /\ i = k
    BY <1>5, <2>1
  <2>2. CASE ~ (g = f /\ i = k)
    <3>1. i \in 1 .. pos[g]
      BY <1>1, <1>5, <2>2
    <3>2. i \in done[g] \/ i \in failed[g]
      BY <3>1 DEF IInv, Passed
    <3> QED  BY <1>5, <3>2
  <2> QED  BY <2>1, <2>2
<1>10. FaultsOnly'
  <2> SUFFICES ASSUME NEW g \in File
               PROVE  IsFiniteSet(failed'[g]) /\ Cardinality(failed'[g]) <= faults'
    BY DEF FaultsOnly
  <2> DEFINE S == failed[g]
             R == failed'[g]
             T == S \cup {k}
  <2>1. IsFiniteSet(S) /\ Cardinality(S) <= faults /\ faults \in Nat
    BY DEF IInv, FaultsOnly, TypeOK
  <2>2. R \in SUBSET T
    BY <1>5
  <2> HIDE DEF S, R
  <2>3. IsFiniteSet(T) /\ Cardinality(T) <= Cardinality(S) + 1 /\ Cardinality(S) \in Nat
    <3>1. IsFiniteSet(T) /\ Cardinality(T) = IF k \in S THEN Cardinality(S) ELSE Cardinality(S) + 1
      BY <2>1, FS_AddElement
    <3>2. Cardinality(S) \in Nat
      BY <2>1, FS_CardinalityType
    <3> QED  BY <3>1, <3>2
  <2> HIDE DEF T
  <2>4. IsFiniteSet(R) /\ Cardinality(R) <= Cardinality(T) /\ Cardinality(R) \in Nat /\ Cardinality(T) \in Nat
    BY <2>2, <2>3, FS_Subset, FS_CardinalityType
  <2>5. Cardinality(R) <= faults'
    BY <1>2, <2>1, <2>3, <2>4
  <2> QED  BY <2>4, <2>5 DEF R
<1>11. Linked'
  <2> SUFFICES ASSUME NEW g \in File, NEW i \in 1 .. pos'[g], NEW j \in 1 .. pos'[g],
                      i \notin failed'[g], j \notin failed'[g],
                      NEW use, NEW result, Meets(g, i, j, use, result)
               PROVE  db'[ToolRow(g, i, use)].answered = TRUE
    BY DEF Linked
  <2>1. /\ i \in 1 .. pos[g] /\ i \notin failed[g]
        /\ j \in 1 .. pos[g] /\ j \notin failed[g]
    <3>1. CASE g = f
      BY <1>1, <1>5, <3>1
    <3>2. CASE g # f
      BY <1>5, <3>2
    <3> QED  BY <3>1, <3>2
  <2>2. db[ToolRow(g, i, use)].answered = TRUE
    BY <2>1 DEF IInv, Linked
  <2>3. use \in ToolBlocks(g, i, "tool_use")
    BY DEF Meets
  <2> QED  BY <1>2, <2>1, <2>2, <2>3, LinkStays
<1> QED  BY <1>2, <1>6, <1>7, <1>8, <1>9, <1>10, <1>11 DEF IInv

LEMMA RereadInv ==
  ASSUME IInv, NEW f \in File, Reread(f)
  PROVE  IInv'
<1>1. Next
  BY DEF Next
<1>2. PICK n \in 0 .. pos[f] - 1 : pos' = [pos EXCEPT ![f] = n]
  BY DEF Reread
<1>3. /\ UNCHANGED <<db, fresh, done, failed, skipped, faults>>
      /\ rereads < MaxRereads /\ rereads' = rereads + 1
  BY DEF Reread
<1>4. pos \in [File -> Nat] /\ \A g \in File : pos[g] \in 0 .. Len(Lines[g]) /\ Len(Lines[g]) \in Nat
  BY LinesAreLists DEF IInv, Types, TypeOK
<1>5. /\ pos' \in [File -> Nat]
      /\ \A g \in File : pos'[g] <= pos[g] /\ pos'[g] \in 0 .. Len(Lines[g])
  BY <1>2, <1>4
<1>6. Stored' /\ Passed' /\ FaultsOnly' /\ Linked'
  BY <1>1, <1>3, <1>5, LookBack
<1>7. Types'
  BY <1>3, <1>5 DEF IInv, Types
<1>8. TypeOK'
  <2>1. rereads' \in 0 .. MaxRereads
    BY <1>3, BoundsAssumption DEF IInv, TypeOK
  <2>2. skipped' \subseteq Extractions(db')
    BY <1>3 DEF IInv, TypeOK
  <2> QED  BY <1>3, <1>5, <2>1, <2>2 DEF IInv, TypeOK
<1>9. Sound(db')
  BY <1>3 DEF IInv
<1> QED  BY <1>6, <1>7, <1>8, <1>9 DEF IInv

LEMMA RetroactiveInv ==
  ASSUME IInv, [Next]_vars, Retroactive \/ RetroactiveFails \/ UNCHANGED vars
  PROVE  IInv'
<1>1. UNCHANGED <<pos, done, failed, rereads>>
  BY DEF Retroactive, RetroactiveFails, vars
<1>2. Sound(db') /\ Later(db, db') /\ DOMAIN db' \subseteq AllRows \cup ArtifactRows
  BY DbStep
<1>3. pos' \in [File -> Nat] /\ \A g \in File : pos'[g] <= pos[g]
  BY <1>1 DEF IInv, Types
<1>4. Types'
  BY <1>1 DEF IInv, Types
<1>5. fresh' \in BOOLEAN
  BY Zenon DEF IInv, TypeOK, Retroactive, RetroactiveFails, vars
<1>6. faults' \in 0 .. MaxFaults /\ faults <= faults' /\ faults \in Nat
  <2>1. faults \in 0 .. MaxFaults /\ MaxFaults \in Nat
    BY BoundsAssumption DEF IInv, TypeOK
  <2>2. CASE Retroactive
    <3>1. PICK bad \in SUBSET Extractions(db) :
            faults + Cardinality(bad) <= MaxFaults /\ faults' = faults + Cardinality(bad)
      BY <2>2 DEF Retroactive
    <3>2. Cardinality(bad) \in Nat
      <4>1. IsFiniteSet(DOMAIN db) /\ bad \in SUBSET (DOMAIN db)
        BY DEF IInv, Sound, Extractions
      <4> QED  BY <4>1, FS_Subset, FS_CardinalityType
    <3> DEFINE n == Cardinality(bad)
    <3>3. n \in Nat /\ faults + n <= MaxFaults /\ faults' = faults + n
      BY <3>1, <3>2
    <3> HIDE DEF n
    <3> QED  BY <2>1, <3>3
  <2>3. CASE ~ Retroactive
    BY <2>1, <2>3 DEF RetroactiveFails, vars
  <2> QED  BY <2>2, <2>3
<1>12. skipped' \subseteq Extractions(db')
  <2>1. skipped' \subseteq Extractions(db)
    BY DEF IInv, TypeOK, Retroactive, RetroactiveFails, vars
  <2> QED  BY <1>2, <2>1, ExtractionsStay DEF IInv
<1>7. TypeOK'
  <2>1. \A r \in DOMAIN db' : r[1] \in Counting => db'[r] \in Nat
    BY <1>2 DEF Sound, NumberOk
  <2> QED  BY <1>1, <1>2, <1>5, <1>6, <1>12, <2>1 DEF IInv, TypeOK
<1>8. Stored'
  BY <1>1, <1>2 DEF IInv, Stored, Later, LaterBut
<1>9. Passed'
  BY <1>1 DEF IInv, Passed
<1>10. FaultsOnly'
  <2> SUFFICES ASSUME NEW g \in File
               PROVE  IsFiniteSet(failed[g]) /\ Cardinality(failed[g]) <= faults'
    BY <1>1 DEF FaultsOnly
  <2>1. IsFiniteSet(failed[g]) /\ Cardinality(failed[g]) <= faults
    BY DEF IInv, FaultsOnly
  <2> DEFINE n == Cardinality(failed[g])
  <2>2. n \in Nat
    BY <2>1, FS_CardinalityType
  <2>3. n <= faults
    BY <2>1
  <2> HIDE DEF n
  <2>4. n <= faults'
    BY <1>6, <2>2, <2>3
  <2> QED  BY <2>1, <2>4 DEF n
<1>11. Linked'
  <2> SUFFICES ASSUME NEW g \in File, NEW i \in 1 .. pos[g], NEW j \in 1 .. pos[g],
                      i \notin failed[g], j \notin failed[g],
                      NEW use, NEW result, Meets(g, i, j, use, result)
               PROVE  db'[ToolRow(g, i, use)].answered = TRUE
    BY <1>1 DEF Linked
  <2>1. db[ToolRow(g, i, use)].answered = TRUE
    BY DEF IInv, Linked
  <2>2. use \in ToolBlocks(g, i, "tool_use")
    BY DEF Meets
  <2> QED  BY <1>2, <2>1, <2>2, LinkStays
<1> QED  BY <1>2, <1>4, <1>7, <1>8, <1>9, <1>10, <1>11 DEF IInv

LEMMA NextIInv ==
  ASSUME IInv, [Next]_vars
  PROVE  IInv'
<1>1. ASSUME NEW f \in File, Ingest(f) \/ IngestFails(f) \/ Reread(f)
      PROVE  IInv'
  BY <1>1, IngestInv, IngestFailsInv, RereadInv
<1>2. CASE Retroactive \/ RetroactiveFails \/ UNCHANGED vars
  BY <1>2, RetroactiveInv
<1> QED  BY <1>1, <1>2 DEF Next

\* The inductive invariant holds.
THEOREM Invariance == Spec => []IInv
<1>1. Init => IInv
  BY InitIInv
<1>2. IInv /\ [Next]_vars => IInv'
  BY NextIInv
<1> QED  BY <1>1, <1>2, PTL DEF Spec

\* The database holds no row that no record, and no artifact of a stored
\* message, stands for, and its counters are numbers.
THEOREM TypeCorrect == Spec => []TypeOK
<1>1. IInv => TypeOK
  BY DEF IInv
<1> QED  BY <1>1, Invariance, PTL

\* Every record inserts the parents of its rows before them, whichever file
\* comes first and whatever a failure has left out: no foreign key rejects a
\* statement, so that no line fails but for a failing statement.
THEOREM NeverRejected == Spec => []NothingRejected
<1>1. IInv => NothingRejected
  BY DEF IInv, FaultsOnly, NothingRejected
<1> QED  BY <1>1, Invariance, PTL

\* A tool_result that is read after its tool_use, both without a failure,
\* is in the tool_use's row, however often either was read before.
THEOREM ResultsAlwaysLinked == Spec => []ResultsLinked
<1>1. ASSUME IInv
      PROVE  ResultsLinked
  <2> SUFFICES ASSUME NEW f \in File, NEW i \in 1 .. pos[f], NEW j \in 1 .. pos[f],
                      i < j, {i, j} \cap failed[f] = {},
                      NEW use \in ToolBlocks(f, i, "tool_use"),
                      NEW result \in ToolBlocks(f, j, "tool_result"),
                      use.tool = result.tool
               PROVE  db[<<"tool_executions", Lines[f][i].uuid, use.tool>>].answered
    BY DEF ResultsLinked
  <2>1. i \notin failed[f] /\ j \notin failed[f] /\ Meets(f, i, j, use, result)
    BY DEF Meets
  <2>2. db[ToolRow(f, i, use)].answered = TRUE
    BY <1>1, <2>1 DEF IInv, Linked
  <2> QED  BY <2>2 DEF ToolRow
<1> QED  BY <1>1, Invariance, PTL

\* When every line is read and none failed last, everything is stored.
THEOREM AlwaysConverges == Spec => []Converged
<1>1. ASSUME IInv
      PROVE  Converged
  <2> SUFFICES ASSUME AllSucceeded, \A f \in File : pos[f] = Len(Lines[f]),
                      NEW f \in File, NEW k \in DOMAIN Lines[f]
               PROVE  Rows(Statements[f][k]) \subseteq DOMAIN db
    <3> HIDE DEF Rows, Statements
    <3> QED  BY DEF Converged, AllRows
  <2>1. k \in 1 .. pos[f]
    BY LinesAreLists
  <2>2. k \in done[f]
    BY <1>1, <2>1 DEF IInv, Passed, AllSucceeded
  <2> QED  BY <1>1, <2>2 DEF IInv, Stored
<1> QED  BY <1>1, Invariance, PTL

\* A project's session count is at most the number of its sessions, or 1.
THEOREM ProjectsNeverAhead == Spec => []ProjectNeverAhead
<1>1. IInv => ProjectNeverAhead
  BY DEF IInv, Sound, ProjectOk, ProjectNeverAhead
<1> QED  BY <1>1, Invariance, PTL

(* A message that a line's own revision has changed is a copy of the line. *)
LEMMA RevisedIs ==
  ASSUME IInv, NEW f \in File, NEW k, k = pos[f] + 1, pos' = [pos EXCEPT ![f] = k],
         NEW r \in DOMAIN db, Revised(Own(Lines[f][k]), r, db[r], db'[r])
  PROVE  ReadingCopyOf(r) /\ db'[r].session = db[r].session
<1> DEFINE line == Lines[f][k]
           v == db[r]
           w == db'[r]
<1>1. pos[f] < pos'[f] /\ pos'[f] = k
  BY DEF IInv, Types
<1>2. /\ line.type \in {"user", "assistant"} /\ Message(line.uuid) = r
      /\ w = [v EXCEPT !.overflow = Overflow(line)]
  <2>1. PICK s \in Own(line) : s.row = r /\ w = [v EXCEPT !.overflow = s.value]
    BY DEF Revised
  <2>2. line.type \in {"user", "assistant"} /\ s = Revision(line)
    BY <2>1 DEF Own
  <2>3. s.row = Message(line.uuid) /\ s.value = Overflow(line)
    BY <2>2 DEF Revision, Statement
  <2> QED  BY <2>1, <2>2, <2>3
<1>3. v = [session |-> v.session, overflow |-> v.overflow]
  BY DEF IInv, Sound, MessageOk, Revised
<1> DEFINE x == Overflow(line)
<1>4. /\ line.type \in {"user", "assistant"} /\ Message(line.uuid) = r
      /\ w = [v EXCEPT !.overflow = x]
  BY <1>2
<1> HIDE DEF v, w, x
<1>5. w.session = v.session /\ w.overflow = x
  BY <1>3, <1>4
<1> QED  BY <1>1, <1>2, <1>5 DEF ReadingCopyOf, v, w, x

(* What the retroactive pass does.                                         *)
LEMMA RetroactiveIs ==
  ASSUME Sound(db), Retroactive
  PROVE  /\ LaterBut({}, db, db')
         /\ \A row \in DOMAIN db : row[1] = "tool_executions" /\ row \notin skipped' =>
              Rows(ArtifactsOf(db, row)) \subseteq DOMAIN db'
         /\ \A B, old : old \subseteq Extractions(db) /\ Covers(B \cup Pending(db, old), db) =>
              Covers(B \cup Pending(db, skipped'), db')
         /\ skipped' \subseteq Extractions(db) /\ failed' = failed
<1>1. PICK bad \in SUBSET Extractions(db) :
        skipped' = bad /\ \E c \in Cuts(db, bad) : db' = ExtractAll(db, c)
  BY DEF Retroactive
<1>2. PICK cut \in Cuts(db, bad) : db' = ExtractAll(db, cut)
  BY <1>1
<1> DEFINE e == ExtractAll(db, cut)
           d == db
<1>3. /\ LaterBut({}, d, e)
      /\ \A row \in DOMAIN d : row[1] = "tool_executions" /\ row \notin bad =>
           Rows(ArtifactsOf(d, row)) \subseteq DOMAIN e
      /\ \A B, old : old \subseteq Extractions(d) /\ Covers(B \cup Pending(d, old), d) =>
           Covers(B \cup Pending(d, bad), e)
  BY ExtractAllIs
<1>4. db' = e /\ skipped' = bad /\ bad \subseteq Extractions(db) /\ failed' = failed
  BY <1>1, <1>2 DEF Retroactive
<1> HIDE DEF e
<1> QED  BY <1>3, <1>4

\* What a session and a message were first stored with stays: no statement,
\* of any record, of a failed one or of the retroactive pass, writes over it,
\* but that of a copy of the message over its overflow columns.
THEOREM FirstSeenStays == Spec => FirstSeenKept
<1> DEFINE RowKept(r) ==
             /\ r[1] \in {"sessions", "messages"} => r \in DOMAIN db'
             /\ r[1] = "sessions" => db'[r] = db[r]
             /\ r[1] = "messages" =>
                  /\ db'[r].session = db[r].session
                  /\ db'[r].overflow = db[r].overflow \/ ReadingCopyOf(r)
           Still ==
             \A row \in DOMAIN db :
               /\ row[1] \in {"sessions", "messages"} => row \in DOMAIN db'
               /\ row[1] = "sessions" => db'[row] = db[row]
               /\ row[1] = "messages" =>
                    /\ db'[row].session = db[row].session
                    /\ db'[row].overflow = db[row].overflow \/ ReadingCopyOf(row)
<1>1. ASSUME IInv, [Next]_vars, NEW r \in DOMAIN db
      PROVE  RowKept(r)
  <2>1. r \in DOMAIN db'
    BY <1>1, DbStep DEF Later, LaterBut
  <2>2. ASSUME db'[r] = db[r]
        PROVE  RowKept(r)
    BY <2>1, <2>2
  <2>3. r[1] \in {"sessions", "messages"} => ~ Tallied(r)
    BY DEF Tallied, Counting, HasKey
  <2>4. ASSUME NEW f \in File, Ingest(f) \/ IngestFails(f)
        PROVE  RowKept(r)
    <3> DEFINE k == pos[f] + 1
               X == Own(Lines[f][k])
    <3>1. k = pos[f] + 1
      OBVIOUS
    <3> HIDE DEF k
    <3>2. LaterBut(X, db, db') /\ pos' = [pos EXCEPT ![f] = k]
      BY <1>1, <2>4, <3>1, IngestIs, IngestFailsIs DEF Ingested
    <3>3. r[1] \in {"sessions", "messages"} =>
            db'[r] = db[r] \/ Revised(X, r, db[r], db'[r])
      BY <2>3, <3>2 DEF LaterBut, SameOrAnswered
    <3>4. CASE Revised(X, r, db[r], db'[r])
      <4>1. ReadingCopyOf(r) /\ db'[r].session = db[r].session
        BY <1>1, <3>1, <3>2, <3>4, RevisedIs
      <4>2. r[1] = "messages"
        BY <3>4 DEF Revised
      <4> QED  BY <2>1, <4>1, <4>2
    <3>5. CASE db'[r] = db[r]
      BY <2>2, <3>5
    <3>6. CASE r[1] \notin {"sessions", "messages"}
      BY <3>6
    <3> QED  BY <3>3, <3>4, <3>5, <3>6
  <2>5. CASE Retroactive
    <3>1. LaterBut({}, db, db')
      BY <1>1, <2>5, RetroactiveIs DEF IInv
    <3>2. r[1] \in {"sessions", "messages"} => db'[r] = db[r]
      BY <2>3, <3>1 DEF LaterBut, SameOrAnswered, Revised
    <3>3. CASE r[1] \in {"sessions", "messages"}
      BY <2>2, <3>2, <3>3
    <3>4. CASE r[1] \notin {"sessions", "messages"}
      BY <3>4
    <3> QED  BY <3>3, <3>4
  <2>6. ASSUME NEW f \in File, Reread(f)
        PROVE  db' = db
    BY <2>6 DEF Reread
  <2>7. RetroactiveFails \/ UNCHANGED vars => db' = db
    BY DEF RetroactiveFails, vars
  <2>8. CASE db' = db
    BY <2>2, <2>8
  <2> HIDE DEF RowKept
  <2> QED  BY <1>1, <2>4, <2>5, <2>6, <2>7, <2>8 DEF Next
<1>2. IInv /\ [Next]_vars => [Still]_vars
  <2>1. IInv /\ [Next]_vars => \A r \in DOMAIN db : RowKept(r)
    <3> HIDE DEF RowKept
    <3> QED  BY <1>1
  <2>2. (\A r \in DOMAIN db : RowKept(r)) => Still
    OBVIOUS
  <2> HIDE DEF Still, RowKept
  <2> QED  BY <2>1, <2>2
<1>3. Spec => [][Still]_vars
  <2> HIDE DEF Still
  <2> QED  BY <1>2, Invariance, PTL DEF Spec
<1> QED  BY <1>3 DEF FirstSeenKept

\* Ingesting again a line that was once decomposed in full adds no row with a
\* key, and changes none but for counters, a result, and the overflow columns
\* of the line's own message.
THEOREM ReingestOnlyTallies == Spec => ReingestChangesOnlyTallies
<1> DEFINE Same(f) ==
             pos[f] + 1 \in done[f] /\ Ingest(f) =>
               /\ DOMAIN db' = DOMAIN db
               /\ \A r \in DOMAIN db : ~ Tallied(r) =>
                    \/ SameOrAnswered(r, db[r], db'[r])
                    \/ ReadingCopyOf(r) /\ db'[r].session = db[r].session
           AllSame == \A f \in File : Same(f)
<1>1. ASSUME IInv, NEW f \in File
      PROVE  Same(f)
  <2> SUFFICES ASSUME pos[f] + 1 \in done[f], Ingest(f)
               PROVE  /\ DOMAIN db' = DOMAIN db
                      /\ \A r \in DOMAIN db : ~ Tallied(r) =>
                           \/ SameOrAnswered(r, db[r], db'[r])
                           \/ ReadingCopyOf(r) /\ db'[r].session = db[r].session
    OBVIOUS
  <2> DEFINE k == pos[f] + 1
             X == Own(Lines[f][k])
  <2>1. k = pos[f] + 1
    OBVIOUS
  <2> HIDE DEF k
  <2>2. /\ LaterBut(X, db, db') /\ DOMAIN db' \subseteq DOMAIN db \cup Rows(Statements[f][k])
        /\ pos' = [pos EXCEPT ![f] = k]
    BY <1>1, <2>1, IngestIs DEF Ingested
  <2>3. Rows(Statements[f][k]) \subseteq DOMAIN db
    BY <1>1, <2>1 DEF IInv, Stored
  <2>4. DOMAIN db' = DOMAIN db
    BY <2>2, <2>3 DEF LaterBut
  <2>5. ASSUME NEW r \in DOMAIN db, ~ Tallied(r)
        PROVE  \/ SameOrAnswered(r, db[r], db'[r])
               \/ ReadingCopyOf(r) /\ db'[r].session = db[r].session
    <3>1. SameOrAnswered(r, db[r], db'[r]) \/ Revised(X, r, db[r], db'[r])
      BY <2>2, <2>5 DEF LaterBut
    <3>2. CASE Revised(X, r, db[r], db'[r])
      BY <1>1, <2>1, <2>2, <3>2, RevisedIs
    <3> QED  BY <3>1, <3>2
  <2> QED  BY <2>4, <2>5
<1>2. IInv /\ [Next]_vars => [AllSame]_vars
  <2> HIDE DEF Same
  <2> QED  BY <1>1
<1>3. Spec => [][AllSame]_vars
  <2> HIDE DEF AllSame
  <2> QED  BY <1>2, Invariance, PTL DEF Spec
<1> QED  BY <1>3 DEF ReingestChangesOnlyTallies

\* The retroactive pass stores the artifacts of every tool use that is stored
\* but those it fails to extract: of those too whose record failed before its
\* artifacts were extracted, and whatever fails of the others.
THEOREM RetroactiveAlwaysHeals == Spec => RetroactiveHeals
<1> DEFINE Heals == Retroactive =>
             \A row \in DOMAIN db : row[1] = "tool_executions" /\ row \notin skipped' =>
               Rows(ArtifactsOf(db, row)) \subseteq DOMAIN db'
<1>1. ASSUME IInv, Retroactive
      PROVE  \A row \in DOMAIN db : row[1] = "tool_executions" /\ row \notin skipped' =>
               Rows(ArtifactsOf(db, row)) \subseteq DOMAIN db'
  BY <1>1, RetroactiveIs DEF IInv
<1>2. IInv /\ [Next]_vars => [Heals]_vars
  BY <1>1
<1>3. Spec => [][Heals]_vars
  <2> HIDE DEF Heals
  <2> QED  BY <1>2, Invariance, PTL DEF Spec
<1> QED  BY <1>3 DEF RetroactiveHeals

(* What operations are excused by: the lines and the tool uses whose last  *)
(* decomposition, or extraction, failed.                                   *)
FailedLines(failures) == UNION {{Statements[f][k] : k \in failures[f]} : f \in File}

Excuses(failures, uses, d) == FailedLines(failures) \cup Pending(d, uses)

(* Whatever a step does, the operations that are due are counted.          *)
LEMMA CoversStep ==
  ASSUME IInv, Covers(Excuses(failed, skipped, db), db), [Next]_vars
  PROVE  Covers(Excuses(failed', skipped', db'), db')
<1> DEFINE F == Excuses(failed, skipped, db)
           G == Excuses(failed', skipped', db')
<1>1. Sound(db) /\ skipped \in SUBSET Extractions(db)
  BY DEF IInv, TypeOK
<1>2. failed \in [File -> SUBSET Nat]
  BY DEF IInv, Types
<1>3. Later(db, db')
  BY DbStep
<1>4. skipped' = skipped => Pending(db', skipped') = Pending(db, skipped)
  BY <1>1, <1>3, ExtractionsStay
<1>5. ASSUME NEW f \in File, Ingest(f)
      PROVE  Covers(G, db')
  <2> DEFINE k == pos[f] + 1
             stmts == Statements[f][k]
             X == Own(Lines[f][k])
  <2>1. k = pos[f] + 1
    OBVIOUS
  <2>2. GoodBut(X, {}, stmts) /\ X \in SUBSET Revisions /\ db' = Run(db, stmts).db
    BY <1>5, AdvanceIs DEF Ingest, Outcome
  <2> HIDE DEF k
  <2>3. failed' = [failed EXCEPT ![f] = failed[f] \ {k}] /\ skipped' = skipped
    <3>1. Ingested(f, k)
      BY <1>5, <2>1, IngestIs
    <3> QED  BY <3>1 DEF Ingested
  <2>4. FailedLines(failed) \subseteq FailedLines(failed') \cup {stmts}
    <3> SUFFICES ASSUME NEW g \in File, NEW i \in failed[g]
                 PROVE  Statements[g][i] \in FailedLines(failed') \cup {stmts}
      <4> HIDE DEF Statements
      <4> QED  BY DEF FailedLines
    <3>1. CASE g = f /\ i = k
      BY <3>1
    <3>2. CASE ~ (g = f /\ i = k)
      <4>1. i \in failed'[g]
        BY <1>2, <2>3, <3>2
      <4> HIDE DEF Statements
      <4> QED  BY <4>1 DEF FailedLines
    <3> QED  BY <3>1, <3>2
  <2>5. F \subseteq G \cup {stmts}
    BY <1>4, <2>3, <2>4 DEF Excuses
  <2> HIDE DEF stmts, X, F, G
  <2>6. \A o, v : Excused(F, o, v) => Excused(G, o, v) \/ IsInserted(stmts, o, v)
    BY <2>5 DEF Excused
  <2>7. {} \subseteq DOMAIN db /\ Covers(F, db)
    BY DEF F
  <2> DEFINE d == db
             K == {}
  <2>8. /\ Sound(d) /\ GoodBut(X, K, stmts) /\ X \in SUBSET Revisions
        /\ K \subseteq DOMAIN d /\ Covers(F, d)
    BY <1>1, <2>2, <2>7
  <2> HIDE DEF d, K
  <2>9. Covers(G, Run(d, stmts).db)
    BY <2>6, <2>8, RunCovers
  <2> QED  BY <2>2, <2>9 DEF d
<1>6. ASSUME NEW f \in File, IngestFails(f)
      PROVE  Covers(G, db')
  <2> DEFINE k == pos[f] + 1
             stmts == Statements[f][k]
             X == Own(Lines[f][k])
  <2>1. k = pos[f] + 1
    OBVIOUS
  <2>2. /\ GoodBut(X, {}, stmts) /\ X \in SUBSET Revisions
        /\ \E n \in 0 .. Len(stmts) - 1 : db' = After(db, stmts)[n].db
    BY <1>6, AdvanceIs DEF IngestFails
  <2> HIDE DEF k
  <2>3. failed' = [failed EXCEPT ![f] = failed[f] \cup {k}] /\ skipped' = skipped
    BY <1>6, <2>1, IngestFailsIs
  <2>4. k \in failed'[f] /\ \A g \in File : failed[g] \subseteq failed'[g]
    BY <1>2, <2>3
  <2>5. FailedLines(failed) \cup {stmts} \subseteq FailedLines(failed')
    <3> HIDE DEF Statements
    <3> QED  BY <2>4 DEF FailedLines
  <2>6. F \cup {stmts} \subseteq G
    BY <1>4, <2>3, <2>5 DEF Excuses
  <2> HIDE DEF stmts, X, F, G
  <2>7. \A o, v : Excused(F, o, v) \/ IsInserted(stmts, o, v) => Excused(G, o, v)
    BY <2>6 DEF Excused
  <2>8. PICK n \in 0 .. Len(stmts) : db' = After(db, stmts)[n].db
    <3>1. Len(stmts) \in Nat
      BY <2>2, ListIs DEF GoodBut
    <3> QED  BY <2>2, <3>1
  <2>9. Covers(F, db)
    BY DEF F
  <2>10. Covers(G, After(db, stmts)[n].db)
    BY <1>1, <2>2, <2>7, <2>9, PartCovers
  <2> QED  BY <2>8, <2>10
<1>7. CASE Retroactive
  <2> DEFINE B == FailedLines(failed)
             old == skipped
  <2>1. old \subseteq Extractions(db) /\ Covers(B \cup Pending(db, old), db)
    BY <1>1 DEF Excuses
  <2> HIDE DEF B, old
  <2>2. Covers(B \cup Pending(db, skipped'), db') /\ skipped' \in SUBSET Extractions(db)
        /\ failed' = failed
    BY <1>1, <1>7, <2>1, RetroactiveIs
  <2>3. Pending(db', skipped') = Pending(db, skipped')
    BY <1>1, <1>3, <2>2, ExtractionsStay
  <2> QED  BY <2>2, <2>3 DEF Excuses, B
<1>8. ASSUME NEW f \in File, Reread(f)
      PROVE  UNCHANGED <<db, failed, skipped>>
  BY <1>8 DEF Reread
<1>9. RetroactiveFails \/ UNCHANGED vars => UNCHANGED <<db, failed, skipped>>
  BY DEF RetroactiveFails, vars
<1>10. CASE UNCHANGED <<db, failed, skipped>>
  BY <1>10
<1> HIDE DEF F, G
<1>11. Covers(G, db')
  BY <1>5, <1>6, <1>7, <1>8, <1>9, <1>10 DEF Next, G
<1> QED  BY <1>11 DEF G

(* A row of files has a path.                                              *)
LEMMA FilesHavePaths ==
  ASSUME NEW row \in AllRows \cup ArtifactRows, row[1] = "files"
  PROVE  row = FileRow(row[2], row[3]) /\ row[3] # None
<1>1. PICK K, stmts : GoodBut(Revisions, K, stmts) /\ row \in Rows(stmts)
  <2>1. CASE row \in AllRows
    <3> HIDE DEF Rows, Statements
    <3>1. \E f \in File : \E k \in DOMAIN Lines[f] : row \in Rows(Statements[f][k])
      BY <2>1 DEF AllRows
    <3>2. PICK f \in File : \E k \in DOMAIN Lines[f] : row \in Rows(Statements[f][k])
      BY <3>1
    <3>3. PICK k \in DOMAIN Lines[f] : row \in Rows(Statements[f][k])
      BY <3>2
    <3>4. GoodBut(Revisions, {}, Statements[f][k])
      BY GoodStatements, GoodStill
    <3> QED  BY <3>3, <3>4
  <2>2. CASE row \in ArtifactRows
    <3> HIDE DEF Rows
    <3>1. PICK m \in Spoken :
            \E b \in UsesOf(m.uuid) : row \in Rows(Artifacts(m.session, m.uuid, b))
      BY <2>2 DEF ArtifactRows
    <3>2. PICK b \in UsesOf(m.uuid) : row \in Rows(Artifacts(m.session, m.uuid, b))
      BY <3>1
    <3>3. PICK r \in Spoken : b \in ToSet(r.content) /\ b.type = "tool_use"
      BY DEF UsesOf
    <3>4. Speaks(r)
      BY DEF Spoken, Speaks
    <3>5. BlockIsParsed(b)
      BY <3>3, <3>4, SpeechIsParsed
    <3>6. Good(Refs(m.session, m.uuid), Artifacts(m.session, m.uuid, b))
      BY <3>3, <3>5, GoodArtifacts
    <3>7. GoodBut(Revisions, Refs(m.session, m.uuid), Artifacts(m.session, m.uuid, b))
      BY <3>6, GoodStill DEF Good
    <3> QED  BY <3>2, <3>7
  <2> QED  BY <2>1, <2>2
<1>2. PICK i \in DOMAIN stmts : stmts[i].row = row /\ Adds(stmts[i])
  BY <1>1 DEF Rows, Adds
<1>3. Fits(stmts[i])
  BY <1>1, <1>2, RevisionIs DEF GoodBut, ToSet, Adds
<1>4. stmts[i].op = "insert"
  BY <1>2, <1>3 DEF Fits, Adds, Counting
<1> QED  BY <1>2, <1>3, <1>4 DEF Fits, Counting

\* The count of a file covers the mutating operations on record for it, once
\* no line and no extraction is left that has failed, though operation and count are two
\* statements and a fault may come between them.
THEOREM CountsAlwaysCover == Spec => []CountsCover
<1>1. Init => Covers(Excuses(failed, skipped, db), db)
  <2> DEFINE F == Excuses(failed, skipped, db)
  <2> SUFFICES ASSUME Init, NEW s, NEW path
               PROVE  Cardinality(Due(F, db, FileRow(s, path))) <= Value(db, FileRow(s, path))
    BY DEF Covers
  <2>1. DOMAIN db = {}
    BY DEF Init
  <2>2. Due(F, db, FileRow(s, path)) = {} /\ Value(db, FileRow(s, path)) = 0
    BY <2>1 DEF Due, Mutating, Value
  <2>3. Cardinality(Due(F, db, FileRow(s, path))) = 0
    BY <2>2, FS_EmptySet
  <2> QED  BY <2>2, <2>3
<1>2. IInv /\ Covers(Excuses(failed, skipped, db), db) /\ [Next]_vars => Covers(Excuses(failed, skipped, db), db)'
  BY CoversStep
<1>3. IInv /\ Covers(Excuses(failed, skipped, db), db) => CountsCover
  <2> SUFFICES ASSUME IInv, Covers(Excuses(failed, skipped, db), db), AllSucceeded,
                      skipped = {}, NEW r \in DOMAIN db, r[1] = "files"
               PROVE  Cardinality(Operations(r[2], r[3])) <= db[r]
    BY DEF CountsCover
  <2>1. r = FileRow(r[2], r[3]) /\ r[3] # None
    BY FilesHavePaths DEF IInv, TypeOK
  <2> DEFINE F == Excuses(failed, skipped, db)
             X == Due(F, db, r)
             Y == Operations(r[2], r[3])
  <2>2. Cardinality(X) <= db[r] /\ db[r] \in Nat
    <3>1. Cardinality(Due(F, db, FileRow(r[2], r[3]))) <= Value(db, FileRow(r[2], r[3]))
      BY <2>1 DEF Covers
    <3>2. Cardinality(X) <= Value(db, r)
      BY <2>1, <3>1
    <3> QED  BY <3>2, ValueNumber DEF Value, IInv
  <2>3. IsFiniteSet(X) /\ Cardinality(X) \in Nat
    BY DueFinite DEF IInv
  <2>4. Y \in SUBSET X
    <3> SUFFICES ASSUME NEW o \in Y
                 PROVE  o \in X
      OBVIOUS
    <3>1. /\ o \in DOMAIN db /\ o[1] = "file_operations" /\ db[o].mutates
          /\ db[o].session = r[2] /\ db[o].path = r[3]
      BY DEF Operations
    <3>2. FileRow(db[o].session, db[o].path) = r
      BY <2>1, <3>1
    <3>3. ~ Excused(F, o, db[o])
      <4>1. F = {}
        BY DEF AllSucceeded, Excuses, FailedLines, Pending
      <4> QED  BY <4>1 DEF Excused
    <3> QED  BY <3>1, <3>2, <3>3 DEF Due, Mutating
  <2> HIDE DEF X, Y, F
  <2>5. Cardinality(Y) <= Cardinality(X) /\ Cardinality(Y) \in Nat
    BY <2>3, <2>4, FS_Subset, FS_CardinalityType
  <2>6. Cardinality(Y) <= db[r]
    BY <2>2, <2>3, <2>5
  <2> QED  BY <2>6 DEF Y
<1> QED  BY <1>1, <1>2, <1>3, Invariance, PTL DEF Spec
=============================================================================
