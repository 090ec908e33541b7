--------------------------- MODULE SurfacesProofs ---------------------------
(***************************************************************************)
(* Theorems about Surfaces, for every feed of session files, in whatever   *)
(* order their batches are stored and the indexes rebuilt.                 *)
(***************************************************************************)
EXTENDS Surfaces, Facts

(***************************************************************************)
(* Pages of a list.                                                        *)
(***************************************************************************)
LEMMA LimitedIs ==
  ASSUME NEW w, IsList(w), NEW k \in Nat, NEW o \in Nat
  PROVE  /\ IsList(Limited(w, k, o))
         /\ Len(Limited(w, k, o)) = IF Len(w) <= o THEN 0
                                    ELSE IF o + k < Len(w) THEN k ELSE Len(w) - o
         /\ \A i \in 1 .. Len(Limited(w, k, o)) :
               o + i \in 1 .. Len(w) /\ Limited(w, k, o)[i] = w[o + i]
<1> DEFINE b == IF o + k < Len(w) THEN o + k ELSE Len(w)
<1>1. Len(w) \in Nat /\ b \in Nat /\ b <= Len(w)
  <2>1. Len(w) \in Nat
    BY ListIs
  <2> QED  BY <2>1
<1>2. Limited(w, k, o) = SubSeq(w, o + 1, b)
  BY DEF Limited
<1>3. Len(w) <= o => b <= o
  BY <1>1
<1>4. ~ (Len(w) <= o) => o <= b /\ b - o = IF o + k < Len(w) THEN k ELSE Len(w) - o
  BY <1>1
<1> HIDE DEF b
<1>5. /\ IsList(SubSeq(w, o + 1, b))
      /\ Len(SubSeq(w, o + 1, b)) = IF o <= b THEN b - o ELSE 0
      /\ \A i \in 1 .. b - o : SubSeq(w, o + 1, b)[i] = w[o + i]
      /\ b <= o => SubSeq(w, o + 1, b) = <<>>
  BY <1>1, Part
<1>6. Len(Limited(w, k, o)) = IF Len(w) <= o THEN 0 ELSE IF o + k < Len(w) THEN k ELSE Len(w) - o
  <2>1. CASE Len(w) <= o
    BY <1>1, <1>2, <1>3, <1>5, <2>1
  <2>2. CASE ~ (Len(w) <= o)
    BY <1>2, <1>4, <1>5, <2>2
  <2> QED  BY <2>1, <2>2
<1>7. ASSUME NEW i \in 1 .. Len(Limited(w, k, o))
      PROVE  o + i \in 1 .. Len(w) /\ Limited(w, k, o)[i] = w[o + i]
  <2>1. i \in 1 .. b - o
    BY <1>1, <1>2, <1>5
  <2>2. o + i \in 1 .. Len(w)
    BY <1>1, <2>1
  <2> QED  BY <1>2, <1>5, <2>1, <2>2
<1> QED  BY <1>2, <1>5, <1>6, <1>7

LEMMA LimitedWhole ==
  ASSUME NEW w, IsList(w), NEW k \in Nat, Len(w) <= k
  PROVE  Limited(w, k, 0) = w
<1>1. Len(w) \in Nat
  BY ListIs
<1>2. (IF 0 + k < Len(w) THEN 0 + k ELSE Len(w)) = Len(w) /\ 0 + 1 = 1
  BY <1>1
<1> QED  BY <1>2, WholePart DEF Limited

LEMMA LimitedJoin ==
  ASSUME NEW w, IsList(w), NEW a \in Nat, NEW k \in Nat
  PROVE  Limited(w, a, 0) \o Limited(w, k, a) = Limited(w, a + k, 0)
<1>1. Len(w) \in Nat
  BY ListIs
<1>2. CASE a <= Len(w)
  <2> DEFINE c == IF a + k < Len(w) THEN a + k ELSE Len(w)
  <2>1. c \in Nat /\ a <= c /\ c <= Len(w)
    BY <1>1, <1>2
  <2>2. Limited(w, k, a) = SubSeq(w, a + 1, c)
    BY DEF Limited
  <2>3. Limited(w, a + k, 0) = SubSeq(w, 0 + 1, c)
    BY DEF Limited
  <2>4. Limited(w, a, 0) = SubSeq(w, 0 + 1, a)
    <3>1. (IF 0 + a < Len(w) THEN 0 + a ELSE Len(w)) = a
      BY <1>1, <1>2
    <3> QED  BY <3>1 DEF Limited
  <2> HIDE DEF c
  <2>5. SubSeq(w, 0 + 1, a) \o SubSeq(w, a + 1, c) = SubSeq(w, 0 + 1, c)
    BY <2>1, PartsJoin
  <2> QED  BY <2>2, <2>3, <2>4, <2>5
<1>3. CASE ~ (a <= Len(w))
  <2>1. Limited(w, a, 0) = w /\ Limited(w, a + k, 0) = w
    BY <1>1, <1>3, LimitedWhole
  <2>2. Limited(w, k, a) = <<>>
    BY <1>1, <1>3, LimitedIs, EmptyIs
  <2> QED  BY <2>1, <2>2, NothingJoined
<1> QED  BY <1>2, <1>3

\* Pages of k, from the first on, are the list.
LEMMA PagesOf ==
  ASSUME NEW w, IsList(w), NEW k \in Nat \ {0}, NEW n \in Nat, Len(w) <= n
  PROVE  FlattenSeq([p \in 1 .. n |-> Limited(w, k, (p - 1) * k)]) = w
<1> DEFINE ss == [p \in 1 .. n |-> Limited(w, k, (p - 1) * k)]
<1>1. \A p \in 1 .. n : ss[p] = Limited(w, k, (p - 1) * k) /\ (p - 1) * k \in Nat
  OBVIOUS
<1>2. IsList(ss) /\ Len(ss) = n
  BY ListFrom
<1> HIDE DEF ss
<1>3. \A p \in 1 .. n : IsList(ss[p])
  <2> TAKE p \in 1 .. n
  <2> DEFINE o == (p - 1) * k
  <2>1. o \in Nat /\ ss[p] = Limited(w, k, o)
    BY <1>1
  <2> HIDE DEF o
  <2> QED  BY <2>1, LimitedIs
<1>4. PICK g : Steps(g, ss, n)
  BY <1>2, <1>3, FlatSteps
<1> DEFINE T == {m \in Nat : m \in 0 .. n => g[m] = Limited(w, m * k, 0)}
<1>5. 0 \in T
  <2>1. Limited(w, 0 * k, 0) = <<>>
    BY LimitedIs, EmptyIs, ListIs
  <2> QED  BY <1>4, <2>1 DEF Steps
<1>6. ASSUME NEW m \in Nat, m \in T
      PROVE  m + 1 \in T
  <2>1. CASE m + 1 \in 0 .. n
    <3>1. m + 1 \in 1 .. n /\ m \in 0 .. n - 1 /\ m \in 0 .. n /\ m + 1 - 1 = m
      BY <2>1
    <3>2. g[m + 1] = g[m] \o ss[m + 1] /\ g[m] = Limited(w, m * k, 0)
      BY <1>4, <1>6, <3>1 DEF Steps
    <3>3. ss[m + 1] = Limited(w, k, m * k)
      BY <1>1, <3>1
    <3>4. m * k \in Nat /\ m * k + k = (m + 1) * k
      OBVIOUS
    <3>5. Limited(w, m * k, 0) \o Limited(w, k, m * k) = Limited(w, m * k + k, 0)
      BY <3>4, LimitedJoin
    <3>6. g[m + 1] = Limited(w, (m + 1) * k, 0)
      BY <3>2, <3>3, <3>4, <3>5, Zenon
    <3> QED  BY <3>6
  <2> QED  BY <2>1
<1> HIDE DEF T
<1>7. \A m \in Nat : m \in T
  BY <1>5, <1>6, Induct
<1>8. g[n] = Limited(w, n * k, 0)
  BY <1>7 DEF T
<1>9. n * k \in Nat /\ Len(w) <= n * k
  <2>1. n * k \in Nat /\ n <= n * k
    OBVIOUS
  <2> QED  BY <2>1, ListIs
<1>10. Limited(w, n * k, 0) = w
  BY <1>9, LimitedWhole
<1> QED  BY <1>4, <1>8, <1>10 DEF ss, Steps

-----------------------------------------------------------------------------
(***************************************************************************)
(* Storing the rows of a batch.                                            *)
(***************************************************************************)
\* A row of all is one of rows, or the new one with what it lacked.
OneMore(all, rows, row) ==
  \A i \in 1 .. Len(all) : \/ i <= Len(rows) /\ all[i] = rows[i]
                           \/ \E more : all[i] = With(row, more)

LEMMA StoredIs ==
  ASSUME NEW rows, IsList(rows), NEW table, NEW row
  PROVE  /\ IsList(Stored(rows, table, row))
         /\ Len(rows) <= Len(Stored(rows, table, row))
         /\ OneMore(Stored(rows, table, row), rows, row)
         /\ table # "files" =>
               /\ Len(Stored(rows, table, row)) = Len(rows) + 1
               /\ \A i \in 1 .. Len(rows) : Stored(rows, table, row)[i] = rows[i]
               /\ Stored(rows, table, row)[Len(rows) + 1] = With(row, [id |-> Len(rows) + 1])
<1> DEFINE n   == Len(rows)
           all == [i \in DOMAIN rows |-> i]
           I   == {j \in DOMAIN all : SameKey(table, rows[all[j]], row)}
           old == Kept(all, I)
           new == With(row, [id |-> n + 1])
<1>1. n \in Nat /\ DOMAIN rows = 1 .. n
  BY ListIs
<1>2. Stored(rows, table, row) = IF old = <<>> THEN Append(rows, new)
                                 ELSE [rows EXCEPT ![old[1]] = With(row, @)]
  BY DEF Stored, Places, Select
<1>3. IsList(all) /\ Len(all) = n /\ \A i \in 1 .. n : all[i] = i
  BY <1>1, ListFrom
<1> HIDE DEF n, all
<1>4. /\ IsList(old) /\ Len(old) \in Nat
      /\ \A x : x \in ToSet(old) <=> \E i \in 1 .. n : i \in I /\ x = all[i]
  BY <1>1, <1>3, KeptIs
<1>5. table # "files" => old = <<>>
  <2> HAVE table # "files"
  <2>1. I = {}
    BY DEF SameKey
  <2>2. \A x : x \notin ToSet(old)
    BY <1>4, <2>1
  <2> QED  BY <1>4, <2>2, NoneIn
<1> HIDE DEF I, new
<1>6. CASE old = <<>>
  <2>1. Append(rows, new) = rows \o <<new>>
    <3> DEFINE S == ToSet(rows) \cup {new}
    <3>1. rows \in Seq(ToSet(rows))
      BY DEF IsList
    <3>2. rows \in Seq(S) /\ new \in S
      BY <3>1, SeqMonotonic
    <3> HIDE DEF S
    <3> QED  BY <3>2, AppendIsConcat
  <2>2. /\ IsList(rows \o <<new>>) /\ Len(rows \o <<new>>) = n + 1
        /\ \A i \in 1 .. n : (rows \o <<new>>)[i] = rows[i]
        /\ (rows \o <<new>>)[n + 1] = new
    <3>1. IsList(<<new>>) /\ Len(<<new>>) = 1 /\ <<new>>[1] = new
      BY OneElement
    <3>2. 1 \in 1 .. Len(<<new>>)
      BY <3>1
    <3> QED  BY <3>1, <3>2, Joined DEF n
  <2>3. \A i \in 1 .. n + 1 : i \in 1 .. n \/ i = n + 1
    BY <1>1
  <2>4. \E more : new = With(row, more)
    BY DEF new
  <2> HIDE DEF old
  <2> DEFINE all2 == rows \o <<new>>
  <2>5. Stored(rows, table, row) = all2
    BY <1>2, <1>6, <2>1
  <2>6. /\ IsList(all2) /\ Len(all2) = n + 1
        /\ \A i \in 1 .. n : all2[i] = rows[i]
        /\ all2[n + 1] = new
    BY <2>2
  <2> HIDE DEF all2
  <2>7. \A i \in 1 .. Len(all2) : \/ i <= n /\ all2[i] = rows[i]
                                  \/ \E more : all2[i] = With(row, more)
    <3> TAKE i \in 1 .. Len(all2)
    <3>1. CASE i \in 1 .. n
      BY <1>1, <2>6, <3>1
    <3>2. CASE i = n + 1
      BY <2>4, <2>6, <3>2
    <3> QED  BY <2>3, <2>6, <3>1, <3>2
  <2>8. n <= Len(all2)
    BY <1>1, <2>6
  <2> QED  BY <2>5, <2>6, <2>7, <2>8 DEF n, new, OneMore
<1>7. CASE old # <<>>
  <2>1. Len(old) # 0
    BY <1>4, <1>7, EmptyIs
  <2>2. 1 \in 1 .. Len(old)
    BY <1>4, <2>1
  <2>3. old[1] \in ToSet(old)
    BY <1>4, <2>2, ListIs
  <2>4. old[1] \in 1 .. n
    BY <1>3, <1>4, <2>3
  <2> DEFINE k == old[1]
             r == [rows EXCEPT ![k] = With(row, @)]
  <2>5. Stored(rows, table, row) = r
    BY <1>2, <1>7
  <2>6. k \in 1 .. n
    BY <2>4
  <2> HIDE DEF k
  <2>7. r = [i \in 1 .. n |-> r[i]]
    BY <1>1
  <2>8. /\ \A i \in 1 .. n : i # k => r[i] = rows[i]
        /\ r[k] = With(row, rows[k])
    BY <1>1, <2>6
  <2> HIDE DEF r
  <2>9. IsList(r) /\ Len(r) = n
    BY <1>1, <2>7, ListFrom
  <2>10. \A i \in 1 .. Len(r) : \/ i <= n /\ r[i] = rows[i]
                                \/ \E more : r[i] = With(row, more)
    <3> TAKE i \in 1 .. Len(r)
    <3>1. CASE i = k
      BY <2>8, <3>1
    <3>2. CASE i # k
      BY <1>1, <2>8, <2>9, <3>2
    <3> QED  BY <3>1, <3>2
  <2>11. n <= Len(r)
    BY <1>1, <2>9
  <2> QED  BY <1>5, <1>7, <2>5, <2>9, <2>10, <2>11 DEF n, OneMore
<1> QED  BY <1>6, <1>7

IsUpTo(f, rows, table, new, n) ==
  f = [m \in 0 .. n |-> IF m = 0 THEN rows ELSE Stored(f[m - 1], table, new[m])]

LEMMA UpToExists ==
  ASSUME NEW rows, NEW table, NEW new, NEW n \in Nat
  PROVE  \E f : IsUpTo(f, rows, table, new, n)
<1> DEFINE T == {m \in Nat : \E f : IsUpTo(f, rows, table, new, m)}
<1>1. 0 \in T
  <2> DEFINE f == [m \in 0 .. 0 |-> rows]
  <2>1. f = [m \in 0 .. 0 |-> IF m = 0 THEN rows ELSE Stored(f[m - 1], table, new[m])]
    OBVIOUS
  <2>2. IsUpTo(f, rows, table, new, 0)
    BY <2>1 DEF IsUpTo
  <2> QED  BY <2>2
<1>2. ASSUME NEW m \in Nat, m \in T
      PROVE  m + 1 \in T
  <2>1. PICK f : IsUpTo(f, rows, table, new, m)
    BY <1>2
  <2>2. \A i \in 0 .. m : f[i] = IF i = 0 THEN rows ELSE Stored(f[i - 1], table, new[i])
    BY <2>1 DEF IsUpTo
  <2> DEFINE h == [i \in 0 .. m + 1 |-> IF i \in 0 .. m THEN f[i] ELSE Stored(f[i - 1], table, new[i])]
  <2>3. \A i \in 0 .. m : h[i] = f[i]
    OBVIOUS
  <2>4. h[m + 1] = Stored(f[m], table, new[m + 1])
    <3>1. m + 1 \in 0 .. m + 1 /\ m + 1 \notin 0 .. m /\ m + 1 - 1 = m
      OBVIOUS
    <3> QED  BY <3>1
  <2>5. h = [i \in 0 .. m + 1 |-> h[i]]
    OBVIOUS
  <2> HIDE DEF h
  <2>6. \A i \in 0 .. m + 1 : h[i] = IF i = 0 THEN rows ELSE Stored(h[i - 1], table, new[i])
    <3> TAKE i \in 0 .. m + 1
    <3>1. CASE i \in 0 .. m
      <4>1. i = 0 \/ i - 1 \in 0 .. m
        BY <3>1
      <4> QED  BY <2>2, <2>3, <3>1, <4>1
    <3>2. CASE i = m + 1
      <4>1. m \in 0 .. m /\ i # 0 /\ i - 1 = m
        BY <3>2
      <4> QED  BY <2>3, <2>4, <3>2, <4>1
    <3> QED  BY <3>1, <3>2
  <2>7. h = [i \in 0 .. m + 1 |-> IF i = 0 THEN rows ELSE Stored(h[i - 1], table, new[i])]
    BY <2>5, <2>6
  <2>8. IsUpTo(h, rows, table, new, m + 1)
    BY <2>7 DEF IsUpTo
  <2> QED  BY <2>8
<1> HIDE DEF T
<1>3. \A m \in Nat : m \in T
  BY <1>1, <1>2, Induct
<1> QED  BY <1>3 DEF T

\* A row of all is one of rows, or one of new with what it lacked.
Grown(all, rows, new) ==
  \A i \in 1 .. Len(all) : \/ i <= Len(rows) /\ all[i] = rows[i]
                           \/ \E j \in 1 .. Len(new) : \E more : all[i] = With(new[j], more)

LEMMA StoredAllIs ==
  ASSUME NEW rows, IsList(rows), NEW table, NEW new, IsList(new)
  PROVE  /\ IsList(StoredAll(rows, table, new))
         /\ Grown(StoredAll(rows, table, new), rows, new)
         /\ table # "files" =>
               /\ Len(StoredAll(rows, table, new)) = Len(rows) + Len(new)
               /\ \A i \in 1 .. Len(rows) : StoredAll(rows, table, new)[i] = rows[i]
               /\ \A j \in 1 .. Len(new) : StoredAll(rows, table, new)[Len(rows) + j]
                                              = With(new[j], [id |-> Len(rows) + j])
<1> DEFINE n == Len(new)
           k == Len(rows)
           f == CHOOSE g : IsUpTo(g, rows, table, new, n)
<1>1. n \in Nat /\ k \in Nat
  BY ListIs
<1>2. IsUpTo(f, rows, table, new, n)
  BY <1>1, UpToExists, Zenon
<1>3. StoredAll(rows, table, new) = f[n]
  BY Zenon DEF StoredAll, IsUpTo
<1> HIDE DEF f
<1>4. \A i \in 0 .. n : f[i] = IF i = 0 THEN rows ELSE Stored(f[i - 1], table, new[i])
  BY <1>2 DEF IsUpTo
<1> DEFINE Good(m) ==
      /\ IsList(f[m])
      /\ \A i \in 1 .. Len(f[m]) : \/ i <= k /\ f[m][i] = rows[i]
                                   \/ \E j \in 1 .. n : \E more : f[m][i] = With(new[j], more)
      /\ table # "files" => /\ Len(f[m]) = k + m
                            /\ \A i \in 1 .. k : f[m][i] = rows[i]
                            /\ \A j \in 1 .. m : f[m][k + j] = With(new[j], [id |-> k + j])
           T == {m \in Nat : m \in 0 .. n => Good(m)}
<1>5. 0 \in T
  <2>1. f[0] = rows
    BY <1>1, <1>4
  <2>2. \A i \in 1 .. k : i <= k
    BY <1>1
  <2> QED  BY <1>1, <2>1, <2>2
<1>6. ASSUME NEW m \in Nat, m \in T
      PROVE  m + 1 \in T
  <2>1. CASE m + 1 \in 0 .. n
    <3>1. m \in 0 .. n /\ m + 1 # 0 /\ m + 1 - 1 = m /\ m + 1 \in 1 .. n
      BY <1>1, <2>1
    <3>2. Good(m)
      BY <1>6, <3>1
    <3>3. f[m + 1] = Stored(f[m], table, new[m + 1])
      BY <1>4, <2>1, <3>1
    <3> DEFINE a == f[m]
               b == f[m + 1]
    <3>9. IsList(a) /\ b = Stored(a, table, new[m + 1])
      BY <3>2, <3>3
    <3>4. /\ IsList(b) /\ Len(a) <= Len(b) /\ OneMore(b, a, new[m + 1])
          /\ table # "files" => /\ Len(b) = Len(a) + 1
                                /\ \A i \in 1 .. Len(a) : b[i] = a[i]
                                /\ b[Len(a) + 1] = With(new[m + 1], [id |-> Len(a) + 1])
      <4> HIDE DEF a, b, Good
      <4> QED  BY <3>9, StoredIs
    <3>5. Len(a) \in Nat
      BY <3>2, ListIs
    <3>6. \A i \in 1 .. Len(b) : \/ i <= k /\ b[i] = rows[i]
                                 \/ \E j \in 1 .. n : \E more : b[i] = With(new[j], more)
      <4> TAKE i \in 1 .. Len(b)
      <4>1. CASE i <= Len(a) /\ b[i] = a[i]
        <5>1. i \in 1 .. Len(a)
          BY <3>5, <4>1
        <5>2. \/ i <= k /\ a[i] = rows[i]
              \/ \E j \in 1 .. n : \E more : a[i] = With(new[j], more)
          BY <3>2, <5>1
        <5> QED  BY <4>1, <5>2
      <4>2. CASE \E more : b[i] = With(new[m + 1], more)
        BY <3>1, <4>2
      <4>3. OneMore(b, a, new[m + 1])
        BY <3>4
      <4>4. \A l \in 1 .. Len(b) : \/ l <= Len(a) /\ b[l] = a[l]
                                  \/ \E more : b[l] = With(new[m + 1], more)
        BY <4>3, Zenon DEF OneMore
      <4> QED  BY <4>1, <4>2, <4>4, Zenon
    <3>7. ASSUME table # "files"
          PROVE  /\ Len(b) = k + (m + 1)
                 /\ \A i \in 1 .. k : b[i] = rows[i]
                 /\ \A j \in 1 .. m + 1 : b[k + j] = With(new[j], [id |-> k + j])
      <4>1. /\ Len(a) = k + m
            /\ \A i \in 1 .. k : a[i] = rows[i]
            /\ \A j \in 1 .. m : a[k + j] = With(new[j], [id |-> k + j])
        BY <3>2, <3>7
      <4>2. /\ Len(b) = Len(a) + 1
            /\ \A i \in 1 .. Len(a) : b[i] = a[i]
            /\ b[Len(a) + 1] = With(new[m + 1], [id |-> Len(a) + 1])
        BY <3>4, <3>7
      <4> HIDE DEF a, b
      <4>3. Len(b) = k + (m + 1) /\ Len(a) + 1 = k + (m + 1)
        BY <1>1, <4>1, <4>2
      <4>4. \A i \in 1 .. k : b[i] = rows[i]
        <5>1. \A i \in 1 .. k : i \in 1 .. Len(a)
          BY <1>1, <4>1
        <5> QED  BY <4>1, <4>2, <5>1
      <4>5. \A j \in 1 .. m + 1 : b[k + j] = With(new[j], [id |-> k + j])
        <5> TAKE j \in 1 .. m + 1
        <5>1. CASE j \in 1 .. m
          <6>1. k + j \in 1 .. Len(a)
            BY <1>1, <4>1, <5>1
          <6> QED  BY <4>1, <4>2, <5>1, <6>1
        <5>2. CASE j = m + 1
          BY <4>2, <4>3, <5>2
        <5> QED  BY <5>1, <5>2
      <4> QED  BY <4>3, <4>4, <4>5
    <3>8. Good(m + 1)
      BY <3>4, <3>6, <3>7
    <3> HIDE DEF Good
    <3> QED  BY <3>8
  <2> HIDE DEF Good
  <2> QED  BY <2>1
<1> HIDE DEF T, Good
<1>7. \A m \in Nat : m \in T
  BY <1>5, <1>6, Induct
<1>8. Good(n)
  BY <1>1, <1>7 DEF T
<1> QED  BY <1>3, <1>8 DEF Good, Grown

-----------------------------------------------------------------------------
(***************************************************************************)
(* The inductive invariant: every table is a list of rows of its shape,    *)
(* the batches that were read are the feed's, and a block's message is     *)
(* there.                                                                  *)
(***************************************************************************)
Tables == DOMAIN EmptyDatabase \ {"schema"}

Shaped ==
  /\ DOMAIN db = DOMAIN EmptyDatabase
  /\ \A t \in Tables : IsList(db[t]) /\ \A i \in 1 .. Len(db[t]) : RowShaped(t, db[t][i])

Progress == DOMAIN read = DOMAIN Feed /\ \A f \in DOMAIN Feed : read[f] \in 0 .. Len(Feed[f])

IsMessage(rows, u) == \E j \in 1 .. Len(rows) : "uuid" \in DOMAIN rows[j] /\ rows[j].uuid = u

Kinship ==
  \A i \in 1 .. Len(db.message_content) :
    IsMessage(db.messages, db.message_content[i].message_uuid)

IInv == Shaped /\ Progress /\ Kinship

LEMMA WithIs ==
  ASSUME NEW r, NEW more
  PROVE  /\ DOMAIN r \subseteq DOMAIN With(r, more)
         /\ \A c \in DOMAIN r : With(r, more)[c] = r[c]
  BY DEF With

LEMMA ShapeKept ==
  ASSUME NEW t, NEW r, NEW more, RowShaped(t, r)
  PROVE  RowShaped(t, With(r, more))
<1> DEFINE w == With(r, more)
<1>1. DOMAIN r \subseteq DOMAIN w /\ \A c \in DOMAIN r : w[c] = r[c]
  BY WithIs
<1> HIDE DEF w
<1>2. t \in {"message_content", "fts_message_content"} =>
        {"message_uuid", "block_type", "text_content"} \subseteq DOMAIN w
          /\ NullableText(w.text_content)
  <2> HAVE t \in {"message_content", "fts_message_content"}
  <2>1. /\ {"message_uuid", "block_type", "text_content"} \subseteq DOMAIN r
        /\ NullableText(r.text_content)
    BY DEF RowShaped
  <2>2. w.text_content = r.text_content
    BY <1>1, <2>1
  <2> QED  BY <1>1, <2>1, <2>2
<1>3. t \in {"file_operations", "fts_file_operations"} =>
        \A c \in {"content", "old_content", "command"} : c \in DOMAIN w /\ NullableText(w[c])
  <2> HAVE t \in {"file_operations", "fts_file_operations"}
  <2> TAKE c \in {"content", "old_content", "command"}
  <2>1. c \in DOMAIN r /\ NullableText(r[c])
    BY DEF RowShaped
  <2> QED  BY <1>1, <2>1
<1>4. t = "attachments" =>
        {"uuid", "inner_type", "texts"} \subseteq DOMAIN w
          /\ IsList(w.texts) /\ \A i \in DOMAIN w.texts : IsList(w.texts[i])
  <2> HAVE t = "attachments"
  <2>1. /\ {"uuid", "inner_type", "texts"} \subseteq DOMAIN r
        /\ IsList(r.texts) /\ \A i \in DOMAIN r.texts : IsList(r.texts[i])
    BY DEF RowShaped
  <2>2. w.texts = r.texts
    BY <1>1, <2>1
  <2> QED  BY <1>1, <2>1, <2>2
<1>5. t = "fts_attachment_text_content" =>
        {"attachment_uuid", "text_content"} \subseteq DOMAIN w /\ IsList(w.text_content)
  <2> HAVE t = "fts_attachment_text_content"
  <2>1. {"attachment_uuid", "text_content"} \subseteq DOMAIN r /\ IsList(r.text_content)
    BY DEF RowShaped
  <2>2. w.text_content = r.text_content
    BY <1>1, <2>1
  <2> QED  BY <1>1, <2>1, <2>2
<1>6. RowShaped(t, w)
  BY <1>2, <1>3, <1>4, <1>5 DEF RowShaped
<1> QED  BY <1>6 DEF w

LEMMA InitInv == Init => IInv
<1> SUFFICES ASSUME Init PROVE IInv
  OBVIOUS
<1>1. DOMAIN db = DOMAIN EmptyDatabase
  BY DEF Init
<1>2. \A t \in Tables : db[t] = <<>>
  BY DEF Init, Tables, EmptyDatabase
<1>3. Shaped
  <2>1. ASSUME NEW t \in Tables
        PROVE  IsList(db[t]) /\ \A i \in 1 .. Len(db[t]) : RowShaped(t, db[t][i])
    <3>1. db[t] = <<>> /\ IsList(<<>>) /\ Len(<<>>) = 0
      BY <1>2, NoElements
    <3>2. \A i \in 1 .. Len(db[t]) : FALSE
      BY <3>1
    <3> QED  BY <3>1, <3>2
  <2> QED  BY <1>1, <2>1 DEF Shaped
<1>4. Progress
  <2>1. \A f \in DOMAIN Feed : read[f] = 0 /\ Len(Feed[f]) \in Nat
    BY FeedAssumption, ListIs DEF Init
  <2> QED  BY <2>1 DEF Progress, Init
<1>5. Kinship
  <2>1. "message_content" \in Tables
    BY DEF Tables, EmptyDatabase
  <2>2. db.message_content = <<>> /\ Len(<<>>) = 0
    BY <1>2, <2>1, NoElements
  <2>3. \A i \in 1 .. Len(db.message_content) : FALSE
    BY <2>2
  <2> QED  BY <2>3 DEF Kinship
<1> QED  BY <1>3, <1>4, <1>5 DEF IInv

LEMMA FeedIs ==
  ASSUME Progress, NEW f \in DOMAIN Feed, read[f] < Len(Feed[f])
  PROVE  /\ read[f] + 1 \in 1 .. Len(Feed[f])
         /\ \A t \in DOMAIN Feed[f][read[f] + 1].rows :
              /\ t \in Fed
              /\ IsList(Feed[f][read[f] + 1].rows[t])
              /\ \A i \in 1 .. Len(Feed[f][read[f] + 1].rows[t]) :
                   /\ RowShaped(t, Feed[f][read[f] + 1].rows[t][i])
                   /\ t = "message_content" =>
                        WithItsMessage(Feed[f][read[f] + 1].rows, Feed[f][read[f] + 1].rows[t][i])
<1> DEFINE k == read[f] + 1
           rows == Feed[f][k].rows
<1>1. IsList(Feed[f]) /\ Len(Feed[f]) \in Nat /\ DOMAIN Feed[f] = 1 .. Len(Feed[f])
  BY FeedAssumption, ListIs
<1>2. k \in DOMAIN Feed[f]
  BY <1>1 DEF Progress
<1> HIDE DEF k
<1>3. \A t \in DOMAIN rows :
         /\ t \in Fed /\ IsList(rows[t])
         /\ \A i \in DOMAIN rows[t] : /\ RowShaped(t, rows[t][i])
                                      /\ t = "message_content" => WithItsMessage(rows, rows[t][i])
  BY <1>2, FeedAssumption
<1> HIDE DEF rows
<1>4. ASSUME NEW t \in DOMAIN rows
      PROVE  DOMAIN rows[t] = 1 .. Len(rows[t])
  BY <1>3, ListIs
<1> QED  BY <1>1, <1>2, <1>3, <1>4 DEF rows, k

LEMMA CommitInv == IInv /\ (\E f \in DOMAIN Feed : Commit(f)) => IInv'
<1> SUFFICES ASSUME IInv, NEW f \in DOMAIN Feed, Commit(f)
             PROVE  IInv'
  OBVIOUS
<1> DEFINE rows == Feed[f][read[f] + 1].rows
<1>1. Shaped /\ Progress /\ Kinship
  BY DEF IInv
<1>2. /\ read[f] + 1 \in 1 .. Len(Feed[f])
      /\ \A t \in DOMAIN rows :
           /\ t \in Fed /\ IsList(rows[t])
           /\ \A i \in 1 .. Len(rows[t]) :
                /\ RowShaped(t, rows[t][i])
                /\ t = "message_content" => WithItsMessage(rows, rows[t][i])
  BY <1>1, FeedIs DEF Commit
<1>3. db' = [t \in DOMAIN db |-> IF t \in DOMAIN rows THEN StoredAll(db[t], t, rows[t]) ELSE db[t]]
  BY DEF Commit
<1>4. read' = [read EXCEPT ![f] = @ + 1]
  BY DEF Commit
<1> HIDE DEF rows
<1>5. Progress'
  BY <1>1, <1>2, <1>4 DEF Progress
<1>6. DOMAIN db = DOMAIN EmptyDatabase /\ DOMAIN db' = DOMAIN EmptyDatabase
  BY <1>1, <1>3 DEF Shaped
<1>7. \A t \in Tables : t \in DOMAIN db
  BY <1>6 DEF Tables
<1>8. ASSUME NEW t \in Tables
      PROVE  IsList(db'[t]) /\ \A i \in 1 .. Len(db'[t]) : RowShaped(t, db'[t][i])
  <2>1. IsList(db[t]) /\ \A i \in 1 .. Len(db[t]) : RowShaped(t, db[t][i])
    BY <1>1 DEF Shaped
  <2>2. CASE t \notin DOMAIN rows
    BY <1>3, <1>7, <2>1, <2>2
  <2>3. CASE t \in DOMAIN rows
    <3> DEFINE new == rows[t]
               all == StoredAll(db[t], t, new)
    <3>1. IsList(new) /\ \A i \in 1 .. Len(new) : RowShaped(t, new[i])
      BY <1>2, <2>3
    <3>2. db'[t] = all
      BY <1>3, <1>7, <2>3
    <3> HIDE DEF new
    <3>3. /\ IsList(all)
          /\ \A i \in 1 .. Len(all) :
               \/ i <= Len(db[t]) /\ all[i] = db[t][i]
               \/ \E j \in 1 .. Len(new) : \E more : all[i] = With(new[j], more)
      <4>1. IsList(all) /\ Grown(all, db[t], new)
        BY <2>1, <3>1, StoredAllIs
      <4> QED  BY <4>1 DEF Grown
    <3> HIDE DEF all
    <3>4. ASSUME NEW i \in 1 .. Len(all)
          PROVE  RowShaped(t, all[i])
      <4>1. CASE i <= Len(db[t]) /\ all[i] = db[t][i]
        <5>1. i \in 1 .. Len(db[t])
          BY <2>1, <3>3, <4>1, ListIs
        <5> QED  BY <2>1, <4>1, <5>1
      <4>2. CASE \E j \in 1 .. Len(new) : \E more : all[i] = With(new[j], more)
        BY <3>1, <4>2, ShapeKept
      <4> QED  BY <3>3, <4>1, <4>2
    <3> QED  BY <3>2, <3>3, <3>4
  <2> QED  BY <2>2, <2>3
<1>9. Shaped'
  BY <1>6, <1>8 DEF Shaped
<1>10. Kinship'
  <2> DEFINE m  == db["messages"]
             m2 == db'["messages"]
             c  == db["message_content"]
             c2 == db'["message_content"]
  <2>1. {"messages", "message_content"} \subseteq Tables
    BY DEF Tables, EmptyDatabase
  <2>2. IsList(m) /\ IsList(m2) /\ IsList(c) /\ IsList(c2)
    BY <1>1, <1>8, <2>1 DEF Shaped
  <2>3. /\ "messages" \notin DOMAIN rows => m2 = m
        /\ "messages" \in DOMAIN rows => m2 = StoredAll(m, "messages", rows["messages"])
        /\ "message_content" \notin DOMAIN rows => c2 = c
        /\ "message_content" \in DOMAIN rows =>
              c2 = StoredAll(c, "message_content", rows["message_content"])
    BY <1>3, <1>7, <2>1
  <2> HIDE DEF m, m2, c, c2
  <2>4. \A u : IsMessage(m, u) => IsMessage(m2, u)
    <3>1. CASE "messages" \notin DOMAIN rows
      BY <2>3, <3>1
    <3>2. CASE "messages" \in DOMAIN rows
      <4> DEFINE new == rows["messages"]
      <4>1. m2 = StoredAll(m, "messages", new) /\ IsList(new)
        BY <1>2, <2>3, <3>2
      <4> HIDE DEF new
      <4>2. Len(m2) = Len(m) + Len(new) /\ \A i \in 1 .. Len(m) : m2[i] = m[i]
        BY <2>2, <4>1, StoredAllIs
      <4>3. \A i \in 1 .. Len(m) : i \in 1 .. Len(m2)
        BY <2>2, <4>1, <4>2, ListIs
      <4> QED  BY <4>2, <4>3 DEF IsMessage
    <3> QED  BY <3>1, <3>2
  <2>5. ASSUME NEW i \in 1 .. Len(c2)
        PROVE  IsMessage(m2, c2[i].message_uuid)
    <3>1. ASSUME NEW j \in 1 .. Len(c), c2[i] = c[j]
          PROVE  IsMessage(m2, c2[i].message_uuid)
      <4>1. IsMessage(m, c[j].message_uuid)
        BY <1>1, <3>1 DEF Kinship, m, c
      <4> QED  BY <2>4, <3>1, <4>1
    <3>2. CASE "message_content" \notin DOMAIN rows
      <4>1. c2 = c
        BY <2>3, <3>2
      <4> QED  BY <3>1, <4>1
    <3>3. CASE "message_content" \in DOMAIN rows
      <4> DEFINE new == rows["message_content"]
      <4>1. c2 = StoredAll(c, "message_content", new) /\ IsList(new)
        BY <1>2, <2>3, <3>3
      <4>5. \A j \in 1 .. Len(new) : /\ RowShaped("message_content", new[j])
                                       /\ WithItsMessage(rows, new[j])
        BY <1>2, <3>3
      <4> HIDE DEF new
      <4>2. \/ i <= Len(c) /\ c2[i] = c[i]
            \/ \E j \in 1 .. Len(new) : \E more : c2[i] = With(new[j], more)
        <5>1. Grown(c2, c, new)
          BY <2>2, <4>1, StoredAllIs
        <5> QED  BY <5>1 DEF Grown
      <4>3. CASE i <= Len(c) /\ c2[i] = c[i]
        <5>1. i \in 1 .. Len(c)
          BY <2>2, <4>3, ListIs
        <5> QED  BY <3>1, <4>3, <5>1
      <4>4. CASE \E j \in 1 .. Len(new) : \E more : c2[i] = With(new[j], more)
        <5>0. PICK j \in 1 .. Len(new) : \E more : c2[i] = With(new[j], more)
          BY <4>4
        <5>1. PICK more : c2[i] = With(new[j], more)
          BY <5>0
        <5>2. WithItsMessage(rows, new[j]) /\ RowShaped("message_content", new[j])
          BY <4>5
        <5>3. c2[i].message_uuid = new[j].message_uuid
          <6>1. "message_uuid" \in DOMAIN new[j]
            BY <5>2 DEF RowShaped
          <6>2. With(new[j], more)["message_uuid"] = new[j]["message_uuid"]
            BY <6>1, WithIs
          <6> QED  BY <5>1, <6>2
        <5> DEFINE add == rows["messages"]
        <5>4. "messages" \in DOMAIN rows /\ \E l \in DOMAIN add :
                 {"uuid"} \subseteq DOMAIN add[l] /\ add[l].uuid = new[j].message_uuid
          BY <5>2 DEF WithItsMessage
        <5>5. m2 = StoredAll(m, "messages", add) /\ IsList(add)
          BY <1>2, <2>3, <5>4
        <5> HIDE DEF add
        <5>6. DOMAIN add = 1 .. Len(add) /\ Len(add) \in Nat /\ Len(m) \in Nat
          BY <2>2, <5>5, ListIs
        <5>7. PICK l \in 1 .. Len(add) : "uuid" \in DOMAIN add[l] /\ add[l].uuid = new[j].message_uuid
          BY <5>4, <5>6
        <5>8. /\ Len(m2) = Len(m) + Len(add)
              /\ m2[Len(m) + l] = With(add[l], [id |-> Len(m) + l])
          BY <2>2, <5>5, StoredAllIs
        <5>9. Len(m) + l \in 1 .. Len(m2)
          BY <5>6, <5>8
        <5>10. "uuid" \in DOMAIN m2[Len(m) + l] /\ m2[Len(m) + l].uuid = add[l].uuid
          <6> DEFINE w == With(add[l], [id |-> Len(m) + l])
          <6>1. DOMAIN add[l] \subseteq DOMAIN w /\ w["uuid"] = add[l]["uuid"]
            BY <5>7, WithIs
          <6> QED  BY <5>7, <5>8, <6>1
        <5> QED  BY <5>3, <5>7, <5>9, <5>10 DEF IsMessage
      <4> QED  BY <4>2, <4>3, <4>4
    <3> QED  BY <3>2, <3>3
  <2> QED  BY <2>5 DEF Kinship, m2, c2
<1> QED  BY <1>5, <1>9, <1>10 DEF IInv

\* The index of attachments: a row for every text.
AttachmentRow(t, text) ==
  [attachment_uuid |-> t.uuid, session_id |-> t.session_id,
   inner_type |-> t.inner_type, text_content |-> text]

AttachmentRows(ts) ==
  FlattenSeq([i \in DOMAIN ts |->
    [j \in DOMAIN AttachmentTexts(ts[i]) |-> AttachmentRow(ts[i], AttachmentTexts(ts[i])[j])]])

LEMMA AttachmentTextsIs ==
  ASSUME NEW t, RowShaped("attachments", t)
  PROVE  /\ IsList(AttachmentTexts(t))
         /\ \A x \in ToSet(AttachmentTexts(t)) : IsList(x)
<1>1. IsList(t.texts) /\ \A i \in DOMAIN t.texts : IsList(t.texts[i])
  BY DEF RowShaped
<1> DEFINE I == {i \in DOMAIN t.texts : Len(t.texts[i]) > 0}
           s == t.texts
<1>2. AttachmentTexts(t) = Kept(s, I) \/ AttachmentTexts(t) = <<>>
  BY DEF AttachmentTexts, Select
<1>3. IsList(s) /\ \A i \in 1 .. Len(s) : IsList(s[i])
  BY <1>1, ListIs
<1> HIDE DEF I, s
<1>4. IsList(Kept(s, I)) /\ \A x \in ToSet(Kept(s, I)) : IsList(x)
  BY <1>3, KeptIs
<1> QED  BY <1>2, <1>4, NoElements

LEMMA AttachmentRowsIs ==
  ASSUME NEW ts, IsList(ts), \A i \in 1 .. Len(ts) : RowShaped("attachments", ts[i])
  PROVE  /\ IsList(AttachmentRows(ts))
         /\ \A x : x \in ToSet(AttachmentRows(ts)) <=>
              \E i \in 1 .. Len(ts) : \E text \in ToSet(AttachmentTexts(ts[i])) :
                 x = AttachmentRow(ts[i], text)
<1> DEFINE n == Len(ts)
           ss == [i \in 1 .. n |->
                    [j \in DOMAIN AttachmentTexts(ts[i]) |->
                       AttachmentRow(ts[i], AttachmentTexts(ts[i])[j])]]
<1>1. n \in Nat /\ DOMAIN ts = 1 .. n
  BY ListIs
<1>2. AttachmentRows(ts) = FlattenSeq(ss)
  BY <1>1 DEF AttachmentRows
<1>3. ASSUME NEW i \in 1 .. n
      PROVE  /\ IsList(ss[i])
             /\ \A x : x \in ToSet(ss[i]) <=>
                  \E text \in ToSet(AttachmentTexts(ts[i])) : x = AttachmentRow(ts[i], text)
  <2> DEFINE a == AttachmentTexts(ts[i])
             r == [j \in 1 .. Len(a) |-> AttachmentRow(ts[i], a[j])]
  <2>1. IsList(a) /\ Len(a) \in Nat /\ DOMAIN a = 1 .. Len(a)
    BY AttachmentTextsIs, ListIs
  <2>2. ss[i] = r
    BY <2>1
  <2> HIDE DEF a
  <2>3. r = [j \in 1 .. Len(a) |-> r[j]] /\ \A j \in 1 .. Len(a) : r[j] = AttachmentRow(ts[i], a[j])
    OBVIOUS
  <2> HIDE DEF r
  <2>4. IsList(r) /\ Len(r) = Len(a)
    BY <2>1, <2>3, ListFrom
  <2>5. \A x : x \in ToSet(r) <=> \E j \in 1 .. Len(a) : x = r[j]
    BY <2>4, ListIs
  <2>6. \A x : x \in ToSet(a) <=> \E j \in 1 .. Len(a) : x = a[j]
    BY <2>1, ListIs
  <2>7. \A x : x \in ToSet(r) <=> \E text \in ToSet(a) : x = AttachmentRow(ts[i], text)
    BY <2>3, <2>5, <2>6
  <2> HIDE DEF ss
  <2> QED  BY <2>2, <2>4, <2>7 DEF a
<1>4. ss = [i \in 1 .. n |-> ss[i]]
  OBVIOUS
<1> HIDE DEF ss
<1>5. /\ IsList(FlattenSeq(ss))
      /\ \A x : x \in ToSet(FlattenSeq(ss)) <=> \E i \in 1 .. n : x \in ToSet(ss[i])
  BY <1>1, <1>3, <1>4, Flattened
<1>6. \A x : x \in ToSet(FlattenSeq(ss)) <=>
         \E i \in 1 .. n : \E text \in ToSet(AttachmentTexts(ts[i])) : x = AttachmentRow(ts[i], text)
  <2> TAKE x
  <2>1. \A i \in 1 .. n : x \in ToSet(ss[i]) <=>
           \E text \in ToSet(AttachmentTexts(ts[i])) : x = AttachmentRow(ts[i], text)
    BY <1>3
  <2>2. x \in ToSet(FlattenSeq(ss)) <=> \E i \in 1 .. n : x \in ToSet(ss[i])
    BY <1>5
  <2> HIDE DEF n
  <2> QED  BY <2>1, <2>2, Zenon
<1> QED  BY <1>2, <1>5, <1>6

LEMMA RebuiltIs ==
  ASSUME DOMAIN db = DOMAIN EmptyDatabase
  PROVE  /\ DOMAIN Rebuilt = DOMAIN EmptyDatabase
         /\ \A t \in DOMAIN EmptyDatabase :
              Rebuilt[t] = CASE t = "fts_message_content" -> db.message_content
                             [] t = "fts_file_operations" -> db.file_operations
                             [] t = "fts_attachment_text_content" -> AttachmentRows(db.attachments)
                             [] OTHER -> db[t]
<1> DEFINE a == [db EXCEPT !.fts_message_content = db.message_content]
           b == [a EXCEPT !.fts_file_operations = a.file_operations]
           c == [b EXCEPT !.fts_attachment_text_content = AttachmentRows(b.attachments)]
<1>1. {"fts_message_content", "fts_file_operations", "fts_attachment_text_content",
       "message_content", "file_operations", "attachments"} \subseteq DOMAIN db
  BY DEF EmptyDatabase
<1>2. Rebuilt = c
  BY Zenon DEF Rebuilt, rebuild_fts_index, rebuild_fts_file_operations,
        rebuild_fts_attachment_text_content, AttachmentRows, AttachmentRow, Each
<1>3. /\ DOMAIN a = DOMAIN db
      /\ \A t \in DOMAIN db : a[t] = IF t = "fts_message_content" THEN db["message_content"] ELSE db[t]
  BY <1>1
<1> HIDE DEF a
<1>4. /\ DOMAIN b = DOMAIN db
      /\ \A t \in DOMAIN db : b[t] = IF t = "fts_file_operations" THEN a["file_operations"] ELSE a[t]
  BY <1>1, <1>3
<1> HIDE DEF b
<1>5. /\ DOMAIN c = DOMAIN db
      /\ \A t \in DOMAIN db : c[t] = IF t = "fts_attachment_text_content"
                                     THEN AttachmentRows(b["attachments"]) ELSE b[t]
  BY <1>1, <1>4
<1> HIDE DEF c
<1>6. a["file_operations"] = db["file_operations"] /\ b["attachments"] = db["attachments"]
  BY <1>1, <1>3, <1>4
<1> QED  BY <1>1, <1>2, <1>3, <1>4, <1>5, <1>6

LEMMA RebuildInv == IInv /\ Rebuild => IInv'
<1> SUFFICES ASSUME IInv, Rebuild
             PROVE  IInv'
  OBVIOUS
<1>1. Shaped /\ Progress /\ Kinship /\ db' = Rebuilt /\ read' = read
  BY DEF IInv, Rebuild
<1>2. /\ DOMAIN db' = DOMAIN EmptyDatabase
      /\ \A t \in DOMAIN EmptyDatabase :
           db'[t] = CASE t = "fts_message_content" -> db.message_content
                      [] t = "fts_file_operations" -> db.file_operations
                      [] t = "fts_attachment_text_content" -> AttachmentRows(db.attachments)
                      [] OTHER -> db[t]
  BY <1>1, RebuiltIs DEF Shaped
<1>3. Progress'
  BY <1>1 DEF Progress
<1>4. {"fts_message_content", "fts_file_operations", "fts_attachment_text_content",
       "message_content", "file_operations", "attachments", "messages"} \subseteq Tables
  BY DEF Tables, EmptyDatabase
<1>5. \A t \in Tables : t \in DOMAIN EmptyDatabase
  BY DEF Tables
<1>6. \A t \in Tables : IsList(db[t]) /\ \A i \in 1 .. Len(db[t]) : RowShaped(t, db[t][i])
  BY <1>1 DEF Shaped
<1>7. ASSUME NEW t \in Tables
      PROVE  IsList(db'[t]) /\ \A i \in 1 .. Len(db'[t]) : RowShaped(t, db'[t][i])
  <2>1. CASE t = "fts_message_content"
    <3>1. db'[t] = db["message_content"]
      BY <1>2, <1>5, <2>1
    <3>2. \A r : RowShaped("message_content", r) => RowShaped("fts_message_content", r)
      BY DEF RowShaped
    <3> QED  BY <1>4, <1>6, <2>1, <3>1, <3>2
  <2>2. CASE t = "fts_file_operations"
    <3>1. db'[t] = db["file_operations"]
      BY <1>2, <1>5, <2>2
    <3>2. \A r : RowShaped("file_operations", r) => RowShaped("fts_file_operations", r)
      BY DEF RowShaped
    <3> QED  BY <1>4, <1>6, <2>2, <3>1, <3>2
  <2>3. CASE t = "fts_attachment_text_content"
    <3> DEFINE ts == db["attachments"]
               all == AttachmentRows(ts)
    <3>1. db'[t] = all
      BY <1>2, <1>5, <2>3
    <3>2. IsList(ts) /\ \A i \in 1 .. Len(ts) : RowShaped("attachments", ts[i])
      BY <1>4, <1>6
    <3> HIDE DEF ts
    <3>3. /\ IsList(all)
          /\ \A x : x \in ToSet(all) <=>
              \E i \in 1 .. Len(ts) : \E text \in ToSet(AttachmentTexts(ts[i])) :
                 x = AttachmentRow(ts[i], text)
      BY <3>2, AttachmentRowsIs
    <3> HIDE DEF all
    <3>4. ASSUME NEW i \in 1 .. Len(all)
          PROVE  RowShaped("fts_attachment_text_content", all[i])
      <4>1. all[i] \in ToSet(all)
        BY <3>3, ListIs
      <4>2. PICK j \in 1 .. Len(ts) : \E text \in ToSet(AttachmentTexts(ts[j])) :
                 all[i] = AttachmentRow(ts[j], text)
        BY <3>3, <4>1
      <4>3. PICK text \in ToSet(AttachmentTexts(ts[j])) : all[i] = AttachmentRow(ts[j], text)
        BY <4>2
      <4>4. IsList(text)
        BY <3>2, AttachmentTextsIs
      <4>5. /\ {"attachment_uuid", "text_content"} \subseteq DOMAIN all[i]
            /\ all[i].text_content = text
        BY <4>3 DEF AttachmentRow
      <4> QED  BY <4>4, <4>5 DEF RowShaped
    <3> QED  BY <2>3, <3>1, <3>3, <3>4
  <2>4. CASE t \notin {"fts_message_content", "fts_file_operations", "fts_attachment_text_content"}
    <3>1. db'[t] = db[t]
      BY <1>2, <1>5, <2>4
    <3> QED  BY <1>6, <3>1
  <2> QED  BY <2>1, <2>2, <2>3, <2>4
<1>8. Shaped'
  BY <1>2, <1>7 DEF Shaped
<1>9. db'["messages"] = db["messages"] /\ db'["message_content"] = db["message_content"]
  BY <1>2, <1>4, <1>5
<1>10. Kinship'
  BY <1>1, <1>9 DEF Kinship
<1> QED  BY <1>3, <1>8, <1>10 DEF IInv

LEMMA StepInv == IInv /\ [Next]_vars => IInv'
<1>1. IInv /\ UNCHANGED vars => IInv'
  BY DEF IInv, Shaped, Progress, Kinship, vars
<1> QED  BY <1>1, CommitInv, RebuildInv DEF Next

\* Whatever is stored and whenever the indexes are rebuilt, every table and
\* every index holds rows of its shape, no file is read past its batches, and
\* a stored block has its message (sync.rs: sync_file; fts.rs: the rebuilds).
THEOREM Invariance == Spec => []IInv
  BY InitInv, StepInv, PTL DEF Spec

-----------------------------------------------------------------------------
(***************************************************************************)
(* The pages of a conversation.                                            *)
(***************************************************************************)
LEMMA OrderedList ==
  ASSUME NEW s, IsList(s), NEW R
  PROVE  IsList(Arranged(s, R)) /\ Len(Arranged(s, R)) = Len(s)
<1> DEFINE a == Arranged(s, R)
<1>1. Len(s) \in Nat /\ DOMAIN s = 1 .. Len(s)
  BY ListIs
<1>2. a = [k \in 1 .. Len(s) |-> a[k]]
  BY <1>1 DEF Arranged
<1> HIDE DEF a
<1>3. IsList(a) /\ Len(a) = Len(s)
  BY <1>1, <1>2, ListFrom
<1> QED  BY <1>3 DEF a

LEMMA EachIs ==
  ASSUME NEW w, IsList(w), NEW h, h = [i \in DOMAIN w |-> h[i]]
  PROVE  IsList(h) /\ Len(h) = Len(w) /\ DOMAIN w = 1 .. Len(w) /\ Len(w) \in Nat
<1>1. DOMAIN w = 1 .. Len(w) /\ Len(w) \in Nat
  BY ListIs
<1>2. h = [i \in 1 .. Len(w) |-> h[i]]
  BY <1>1
<1> QED  BY <1>1, <1>2, ListFrom

\* The same becomes of the elements of v as of those of w.
OneByOne(w, g, v, h) == \A i \in DOMAIN v : \A j \in DOMAIN w : v[i] = w[j] => h[i] = g[j]

\* What becomes of a page of a list, element by element, is the page of what
\* becomes of the list.
LEMMA PageOfEach ==
  ASSUME NEW w, IsList(w), NEW k \in Nat, NEW o \in Nat,
         NEW v, v = Limited(w, k, o),
         NEW g, g = [i \in DOMAIN w |-> g[i]],
         NEW h, h = [i \in DOMAIN v |-> h[i]], OneByOne(w, g, v, h)
  PROVE  h = Limited(g, k, o) /\ IsList(g) /\ Len(g) = Len(w)
<1>1. /\ IsList(v)
      /\ Len(v) = IF Len(w) <= o THEN 0 ELSE IF o + k < Len(w) THEN k ELSE Len(w) - o
      /\ \A i \in 1 .. Len(v) : o + i \in 1 .. Len(w) /\ v[i] = w[o + i]
  <2> DEFINE x == Limited(w, k, o)
  <2>1. /\ IsList(x)
        /\ Len(x) = IF Len(w) <= o THEN 0 ELSE IF o + k < Len(w) THEN k ELSE Len(w) - o
        /\ \A i \in 1 .. Len(x) : o + i \in 1 .. Len(w) /\ x[i] = w[o + i]
    BY ONLY LimitedIs, IsList(w), k \in Nat, o \in Nat
  <2>2. v = x
    OBVIOUS
  <2> HIDE DEF x
  <2> QED  BY <2>1, <2>2
<1>2. IsList(g) /\ Len(g) = Len(w) /\ DOMAIN w = 1 .. Len(w)
  BY EachIs
<1>3. IsList(h) /\ Len(h) = Len(v) /\ DOMAIN v = 1 .. Len(v)
  BY <1>1, EachIs
<1> DEFINE l == Limited(g, k, o)
<1>4. /\ IsList(l)
      /\ Len(l) = IF Len(g) <= o THEN 0 ELSE IF o + k < Len(g) THEN k ELSE Len(g) - o
      /\ \A i \in 1 .. Len(l) : o + i \in 1 .. Len(g) /\ l[i] = g[o + i]
  <2> DEFINE x == Limited(g, k, o)
  <2>1. IsList(g)
    BY <1>2
  <2>2. /\ IsList(x)
        /\ Len(x) = IF Len(g) <= o THEN 0 ELSE IF o + k < Len(g) THEN k ELSE Len(g) - o
        /\ \A i \in 1 .. Len(x) : o + i \in 1 .. Len(g) /\ x[i] = g[o + i]
    BY ONLY LimitedIs, <2>1, k \in Nat, o \in Nat
  <2> QED  BY <2>2
<1> HIDE DEF l
<1>5. Len(h) = Len(l)
  BY <1>1, <1>2, <1>3, <1>4
<1>6. ASSUME NEW i \in 1 .. Len(h)
      PROVE  h[i] = l[i]
  <2>1. i \in DOMAIN v /\ o + i \in DOMAIN w /\ v[i] = w[o + i]
    BY <1>1, <1>2, <1>3
  <2>2. h[i] = g[o + i]
    BY <2>1 DEF OneByOne
  <2> QED  BY <1>4, <1>5, <2>2
<1>7. h = l
  BY <1>3, <1>4, <1>5, <1>6, SameLists
<1> QED  BY <1>2, <1>7 DEF l

\* The messages of a session in the order of their times.
InOrder(s) == Ascending(MessagesOf(db, s), "timestamp")

LEMMA InOrderIs ==
  ASSUME Shaped, NEW s
  PROVE  IsList(InOrder(s)) /\ Len(InOrder(s)) = MessageCount(db, s) /\ Len(InOrder(s)) \in Nat
<1>1. IsList(db.messages)
  BY DEF Shaped, Tables, EmptyDatabase
<1> DEFINE I == {i \in DOMAIN db.messages : db.messages[i]["session_id"] = s}
           m == Kept(db.messages, I)
           R == {p \in (DOMAIN m) \X (DOMAIN m) :
                    \/ p[1] < p[2] /\ ~TextBefore(m[p[2]]["timestamp"], m[p[1]]["timestamp"])
                    \/ p[1] > p[2] /\ TextBefore(m[p[1]]["timestamp"], m[p[2]]["timestamp"])}
<1>2. MessagesOf(db, s) = m
  BY DEF MessagesOf, Where, Select
<1>3. InOrder(s) = Arranged(m, R)
  BY <1>2 DEF InOrder, Ascending, Ordered
<1>4. IsList(m)
  <2> HIDE DEF I
  <2> QED  BY <1>1, KeptIs
<1> HIDE DEF m, R
<1>5. IsList(Arranged(m, R)) /\ Len(Arranged(m, R)) = Len(m) /\ Len(m) \in Nat
  BY <1>4, OrderedList, ListIs
<1> QED  BY <1>2, <1>3, <1>5 DEF MessageCount

\* What the conversation shows of the messages, and what an export has of them.
Talk(s)   == Each(InOrder(s), LAMBDA m : ConversationMessage(db, m, FALSE, FALSE))
Record(s) == Each(InOrder(s), LAMBDA m : ExportMessage(db, m))

LEMMA ConversationPage ==
  ASSUME Shaped, NEW s, NEW k \in Nat, NEW o \in Nat
  PROVE  /\ session_conversation(db, s, FALSE, FALSE, k, o) = Limited(Talk(s), k, o)
         /\ IsList(Talk(s)) /\ Len(Talk(s)) = MessageCount(db, s)
<1> DEFINE w == InOrder(s)
           v == Limited(w, k, o)
           h == session_conversation(db, s, FALSE, FALSE, k, o)
           g == Talk(s)
           F(m) == ConversationMessage(db, m, FALSE, FALSE)
<1>1. h = [i \in DOMAIN v |-> F(v[i])]
  BY DEF session_conversation, Each, InOrder
<1>2. g = [i \in DOMAIN w |-> F(w[i])]
  BY DEF Talk, Each
<1>3. IsList(w) /\ Len(w) = MessageCount(db, s)
  BY InOrderIs
<1>4. v = Limited(w, k, o)
  OBVIOUS
<1> HIDE DEF w, h, g, v, F
<1>5. g = [i \in DOMAIN w |-> g[i]] /\ h = [i \in DOMAIN v |-> h[i]]
  BY <1>1, <1>2
<1>6. OneByOne(w, g, v, h)
  BY <1>1, <1>2 DEF OneByOne
<1>7. h = Limited(g, k, o) /\ IsList(g) /\ Len(g) = Len(w)
  BY <1>3, <1>4, <1>5, <1>6, PageOfEach
<1> QED  BY <1>3, <1>7 DEF h, g

LEMMA ExportPage ==
  ASSUME Shaped, NEW s, NEW k \in Nat, NEW o \in Nat
  PROVE  /\ session_messages_for_export(db, s, k, o) = Limited(Record(s), k, o)
         /\ IsList(Record(s)) /\ Len(Record(s)) = MessageCount(db, s)
<1> DEFINE w == InOrder(s)
           v == Limited(w, k, o)
           h == session_messages_for_export(db, s, k, o)
           g == Record(s)
           F(m) == ExportMessage(db, m)
<1>1. h = [i \in DOMAIN v |-> F(v[i])]
  BY DEF session_messages_for_export, Each, InOrder
<1>2. g = [i \in DOMAIN w |-> F(w[i])]
  BY DEF Record, Each
<1>3. IsList(w) /\ Len(w) = MessageCount(db, s)
  BY InOrderIs
<1>4. v = Limited(w, k, o)
  OBVIOUS
<1> HIDE DEF w, h, g, v, F
<1>5. g = [i \in DOMAIN w |-> g[i]] /\ h = [i \in DOMAIN v |-> h[i]]
  BY <1>1, <1>2
<1>6. OneByOne(w, g, v, h)
  BY <1>1, <1>2 DEF OneByOne
<1>7. h = Limited(g, k, o) /\ IsList(g) /\ Len(g) = Len(w)
  BY <1>3, <1>4, <1>5, <1>6, PageOfEach
<1> QED  BY <1>3, <1>7 DEF h, g

LEMMA WholeConversation ==
  ASSUME Shaped, NEW s
  PROVE  sessions_conversation(db, s, [limit |-> MessageCount(db, s)]).body = Talk(s)
<1> DEFINE n == MessageCount(db, s)
           a == [limit |-> n]
<1>1. n \in Nat
  BY InOrderIs
<1>2. LimitOf(a, "conversation") = n /\ OffsetOf(a) = 0
  BY DEF LimitOf, OffsetOf
<1>3. Given(a, "include_thinking") = FALSE /\ Given(a, "include_tool_io") = FALSE
  BY DEF Given
<1>4. sessions_conversation(db, s, a).body = session_conversation(db, s, FALSE, FALSE, n, 0)
  BY <1>2, <1>3 DEF sessions_conversation, Json
<1> HIDE DEF n
<1>5. /\ session_conversation(db, s, FALSE, FALSE, n, 0) = Limited(Talk(s), n, 0)
      /\ IsList(Talk(s)) /\ Len(Talk(s)) = n
  BY <1>1, ConversationPage DEF n
<1>6. Limited(Talk(s), n, 0) = Talk(s)
  BY <1>1, <1>5, LimitedWhole
<1> QED  BY <1>4, <1>5, <1>6 DEF n

LEMMA ConversationTile ==
  ASSUME Shaped, NEW s, NEW k \in Nat \ {0}
  PROVE  ConversationTiles(s, k)
<1> DEFINE n == MessageCount(db, s)
           g == Talk(s)
<1>1. n \in Nat
  BY InOrderIs
<1>2. IsList(g) /\ Len(g) = n
  BY ConversationPage
<1> HIDE DEF n, g
<1>3. \A j, o \in Nat : sessions_conversation(db, s, [limit |-> j, offset |-> o]).body = Limited(g, j, o)
  <2> TAKE j, o \in Nat
  <2> DEFINE a == [limit |-> j, offset |-> o]
  <2>1. LimitOf(a, "conversation") = j /\ OffsetOf(a) = o
    BY DEF LimitOf, OffsetOf
  <2>2. Given(a, "include_thinking") = FALSE /\ Given(a, "include_tool_io") = FALSE
    BY DEF Given
  <2>3. sessions_conversation(db, s, a).body = session_conversation(db, s, FALSE, FALSE, j, o)
    BY <2>1, <2>2 DEF sessions_conversation, Json
  <2> QED  BY <2>3, ConversationPage DEF g
<1>4. sessions_conversation(db, s, [limit |-> n]).body = g
  BY WholeConversation DEF n, g
<1>5. Pages(LAMBDA p : sessions_conversation(db, s, [limit |-> k, offset |-> p * k]).body, n)
        = FlattenSeq([p \in 1 .. n |-> Limited(g, k, (p - 1) * k)])
  <2>1. \A p \in 1 .. n : (p - 1) * k \in Nat
    BY <1>1
  <2>2. \A p \in 1 .. n : sessions_conversation(db, s, [limit |-> k, offset |-> (p - 1) * k]).body
                            = Limited(g, k, (p - 1) * k)
    BY <1>3, <2>1
  <2> QED  BY <2>2 DEF Pages
<1>6. FlattenSeq([p \in 1 .. n |-> Limited(g, k, (p - 1) * k)]) = g
  BY <1>1, <1>2, PagesOf
<1> QED  BY <1>4, <1>5, <1>6 DEF ConversationTiles, n

-----------------------------------------------------------------------------
(***************************************************************************)
(* The batches of an export.                                               *)
(***************************************************************************)
Rest(w, o) == SubSeq(w, o + 1, Len(w))

\* What comes after o is the batch there and what comes after that.
Batch(b, w, k, o) ==
  /\ IsList(b) /\ Len(b) \in 0 .. k
  /\ b = <<>> => Rest(w, o) = <<>>
  /\ b # <<>> /\ Len(b) < k => Rest(w, o) = b
  /\ b # <<>> /\ ~(Len(b) < k) =>
        Len(b) = k /\ o + k <= Len(w) /\ Rest(w, o) = b \o Rest(w, o + k)

LEMMA RestIs ==
  ASSUME NEW w, IsList(w), NEW k \in Nat \ {0}, NEW o \in Nat,
         NEW b, b = Limited(w, k, o)
  PROVE  Batch(b, w, k, o)
<1>1. Len(w) \in Nat
  BY ListIs
<1>2. IsList(b) /\ Len(b) = IF Len(w) <= o THEN 0 ELSE IF o + k < Len(w) THEN k ELSE Len(w) - o
  BY LimitedIs
<1>3. Len(b) \in 0 .. k
  BY <1>1, <1>2
<1>4. b = <<>> => Rest(w, o) = <<>>
  <2> HAVE b = <<>>
  <2>1. Len(w) <= o
    BY <1>1, <1>2, EmptyIs
  <2> QED  BY <1>1, <2>1, Part DEF Rest
<1>5. ASSUME b # <<>>, Len(b) < k
      PROVE  Rest(w, o) = b
  <2>1. (IF o + k < Len(w) THEN o + k ELSE Len(w)) = Len(w)
    BY <1>1, <1>2, <1>5, EmptyIs
  <2> QED  BY <2>1 DEF Rest, Limited
<1>6. ASSUME b # <<>>, ~(Len(b) < k)
      PROVE  Len(b) = k /\ o + k <= Len(w) /\ Rest(w, o) = b \o Rest(w, o + k)
  <2>1. Len(b) = k /\ o + k <= Len(w) /\ o <= o + k
    BY <1>1, <1>2, <1>6, EmptyIs
  <2>2. (IF o + k < Len(w) THEN o + k ELSE Len(w)) = o + k
    BY <1>1, <2>1
  <2>3. b = SubSeq(w, o + 1, o + k)
    BY <2>2 DEF Limited
  <2> DEFINE c == o + k
             n == Len(w)
  <2>4. c \in Nat /\ n \in Nat /\ o <= c /\ c <= n
    BY <1>1, <2>1
  <2>5. Rest(w, c) = SubSeq(w, c + 1, n) /\ Rest(w, o) = SubSeq(w, o + 1, n) /\ b = SubSeq(w, o + 1, c)
    BY <2>3 DEF Rest
  <2>6. n <= Len(w)
    BY <1>1
  <2> HIDE DEF c, n
  <2>7. SubSeq(w, o + 1, c) \o SubSeq(w, c + 1, n) = SubSeq(w, o + 1, n)
    BY <2>4, <2>6, PartsJoin
  <2> QED  BY <2>1, <2>5, <2>7 DEF c
<1> QED  BY <1>2, <1>3, <1>4, <1>5, <1>6 DEF Batch

IsFrom(f, w, k, N) ==
  f = [o \in 0 .. N |->
         IF Limited(w, k, o) = <<>> THEN <<>>
         ELSE Limited(w, k, o) \o (IF Len(Limited(w, k, o)) < k THEN <<>>
                                   ELSE f[o + Len(Limited(w, k, o))])]

LEMMA FromExists ==
  ASSUME NEW w, IsList(w), NEW k \in Nat \ {0}, NEW N \in Nat, Len(w) <= N
  PROVE  \E f : IsFrom(f, w, k, N)
<1> DEFINE f == [o \in 0 .. N |-> Rest(w, o)]
<1>1. Len(w) \in Nat
  BY ListIs
<1>2. ASSUME NEW o \in 0 .. N
      PROVE  f[o] = IF Limited(w, k, o) = <<>> THEN <<>>
                    ELSE Limited(w, k, o) \o (IF Len(Limited(w, k, o)) < k THEN <<>>
                                              ELSE f[o + Len(Limited(w, k, o))])
  <2> DEFINE b == Limited(w, k, o)
  <2>1. b = Limited(w, k, o) /\ o \in Nat
    OBVIOUS
  <2> HIDE DEF b
  <2>2. Batch(b, w, k, o)
    BY <2>1, RestIs
  <2>3. b # <<>> /\ ~(Len(b) < k) => f[o + Len(b)] = Rest(w, o + k)
    <3> HAVE b # <<>> /\ ~(Len(b) < k)
    <3>1. Len(b) = k /\ o + k \in 0 .. N
      BY <1>1, <2>2 DEF Batch
    <3> QED  BY <3>1
  <2>4. b \o <<>> = b
    BY <2>2, NothingJoined DEF Batch
  <2>5. f[o] = Rest(w, o)
    OBVIOUS
  <2> HIDE DEF f
  <2>6. f[o] = IF b = <<>> THEN <<>> ELSE b \o (IF Len(b) < k THEN <<>> ELSE f[o + Len(b)])
    BY <2>2, <2>3, <2>4, <2>5 DEF Batch
  <2> QED  BY <2>1, <2>6
<1>3. f = [o \in 0 .. N |-> f[o]]
  OBVIOUS
<1> HIDE DEF f
<1>4. IsFrom(f, w, k, N)
  BY <1>2, <1>3 DEF IsFrom
<1> QED  BY <1>4

LEMMA FromIs ==
  ASSUME NEW w, IsList(w), NEW k \in Nat \ {0}, NEW N \in Nat, Len(w) <= N,
         NEW f, IsFrom(f, w, k, N)
  PROVE  f[0] = w
<1>1. Len(w) \in Nat
  BY ListIs
<1>2. \A o \in 0 .. N : f[o] = IF Limited(w, k, o) = <<>> THEN <<>>
                    ELSE Limited(w, k, o) \o (IF Len(Limited(w, k, o)) < k THEN <<>>
                                              ELSE f[o + Len(Limited(w, k, o))])
  BY DEF IsFrom
<1> DEFINE T == {m \in Nat : \A o \in 0 .. N : Len(w) <= o + m => f[o] = Rest(w, o)}
<1>3. ASSUME NEW m \in Nat, \A o \in 0 .. N : Len(w) < o + m => f[o] = Rest(w, o)
      PROVE  m \in T
  <2> SUFFICES ASSUME NEW o \in 0 .. N, Len(w) <= o + m
               PROVE  f[o] = Rest(w, o)
    OBVIOUS
  <2> DEFINE b == Limited(w, k, o)
  <2>1. b = Limited(w, k, o) /\ o \in Nat
    OBVIOUS
  <2>2. f[o] = IF b = <<>> THEN <<>> ELSE b \o (IF Len(b) < k THEN <<>> ELSE f[o + Len(b)])
    BY <1>2
  <2> HIDE DEF b
  <2>3. Batch(b, w, k, o)
    BY <2>1, RestIs
  <2>4. b \o <<>> = b
    BY <2>3, NothingJoined DEF Batch
  <2>5. ASSUME b # <<>>, ~(Len(b) < k)
        PROVE  f[o] = Rest(w, o)
    <3>1. o + k \in 0 .. N /\ Len(w) < (o + k) + m
      BY <1>1, <2>3, <2>5 DEF Batch
    <3>2. f[o + k] = Rest(w, o + k)
      BY <1>3, <3>1
    <3> QED  BY <2>2, <2>3, <2>5, <3>2 DEF Batch
  <2> QED  BY <2>2, <2>3, <2>4, <2>5 DEF Batch
<1>4. 0 \in T
  <2>1. \A o \in 0 .. N : Len(w) < o + 0 => f[o] = Rest(w, o)
    <3> TAKE o \in 0 .. N
    <3> HAVE Len(w) < o + 0
    <3>1. Limited(w, k, o) = <<>> /\ Rest(w, o) = <<>>
      <4> DEFINE b == Limited(w, k, o)
      <4>1. IsList(b) /\ Len(b) = 0
        BY <1>1, LimitedIs
      <4>2. b = <<>> /\ b = Limited(w, k, o)
        BY <4>1, EmptyIs
      <4> HIDE DEF b
      <4>3. Batch(b, w, k, o)
        BY <4>2, RestIs
      <4> QED  BY <4>2, <4>3 DEF Batch
    <3> QED  BY <1>2, <3>1
  <2> HIDE DEF T
  <2> QED  BY <1>3, <2>1
<1>5. ASSUME NEW m \in Nat, m \in T
      PROVE  m + 1 \in T
  <2>1. \A o \in 0 .. N : Len(w) < o + (m + 1) => f[o] = Rest(w, o)
    BY <1>1, <1>5
  <2> HIDE DEF T
  <2> QED  BY <1>3, <2>1
<1> HIDE DEF T
<1>6. \A m \in Nat : m \in T
  BY <1>4, <1>5, Induct
<1>7. f[0] = Rest(w, 0)
  BY <1>1, <1>6 DEF T
<1> QED  BY <1>7, WholePart DEF Rest

LEMMA LoadedIs ==
  ASSUME Shaped, NEW s
  PROVE  load_all_messages(db, s) = Record(s)
<1> DEFINE w == Record(s)
           k == BATCH_SIZE
           N == Len(db.messages) + 1
           f == CHOOSE g : IsFrom(g, w, k, N)
<1>1. k \in Nat \ {0}
  BY BatchAssumption
<1>2. N \in Nat /\ IsList(w) /\ Len(w) <= N
  <2>1. IsList(db.messages)
    BY DEF Shaped, Tables, EmptyDatabase
  <2> DEFINE I == {i \in DOMAIN db.messages : db.messages[i]["session_id"] = s}
  <2>2. MessagesOf(db, s) = Kept(db.messages, I)
    BY DEF MessagesOf, Where, Select
  <2> HIDE DEF I
  <2>3. Len(db.messages) \in Nat /\ MessageCount(db, s) \in 0 .. Len(db.messages)
    BY <2>1, <2>2, KeptIs, ListIs DEF MessageCount
  <2>4. IsList(w) /\ Len(w) = MessageCount(db, s)
    BY ExportPage
  <2> HIDE DEF w
  <2> QED  BY <2>3, <2>4
<1>3. \A o \in Nat : session_messages_for_export(db, s, k, o) = Limited(w, k, o)
  BY <1>1, ExportPage
<1> DEFINE A(g, o) == LET b == session_messages_for_export(db, s, k, o)
                      IN  IF b = <<>> THEN <<>> ELSE b \o (IF Len(b) < k THEN <<>> ELSE g[o + Len(b)])
<1>4. load_all_messages(db, s) = (CHOOSE g : g = [o \in 0 .. N |-> A(g, o)])[0]
  BY Zenon DEF load_all_messages
<1>5. ASSUME NEW g
      PROVE  IsFrom(g, w, k, N) <=> g = [o \in 0 .. N |-> A(g, o)]
  <2> HIDE DEF w, k, N
  <2>1. \A o \in 0 .. N : A(g, o) = IF Limited(w, k, o) = <<>> THEN <<>>
                     ELSE Limited(w, k, o) \o (IF Len(Limited(w, k, o)) < k THEN <<>>
                                               ELSE g[o + Len(Limited(w, k, o))])
    BY <1>3
  <2> HIDE DEF A
  <2> QED  BY <2>1 DEF IsFrom
<1>6. load_all_messages(db, s) = f[0]
  <2> HIDE DEF A, w, k, N
  <2> QED  BY <1>4, <1>5, Zenon
<1> HIDE DEF w, k, N
<1>7. IsFrom(f, w, k, N)
  BY <1>1, <1>2, FromExists
<1> HIDE DEF f
<1>8. f[0] = w
  BY <1>1, <1>2, <1>7, FromIs
<1> QED  BY <1>6, <1>8 DEF w

\* Both say of a message what message it is.
LEMMA SameMessage ==
  ASSUME NEW m
  PROVE  /\ ConversationMessage(db, m, FALSE, FALSE).uuid = m.uuid
         /\ ExportMessage(db, m).uuid = m.uuid
<1> DEFINE C == {"uuid", "session_id", "type", "timestamp", "model", "parent_uuid", "is_sidechain"}
           a == Columns(m, C)
           b == Columns(m, MessageResult)
<1>1. "uuid" \in DOMAIN a /\ a["uuid"] = m.uuid
  BY DEF Columns
<1>2. "uuid" \in DOMAIN b /\ b["uuid"] = m.uuid
  BY DEF Columns, MessageResult
<1>3. \E more : ConversationMessage(db, m, FALSE, FALSE) = With(a, more)
  BY Zenon DEF ConversationMessage
<1>4. \E more : ExportMessage(db, m) = With(b, more)
  BY Zenon DEF ExportMessage
<1> HIDE DEF a, b
<1>5. ConversationMessage(db, m, FALSE, FALSE)["uuid"] = m.uuid
  <2>1. PICK more : ConversationMessage(db, m, FALSE, FALSE) = With(a, more)
    BY <1>3
  <2> QED  BY <1>1, <2>1, WithIs
<1>6. ExportMessage(db, m)["uuid"] = m.uuid
  <2>1. PICK more : ExportMessage(db, m) = With(b, more)
    BY <1>4
  <2> QED  BY <1>2, <2>1, WithIs
<1> QED  BY <1>5, <1>6

LEMMA ExportWhole ==
  ASSUME Shaped, NEW s
  PROVE  ExportIsWhole(s)
<1> DEFINE w    == InOrder(s)
           c(m) == ConversationMessage(db, m, FALSE, FALSE)
           e(m) == ExportMessage(db, m)
<1>1. /\ DOMAIN w = 1 .. Len(w) /\ Len(w) = MessageCount(db, s) /\ Len(w) \in Nat
  <2>1. IsList(w) /\ Len(w) = MessageCount(db, s)
    BY InOrderIs
  <2> HIDE DEF w
  <2> QED  BY <2>1, ListIs
<1>2. Talk(s) = [i \in DOMAIN w |-> c(w[i])] /\ Record(s) = [i \in DOMAIN w |-> e(w[i])]
  BY DEF Talk, Record, Each
<1>3. \A m : c(m).uuid = m.uuid /\ e(m).uuid = m.uuid
  BY SameMessage
<1> HIDE DEF w, c, e
<1>4. Each(Record(s), LAMBDA m : m.uuid) = Each(Talk(s), LAMBDA m : m.uuid)
  <2>1. \A i \in DOMAIN w : Record(s)[i].uuid = Talk(s)[i].uuid
    BY <1>2, <1>3
  <2>2. DOMAIN Record(s) = DOMAIN w /\ DOMAIN Talk(s) = DOMAIN w
    BY <1>2
  <2>3. [i \in DOMAIN Record(s) |-> Record(s)[i].uuid] = [i \in DOMAIN Talk(s) |-> Talk(s)[i].uuid]
    BY <2>1, <2>2
  <2> QED  BY <2>3 DEF Each
<1>5. Len(export_csv(db, s)[1]) = MessageCount(db, s) + 1
  <2> DEFINE line(m) == <<m.uuid, m.session_id, m.type, m.timestamp, Coalesce(m.model, <<>>),
                first_text_content(m.content_blocks, PreviewLen),
                IF m.token_usage = None THEN None ELSE m.token_usage[1].input_tokens,
                IF m.token_usage = None THEN None ELSE m.token_usage[1].output_tokens>>
             head == <<"header">>
             lines == [i \in DOMAIN Record(s) |-> line(Record(s)[i])]
  <2>1. export_csv(db, s) = <<<<head>> \o lines>>
    <3> DEFINE all == load_all_messages(db, s)
    <3>1. export_csv(db, s) = <<<<head>> \o [i \in DOMAIN all |-> line(all[i])]>>
      BY DEF export_csv, Some, Each
    <3>2. all = Record(s)
      BY LoadedIs
    <3> HIDE DEF all, line, head
    <3> QED  BY <3>1, <3>2
  <2>2. lines = [i \in 1 .. MessageCount(db, s) |-> lines[i]] /\ MessageCount(db, s) \in Nat
    BY <1>1, <1>2
  <2> HIDE DEF lines, head
  <2>3. IsList(lines) /\ Len(lines) = MessageCount(db, s)
    BY <2>2, ListFrom
  <2>4. IsList(<<head>>) /\ Len(<<head>>) = 1
    BY OneElement
  <2>5. Len(<<head>> \o lines) = 1 + MessageCount(db, s)
    BY <2>3, <2>4, Joined
  <2> QED  BY <2>1, <2>2, <2>5
<1> QED  BY <1>4, <1>5, LoadedIs, WholeConversation DEF ExportIsWhole

-----------------------------------------------------------------------------
(***************************************************************************)
(* The pages of a search.                                                  *)
(***************************************************************************)
Ranked(s) == IsList(s) /\ \A i \in 1 .. Len(s) : s[i]["rank"] \in Nat

\* The better of two hits; of equal ones, the earlier.
Better(s, i, j) == \/ i < j /\ ~(s[j]["rank"] > s[i]["rank"])
                   \/ i > j /\ s[i]["rank"] > s[j]["rank"]

ByRank(s) == {p \in (DOMAIN s) \X (DOMAIN s) : Better(s, p[1], p[2])}

LEMMA ByRankIs ==
  ASSUME NEW s, Ranked(s)
  PROVE  /\ Len(s) \in Nat
         /\ \A i, j \in 1 .. Len(s) : <<i, j>> \in ByRank(s) <=> Better(s, i, j)
         /\ StrictOrder(ByRank(s), Len(s))
         /\ MostFirst(s, "rank") = Arranged(s, ByRank(s))
<1>1. Len(s) \in Nat /\ DOMAIN s = 1 .. Len(s)
  BY ListIs DEF Ranked
<1>2. \A i, j \in 1 .. Len(s) : <<i, j>> \in ByRank(s) <=> Better(s, i, j)
  BY <1>1 DEF ByRank
<1>3. StrictOrder(ByRank(s), Len(s))
  <2>1. \A i \in 1 .. Len(s) : ~Better(s, i, i)
    BY DEF Better
  <2>2. \A i, j \in 1 .. Len(s) : i # j => Better(s, i, j) \/ Better(s, j, i)
    BY DEF Better, Ranked
  <2>3. \A i, j, k \in 1 .. Len(s) : Better(s, i, j) /\ Better(s, j, k) => Better(s, i, k)
    BY DEF Better, Ranked
  <2> QED  BY <1>2, <2>1, <2>2, <2>3 DEF StrictOrder
<1>4. MostFirst(s, "rank") = Arranged(s, ByRank(s))
  BY DEF MostFirst, Ordered, ByRank, Better
<1> QED  BY <1>1, <1>2, <1>3, <1>4

Falling(s) == \A i, j \in 1 .. Len(s) : i < j => ~(s[j]["rank"] > s[i]["rank"])

LEMMA MostFirstIs ==
  ASSUME NEW s, Ranked(s)
  PROVE  /\ Ranked(MostFirst(s, "rank")) /\ Falling(MostFirst(s, "rank"))
         /\ Len(MostFirst(s, "rank")) = Len(s)
         /\ ToSet(MostFirst(s, "rank")) = ToSet(s)
<1> DEFINE R == ByRank(s)
           a == Arranged(s, R)
<1>1. /\ Len(s) \in Nat /\ StrictOrder(R, Len(s)) /\ MostFirst(s, "rank") = a
      /\ \A i, j \in 1 .. Len(s) : <<i, j>> \in R <=> Better(s, i, j)
  BY ByRankIs
<1>2. IsList(s)
  BY DEF Ranked
<1> HIDE DEF R
<1>3. /\ IsList(a) /\ Len(a) = Len(s)
      /\ \E at : Sorting(at, s, R)
  BY <1>1, <1>2, ArrangedIs
<1>4. PICK at : Sorting(at, s, R)
  BY <1>3
<1>5. \A k \in 1 .. Len(s) : at[k] \in 1 .. Len(s) /\ a[k] = s[at[k]]
  BY <1>4 DEF Sorting
<1> HIDE DEF a
<1>6. Ranked(a)
  BY <1>3, <1>5 DEF Ranked
<1>7. Falling(a)
  <2> SUFFICES ASSUME NEW i \in 1 .. Len(s), NEW j \in 1 .. Len(s), i < j
               PROVE  ~(a[j]["rank"] > a[i]["rank"])
    BY <1>3 DEF Falling
  <2>1. <<at[i], at[j]>> \in R
    BY <1>4 DEF Sorting
  <2>2. Better(s, at[i], at[j])
    BY <1>1, <1>5, <2>1
  <2>3. s[at[i]]["rank"] \in Nat /\ s[at[j]]["rank"] \in Nat
    BY <1>5 DEF Ranked
  <2> QED  BY <1>5, <2>2, <2>3 DEF Better
<1>8. ToSet(a) = ToSet(s)
  <2>1. ASSUME NEW x
        PROVE  x \in ToSet(a) <=> x \in ToSet(s)
    <3>1. x \in ToSet(a) => x \in ToSet(s)
      BY <1>2, <1>3, <1>5, ListIs
    <3>2. ASSUME x \in ToSet(s)
          PROVE  x \in ToSet(a)
      <4>1. PICK i \in 1 .. Len(s) : x = s[i]
        BY <1>2, <3>2, ListIs
      <4>2. PICK k \in 1 .. Len(s) : at[k] = i
        BY <1>4 DEF Sorting
      <4>3. x = a[k]
        BY <1>5, <4>1, <4>2
      <4> QED  BY <1>3, <4>3, ListIs
    <3> QED  BY <3>1, <3>2
  <2> QED  BY <2>1
<1> QED  BY <1>1, <1>3, <1>6, <1>7, <1>8

\* u has the first m elements of w, if w has that many.
SameTop(u, w, m) == \A p \in 1 .. m : p <= Len(w) => p <= Len(u) /\ u[p] = w[p]

\* The first m of two lists of hits, put together, are had from the first m of
\* each of them.
LEMMA TopOfMerge ==
  ASSUME NEW a, NEW b, Ranked(a), Ranked(b), Falling(a), Falling(b), NEW m \in Nat,
         NEW x, x = Limited(a, m, 0), NEW y, y = Limited(b, m, 0)
  PROVE  /\ Ranked(a \o b) /\ Ranked(x \o y)
         /\ Len(x \o y) <= Len(a \o b)
         /\ SameTop(MostFirst(x \o y, "rank"), MostFirst(a \o b, "rank"), m)
<1> DEFINE A == Len(a)
           B == Len(b)
           X == Len(x)
           Y == Len(y)
           s == a \o b
           t == x \o y
           e == [i \in 1 .. X + Y |-> IF i <= X THEN i ELSE i - X + A]
<1>1. IsList(a) /\ IsList(b) /\ A \in Nat /\ B \in Nat
  BY ListIs DEF Ranked
<1>2. /\ IsList(x) /\ X = (IF m < A THEN m ELSE A)
      /\ \A i \in 1 .. X : i \in 1 .. A /\ x[i] = a[i]
  <2> DEFINE v == Limited(a, m, 0)
  <2>1. /\ IsList(v) /\ Len(v) = IF Len(a) <= 0 THEN 0 ELSE IF 0 + m < Len(a) THEN m ELSE Len(a) - 0
        /\ \A i \in 1 .. Len(v) : 0 + i \in 1 .. Len(a) /\ v[i] = a[0 + i]
    BY ONLY LimitedIs, <1>1, m \in Nat
  <2>2. x = v
    OBVIOUS
  <2> HIDE DEF v
  <2> QED  BY <1>1, <2>1, <2>2
<1>3. /\ IsList(y) /\ Y = (IF m < B THEN m ELSE B)
      /\ \A i \in 1 .. Y : i \in 1 .. B /\ y[i] = b[i]
  <2> DEFINE v == Limited(b, m, 0)
  <2>1. /\ IsList(v) /\ Len(v) = IF Len(b) <= 0 THEN 0 ELSE IF 0 + m < Len(b) THEN m ELSE Len(b) - 0
        /\ \A i \in 1 .. Len(v) : 0 + i \in 1 .. Len(b) /\ v[i] = b[0 + i]
    BY ONLY LimitedIs, <1>1, m \in Nat
  <2>2. y = v
    OBVIOUS
  <2> HIDE DEF v
  <2> QED  BY <1>1, <2>1, <2>2
<1>4. /\ IsList(s) /\ Len(s) = A + B
      /\ \A i \in 1 .. A : s[i] = a[i]
      /\ \A i \in 1 .. B : s[A + i] = b[i]
      /\ \A i \in 1 .. A + B : i <= A \/ \E j \in 1 .. B : i = A + j
  <2> HIDE DEF A, B
  <2>1. IsList(s) /\ Len(s) = Len(a) + Len(b)
    BY <1>1, Joined
  <2>2. \A i \in 1 .. Len(a) : s[i] = a[i]
    BY <1>1, Joined
  <2>3. \A i \in 1 .. Len(b) : s[Len(a) + i] = b[i]
    BY <1>1, Joined
  <2>4. \A i \in 1 .. Len(a) + Len(b) : i <= Len(a) \/ \E j \in 1 .. Len(b) : i = Len(a) + j
    <3> TAKE i \in 1 .. Len(a) + Len(b)
    <3>1. ~(i <= Len(a)) => i - Len(a) \in 1 .. Len(b) /\ i = Len(a) + (i - Len(a))
      BY <1>1 DEF A, B
    <3> QED  BY <3>1
  <2> HIDE DEF s
  <2> QED  BY <2>1, <2>2, <2>3, <2>4 DEF A, B
<1>5. /\ IsList(t) /\ Len(t) = X + Y
      /\ \A i \in 1 .. X : t[i] = x[i]
      /\ \A i \in 1 .. Y : t[X + i] = y[i]
      /\ \A i \in 1 .. X + Y : i <= X \/ \E j \in 1 .. Y : i = X + j
  <2> HIDE DEF X, Y
  <2>1. IsList(t) /\ Len(t) = Len(x) + Len(y)
    BY <1>2, <1>3, Joined
  <2>2. \A i \in 1 .. Len(x) : t[i] = x[i]
    BY <1>2, <1>3, Joined
  <2>3. \A i \in 1 .. Len(y) : t[Len(x) + i] = y[i]
    BY <1>2, <1>3, Joined
  <2>4. \A i \in 1 .. Len(x) + Len(y) : i <= Len(x) \/ \E j \in 1 .. Len(y) : i = Len(x) + j
    <3> TAKE i \in 1 .. Len(x) + Len(y)
    <3>1. Len(x) \in Nat /\ Len(y) \in Nat
      BY <1>2, <1>3, ListIs
    <3>2. ~(i <= Len(x)) => i - Len(x) \in 1 .. Len(y) /\ i = Len(x) + (i - Len(x))
      BY <3>1
    <3> QED  BY <3>2
  <2> HIDE DEF t
  <2> QED  BY <2>1, <2>2, <2>3, <2>4 DEF X, Y
<1> HIDE DEF s, t
<1>6. X \in Nat /\ Y \in Nat /\ X <= A /\ Y <= B
  BY <1>1, <1>2, <1>3
<1>7. \A i \in 1 .. A : a[i]["rank"] \in Nat
  BY DEF Ranked
<1>8. \A i \in 1 .. B : b[i]["rank"] \in Nat
  BY DEF Ranked
<1>9. \A i, j \in 1 .. A : i < j => ~(a[j]["rank"] > a[i]["rank"])
  BY DEF Falling
<1>10. \A i, j \in 1 .. B : i < j => ~(b[j]["rank"] > b[i]["rank"])
  BY DEF Falling
<1> HIDE DEF A, B, X, Y
<1>11. Ranked(s)
  <2>1. ASSUME NEW i \in 1 .. A + B
        PROVE  s[i]["rank"] \in Nat
    <3>1. CASE i <= A
      <4>1. i \in 1 .. A
        BY <1>1, <3>1
      <4> QED  BY <1>4, <1>7, <4>1
    <3>2. CASE \E j \in 1 .. B : i = A + j
      BY <1>4, <1>8, <3>2
    <3> QED  BY <1>4, <3>1, <3>2
  <2> QED  BY <1>4, <2>1 DEF Ranked
<1>12. /\ \A i \in 1 .. X : e[i] = i
       /\ \A i \in 1 .. Y : e[X + i] = A + i
       /\ \A i, j \in 1 .. X + Y : i < j <=> e[i] < e[j]
       /\ e \in [1 .. X + Y -> 1 .. A + B]
  BY <1>1, <1>6
<1> HIDE DEF e
<1>13. ASSUME NEW i \in 1 .. X + Y
       PROVE  t[i] = s[e[i]]
  <2>1. CASE i <= X
    <3>1. i \in 1 .. X
      BY <1>6, <2>1
    <3> QED  BY <1>2, <1>4, <1>5, <1>12, <3>1
  <2>2. ASSUME NEW j \in 1 .. Y, i = X + j
        PROVE  t[i] = s[e[i]]
    <3>1. t[i] = y[j] /\ e[i] = A + j /\ j \in 1 .. B /\ y[j] = b[j]
      BY <1>3, <1>5, <1>12, <2>2
    <3> QED  BY <1>4, <3>1
  <2> QED  BY <1>5, <2>1, <2>2
<1>14. Ranked(t)
  <2>1. \A i \in 1 .. X + Y : e[i] \in 1 .. A + B
    BY <1>12
  <2> QED  BY <1>4, <1>5, <1>11, <1>13, <2>1 DEF Ranked
<1> DEFINE R == ByRank(s)
           Q == ByRank(t)
<1>15. /\ StrictOrder(R, A + B) /\ MostFirst(s, "rank") = Arranged(s, R)
       /\ \A i, j \in 1 .. A + B : <<i, j>> \in R <=> Better(s, i, j)
  BY <1>4, <1>11, ByRankIs
<1>16. /\ StrictOrder(Q, X + Y) /\ MostFirst(t, "rank") = Arranged(t, Q)
       /\ \A i, j \in 1 .. X + Y : <<i, j>> \in Q <=> Better(t, i, j)
  BY <1>5, <1>14, ByRankIs
<1> HIDE DEF R, Q
<1>17. \A i, j \in 1 .. X + Y : e[i] = e[j] => i = j
  <2> TAKE i, j \in 1 .. X + Y
  <2>1. (i < j <=> e[i] < e[j]) /\ (j < i <=> e[j] < e[i]) /\ e[i] \in Nat /\ e[j] \in Nat
    BY <1>12
  <2> QED  BY <2>1, <1>6
<1>18. \A i, j \in 1 .. X + Y : <<i, j>> \in Q <=> <<e[i], e[j]>> \in R
  <2> TAKE i, j \in 1 .. X + Y
  <2>1. (i < j <=> e[i] < e[j]) /\ (j < i <=> e[j] < e[i]) /\ e[i] \in 1 .. A + B /\ e[j] \in 1 .. A + B
    BY <1>12
  <2>2. t[i] = s[e[i]] /\ t[j] = s[e[j]]
    BY <1>13
  <2>3. (i > j <=> e[i] > e[j])
    BY <1>1, <1>6, <2>1
  <2>4. Better(t, i, j) <=> Better(s, e[i], e[j])
    BY <2>1, <2>2, <2>3, Zenon DEF Better
  <2> QED  BY <1>15, <1>16, <2>1, <2>4
<1>19. ASSUME NEW j \in 1 .. A + B
       PROVE  \/ \E i \in 1 .. X + Y : e[i] = j
              \/ m <= Cardinality(Preceding(R, A + B, j))
  <2> DEFINE P == Preceding(R, A + B, j)
  <2>1. IsFiniteSet(P) /\ Cardinality(P) \in Nat
    <3>1. A + B \in Nat
      BY <1>1
    <3>2. IsFiniteSet(P) /\ Cardinality(P) \in 0 .. (A + B) - 1
      BY <1>15, <3>1, PrecedingIs
    <3> QED  BY <1>1, <3>2
  <2>2. ASSUME NEW c \in Nat, (c + 1) .. (c + m) \in SUBSET P
        PROVE  m <= Cardinality(P)
    <3>1. Cardinality((c + 1) .. (c + m)) = m
      <4>1. c + 1 \in Int /\ c + m \in Int
        OBVIOUS
      <4>2. Cardinality((c + 1) .. (c + m)) = IF c + 1 > c + m THEN 0 ELSE (c + m) - (c + 1) + 1
        BY <4>1, FS_Interval
      <4> QED  BY <4>2
    <3> HIDE DEF P
    <3> DEFINE I == (c + 1) .. (c + m)
    <3>2. I \in SUBSET P
      BY <2>2
    <3>3. Cardinality(I) = m
      BY <3>1
    <3> HIDE DEF I
    <3> QED  BY <2>1, <3>2, <3>3, FS_Subset
  <2>3. CASE j <= A
    <3>0. j \in 1 .. A
      BY <1>1, <2>3
    <3>1. CASE j <= X
      <4>1. j \in 1 .. X /\ j \in 1 .. X + Y
        BY <1>6, <3>0, <3>1
      <4> QED  BY <1>12, <4>1
    <3>2. CASE ~(j <= X)
      <4>1. m < j
        BY <1>1, <1>2, <3>0, <3>2
      <4>2. \A i \in 1 .. m : i \in 1 .. A /\ i \in 1 .. A + B /\ i < j
        BY <1>1, <3>0, <4>1
      <4>3. \A i \in 1 .. m : ~(s[j]["rank"] > s[i]["rank"])
        BY <1>4, <1>9, <3>0, <4>2
      <4>4. \A i \in 1 .. m : Better(s, i, j)
        BY <4>2, <4>3 DEF Better
      <4>5. \A i \in 1 .. m : i \in P
        BY <1>15, <4>2, <4>4 DEF Preceding
      <4> HIDE DEF P
      <4>6. (0 + 1) .. (0 + m) \in SUBSET P
        BY <4>5
      <4> QED  BY <2>2, <4>6 DEF P
    <3> QED  BY <3>1, <3>2
  <2>4. ASSUME NEW l \in 1 .. B, j = A + l
        PROVE  \/ \E i \in 1 .. X + Y : e[i] = j
               \/ m <= Cardinality(P)
    <3>1. CASE l <= Y
      <4>1. l \in 1 .. Y /\ X + l \in 1 .. X + Y
        BY <1>6, <3>1
      <4> QED  BY <1>12, <2>4, <4>1
    <3>2. CASE ~(l <= Y)
      <4>1. m < l
        BY <1>1, <1>3, <3>2
      <4>2. \A i \in 1 .. m : i \in 1 .. B /\ A + i \in 1 .. A + B /\ i < l /\ A + i < j
        BY <1>1, <2>4, <4>1
      <4>3. \A i \in 1 .. m : ~(s[j]["rank"] > s[A + i]["rank"])
        BY <1>4, <1>10, <2>4, <4>2
      <4>4. \A i \in 1 .. m : Better(s, A + i, j)
        BY <4>2, <4>3 DEF Better
      <4>5. \A i \in 1 .. m : A + i \in P
        BY <1>15, <4>2, <4>4 DEF Preceding
      <4> HIDE DEF P
      <4>6. \A i \in (A + 1) .. (A + m) : i \in P
        <5> TAKE i \in (A + 1) .. (A + m)
        <5>1. i - A \in 1 .. m /\ A + (i - A) = i
          BY <1>1
        <5> QED  BY <4>5, <5>1
      <4>7. (A + 1) .. (A + m) \in SUBSET P
        BY <4>6
      <4> QED  BY <1>1, <2>2, <4>7 DEF P
    <3> QED  BY <3>1, <3>2
  <2> QED  BY <1>4, <2>3, <2>4
<1>20. ASSUME NEW p \in 1 .. m, p <= A + B
       PROVE  p <= X + Y /\ Arranged(t, Q)[p] = Arranged(s, R)[p]
  <2>1. /\ StrictOrder(R, Len(s)) /\ StrictOrder(Q, Len(t))
        /\ e \in [1 .. Len(t) -> 1 .. Len(s)] /\ p <= Len(s)
        /\ \A i \in 1 .. Len(t) : t[i] = s[e[i]]
        /\ \A i, j \in 1 .. Len(t) : e[i] = e[j] => i = j
        /\ \A i, j \in 1 .. Len(t) : <<i, j>> \in Q <=> <<e[i], e[j]>> \in R
    BY <1>4, <1>5, <1>12, <1>13, <1>15, <1>16, <1>17, <1>18, <1>20
  <2>2. \A j \in 1 .. Len(s) : \/ \E i \in 1 .. Len(t) : e[i] = j
                               \/ m <= Cardinality(Preceding(R, Len(s), j))
    BY <1>4, <1>5, <1>19
  <2>3. PartOf(e, t, Q, s, R, m)
    BY <2>1, <2>2 DEF PartOf
  <2>4. p <= Len(t) /\ Arranged(t, Q)[p] = Arranged(s, R)[p]
    BY <1>4, <1>5, <2>1, <2>3, TopOfPart
  <2> QED  BY <1>5, <2>4
<1>21. \A p \in 1 .. m : p <= Len(s) => p <= Len(t) /\ MostFirst(t, "rank")[p] = MostFirst(s, "rank")[p]
  BY <1>4, <1>5, <1>15, <1>16, <1>20
<1>22. Len(t) <= Len(s)
  BY <1>1, <1>4, <1>5, <1>6
<1>23. Len(MostFirst(s, "rank")) = Len(s) /\ Len(MostFirst(t, "rank")) = Len(t)
  BY <1>11, <1>14, MostFirstIs
<1>24. SameTop(MostFirst(t, "rank"), MostFirst(s, "rank"), m)
  BY <1>21, <1>23 DEF SameTop
<1> QED  BY <1>11, <1>14, <1>22, <1>24 DEF s, t

LEMMA SamePage ==
  ASSUME NEW u, NEW w, IsList(u), IsList(w), Len(u) <= Len(w), NEW k \in Nat, NEW o \in Nat,
         SameTop(u, w, k + o)
  PROVE  Limited(u, k, o) = Limited(w, k, o)
<1> DEFINE x == Limited(u, k, o)
           y == Limited(w, k, o)
<1>1. Len(u) \in Nat /\ Len(w) \in Nat
  BY ListIs
<1>2. /\ IsList(x)
      /\ Len(x) = IF Len(u) <= o THEN 0 ELSE IF o + k < Len(u) THEN k ELSE Len(u) - o
      /\ \A i \in 1 .. Len(x) : o + i \in 1 .. Len(u) /\ x[i] = u[o + i]
  BY ONLY LimitedIs, IsList(u), k \in Nat, o \in Nat
<1>3. /\ IsList(y)
      /\ Len(y) = IF Len(w) <= o THEN 0 ELSE IF o + k < Len(w) THEN k ELSE Len(w) - o
      /\ \A i \in 1 .. Len(y) : o + i \in 1 .. Len(w) /\ y[i] = w[o + i]
  BY ONLY LimitedIs, IsList(w), k \in Nat, o \in Nat
<1> HIDE DEF x, y
<1>4. \/ Len(u) = Len(w)
      \/ Len(u) < Len(w) /\ k + o <= Len(u)
  <2>1. CASE k + o <= Len(u)
    BY <1>1, <2>1
  <2>2. CASE ~(k + o <= Len(u))
    <3>1. CASE Len(u) < Len(w)
      <4> DEFINE p == Len(u) + 1
      <4>1. p \in 1 .. k + o /\ p <= Len(w) /\ ~(p <= Len(u))
        BY <1>1, <2>2, <3>1
      <4> HIDE DEF p
      <4> QED  BY <4>1 DEF SameTop
    <3> QED  BY <1>1, <3>1
  <2> QED  BY <2>1, <2>2
<1>5. Len(x) = Len(y) /\ Len(x) <= k
  <2>1. Len(x) = IF Len(u) <= o THEN 0 ELSE IF o + k < Len(u) THEN k ELSE Len(u) - o
    BY <1>2
  <2>2. Len(y) = IF Len(w) <= o THEN 0 ELSE IF o + k < Len(w) THEN k ELSE Len(w) - o
    BY <1>3
  <2>3. Len(x) <= k
    BY <1>1, <2>1
  <2>4. CASE Len(u) = Len(w)
    BY <2>1, <2>2, <2>3, <2>4
  <2>5. CASE Len(u) < Len(w) /\ k + o <= Len(u)
    <3>1. Len(x) = k
      BY <1>1, <2>1, <2>5
    <3>2. Len(y) = k
      BY <1>1, <2>2, <2>5
    <3> QED  BY <2>3, <3>1, <3>2
  <2> QED  BY <1>4, <2>4, <2>5
<1>6. ASSUME NEW i \in 1 .. Len(x)
      PROVE  x[i] = y[i]
  <2>1. o + i \in 1 .. k + o /\ o + i <= Len(w)
    BY <1>1, <1>2, <1>3, <1>5
  <2>2. u[o + i] = w[o + i]
    BY <2>1 DEF SameTop
  <2> QED  BY <1>2, <1>3, <1>5, <2>2
<1>7. x = y
  BY <1>2, <1>3, <1>5, <1>6, SameLists
<1> QED  BY <1>7 DEF x, y

LEMMA OccurrencesIs ==
  ASSUME NEW text, NEW q, IsList(text), IsList(q)
  PROVE  Cardinality(Occurrences(text, q)) \in Nat
<1> DEFINE I == {i \in DOMAIN text : text[i] \notin Separators}
           J == {i \in DOMAIN q : q[i] \notin Separators}
           a == Kept(text, I)
           b == Kept(q, J)
<1>1. Tokens(text) = a /\ Tokens(q) = b
  BY DEF Tokens, Select
<1> HIDE DEF I, J
<1>2. Len(a) \in Nat /\ Len(b) \in Nat
  BY KeptIs, ListIs
<1> HIDE DEF a, b
<1> DEFINE N == Len(a) - Len(b) + 1
           S == Occurrences(text, q)
<1>3. S \in SUBSET (1 .. N)
  BY <1>1 DEF Occurrences
<1>4. 1 \in Int /\ N \in Int
  BY <1>2
<1> HIDE DEF S, N
<1>5. IsFiniteSet(1 .. N)
  BY <1>4, FS_Interval
<1>6. IsFiniteSet(S)
  BY <1>3, <1>5, FS_Subset
<1> QED  BY <1>6, FS_CardinalityType DEF S

\* The hits in the blocks at the places in I, each with its message.
MessageHit(b, m, q) ==
  SearchResult(m.uuid, m.session_id, m.type, m.timestamp, Word(b.block_type),
               b.text_content[1], Cardinality(Occurrences(b.text_content[1], q)), Message)

MessageOf(b) == First(Where(db.messages, "uuid", b.message_uuid))

HitsIn(w, q) ==
  FlattenSeq([i \in DOMAIN w |->
    [j \in DOMAIN MessageOf(w[i]) |-> MessageHit(w[i], MessageOf(w[i])[j], q)]])

LEMMA FirstIs ==
  ASSUME NEW s, IsList(s)
  PROVE  /\ IsList(First(s)) /\ Len(First(s)) \in 0 .. 1
         /\ \A x : x \in ToSet(First(s)) => x \in ToSet(s)
         /\ s # <<>> => First(s) = <<s[1]>> /\ s[1] \in ToSet(s)
<1>1. CASE s = <<>>
  BY <1>1, NoElements DEF First, None
<1>2. CASE s # <<>>
  <2>1. First(s) = <<s[1]>>
    BY <1>2 DEF First, Some
  <2>2. 1 \in 1 .. Len(s)
    BY <1>2, ListIs, EmptyIs
  <2>3. s[1] \in ToSet(s)
    BY <2>2, ListIs
  <2> QED  BY <2>1, <2>3, OneElement
<1> QED  BY <1>1, <1>2

LEMMA MessageOfIs ==
  ASSUME Shaped, NEW b
  PROVE  /\ IsList(MessageOf(b)) /\ Len(MessageOf(b)) \in 0 .. 1
         /\ \A m : m \in ToSet(MessageOf(b)) => m["uuid"] = b.message_uuid
         /\ IsMessage(db.messages, b.message_uuid) => Len(MessageOf(b)) = 1
<1> DEFINE I == {i \in DOMAIN db.messages : db.messages[i]["uuid"] = b.message_uuid}
           w == Kept(db.messages, I)
<1>1. IsList(db.messages) /\ DOMAIN db.messages = 1 .. Len(db.messages)
  <2>1. IsList(db.messages)
    BY DEF Shaped, Tables, EmptyDatabase
  <2> QED  BY <2>1, ListIs
<1>2. MessageOf(b) = First(w)
  BY DEF MessageOf, Where, Select
<1>3. \A i \in I : db.messages[i]["uuid"] = b.message_uuid
  OBVIOUS
<1>4. IsMessage(db.messages, b.message_uuid) => \E i \in 1 .. Len(db.messages) : i \in I
  BY <1>1 DEF IsMessage
<1> HIDE DEF I
<1>5. IsList(w) /\ \A x : x \in ToSet(w) <=> \E i \in 1 .. Len(db.messages) : i \in I /\ x = db.messages[i]
  BY <1>1, KeptIs
<1> HIDE DEF w
<1>6. /\ IsList(First(w)) /\ Len(First(w)) \in 0 .. 1
      /\ \A x : x \in ToSet(First(w)) => x \in ToSet(w)
      /\ w # <<>> => First(w) = <<w[1]>>
  BY <1>5, FirstIs
<1>7. IsMessage(db.messages, b.message_uuid) => Len(First(w)) = 1
  <2> HAVE IsMessage(db.messages, b.message_uuid)
  <2>1. \E x : x \in ToSet(w)
    BY <1>4, <1>5
  <2>2. w # <<>>
    BY <2>1, NoElements
  <2> QED  BY <1>6, <2>2, OneElement
<1> QED  BY <1>2, <1>3, <1>5, <1>6, <1>7

LEMMA HitsInIs ==
  ASSUME Shaped, NEW w, IsList(w), NEW q, IsList(q)
  PROVE  /\ IsList(HitsIn(w, q)) /\ Len(HitsIn(w, q)) \in 0 .. Len(w)
         /\ \A x : x \in ToSet(HitsIn(w, q)) <=>
               \E i \in 1 .. Len(w) : \E m \in ToSet(MessageOf(w[i])) : x = MessageHit(w[i], m, q)
<1> DEFINE n == Len(w)
           ss == [i \in 1 .. n |->
                    [j \in DOMAIN MessageOf(w[i]) |-> MessageHit(w[i], MessageOf(w[i])[j], q)]]
<1>1. n \in Nat /\ DOMAIN w = 1 .. n
  BY ListIs
<1>2. HitsIn(w, q) = FlattenSeq(ss)
  BY <1>1 DEF HitsIn
<1>3. ASSUME NEW i \in 1 .. n
      PROVE  /\ IsList(ss[i]) /\ Len(ss[i]) \in 0 .. 1
             /\ \A x : x \in ToSet(ss[i]) <=>
                  \E m \in ToSet(MessageOf(w[i])) : x = MessageHit(w[i], m, q)
  <2> DEFINE a == MessageOf(w[i])
             r == [j \in 1 .. Len(a) |-> MessageHit(w[i], a[j], q)]
  <2>1. IsList(a) /\ Len(a) \in 0 .. 1
    BY MessageOfIs
  <2>2. Len(a) \in Nat /\ DOMAIN a = 1 .. Len(a)
    BY <2>1, ListIs
  <2>3. ss[i] = r
    BY <2>2
  <2> HIDE DEF a
  <2>4. r = [j \in 1 .. Len(a) |-> r[j]] /\ \A j \in 1 .. Len(a) : r[j] = MessageHit(w[i], a[j], q)
    OBVIOUS
  <2> HIDE DEF r
  <2>5. IsList(r) /\ Len(r) = Len(a)
    BY <2>2, <2>4, ListFrom
  <2>6. \A x : x \in ToSet(r) <=> \E j \in 1 .. Len(a) : x = r[j]
    BY <2>5, ListIs
  <2>7. \A x : x \in ToSet(a) <=> \E j \in 1 .. Len(a) : x = a[j]
    BY <2>1, ListIs
  <2>8. \A x : x \in ToSet(r) <=> \E m \in ToSet(a) : x = MessageHit(w[i], m, q)
    BY <2>4, <2>6, <2>7
  <2> HIDE DEF ss
  <2> QED  BY <2>1, <2>3, <2>5, <2>8 DEF a
<1>4. ss = [i \in 1 .. n |-> ss[i]]
  OBVIOUS
<1> HIDE DEF ss
<1>5. /\ IsList(FlattenSeq(ss))
      /\ \A x : x \in ToSet(FlattenSeq(ss)) <=> \E i \in 1 .. n : x \in ToSet(ss[i])
  BY <1>1, <1>3, <1>4, Flattened
<1>6. Len(FlattenSeq(ss)) \in 0 .. n
  <2>1. IsList(ss) /\ Len(ss) = n
    BY <1>1, <1>4, ListFrom
  <2> QED  BY <1>1, <1>3, <2>1, FlatLength
<1>7. \A x : x \in ToSet(FlattenSeq(ss)) <=>
         \E i \in 1 .. n : \E m \in ToSet(MessageOf(w[i])) : x = MessageHit(w[i], m, q)
  <2> TAKE x
  <2>1. \A i \in 1 .. n : x \in ToSet(ss[i]) <=>
           \E m \in ToSet(MessageOf(w[i])) : x = MessageHit(w[i], m, q)
    BY <1>3
  <2>2. x \in ToSet(FlattenSeq(ss)) <=> \E i \in 1 .. n : x \in ToSet(ss[i])
    BY <1>5
  <2> HIDE DEF n
  <2> QED  BY <2>1, <2>2, Zenon
<1> QED  BY <1>2, <1>5, <1>6, <1>7

\* The attachments' texts that hold the phrase.
TextsHolding(rows, q) ==
  Kept(rows, {i \in DOMAIN rows : Occurrences(rows[i].text_content, q) # {}})

AttachmentHit(f, q) ==
  LET t == First(Where(db.attachments, "uuid", f.attachment_uuid))
  IN  SearchResult(f.attachment_uuid, f.session_id, Word("attachment"),
                   IF t = None THEN <<>> ELSE t[1].timestamp,
                   f.inner_type, f.text_content,
                   Cardinality(Occurrences(f.text_content, q)), Attachment(f.inner_type))

\* What is found in them.
Attachments(q) == Each(TextsHolding(db.fts_attachment_text_content, q), LAMBDA f : AttachmentHit(f, q))

HitsAt(I, q) == HitsIn(Kept(db.fts_message_content, I), q)

IsHit(x, I, q) ==
  \E i \in 1 .. Len(db.fts_message_content) : i \in I /\
    \E m \in ToSet(MessageOf(db.fts_message_content[i])) :
       x = MessageHit(db.fts_message_content[i], m, q)

LEMMA HitsAtIs ==
  ASSUME Shaped, NEW q, IsList(q), NEW I,
         \A i \in I : i \in DOMAIN db.fts_message_content => db.fts_message_content[i].text_content # None
  PROVE  /\ Ranked(HitsAt(I, q)) /\ Len(HitsAt(I, q)) \in 0 .. Len(db.fts_message_content)
         /\ \A x : x \in ToSet(HitsAt(I, q)) <=> IsHit(x, I, q)
<1> DEFINE rows == db.fts_message_content
           w == Kept(rows, I)
           hits == HitsIn(w, q)
<1>1. IsList(rows) /\ \A i \in 1 .. Len(rows) : NullableText(rows[i].text_content)
  <2>1. "fts_message_content" \in Tables
    BY DEF Tables, EmptyDatabase
  <2> QED  BY <2>1 DEF Shaped, RowShaped
<1>2. HitsAt(I, q) = hits
  BY DEF HitsAt
<1>3. \A i \in 1 .. Len(rows) : i \in I => rows[i].text_content # None
  <2>1. DOMAIN rows = 1 .. Len(rows)
    BY <1>1, ListIs
  <2> QED  BY <2>1
<1> HIDE DEF rows
<1>4. /\ IsList(w) /\ Len(w) \in 0 .. Len(rows)
      /\ \A x : x \in ToSet(w) <=> \E i \in 1 .. Len(rows) : i \in I /\ x = rows[i]
  BY <1>1, KeptIs
<1> HIDE DEF w
<1>5. /\ IsList(hits) /\ Len(hits) \in 0 .. Len(w)
      /\ \A x : x \in ToSet(hits) <=>
           \E i \in 1 .. Len(w) : \E m \in ToSet(MessageOf(w[i])) : x = MessageHit(w[i], m, q)
  BY <1>4, HitsInIs
<1> HIDE DEF hits
<1>6. ASSUME NEW x
      PROVE  x \in ToSet(hits) <=> \E i \in 1 .. Len(rows) : i \in I /\
                 \E m \in ToSet(MessageOf(rows[i])) : x = MessageHit(rows[i], m, q)
  <2>1. \A y : y \in ToSet(w) <=> \E i \in 1 .. Len(w) : y = w[i]
    BY <1>4, ListIs
  <2>2. x \in ToSet(hits) <=> \E b \in ToSet(w) : \E m \in ToSet(MessageOf(b)) : x = MessageHit(b, m, q)
    <3>1. x \in ToSet(hits) <=>
           \E i \in 1 .. Len(w) : \E m \in ToSet(MessageOf(w[i])) : x = MessageHit(w[i], m, q)
      BY <1>5
    <3> QED  BY <2>1, <3>1, Zenon
  <2>3. (\E b \in ToSet(w) : \E m \in ToSet(MessageOf(b)) : x = MessageHit(b, m, q))
          <=> \E i \in 1 .. Len(rows) : i \in I /\
                 \E m \in ToSet(MessageOf(rows[i])) : x = MessageHit(rows[i], m, q)
    BY <1>4, Zenon
  <2> QED  BY <2>2, <2>3
<1>7. ASSUME NEW l \in 1 .. Len(hits)
      PROVE  hits[l]["rank"] \in Nat
  <2>1. hits[l] \in ToSet(hits)
    BY <1>5, ListIs
  <2>2. PICK i \in 1 .. Len(rows) : i \in I /\
                 \E m \in ToSet(MessageOf(rows[i])) : hits[l] = MessageHit(rows[i], m, q)
    BY <1>6, <2>1
  <2>3. PICK m \in ToSet(MessageOf(rows[i])) : hits[l] = MessageHit(rows[i], m, q)
    BY <2>2
  <2>4. IsList(rows[i].text_content[1])
    BY <1>1, <1>3, <2>2 DEF NullableText
  <2>5. Cardinality(Occurrences(rows[i].text_content[1], q)) \in Nat
    BY <2>4, OccurrencesIs
  <2> QED  BY <2>3, <2>5 DEF MessageHit, SearchResult
<1>8. Len(hits) \in 0 .. Len(rows)
  <2>1. Len(rows) \in Nat
    BY <1>1, ListIs
  <2> QED  BY <1>4, <1>5, <2>1
<1>9. Ranked(hits)
  BY <1>5, <1>7 DEF Ranked
<1> QED  BY <1>2, <1>6, <1>8, <1>9 DEF rows, IsHit

\* The places of the blocks that hold the phrase, and of those that are plans.
Holding(q) ==
  {i \in DOMAIN db.fts_message_content :
     /\ db.fts_message_content[i].text_content # None
     /\ Occurrences(db.fts_message_content[i].text_content[1], q) # {}}

PlansHolding(q) == {i \in Holding(q) : db.fts_message_content[i].block_type = "plan_content"}

LEMMA MessagesIs ==
  ASSUME Shaped, NEW q, IsList(q)
  PROVE  /\ \A k, o : search_messages(db, q, k, o) = BestFirst(HitsAt(Holding(q), q), k, o)
         /\ \A k, o : search_plans(db, q, k, o) = BestFirst(HitsAt(PlansHolding(q), q), k, o)
<1> DEFINE rows == db.fts_message_content
           A == {i \in DOMAIN rows : /\ /\ rows[i].text_content # None
                                         /\ Occurrences(rows[i].text_content[1], q) # {}
                                      /\ TRUE}
           B == {i \in DOMAIN rows : /\ /\ rows[i].text_content # None
                                         /\ Occurrences(rows[i].text_content[1], q) # {}
                                      /\ rows[i].block_type = "plan_content"}
<1>1. MessageHits(db, q, LAMBDA b : TRUE) = HitsAt(A, q)
  BY DEF MessageHits, HitsAt, HitsIn, Select, Holds, Each, MessageOf, MessageHit
<1>2. MessageHits(db, q, LAMBDA b : b.block_type = "plan_content") = HitsAt(B, q)
  BY DEF MessageHits, HitsAt, HitsIn, Select, Holds, Each, MessageOf, MessageHit
<1>3. A = Holding(q) /\ B = PlansHolding(q)
  BY DEF Holding, PlansHolding
<1> HIDE DEF A, B
<1> QED  BY <1>1, <1>2, <1>3 DEF search_messages, search_plans

LEMMA AttachmentsIs ==
  ASSUME Shaped, NEW q, IsList(q)
  PROVE  /\ \A k, o : search_attachment_text_content(db, q, k, o) = BestFirst(Attachments(q), k, o)
         /\ Ranked(Attachments(q))
         /\ Len(Attachments(q)) \in 0 .. Len(db.fts_attachment_text_content)
         /\ \A x : x \in ToSet(Attachments(q)) <=>
               \E f \in ToSet(TextsHolding(db.fts_attachment_text_content, q)) : x = AttachmentHit(f, q)
<1> DEFINE rows == db.fts_attachment_text_content
           I == {i \in DOMAIN rows : Occurrences(rows[i].text_content, q) # {}}
           w == Kept(rows, I)
           hits == Attachments(q)
<1>1. \A k, o : search_attachment_text_content(db, q, k, o) = BestFirst(hits, k, o)
  BY DEF search_attachment_text_content, Attachments, TextsHolding, AttachmentHit, Select, Each
<1>2. IsList(rows) /\ \A i \in 1 .. Len(rows) : IsList(rows[i].text_content)
  <2>1. "fts_attachment_text_content" \in Tables
    BY DEF Tables, EmptyDatabase
  <2> QED  BY <2>1 DEF Shaped, RowShaped
<1>3. w = TextsHolding(rows, q) /\ hits = [i \in DOMAIN w |-> AttachmentHit(w[i], q)]
  BY DEF Attachments, TextsHolding, Each
<1> HIDE DEF rows, I, hits
<1>4. /\ IsList(w) /\ Len(w) \in 0 .. Len(rows)
      /\ \A x : x \in ToSet(w) <=> \E i \in 1 .. Len(rows) : i \in I /\ x = rows[i]
  BY <1>2, KeptIs
<1> HIDE DEF w
<1>5. Len(w) \in Nat /\ DOMAIN w = 1 .. Len(w) /\ \A x : x \in ToSet(w) <=> \E i \in 1 .. Len(w) : x = w[i]
  BY <1>4, ListIs
<1>6. hits = [i \in 1 .. Len(w) |-> hits[i]] /\ \A i \in 1 .. Len(w) : hits[i] = AttachmentHit(w[i], q)
  BY <1>3, <1>5
<1>7. IsList(hits) /\ Len(hits) = Len(w)
  BY <1>5, <1>6, ListFrom
<1>8. ASSUME NEW l \in 1 .. Len(w)
      PROVE  hits[l]["rank"] \in Nat
  <2>1. w[l] \in ToSet(w)
    BY <1>5
  <2>2. IsList(w[l].text_content)
    BY <1>2, <1>4, <2>1
  <2>3. Cardinality(Occurrences(w[l].text_content, q)) \in Nat
    BY <2>2, OccurrencesIs
  <2> QED  BY <1>6, <2>3 DEF AttachmentHit, SearchResult
<1>9. \A x : x \in ToSet(hits) <=> \E f \in ToSet(w) : x = AttachmentHit(f, q)
  <2>1. \A x : x \in ToSet(hits) <=> \E i \in 1 .. Len(w) : x = hits[i]
    BY <1>7, ListIs
  <2> QED  BY <1>5, <1>6, <2>1
<1> QED  BY <1>1, <1>3, <1>4, <1>7, <1>8, <1>9 DEF hits, rows, Ranked

\* What a search finds in all.
Messages(q) == HitsAt(Holding(q), q)

Merged(q) == MostFirst(MostFirst(Messages(q), "rank") \o MostFirst(Attachments(q), "rank"), "rank")

LEMMA SearchPage ==
  ASSUME Shaped, NEW q, IsList(q), NEW k \in Nat, NEW o \in Nat
  PROVE  /\ search_messages_and_attachments(db, q, k, o) = Limited(Merged(q), k, o)
         /\ IsList(Merged(q))
         /\ Len(Merged(q)) <= Len(db.fts_message_content) + Len(db.fts_attachment_text_content)
<1> DEFINE a == MostFirst(Messages(q), "rank")
           b == MostFirst(Attachments(q), "rank")
           m == k + o
           x == Limited(a, m, 0)
           y == Limited(b, m, 0)
           u == MostFirst(x \o y, "rank")
           w == MostFirst(a \o b, "rank")
           A == Len(db.fts_message_content)
           B == Len(db.fts_attachment_text_content)
<1>1. /\ Ranked(a) /\ Falling(a) /\ Len(a) \in 0 .. A
  <2>1. Ranked(Messages(q)) /\ Len(Messages(q)) \in 0 .. A
    BY HitsAtIs DEF Messages, Holding
  <2> HIDE DEF A
  <2> QED  BY <2>1, MostFirstIs
<1>2. /\ Ranked(b) /\ Falling(b) /\ Len(b) \in 0 .. B
  <2>1. Ranked(Attachments(q)) /\ Len(Attachments(q)) \in 0 .. B
    BY AttachmentsIs
  <2> HIDE DEF B
  <2> QED  BY <2>1, MostFirstIs
<1>3. A \in Nat /\ B \in Nat
  <2>1. {"fts_message_content", "fts_attachment_text_content"} \subseteq Tables
    BY DEF Tables, EmptyDatabase
  <2>2. IsList(db["fts_message_content"]) /\ IsList(db["fts_attachment_text_content"])
    BY <2>1 DEF Shaped
  <2> QED  BY <2>2, ListIs
<1>4. search_messages_and_attachments(db, q, k, o) = Limited(u, k, o)
  <2>1. search_messages(db, q, m, 0) = x
    BY MessagesIs DEF BestFirst, Messages
  <2>2. search_attachment_text_content(db, q, m, 0) = y
    BY AttachmentsIs DEF BestFirst
  <2> HIDE DEF x, y
  <2> QED  BY <2>1, <2>2 DEF search_messages_and_attachments
<1>5. Merged(q) = w
  BY DEF Merged
<1>6. m \in Nat /\ x = Limited(a, m, 0) /\ y = Limited(b, m, 0)
  OBVIOUS
<1> HIDE DEF a, b, x, y, A, B
<1>7. /\ Ranked(a \o b) /\ Ranked(x \o y)
      /\ Len(x \o y) <= Len(a \o b)
      /\ SameTop(u, w, m)
  <2> HIDE DEF m
  <2> QED  BY <1>1, <1>2, <1>6, TopOfMerge
<1>8. Len(a \o b) = Len(a) + Len(b)
  BY <1>1, <1>2, Joined DEF Ranked
<1>9. IsList(u) /\ Len(u) = Len(x \o y) /\ IsList(w) /\ Len(w) = Len(a \o b)
  BY <1>7, MostFirstIs DEF Ranked
<1> HIDE DEF u, w
<1>10. Limited(u, k, o) = Limited(w, k, o)
  BY <1>7, <1>9, SamePage
<1>11. Len(w) <= A + B
  BY <1>1, <1>2, <1>3, <1>8, <1>9
<1> QED  BY <1>4, <1>5, <1>9, <1>10, <1>11 DEF A, B

LEMMA SearchTile ==
  ASSUME Shaped, NEW q, IsList(q), NEW k \in Nat \ {0}
  PROVE  SearchTiles(q, k)
<1> DEFINE n == Len(db.fts_message_content) + Len(db.fts_attachment_text_content)
           w == Merged(q)
<1>1. n \in Nat
  <2>1. {"fts_message_content", "fts_attachment_text_content"} \subseteq Tables
    BY DEF Tables, EmptyDatabase
  <2>2. IsList(db["fts_message_content"]) /\ IsList(db["fts_attachment_text_content"])
    BY <2>1 DEF Shaped
  <2>3. Len(db.fts_message_content) \in Nat /\ Len(db.fts_attachment_text_content) \in Nat
    BY <2>2, ListIs
  <2>4. \A c, d \in Nat : c + d \in Nat
    OBVIOUS
  <2> QED  BY <2>3, <2>4, Zenon
<1>2. IsList(w) /\ Len(w) <= n
  <2>1. 0 \in Nat
    OBVIOUS
  <2> QED  BY <2>1, SearchPage
<1>3. \A j, o \in Nat : search_messages_and_attachments(db, q, j, o) = Limited(w, j, o)
  BY SearchPage
<1> HIDE DEF n, w
<1>4. search_messages_and_attachments(db, q, n, 0) = w
  BY <1>1, <1>2, <1>3, LimitedWhole
<1>5. Pages(LAMBDA p : search_messages_and_attachments(db, q, k, p * k), n)
        = FlattenSeq([p \in 1 .. n |-> Limited(w, k, (p - 1) * k)])
  <2>1. \A p \in 1 .. n : (p - 1) * k \in Nat
    BY <1>1
  <2>2. \A p \in 1 .. n : search_messages_and_attachments(db, q, k, (p - 1) * k) = Limited(w, k, (p - 1) * k)
    BY <1>3, <2>1
  <2> QED  BY <2>2 DEF Pages
<1>6. FlattenSeq([p \in 1 .. n |-> Limited(w, k, (p - 1) * k)]) = w
  BY <1>1, <1>2, PagesOf
<1> QED  BY <1>4, <1>5, <1>6 DEF SearchTiles, n

-----------------------------------------------------------------------------
(***************************************************************************)
(* Pages of any length, one after the other, are the whole: of a           *)
(* conversation, of the batches of an export, and of a search whose two    *)
(* sides are merged before the page is cut.                                *)
(***************************************************************************)
LEMMA PagesTileInv ==
  ASSUME IInv
  PROVE  /\ \A k \in Nat \ {0} : PagesTileBy(k)
         /\ \A i \in DOMAIN db.sessions : ExportIsWhole(db.sessions[i].session_id)
<1>1. Shaped
  BY DEF IInv
<1>2. ASSUME NEW k \in Nat \ {0}
      PROVE  PagesTileBy(k)
  <2>1. \A i \in DOMAIN db.sessions : ConversationTiles(db.sessions[i].session_id, k)
    BY <1>1, ConversationTile
  <2>2. \A i \in DOMAIN Commands : Commands[i].command = "search" => SearchTiles(Commands[i].a["q"], k)
    <3> SUFFICES ASSUME NEW i \in DOMAIN Commands, Commands[i].command = "search"
                 PROVE  SearchTiles(Commands[i].a["q"], k)
      OBVIOUS
    <3>1. Parsed("search", Commands[i].a)
      BY CommandsAssumption
    <3>2. "q" \in DOMAIN Commands[i].a /\ OfItsType("q", Commands[i].a["q"])
      BY <3>1 DEF Parsed, Always
    <3>3. IsList(Commands[i].a["q"])
      BY <3>2 DEF OfItsType, Numeric, Flag
    <3> QED  BY <1>1, <3>3, SearchTile
  <2> QED  BY <2>1, <2>2 DEF PagesTileBy
<1>3. \A i \in DOMAIN db.sessions : ExportIsWhole(db.sessions[i].session_id)
  BY <1>1, ExportWhole
<1> QED  BY <1>2, <1>3

\* Pages of any length, not only of those the runs try, are the whole: of a
\* conversation, and of a search whose two sides are merged before the page is
\* cut (query.rs: session_conversation; fts.rs: search_messages_and_attachments).
THEOREM PagesOfAnyLength ==
  Spec => [](\A k \in Nat \ {0} : PagesTileBy(k))
<1>1. IInv => \A k \in Nat \ {0} : PagesTileBy(k)
  BY PagesTileInv
<1> QED  BY <1>1, Invariance, PTL

\* Pages are the whole, and an export has each message of the conversation
\* once and in its order (export.rs: load_all_messages).
THEOREM PagesTiled ==
  Spec => []PagesTile
<1>1. IInv => PagesTile
  <2>1. \A k \in 1 .. 3 : k \in Nat \ {0}
    OBVIOUS
  <2> QED  BY <2>1, PagesTileInv DEF PagesTile
<1> QED  BY <1>1, Invariance, PTL

-----------------------------------------------------------------------------
(***************************************************************************)
(* What is stored is found.                                                *)
(***************************************************************************)
LEMMA TokensIs ==
  ASSUME NEW text, IsList(text)
  PROVE  /\ IsList(Tokens(text)) /\ Len(Tokens(text)) \in 0 .. Len(text)
         /\ \A x : x \in ToSet(Tokens(text)) <=> x \in ToSet(text) /\ x \notin Separators
<1> DEFINE I == {i \in DOMAIN text : text[i] \notin Separators}
           a == Kept(text, I)
<1>1. Tokens(text) = a
  BY DEF Tokens, Select
<1>2. \A i \in 1 .. Len(text) : i \in I <=> text[i] \notin Separators
  BY ListIs
<1> HIDE DEF I
<1>3. /\ IsList(a) /\ Len(a) \in 0 .. Len(text)
      /\ \A x : x \in ToSet(a) <=> \E i \in 1 .. Len(text) : i \in I /\ x = text[i]
  BY KeptIs
<1> HIDE DEF a
<1>4. \A x : x \in ToSet(text) <=> \E i \in 1 .. Len(text) : x = text[i]
  BY ListIs
<1>5. \A x : x \in ToSet(a) <=> x \in ToSet(text) /\ x \notin Separators
  BY <1>2, <1>3, <1>4
<1> QED  BY <1>1, <1>3, <1>5

LEMMA WholeOccurs ==
  ASSUME NEW text, IsList(text), Tokens(text) # <<>>
  PROVE  Occurrences(text, text) # {}
<1> DEFINE a == Tokens(text)
<1>1. IsList(a) /\ Len(a) \in Nat
  BY TokensIs, ListIs
<1>2. SubSeq(a, 1, Len(a)) = a
  BY <1>1, WholePart
<1>3. 1 \in 1 .. Len(a) - Len(a) + 1 /\ 1 + Len(a) - 1 = Len(a)
  BY <1>1
<1>4. Occurrences(text, text) = {i \in 1 .. Len(a) - Len(a) + 1 : SubSeq(a, i, i + Len(a) - 1) = a}
  BY DEF Occurrences
<1> HIDE DEF a
<1> QED  BY <1>2, <1>3, <1>4

LEMMA WordOccurs ==
  ASSUME NEW text, IsList(text), NEW c \in ToSet(Tokens(text))
  PROVE  IsList(<<c>>) /\ Occurrences(text, <<c>>) # {}
<1> DEFINE a == Tokens(text)
           b == Tokens(<<c>>)
           q == <<c>>
<1>1. IsList(q) /\ Len(q) = 1 /\ q[1] = c /\ \A x : x \in ToSet(q) <=> x = c
  BY OneElement
<1>2. IsList(a) /\ Len(a) \in Nat /\ c \notin Separators
  BY TokensIs, ListIs
<1>3. b = q
  <2>1. /\ IsList(b) /\ Len(b) \in 0 .. 1
        /\ \A x : x \in ToSet(b) <=> x = c
    <3>1. b = Tokens(q)
      OBVIOUS
    <3> HIDE DEF b, q
    <3>2. /\ IsList(Tokens(q)) /\ Len(Tokens(q)) \in 0 .. Len(q)
          /\ \A x : x \in ToSet(Tokens(q)) <=> x \in ToSet(q) /\ x \notin Separators
      BY <1>1, TokensIs
    <3> QED  BY <1>1, <1>2, <3>1, <3>2
  <2> HIDE DEF b, q
  <2>2. Len(b) # 0
    BY <2>1, EmptyIs, NoElements
  <2>3. Len(b) = 1
    BY <2>1, <2>2
  <2>4. b[1] = c
    <3>1. 1 \in 1 .. Len(b)
      BY <2>3
    <3> QED  BY <2>1, <3>1, ListIs
  <2>5. \A i \in 1 .. Len(b) : b[i] = q[i]
    BY <1>1, <2>3, <2>4
  <2> QED  BY <1>1, <2>1, <2>3, <2>5, SameLists
<1>4. PICK i \in 1 .. Len(a) : c = a[i]
  BY <1>2, ListIs
<1>5. b # <<>>
  <2> HIDE DEF q
  <2> QED  BY <1>1, <1>3, NoElements
<1>6. Occurrences(text, q) = {j \in 1 .. Len(a) - Len(b) + 1 : SubSeq(a, j, j + Len(b) - 1) = b}
  BY <1>5 DEF Occurrences
<1> HIDE DEF a, b, q
<1>7. SubSeq(a, i, i) = q
  <2> DEFINE p == SubSeq(a, (i - 1) + 1, i)
  <2>1. i - 1 \in Nat /\ i \in Nat /\ i <= Len(a) /\ i - (i - 1) = 1 /\ (i - 1) + 1 = i /\ i - 1 <= i
    BY <1>2
  <2>2. /\ IsList(p) /\ Len(p) = i - (i - 1)
        /\ \A j \in 1 .. i - (i - 1) : p[j] = a[(i - 1) + j]
    <3> DEFINE o == i - 1
    <3>1. o \in Nat /\ o <= i
      BY <2>1
    <3> HIDE DEF o
    <3>2. /\ IsList(SubSeq(a, o + 1, i))
          /\ Len(SubSeq(a, o + 1, i)) = IF o <= i THEN i - o ELSE 0
          /\ \A j \in 1 .. i - o : SubSeq(a, o + 1, i)[j] = a[o + j]
      BY <1>2, <2>1, <3>1, Part
    <3> QED  BY <3>1, <3>2 DEF o
  <2>3. SubSeq(a, i, i) = p
    BY <2>1
  <2> HIDE DEF p
  <2>4. Len(p) = 1 /\ p[1] = q[1]
    BY <1>1, <1>4, <2>1, <2>2
  <2>5. \A j \in 1 .. Len(p) : p[j] = q[j]
    BY <2>4
  <2>6. p = q
    BY <1>1, <2>2, <2>4, <2>5, SameLists
  <2> QED  BY <2>3, <2>6
<1>8. i \in 1 .. Len(a) - Len(b) + 1 /\ i + Len(b) - 1 = i
  <2>1. Len(b) = 1
    BY <1>1, <1>3
  <2> QED  BY <1>2, <1>4, <2>1
<1>9. i \in Occurrences(text, q)
  BY <1>3, <1>6, <1>7, <1>8
<1> QED  BY <1>1, <1>9 DEF q

\* A page that is long enough has every hit.
LEMMA AllFound ==
  ASSUME NEW hits, Ranked(hits), NEW n \in Nat, Len(hits) <= n
  PROVE  Range(BestFirst(hits, n, 0)) = ToSet(hits)
<1> DEFINE a == MostFirst(hits, "rank")
<1>1. IsList(a) /\ Len(a) = Len(hits) /\ ToSet(a) = ToSet(hits)
  BY MostFirstIs DEF Ranked
<1>2. BestFirst(hits, n, 0) = Limited(a, n, 0)
  BY DEF BestFirst
<1> HIDE DEF a
<1>3. Limited(a, n, 0) = a
  BY <1>1, LimitedWhole
<1>4. Range(a) = ToSet(a)
  BY DEF Range, ToSet
<1> QED  BY <1>1, <1>2, <1>3, <1>4

\* The indexes are those of what is stored.
LEMMA Indexed ==
  ASSUME Shaped, db = Rebuilt
  PROVE  /\ db.fts_message_content = db.message_content
         /\ db.fts_file_operations = db.file_operations
         /\ db.fts_attachment_text_content = AttachmentRows(db.attachments)
<1>1. {"fts_message_content", "fts_file_operations", "fts_attachment_text_content"} \subseteq DOMAIN EmptyDatabase
  BY DEF EmptyDatabase
<1>2. \A t \in DOMAIN EmptyDatabase :
         Rebuilt[t] = CASE t = "fts_message_content" -> db.message_content
                        [] t = "fts_file_operations" -> db.file_operations
                        [] t = "fts_attachment_text_content" -> AttachmentRows(db.attachments)
                        [] OTHER -> db[t]
  BY RebuiltIs DEF Shaped
<1> DEFINE r == Rebuilt
<1>3. db = r
  OBVIOUS
<1>4. /\ r["fts_message_content"] = db.message_content
      /\ r["fts_file_operations"] = db.file_operations
      /\ r["fts_attachment_text_content"] = AttachmentRows(db.attachments)
  BY <1>1, <1>2
<1> HIDE DEF r
<1> QED  BY <1>3, <1>4

BlockFound(b, q) ==
  LET n == Len(db.fts_message_content)
      found == {r.message_uuid : r \in Range(search_messages(db, q, n, 0))}
      plans == {r.message_uuid : r \in Range(search_plans(db, q, n, 0))}
  IN  /\ b.message_uuid \in found
      /\ b.block_type = "plan_content" => b.message_uuid \in plans
      /\ plans \subseteq found

LEMMA BlocksFound ==
  ASSUME Shaped, Kinship, db = Rebuilt, NEW i \in DOMAIN db.message_content,
         db.message_content[i].text_content # None, NEW q, IsList(q),
         Occurrences(db.message_content[i].text_content[1], q) # {}
  PROVE  BlockFound(db.message_content[i], q)
<1> DEFINE rows == db.fts_message_content
           n == Len(rows)
           I == Holding(q)
           J == PlansHolding(q)
           found == {r.message_uuid : r \in Range(search_messages(db, q, n, 0))}
           plans == {r.message_uuid : r \in Range(search_plans(db, q, n, 0))}
           b == rows[i]
<1>1. rows = db.message_content
  BY Indexed
<1>2. /\ IsList(rows) /\ n \in Nat /\ DOMAIN rows = 1 .. n
  <2>1. "fts_message_content" \in Tables
    BY DEF Tables, EmptyDatabase
  <2>2. IsList(rows)
    BY <2>1 DEF Shaped
  <2> QED  BY <2>2, ListIs
<1>3. i \in 1 .. n /\ i \in I /\ (b.block_type = "plan_content" => i \in J) /\ \A j \in J : j \in I
  BY <1>1, <1>2 DEF Holding, PlansHolding
<1>4. /\ Ranked(HitsAt(I, q)) /\ Len(HitsAt(I, q)) \in 0 .. n
      /\ \A x : x \in ToSet(HitsAt(I, q)) <=> IsHit(x, I, q)
  <2>1. \A j \in I : rows[j].text_content # None
    BY DEF Holding
  <2> HIDE DEF I
  <2> QED  BY <2>1, HitsAtIs
<1>5. /\ Ranked(HitsAt(J, q)) /\ Len(HitsAt(J, q)) \in 0 .. n
      /\ \A x : x \in ToSet(HitsAt(J, q)) <=> IsHit(x, J, q)
  <2>1. \A j \in J : rows[j].text_content # None
    BY DEF PlansHolding, Holding
  <2> HIDE DEF J
  <2> QED  BY <2>1, HitsAtIs
<1>6. Range(search_messages(db, q, n, 0)) = ToSet(HitsAt(I, q))
  <2>1. search_messages(db, q, n, 0) = BestFirst(HitsAt(I, q), n, 0)
    BY MessagesIs
  <2> HIDE DEF n, I
  <2> QED  BY <1>2, <1>4, <2>1, AllFound
<1>7. Range(search_plans(db, q, n, 0)) = ToSet(HitsAt(J, q))
  <2>1. search_plans(db, q, n, 0) = BestFirst(HitsAt(J, q), n, 0)
    BY MessagesIs
  <2> HIDE DEF n, J
  <2> QED  BY <1>2, <1>5, <2>1, AllFound
<1>8. \A x, K : IsHit(x, K, q) <=>
          \E j \in 1 .. n : j \in K /\ \E m \in ToSet(MessageOf(rows[j])) : x = MessageHit(rows[j], m, q)
  BY DEF IsHit
<1>9. \A c, m : m \in ToSet(MessageOf(c)) => MessageHit(c, m, q).message_uuid = c.message_uuid
  <2> TAKE c, m
  <2> HAVE m \in ToSet(MessageOf(c))
  <2>1. m["uuid"] = c.message_uuid
    BY MessageOfIs
  <2> QED  BY <2>1 DEF MessageHit, SearchResult
<1>10. \E m : m \in ToSet(MessageOf(b))
  <2>1. IsMessage(db.messages, b.message_uuid)
    BY <1>1, <1>3 DEF Kinship
  <2>2. IsList(MessageOf(b)) /\ Len(MessageOf(b)) = 1
    BY <2>1, MessageOfIs
  <2>3. 1 \in 1 .. Len(MessageOf(b))
    BY <2>2
  <2> QED  BY <2>2, <2>3, ListIs
<1>11. PICK m : m \in ToSet(MessageOf(b))
  BY <1>10
<1> HIDE DEF I, J, rows, n
<1>12. b.message_uuid \in found
  <2>1. MessageHit(b, m, q) \in ToSet(HitsAt(I, q))
    BY <1>3, <1>4, <1>11, <1>8
  <2>2. MessageHit(b, m, q).message_uuid = b.message_uuid
    BY <1>9, <1>11
  <2> QED  BY <1>6, <2>1, <2>2
<1>13. b.block_type = "plan_content" => b.message_uuid \in plans
  <2> HAVE b.block_type = "plan_content"
  <2>1. MessageHit(b, m, q) \in ToSet(HitsAt(J, q))
    BY <1>3, <1>5, <1>11, <1>8
  <2>2. MessageHit(b, m, q).message_uuid = b.message_uuid
    BY <1>9, <1>11
  <2> QED  BY <1>7, <2>1, <2>2
<1>14. plans \subseteq found
  <2>1. ToSet(HitsAt(J, q)) \subseteq ToSet(HitsAt(I, q))
    <3> SUFFICES ASSUME NEW x \in ToSet(HitsAt(J, q))
                 PROVE  x \in ToSet(HitsAt(I, q))
      OBVIOUS
    <3>1. PICK j \in 1 .. n : j \in J /\ \E l \in ToSet(MessageOf(rows[j])) : x = MessageHit(rows[j], l, q)
      BY <1>5, <1>8
    <3> QED  BY <1>3, <1>4, <1>8, <3>1
  <2> QED  BY <1>6, <1>7, <2>1
<1> QED  BY <1>1, <1>12, <1>13, <1>14 DEF BlockFound, n, rows

TextFound(t, q) ==
  t.uuid \in {r.message_uuid : r \in Range(search_attachment_text_content(db, q,
                                              Len(db.fts_attachment_text_content), 0))}

LEMMA TextsFound ==
  ASSUME Shaped, db = Rebuilt, NEW i \in DOMAIN db.attachments,
         NEW text \in ToSet(AttachmentTexts(db.attachments[i])), NEW q, IsList(q), Occurrences(text, q) # {}
  PROVE  TextFound(db.attachments[i], q)
<1> DEFINE rows == db.fts_attachment_text_content
           ts == db.attachments
           n == Len(rows)
           hits == Attachments(q)
           row == AttachmentRow(ts[i], text)
           R == {r.message_uuid : r \in Range(search_attachment_text_content(db, q, n, 0))}
<1>1. rows = AttachmentRows(ts)
  BY Indexed
<1>2. /\ IsList(ts) /\ DOMAIN ts = 1 .. Len(ts) /\ \A j \in 1 .. Len(ts) : RowShaped("attachments", ts[j])
      /\ IsList(rows) /\ n \in Nat /\ DOMAIN rows = 1 .. n
  <2>1. {"attachments", "fts_attachment_text_content"} \subseteq Tables
    BY DEF Tables, EmptyDatabase
  <2>2. /\ IsList(db["attachments"]) /\ IsList(db["fts_attachment_text_content"])
        /\ \A j \in 1 .. Len(db["attachments"]) : RowShaped("attachments", db["attachments"][j])
    BY <2>1 DEF Shaped
  <2> QED  BY <2>2, ListIs
<1>4. Occurrences(text, q) # {}
  OBVIOUS
<1>5. row \in ToSet(rows)
  <2> HIDE DEF ts
  <2>1. i \in 1 .. Len(ts)
    BY <1>2 DEF ts
  <2>2. \A x : x \in ToSet(AttachmentRows(ts)) <=>
           \E j \in 1 .. Len(ts) : \E y \in ToSet(AttachmentTexts(ts[j])) : x = AttachmentRow(ts[j], y)
    BY <1>2, AttachmentRowsIs
  <2>3. text \in ToSet(AttachmentTexts(ts[i]))
    BY DEF ts
  <2>4. row \in ToSet(AttachmentRows(ts))
    BY <2>1, <2>2, <2>3
  <2> HIDE DEF row, rows
  <2> QED  BY <1>1, <2>4
<1>6. row.text_content = text /\ row.attachment_uuid = ts[i].uuid
  BY DEF AttachmentRow
<1> HIDE DEF row
<1>7. row \in ToSet(TextsHolding(rows, q))
  <2> DEFINE I == {j \in DOMAIN rows : Occurrences(rows[j].text_content, q) # {}}
  <2>1. PICK j \in 1 .. n : row = rows[j]
    BY <1>2, <1>5, ListIs
  <2>2. j \in I
    BY <1>2, <1>4, <1>6, <2>1
  <2>3. TextsHolding(rows, q) = Kept(rows, I)
    BY DEF TextsHolding
  <2> HIDE DEF I, rows
  <2>4. \A x : x \in ToSet(Kept(rows, I)) <=> \E l \in 1 .. Len(rows) : l \in I /\ x = rows[l]
    BY <1>2, KeptIs
  <2> QED  BY <2>1, <2>2, <2>3, <2>4
<1>8. /\ search_attachment_text_content(db, q, n, 0) = BestFirst(hits, n, 0)
      /\ Ranked(hits) /\ Len(hits) \in 0 .. n
      /\ \A x : x \in ToSet(hits) <=> \E f \in ToSet(TextsHolding(rows, q)) : x = AttachmentHit(f, q)
  BY AttachmentsIs
<1> HIDE DEF hits, rows, n
<1>9. Range(BestFirst(hits, n, 0)) = ToSet(hits)
  BY <1>2, <1>8, AllFound
<1>10. AttachmentHit(row, q) \in ToSet(hits)
  BY <1>7, <1>8
<1>11. AttachmentHit(row, q).message_uuid = ts[i].uuid
  BY <1>6 DEF AttachmentHit, SearchResult
<1>12. ts[i].uuid \in R
  BY <1>8, <1>9, <1>10, <1>11
<1> QED  BY <1>12 DEF TextFound, n, rows

Operations(q) ==
  Each(Kept(db.fts_file_operations,
            {i \in DOMAIN db.fts_file_operations : FoundIn(db.fts_file_operations[i], q) # {}}),
       LAMBDA o : FileOperationRow(o, q))

\* What comes of reading the rows of a page of operations.
ReadAll(page) ==
  IF \E i \in DOMAIN page : page[i].snippet = None THEN Err("InvalidColumnType")
  ELSE Ok([i \in DOMAIN page |-> FileOperationSearchResult(page[i])])

LEMMA FoundInIs ==
  ASSUME NEW o, RowShaped("fts_file_operations", o), NEW q, IsList(q)
  PROVE  Cardinality(FoundIn(o, q)) \in Nat
<1> DEFINE C == {"content", "old_content", "command"}
           P(c) == IF o[c] = None THEN {} ELSE {c} \X Occurrences(o[c][1], q)
<1>1. ASSUME NEW c \in C
      PROVE  IsFiniteSet(P(c))
  <2>1. CASE o[c] = None
    BY <2>1, FS_EmptySet
  <2>2. CASE o[c] # None
    <3> DEFINE t == o[c][1]
               S == Occurrences(t, q)
               N == Len(Tokens(t)) - Len(Tokens(q)) + 1
    <3>1. IsList(t)
      BY <2>2 DEF RowShaped, NullableText
    <3>2. N \in Int
      <4> HIDE DEF t
      <4>1. Len(Tokens(t)) \in Nat /\ Len(Tokens(q)) \in Nat
        BY <3>1, TokensIs, ListIs
      <4> QED  BY <4>1
    <3>3. S \in SUBSET (1 .. N)
      BY DEF Occurrences
    <3> HIDE DEF N, S
    <3>4. IsFiniteSet(1 .. N)
      BY <3>2, FS_Interval
    <3>5. IsFiniteSet(S)
      BY <3>3, <3>4, FS_Subset
    <3>6. IsFiniteSet({c})
      BY FS_Singleton
    <3>7. IsFiniteSet({c} \X S)
      BY <3>5, <3>6, FS_Product
    <3> QED  BY <2>2, <3>7 DEF S
  <2> QED  BY <2>1, <2>2
<1> HIDE DEF P
<1>2. IsFiniteSet((P("content") \cup P("old_content")) \cup P("command"))
  <2>1. IsFiniteSet(P("content")) /\ IsFiniteSet(P("old_content")) /\ IsFiniteSet(P("command"))
    BY <1>1
  <2>2. IsFiniteSet(P("content") \cup P("old_content"))
    BY <2>1, FS_Union
  <2> QED  BY <2>1, <2>2, FS_Union
<1>3. FoundIn(o, q) = (P("content") \cup P("old_content")) \cup P("command")
  <2>1. FoundIn(o, q) = UNION {P(c) : c \in C}
    BY DEF FoundIn, P
  <2>2. ASSUME NEW x
        PROVE  x \in UNION {P(c) : c \in C} <=> x \in (P("content") \cup P("old_content")) \cup P("command")
    OBVIOUS
  <2> QED  BY <2>1, <2>2
<1> QED  BY <1>2, <1>3, FS_CardinalityType

LEMMA RowIs ==
  ASSUME NEW o, NEW q
  PROVE  /\ FileOperationRow(o, q).id = o.id
         /\ FileOperationRow(o, q).snippet = o.content
         /\ FileOperationRow(o, q)["rank"] = Cardinality(FoundIn(o, q))
         /\ FileOperationSearchResult(FileOperationRow(o, q)).id = o.id
<1> DEFINE a == Columns(o, {"id", "session_id", "file_path", "operation_type", "timestamp"})
           r == Cardinality(FoundIn(o, q))
           b == [snippet |-> o.content, rank |-> r]
           h == With(a, b)
<1>1. FileOperationRow(o, q) = h
  BY DEF FileOperationRow
<1>2. "id" \in DOMAIN a /\ a["id"] = o.id /\ "rank" \notin DOMAIN a /\ "snippet" \notin DOMAIN a
  BY DEF Columns
<1>3. "rank" \in DOMAIN b /\ b["rank"] = r /\ "snippet" \in DOMAIN b /\ b["snippet"] = o.content
  OBVIOUS
<1> HIDE DEF a, b, r
<1>4. h["id"] = o.id /\ h["rank"] = r /\ h["snippet"] = o.content /\ "id" \in DOMAIN h
  BY <1>2, <1>3 DEF With
<1> HIDE DEF h
<1>5. FileOperationSearchResult(h).id = h["id"]
  BY <1>4 DEF FileOperationSearchResult
<1> QED  BY <1>1, <1>4, <1>5 DEF r

LEMMA OperationsIs ==
  ASSUME Shaped, NEW q, IsList(q)
  PROVE  /\ \A k, o : search_file_operations(db, q, k, o) = ReadAll(BestFirst(Operations(q), k, o))
         /\ Ranked(Operations(q)) /\ Len(Operations(q)) \in 0 .. Len(db.fts_file_operations)
         /\ \A x \in ToSet(Operations(q)) : \E i \in 1 .. Len(db.fts_file_operations) :
               /\ FoundIn(db.fts_file_operations[i], q) # {}
               /\ x = FileOperationRow(db.fts_file_operations[i], q)
         /\ \A i \in 1 .. Len(db.fts_file_operations) :
               FoundIn(db.fts_file_operations[i], q) # {} =>
                  FileOperationRow(db.fts_file_operations[i], q) \in ToSet(Operations(q))
<1> DEFINE rows == db.fts_file_operations
           F(o) == FileOperationRow(o, q)
           I == {i \in DOMAIN rows : FoundIn(rows[i], q) # {}}
           w == Kept(rows, I)
           hits == Operations(q)
<1>1. \A k, o : search_file_operations(db, q, k, o) = ReadAll(BestFirst(hits, k, o))
  <2>1. OperationHits(db, q) = hits
    BY DEF OperationHits, Operations, Select, Each
  <2> HIDE DEF hits
  <2> QED  BY <2>1 DEF search_file_operations, ReadAll, Each
<1>2. /\ IsList(rows) /\ DOMAIN rows = 1 .. Len(rows)
      /\ \A i \in 1 .. Len(rows) : RowShaped("fts_file_operations", rows[i])
  <2>1. "fts_file_operations" \in Tables
    BY DEF Tables, EmptyDatabase
  <2>2. IsList(rows) /\ \A i \in 1 .. Len(rows) : RowShaped("fts_file_operations", rows[i])
    BY <2>1 DEF Shaped
  <2> QED  BY <2>2, ListIs
<1>3. hits = [i \in DOMAIN w |-> F(w[i])]
  BY DEF Operations, Each
<1>4. \A i \in 1 .. Len(rows) : i \in I <=> FoundIn(rows[i], q) # {}
  BY <1>2
<1>5. \A o : RowShaped("fts_file_operations", o) => F(o)["rank"] \in Nat
  BY RowIs, FoundInIs
<1> HIDE DEF rows, I, hits, F
<1>6. /\ IsList(w) /\ Len(w) \in 0 .. Len(rows)
      /\ \A x : x \in ToSet(w) <=> \E i \in 1 .. Len(rows) : i \in I /\ x = rows[i]
  BY <1>2, KeptIs
<1> HIDE DEF w
<1>7. Len(w) \in Nat /\ DOMAIN w = 1 .. Len(w) /\ \A x : x \in ToSet(w) <=> \E i \in 1 .. Len(w) : x = w[i]
  BY <1>6, ListIs
<1>8. hits = [i \in 1 .. Len(w) |-> hits[i]] /\ \A i \in 1 .. Len(w) : hits[i] = F(w[i])
  BY <1>3, <1>7
<1>9. IsList(hits) /\ Len(hits) = Len(w)
  BY <1>7, <1>8, ListFrom
<1>10. ASSUME NEW l \in 1 .. Len(w)
       PROVE  hits[l]["rank"] \in Nat
  <2>1. w[l] \in ToSet(w)
    BY <1>7
  <2>2. RowShaped("fts_file_operations", w[l])
    BY <1>2, <1>6, <2>1
  <2> QED  BY <1>5, <1>8, <2>2
<1>11. ASSUME NEW i \in 1 .. Len(rows), FoundIn(rows[i], q) # {}
       PROVE  F(rows[i]) \in ToSet(hits)
  <2>1. rows[i] \in ToSet(w)
    BY <1>4, <1>6, <1>11
  <2>2. PICK l \in 1 .. Len(w) : rows[i] = w[l]
    BY <1>7, <2>1
  <2>3. F(rows[i]) = hits[l] /\ l \in 1 .. Len(hits)
    BY <1>8, <1>9, <2>2
  <2> QED  BY <1>9, <2>3, ListIs
<1>12. ASSUME NEW x \in ToSet(hits)
       PROVE  \E i \in 1 .. Len(rows) : FoundIn(rows[i], q) # {} /\ x = F(rows[i])
  <2>1. PICK l \in 1 .. Len(w) : x = F(w[l])
    BY <1>8, <1>9, ListIs
  <2>2. w[l] \in ToSet(w)
    BY <1>7
  <2>3. PICK i \in 1 .. Len(rows) : i \in I /\ w[l] = rows[i]
    BY <1>6, <2>2
  <2> QED  BY <1>4, <2>1, <2>3
<1> QED  BY <1>1, <1>6, <1>9, <1>10, <1>11, <1>12 DEF hits, rows, F, Ranked

\* A text that has a word is not blank.
LEMMA HasAWord ==
  ASSUME NEW text, IsList(text), Tokens(text) # <<>>
  PROVE  ~Blank(text)
<1> DEFINE solid == {i \in DOMAIN text : text[i] # " "}
           lo == Min(solid)
           hi == Max(solid)
<1>1. PICK c \in ToSet(Tokens(text)) : TRUE
  <2>1. IsList(Tokens(text))
    BY TokensIs
  <2> QED  BY <2>1, NoneIn
<1>2. c \in ToSet(text) /\ c \notin Separators
  BY <1>1, TokensIs
<1>3. PICK i \in 1 .. Len(text) : c = text[i]
  BY <1>2, ListIs
<1>4. Len(text) \in Nat /\ DOMAIN text = 1 .. Len(text)
  BY ListIs
<1>5. c # " "
  BY <1>2 DEF Separators
<1>6. solid # {}
  BY <1>3, <1>4, <1>5
<1>7. solid \in SUBSET (0 .. Len(text)) /\ solid \in SUBSET Nat /\ solid \subseteq 1 .. Len(text)
  <2>1. solid \subseteq 1 .. Len(text)
    BY <1>4
  <2>2. 1 .. Len(text) \subseteq 0 .. Len(text) /\ 1 .. Len(text) \subseteq Nat
    BY <1>4
  <2> QED  BY <2>1, <2>2
<1> HIDE DEF solid
<1>8. lo \in solid /\ \A j \in solid : lo <= j
  BY <1>6, <1>7, MinIsLeast
<1>9. hi \in solid
  BY <1>4, <1>6, <1>7, MaxIsGreatest
<1>10. lo \in 1 .. Len(text) /\ hi \in 1 .. Len(text) /\ lo <= hi
  BY <1>7, <1>8, <1>9
<1> HIDE DEF lo, hi
<1>11. SubSeq(text, lo, hi) # <<>>
  <2> DEFINE a == lo - 1
             p == SubSeq(text, a + 1, hi)
  <2>1. a \in Nat /\ hi \in Nat /\ a <= hi /\ hi - a # 0 /\ a + 1 = lo /\ hi <= Len(text)
    BY <1>4, <1>10
  <2> HIDE DEF a
  <2>2. Len(p) = IF a <= hi THEN hi - a ELSE 0
    BY <2>1, Part
  <2>3. Len(p) # 0
    BY <2>1, <2>2
  <2>4. p = SubSeq(text, lo, hi)
    BY <2>1
  <2> HIDE DEF p
  <2> QED  BY <2>3, <2>4, NoElements
<1>12. Trim(text) = SubSeq(text, lo, hi)
  BY <1>6 DEF Trim, lo, hi, solid
<1> QED  BY <1>11, <1>12 DEF Blank

OperationFound(o, q) ==
  LET reply == files_search(db, [q |-> q, limit |-> Len(db.fts_file_operations)])
  IN  IF WithoutSnippet(q) THEN reply = Internal
      ELSE reply.status = 200 /\ o.id \in {r.id : r \in Range(reply.body)}

LEMMA WithoutSnippetIs ==
  ASSUME NEW q, db.fts_file_operations = db.file_operations, IsList(db.file_operations)
  PROVE  WithoutSnippet(q) <=> \E j \in 1 .. Len(db.fts_file_operations) :
            /\ db.fts_file_operations[j].content = None
            /\ FoundIn(db.fts_file_operations[j], q) # {}
<1> DEFINE os == db.file_operations
           Old(o) == \E c \in {"old_content", "command"} : o[c] # None /\ Occurrences(o[c][1], q) # {}
           C == {"content", "old_content", "command"}
<1>1. WithoutSnippet(q) <=> \E o \in Range(os) : o.content = None /\ Old(o)
  BY DEF WithoutSnippet, Holds
<1>2. ASSUME NEW o, o.content = None
      PROVE  Old(o) <=> FoundIn(o, q) # {}
  <2> DEFINE P(c) == IF o[c] = None THEN {} ELSE {c} \X Occurrences(o[c][1], q)
  <2>1. FoundIn(o, q) = UNION {P(c) : c \in C}
    BY DEF FoundIn
  <2>2. \A c : P(c) # {} <=> o[c] # None /\ Occurrences(o[c][1], q) # {}
    <3> TAKE c
    <3> DEFINE S == Occurrences(o[c][1], q)
    <3>1. {c} \X S # {} <=> S # {}
      <4> HIDE DEF S
      <4>1. ASSUME NEW k \in S PROVE <<c, k>> \in {c} \X S
        OBVIOUS
      <4>2. ASSUME NEW x \in {c} \X S PROVE S # {}
        OBVIOUS
      <4> QED  BY <4>1, <4>2
    <3> HIDE DEF S
    <3> QED  BY <3>1 DEF S
  <2>3. o["content"] = None
    BY <1>2
  <2> HIDE DEF P
  <2>4. FoundIn(o, q) # {} <=> \E c \in C : P(c) # {}
    BY <2>1
  <2> QED  BY <2>2, <2>3, <2>4
<1>3. \A o : o \in Range(os) <=> \E j \in 1 .. Len(os) : o = os[j]
  BY ListIs DEF Range
<1> HIDE DEF Old, os
<1>4. ASSUME WithoutSnippet(q)
      PROVE  \E j \in 1 .. Len(os) : os[j].content = None /\ FoundIn(os[j], q) # {}
  <2>1. PICK o \in Range(os) : o.content = None /\ Old(o)
    BY <1>1, <1>4
  <2>2. PICK j \in 1 .. Len(os) : o = os[j]
    BY <1>3
  <2>3. FoundIn(o, q) # {}
    BY <1>2, <2>1
  <2> QED  BY <2>1, <2>2, <2>3
<1>5. ASSUME NEW j \in 1 .. Len(os), os[j].content = None, FoundIn(os[j], q) # {}
      PROVE  WithoutSnippet(q)
  <2> DEFINE o == os[j]
  <2>1. o \in Range(os)
    BY <1>3
  <2>2. Old(o)
    BY <1>2, <1>5
  <2> QED  BY <1>1, <1>5, <2>1, <2>2
<1> QED  BY <1>4, <1>5 DEF os

LEMMA OperationsFound ==
  ASSUME Shaped, db = Rebuilt, NEW i \in DOMAIN db.file_operations,
         NEW c \in {"content", "old_content", "command"}, db.file_operations[i][c] # None,
         NEW q, IsList(q), Tokens(q) # <<>>, Occurrences(db.file_operations[i][c][1], q) # {}
  PROVE  OperationFound(db.file_operations[i], q)
<1> DEFINE rows == db.fts_file_operations
           n == Len(rows)
           o == rows[i]
           hits == Operations(q)
           page == BestFirst(hits, n, 0)
           asked == [q |-> q, limit |-> n]
           result == search_file_operations(db, q, n, 0)
           reply == files_search(db, asked)
<1>1. rows = db.file_operations
  BY Indexed
<1>2. IsList(rows) /\ n \in Nat /\ DOMAIN rows = 1 .. n
  <2>1. "fts_file_operations" \in Tables
    BY DEF Tables, EmptyDatabase
  <2>2. IsList(rows)
    BY <2>1 DEF Shaped
  <2> QED  BY <2>2, ListIs
<1>3. i \in 1 .. n /\ o[c] # None
  BY <1>1, <1>2
<1>4. FoundIn(o, q) # {}
  <2>1. PICK k : k \in Occurrences(o[c][1], q)
    BY <1>1
  <2> DEFINE P(d) == IF o[d] = None THEN {} ELSE {d} \X Occurrences(o[d][1], q)
  <2>2. <<c, k>> \in P(c)
    BY <1>3, <2>1
  <2>3. FoundIn(o, q) = UNION {P(d) : d \in {"content", "old_content", "command"}}
    BY DEF FoundIn
  <2> HIDE DEF P
  <2> QED  BY <2>2, <2>3
<1>5. /\ result = ReadAll(page)
      /\ Ranked(hits) /\ Len(hits) \in 0 .. n
      /\ \A x \in ToSet(hits) : \E j \in 1 .. n : FoundIn(rows[j], q) # {} /\ x = FileOperationRow(rows[j], q)
      /\ \A j \in 1 .. n : FoundIn(rows[j], q) # {} => FileOperationRow(rows[j], q) \in ToSet(hits)
  BY OperationsIs
<1>6. reply = IF result.ok THEN Json(result.value) ELSE Internal
  <2>1. asked["q"] = q /\ LimitOf(asked, "files_search") = n /\ OffsetOf(asked) = 0
    BY DEF LimitOf, OffsetOf
  <2>2. ~Blank(q)
    BY HasAWord
  <2> HIDE DEF asked
  <2> QED  BY <2>1, <2>2 DEF files_search
<1>7. WithoutSnippet(q) <=> \E j \in 1 .. n : rows[j].content = None /\ FoundIn(rows[j], q) # {}
  BY <1>1, <1>2, WithoutSnippetIs
<1> HIDE DEF hits, n, result
<1>8. Range(page) = ToSet(hits)
  BY <1>2, <1>5, AllFound
<1>9. \A x : x \in ToSet(hits) <=> \E j \in DOMAIN page : x = page[j]
  BY <1>8 DEF Range
<1> HIDE DEF page, rows, reply
<1>10. WithoutSnippet(q) <=> \E l \in DOMAIN page : page[l].snippet = None
  <2>1. ASSUME WithoutSnippet(q)
        PROVE  \E l \in DOMAIN page : page[l].snippet = None
    <3>1. PICK j \in 1 .. n : rows[j].content = None /\ FoundIn(rows[j], q) # {}
      BY <1>7, <2>1
    <3>2. PICK l \in DOMAIN page : FileOperationRow(rows[j], q) = page[l]
      BY <1>5, <1>9, <3>1
    <3> QED  BY <3>1, <3>2, RowIs
  <2>2. ASSUME NEW l \in DOMAIN page, page[l].snippet = None
        PROVE  WithoutSnippet(q)
    <3>1. page[l] \in ToSet(hits)
      BY <1>9
    <3>2. PICK j \in 1 .. n : FoundIn(rows[j], q) # {} /\ page[l] = FileOperationRow(rows[j], q)
      BY <1>5, <3>1
    <3>3. rows[j].content = None
      BY <2>2, <3>2, RowIs
    <3> QED  BY <1>7, <3>2, <3>3
  <2> QED  BY <2>1, <2>2
<1>11. CASE WithoutSnippet(q)
  <2>1. result.ok = FALSE
    BY <1>5, <1>10, <1>11 DEF ReadAll, Err
  <2>2. reply = Internal
    BY <1>6, <2>1
  <2> QED  BY <1>1, <1>11, <2>2 DEF OperationFound, reply, asked, n, rows
<1>12. CASE ~WithoutSnippet(q)
  <2> DEFINE found == [l \in DOMAIN page |-> FileOperationSearchResult(page[l])]
  <2>1. result.ok = TRUE /\ result.value = found
    BY <1>5, <1>10, <1>12 DEF ReadAll, Ok
  <2>2. reply.status = 200 /\ reply.body = found
    BY <1>6, <2>1 DEF Json
  <2>3. PICK l \in DOMAIN page : page[l] = FileOperationRow(o, q)
    BY <1>3, <1>4, <1>5, <1>9
  <2>4. found[l].id = o.id /\ found[l] \in Range(found)
    BY <2>3, RowIs DEF Range
  <2> HIDE DEF found
  <2>5. o.id \in {r.id : r \in Range(reply.body)}
    BY <2>2, <2>4
  <2> QED  BY <1>1, <1>12, <2>2, <2>5 DEF OperationFound, reply, asked, n, rows
<1> QED  BY <1>11, <1>12

\* Every stored text is found.
LEMMA FoundInv == IInv => StoredTextIsFound
<1> SUFFICES ASSUME IInv, db = Rebuilt
             PROVE  StoredTextIsFound
  BY DEF StoredTextIsFound
<1> DEFINE bs == db.message_content
           ts == db.attachments
           os == db.file_operations
<1>1. Shaped /\ Kinship
  BY DEF IInv
<1>2. /\ \A i \in DOMAIN bs : RowShaped("message_content", bs[i])
      /\ \A i \in DOMAIN os : RowShaped("file_operations", os[i])
      /\ \A i \in DOMAIN ts : RowShaped("attachments", ts[i])
  <2>1. {"message_content", "file_operations", "attachments"} \subseteq Tables
    BY DEF Tables, EmptyDatabase
  <2>2. /\ IsList(db["message_content"]) /\ IsList(db["file_operations"]) /\ IsList(db["attachments"])
        /\ \A j \in 1 .. Len(db["attachments"]) : RowShaped("attachments", db["attachments"][j])
        /\ \A j \in 1 .. Len(db["message_content"]) : RowShaped("message_content", db["message_content"][j])
        /\ \A j \in 1 .. Len(db["file_operations"]) : RowShaped("file_operations", db["file_operations"][j])
    BY <1>1, <2>1 DEF Shaped
  <2> QED  BY <2>2, ListIs
<1>3. ASSUME NEW column, NullableText(column), NEW t \in Range(column)
      PROVE  column # None /\ t = column[1] /\ IsList(t)
  <2>1. CASE column = None
    BY <1>3, <2>1 DEF Range, None
  <2>2. CASE column # None
    <3>1. column = <<column[1]>> /\ IsList(column[1])
      BY <1>3, <2>2 DEF NullableText, Some
    <3> DEFINE x == column[1]
    <3>2. DOMAIN <<x>> = {1} /\ <<x>>[1] = x
      OBVIOUS
    <3>3. t \in Range(<<x>>)
      BY <1>3, <3>1
    <3> HIDE DEF x
    <3>4. t = x
      BY <3>2, <3>3 DEF Range
    <3> QED  BY <2>2, <3>1, <3>4 DEF x
  <2> QED  BY <2>1, <2>2
<1>4. ASSUME NEW t, IsList(t), NEW q \in Questions(t)
      PROVE  IsList(q) /\ Tokens(q) # <<>> /\ Occurrences(t, q) # {}
  <2>1. q \in {t} \cup {<<c>> : c \in Range(Tokens(t))} /\ Tokens(q) # <<>>
    BY DEF Questions
  <2>2. CASE q = t
    BY <1>4, <2>1, <2>2, WholeOccurs
  <2>3. CASE q # t
    <3>1. PICK c \in Range(Tokens(t)) : q = <<c>>
      BY <2>1, <2>3
    <3>2. c \in ToSet(Tokens(t))
      BY <3>1 DEF Range, ToSet
    <3> QED  BY <1>4, <2>1, <3>1, <3>2, WordOccurs
  <2> QED  BY <2>2, <2>3
<1>5. ASSUME NEW i \in DOMAIN bs, NEW t \in Range(bs[i].text_content), NEW q \in Questions(t)
      PROVE  BlockFound(bs[i], q)
  <2>1. NullableText(bs[i].text_content)
    BY <1>2 DEF RowShaped
  <2>2. bs[i].text_content # None /\ t = bs[i].text_content[1] /\ IsList(t)
    BY <1>3, <2>1
  <2>3. IsList(q) /\ Occurrences(t, q) # {}
    BY <1>4, <2>2
  <2> QED  BY <1>1, <2>2, <2>3, BlocksFound
<1>6. ASSUME NEW i \in DOMAIN ts, NEW text \in Range(AttachmentTexts(ts[i])), NEW q \in Questions(text)
      PROVE  TextFound(ts[i], q)
  <2>1. text \in ToSet(AttachmentTexts(ts[i]))
    BY DEF Range, ToSet
  <2>2. IsList(text)
    BY <1>2, <2>1, AttachmentTextsIs
  <2>3. IsList(q) /\ Occurrences(text, q) # {}
    BY <1>4, <2>2
  <2> QED  BY <1>1, <2>1, <2>3, TextsFound
<1>7. ASSUME NEW i \in DOMAIN os, NEW c \in {"content", "old_content", "command"},
             NEW text \in Range(os[i][c]), NEW q \in Questions(text)
      PROVE  OperationFound(os[i], q)
  <2>1. NullableText(os[i][c])
    BY <1>2 DEF RowShaped
  <2>2. os[i][c] # None /\ text = os[i][c][1] /\ IsList(text)
    BY <1>3, <2>1
  <2>3. IsList(q) /\ Tokens(q) # <<>> /\ Occurrences(text, q) # {}
    BY <1>4, <2>2
  <2> QED  BY <1>1, <2>2, <2>3, OperationsFound
<1>8. \A i \in DOMAIN bs : \A t \in Range(bs[i].text_content) : \A q \in Questions(t) : BlockFound(bs[i], q)
  BY <1>5
<1>9. \A i \in DOMAIN ts : \A text \in Range(AttachmentTexts(ts[i])) : \A q \in Questions(text) :
         TextFound(ts[i], q)
  BY <1>6
<1>10. \A i \in DOMAIN os : \A c \in {"content", "old_content", "command"} :
          \A text \in Range(os[i][c]) : \A q \in Questions(text) : OperationFound(os[i], q)
  BY <1>7
<1> QED  BY <1>8, <1>9, <1>10, Zenon DEF StoredTextIsFound, BlockFound, TextFound, OperationFound

\* Once the indexes are rebuilt, whatever the feed and however its batches and
\* the rebuilds were interleaved, each stored text is found by itself and by
\* each of its words: a block by the search of messages, a plan by that of
\* plans too, an attachment's text and each text of a file operation by
\* theirs; but exactly when an operation without content holds the phrase,
\* that search fails instead (fts.rs).
THEOREM EveryTextFound ==
  Spec => []StoredTextIsFound
<1> QED  BY FoundInv, Invariance, PTL

-----------------------------------------------------------------------------
(***************************************************************************)
(* The order of texts, which is the one of their characters' places.       *)
(***************************************************************************)
LEMMA WrittenIs ==
  ASSUME NEW a, Written(a)
  PROVE  IsList(a) /\ Len(a) \in Nat /\ \A i \in 1 .. Len(a) : a[i] \in DOMAIN Rank /\ Rank[a[i]] \in Nat
<1>1. IsList(a)
  BY ListOf DEF Written
<1>2. Len(a) \in Nat /\ \A i \in 1 .. Len(a) : a[i] \in DOMAIN Rank
  BY DEF Written
<1>3. \A i \in 1 .. Len(a) : Rank[a[i]] \in Nat
  BY <1>2, RankAssumption
<1> QED  BY <1>1, <1>2, <1>3

\* The texts are alike up to place i, and there a is less.
LessAt(a, b, i) ==
  /\ i \in 1 .. Len(a) /\ i \in 1 .. Len(b)
  /\ \A j \in 1 .. i - 1 : a[j] = b[j]
  /\ Rank[a[i]] < Rank[b[i]]

Begins(a, b) == Len(a) < Len(b) /\ \A j \in 1 .. Len(a) : a[j] = b[j]

LEMMA TextBeforeIs ==
  ASSUME NEW a, NEW b, Written(a), Written(b)
  PROVE  /\ TextBefore(a, b) <=> Begins(a, b) \/ \E i : LessAt(a, b, i)
         /\ TextBefore(a, b) \in BOOLEAN
<1> DEFINE common == 1 .. (IF Len(a) < Len(b) THEN Len(a) ELSE Len(b))
           differ == {i \in common : a[i] # b[i]}
<1>1. TextBefore(a, b) = IF differ = {} THEN Len(a) < Len(b)
                         ELSE Rank[a[Min(differ)]] < Rank[b[Min(differ)]]
  BY DEF TextBefore
<1>2. Len(a) \in Nat /\ Len(b) \in Nat
  BY WrittenIs
<1>3. \A i : i \in common <=> i \in 1 .. Len(a) /\ i \in 1 .. Len(b)
  BY <1>2
<1>4. \A i : i \in differ <=> i \in 1 .. Len(a) /\ i \in 1 .. Len(b) /\ a[i] # b[i]
  BY <1>3
<1>5. differ \in SUBSET Nat
  BY <1>2, <1>4
<1> HIDE DEF common, differ
<1>6. CASE differ = {}
  <2>1. \A i : ~LessAt(a, b, i)
    <3> SUFFICES ASSUME NEW i, LessAt(a, b, i) PROVE FALSE
      OBVIOUS
    <3>1. i \in 1 .. Len(a) /\ i \in 1 .. Len(b) /\ a[i] = b[i]
      BY <1>4, <1>6 DEF LessAt
    <3>2. Rank[a[i]] \in Nat
      BY <3>1, WrittenIs
    <3> QED  BY <3>1, <3>2 DEF LessAt
  <2>2. Len(a) < Len(b) => \A j \in 1 .. Len(a) : a[j] = b[j]
    BY <1>2, <1>4, <1>6
  <2>3. TextBefore(a, b) = (Len(a) < Len(b))
    BY <1>1, <1>6
  <2>4. (Len(a) < Len(b)) <=> Begins(a, b)
    BY <2>2 DEF Begins
  <2>5. Begins(a, b) \in BOOLEAN
    BY DEF Begins
  <2>6. TextBefore(a, b) = Begins(a, b)
    BY <2>3, <2>4, <2>5
  <2> QED  BY <2>1, <2>5, <2>6, Zenon
<1>7. CASE differ # {}
  <2> DEFINE m == Min(differ)
  <2>1. m \in differ /\ \A i \in differ : m <= i
    BY <1>5, <1>7, MinIsLeast
  <2>2. m \in 1 .. Len(a) /\ m \in 1 .. Len(b) /\ a[m] # b[m]
    BY <1>4, <2>1
  <2>3. TextBefore(a, b) = (Rank[a[m]] < Rank[b[m]])
    BY <1>1, <1>7
  <2> HIDE DEF m
  <2>4. \A j \in 1 .. m - 1 : a[j] = b[j]
    <3> TAKE j \in 1 .. m - 1
    <3>1. j \in 1 .. Len(a) /\ j \in 1 .. Len(b) /\ ~(m <= j)
      BY <1>2, <2>2
    <3> QED  BY <1>4, <2>1, <3>1
  <2>5. ~Begins(a, b)
    BY <2>2 DEF Begins
  <2>6. ASSUME NEW i, LessAt(a, b, i)
        PROVE  i = m
    <3>1. i \in 1 .. Len(a) /\ i \in 1 .. Len(b) /\ \A j \in 1 .. i - 1 : a[j] = b[j]
      BY <2>6 DEF LessAt
    <3>2. m \notin 1 .. i - 1
      BY <2>2, <3>1
    <3>3. a[i] # b[i]
      <4>1. Rank[a[i]] \in Nat /\ Rank[a[i]] < Rank[b[i]]
        BY <2>6, <3>1, WrittenIs DEF LessAt
      <4> QED  BY <4>1
    <3>4. m <= i
      BY <1>4, <2>1, <3>1, <3>3
    <3> QED  BY <2>2, <3>1, <3>2, <3>4
  <2>7. Rank[a[m]] < Rank[b[m]] => LessAt(a, b, m)
    BY <2>2, <2>4 DEF LessAt
  <2>8. LessAt(a, b, m) => Rank[a[m]] < Rank[b[m]]
    BY DEF LessAt
  <2>9. (Rank[a[m]] < Rank[b[m]]) \in BOOLEAN /\ LessAt(a, b, m) \in BOOLEAN
    BY DEF LessAt
  <2>10. TextBefore(a, b) = LessAt(a, b, m)
    BY <2>3, <2>7, <2>8, <2>9
  <2>11. (\E i : LessAt(a, b, i)) <=> LessAt(a, b, m)
    BY <2>6
  <2> QED  BY <2>5, <2>9, <2>10, <2>11, Zenon
<1> QED  BY <1>6, <1>7

LEMMA TextOrder ==
  ASSUME NEW a, NEW b, NEW c, Written(a), Written(b), Written(c)
  PROVE  /\ ~TextBefore(a, a)
         /\ a # b => TextBefore(a, b) \/ TextBefore(b, a)
         /\ TextBefore(a, b) /\ TextBefore(b, c) => TextBefore(a, c)
<1>1. /\ Len(a) \in Nat /\ \A i \in 1 .. Len(a) : a[i] \in DOMAIN Rank /\ Rank[a[i]] \in Nat
      /\ Len(b) \in Nat /\ \A i \in 1 .. Len(b) : b[i] \in DOMAIN Rank /\ Rank[b[i]] \in Nat
      /\ Len(c) \in Nat /\ \A i \in 1 .. Len(c) : c[i] \in DOMAIN Rank /\ Rank[c[i]] \in Nat
      /\ IsList(a) /\ IsList(b)
  BY WrittenIs
<1>2. ~TextBefore(a, a)
  <2>1. ~Begins(a, a)
    BY <1>1 DEF Begins
  <2>2. \A i : ~LessAt(a, a, i)
    BY <1>1 DEF LessAt
  <2> QED  BY <2>1, <2>2, TextBeforeIs
<1>3. ASSUME a # b
      PROVE  TextBefore(a, b) \/ TextBefore(b, a)
  <2> DEFINE S == {i \in 1 .. Len(a) : i \in 1 .. Len(b) /\ a[i] # b[i]}
  <2>1. CASE S = {}
    <3>1. \A i \in 1 .. Len(a) : i \in 1 .. Len(b) => a[i] = b[i]
      BY <2>1
    <3>2. CASE Len(a) = Len(b)
      BY <1>1, <1>3, <3>1, <3>2, SameLists
    <3>3. CASE Len(a) < Len(b)
      <4>1. Begins(a, b)
        BY <1>1, <3>1, <3>3 DEF Begins
      <4> QED  BY <4>1, TextBeforeIs
    <3>4. CASE Len(b) < Len(a)
      <4>1. Begins(b, a)
        BY <1>1, <3>1, <3>4 DEF Begins
      <4> QED  BY <4>1, TextBeforeIs
    <3> QED  BY <1>1, <3>2, <3>3, <3>4
  <2>2. CASE S # {}
    <3>1. S \in SUBSET Nat
      OBVIOUS
    <3>2. PICK m \in S : \A i \in S : m <= i
      BY <2>2, <3>1, LeastExists, Zenon
    <3>3. m \in 1 .. Len(a) /\ m \in 1 .. Len(b) /\ a[m] # b[m]
      BY <3>2
    <3>4. \A j \in 1 .. m - 1 : a[j] = b[j]
      <4> TAKE j \in 1 .. m - 1
      <4>1. j \in 1 .. Len(a) /\ j \in 1 .. Len(b) /\ ~(m <= j)
        BY <1>1, <3>3
      <4> QED  BY <3>2, <4>1
    <3>5. Rank[a[m]] # Rank[b[m]] /\ Rank[a[m]] \in Nat /\ Rank[b[m]] \in Nat
      BY <1>1, <3>3, RankAssumption
    <3>6. LessAt(a, b, m) \/ LessAt(b, a, m)
      BY <3>3, <3>4, <3>5 DEF LessAt
    <3> QED  BY <3>6, TextBeforeIs
  <2> QED  BY <2>1, <2>2
<1>4. ASSUME TextBefore(a, b), TextBefore(b, c)
      PROVE  TextBefore(a, c)
  <2>1. (Begins(a, b) \/ \E i : LessAt(a, b, i)) /\ (Begins(b, c) \/ \E i : LessAt(b, c, i))
    BY <1>4, TextBeforeIs
  <2>2. ASSUME NEW i, LessAt(a, b, i), NEW j, LessAt(b, c, j)
        PROVE  \E k : LessAt(a, c, k)
    <3>1. /\ i \in 1 .. Len(a) /\ i \in 1 .. Len(b) /\ j \in 1 .. Len(b) /\ j \in 1 .. Len(c)
          /\ \A k \in 1 .. i - 1 : a[k] = b[k]
          /\ \A k \in 1 .. j - 1 : b[k] = c[k]
          /\ Rank[a[i]] < Rank[b[i]] /\ Rank[b[j]] < Rank[c[j]]
      BY <2>2 DEF LessAt
    <3>2. CASE i < j
      <4>1. LessAt(a, c, i)
        BY <1>1, <3>1, <3>2 DEF LessAt
      <4> QED  BY <4>1
    <3>3. CASE i = j
      <4>1. LessAt(a, c, i)
        BY <1>1, <3>1, <3>3 DEF LessAt
      <4> QED  BY <4>1
    <3>4. CASE j < i
      <4>1. LessAt(a, c, j)
        BY <1>1, <3>1, <3>4 DEF LessAt
      <4> QED  BY <4>1
    <3> QED  BY <1>1, <3>1, <3>2, <3>3, <3>4
  <2>3. ASSUME NEW i, LessAt(a, b, i), Begins(b, c)
        PROVE  LessAt(a, c, i)
    <3>1. i \in 1 .. Len(c) /\ \A k \in 1 .. Len(b) : b[k] = c[k]
      BY <1>1, <2>3 DEF LessAt, Begins
    <3>2. \A k \in 1 .. i - 1 : k \in 1 .. Len(b)
      BY <1>1, <2>3 DEF LessAt
    <3> QED  BY <2>3, <3>1, <3>2 DEF LessAt
  <2>4. ASSUME Begins(a, b), NEW j, LessAt(b, c, j)
        PROVE  Begins(a, c) \/ LessAt(a, c, j)
    <3>1. /\ Len(a) < Len(b) /\ \A k \in 1 .. Len(a) : a[k] = b[k]
          /\ j \in 1 .. Len(b) /\ j \in 1 .. Len(c) /\ \A k \in 1 .. j - 1 : b[k] = c[k]
          /\ Rank[b[j]] < Rank[c[j]]
      BY <2>4 DEF Begins, LessAt
    <3>2. CASE j \in 1 .. Len(a)
      <4>1. \A k \in 1 .. j - 1 : k \in 1 .. Len(a)
        BY <1>1, <3>2
      <4> QED  BY <3>1, <3>2, <4>1 DEF LessAt
    <3>3. CASE j \notin 1 .. Len(a)
      <4>1. Len(a) < Len(c) /\ \A k \in 1 .. Len(a) : k \in 1 .. j - 1
        BY <1>1, <3>1, <3>3
      <4> QED  BY <3>1, <4>1 DEF Begins
    <3> QED  BY <3>2, <3>3
  <2>5. ASSUME Begins(a, b), Begins(b, c)
        PROVE  Begins(a, c)
    <3>1. \A k \in 1 .. Len(a) : k \in 1 .. Len(b)
      BY <1>1, <2>5 DEF Begins
    <3> QED  BY <1>1, <2>5, <3>1 DEF Begins
  <2>6. Begins(a, c) \/ \E k : LessAt(a, c, k)
    BY <2>1, <2>2, <2>3, <2>4, <2>5
  <2> QED  BY <2>6, TextBeforeIs
<1> QED  BY <1>2, <1>3, <1>4

\* NULL or a text: what rows are grouped by.
Key(x) == x = None \/ (x = Some(x[1]) /\ Written(x[1]))

LEMMA KeyOrder ==
  ASSUME NEW x, NEW y, NEW z, Key(x), Key(y), Key(z)
  PROVE  /\ ~NullableBefore(x, x)
         /\ x # y => NullableBefore(x, y) \/ NullableBefore(y, x)
         /\ NullableBefore(x, y) /\ NullableBefore(y, z) => NullableBefore(x, z)
<1> DEFINE isText(k) == k = Some(k[1]) /\ Written(k[1])
<1>1. \A k : Key(k) <=> k = None \/ isText(k)
  BY DEF Key
<1>2. \A k : isText(k) => k # None
  BY DEF Some, None
<1>3. \A k, l : isText(k) /\ isText(l) /\ k # l => k[1] # l[1]
  OBVIOUS
<1>4. /\ isText(x) => ~TextBefore(x[1], x[1])
      /\ isText(x) /\ isText(y) /\ x[1] # y[1] => TextBefore(x[1], y[1]) \/ TextBefore(y[1], x[1])
      /\ isText(x) /\ isText(y) /\ isText(z) /\ TextBefore(x[1], y[1]) /\ TextBefore(y[1], z[1])
            => TextBefore(x[1], z[1])
  BY TextOrder
<1>5. \A k, l : /\ k = None => (NullableBefore(k, l) <=> l # None)
                /\ k # None => (NullableBefore(k, l) <=> l # None /\ TextBefore(k[1], l[1]))
  BY DEF NullableBefore
<1>6. isText(x) \in BOOLEAN /\ isText(y) \in BOOLEAN /\ isText(z) \in BOOLEAN
  BY DEF Written
<1> HIDE DEF isText
<1>7. ~NullableBefore(x, x)
  BY <1>1, <1>2, <1>4, <1>5
<1>8. x # y => NullableBefore(x, y) \/ NullableBefore(y, x)
  BY <1>1, <1>2, <1>3, <1>4, <1>5
<1>9. NullableBefore(x, y) /\ NullableBefore(y, z) => NullableBefore(x, z)
  BY <1>1, <1>2, <1>4, <1>5
<1> QED  BY <1>7, <1>8, <1>9

\* Each value of a list once, and none is lost.
LEMMA DistinctOnce ==
  ASSUME NEW v, IsList(v)
  PROVE  /\ IsList(Distinct(v)) /\ \A x : x \in ToSet(Distinct(v)) <=> x \in ToSet(v)
         /\ \A j, k \in 1 .. Len(Distinct(v)) : Distinct(v)[j] = Distinct(v)[k] => j = k
<1> DEFINE I == {i \in DOMAIN v : \A j \in 1 .. i - 1 : v[j] # v[i]}
           d == Kept(v, I)
<1>1. DOMAIN v = 1 .. Len(v) /\ Len(v) \in Nat /\ \A x : x \in ToSet(v) <=> \E i \in 1 .. Len(v) : x = v[i]
  BY ListIs
<1>2. Distinct(v) = d
  BY DEF Distinct
<1>3. \A i \in 1 .. Len(v) : i \in I <=> \A j \in 1 .. i - 1 : v[j] # v[i]
  BY <1>1
<1> HIDE DEF I
<1>4. IsList(d) /\ \A x : x \in ToSet(d) <=> \E i \in 1 .. Len(v) : i \in I /\ x = v[i]
  BY KeptIs
<1>5. PICK e : KeptFrom(e, d, v, I)
  BY KeptPlaces
<1> HIDE DEF d
<1>6. ASSUME NEW x, x \in ToSet(v)
      PROVE  x \in ToSet(d)
  <2> DEFINE S == {i \in 1 .. Len(v) : x = v[i]}
  <2>1. S \in SUBSET Nat /\ S # {}
    BY <1>1, <1>6
  <2>2. PICK i \in S : \A j \in S : i <= j
    BY <2>1, LeastExists, Zenon
  <2>3. i \in 1 .. Len(v) /\ x = v[i]
    BY <2>2
  <2>4. \A j \in 1 .. i - 1 : v[j] # v[i]
    <3> TAKE j \in 1 .. i - 1
    <3>1. j \in 1 .. Len(v) /\ ~(i <= j)
      BY <1>1, <2>3
    <3> QED  BY <2>2, <2>3, <3>1
  <2> QED  BY <1>3, <1>4, <2>3, <2>4
<1>7. \A x : x \in ToSet(d) <=> x \in ToSet(v)
  BY <1>1, <1>4, <1>6
<1>8. ASSUME NEW j \in 1 .. Len(d), NEW k \in 1 .. Len(d), d[j] = d[k]
      PROVE  j = k
  <2>1. /\ e[j] \in 1 .. Len(v) /\ e[j] \in I /\ d[j] = v[e[j]]
        /\ e[k] \in 1 .. Len(v) /\ e[k] \in I /\ d[k] = v[e[k]]
        /\ e[j] = e[k] => j = k
    BY <1>5 DEF KeptFrom, Picks
  <2>2. v[e[j]] = v[e[k]]
    BY <1>8, <2>1
  <2>3. ~(e[j] < e[k]) /\ ~(e[k] < e[j])
    <3>1. e[j] \notin 1 .. e[k] - 1 /\ e[k] \notin 1 .. e[j] - 1
      BY <1>3, <2>1, <2>2
    <3> QED  BY <2>1, <3>1
  <2> QED  BY <2>1, <2>3
<1> QED  BY <1>2, <1>4, <1>7, <1>8

\* The keys that rows are grouped by.
KeysOf(v) == Ordered(Distinct(v), NullableBefore)

\* The order of keys; of equal ones, the earlier.
Earlier(d, i, j) == \/ i < j /\ ~NullableBefore(d[j], d[i])
                    \/ i > j /\ NullableBefore(d[i], d[j])

LEMMA KeysAre ==
  ASSUME NEW v, IsList(v), \A i \in 1 .. Len(v) : Key(v[i])
  PROVE  /\ IsList(KeysOf(v)) /\ Len(KeysOf(v)) \in Nat
         /\ \A j, k \in 1 .. Len(KeysOf(v)) : KeysOf(v)[j] = KeysOf(v)[k] => j = k
         /\ \A i \in 1 .. Len(v) : \E k \in 1 .. Len(KeysOf(v)) : KeysOf(v)[k] = v[i]
         /\ \A k \in 1 .. Len(KeysOf(v)) : \E i \in 1 .. Len(v) : KeysOf(v)[k] = v[i]
<1> DEFINE d == Distinct(v)
           n == Len(d)
           R == {p \in (DOMAIN d) \X (DOMAIN d) : Earlier(d, p[1], p[2])}
           a == Arranged(d, R)
<1>1. /\ IsList(d) /\ \A x : x \in ToSet(d) <=> x \in ToSet(v)
      /\ \A j, k \in 1 .. Len(d) : d[j] = d[k] => j = k
  BY DistinctOnce
<1>2. KeysOf(v) = a
  BY DEF KeysOf, Ordered, Earlier
<1> HIDE DEF d
<1>3. n \in Nat /\ DOMAIN d = 1 .. n /\ \A x : x \in ToSet(d) <=> \E i \in 1 .. n : x = d[i]
  BY <1>1, ListIs
<1>4. Len(v) \in Nat /\ \A x : x \in ToSet(v) <=> \E i \in 1 .. Len(v) : x = v[i]
  BY ListIs
<1>5. \A i \in 1 .. n : Key(d[i])
  BY <1>1, <1>3, <1>4
<1>6. \A i, j, k \in 1 .. n :
         /\ ~NullableBefore(d[i], d[i])
         /\ d[i] # d[j] => NullableBefore(d[i], d[j]) \/ NullableBefore(d[j], d[i])
         /\ NullableBefore(d[i], d[j]) /\ NullableBefore(d[j], d[k]) => NullableBefore(d[i], d[k])
  BY <1>5, KeyOrder
<1>7. \A i, j \in 1 .. n : <<i, j>> \in R <=> Earlier(d, i, j)
  BY <1>3
<1> HIDE DEF R, n
<1>8. \A i, j \in 1 .. n : i # j => (NullableBefore(d[i], d[j]) <=> ~NullableBefore(d[j], d[i]))
  <2> TAKE i, j \in 1 .. n
  <2> HAVE i # j
  <2>1. d[i] # d[j]
    BY <1>1 DEF n
  <2> QED  BY <1>6, <2>1
<1>9. \A i, j \in 1 .. n : <<i, j>> \in R <=> i # j /\ NullableBefore(d[i], d[j])
  <2> TAKE i, j \in 1 .. n
  <2>1. i < j \/ i = j \/ i > j
    BY <1>3
  <2> QED  BY <1>3, <1>7, <1>8, <2>1 DEF Earlier
<1>10. StrictOrder(R, n)
  <2>1. \A i \in 1 .. n : <<i, i>> \notin R
    BY <1>9
  <2>2. \A i, j \in 1 .. n : i # j => <<i, j>> \in R \/ <<j, i>> \in R
    BY <1>8, <1>9
  <2>3. \A i, j, k \in 1 .. n : <<i, j>> \in R /\ <<j, k>> \in R => <<i, k>> \in R
    BY <1>6, <1>9
  <2> QED  BY <2>1, <2>2, <2>3 DEF StrictOrder
<1>11. IsList(a) /\ Len(a) = n /\ \E at : Sorting(at, d, R)
  BY <1>1, <1>10, ArrangedIs DEF n
<1>12. PICK at : Sorting(at, d, R)
  BY <1>11
<1>13. /\ \A k \in 1 .. n : at[k] \in 1 .. n /\ a[k] = d[at[k]]
       /\ \A i \in 1 .. n : \E k \in 1 .. n : at[k] = i
       /\ \A j, k \in 1 .. n : at[j] = at[k] => j = k
  BY <1>12 DEF Sorting, n
<1> HIDE DEF a
<1>14. \A j, k \in 1 .. n : a[j] = a[k] => j = k
  <2> TAKE j, k \in 1 .. n
  <2> HAVE a[j] = a[k]
  <2>1. d[at[j]] = d[at[k]] /\ at[j] \in 1 .. n /\ at[k] \in 1 .. n
    BY <1>13
  <2>2. at[j] = at[k]
    BY <1>1, <2>1 DEF n
  <2> QED  BY <1>13, <2>2
<1>15. \A i \in 1 .. Len(v) : \E k \in 1 .. n : a[k] = v[i]
  <2> TAKE i \in 1 .. Len(v)
  <2>1. PICK j \in 1 .. n : v[i] = d[j]
    BY <1>1, <1>3, <1>4
  <2>2. PICK k \in 1 .. n : at[k] = j
    BY <1>13
  <2> QED  BY <1>13, <2>1, <2>2
<1>16. \A k \in 1 .. n : \E i \in 1 .. Len(v) : a[k] = v[i]
  BY <1>1, <1>3, <1>4, <1>13
<1> QED  BY <1>2, <1>3, <1>11, <1>14, <1>15, <1>16

\* What the rows of one key weigh.
WeightOf(z, n, v, k) == [i \in 1 .. n |-> IF v[i] = k THEN z[i] ELSE 0]

\* The groups weigh what the rows weigh.
LEMMA SumOfGroups ==
  ASSUME NEW v, IsList(v), \A i \in 1 .. Len(v) : Key(v[i]),
         NEW z, \A i \in 1 .. Len(v) : z[i] \in Nat,
         NEW y, \A k \in 1 .. Len(KeysOf(v)) : y[k] = TotalTo(WeightOf(z, Len(v), v, KeysOf(v)[k]), Len(v))
  PROVE  TotalTo(y, Len(KeysOf(v))) = TotalTo(z, Len(v))
<1> DEFINE keys == KeysOf(v)
           m == Len(keys)
           n == Len(v)
           key == [i \in 1 .. n |-> CHOOSE k \in 1 .. m : keys[k] = v[i]]
<1>1. n \in Nat
  BY ListIs
<1>2. /\ m \in Nat
      /\ \A j, k \in 1 .. m : keys[j] = keys[k] => j = k
      /\ \A i \in 1 .. n : \E k \in 1 .. m : keys[k] = v[i]
  BY KeysAre
<1>3. \A k \in 1 .. m : y[k] = TotalTo(WeightOf(z, n, v, keys[k]), n)
  OBVIOUS
<1>4. \A i \in 1 .. n : z[i] \in Nat
  OBVIOUS
<1> HIDE DEF keys, m, n
<1>5. \A i \in 1 .. n : key[i] \in 1 .. m /\ keys[key[i]] = v[i]
  <2> TAKE i \in 1 .. n
  <2>1. key[i] = CHOOSE k \in 1 .. m : keys[k] = v[i]
    OBVIOUS
  <2>2. \E k \in 1 .. m : keys[k] = v[i]
    BY <1>2
  <2> HIDE DEF key
  <2> QED  BY <2>1, <2>2
<1> HIDE DEF key
<1>6. Keyed(z, n, key, m)
  BY <1>2, <1>4, <1>5 DEF Keyed
<1>7. \A k \in 1 .. m : WeightOf(z, n, v, keys[k]) = GivenTo(z, n, key, k)
  <2> TAKE k \in 1 .. m
  <2>1. \A i \in 1 .. n : v[i] = keys[k] <=> key[i] = k
    BY <1>2, <1>5
  <2> QED  BY <2>1 DEF WeightOf, GivenTo
<1>8. \A k \in 1 .. m : y[k] = TotalTo(GivenTo(z, n, key, k), n)
  BY <1>3, <1>7
<1>9. TotalTo(y, m) = TotalTo(z, n)
  BY <1>1, <1>2, <1>6, <1>8, TotalOfGroups
<1> QED  BY <1>9 DEF keys, m, n

-----------------------------------------------------------------------------
(***************************************************************************)
(* What a group of rows is summed up to.                                   *)
(***************************************************************************)
LEMMA TotalOnes ==
  ASSUME NEW x, NEW n \in Nat, \A i \in 1 .. n : x[i] = 1
  PROVE  TotalTo(x, n) = n
<1> DEFINE T == {m \in Nat : m \in 0 .. n => TotalTo(x, m) = m}
<1>1. 0 \in T
  BY TotalNone
<1>2. ASSUME NEW m \in Nat, m \in T
      PROVE  m + 1 \in T
  <2>1. CASE m + 1 \in 0 .. n
    <3>1. m \in 0 .. n /\ m + 1 \in 1 .. n
      BY <2>1
    <3>2. TotalTo(x, m + 1) = TotalTo(x, m) + x[m + 1]
      BY TotalNext
    <3>3. TotalTo(x, m) = m /\ x[m + 1] = 1
      BY <1>2, <3>1
    <3> QED  BY <3>2, <3>3
  <2> QED  BY <2>1
<1> HIDE DEF T
<1>3. n \in T
  BY <1>1, <1>2, Induct
<1> QED  BY <1>3 DEF T

\* A number, or NULL.
Count(x) == x = None \/ (x = Some(x[1]) /\ x[1] \in Nat)

LEMMA CountIs ==
  ASSUME NEW x, Count(x)
  PROVE  Coalesce(x, 0) \in Nat /\ (x = None => Coalesce(x, 0) = 0) /\ (x # None => Coalesce(x, 0) = x[1])
  BY DEF Count, Coalesce

LEMMA SumOfIs ==
  ASSUME NEW rows, IsList(rows), NEW c, \A i \in 1 .. Len(rows) : Count(rows[i][c]),
         NEW z, \A i \in 1 .. Len(rows) : z[i] = Coalesce(rows[i][c], 0)
  PROVE  Coalesce(SumOf(rows, c), 0) = TotalTo(z, Len(rows))
<1> DEFINE n == Len(rows)
           I == {i \in DOMAIN rows : rows[i][c] # None}
           known == Kept(rows, I)
           m == Len(known)
           y == [i \in DOMAIN known |-> known[i][c][1]]
<1>1. SumOf(rows, c) = IF known = <<>> THEN None ELSE Some(Total(y))
  BY DEF SumOf, Select, Each
<1>2. n \in Nat /\ DOMAIN rows = 1 .. n
  BY ListIs
<1>3. \A i \in 1 .. n : i \in I <=> rows[i][c] # None
  BY <1>2
<1> HIDE DEF I
<1>4. /\ IsList(known) /\ m \in Nat /\ DOMAIN known = 1 .. m
      /\ \A x : x \in ToSet(known) <=> \E i \in 1 .. n : i \in I /\ x = rows[i]
      /\ \A j \in 1 .. m : known[j] \in ToSet(known)
  BY KeptIs, ListIs
<1>5. y = [j \in 1 .. m |-> y[j]] /\ \A j \in 1 .. m : y[j] = known[j][c][1]
  BY <1>4
<1> HIDE DEF y
<1>6. IsList(y) /\ Len(y) = m
  BY <1>4, <1>5, ListFrom
<1>7. \A i \in 1 .. n : z[i] \in Nat /\ (i \notin I => z[i] = 0) /\ (i \in I => z[i] = rows[i][c][1])
  BY <1>3, CountIs
<1>8. \A j \in 1 .. m, i \in 1 .. n : i \in I /\ known[j] = rows[i] => y[j] = z[i]
  BY <1>5, <1>7
<1>9. TotalTo(y, m) = TotalTo(z, n)
  <2>1. \A j \in 1 .. Len(Kept(rows, I)), i \in 1 .. Len(rows) :
           i \in I /\ Kept(rows, I)[j] = rows[i] => y[j] = z[i]
    BY <1>8
  <2>2. \A i \in 1 .. Len(rows) : z[i] \in Nat /\ (i \notin I => z[i] = 0)
    BY <1>7
  <2>3. TotalTo(y, Len(Kept(rows, I))) = TotalTo(z, Len(rows))
    BY <2>1, <2>2, TotalKept
  <2> QED  BY <2>3
<1>10. Total(y) = TotalTo(y, m)
  BY <1>6, TotalOf
<1> HIDE DEF n, m
<1>11. CASE known = <<>>
  <2>1. m = 0
    BY <1>11, NoElements DEF m
  <2>2. TotalTo(z, n) = 0
    BY <1>9, <2>1, TotalNone
  <2>3. Coalesce(SumOf(rows, c), 0) = 0
    BY <1>1, <1>11 DEF Coalesce
  <2> QED  BY <2>2, <2>3 DEF n
<1>12. CASE known # <<>>
  <2>1. SumOf(rows, c) = Some(Total(y))
    BY <1>1, <1>12
  <2>2. Coalesce(SumOf(rows, c), 0) = Total(y)
    BY <2>1 DEF Coalesce, Some, None
  <2> QED  BY <1>9, <1>10, <2>2 DEF n
<1> QED  BY <1>11, <1>12

Counted == {"message_count", "total_input_tokens", "total_output_tokens"}

\* The column that a total is of.
Column(c) == IF c = "total_input_tokens" THEN "input_tokens" ELSE "output_tokens"

\* What a row adds to a total.
Weight(r, c) == IF c = "message_count" THEN 1 ELSE Coalesce(r[Column(c)], 0)

Counts(r) == Count(r["input_tokens"]) /\ Count(r["output_tokens"])

LEMMA WeightIs ==
  ASSUME NEW r, Counts(r), NEW c
  PROVE  Weight(r, c) \in Nat
  BY CountIs DEF Weight, Counts, Column

LEMMA StatIs ==
  ASSUME NEW w, IsList(w), \A i \in 1 .. Len(w) : Counts(w[i]), NEW I,
         NEW c \in Counted, NEW k,
         NEW z, \A i \in 1 .. Len(w) : z[i] = IF i \in I THEN Weight(w[i], c) ELSE 0
  PROVE  TokenStats(k, Kept(w, I))[c] = TotalTo(z, Len(w))
<1> DEFINE rows == Kept(w, I)
           m == Len(rows)
           y == [j \in 1 .. m |-> Weight(rows[j], c)]
<1>1. /\ IsList(rows) /\ m \in Nat
      /\ \A x : x \in ToSet(rows) <=> \E i \in 1 .. Len(w) : i \in I /\ x = w[i]
      /\ \A j \in 1 .. m : rows[j] \in ToSet(rows)
  BY KeptIs, ListIs
<1>2. \A i \in 1 .. Len(w) : z[i] \in Nat /\ (i \notin I => z[i] = 0)
  BY WeightIs
<1>3. \A j \in 1 .. m, i \in 1 .. Len(w) : i \in I /\ rows[j] = w[i] => y[j] = z[i]
  OBVIOUS
<1>4. \A j \in 1 .. m : y[j] = Weight(rows[j], c)
  OBVIOUS
<1> HIDE DEF y
<1>5. TotalTo(y, m) = TotalTo(z, Len(w))
  BY <1>2, <1>3, TotalKept
<1>6. \A j \in 1 .. m : Counts(rows[j])
  BY <1>1
<1> HIDE DEF rows
<1>7. CASE c = "message_count"
  <2>1. TokenStats(k, rows)[c] = m
    BY <1>7 DEF TokenStats
  <2>2. \A j \in 1 .. m : y[j] = 1
    BY <1>4, <1>7 DEF Weight
  <2>3. TotalTo(y, m) = m
    BY <1>1, <2>2, TotalOnes
  <2> QED  BY <1>5, <2>1, <2>3 DEF rows
<1>8. CASE c # "message_count"
  <2>1. TokenStats(k, rows)[c] = Coalesce(SumOf(rows, Column(c)), 0)
    <3>1. c = "total_input_tokens" \/ c = "total_output_tokens"
      BY <1>8 DEF Counted
    <3> QED  BY <3>1 DEF TokenStats, Column
  <2>2. \A j \in 1 .. m : Count(rows[j][Column(c)])
    BY <1>6 DEF Counts, Column
  <2>3. \A j \in 1 .. m : y[j] = Coalesce(rows[j][Column(c)], 0)
    BY <1>4, <1>8 DEF Weight
  <2>4. Coalesce(SumOf(rows, Column(c)), 0) = TotalTo(y, m)
    BY <1>1, <2>2, <2>3, SumOfIs
  <2> QED  BY <1>5, <2>1, <2>4 DEF rows
<1> QED  BY <1>7, <1>8

\* g has for each key the totals of its rows, under a name.
GroupedBy(g, w, v, name) ==
  /\ IsList(w) /\ (\A i \in 1 .. Len(w) : Counts(w[i]))
  /\ IsList(v) /\ Len(v) = Len(w) /\ (\A i \in 1 .. Len(v) : Key(v[i]))
  /\ IsList(g) /\ Len(g) = Len(KeysOf(v))
  /\ \A k \in 1 .. Len(g) :
        g[k] = TokenStats(name[k], Kept(w, {i \in DOMAIN w : v[i] = KeysOf(v)[k]}))

LEMMA GroupIs ==
  ASSUME NEW g, NEW w, NEW v, NEW name, GroupedBy(g, w, v, name), NEW c \in Counted,
         NEW k \in 1 .. Len(g),
         NEW z, \A i \in 1 .. Len(w) : z[i] = IF v[i] = KeysOf(v)[k] THEN Weight(w[i], c) ELSE 0
  PROVE  g[k][c] = TotalTo(z, Len(w)) /\ g[k][c] \in Nat /\ g[k]["group_key"] = name[k]
<1> DEFINE I == {i \in DOMAIN w : v[i] = KeysOf(v)[k]}
           n == Len(w)
<1>1. /\ IsList(w) /\ (\A i \in 1 .. n : Counts(w[i]))
      /\ g[k] = TokenStats(name[k], Kept(w, I))
  BY DEF GroupedBy
<1>2. DOMAIN w = 1 .. n /\ n \in Nat
  BY <1>1, ListIs
<1>3. \A i \in 1 .. n : z[i] = IF i \in I THEN Weight(w[i], c) ELSE 0
  BY <1>2
<1> HIDE DEF I
<1>4. TokenStats(name[k], Kept(w, I))[c] = TotalTo(z, n)
  BY <1>1, <1>3, StatIs
<1>5. \A i \in 1 .. n : z[i] \in Nat
  BY <1>1, <1>3, WeightIs
<1>6. TotalTo(z, n) \in Nat
  <2>1. n \in 0 .. n
    BY <1>2
  <2> QED  BY <1>2, <1>5, <2>1, TotalNat
<1>7. TokenStats(name[k], Kept(w, I))["group_key"] = name[k]
  BY DEF TokenStats
<1> QED  BY <1>1, <1>4, <1>6, <1>7

\* What the groups of the keys in K have, and what the rows of these keys have.
OfKeys(x, z, g, w, v, c, K) ==
  /\ \A k \in 1 .. Len(g) : x[k] = IF KeysOf(v)[k] \in K THEN g[k][c] ELSE 0
  /\ \A i \in 1 .. Len(w) : z[i] = IF v[i] \in K THEN Weight(w[i], c) ELSE 0

\* The groups of some keys have what the rows of these keys have.
LEMMA GroupsTotal ==
  ASSUME NEW g, NEW w, NEW v, NEW name, GroupedBy(g, w, v, name), NEW c \in Counted, NEW K,
         NEW x, NEW z, OfKeys(x, z, g, w, v, c, K)
  PROVE  TotalTo(x, Len(g)) = TotalTo(z, Len(w))
<1>0. /\ \A k \in 1 .. Len(g) : x[k] = IF KeysOf(v)[k] \in K THEN g[k][c] ELSE 0
      /\ \A i \in 1 .. Len(w) : z[i] = IF v[i] \in K THEN Weight(w[i], c) ELSE 0
  BY DEF OfKeys
<1> DEFINE keys == KeysOf(v)
           n == Len(w)
           m == Len(g)
<1>1. /\ IsList(w) /\ (\A i \in 1 .. n : Counts(w[i]))
      /\ IsList(v) /\ Len(v) = n /\ (\A i \in 1 .. n : Key(v[i]))
      /\ m = Len(keys)
  BY DEF GroupedBy
<1>2. n \in Nat
  BY <1>1, ListIs
<1>3. \A i \in 1 .. n : z[i] \in Nat
  BY <1>0, <1>1, WeightIs
<1>4. \A k \in 1 .. m : x[k] = TotalTo(WeightOf(z, n, v, keys[k]), n)
  <2> TAKE k \in 1 .. m
  <2> DEFINE u == WeightOf(z, n, v, keys[k])
  <2>1. \A i \in 1 .. n : u[i] = IF v[i] = keys[k] THEN z[i] ELSE 0
    BY DEF WeightOf
  <2> HIDE DEF u
  <2>2. CASE keys[k] \in K
    <3>1. \A i \in 1 .. n : u[i] = IF v[i] = keys[k] THEN Weight(w[i], c) ELSE 0
      BY <1>0, <2>1, <2>2
    <3>2. g[k][c] = TotalTo(u, n)
      BY <3>1, GroupIs
    <3> QED  BY <1>0, <2>2, <3>2 DEF u
  <2>3. CASE keys[k] \notin K
    <3>1. \A i \in 1 .. n : u[i] = 0
      BY <1>0, <2>1, <2>3
    <3>2. TotalTo(u, n) = 0
      BY <1>2, <3>1, TotalZero
    <3> QED  BY <1>0, <2>3, <3>2 DEF u
  <2> QED  BY <2>2, <2>3
<1>5. TotalTo(x, Len(KeysOf(v))) = TotalTo(z, Len(v))
  <2>1. \A k \in 1 .. Len(KeysOf(v)) : x[k] = TotalTo(WeightOf(z, Len(v), v, KeysOf(v)[k]), Len(v))
    BY <1>1, <1>4
  <2> HIDE DEF keys, n, m
  <2> QED  BY <1>1, <1>3, <2>1, SumOfGroups
<1> QED  BY <1>1, <1>5

\* h has the elements of g in some order.
Shuffled(h, g, e) ==
  /\ IsList(h) /\ IsList(g) /\ Len(h) = Len(g)
  /\ Picks(e, Len(g), Len(g))
  /\ \A k \in 1 .. Len(g) : h[k] = g[e[k]]
  /\ \A i \in 1 .. Len(g) : \E k \in 1 .. Len(g) : e[k] = i

LEMMA TotalShuffled ==
  ASSUME NEW h, NEW g, NEW e, Shuffled(h, g, e),
         NEW x, \A i \in 1 .. Len(g) : x[i] \in Nat,
         NEW y, \A k, i \in 1 .. Len(g) : h[k] = g[i] => y[k] = x[i]
  PROVE  TotalTo(y, Len(h)) = TotalTo(x, Len(g))
<1> DEFINE n == Len(g)
<1>1. /\ IsList(g) /\ Len(h) = n /\ Picks(e, n, n)
      /\ \A k \in 1 .. n : h[k] = g[e[k]]
      /\ \A i \in 1 .. n : \E k \in 1 .. n : e[k] = i
  BY DEF Shuffled
<1>2. n \in Nat
  BY <1>1, ListIs
<1>3. \A k \in 1 .. n : e[k] \in 1 .. n
  BY <1>1 DEF Picks
<1>4. \A k \in 1 .. n : y[k] = x[e[k]]
  BY <1>1, <1>3
<1>5. \A i \in 1 .. n : x[i] \in Nat
  OBVIOUS
<1> HIDE DEF n
<1>6. PicksFrom(x, n, y, n, e)
  BY <1>1, <1>4, <1>5 DEF PicksFrom
<1>7. TotalTo(y, n) = TotalTo(x, n)
  BY <1>2, <1>6, TotalPicked
<1> QED  BY <1>1, <1>7 DEF n

LEMMA AddedIs ==
  ASSUME NEW rows, IsList(rows), NEW c, NEW x, \A i \in 1 .. Len(rows) : x[i] = rows[i][c]
  PROVE  Added(rows, c) = TotalTo(x, Len(rows))
<1> DEFINE y == [i \in DOMAIN rows |-> rows[i][c]]
<1>1. Added(rows, c) = Total(y)
  BY DEF Added, Each
<1>2. DOMAIN rows = 1 .. Len(rows) /\ Len(rows) \in Nat
  BY ListIs
<1>3. y = [i \in 1 .. Len(rows) |-> y[i]] /\ \A i \in 1 .. Len(rows) : y[i] = x[i]
  BY <1>2
<1> HIDE DEF y
<1>4. IsList(y) /\ Len(y) = Len(rows)
  BY <1>2, <1>3, ListFrom
<1>5. Total(y) = TotalTo(y, Len(rows))
  BY <1>4, TotalOf
<1>6. TotalTo(y, Len(rows)) = TotalTo(x, Len(rows))
  BY <1>2, <1>3, TotalSame
<1> QED  BY <1>1, <1>5, <1>6

\* The totals of all groups, in any order, are the totals of the rows.
LEMMA GroupsAdded ==
  ASSUME NEW g, NEW w, NEW v, NEW name, GroupedBy(g, w, v, name),
         NEW h, NEW e, Shuffled(h, g, e), NEW c \in Counted,
         NEW z, \A i \in 1 .. Len(w) : z[i] = Weight(w[i], c)
  PROVE  Added(h, c) = TotalTo(z, Len(w))
<1> DEFINE keys == KeysOf(v)
           K == {keys[k] : k \in 1 .. Len(g)} \cup {v[i] : i \in 1 .. Len(w)}
           x == [k \in 1 .. Len(g) |-> g[k][c]]
           y == [k \in 1 .. Len(h) |-> h[k][c]]
<1>1. IsList(g) /\ IsList(h) /\ Len(h) = Len(g)
  BY DEF Shuffled
<1>2. \A k \in 1 .. Len(g) : x[k] = IF keys[k] \in K THEN g[k][c] ELSE 0
  OBVIOUS
<1>3. \A i \in 1 .. Len(w) : z[i] = IF v[i] \in K THEN Weight(w[i], c) ELSE 0
  OBVIOUS
<1> HIDE DEF K, keys
<1>4. \A k \in 1 .. Len(g) : x[k] = g[k][c] /\ g[k][c] \in Nat
  <2> TAKE k \in 1 .. Len(g)
  <2> DEFINE u == [i \in 1 .. Len(w) |-> IF v[i] = KeysOf(v)[k] THEN Weight(w[i], c) ELSE 0]
  <2>1. \A i \in 1 .. Len(w) : u[i] = IF v[i] = KeysOf(v)[k] THEN Weight(w[i], c) ELSE 0
    OBVIOUS
  <2>2. x[k] = g[k][c]
    OBVIOUS
  <2> HIDE DEF u, x
  <2>3. g[k][c] \in Nat
    BY ONLY <2>1, GroupIs, GroupedBy(g, w, v, name), c \in Counted, k \in 1 .. Len(g)
  <2> QED  BY <2>2, <2>3
<1> HIDE DEF x
<1>5. TotalTo(x, Len(g)) = TotalTo(z, Len(w))
  <2>1. OfKeys(x, z, g, w, v, c, K)
    BY <1>2, <1>3 DEF OfKeys, keys
  <2> QED  BY <2>1, GroupsTotal
<1>6. \A k, i \in 1 .. Len(g) : h[k] = g[i] => y[k] = x[i]
  BY <1>1, <1>4
<1>7. \A k \in 1 .. Len(h) : y[k] = h[k][c]
  OBVIOUS
<1> HIDE DEF y
<1>8. TotalTo(y, Len(h)) = TotalTo(x, Len(g))
  BY <1>4, <1>6, TotalShuffled
<1>9. Added(h, c) = TotalTo(y, Len(h))
  BY <1>1, <1>7, AddedIs
<1> QED  BY <1>5, <1>8, <1>9

\* The groups of one name.
NamedAs(h, s) == Select(h, LAMBDA r : r.group_key = s)

\* The totals of the groups of one name are the totals of its key's rows.
LEMMA GroupsShare ==
  ASSUME NEW g, NEW w, NEW v, NEW name, GroupedBy(g, w, v, name),
         NEW h, NEW e, Shuffled(h, g, e), NEW c \in Counted, NEW s,
         \A k \in 1 .. Len(g) : name[k] = s <=> KeysOf(v)[k] = Some(s),
         NEW z, \A i \in 1 .. Len(w) : z[i] = IF v[i] = Some(s) THEN Weight(w[i], c) ELSE 0
  PROVE  Added(NamedAs(h, s), c) = TotalTo(z, Len(w))
<1> DEFINE keys == KeysOf(v)
           K == {Some(s)}
           J == {k \in DOMAIN h : h[k].group_key = s}
           part == Kept(h, J)
           x == [k \in 1 .. Len(g) |-> IF keys[k] \in K THEN g[k][c] ELSE 0]
           y == [k \in 1 .. Len(h) |-> IF h[k].group_key = s THEN h[k][c] ELSE 0]
           p == [k \in 1 .. Len(part) |-> part[k][c]]
<1>1. IsList(g) /\ IsList(h) /\ Len(h) = Len(g)
  BY DEF Shuffled
<1>2. NamedAs(h, s) = part
  BY DEF NamedAs, Select
<1>3. \A k \in 1 .. Len(g) : x[k] = IF keys[k] \in K THEN g[k][c] ELSE 0
  OBVIOUS
<1>4. \A i \in 1 .. Len(w) : z[i] = IF v[i] \in K THEN Weight(w[i], c) ELSE 0
  OBVIOUS
<1>5. \A k \in 1 .. Len(g) : keys[k] \in K <=> name[k] = s
  OBVIOUS
<1> HIDE DEF K, keys
<1>6. \A k \in 1 .. Len(g) : /\ g[k][c] \in Nat /\ g[k]["group_key"] = name[k]
                             /\ x[k] = IF g[k]["group_key"] = s THEN g[k][c] ELSE 0
  <2> TAKE k \in 1 .. Len(g)
  <2> DEFINE u == [i \in 1 .. Len(w) |-> IF v[i] = KeysOf(v)[k] THEN Weight(w[i], c) ELSE 0]
  <2>1. \A i \in 1 .. Len(w) : u[i] = IF v[i] = KeysOf(v)[k] THEN Weight(w[i], c) ELSE 0
    OBVIOUS
  <2> HIDE DEF u, x
  <2>2. g[k][c] \in Nat /\ g[k]["group_key"] = name[k]
    BY <2>1, GroupIs
  <2> QED  BY <1>3, <1>5, <2>2
<1> HIDE DEF x
<1>7. TotalTo(x, Len(g)) = TotalTo(z, Len(w))
  <2>1. OfKeys(x, z, g, w, v, c, K)
    BY <1>3, <1>4 DEF OfKeys, keys
  <2> QED  BY <2>1, GroupsTotal
<1>8. \A i \in 1 .. Len(g) : x[i] \in Nat
  BY <1>6
<1>9. \A k \in 1 .. Len(h) : y[k] = IF h[k]["group_key"] = s THEN h[k][c] ELSE 0
  OBVIOUS
<1> HIDE DEF y
<1>10. \A k, i \in 1 .. Len(g) : h[k] = g[i] => y[k] = x[i]
  BY <1>1, <1>6, <1>9
<1>11. TotalTo(y, Len(h)) = TotalTo(x, Len(g))
  BY <1>8, <1>10, TotalShuffled
<1>12. /\ Len(h) \in Nat /\ DOMAIN h = 1 .. Len(h)
       /\ \A k \in 1 .. Len(h) : k \in J <=> h[k]["group_key"] = s
  BY <1>1, ListIs
<1> HIDE DEF J
<1>13. \A k \in 1 .. Len(h) : y[k] \in Nat /\ (k \notin J => y[k] = 0)
  <2> TAKE k \in 1 .. Len(h)
  <2>1. PICK i \in 1 .. Len(g) : h[k] = g[i]
    BY <1>1 DEF Shuffled, Picks
  <2> QED  BY <1>6, <1>9, <1>12, <2>1
<1>14. IsList(part)
  BY <1>1, KeptIs
<1>15. \A j \in 1 .. Len(part), k \in 1 .. Len(h) : k \in J /\ part[j] = h[k] => p[j] = y[k]
  BY <1>9, <1>12
<1>16. \A j \in 1 .. Len(part) : p[j] = part[j][c]
  OBVIOUS
<1> HIDE DEF p
<1>17. TotalTo(p, Len(Kept(h, J))) = TotalTo(y, Len(h))
  BY <1>1, <1>13, <1>15, TotalKept
<1> HIDE DEF part
<1>18. Added(part, c) = TotalTo(p, Len(part))
  BY <1>14, <1>16, AddedIs
<1> QED  BY <1>2, <1>7, <1>11, <1>17, <1>18 DEF part

-----------------------------------------------------------------------------
(***************************************************************************)
(* The groups in the order they are listed in.                             *)
(***************************************************************************)
\* The greater first; of equal ones, the earlier.
Greater(s, c, i, j) == \/ i < j /\ ~(s[j][c] > s[i][c])
                       \/ i > j /\ s[i][c] > s[j][c]

LEMMA MostFirstShuffles ==
  ASSUME NEW s, IsList(s), NEW c, \A i \in 1 .. Len(s) : s[i][c] \in Nat
  PROVE  \E e : Shuffled(MostFirst(s, c), s, e)
<1> DEFINE n == Len(s)
           R == {p \in (DOMAIN s) \X (DOMAIN s) : Greater(s, c, p[1], p[2])}
<1>1. n \in Nat /\ DOMAIN s = 1 .. n
  BY ListIs
<1>2. MostFirst(s, c) = Arranged(s, R)
  BY DEF MostFirst, Ordered, Greater
<1>3. \A i, j \in 1 .. n : <<i, j>> \in R <=> Greater(s, c, i, j)
  BY <1>1
<1> HIDE DEF R
<1>4. StrictOrder(R, n)
  <2>1. \A i \in 1 .. n : ~Greater(s, c, i, i)
    BY DEF Greater
  <2>2. \A i, j \in 1 .. n : i # j => Greater(s, c, i, j) \/ Greater(s, c, j, i)
    BY DEF Greater
  <2>3. \A i, j, k \in 1 .. n : Greater(s, c, i, j) /\ Greater(s, c, j, k) => Greater(s, c, i, k)
    BY DEF Greater
  <2> QED  BY <1>3, <2>1, <2>2, <2>3 DEF StrictOrder
<1>5. IsList(Arranged(s, R)) /\ Len(Arranged(s, R)) = n /\ \E at : Sorting(at, s, R)
  BY <1>4, ArrangedIs
<1>6. PICK at : Sorting(at, s, R)
  BY <1>5
<1>7. Shuffled(Arranged(s, R), s, at)
  <2>1. Picks(at, n, n)
    BY <1>6 DEF Sorting, Picks
  <2> QED  BY <1>5, <1>6, <2>1 DEF Sorting, Shuffled
<1> QED  BY <1>2, <1>7

LEMMA ReverseShuffles ==
  ASSUME NEW s, IsList(s)
  PROVE  \E e : Shuffled(Reverse(s), s, e)
<1> DEFINE n == Len(s)
           r == Reverse(s)
           e == [k \in 1 .. n |-> (n - k) + 1]
<1>1. n \in Nat
  BY ListIs
<1>2. r = [k \in 1 .. n |-> s[(n - k) + 1]]
  BY DEF Reverse
<1>3. r = [k \in 1 .. n |-> r[k]] /\ \A k \in 1 .. n : r[k] = s[(n - k) + 1]
  BY <1>2
<1> HIDE DEF r
<1>4. IsList(r) /\ Len(r) = n
  BY <1>1, <1>3, ListFrom
<1>5. \A k \in 1 .. n : e[k] = (n - k) + 1
  OBVIOUS
<1> HIDE DEF e
<1>6. Picks(e, n, n)
  BY <1>1, <1>5 DEF Picks
<1>7. \A i \in 1 .. n : \E k \in 1 .. n : e[k] = i
  <2> TAKE i \in 1 .. n
  <2>1. (n - i) + 1 \in 1 .. n /\ e[(n - i) + 1] = i
    BY <1>1, <1>5
  <2> QED  BY <2>1
<1>8. \A k \in 1 .. n : r[k] = s[e[k]]
  BY <1>3, <1>5
<1>9. Shuffled(r, s, e)
  BY <1>4, <1>6, <1>7, <1>8 DEF Shuffled
<1> QED  BY <1>9 DEF r

\* The groups that GROUP BY makes of rows, whatever their rows are made to.
LEMMA GroupsGroup ==
  ASSUME NEW w, IsList(w), \A i \in 1 .. Len(w) : Counts(w[i]),
         NEW v, v = [i \in DOMAIN w |-> v[i]], \A i \in 1 .. Len(w) : Key(v[i]),
         NEW name,
         NEW g, g = [k \in DOMAIN KeysOf(v) |->
                       TokenStats(name[k], Kept(w, {i \in DOMAIN w : v[i] = KeysOf(v)[k]}))]
  PROVE  GroupedBy(g, w, v, name)
<1>1. DOMAIN w = 1 .. Len(w) /\ Len(w) \in Nat
  BY ListIs
<1>2. IsList(v) /\ Len(v) = Len(w)
  BY <1>1, ListFrom
<1>3. IsList(KeysOf(v)) /\ DOMAIN KeysOf(v) = 1 .. Len(KeysOf(v)) /\ Len(KeysOf(v)) \in Nat
  BY <1>2, KeysAre, ListIs
<1>4. /\ g = [k \in 1 .. Len(KeysOf(v)) |-> g[k]]
      /\ \A k \in 1 .. Len(KeysOf(v)) :
           g[k] = TokenStats(name[k], Kept(w, {i \in DOMAIN w : v[i] = KeysOf(v)[k]}))
  BY <1>3
<1>5. IsList(g) /\ Len(g) = Len(KeysOf(v))
  BY <1>3, <1>4, ListFrom
<1> QED  BY <1>2, <1>4, <1>5 DEF GroupedBy

-----------------------------------------------------------------------------
(***************************************************************************)
(* Where the messages and their tokens come from.                          *)
(***************************************************************************)
\* The i-th row of a table is a row of the feed.
Origin(table, row, i) == \E r \in FeedRows(table) : row = With(r, [id |-> i])

Origins ==
  \A t \in {"messages", "token_usage"} :
    \A i \in 1 .. Len(db[t]) : Origin(t, db[t][i], i)

LEMMA OfTheFeed ==
  ASSUME Progress, NEW f \in DOMAIN Feed, read[f] < Len(Feed[f]),
         NEW t \in DOMAIN Feed[f][read[f] + 1].rows,
         NEW j \in 1 .. Len(Feed[f][read[f] + 1].rows[t])
  PROVE  Feed[f][read[f] + 1].rows[t][j] \in FeedRows(t)
<1> DEFINE b == Feed[f][read[f] + 1]
           batches == UNION {Range(Feed[g]) : g \in DOMAIN Feed}
<1>1. IsList(Feed[f]) /\ DOMAIN Feed[f] = 1 .. Len(Feed[f])
  BY FeedAssumption, ListIs
<1>2. read[f] + 1 \in DOMAIN Feed[f] /\ IsList(b.rows[t])
  BY <1>1, FeedIs
<1>3. b \in Range(Feed[f])
  BY <1>2 DEF Range
<1>4. b \in batches
  BY <1>3
<1>5. j \in DOMAIN b.rows[t]
  BY <1>2, ListIs
<1> HIDE DEF b
<1>6. b.rows[t][j] \in Range(b.rows[t])
  BY <1>5 DEF Range
<1>7. t \in DOMAIN b.rows
  BY DEF b
<1> HIDE DEF batches
<1>8. b.rows[t][j] \in UNION {Range(c.rows[t]) : c \in {c \in batches : t \in DOMAIN c.rows}}
  BY <1>4, <1>6, <1>7
<1> QED  BY <1>8 DEF FeedRows, b, batches

LEMMA InitOrigins == Init => Origins
<1> SUFFICES ASSUME Init, NEW t \in {"messages", "token_usage"}, NEW i \in 1 .. Len(db[t])
             PROVE  FALSE
  BY DEF Origins
<1>1. db[t] = <<>>
  BY DEF Init, EmptyDatabase
<1> QED  BY <1>1, NoElements

LEMMA CommitOrigins == IInv /\ Origins /\ (\E f \in DOMAIN Feed : Commit(f)) => Origins'
<1> SUFFICES ASSUME IInv, Origins, NEW f \in DOMAIN Feed, Commit(f),
                    NEW t \in {"messages", "token_usage"}, NEW i \in 1 .. Len(db'[t])
             PROVE  Origin(t, db'[t][i], i)
  BY DEF Origins
<1> DEFINE rows == Feed[f][read[f] + 1].rows
           old  == db[t]
<1>1. t \in DOMAIN db /\ IsList(old)
  BY DEF IInv, Shaped, Tables, EmptyDatabase
<1>2. \A j \in 1 .. Len(old) : Origin(t, old[j], j)
  BY DEF Origins
<1>3. db'[t] = IF t \in DOMAIN rows THEN StoredAll(old, t, rows[t]) ELSE old
  BY <1>1 DEF Commit
<1>4. Progress /\ read[f] < Len(Feed[f])
  BY DEF IInv, Commit
<1>5. t \in DOMAIN rows =>
        IsList(rows[t]) /\ \A j \in 1 .. Len(rows[t]) : rows[t][j] \in FeedRows(t)
  BY <1>4, FeedIs, OfTheFeed
<1> HIDE DEF rows, old
<1>6. CASE t \notin DOMAIN rows
  BY <1>2, <1>3, <1>6
<1>7. CASE t \in DOMAIN rows
  <2> DEFINE new == rows[t]
             all == StoredAll(old, t, new)
  <2>1. IsList(new) /\ \A j \in 1 .. Len(new) : new[j] \in FeedRows(t)
    BY <1>5, <1>7
  <2>2. db'[t] = all
    BY <1>3, <1>7
  <2> HIDE DEF new
  <2>3. /\ Len(all) = Len(old) + Len(new)
        /\ \A j \in 1 .. Len(old) : all[j] = old[j]
        /\ \A j \in 1 .. Len(new) : all[Len(old) + j] = With(new[j], [id |-> Len(old) + j])
    BY <1>1, <2>1, StoredAllIs
  <2>4. Len(old) \in Nat /\ Len(new) \in Nat
    BY <1>1, <2>1, ListIs
  <2> HIDE DEF all
  <2>5. CASE i <= Len(old)
    <3>1. i \in 1 .. Len(old)
      BY <2>2, <2>3, <2>4, <2>5
    <3> QED  BY <1>2, <2>2, <2>3, <3>1
  <2>6. CASE ~(i <= Len(old))
    <3>1. i - Len(old) \in 1 .. Len(new) /\ Len(old) + (i - Len(old)) = i
      BY <2>2, <2>3, <2>4, <2>6
    <3>2. all[i] = With(new[i - Len(old)], [id |-> i])
      BY <2>3, <3>1
    <3> QED  BY <2>1, <2>2, <3>1, <3>2 DEF Origin
  <2> QED  BY <2>5, <2>6
<1> QED  BY <1>6, <1>7

LEMMA RebuildOrigins == IInv /\ Origins /\ Rebuild => Origins'
<1> SUFFICES ASSUME IInv, Origins, Rebuild, NEW t \in {"messages", "token_usage"}
             PROVE  db'[t] = db[t]
  BY DEF Origins
<1>1. DOMAIN db = DOMAIN EmptyDatabase /\ db' = Rebuilt
  BY DEF IInv, Shaped, Rebuild
<1>2. t \in DOMAIN EmptyDatabase
  BY DEF EmptyDatabase
<1>3. Rebuilt[t] = db[t]
  BY <1>1, <1>2, RebuiltIs
<1> QED  BY <1>1, <1>3

LEMMA StepOrigins == IInv /\ Origins /\ [Next]_vars => Origins'
<1>1. Origins /\ UNCHANGED vars => Origins'
  BY DEF Origins, vars
<1> QED  BY <1>1, CommitOrigins, RebuildOrigins DEF Next

\* Whatever is stored, the messages and the counts of tokens are those of the
\* files, each at the place of its rowid (sync.rs: sync_file).
THEOREM Provenance == Spec => []Origins
  BY InitInv, StepInv, InitOrigins, StepOrigins, PTL DEF Spec

-----------------------------------------------------------------------------
(***************************************************************************)
(* The tokens with their messages.                                         *)
(***************************************************************************)
MessageRow(m) ==
  /\ {"uuid", "session_id", "model", "timestamp"} \subseteq DOMAIN m
  /\ Written(m.session_id) /\ Written(m.timestamp) /\ m.timestamp # <<>> /\ Key(m.model)

TokenRow(u) ==
  /\ {"message_uuid", "input_tokens", "output_tokens"} \subseteq DOMAIN u
  /\ "session_id" \notin DOMAIN u /\ "model" \notin DOMAIN u /\ "timestamp" \notin DOMAIN u
  /\ Counts(u)

LEMMA MessageRows ==
  ASSUME Origins
  PROVE  /\ \A i \in 1 .. Len(db.messages) : MessageRow(db.messages[i])
         /\ \A i, j \in 1 .. Len(db.messages) :
              db.messages[i].uuid = db.messages[j].uuid
                 => db.messages[i].session_id = db.messages[j].session_id
<1>1. ASSUME NEW i \in 1 .. Len(db.messages)
      PROVE  \E r \in FeedRows("messages") :
                /\ MessageRow(db.messages[i])
                /\ db.messages[i].uuid = r.uuid /\ db.messages[i].session_id = r.session_id
  <2> DEFINE m == db.messages[i]
  <2>1. Origin("messages", m, i)
    BY <1>1 DEF Origins
  <2>2. PICK r \in FeedRows("messages") : m = With(r, [id |-> i])
    BY <2>1 DEF Origin
  <2> HIDE DEF m
  <2>3. /\ {"uuid", "session_id", "model", "timestamp"} \subseteq DOMAIN r
        /\ Written(r.session_id) /\ Written(r.timestamp) /\ r.timestamp # <<>>
        /\ r.model = None \/ (r.model = Some(r.model[1]) /\ Written(r.model[1]))
    BY TokensAssumption
  <2>4. DOMAIN r \subseteq DOMAIN m /\ \A c \in DOMAIN r : m[c] = r[c]
    BY <2>2, WithIs
  <2>5. /\ m["uuid"] = r["uuid"] /\ m["session_id"] = r["session_id"]
        /\ m["model"] = r["model"] /\ m["timestamp"] = r["timestamp"]
    BY <2>3, <2>4
  <2>6. MessageRow(m)
    BY <2>3, <2>4, <2>5 DEF MessageRow, Key
  <2> QED  BY <2>5, <2>6 DEF m
<1>2. \A r, s \in FeedRows("messages") : r.uuid = s.uuid => r.session_id = s.session_id
  BY TokensAssumption
<1>3. ASSUME NEW i \in 1 .. Len(db.messages), NEW j \in 1 .. Len(db.messages),
             db.messages[i].uuid = db.messages[j].uuid
      PROVE  db.messages[i].session_id = db.messages[j].session_id
  <2>1. PICK r \in FeedRows("messages") :
           db.messages[i].uuid = r.uuid /\ db.messages[i].session_id = r.session_id
    BY <1>1
  <2>2. PICK s \in FeedRows("messages") :
           db.messages[j].uuid = s.uuid /\ db.messages[j].session_id = s.session_id
    BY <1>1
  <2> QED  BY <1>2, <1>3, <2>1, <2>2
<1> QED  BY <1>1, <1>3

LEMMA TokenRows ==
  ASSUME Origins
  PROVE  \A i \in 1 .. Len(db.token_usage) : TokenRow(db.token_usage[i])
<1> TAKE i \in 1 .. Len(db.token_usage)
<1> DEFINE u == db.token_usage[i]
<1>1. Origin("token_usage", u, i)
  BY DEF Origins
<1>2. PICK r \in FeedRows("token_usage") : u = With(r, [id |-> i])
  BY <1>1 DEF Origin
<1> HIDE DEF u
<1>3. /\ {"message_uuid", "input_tokens", "output_tokens"} \subseteq DOMAIN r
      /\ DOMAIN r \cap {"session_id", "model", "timestamp"} = {}
      /\ \A c \in {"input_tokens", "output_tokens"} :
            r[c] = None \/ (r[c] = Some(r[c][1]) /\ r[c][1] \in Nat)
  BY TokensAssumption
<1>4. DOMAIN u = DOMAIN r \cup {"id"} /\ \A c \in DOMAIN r : u[c] = r[c]
  BY <1>2 DEF With
<1>5. Counts(u)
  <2>1. u["input_tokens"] = r["input_tokens"] /\ u["output_tokens"] = r["output_tokens"]
    BY <1>3, <1>4
  <2>2. Count(r["input_tokens"]) /\ Count(r["output_tokens"])
    BY <1>3 DEF Count
  <2> QED  BY <2>1, <2>2 DEF Counts
<1>6. TokenRow(u)
  BY <1>3, <1>4, <1>5 DEF TokenRow
<1> QED  BY <1>6 DEF u

\* A row of tokens joined with a message.
JoinedRow(r, u, m) ==
  /\ Counts(r) /\ \A c \in Counted : Weight(r, c) = Weight(u, c)
  /\ r["session_id"] = m["session_id"] /\ r["model"] = m["model"] /\ r["timestamp"] = m["timestamp"]

LEMMA JoinedIs ==
  ASSUME NEW u, TokenRow(u), NEW m, MessageRow(m)
  PROVE  JoinedRow(With(u, m), u, m)
<1> DEFINE r == With(u, m)
<1>1. /\ \A c \in DOMAIN u : r[c] = u[c]
      /\ \A c \in DOMAIN m : c \notin DOMAIN u => r[c] = m[c]
  BY DEF With
<1> HIDE DEF r
<1>2. r["input_tokens"] = u["input_tokens"] /\ r["output_tokens"] = u["output_tokens"]
  BY <1>1 DEF TokenRow
<1>3. r["session_id"] = m["session_id"] /\ r["model"] = m["model"] /\ r["timestamp"] = m["timestamp"]
  BY <1>1 DEF TokenRow, MessageRow
<1>4. Counts(r)
  BY <1>2 DEF TokenRow, Counts
<1>5. \A c \in Counted : Weight(r, c) = Weight(u, c)
  BY <1>2 DEF Weight, Column
<1> QED  BY <1>3, <1>4, <1>5 DEF JoinedRow, r

LEMMA MessageFound ==
  ASSUME Shaped, NEW b
  PROVE  \A m \in ToSet(MessageOf(b)) : \E i \in 1 .. Len(db.messages) : m = db.messages[i]
<1> DEFINE I == {i \in DOMAIN db.messages : db.messages[i]["uuid"] = b.message_uuid}
           w == Kept(db.messages, I)
<1>1. IsList(db.messages)
  BY DEF Shaped, Tables, EmptyDatabase
<1>2. MessageOf(b) = First(w)
  BY DEF MessageOf, Where, Select
<1> HIDE DEF I
<1>3. IsList(w) /\ \A x : x \in ToSet(w) <=> \E i \in 1 .. Len(db.messages) : i \in I /\ x = db.messages[i]
  BY <1>1, KeptIs
<1> HIDE DEF w
<1>4. \A x : x \in ToSet(First(w)) => x \in ToSet(w)
  BY <1>3, FirstIs
<1> QED  BY <1>2, <1>3, <1>4

\* w is the tokens joined with the messages; e says which row of tokens each
\* row has.
Joins(e, w) ==
  /\ IsList(w)
  /\ Picks(e, Len(w), Len(db.token_usage))
  /\ \A j \in 1 .. Len(w) : \E m \in ToSet(MessageOf(db.token_usage[e[j]])) :
        w[j] = With(db.token_usage[e[j]], m)
  /\ \A i \in 1 .. Len(db.token_usage) :
        MessageOf(db.token_usage[i]) = <<>> \/ \E j \in 1 .. Len(w) : e[j] = i

LEMMA UsedJoins ==
  ASSUME Shaped
  PROVE  \E e : Joins(e, UsedTokens(db))
<1> DEFINE tu == db.token_usage
           n == Len(tu)
           ss == [i \in 1 .. n |-> [k \in DOMAIN MessageOf(tu[i]) |-> With(tu[i], MessageOf(tu[i])[k])]]
           w == FlattenSeq(ss)
<1>1. IsList(tu)
  BY DEF Shaped, Tables, EmptyDatabase
<1>2. n \in Nat /\ DOMAIN tu = 1 .. n
  BY <1>1, ListIs
<1>3. UsedTokens(db) = w
  BY <1>2 DEF UsedTokens, Each, MessageOf
<1>4. ASSUME NEW i \in 1 .. n
      PROVE  /\ IsList(ss[i]) /\ Len(ss[i]) = Len(MessageOf(tu[i])) /\ Len(ss[i]) \in 0 .. 1
             /\ \A k \in 1 .. Len(ss[i]) : \E m \in ToSet(MessageOf(tu[i])) : ss[i][k] = With(tu[i], m)
  <2> DEFINE f == MessageOf(tu[i])
             h == [k \in DOMAIN f |-> With(tu[i], f[k])]
  <2>1. IsList(f) /\ Len(f) \in 0 .. 1
    BY MessageOfIs
  <2>2. DOMAIN f = 1 .. Len(f) /\ \A k \in 1 .. Len(f) : f[k] \in ToSet(f)
    BY <2>1, ListIs
  <2>3. ss[i] = h
    OBVIOUS
  <2> HIDE DEF ss, f
  <2>4. h = [k \in 1 .. Len(f) |-> h[k]] /\ \A k \in 1 .. Len(f) : h[k] = With(tu[i], f[k])
    BY <2>2
  <2> HIDE DEF h
  <2>5. IsList(h) /\ Len(h) = Len(f)
    BY <2>1, <2>4, ListFrom
  <2>6. \A k \in 1 .. Len(f) : \E m \in ToSet(f) : h[k] = With(tu[i], m)
    BY <2>2, <2>4
  <2> QED  BY <2>1, <2>3, <2>5, <2>6 DEF f
<1>5. ss = [i \in 1 .. n |-> ss[i]]
  OBVIOUS
<1> HIDE DEF ss
<1>6. IsList(ss) /\ Len(ss) = n
  BY <1>2, <1>5, ListFrom
<1>7. PICK e : ComesFrom(e, w, ss, n)
  BY <1>2, <1>4, <1>6, FlatComesFrom
<1>8. IsList(w)
  BY <1>2, <1>4, <1>5, Flattened
<1> HIDE DEF w
<1>9. ASSUME NEW j \in 1 .. Len(w)
      PROVE  \E m \in ToSet(MessageOf(tu[e[j]])) : w[j] = With(tu[e[j]], m)
  <2>1. e[j] \in 1 .. n /\ ss[e[j]] = <<w[j]>>
    BY <1>7 DEF ComesFrom, Picks
  <2>2. Len(ss[e[j]]) = 1 /\ ss[e[j]][1] = w[j]
    BY <2>1, OneElement
  <2> DEFINE i == e[j]
  <2>3. i \in 1 .. n /\ 1 \in 1 .. Len(ss[i]) /\ ss[i][1] = w[j]
    BY <2>1, <2>2
  <2> HIDE DEF i
  <2>4. \E m \in ToSet(MessageOf(tu[i])) : ss[i][1] = With(tu[i], m)
    BY <1>4, <2>3
  <2> QED  BY <2>3, <2>4 DEF i
<1>10. ASSUME NEW i \in 1 .. n, MessageOf(tu[i]) # <<>>
       PROVE  \E j \in 1 .. Len(w) : e[j] = i
  <2>1. IsList(MessageOf(tu[i]))
    BY MessageOfIs
  <2>2. Len(MessageOf(tu[i])) # 0
    BY <1>10, <2>1, EmptyIs
  <2>3. ss[i] # <<>>
    BY <1>4, <2>2, NoElements
  <2> QED  BY <1>7, <2>3 DEF ComesFrom
<1>11. Picks(e, Len(w), n)
  BY <1>7 DEF ComesFrom
<1> QED  BY <1>3, <1>8, <1>9, <1>10, <1>11 DEF Joins

LEMMA UsedRows ==
  ASSUME Shaped, Origins, NEW e, NEW w, Joins(e, w), NEW j \in 1 .. Len(w)
  PROVE  /\ e[j] \in 1 .. Len(db.token_usage)
         /\ \E i \in 1 .. Len(db.messages) :
              /\ db.messages[i].uuid = db.token_usage[e[j]].message_uuid
              /\ MessageRow(db.messages[i])
              /\ JoinedRow(w[j], db.token_usage[e[j]], db.messages[i])
<1> DEFINE u == db.token_usage[e[j]]
<1>1. e[j] \in 1 .. Len(db.token_usage)
  BY DEF Joins, Picks
<1>2. PICK m \in ToSet(MessageOf(u)) : w[j] = With(u, m)
  BY DEF Joins
<1>3. TokenRow(u)
  BY <1>1, TokenRows
<1>4. m["uuid"] = u.message_uuid /\ \E i \in 1 .. Len(db.messages) : m = db.messages[i]
  BY <1>2, MessageOfIs, MessageFound
<1>5. PICK i \in 1 .. Len(db.messages) : m = db.messages[i]
  BY <1>4
<1>6. MessageRow(m)
  BY <1>5, MessageRows
<1>7. JoinedRow(w[j], u, m)
  BY <1>2, <1>3, <1>6, JoinedIs
<1> QED  BY <1>1, <1>4, <1>5, <1>6, <1>7

-----------------------------------------------------------------------------
(***************************************************************************)
(* The groups of the three statistics.                                     *)
(***************************************************************************)
LEMMA AllKept ==
  ASSUME NEW s, IsList(s), NEW I, \A i \in 1 .. Len(s) : i \in I
  PROVE  Kept(s, I) = s
<1> DEFINE n == Len(s)
           ss == [i \in 1 .. n |-> IF i \in I THEN <<s[i]>> ELSE <<>>]
<1>1. n \in Nat
  BY ListIs
<1>2. Kept(s, I) = FlattenSeq(ss)
  BY DEF Kept
<1>3. \A i \in 1 .. n : ss[i] = <<s[i]>>
  OBVIOUS
<1>4. ss = [i \in 1 .. n |-> ss[i]]
  OBVIOUS
<1> HIDE DEF ss
<1>5. \A i \in 1 .. n : IsList(ss[i]) /\ Len(ss[i]) = 1 /\ ss[i][1] = s[i]
  BY <1>3, OneElement
<1>6. IsList(ss) /\ Len(ss) = n
  BY <1>1, <1>4, ListFrom
<1>7. PICK g : Steps(g, ss, n)
  BY <1>1, <1>5, <1>6, FlatSteps
<1>8. /\ g[0] = <<>> /\ g[n] = FlattenSeq(ss)
      /\ \A i \in 0 .. n - 1 : g[i + 1] = g[i] \o ss[i + 1]
      /\ \A i \in 0 .. n : IsList(g[i])
  BY <1>7 DEF Steps
<1> DEFINE T == {m \in Nat : m \in 0 .. n => Len(g[m]) = m /\ \A j \in 1 .. m : g[m][j] = s[j]}
<1>9. 0 \in T
  BY <1>8, NoElements
<1>10. ASSUME NEW m \in Nat, m \in T
       PROVE  m + 1 \in T
  <2> SUFFICES ASSUME m + 1 \in 0 .. n
               PROVE  Len(g[m + 1]) = m + 1 /\ \A j \in 1 .. m + 1 : g[m + 1][j] = s[j]
    OBVIOUS
  <2>1. m \in 0 .. n - 1 /\ m \in 0 .. n /\ m + 1 \in 1 .. n
    BY <1>1
  <2>2. Len(g[m]) = m /\ \A j \in 1 .. m : g[m][j] = s[j]
    BY <1>10, <2>1
  <2>3. g[m + 1] = g[m] \o ss[m + 1] /\ IsList(g[m])
    BY <1>8, <2>1
  <2>4. IsList(ss[m + 1]) /\ Len(ss[m + 1]) = 1 /\ ss[m + 1][1] = s[m + 1]
    BY <1>5, <2>1
  <2> DEFINE a == g[m]
             b == ss[m + 1]
             c == a \o b
  <2>5. IsList(a) /\ IsList(b) /\ Len(b) = 1 /\ Len(a) = m /\ b[1] = s[m + 1] /\ g[m + 1] = c
    BY <2>2, <2>3, <2>4
  <2>0. IsList(a) /\ IsList(b)
    BY <2>5
  <2>6. \A j \in 1 .. m : a[j] = s[j]
    BY <2>2
  <2> HIDE DEF T, a, b
  <2>7. /\ Len(c) = Len(a) + Len(b)
        /\ \A i \in 1 .. Len(a) : c[i] = a[i]
        /\ \A i \in 1 .. Len(b) : c[Len(a) + i] = b[i]
    BY ONLY <2>0, Joined
  <2> HIDE DEF c
  <2>8. Len(c) = m + 1 /\ c[m + 1] = s[m + 1]
    BY <2>5, <2>7
  <2>9. \A j \in 1 .. m + 1 : c[j] = s[j]
    <3> TAKE j \in 1 .. m + 1
    <3>1. j = m + 1 \/ j \in 1 .. m
      OBVIOUS
    <3> QED  BY <2>5, <2>6, <2>7, <2>8, <3>1
  <2> QED  BY <2>5, <2>8, <2>9
<1> HIDE DEF T
<1>11. n \in T
  BY <1>1, <1>9, <1>10, Induct
<1>12. Len(g[n]) = n /\ \A j \in 1 .. n : g[n][j] = s[j]
  BY <1>1, <1>11 DEF T
<1>13. IsList(g[n])
  BY <1>1, <1>8
<1> QED  BY <1>2, <1>8, <1>12, <1>13, SameLists

\* h lists the groups of the keys v.
Tallies(h, w, v, name) ==
  \E g : GroupedBy(g, w, v, name) /\ \E e : Shuffled(h, g, e)

LEMMA GroupsListed ==
  ASSUME NEW g, NEW w, NEW v, NEW name, GroupedBy(g, w, v, name)
  PROVE  \E e : Shuffled(MostFirst(g, "total_input_tokens"), g, e)
<1>1. IsList(g)
  BY DEF GroupedBy
<1>2. ASSUME NEW k \in 1 .. Len(g)
      PROVE  g[k]["total_input_tokens"] \in Nat
  <2> DEFINE c == "total_input_tokens"
             u == [i \in 1 .. Len(w) |-> IF v[i] = KeysOf(v)[k] THEN Weight(w[i], c) ELSE 0]
  <2>1. \A i \in 1 .. Len(w) : u[i] = IF v[i] = KeysOf(v)[k] THEN Weight(w[i], c) ELSE 0
    OBVIOUS
  <2>2. c \in Counted
    BY DEF Counted
  <2> HIDE DEF u, c
  <2>3. g[k][c] \in Nat
    BY <2>1, <2>2, GroupIs
  <2> QED  BY <2>3 DEF c
<1> QED  BY <1>1, <1>2, MostFirstShuffles

\* What is grouped by.
Models(w)   == [i \in DOMAIN w |-> w[i].model]
Sessions(w) == [i \in DOMAIN w |-> Some(w[i].session_id)]
Days(w)     == [i \in DOMAIN w |-> Some(<<Head(w[i].timestamp)>>)]

\* Rows of tokens, each with a message.
Tokened(w) ==
  IsList(w) /\ \A i \in 1 .. Len(w) :
    /\ Counts(w[i]) /\ Key(w[i].model)
    /\ Written(w[i].session_id) /\ Written(w[i].timestamp) /\ w[i].timestamp # <<>>

LEMMA ByModel ==
  ASSUME NEW w, w = UsedTokens(db), Tokened(w)
  PROVE  \E name : Tallies(token_stats_by_model(db), w, Models(w), name)
<1> DEFINE v == Models(w)
           name == [k \in DOMAIN KeysOf(v) |-> Coalesce(KeysOf(v)[k], Unknown)]
           g == [k \in DOMAIN KeysOf(v) |->
                    TokenStats(name[k], Kept(w, {i \in DOMAIN w : v[i] = KeysOf(v)[k]}))]
<1>1. DOMAIN w = 1 .. Len(w) /\ IsList(w)
  BY ListIs DEF Tokened
<1>2. \A i \in DOMAIN w : v[i] = w[i].model
  BY DEF Models
<1>3. g = [k \in DOMAIN KeysOf(v) |->
              TokenStats(Coalesce(KeysOf(v)[k], Unknown),
                         Kept(w, {i \in DOMAIN w : w[i].model = KeysOf(v)[k]}))]
  BY <1>2
<1>4. token_stats_by_model(db) = MostFirst(g, "total_input_tokens")
  <2> HIDE DEF g
  <2> QED  BY <1>3 DEF token_stats_by_model, Groups, KeysOf, Ordered, Each, Select, Models
<1>5. v = [i \in DOMAIN w |-> v[i]]
  BY DEF Models
<1>6. \A i \in 1 .. Len(w) : Counts(w[i]) /\ Key(v[i])
  BY <1>1, <1>2 DEF Tokened
<1>7. g = [k \in DOMAIN KeysOf(v) |->
              TokenStats(name[k], Kept(w, {i \in DOMAIN w : v[i] = KeysOf(v)[k]}))]
  OBVIOUS
<1> HIDE DEF v, name, g
<1>8. GroupedBy(g, w, v, name)
  BY <1>1, <1>5, <1>6, <1>7, GroupsGroup
<1>9. \E e : Shuffled(MostFirst(g, "total_input_tokens"), g, e)
  BY <1>8, GroupsListed
<1> QED  BY <1>4, <1>8, <1>9 DEF Tallies, v

LEMMA BySession ==
  ASSUME NEW w, w = UsedTokens(db), Tokened(w)
  PROVE  \E name : /\ Tallies(token_stats_by_session(db, None), w, Sessions(w), name)
                   /\ \A k \in 1 .. Len(KeysOf(Sessions(w))) : \A s :
                         name[k] = s <=> KeysOf(Sessions(w))[k] = Some(s)
<1> DEFINE v == Sessions(w)
           keys == KeysOf(v)
           name == [k \in DOMAIN keys |-> keys[k][1]]
           g == [k \in DOMAIN keys |->
                    TokenStats(name[k], Kept(w, {i \in DOMAIN w : v[i] = keys[k]}))]
           all == {i \in DOMAIN w : None \in {None, Some(w[i].session_id)}}
<1>1. DOMAIN w = 1 .. Len(w) /\ IsList(w)
  BY ListIs DEF Tokened
<1>2. \A i \in DOMAIN w : v[i] = Some(w[i].session_id)
  BY DEF Sessions
<1>3. g = [k \in DOMAIN keys |->
              TokenStats(keys[k][1], Kept(w, {i \in DOMAIN w : Some(w[i].session_id) = keys[k]}))]
  BY <1>2
<1>4. Kept(w, all) = w
  BY <1>1, AllKept
<1>5. token_stats_by_session(db, None) = MostFirst(g, "total_input_tokens")
  <2>1. Select(UsedTokens(db), LAMBDA r : None \in {None, Some(r.session_id)}) = w
    BY <1>4 DEF Select
  <2> HIDE DEF g
  <2>2. Groups(w, LAMBDA r : Some(r.session_id), LAMBDA key, rows : TokenStats(key[1], rows)) = g
    BY <1>3 DEF Groups, KeysOf, Ordered, Each, Select, Sessions
  <2> QED  BY <2>1, <2>2 DEF token_stats_by_session
<1>6. v = [i \in DOMAIN w |-> v[i]]
  BY DEF Sessions
<1>7. \A i \in 1 .. Len(w) : Counts(w[i]) /\ Key(v[i])
  BY <1>1, <1>2 DEF Tokened, Key, Some
<1>8. g = [k \in DOMAIN keys |->
              TokenStats(name[k], Kept(w, {i \in DOMAIN w : v[i] = keys[k]}))]
  OBVIOUS
<1>9. \A k \in DOMAIN keys : name[k] = keys[k][1]
  OBVIOUS
<1> HIDE DEF v, name, g
<1>10. GroupedBy(g, w, v, name)
  BY <1>1, <1>6, <1>7, <1>8, GroupsGroup
<1>11. \E e : Shuffled(MostFirst(g, "total_input_tokens"), g, e)
  BY <1>10, GroupsListed
<1>12. Tallies(token_stats_by_session(db, None), w, v, name)
  BY <1>5, <1>10, <1>11 DEF Tallies
<1>13. ASSUME NEW k \in 1 .. Len(keys), NEW s
       PROVE  name[k] = s <=> keys[k] = Some(s)
  <2>1. IsList(v) /\ Len(v) = Len(w) /\ \A i \in 1 .. Len(v) : Key(v[i])
    BY <1>10 DEF GroupedBy
  <2>2. IsList(keys) /\ k \in DOMAIN keys
    BY <2>1, KeysAre, ListIs
  <2>3. PICK i \in 1 .. Len(v) : keys[k] = v[i]
    BY <2>1, KeysAre
  <2> HIDE DEF keys
  <2>4. keys[k] = Some(w[i].session_id) /\ name[k] = keys[k][1]
    BY <1>1, <1>2, <1>9, <2>1, <2>2, <2>3
  <2> QED  BY <2>4 DEF Some
<1> QED  BY <1>12, <1>13 DEF v

LEMMA ByDay ==
  ASSUME NEW w, w = UsedTokens(db), Tokened(w)
  PROVE  \E name : Tallies(token_stats_by_day(db), w, Days(w), name)
<1> DEFINE v == Days(w)
           name == [k \in DOMAIN KeysOf(v) |-> KeysOf(v)[k][1]]
           g == [k \in DOMAIN KeysOf(v) |->
                    TokenStats(name[k], Kept(w, {i \in DOMAIN w : v[i] = KeysOf(v)[k]}))]
<1>1. DOMAIN w = 1 .. Len(w) /\ IsList(w)
  BY ListIs DEF Tokened
<1>2. \A i \in DOMAIN w : v[i] = Some(<<Head(w[i].timestamp)>>)
  BY DEF Days
<1>3. g = [k \in DOMAIN KeysOf(v) |->
              TokenStats(KeysOf(v)[k][1],
                         Kept(w, {i \in DOMAIN w : Some(<<Head(w[i].timestamp)>>) = KeysOf(v)[k]}))]
  BY <1>2
<1>4. token_stats_by_day(db) = Reverse(g)
  <2> HIDE DEF g
  <2>1. Groups(w, LAMBDA r : Some(<<Head(r.timestamp)>>),
                  LAMBDA key, rows : TokenStats(key[1], rows)) = g
    BY <1>3, Zenon DEF Groups, KeysOf, Ordered, Each, Select, Days
  <2> QED  BY <2>1, Zenon DEF token_stats_by_day
<1>5. v = [i \in DOMAIN w |-> v[i]]
  BY DEF Days
<1>6. ASSUME NEW i \in 1 .. Len(w)
      PROVE  Counts(w[i]) /\ Key(v[i])
  <2> DEFINE t == w[i].timestamp
             d == Head(t)
  <2>1. Counts(w[i]) /\ t \in Seq(DOMAIN Rank) /\ t # <<>>
    BY DEF Tokened, Written
  <2>2. d \in DOMAIN Rank
    BY <2>1
  <2>3. v[i] = Some(<<d>>)
    BY <1>1, <1>2
  <2> HIDE DEF d, t
  <2>4. Written(<<d>>)
    BY <2>2 DEF Written
  <2> QED  BY <2>1, <2>3, <2>4 DEF Key, Some
<1>7. g = [k \in DOMAIN KeysOf(v) |->
              TokenStats(name[k], Kept(w, {i \in DOMAIN w : v[i] = KeysOf(v)[k]}))]
  OBVIOUS
<1> HIDE DEF v, name, g
<1>8. GroupedBy(g, w, v, name)
  BY <1>1, <1>5, <1>6, <1>7, GroupsGroup
<1>9. IsList(g)
  BY <1>8 DEF GroupedBy
<1>10. \E e : Shuffled(Reverse(g), g, e)
  BY <1>9, ReverseShuffles
<1> QED  BY <1>4, <1>8, <1>10 DEF Tallies, v

-----------------------------------------------------------------------------
(***************************************************************************)
(* The totals of the history.                                              *)
(***************************************************************************)
LEMMA UsedTokened ==
  ASSUME Shaped, Origins
  PROVE  Tokened(UsedTokens(db))
<1> DEFINE w == UsedTokens(db)
<1>1. PICK e : Joins(e, w)
  BY UsedJoins
<1> HIDE DEF w
<1>2. ASSUME NEW j \in 1 .. Len(w)
      PROVE  /\ Counts(w[j]) /\ Key(w[j].model)
             /\ Written(w[j].session_id) /\ Written(w[j].timestamp) /\ w[j].timestamp # <<>>
  <2>1. PICK i \in 1 .. Len(db.messages) :
           MessageRow(db.messages[i]) /\ JoinedRow(w[j], db.token_usage[e[j]], db.messages[i])
    BY <1>1, UsedRows
  <2> QED  BY <2>1 DEF MessageRow, JoinedRow
<1>3. IsList(w)
  BY <1>1 DEF Joins
<1> QED  BY <1>2, <1>3 DEF Tokened, w

\* Statistics of any keys have the totals of the history.
LEMMA TalliesAdded ==
  ASSUME NEW h, NEW w, NEW v, NEW name, Tallies(h, w, v, name), NEW c \in Counted,
         NEW z, \A i \in 1 .. Len(w) : z[i] = Weight(w[i], c)
  PROVE  Added(h, c) = TotalTo(z, Len(w))
<1>1. PICK g : GroupedBy(g, w, v, name) /\ \E e : Shuffled(h, g, e)
  BY DEF Tallies
<1>2. PICK e : Shuffled(h, g, e)
  BY <1>1
<1> QED  BY <1>1, <1>2, GroupsAdded

LEMMA SameTotals ==
  ASSUME Shaped, Origins, NEW c \in Counted
  PROVE  /\ Added(token_stats_by_model(db), c) = Added(token_stats_by_session(db, None), c)
         /\ Added(token_stats_by_session(db, None), c) = Added(token_stats_by_day(db), c)
<1> DEFINE w == UsedTokens(db)
           z == [i \in 1 .. Len(w) |-> Weight(w[i], c)]
<1>1. w = UsedTokens(db) /\ Tokened(w)
  BY UsedTokened
<1>2. \A i \in 1 .. Len(w) : z[i] = Weight(w[i], c)
  OBVIOUS
<1> HIDE DEF z, w
<1>3. PICK a : Tallies(token_stats_by_model(db), w, Models(w), a)
  BY <1>1, ByModel
<1>4. PICK b : Tallies(token_stats_by_session(db, None), w, Sessions(w), b)
  BY <1>1, BySession
<1>5. PICK d : Tallies(token_stats_by_day(db), w, Days(w), d)
  BY <1>1, ByDay
<1>6. Added(token_stats_by_model(db), c) = TotalTo(z, Len(w))
  BY <1>2, <1>3, TalliesAdded
<1>7. Added(token_stats_by_session(db, None), c) = TotalTo(z, Len(w))
  BY <1>2, <1>4, TalliesAdded
<1>8. Added(token_stats_by_day(db), c) = TotalTo(z, Len(w))
  BY <1>2, <1>5, TalliesAdded
<1> QED  BY <1>6, <1>7, <1>8

\* The uuids of a session's messages.
Uuids(s) == {MessagesOf(db, s)[i].uuid : i \in DOMAIN MessagesOf(db, s)}

LEMMA UuidsAre ==
  ASSUME Shaped, NEW s, NEW u
  PROVE  u \in Uuids(s) <=> \E i \in 1 .. Len(db.messages) :
                               db.messages[i].session_id = s /\ db.messages[i].uuid = u
<1> DEFINE ms == db.messages
           I  == {i \in DOMAIN ms : ms[i]["session_id"] = s}
           w  == Kept(ms, I)
<1>1. IsList(ms) /\ DOMAIN ms = 1 .. Len(ms)
  <2>1. IsList(ms)
    BY DEF Shaped, Tables, EmptyDatabase
  <2> QED  BY <2>1, ListIs
<1>2. MessagesOf(db, s) = w
  BY DEF MessagesOf, Where, Select
<1>3. \A i \in 1 .. Len(ms) : i \in I <=> ms[i].session_id = s
  BY <1>1
<1> HIDE DEF I
<1>4. IsList(w) /\ \A x : x \in ToSet(w) <=> \E i \in 1 .. Len(ms) : i \in I /\ x = ms[i]
  BY <1>1, KeptIs
<1> HIDE DEF w
<1>5. DOMAIN w = 1 .. Len(w) /\ \A x : x \in ToSet(w) <=> \E i \in 1 .. Len(w) : x = w[i]
  BY <1>4, ListIs
<1>6. u \in Uuids(s) <=> \E x \in ToSet(w) : x.uuid = u
  BY <1>2, <1>5 DEF Uuids
<1> HIDE DEF ms
<1>7. (\E x \in ToSet(w) : x.uuid = u) <=> \E i \in 1 .. Len(ms) : ms[i].session_id = s /\ ms[i].uuid = u
  BY <1>3, <1>4
<1> QED  BY <1>6, <1>7 DEF ms

\* What a session's summary counts.
Share(u, s, c) == IF u.message_uuid \in Uuids(s) THEN Weight(u, c) ELSE 0

LEMMA SummaryIs ==
  ASSUME Shaped, Origins, NEW s, NEW c \in {"total_input_tokens", "total_output_tokens"},
         NEW x, \A i \in 1 .. Len(db.token_usage) : x[i] = Share(db.token_usage[i], s, c)
  PROVE  SessionSummaryStats(db, s, MessagesOf(db, s))[c] = TotalTo(x, Len(db.token_usage))
<1> DEFINE tu == db.token_usage
           U  == Uuids(s)
           I  == {i \in DOMAIN tu : tu[i].message_uuid \in U}
           w  == Kept(tu, I)
           y  == [j \in 1 .. Len(w) |-> Coalesce(w[j][Column(c)], 0)]
<1>1. IsList(tu) /\ DOMAIN tu = 1 .. Len(tu)
  <2>1. IsList(tu)
    BY DEF Shaped, Tables, EmptyDatabase
  <2> QED  BY <2>1, ListIs
<1>2. SessionSummaryStats(db, s, MessagesOf(db, s))[c] = Coalesce(SumOf(w, Column(c)), 0)
  <2>1. Select(tu, LAMBDA u : u.message_uuid \in U) = w
    BY DEF Select
  <2> HIDE DEF w
  <2>2. CASE c = "total_input_tokens"
    BY <2>1, <2>2 DEF SessionSummaryStats, Uuids, Column
  <2>3. CASE c = "total_output_tokens"
    BY <2>1, <2>3 DEF SessionSummaryStats, Uuids, Column
  <2> QED  BY <2>2, <2>3
<1>3. \A i \in 1 .. Len(tu) : i \in I <=> tu[i].message_uuid \in U
  BY <1>1
<1>4. \A i \in 1 .. Len(tu) : Counts(tu[i])
  BY TokenRows DEF TokenRow
<1>5. \A i \in 1 .. Len(tu) : x[i] = IF i \in I THEN Coalesce(tu[i][Column(c)], 0) ELSE 0
  BY <1>3 DEF Share, Weight
<1> HIDE DEF I
<1>6. /\ IsList(w) /\ \A z : z \in ToSet(w) <=> \E i \in 1 .. Len(tu) : i \in I /\ z = tu[i]
      /\ \A j \in 1 .. Len(w) : w[j] \in ToSet(w)
  BY <1>1, KeptIs, ListIs
<1>7. \A j \in 1 .. Len(w) : Count(w[j][Column(c)])
  BY <1>4, <1>6 DEF Counts, Column
<1>8. \A j \in 1 .. Len(w) : y[j] = Coalesce(w[j][Column(c)], 0)
  OBVIOUS
<1>9. \A j \in 1 .. Len(w), i \in 1 .. Len(tu) : i \in I /\ w[j] = tu[i] => y[j] = x[i]
  BY <1>5
<1>10. \A i \in 1 .. Len(tu) : x[i] \in Nat /\ (i \notin I => x[i] = 0)
  <2> TAKE i \in 1 .. Len(tu)
  <2>1. Count(tu[i][Column(c)])
    BY <1>4 DEF Counts, Column
  <2>2. Coalesce(tu[i][Column(c)], 0) \in Nat
    BY <2>1, CountIs
  <2> QED  BY <1>5, <2>2
<1> HIDE DEF y, tu
<1>11. TotalTo(y, Len(w)) = TotalTo(x, Len(tu))
  BY <1>1, <1>9, <1>10, TotalKept
<1> HIDE DEF w
<1>12. Coalesce(SumOf(w, Column(c)), 0) = TotalTo(y, Len(w))
  BY <1>6, <1>7, <1>8, SumOfIs
<1> QED  BY <1>2, <1>11, <1>12 DEF tu

\* The same of the joined rows.
JoinedShare(r, s, c) == IF r.session_id = s THEN Weight(r, c) ELSE 0

SharesOf(x, s, c) == \A i \in 1 .. Len(db.token_usage) : x[i] = Share(db.token_usage[i], s, c)

JoinedSharesOf(y, w, s, c) == \A j \in 1 .. Len(w) : y[j] = JoinedShare(w[j], s, c)

\* A session's tokens, counted by its messages or by the joined rows.
LEMMA SharesAgree ==
  ASSUME Shaped, Origins, NEW s, NEW c \in Counted,
         NEW w, w = UsedTokens(db),
         NEW x, SharesOf(x, s, c), NEW y, JoinedSharesOf(y, w, s, c)
  PROVE  TotalTo(y, Len(w)) = TotalTo(x, Len(db.token_usage))
<1> DEFINE tu == db.token_usage
           n  == Len(tu)
           m  == Len(w)
<1>0. /\ \A i \in 1 .. n : x[i] = Share(tu[i], s, c)
      /\ \A j \in 1 .. m : y[j] = IF w[j].session_id = s THEN Weight(w[j], c) ELSE 0
  BY DEF SharesOf, JoinedSharesOf, JoinedShare
<1>1. PICK e : Joins(e, w)
  BY UsedJoins
<1>2. n \in Nat /\ m \in Nat
  <2>1. IsList(tu)
    BY DEF Shaped, Tables, EmptyDatabase
  <2>2. IsList(w)
    BY <1>1 DEF Joins
  <2> QED  BY <2>1, <2>2, ListIs
<1>3. \A i \in 1 .. n : x[i] \in Nat
  <2> TAKE i \in 1 .. n
  <2>1. Weight(tu[i], c) \in Nat
    BY TokenRows, WeightIs DEF TokenRow
  <2> QED  BY <1>0, <2>1 DEF Share
<1>4. ASSUME NEW i \in 1 .. n, ~ \E j \in 1 .. m : e[j] = i
      PROVE  x[i] = 0
  <2>1. MessageOf(tu[i]) = <<>>
    BY <1>1, <1>4 DEF Joins
  <2>2. ~IsMessage(db.messages, tu[i].message_uuid)
    <3>1. IsMessage(db.messages, tu[i].message_uuid) => Len(MessageOf(tu[i])) = 1
      BY MessageOfIs
    <3>2. Len(MessageOf(tu[i])) = 0
      BY <2>1, NoElements
    <3> QED  BY <3>1, <3>2
  <2>3. ASSUME NEW k \in 1 .. Len(db.messages)
        PROVE  db.messages[k].uuid # tu[i].message_uuid
    <3>1. "uuid" \in DOMAIN db.messages[k]
      BY MessageRows DEF MessageRow
    <3> QED  BY <2>2, <3>1 DEF IsMessage
  <2>4. tu[i].message_uuid \notin Uuids(s)
    BY <2>3, UuidsAre
  <2> QED  BY <1>0, <2>4 DEF Share
<1>5. ASSUME NEW j \in 1 .. m
      PROVE  y[j] = x[e[j]]
  <2> DEFINE u == tu[e[j]]
  <2>1. e[j] \in 1 .. n
    BY <1>1, UsedRows
  <2>2. PICK i \in 1 .. Len(db.messages) :
           /\ db.messages[i].uuid = u.message_uuid
           /\ JoinedRow(w[j], u, db.messages[i])
    BY <1>1, UsedRows
  <2>3. w[j].session_id = db.messages[i].session_id /\ Weight(w[j], c) = Weight(u, c)
    BY <2>2 DEF JoinedRow
  <2>4. x[e[j]] = Share(u, s, c)
    BY <1>0, <2>1
  <2> HIDE DEF u
  <2>5. u.message_uuid \in Uuids(s) <=> w[j].session_id = s
    <3>1. ASSUME u.message_uuid \in Uuids(s)
          PROVE  w[j].session_id = s
      <4>1. PICK k \in 1 .. Len(db.messages) :
               db.messages[k].session_id = s /\ db.messages[k].uuid = u.message_uuid
        BY <3>1, UuidsAre
      <4>2. db.messages[i].session_id = db.messages[k].session_id
        BY <2>2, <4>1, MessageRows
      <4> QED  BY <2>3, <4>1, <4>2
    <3>2. ASSUME w[j].session_id = s
          PROVE  u.message_uuid \in Uuids(s)
      BY <2>2, <2>3, <3>2, UuidsAre
    <3> QED  BY <3>1, <3>2
  <2> QED  BY <1>0, <2>3, <2>4, <2>5 DEF Share
<1>6. Picks(e, m, n)
  BY <1>1 DEF Joins
<1> HIDE DEF n, m
<1>7. PicksFrom(x, n, y, m, e)
  BY <1>3, <1>4, <1>5, <1>6 DEF PicksFrom
<1>8. TotalTo(y, m) = TotalTo(x, n)
  BY <1>2, <1>7, TotalPicked
<1> QED  BY <1>8 DEF n, m, tu

LEMMA SummaryTotals ==
  ASSUME Shaped, Origins, NEW s, NEW c \in {"total_input_tokens", "total_output_tokens"}
  PROVE  SessionSummaryStats(db, s, MessagesOf(db, s))[c]
            = Added(NamedAs(token_stats_by_session(db, None), s), c)
<1> DEFINE w == UsedTokens(db)
           v == Sessions(w)
           h == token_stats_by_session(db, None)
           x == [i \in 1 .. Len(db.token_usage) |-> Share(db.token_usage[i], s, c)]
           y == [j \in 1 .. Len(w) |-> JoinedShare(w[j], s, c)]
<1>1. w = UsedTokens(db) /\ Tokened(w)
  BY UsedTokened
<1>2. c \in Counted
  BY DEF Counted
<1>3. \A i \in 1 .. Len(db.token_usage) : x[i] = Share(db.token_usage[i], s, c)
  OBVIOUS
<1>4. \A j \in 1 .. Len(w) : y[j] = JoinedShare(w[j], s, c)
  OBVIOUS
<1> HIDE DEF x, y, w
<1>5. SessionSummaryStats(db, s, MessagesOf(db, s))[c] = TotalTo(x, Len(db.token_usage))
  BY <1>3, SummaryIs
<1>6. TotalTo(y, Len(w)) = TotalTo(x, Len(db.token_usage))
  <2>1. SharesOf(x, s, c) /\ JoinedSharesOf(y, w, s, c)
    BY <1>3, <1>4 DEF SharesOf, JoinedSharesOf
  <2> QED  BY <1>1, <1>2, <2>1, SharesAgree
<1>7. PICK name : /\ Tallies(h, w, v, name)
                  /\ \A k \in 1 .. Len(KeysOf(v)) : \A t : name[k] = t <=> KeysOf(v)[k] = Some(t)
  BY <1>1, BySession
<1>8. \A j \in 1 .. Len(w) : v[j] = Some(s) <=> w[j].session_id = s
  <2> TAKE j \in 1 .. Len(w)
  <2>1. j \in DOMAIN w
    BY <1>1, ListIs DEF Tokened
  <2> QED  BY <2>1 DEF Sessions, Some
<1> HIDE DEF v, h
<1>9. PICK g : GroupedBy(g, w, v, name) /\ \E e : Shuffled(h, g, e)
  BY <1>7 DEF Tallies
<1>10. PICK e : Shuffled(h, g, e)
  BY <1>9
<1>11. \A k \in 1 .. Len(g) : name[k] = s <=> KeysOf(v)[k] = Some(s)
  BY <1>7, <1>9 DEF GroupedBy
<1>12. \A j \in 1 .. Len(w) : y[j] = IF v[j] = Some(s) THEN Weight(w[j], c) ELSE 0
  BY <1>4, <1>8 DEF JoinedShare
<1>13. Added(NamedAs(h, s), c) = TotalTo(y, Len(w))
  BY <1>2, <1>9, <1>10, <1>11, <1>12, GroupsShare
<1> QED  BY <1>5, <1>6, <1>13 DEF h

LEMMA TotalsInv == IInv /\ Origins => TotalsAgree
<1> SUFFICES ASSUME IInv, Origins PROVE TotalsAgree
  OBVIOUS
<1> DEFINE by(group) == analytics_tokens(db, [group_by |-> Word(group)]).body
<1>1. Shaped
  BY DEF IInv
<1>2. /\ by("model") = token_stats_by_model(db)
      /\ by("session") = token_stats_by_session(db, None)
      /\ by("day") = token_stats_by_day(db)
  BY DEF analytics_tokens, Word, Json
<1>3. ASSUME NEW c \in {"message_count", "total_input_tokens", "total_output_tokens"}
      PROVE  /\ Added(by("model"), c) = Added(by("session"), c)
             /\ Added(by("session"), c) = Added(by("day"), c)
  <2>1. c \in Counted
    BY DEF Counted
  <2> HIDE DEF by
  <2> QED  BY <1>1, <1>2, <2>1, SameTotals
<1>4. ASSUME NEW s, sessions_summary(db, s).status = 200,
             NEW c \in {"total_input_tokens", "total_output_tokens"}
      PROVE  sessions_summary(db, s).body[c]
                = Added(NamedAs(by("session"), s), c)
  <2>1. sessions_summary(db, s).body = SessionSummaryStats(db, s, MessagesOf(db, s))
    BY <1>4 DEF sessions_summary, OrNotFound, NotFound, Json, session_summary, Some, None
  <2> HIDE DEF by
  <2>2. SessionSummaryStats(db, s, MessagesOf(db, s))[c]
           = Added(NamedAs(token_stats_by_session(db, None), s), c)
    BY <1>1, SummaryTotals
  <2> QED  BY <1>2, <2>1, <2>2
<1>5. \A i \in DOMAIN db.sessions :
                LET s == db.sessions[i].session_id
                    summary == sessions_summary(db, s)
                IN  summary.status = 200 =>
                      /\ summary.body["total_input_tokens"]
                            = Added(NamedAs(by("session"), s), "total_input_tokens")
                      /\ summary.body["total_output_tokens"]
                            = Added(NamedAs(by("session"), s), "total_output_tokens")
  BY <1>4
<1> QED  BY <1>3, <1>5, Zenon DEF TotalsAgree, NamedAs

\* The tokens of a history, however many messages there are and whatever
\* their models, sessions and days, add up to the same totals by model, by
\* session and by day, and a session's share is what its summary says
\* (query.rs: token_stats_by_model, token_stats_by_session,
\* token_stats_by_day, session_summary).
THEOREM TotalsAdded == Spec => []TotalsAgree
<1>1. IInv /\ Origins => TotalsAgree
  BY TotalsInv
<1> QED  BY <1>1, Invariance, Provenance, PTL

-----------------------------------------------------------------------------
(***************************************************************************)
(* Named queries.                                                          *)
(***************************************************************************)
Quotes(s, i) == {j \in 1 .. i - 1 : s[j] = "'"}

LEMMA QuotesIs ==
  ASSUME NEW s, NEW i \in Nat \ {0}
  PROVE  /\ Cardinality(Quotes(s, i)) \in Nat
         /\ s[i] = "'" => Cardinality(Quotes(s, i + 1)) = Cardinality(Quotes(s, i)) + 1
         /\ s[i] # "'" => Quotes(s, i + 1) = Quotes(s, i)
         /\ Quoted(s, i) <=> Cardinality(Quotes(s, i)) % 2 = 1
<1>1. IsFiniteSet(Quotes(s, i))
  <2>1. IsFiniteSet(1 .. i - 1)
    BY FS_Interval
  <2>2. Quotes(s, i) \in SUBSET (1 .. i - 1)
    BY DEF Quotes
  <2> HIDE DEF Quotes
  <2> DEFINE S == 1 .. i - 1
  <2> HIDE DEF S
  <2> QED  BY <2>1, <2>2, FS_Subset DEF S
<1>2. \A j : j \in 1 .. (i + 1) - 1 <=> j \in 1 .. i - 1 \/ j = i
  OBVIOUS
<1>3. i \notin Quotes(s, i)
  BY DEF Quotes
<1>4. s[i] = "'" => Quotes(s, i + 1) = Quotes(s, i) \cup {i}
  BY <1>2 DEF Quotes
<1>5. s[i] # "'" => Quotes(s, i + 1) = Quotes(s, i)
  BY <1>2 DEF Quotes
<1>6. Quoted(s, i) <=> Cardinality(Quotes(s, i)) % 2 = 1
  BY DEF Quoted, Quotes
<1>7. Cardinality(Quotes(s, i)) \in Nat
  BY <1>1, FS_CardinalityType
<1>8. s[i] = "'" => Cardinality(Quotes(s, i + 1)) = Cardinality(Quotes(s, i)) + 1
  BY <1>1, <1>3, <1>4, FS_AddElement
<1> QED  BY <1>5, <1>6, <1>7, <1>8

LEMMA NoQuotes ==
  ASSUME NEW s, NEW i \in Nat \ {0}, NEW e \in Nat \ {0}, i <= e,
         \A j \in i .. e - 1 : s[j] # "'"
  PROVE  Quotes(s, e) = Quotes(s, i)
<1>1. \A j : j \in 1 .. e - 1 <=> j \in 1 .. i - 1 \/ j \in i .. e - 1
  OBVIOUS
<1> QED  BY <1>1 DEF Quotes

\* A statement is read from its first place past its last; a name has no quote.
LEMMA AfterIs ==
  ASSUME NEW sql, IsList(sql), NEW i \in 1 .. Len(sql)
  PROVE  /\ After(sql, i) \in i + 1 .. Len(sql) + 1
         /\ Placeholder(sql, i) => Quotes(sql, After(sql, i)) = Quotes(sql, i)
         /\ ~Placeholder(sql, i) => After(sql, i) = i + 1
<1>1. Len(sql) \in Nat
  BY ListIs
<1>2. CASE ~Placeholder(sql, i)
  BY <1>1, <1>2 DEF After
<1>3. CASE Placeholder(sql, i)
  <2> DEFINE S == {j \in i + 1 .. Len(sql) + 1 : j > Len(sql) \/ sql[j] \notin NameRest}
             e == Min(S)
  <2>1. After(sql, i) = e
    BY <1>3 DEF After, NameEnd
  <2>2. S \in SUBSET Nat /\ S # {}
    <3>1. Len(sql) + 1 \in S
      BY <1>1
    <3>2. S \subseteq i + 1 .. Len(sql) + 1
      OBVIOUS
    <3>3. i + 1 .. Len(sql) + 1 \subseteq Nat
      BY <1>1
    <3> HIDE DEF S
    <3> QED  BY <3>1, <3>2, <3>3
  <2>3. \A j \in i + 1 .. Len(sql) : j \notin S => sql[j] \in NameRest
    BY <1>1
  <2>4. S \subseteq i + 1 .. Len(sql) + 1
    OBVIOUS
  <2> HIDE DEF S
  <2>5. e \in S /\ \A j \in S : e <= j
    BY <2>2, MinIsLeast
  <2>6. e \in i + 1 .. Len(sql) + 1
    BY <2>4, <2>5
  <2> HIDE DEF e
  <2>7. sql[i] = ":"
    BY <1>3 DEF Placeholder, Named
  <2>8. ASSUME NEW j \in i .. e - 1
        PROVE  sql[j] # "'"
    <3>1. CASE j = i
      BY <2>7, <3>1
    <3>2. CASE j # i
      <4>1. j \in i + 1 .. Len(sql) /\ ~(e <= j)
        BY <1>1, <2>6, <3>2
      <4>2. sql[j] \in NameRest
        BY <2>3, <2>5, <4>1
      <4> QED  BY <4>2, NameAssumption
    <3> QED  BY <3>1, <3>2
  <2>9. i \in Nat \ {0} /\ e \in Nat \ {0} /\ i <= e
    BY <1>1, <2>6
  <2>10. Quotes(sql, e) = Quotes(sql, i)
    BY <2>8, <2>9, NoQuotes
  <2> QED  BY <1>3, <2>1, <2>6, <2>10
<1> QED  BY <1>2, <1>3

\* w is what r ends with after its first l places.
Ends(r, l, w) == Len(r) = l + Len(w) /\ \A j \in 1 .. Len(w) : r[l + j] = w[j]

GoesOn(r, l, p, q) ==
  /\ Ends(r, l + Len(p), q)
  /\ \A j \in 1 .. Len(p) : r[l + j] = p[j]
  /\ Len(r) = l + Len(p) + Len(q)

LEMMA EndsJoined ==
  ASSUME NEW r, NEW l \in Nat, NEW p, NEW q, IsList(p), IsList(q), Ends(r, l, p \o q)
  PROVE  GoesOn(r, l, p, q)
<1> DEFINE w == p \o q
<1>1. /\ Len(w) = Len(p) + Len(q) /\ Len(p) \in Nat /\ Len(q) \in Nat
      /\ \A j \in 1 .. Len(p) : w[j] = p[j]
      /\ \A j \in 1 .. Len(q) : w[Len(p) + j] = q[j]
  BY Joined, ListIs
<1>2. Len(r) = l + Len(w) /\ \A j \in 1 .. Len(w) : r[l + j] = w[j]
  BY DEF Ends
<1> HIDE DEF w
<1>3. \A j \in 1 .. Len(p) : r[l + j] = p[j]
  <2> TAKE j \in 1 .. Len(p)
  <2>1. j \in 1 .. Len(w)
    BY <1>1
  <2> QED  BY <1>1, <1>2, <2>1
<1>4. \A j \in 1 .. Len(q) : r[(l + Len(p)) + j] = q[j]
  <2> TAKE j \in 1 .. Len(q)
  <2>1. Len(p) + j \in 1 .. Len(w) /\ l + (Len(p) + j) = (l + Len(p)) + j
    BY <1>1
  <2>2. r[l + (Len(p) + j)] = w[Len(p) + j]
    BY <1>2, <2>1
  <2> QED  BY <1>1, <2>1, <2>2
<1>5. Len(r) = (l + Len(p)) + Len(q)
  BY <1>1, <1>2
<1> QED  BY <1>3, <1>4, <1>5 DEF Ends, GoesOn

Puts(sql, names) ==
  [i \in DOMAIN sql |->
     IF ~Placeholder(sql, i) THEN <<sql[i]>>
     ELSE IF NameAt(sql, i) \in Range(names)
          THEN <<"?">> \o Numeral(PositionOf(names, NameAt(sql, i)))
     ELSE <<":">> \o NameAt(sql, i)]

Gives(sql, given) ==
  [i \in DOMAIN sql |-> IF Placeholder(sql, i) THEN <<given[NameAt(sql, i)]>> ELSE <<sql[i]>>]

Onwards(sql) == [i \in DOMAIN sql |-> After(sql, i)]

Position(r, i) == r[i] = "?" /\ i < Len(r) /\ ~Quoted(r, i)

ValueAt(r, values, i) == values[CHOOSE n \in DOMAIN values : Numeral(n) = <<r[i + 1]>>]

Takes(r, values) ==
  [i \in DOMAIN r |-> IF Position(r, i) THEN <<ValueAt(r, values, i)>> ELSE <<r[i]>>]

Skips(r) == [i \in DOMAIN r |-> IF Position(r, i) THEN i + 2 ELSE i + 1]

\* What the parameters of a statement are bound with.
Prepared(sql, names, values, given) ==
  /\ IsList(sql) /\ \A i \in 1 .. Len(sql) : sql[i] = "?" => Quoted(sql, i)
  /\ Len(names) \in 0 .. MaxNumber /\ DOMAIN names = 1 .. Len(names)
  /\ \A i \in 1 .. Len(sql) : Placeholder(sql, i) => NameAt(sql, i) \in Range(names)
  /\ DOMAIN values = 1 .. Len(names)
  /\ \A k \in 1 .. Len(names) : values[k] = given[names[k]]

Whole(sql, names) == Spelling(Puts(sql, names), Onwards(sql))
Wanted(sql, given) == Spelling(Gives(sql, given), Onwards(sql))
Got(r, values) == Spelling(Takes(r, values), Skips(r))

LEMMA OnwardsIs ==
  ASSUME NEW sql, IsList(sql)
  PROVE  Len(sql) \in Nat /\ DOMAIN sql = 1 .. Len(sql) /\ Onward(Onwards(sql), Len(sql))
<1>1. Len(sql) \in Nat /\ DOMAIN sql = 1 .. Len(sql)
  BY ListIs
<1>2. \A i \in 1 .. Len(sql) : Onwards(sql)[i] = After(sql, i)
  BY <1>1 DEF Onwards
<1>3. \A i \in 1 .. Len(sql) : After(sql, i) \in i + 1 .. Len(sql) + 1
  BY AfterIs
<1> QED  BY <1>1, <1>2, <1>3 DEF Onward

\* A piece: the character itself, or the position of a name.
IsPut(sql, names, i, k) ==
  /\ names[k] = NameAt(sql, i)
  /\ Puts(sql, names)[i] = <<"?">> \o <<ToString(k)>>

LEMMA PutIs ==
  ASSUME NEW sql, NEW names, NEW values, NEW given, Prepared(sql, names, values, given),
         NEW i \in 1 .. Len(sql)
  PROVE  /\ ~Placeholder(sql, i) => Puts(sql, names)[i] = <<sql[i]>>
         /\ Placeholder(sql, i) => \E k \in 1 .. Len(names) : IsPut(sql, names, i, k)
<1>1. i \in DOMAIN sql
  BY OnwardsIs DEF Prepared
<1>2. ~Placeholder(sql, i) => Puts(sql, names)[i] = <<sql[i]>>
  BY <1>1 DEF Puts
<1>3. ASSUME Placeholder(sql, i)
      PROVE  \E k \in 1 .. Len(names) : IsPut(sql, names, i, k)
  <2> DEFINE x == NameAt(sql, i)
             k == PositionOf(names, x)
  <2>1. x \in Range(names)
    BY <1>3 DEF Prepared
  <2>2. Puts(sql, names)[i] = <<"?">> \o Numeral(k)
    BY <1>1, <1>3, <2>1 DEF Puts
  <2> HIDE DEF x
  <2>3. \E n \in DOMAIN names : names[n] = x
    BY <2>1 DEF Range
  <2>4. k \in DOMAIN names /\ names[k] = x
    BY <2>3 DEF PositionOf
  <2> HIDE DEF k
  <2>5. k \in 1 .. Len(names)
    BY <2>4 DEF Prepared
  <2> QED  BY <2>2, <2>4, <2>5 DEF IsPut, Numeral, x
<1> QED  BY <1>2, <1>3

LEMMA WholeIs ==
  ASSUME NEW sql, NEW names, NEW values, NEW given, Prepared(sql, names, values, given)
  PROVE  /\ Rewritten(sql, names) = Whole(sql, names)[1]
         /\ \A i \in 1 .. Len(sql) :
               Whole(sql, names)[i] = Puts(sql, names)[i] \o Whole(sql, names)[After(sql, i)]
         /\ Whole(sql, names)[Len(sql) + 1] = <<>>
         /\ \A i \in 1 .. Len(sql) + 1 : IsList(Whole(sql, names)[i])
         /\ \A i \in 1 .. Len(sql) : IsList(Puts(sql, names)[i])
<1> DEFINE p == Puts(sql, names)
           n == Onwards(sql)
<1>1. /\ Len(sql) \in Nat /\ DOMAIN sql = 1 .. Len(sql) /\ Onward(n, Len(sql))
      /\ \A i \in 1 .. Len(sql) : n[i] = After(sql, i)
  BY OnwardsIs DEF Prepared, Onwards
<1>2. \A i \in 1 .. Len(sql) : IsList(p[i])
  <2> TAKE i \in 1 .. Len(sql)
  <2>1. CASE Placeholder(sql, i)
    <3>0. PICK k \in 1 .. Len(names) : IsPut(sql, names, i, k)
      BY <2>1, PutIs
    <3>1. p[i] = <<"?">> \o <<ToString(k)>>
      BY <3>0 DEF IsPut
    <3>2. IsList(<<"?">>) /\ IsList(<<ToString(k)>>)
      BY OneElement
    <3>3. IsList(<<"?">> \o <<ToString(k)>>)
      BY <3>2, Joined
    <3> HIDE DEF p
    <3> QED  BY <3>1, <3>3
  <2>2. CASE ~Placeholder(sql, i)
    <3>1. p[i] = <<sql[i]>>
      BY <2>2, PutIs
    <3> HIDE DEF p
    <3> QED  BY <3>1, OneElement
  <2> QED  BY <2>1, <2>2
<1>3. p = [i \in 1 .. Len(sql) |-> p[i]]
  BY <1>1 DEF Puts
<1>4. Rewritten(sql, names) = Spelled(p, n)
  BY DEF Rewritten, Puts, Onwards
<1> HIDE DEF p, n
<1>5. Len(p) = Len(sql) /\ ArePieces(p)
  BY <1>1, <1>2, <1>3, ListFrom DEF ArePieces
<1>6. Spells(p, n)
  <2>1. Len(p) \in Nat /\ Onward(n, Len(p))
    BY <1>1, <1>5
  <2> QED  BY <1>5, <2>1, SpelledIs
<1> QED  BY <1>1, <1>2, <1>4, <1>5, <1>6 DEF Spells, Whole, p, n

LEMMA WantedIs ==
  ASSUME NEW sql, NEW given, IsList(sql)
  PROVE  /\ Substituted(sql, given) = Wanted(sql, given)[1]
         /\ \A i \in 1 .. Len(sql) :
               Wanted(sql, given)[i] =
                  (IF Placeholder(sql, i) THEN <<given[NameAt(sql, i)]>> ELSE <<sql[i]>>)
                     \o Wanted(sql, given)[After(sql, i)]
         /\ Wanted(sql, given)[Len(sql) + 1] = <<>>
<1> DEFINE p == Gives(sql, given)
           n == Onwards(sql)
<1>1. /\ Len(sql) \in Nat /\ DOMAIN sql = 1 .. Len(sql) /\ Onward(n, Len(sql))
      /\ \A i \in 1 .. Len(sql) : n[i] = After(sql, i)
  BY OnwardsIs DEF Onwards
<1>2. \A i \in 1 .. Len(sql) :
         p[i] = IF Placeholder(sql, i) THEN <<given[NameAt(sql, i)]>> ELSE <<sql[i]>>
  BY <1>1 DEF Gives
<1>3. p = [i \in 1 .. Len(sql) |-> p[i]]
  BY <1>1 DEF Gives
<1>4. Substituted(sql, given) = Spelled(p, n)
  BY DEF Substituted, Gives, Onwards
<1> HIDE DEF p, n
<1>5. Len(p) = Len(sql)
  BY <1>1, <1>3, ListFrom
<1>6. ArePieces(p)
  <2>1. ASSUME NEW i \in 1 .. Len(sql)
        PROVE  IsList(p[i])
    <3>1. IsList(<<given[NameAt(sql, i)]>>) /\ IsList(<<sql[i]>>)
      BY OneElement
    <3> QED  BY <1>2, <3>1
  <2> QED  BY <1>5, <2>1 DEF ArePieces
<1>7. Spells(p, n)
  <2>1. Len(p) \in Nat /\ Onward(n, Len(p))
    BY <1>1, <1>5
  <2> QED  BY <1>6, <2>1, SpelledIs
<1> QED  BY <1>1, <1>2, <1>4, <1>5, <1>7 DEF Spells, Wanted, p, n

Reads(r, values, i) ==
  /\ Position(r, i) => Got(r, values)[i] = <<ValueAt(r, values, i)>> \o Got(r, values)[i + 2]
  /\ ~Position(r, i) => Got(r, values)[i] = <<r[i]>> \o Got(r, values)[i + 1]

LEMMA GotIs ==
  ASSUME NEW r, NEW values, IsList(r)
  PROVE  /\ Bound(r, values) = Got(r, values)[1]
         /\ \A i \in 1 .. Len(r) : Reads(r, values, i)
         /\ Got(r, values)[Len(r) + 1] = <<>>
<1> DEFINE p == Takes(r, values)
           n == Skips(r)
<1>1. Len(r) \in Nat /\ DOMAIN r = 1 .. Len(r)
  BY ListIs
<1>2. \A i \in 1 .. Len(r) :
         /\ p[i] = IF Position(r, i) THEN <<ValueAt(r, values, i)>> ELSE <<r[i]>>
         /\ n[i] = IF Position(r, i) THEN i + 2 ELSE i + 1
  BY <1>1 DEF Takes, Skips
<1>3. Onward(n, Len(r))
  <2>1. \A i \in 1 .. Len(r) : Position(r, i) => i < Len(r)
    BY DEF Position
  <2>2. \A i \in 1 .. Len(r) : n[i] \in i + 1 .. Len(r) + 1
    <3> TAKE i \in 1 .. Len(r)
    <3>1. CASE Position(r, i)
      <4>1. n[i] = i + 2 /\ i < Len(r)
        BY <1>2, <2>1, <3>1
      <4> HIDE DEF n
      <4> QED  BY <1>1, <4>1
    <3>2. CASE ~Position(r, i)
      <4>1. n[i] = i + 1
        BY <1>2, <3>2
      <4> HIDE DEF n
      <4> QED  BY <1>1, <4>1
    <3> QED  BY <3>1, <3>2
  <2> QED  BY <2>2 DEF Onward
<1>4. p = [i \in 1 .. Len(r) |-> p[i]]
  BY <1>1 DEF Takes
<1>5. Bound(r, values) = Spelled(p, n)
  BY DEF Bound, Takes, Skips, Position, ValueAt
<1> HIDE DEF p, n
<1>6. Len(p) = Len(r)
  BY <1>1, <1>4, ListFrom
<1>7. ArePieces(p)
  <2>1. ASSUME NEW i \in 1 .. Len(r)
        PROVE  IsList(p[i])
    <3>1. IsList(<<ValueAt(r, values, i)>>) /\ IsList(<<r[i]>>)
      BY OneElement
    <3> QED  BY <1>2, <3>1
  <2> QED  BY <1>6, <2>1 DEF ArePieces
<1>8. Spells(p, n)
  <2>1. Len(p) \in Nat /\ Onward(n, Len(p))
    BY <1>1, <1>3, <1>6
  <2> QED  BY <1>7, <2>1, SpelledIs
<1> QED  BY <1>2, <1>5, <1>6, <1>8 DEF Spells, Reads, Got, p, n

\* Place i of the statement is written after the first l of its rewriting, and
\* both have the same quotes before.
Arrives(sql, names, i, l) ==
  /\ Ends(Whole(sql, names)[1], l, Whole(sql, names)[i])
  /\ Cardinality(Quotes(Whole(sql, names)[1], l + 1)) = Cardinality(Quotes(sql, i))

LEMMA OtherAlike ==
  ASSUME NEW sql, NEW names, NEW values, NEW given, Prepared(sql, names, values, given),
         NEW i \in 1 .. Len(sql), NEW l \in Nat, Arrives(sql, names, i, l), ~Placeholder(sql, i)
  PROVE  /\ Arrives(sql, names, i + 1, l + 1)
         /\ Got(Whole(sql, names)[1], values)[l + 1]
               = <<sql[i]>> \o Got(Whole(sql, names)[1], values)[l + 2]
<1> DEFINE r == Whole(sql, names)[1]
           q == Whole(sql, names)[i + 1]
           p == <<sql[i]>>
           g == Got(r, values)
<1>1. Len(sql) \in Nat /\ 1 \in 1 .. Len(sql) + 1 /\ i + 1 \in 1 .. Len(sql) + 1 /\ i \in Nat \ {0}
  BY OnwardsIs DEF Prepared
<1>2. IsList(r) /\ IsList(q)
  BY <1>1, WholeIs
<1>3. Whole(sql, names)[i] = p \o q
  <2>1. Puts(sql, names)[i] = <<sql[i]>>
    BY PutIs
  <2>2. After(sql, i) = i + 1
    BY AfterIs DEF Prepared
  <2>3. Whole(sql, names)[i] = Puts(sql, names)[i] \o Whole(sql, names)[After(sql, i)]
    BY WholeIs
  <2> QED  BY <2>1, <2>2, <2>3
<1>4. Ends(r, l, p \o q) /\ Cardinality(Quotes(r, l + 1)) = Cardinality(Quotes(sql, i))
  BY <1>3 DEF Arrives
<1>5. IsList(p) /\ Len(p) = 1 /\ p[1] = sql[i]
  BY OneElement
<1> HIDE DEF p, q, r
<1>6. Ends(r, l + 1, q) /\ r[l + 1] = sql[i] /\ Len(r) = l + 1 + Len(q)
  <2>1. GoesOn(r, l, p, q)
    BY <1>2, <1>4, <1>5, EndsJoined
  <2>2. 1 \in 1 .. Len(p)
    BY <1>5
  <2> QED  BY <1>5, <2>1, <2>2 DEF GoesOn
<1>7. l + 1 \in 1 .. Len(r) /\ l + 1 \in Nat \ {0} /\ (l + 1) + 1 = l + 2
  <2>1. Len(q) \in Nat
    BY <1>2, ListIs
  <2> QED  BY <1>6, <2>1
<1> DEFINE c(s, k) == Cardinality(Quotes(s, k))
<1>8. c(r, l + 2) = c(sql, i + 1)
  <2>1. /\ c(r, l + 1) \in Nat /\ c(sql, i) \in Nat
        /\ r[l + 1] = "'" => c(r, (l + 1) + 1) = c(r, l + 1) + 1
        /\ r[l + 1] # "'" => c(r, (l + 1) + 1) = c(r, l + 1)
        /\ sql[i] = "'" => c(sql, i + 1) = c(sql, i) + 1
        /\ sql[i] # "'" => c(sql, i + 1) = c(sql, i)
    BY <1>1, <1>7, QuotesIs
  <2>2. c(r, l + 1) = c(sql, i)
    BY <1>4
  <2> HIDE DEF c
  <2> QED  BY <1>6, <1>7, <2>1, <2>2
<1>9. ~Position(r, l + 1)
  <2>1. Quoted(r, l + 1) <=> Quoted(sql, i)
    BY <1>1, <1>4, <1>7, QuotesIs
  <2>2. sql[i] = "?" => Quoted(sql, i)
    BY DEF Prepared
  <2> QED  BY <1>6, <2>1, <2>2 DEF Position
<1>10. Arrives(sql, names, i + 1, l + 1)
  BY <1>6, <1>7, <1>8 DEF Arrives, r, q
<1>11. g[l + 1] = <<r[l + 1]>> \o g[(l + 1) + 1]
  <2>1. Reads(r, values, l + 1)
    BY <1>2, <1>7, GotIs
  <2> QED  BY <1>9, <2>1 DEF Reads
<1> QED  BY <1>6, <1>7, <1>10, <1>11 DEF r

LEMMA NameAlike ==
  ASSUME NEW sql, NEW names, NEW values, NEW given, Prepared(sql, names, values, given),
         NEW i \in 1 .. Len(sql), NEW l \in Nat, Arrives(sql, names, i, l), Placeholder(sql, i)
  PROVE  /\ Arrives(sql, names, After(sql, i), l + 2)
         /\ Got(Whole(sql, names)[1], values)[l + 1]
               = <<given[NameAt(sql, i)]>> \o Got(Whole(sql, names)[1], values)[l + 3]
<1>0. PICK k \in 1 .. Len(names) : IsPut(sql, names, i, k)
  BY PutIs
<1> DEFINE r == Whole(sql, names)[1]
           e == After(sql, i)
           q == Whole(sql, names)[e]
           p == <<"?">> \o <<ToString(k)>>
           g == Got(r, values)
<1>1. /\ Len(sql) \in Nat /\ 1 \in 1 .. Len(sql) + 1 /\ e \in 1 .. Len(sql) + 1 /\ i \in Nat \ {0}
      /\ e \in i + 1 .. Len(sql) + 1
  <2>1. e \in i + 1 .. Len(sql) + 1 /\ Len(sql) \in Nat
    BY OnwardsIs, AfterIs DEF Prepared
  <2> HIDE DEF e
  <2> QED  BY <2>1
<1>2. IsList(r) /\ IsList(q)
  BY <1>1, WholeIs
<1>3. Whole(sql, names)[i] = p \o q
  <2>1. Whole(sql, names)[i] = Puts(sql, names)[i] \o Whole(sql, names)[After(sql, i)]
    BY WholeIs
  <2> QED  BY <1>0, <2>1 DEF IsPut
<1>4. Ends(r, l, p \o q) /\ Cardinality(Quotes(r, l + 1)) = Cardinality(Quotes(sql, i))
  BY <1>3 DEF Arrives
<1>5. IsList(p) /\ Len(p) = 2 /\ p[1] = "?" /\ p[2] = ToString(k)
  <2> DEFINE t == ToString(k)
  <2> HIDE DEF t
  <2>1. IsList(<<"?">>) /\ IsList(<<t>>) /\ Len(<<"?">>) = 1 /\ Len(<<t>>) = 1
    BY OneElement
  <2>2. /\ IsList(<<"?">> \o <<t>>) /\ Len(<<"?">> \o <<t>>) = 1 + 1
    BY <2>1, Joined
  <2>3. (<<"?">> \o <<t>>)[1] = "?" /\ (<<"?">> \o <<t>>)[2] = t
    OBVIOUS
  <2> QED  BY <2>2, <2>3 DEF t
<1>6. k \in 0 .. MaxNumber /\ k \in DOMAIN values /\ values[k] = given[NameAt(sql, i)]
      /\ DOMAIN values \subseteq 0 .. MaxNumber
  <2>1. Len(names) \in 0 .. MaxNumber /\ DOMAIN values = 1 .. Len(names) /\ values[k] = given[names[k]]
    BY DEF Prepared
  <2> QED  BY <1>0, <2>1, NumberAssumption DEF IsPut
<1> HIDE DEF p, q, r, e
<1>7. Ends(r, l + 2, q) /\ r[l + 1] = "?" /\ r[l + 2] = ToString(k) /\ Len(r) = l + 2 + Len(q)
  <2>1. GoesOn(r, l, p, q)
    BY <1>2, <1>4, <1>5, EndsJoined
  <2>2. 1 \in 1 .. Len(p) /\ 2 \in 1 .. Len(p)
    BY <1>5
  <2> QED  BY <1>5, <2>1, <2>2 DEF GoesOn
<1>8. /\ l + 1 \in 1 .. Len(r) /\ l + 1 \in Nat \ {0} /\ (l + 1) + 1 = l + 2 /\ l + 1 < Len(r)
      /\ l + 2 \in Nat \ {0} /\ (l + 2) + 1 = l + 3 /\ (l + 1) + 2 = l + 3
  <2>1. Len(q) \in Nat /\ Len(r) = l + 2 + Len(q)
    BY <1>2, <1>7, ListIs
  <2>2. Len(r) \in Nat /\ l + 1 < Len(r)
    BY <2>1
  <2> QED  BY <2>2
<1>9. Quotes(r, l + 3) = Quotes(r, l + 1)
  <2>1. ToString(k) # "'"
    BY <1>6, NumeralAssumption
  <2>2. \A j \in l + 1 .. (l + 3) - 1 : r[j] # "'"
    <3> TAKE j \in l + 1 .. (l + 3) - 1
    <3>1. j = l + 1 \/ j = l + 2
      OBVIOUS
    <3> QED  BY <1>7, <2>1, <3>1
  <2>3. l + 3 \in Nat \ {0} /\ l + 1 <= l + 3
    OBVIOUS
  <2> QED  BY <1>8, <2>2, <2>3, NoQuotes
<1>10. Quotes(sql, e) = Quotes(sql, i)
  BY AfterIs DEF Prepared, e
<1>11. Arrives(sql, names, e, l + 2)
  BY <1>4, <1>7, <1>8, <1>9, <1>10 DEF Arrives, r, q
<1>12. Position(r, l + 1)
  <2>1. Quoted(r, l + 1) <=> Quoted(sql, i)
    BY <1>1, <1>4, <1>8, QuotesIs
  <2>2. ~Quoted(sql, i)
    BY DEF Placeholder
  <2> QED  BY <1>7, <1>8, <2>1, <2>2 DEF Position
<1>13. ValueAt(r, values, l + 1) = given[NameAt(sql, i)]
  <2> DEFINE c == CHOOSE n \in DOMAIN values : Numeral(n) = <<r[(l + 1) + 1]>>
  <2>1. Numeral(k) = <<r[(l + 1) + 1]>>
    BY <1>7, <1>8 DEF Numeral
  <2>2. c \in DOMAIN values /\ Numeral(c) = <<r[(l + 1) + 1]>>
    BY <1>6, <2>1
  <2> HIDE DEF c
  <2>3. <<ToString(c)>> = <<ToString(k)>>
    BY <2>1, <2>2 DEF Numeral
  <2>4. ToString(c) = ToString(k)
    BY <2>3, OneElement
  <2>5. c = k
    BY <1>6, <2>2, <2>4, NumeralAssumption
  <2> QED  BY <1>6, <2>5 DEF ValueAt, c
<1>14. g[l + 1] = <<ValueAt(r, values, l + 1)>> \o g[(l + 1) + 2]
  <2>1. Reads(r, values, l + 1)
    BY <1>2, <1>8, GotIs
  <2> QED  BY <1>12, <2>1 DEF Reads
<1> QED  BY <1>8, <1>11, <1>13, <1>14 DEF r, e

\* The rewritten statement with the values in the places of its numbers is the
\* statement with the values in the places of its names.
LEMMA BoundIs ==
  ASSUME NEW sql, NEW names, NEW values, NEW given, Prepared(sql, names, values, given)
  PROVE  Bound(Rewritten(sql, names), values) = Substituted(sql, given)
<1> DEFINE r == Whole(sql, names)[1]
           w == Wanted(sql, given)
           g == Got(r, values)
           N == Len(sql)
           T == {m \in Nat : \A i \in 1 .. N + 1 : \A l \in Nat :
                    N + 1 <= i + m /\ Arrives(sql, names, i, l) => g[l + 1] = w[i]}
<1>1. N \in Nat /\ IsList(sql)
  BY OnwardsIs DEF Prepared
<1>2. IsList(r)
  <2>1. 1 \in 1 .. N + 1
    BY <1>1
  <2> QED  BY <2>1, WholeIs
<1>3. 0 \in T
  <2> SUFFICES ASSUME NEW i \in 1 .. N + 1, NEW l \in Nat, N + 1 <= i + 0, Arrives(sql, names, i, l)
               PROVE  g[l + 1] = w[i]
    OBVIOUS
  <2>1. i = N + 1
    BY <1>1
  <2>2. Whole(sql, names)[N + 1] = <<>> /\ w[N + 1] = <<>>
    BY <1>1, WholeIs, WantedIs
  <2>3. Len(r) = l
    <3>1. Len(r) = l + Len(<<>>)
      BY <2>1, <2>2 DEF Arrives, Ends
    <3> HIDE DEF r
    <3> QED  BY <3>1, NoElements
  <2> HIDE DEF r
  <2>4. g[Len(r) + 1] = <<>>
    BY <1>2, GotIs
  <2> QED  BY <2>1, <2>2, <2>3, <2>4
<1>4. ASSUME NEW m \in Nat, m \in T
      PROVE  m + 1 \in T
  <2> SUFFICES ASSUME NEW i \in 1 .. N + 1, NEW l \in Nat, N + 1 <= i + (m + 1),
                      Arrives(sql, names, i, l)
               PROVE  g[l + 1] = w[i]
    OBVIOUS
  <2>1. CASE i = N + 1
    <3>1. N + 1 <= i + m
      BY <1>1, <2>1
    <3> QED  BY <1>4, <3>1
  <2>2. CASE i # N + 1 /\ Placeholder(sql, i)
    <3> DEFINE e == After(sql, i)
    <3>1. i \in 1 .. N
      BY <1>1, <2>2
    <3>2. e \in i + 1 .. N + 1
      BY <1>1, <3>1, AfterIs
    <3>3. Arrives(sql, names, e, l + 2) /\ g[l + 1] = <<given[NameAt(sql, i)]>> \o g[l + 3]
      BY <2>2, <3>1, NameAlike
    <3>4. w[i] = <<given[NameAt(sql, i)]>> \o w[e]
      BY <1>1, <2>2, <3>1, WantedIs
    <3> HIDE DEF e, g, w
    <3>5. e \in 1 .. N + 1 /\ N + 1 <= e + m /\ l + 2 \in Nat /\ (l + 2) + 1 = l + 3
      BY <1>1, <3>2
    <3>6. g[(l + 2) + 1] = w[e]
      BY <1>4, <3>3, <3>5
    <3> QED  BY <3>3, <3>4, <3>5, <3>6
  <2>3. CASE i # N + 1 /\ ~Placeholder(sql, i)
    <3>1. i \in 1 .. N
      BY <1>1, <2>3
    <3>2. After(sql, i) = i + 1
      BY <1>1, <2>3, <3>1, AfterIs
    <3>3. Arrives(sql, names, i + 1, l + 1) /\ g[l + 1] = <<sql[i]>> \o g[l + 2]
      BY <2>3, <3>1, OtherAlike
    <3>4. w[i] = <<sql[i]>> \o w[i + 1]
      <4>1. w[i] = (IF Placeholder(sql, i) THEN <<given[NameAt(sql, i)]>> ELSE <<sql[i]>>)
                      \o w[After(sql, i)]
        BY <1>1, <3>1, WantedIs
      <4> HIDE DEF w
      <4> QED  BY <2>3, <3>2, <4>1
    <3> HIDE DEF g, w
    <3>5. i + 1 \in 1 .. N + 1 /\ N + 1 <= (i + 1) + m /\ l + 1 \in Nat /\ (l + 1) + 1 = l + 2
      BY <1>1, <3>1
    <3>6. g[(l + 1) + 1] = w[i + 1]
      BY <1>4, <3>3, <3>5
    <3> QED  BY <3>3, <3>4, <3>5, <3>6
  <2> QED  BY <2>1, <2>2, <2>3
<1> HIDE DEF T
<1>5. N \in T
  BY <1>1, <1>3, <1>4, Induct
<1>6. Arrives(sql, names, 1, 0)
  <2>1. Ends(r, 0, r)
    <3> HIDE DEF r
    <3>1. Len(r) \in Nat
      BY <1>2, ListIs
    <3>2. Len(r) = 0 + Len(r) /\ \A j \in 1 .. Len(r) : 0 + j = j
      BY <3>1
    <3> QED  BY <3>2 DEF Ends
  <2>2. Quotes(r, 0 + 1) = {} /\ Quotes(sql, 1) = {}
    <3>1. \A j : j \notin 1 .. 1 - 1 /\ j \notin 1 .. (0 + 1) - 1
      OBVIOUS
    <3> QED  BY <3>1 DEF Quotes
  <2> QED  BY <2>1, <2>2 DEF Arrives
<1>7. g[0 + 1] = w[1]
  <2>1. 1 \in 1 .. N + 1 /\ N + 1 <= 1 + N /\ 0 \in Nat
    BY <1>1
  <2> HIDE DEF g, w
  <2> QED  BY <1>5, <1>6, <2>1 DEF T
<1>8. Rewritten(sql, names) = r
  BY WholeIs
<1>9. Bound(r, values) = g[1]
  <2> HIDE DEF r
  <2> QED  BY <1>2, GotIs
<1>10. Substituted(sql, given) = w[1]
  BY <1>1, WantedIs
<1> QED  BY <1>7, <1>8, <1>9, <1>10

PlacesIn(s, I) == Kept([i \in DOMAIN s |-> i], I)

LEMMA PlacesInIs ==
  ASSUME NEW s, IsList(s), NEW I \in SUBSET (1 .. Len(s))
  PROVE  /\ IsList(PlacesIn(s, I)) /\ \A x : x \in ToSet(PlacesIn(s, I)) <=> x \in I
<1> DEFINE ids == [i \in DOMAIN s |-> i]
<1>1. DOMAIN s = 1 .. Len(s) /\ Len(s) \in Nat
  BY ListIs
<1>2. ids = [i \in 1 .. Len(s) |-> ids[i]] /\ \A i \in 1 .. Len(s) : ids[i] = i
  BY <1>1
<1> HIDE DEF ids
<1>3. IsList(ids) /\ Len(ids) = Len(s)
  BY <1>1, <1>2, ListFrom
<1>4. /\ IsList(Kept(ids, I))
      /\ \A x : x \in ToSet(Kept(ids, I)) <=> \E i \in 1 .. Len(ids) : i \in I /\ x = ids[i]
  BY <1>3, KeptIs
<1>5. \A x : x \in ToSet(Kept(ids, I)) <=> x \in I
  BY <1>2, <1>3, <1>4
<1> QED  BY <1>4, <1>5 DEF PlacesIn, ids

\* The parameters of a statement are the names that need a value.
LEMMA NamesIs ==
  ASSUME NEW sql, IsList(sql)
  PROVE  /\ IsList(extract_named_params(sql))
         /\ ToSet(extract_named_params(sql)) = Needed(sql)
         /\ \A i \in 1 .. Len(sql) : Placeholder(sql, i) => NameAt(sql, i) \in Needed(sql)
<1> DEFINE ids == [i \in DOMAIN sql |-> i]
           I == {i \in DOMAIN ids : Placeholder(sql, ids[i])}
           p == PlacesIn(sql, I)
           v == [k \in DOMAIN p |-> NameAt(sql, p[k])]
<1>1. DOMAIN sql = 1 .. Len(sql) /\ Len(sql) \in Nat
  BY ListIs
<1>2. extract_named_params(sql) = Distinct(v)
  BY DEF extract_named_params, FirstUses, Places, Select, PlacesIn
<1>3. I \in SUBSET (1 .. Len(sql)) /\ \A i \in 1 .. Len(sql) : i \in I <=> Placeholder(sql, i)
  <2>1. DOMAIN ids = 1 .. Len(sql) /\ \A i \in 1 .. Len(sql) : ids[i] = i
    BY <1>1
  <2> HIDE DEF ids
  <2> QED  BY <2>1
<1> HIDE DEF I
<1>4. IsList(p) /\ \A x : x \in ToSet(p) <=> x \in I
  BY <1>3, PlacesInIs
<1> HIDE DEF p
<1>5. DOMAIN p = 1 .. Len(p) /\ Len(p) \in Nat /\ \A x : x \in ToSet(p) <=> \E k \in 1 .. Len(p) : x = p[k]
  BY <1>4, ListIs
<1>6. v = [k \in 1 .. Len(p) |-> v[k]] /\ \A k \in 1 .. Len(p) : v[k] = NameAt(sql, p[k])
  BY <1>5
<1> HIDE DEF v
<1>7. IsList(v) /\ Len(v) = Len(p)
  BY <1>5, <1>6, ListFrom
<1>8. \A x : x \in ToSet(v) <=> \E k \in 1 .. Len(p) : x = v[k]
  BY <1>7, ListIs
<1>9. \A x : x \in Needed(sql) <=> \E i \in 1 .. Len(sql) : i \in I /\ x = NameAt(sql, i)
  BY <1>1, <1>3 DEF Needed
<1>10. \A x : x \in ToSet(v) <=> x \in Needed(sql)
  <2> TAKE x
  <2>1. ASSUME x \in ToSet(v)
        PROVE  x \in Needed(sql)
    <3>1. PICK k \in 1 .. Len(p) : x = v[k]
      BY <1>8, <2>1
    <3>2. p[k] \in I
      BY <1>4, <1>5
    <3> QED  BY <1>3, <1>6, <1>9, <3>1, <3>2
  <2>2. ASSUME x \in Needed(sql)
        PROVE  x \in ToSet(v)
    <3>1. PICK i \in 1 .. Len(sql) : i \in I /\ x = NameAt(sql, i)
      BY <1>9, <2>2
    <3>2. PICK k \in 1 .. Len(p) : i = p[k]
      BY <1>4, <1>5, <3>1
    <3> QED  BY <1>6, <1>8, <3>1, <3>2
  <2> QED  BY <2>1, <2>2
<1>11. IsList(Distinct(v)) /\ \A x : x \in ToSet(Distinct(v)) <=> x \in ToSet(v)
  BY <1>7, DistinctOnce
<1>12. ToSet(extract_named_params(sql)) = Needed(sql)
  BY <1>2, <1>10, <1>11
<1>13. \A i \in 1 .. Len(sql) : Placeholder(sql, i) => NameAt(sql, i) \in Needed(sql)
  BY <1>3, <1>9
<1> QED  BY <1>2, <1>11, <1>12, <1>13

\* A value is bound as it is.
LEMMA ValueOfIs ==
  ASSUME NEW query, NEW given, NEW m
  PROVE  LET v == ValueOf(query, given, m)
         IN  v.ok \in BOOLEAN /\ (v.ok => json_value_to_sql(v.value) = Ok(v.value))
<1> DEFINE v == ValueOf(query, given, m)
<1>1. \/ v = Err("missing") \/ v = Err("param")
      \/ \E t : v = Ok(<<"text", t>>) \/ v = Ok(<<"number", t>>)
  <2> DEFINE def == DefOf(query, m)
             text == IF m \in DOMAIN given THEN Some(given[m])
                     ELSE IF def = None THEN None ELSE def[1].default
             type == IF def = None THEN "text" ELSE def[1].type
             t == text[1]
  <2>1. v = CASE text = None -> Err("missing")
              [] text # None /\ type = "text" -> Ok(<<"text", t>>)
              [] text # None /\ type = "integer" ->
                    IF t \in IntegerTexts THEN Ok(<<"number", t>>) ELSE Err("param")
              [] OTHER -> IF t \in RealTexts THEN Ok(<<"number", t>>) ELSE Err("param")
    BY DEF ValueOf
  <2> HIDE DEF t, text, type, v
  <2>2. CASE text = None
    BY <2>1, <2>2
  <2>3. CASE text # None /\ type = "text"
    BY <2>1, <2>3
  <2>4. CASE text # None /\ type = "integer"
    BY <2>1, <2>4
  <2>5. CASE text # None /\ type # "text" /\ type # "integer"
    BY <2>1, <2>5
  <2> QED  BY <2>2, <2>3, <2>4, <2>5
<1> HIDE DEF v
<1>2. \A t : json_value_to_sql(<<"text", t>>) = Ok(<<"text", t>>)
  BY DEF json_value_to_sql
<1>3. \A t : json_value_to_sql(<<"number", t>>) = Ok(<<"number", t>>)
  BY DEF json_value_to_sql
<1>4. \A x : Ok(x).ok = TRUE /\ Ok(x).value = x /\ Err(x).ok = FALSE
  BY DEF Ok, Err
<1>5. v.ok \in BOOLEAN /\ (v.ok => json_value_to_sql(v.value) = Ok(v.value))
  <2>1. CASE v = Err("missing") \/ v = Err("param")
    BY <1>4, <2>1
  <2>2. CASE \E t : v = Ok(<<"text", t>>) \/ v = Ok(<<"number", t>>)
    BY <1>2, <1>3, <1>4, <2>2
  <2> QED  BY <1>1, <2>1, <2>2
<1> QED  BY <1>5 DEF v

\* Every parameter has a value, or the first that has none is the answer.
LEMMA PreparedIs ==
  ASSUME NEW query, NEW given, IsList(query.sql)
  PROVE  LET names == extract_named_params(query.sql)
             out == prepare_sql(query, given)
             all == \A m \in Needed(query.sql) : ValueOf(query, given, m).ok
         IN  /\ out.ok \in BOOLEAN /\ (out.ok <=> all)
             /\ out.ok => /\ out.value.sql = Rewritten(query.sql, names)
                          /\ out.value.values =
                               [k \in 1 .. Len(names) |-> ValueOf(query, given, names[k]).value]
<1> DEFINE names == extract_named_params(query.sql)
           V(m) == ValueOf(query, given, m)
           vs == [k \in DOMAIN names |-> V(names[k])]
           bad == {k \in DOMAIN vs : ~vs[k].ok}
           us == [k \in DOMAIN vs |-> vs[k].value]
           out == prepare_sql(query, given)
           all == \A m \in Needed(query.sql) : V(m).ok
<1>1. /\ IsList(names) /\ DOMAIN names = 1 .. Len(names) /\ Len(names) \in Nat
      /\ ToSet(names) = Needed(query.sql)
      /\ \A x : x \in ToSet(names) <=> \E k \in 1 .. Len(names) : x = names[k]
  <2>1. IsList(names) /\ ToSet(names) = Needed(query.sql)
    BY NamesIs
  <2> HIDE DEF names
  <2> QED  BY <2>1, ListIs
<1>2. out = IF bad # {} THEN vs[Min(bad)]
            ELSE Ok([sql |-> Rewritten(query.sql, names), values |-> us])
  BY DEF prepare_sql, Each
<1>3. \A m : V(m).ok \in BOOLEAN
  BY ValueOfIs
<1> HIDE DEF names, V
<1>4. DOMAIN vs = 1 .. Len(names) /\ \A k \in 1 .. Len(names) : vs[k] = V(names[k])
  BY <1>1
<1>5. us = [k \in 1 .. Len(names) |-> V(names[k]).value]
  BY <1>4
<1> HIDE DEF vs, us
<1>6. bad \in SUBSET Nat /\ \A k : k \in bad <=> k \in 1 .. Len(names) /\ ~V(names[k]).ok
  BY <1>4
<1> HIDE DEF bad
<1>7. CASE bad = {}
  <2>1. out = Ok([sql |-> Rewritten(query.sql, names), values |-> us])
    BY <1>2, <1>7
  <2>2. all
    BY <1>1, <1>6, <1>7
  <2>3. out.ok = TRUE /\ out.value.sql = Rewritten(query.sql, names) /\ out.value.values = us
    BY <2>1 DEF Ok
  <2> HIDE DEF out, all
  <2>4. out.ok \in BOOLEAN /\ (out.ok <=> all)
    BY <2>2, <2>3
  <2> QED  BY <1>5, <2>3, <2>4 DEF out, all, V, names
<1>8. CASE bad # {}
  <2> DEFINE k == Min(bad)
  <2>1. k \in bad
    BY <1>6, <1>8, MinIsLeast
  <2>2. out = vs[k]
    BY <1>2, <1>8
  <2> HIDE DEF k
  <2>3. k \in 1 .. Len(names) /\ ~V(names[k]).ok
    BY <1>6, <2>1
  <2>4. out.ok = FALSE
    <3>1. out = V(names[k])
      BY <1>4, <2>2, <2>3
    <3> HIDE DEF out
    <3> QED  BY <1>3, <2>3, <3>1
  <2>5. ~all
    BY <1>1, <2>3
  <2> HIDE DEF out, all
  <2>6. out.ok \in BOOLEAN /\ (out.ok <=> all)
    BY <2>4, <2>5
  <2> QED  BY <2>4, <2>6 DEF out, all, V, names
<1> QED  BY <1>7, <1>8

LEMMA ValuesPassed ==
  ASSUME NEW values, NEW n \in Nat, values = [k \in 1 .. n |-> values[k]],
         \A k \in 1 .. n : json_value_to_sql(values[k]) = Ok(values[k])
  PROVE  json_params_to_sql(values) = Ok(values)
<1> DEFINE bound == [i \in DOMAIN values |-> json_value_to_sql(values[i])]
           back == [i \in DOMAIN bound |-> bound[i].value]
<1>1. DOMAIN values = 1 .. n
  OBVIOUS
<1>2. DOMAIN bound = 1 .. n /\ \A i \in 1 .. n : bound[i] = Ok(values[i])
  BY <1>1
<1>3. json_params_to_sql(values) =
         IF \E i \in DOMAIN bound : ~bound[i].ok THEN Err("param_type") ELSE Ok(back)
  BY DEF json_params_to_sql, Each
<1> HIDE DEF bound
<1>4. \A i \in 1 .. n : bound[i].ok = TRUE /\ bound[i].value = values[i]
  BY <1>2 DEF Ok
<1>5. back = [k \in 1 .. n |-> values[k]]
  BY <1>2, <1>4
<1> HIDE DEF back
<1> QED  BY <1>2, <1>3, <1>4, <1>5

LEMMA QueryLoaded ==
  ASSUME load_queries(Canned).ok, NEW n \in DOMAIN load_queries(Canned).value
  PROVE  /\ Canned # None /\ n \in DOMAIN Canned[1]
         /\ load_queries(Canned).value[n].sql = Canned[1][n].sql
<1> DEFINE l == load_queries(Canned)
           q == l.value[n]
<1>1. Canned # None
  <2>1. SUFFICES ASSUME Canned = None
                 PROVE  FALSE
    OBVIOUS
  <2>2. l.value = <<>>
    BY <2>1 DEF load_queries, Ok
  <2>3. n \in DOMAIN <<>>
    BY <2>2
  <2> QED  BY <2>3
<1>2. ~ \E m \in DOMAIN Canned[1] : Canned[1][m].toml # None /\ ~Canned[1][m].toml[1].parses
  <2>1. SUFFICES ASSUME \E m \in DOMAIN Canned[1] : Canned[1][m].toml # None /\ ~Canned[1][m].toml[1].parses
                 PROVE  FALSE
    OBVIOUS
  <2>2. l = Err("toml")
    BY <1>1, <2>1, Zenon DEF load_queries
  <2> QED  BY <2>2 DEF Err
<1> DEFINE Loaded(m) ==
             LET file == Canned[1][m]
             IN  IF file.toml = None
                 THEN CannedQuery(m, file.sql, None,
                                  Each(extract_named_params(file.sql),
                                       LAMBDA p : ParamDef(p, None, "text")))
                 ELSE CannedQuery(m, file.sql, file.toml[1].description, file.toml[1].params)
<1>3. l = Ok([m \in DOMAIN Canned[1] |-> Loaded(m)])
  BY <1>1, <1>2, Zenon DEF load_queries
<1>4. \A m : Loaded(m).sql = Canned[1][m].sql
  BY DEF CannedQuery
<1> HIDE DEF Loaded
<1>5. l.value = [m \in DOMAIN Canned[1] |-> Loaded(m)]
  BY <1>3 DEF Ok
<1>6. n \in DOMAIN Canned[1] /\ l.value[n] = Loaded(n)
  BY <1>5
<1> QED  BY <1>1, <1>4, <1>6

LEMMA BindsInv == BindsAsNamed
<1> SUFFICES ASSUME load_queries(Canned).ok,
                    NEW n \in DOMAIN load_queries(Canned).value, NEW v \in DOMAIN GivenValues
             PROVE  RunsAsNamed(load_queries(Canned).value[n], GivenValues[v],
                                tool_run_query(db, Canned, n, GivenValues[v], FALSE))
  BY DEF BindsAsNamed
<1> DEFINE loaded == load_queries(Canned)
           query  == loaded.value[n]
           given  == GivenValues[v]
           sql    == query.sql
           names  == extract_named_params(sql)
           runs   == Rewritten(sql, names)
           valued == [m \in Needed(sql) |-> ValueOf(query, given, m)]
           stands == [m \in Needed(sql) |-> valued[m].value]
           values == [k \in 1 .. Len(names) |-> ValueOf(query, given, names[k]).value]
           out    == prepare_sql(query, given)
           result == tool_run_query(db, Canned, n, given, FALSE)
           all    == \A m \in Needed(sql) : valued[m].ok
<1>1. /\ IsList(sql) /\ \A i \in DOMAIN sql : sql[i] = "?" => Quoted(sql, i)
      /\ Len(names) <= MaxNumber
  <2>1. Canned # None /\ n \in DOMAIN Canned[1] /\ query.sql = Canned[1][n].sql
    BY QueryLoaded
  <2> HIDE DEF query
  <2> QED  BY <2>1, CannedAssumption
<1>2. result = IF ~out.ok THEN out ELSE execute_sql(db, out.value.sql, out.value.values, FALSE)
  BY DEF tool_run_query, RunNamed, RunPrepared
<1> HIDE DEF query, result, loaded, given
<1>3. /\ out.ok \in BOOLEAN /\ (out.ok <=> \A m \in Needed(sql) : ValueOf(query, given, m).ok)
      /\ out.ok => out.value.sql = runs /\ out.value.values = values
  BY <1>1, PreparedIs
<1>4. /\ IsList(names) /\ DOMAIN names = 1 .. Len(names) /\ Len(names) \in Nat
      /\ \A x : x \in Needed(sql) <=> \E k \in 1 .. Len(names) : x = names[k]
      /\ \A i \in 1 .. Len(sql) : Placeholder(sql, i) => NameAt(sql, i) \in Needed(sql)
  <2>1. /\ IsList(names) /\ ToSet(names) = Needed(sql)
        /\ \A i \in 1 .. Len(sql) : Placeholder(sql, i) => NameAt(sql, i) \in Needed(sql)
    BY <1>1, NamesIs
  <2> HIDE DEF names
  <2> QED  BY <2>1, ListIs
<1> HIDE DEF out, sql
<1>5. out.ok <=> all
  BY <1>3
<1> HIDE DEF names, runs
<1>6. ASSUME all
      PROVE  /\ json_params_to_sql(values) = Ok(values)
             /\ Bound(runs, values) = Substituted(sql, stands)
  <2>1. \A k \in 1 .. Len(names) : /\ names[k] \in Needed(sql) /\ ValueOf(query, given, names[k]).ok
                                   /\ values[k] = stands[names[k]]
    BY <1>4, <1>6
  <2>2. \A k \in 1 .. Len(names) : json_value_to_sql(values[k]) = Ok(values[k])
    <3> TAKE k \in 1 .. Len(names)
    <3>1. values[k] = ValueOf(query, given, names[k]).value
      OBVIOUS
    <3> DEFINE found == ValueOf(query, given, names[k])
    <3>2. found.ok => json_value_to_sql(found.value) = Ok(found.value)
      BY ValueOfIs
    <3>3. found.ok /\ values[k] = found.value
      BY <2>1, <3>1
    <3> HIDE DEF found, values
    <3> QED  BY <3>2, <3>3
  <2>3. values = [k \in 1 .. Len(names) |-> values[k]] /\ DOMAIN values = 1 .. Len(names)
    OBVIOUS
  <2> HIDE DEF values, stands
  <2>4. Prepared(sql, names, values, stands)
    <3>1. DOMAIN sql = 1 .. Len(sql)
      BY <1>1, ListIs
    <3>2. Len(names) \in 0 .. MaxNumber
      BY <1>1, <1>4, NumberAssumption
    <3>3. \A i \in 1 .. Len(sql) : Placeholder(sql, i) => NameAt(sql, i) \in Range(names)
      BY <1>4 DEF Range
    <3> QED  BY <1>1, <1>4, <2>1, <2>3, <3>1, <3>2, <3>3 DEF Prepared
  <2>5. Bound(Rewritten(sql, names), values) = Substituted(sql, stands)
    BY <2>4, BoundIs
  <2>6. json_params_to_sql(values) = Ok(values)
    BY <1>4, <2>2, <2>3, ValuesPassed
  <2> QED  BY <2>5, <2>6 DEF runs
<1> HIDE DEF values, stands, all
<1>7. CASE ~all
  <2>1. result.ok = FALSE
    BY <1>2, <1>3, <1>5, <1>7
  <2>2. result.ok = (validate_sql(runs) /\ all)
    BY <1>7, <2>1
  <2> QED  BY <2>1, <2>2 DEF RunsAsNamed, all, stands, result, runs, names, sql, query, loaded, given
<1>8. CASE all /\ ~validate_sql(runs)
  <2>1. result = Err("validation")
    BY <1>2, <1>3, <1>5, <1>8 DEF execute_sql
  <2>2. result.ok = FALSE
    BY <2>1 DEF Err
  <2>3. result.ok = (validate_sql(runs) /\ all)
    BY <1>8, <2>2
  <2> QED  BY <2>2, <2>3 DEF RunsAsNamed, all, stands, result, runs, names, sql, query, loaded, given
<1>9. CASE all /\ validate_sql(runs)
  <2>1. result = execute_sql(db, runs, values, FALSE)
    BY <1>2, <1>3, <1>5, <1>9
  <2>2. json_params_to_sql(values) = Ok(values) /\ Bound(runs, values) = Substituted(sql, stands)
    BY <1>6, <1>9
  <2>3. Ok(values).ok = TRUE /\ Ok(values).value = values
    BY DEF Ok
  <2>4. result = execute_query(db, runs, values)
    BY <1>9, <2>1, <2>2, <2>3 DEF execute_sql
  <2>5. result.ok = TRUE /\ result.value.statement = runs /\ result.value.values = values
    BY <2>4 DEF execute_query, Ok
  <2>6. result.ok = (validate_sql(runs) /\ all)
    BY <1>9, <2>5
  <2>7. Bound(result.value.statement, result.value.values) = Substituted(sql, stands)
    BY <2>2, <2>5
  <2> QED  BY <2>6, <2>7 DEF RunsAsNamed, all, stands, result, runs, names, sql, query, loaded, given
<1> QED  BY <1>7, <1>8, <1>9

\* Whatever the directory of queries and the values, a named query runs exactly
\* when its parameters have values of their types and what it is rewritten to
\* may run; and bound by position it is the statement in which each :name
\* outside a literal stands for its value (query_registry.rs: prepare_sql).
THEOREM NamesAreBound ==
  Spec => []BindsAsNamed
<1> QED  BY BindsInv, PTL

\* The parts of a text, put together with a separator that none of them has.
Plain(parts, sep) == \A i \in 1 .. Len(parts) : IsList(parts[i]) /\ sep \notin ToSet(parts[i])

Cut(text, from) == [k \in 1 .. Len(from) - 1 |-> SubSeq(text, from[k] + 1, from[k + 1] - 1)]

LEMMA SplitIs ==
  ASSUME NEW text, IsList(text), NEW sep, NEW m \in Nat, NEW at,
         InOrderAt(at, m, Len(text), {i \in 1 .. Len(text) : text[i] = sep})
  PROVE  Split(text, sep) = Cut(text, <<0>> \o [k \in 1 .. m |-> at[k]] \o <<Len(text) + 1>>)
<1> DEFINE s == [i \in DOMAIN text |-> i]
           I == {i \in 1 .. Len(text) : text[i] = sep}
           J == {i \in DOMAIN s : text[s[i]] = sep}
<1>1. DOMAIN text = 1 .. Len(text)
  BY ListIs
<1>2. J = I
  BY <1>1
<1>3. Kept(s, I) = [k \in 1 .. m |-> at[k]]
  BY PlacesInOrder
<1> HIDE DEF I
<1>4. Kept(s, J) = [k \in 1 .. m |-> at[k]]
  BY <1>2, <1>3
<1> QED  BY <1>4, Zenon DEF Split, Places, Select, Cut

LEMMA SplitJoined ==
  ASSUME NEW parts, IsList(parts), parts # <<>>, NEW sep, Plain(parts, sep)
  PROVE  /\ IsList(Join(parts, sep))
         /\ Split(Join(parts, sep), sep) = parts
         /\ parts[1] # <<>> => Join(parts, sep) # <<>>
<1> DEFINE n == Len(parts)
           ss == [i \in DOMAIN parts |-> <<sep>> \o parts[i]]
<1>1. n \in Nat \ {0} /\ DOMAIN parts = 1 .. n
  BY ListIs, EmptyIs
<1>2. \A i \in 1 .. n : IsList(parts[i]) /\ \A j \in 1 .. Len(parts[i]) : parts[i][j] # sep
  BY ListIs DEF Plain
<1>3. \A i \in 1 .. n : /\ ss[i] = <<sep>> \o parts[i]
  BY <1>1
<1>4. ss = [i \in 1 .. n |-> ss[i]]
  BY <1>1
<1>5. Join(parts, sep) = Tail(FlattenSeq(ss))
  BY DEF Join
<1> HIDE DEF ss
<1>6. IsList(ss) /\ Len(ss) = n
  BY <1>1, <1>4, ListFrom
<1>7. \A i \in 1 .. n : /\ IsList(ss[i]) /\ Len(ss[i]) = 1 + Len(parts[i])
                        /\ Len(parts[i]) \in Nat
                        /\ ss[i][1] = sep
                        /\ \A j \in 1 .. Len(parts[i]) : ss[i][j + 1] = parts[i][j]
  <2> TAKE i \in 1 .. n
  <2> DEFINE a == <<sep>>
             b == parts[i]
  <2>1. IsList(a) /\ Len(a) = 1 /\ a[1] = sep
    BY OneElement
  <2>2. IsList(b) /\ Len(b) \in Nat
    BY <1>2, ListIs
  <2>3. ss[i] = a \o b
    BY <1>3
  <2> HIDE DEF a, b
  <2>4. /\ IsList(a \o b) /\ Len(a \o b) = Len(a) + Len(b)
        /\ \A j \in 1 .. Len(a) : (a \o b)[j] = a[j]
        /\ \A j \in 1 .. Len(b) : (a \o b)[Len(a) + j] = b[j]
    <3>1. IsList(a) /\ IsList(b)
      BY <2>1, <2>2
    <3> QED  BY ONLY <3>1, Joined
  <2>5. (a \o b)[1] = sep
    BY <2>1, <2>4
  <2>6. \A j \in 1 .. Len(b) : (a \o b)[j + 1] = b[j]
    <3> TAKE j \in 1 .. Len(b)
    <3>1. j + 1 = 1 + j
      OBVIOUS
    <3> QED  BY <2>1, <2>4, <3>1
  <2> QED  BY <2>1, <2>2, <2>3, <2>4, <2>5, <2>6 DEF b
<1> DEFINE flat == FlattenSeq(ss)
<1>8. PICK L : Lengths(L, ss, n) /\ Starts(L, flat, ss, n)
  BY <1>1, <1>6, <1>7, FlatStarts
<1>9. IsList(flat)
  BY <1>1, <1>4, <1>7, Flattened
<1> HIDE DEF flat
<1>10. /\ L[0] = 0 /\ \A i \in 0 .. n : L[i] \in Nat
       /\ \A i \in 1 .. n : L[i] = L[i - 1] + 1 + Len(parts[i])
  <2>1. L[0] = 0 /\ (\A i \in 0 .. n : L[i] \in Nat) /\ \A i \in 1 .. n : L[i] = L[i - 1] + Len(ss[i])
    BY <1>8 DEF Lengths
  <2>2. \A i \in 1 .. n : L[i] = L[i - 1] + 1 + Len(parts[i])
    <3> TAKE i \in 1 .. n
    <3>1. L[i] = L[i - 1] + Len(ss[i]) /\ Len(ss[i]) = 1 + Len(parts[i]) /\ Len(parts[i]) \in Nat
      BY <1>7, <2>1
    <3>2. i - 1 \in 0 .. n
      BY <1>1
    <3>3. L[i - 1] \in Nat
      BY <2>1, <3>2
    <3>4. L[i] = L[i - 1] + (1 + Len(parts[i])) /\ Len(parts[i]) \in Nat
      BY <3>1
    <3> DEFINE l == L[i - 1]
               m == Len(parts[i])
    <3> HIDE DEF l, m
    <3>5. l \in Nat /\ m \in Nat => l + (1 + m) = l + 1 + m
      OBVIOUS
    <3> QED  BY <3>3, <3>4, <3>5 DEF l, m
  <2> QED  BY <2>1, <2>2
<1>11. \A j, k \in 0 .. n : j < k => L[j] < L[k]
  <2>1. \A i \in 1 .. n : Len(ss[i]) \in Nat \ {0}
    BY <1>7
  <2>2. n \in Nat /\ Lengths(L, ss, n)
    BY <1>1, <1>8
  <2> HIDE DEF n
  <2> QED  BY ONLY <2>1, <2>2, Rising
<1>12. Len(flat) = L[n] /\ L[n] \in Nat \ {0}
  <2>1. 0 \in 0 .. n /\ n \in 0 .. n /\ 0 < n
    BY <1>1
  <2> QED  BY <1>8, <1>10, <1>11, <2>1 DEF Starts
<1>13. \A i \in 1 .. n : /\ flat[L[i - 1] + 1] = sep
                         /\ \A j \in 1 .. Len(parts[i]) : flat[L[i - 1] + j + 1] = parts[i][j]
  <2> TAKE i \in 1 .. n
  <2>1. \A j \in 1 .. Len(ss[i]) : flat[L[i - 1] + j] = ss[i][j]
    BY <1>8 DEF Starts, StandsAt
  <2>2. /\ Len(ss[i]) = 1 + Len(parts[i]) /\ Len(parts[i]) \in Nat /\ ss[i][1] = sep
        /\ \A j \in 1 .. Len(parts[i]) : ss[i][j + 1] = parts[i][j]
    BY <1>7
  <2>3. 1 \in 1 .. Len(ss[i])
    BY <2>2
  <2>4. \A j \in 1 .. Len(parts[i]) : flat[L[i - 1] + j + 1] = parts[i][j]
    <3> TAKE j \in 1 .. Len(parts[i])
    <3>1. j + 1 \in 1 .. Len(ss[i])
      BY <2>2
    <3>2. i - 1 \in 0 .. n
      BY <1>1
    <3>3. L[i - 1] \in Nat
      BY <1>10, <3>2
    <3>4. L[i - 1] + (j + 1) = L[i - 1] + j + 1
      BY <3>3
    <3> QED  BY <2>1, <2>2, <3>1, <3>4
  <2> QED  BY <2>1, <2>2, <2>3, <2>4
<1> DEFINE text == Tail(flat)
<1>14. IsList(text) /\ Len(text) = L[n] - 1 /\ \A p \in 1 .. L[n] - 1 : text[p] = flat[p + 1]
  BY <1>9, <1>12, TailIs
<1> HIDE DEF text
<1> DEFINE I == {p \in 1 .. Len(text) : text[p] = sep}
           m == n - 1
<1>15. InOrderAt(L, m, Len(text), I)
  <2>1. \A k \in 1 .. m : L[k] \in 1 .. Len(text) /\ L[k] \in I
    <3> TAKE k \in 1 .. m
    <3>1. k \in 0 .. n /\ 0 \in 0 .. n /\ n \in 0 .. n /\ 0 < k /\ k < n /\ k + 1 \in 1 .. n /\ (k + 1) - 1 = k
      BY <1>1
    <3>2. L[0] < L[k] /\ L[k] < L[n] /\ L[0] = 0 /\ L[k] \in Nat
      BY <1>10, <1>11, <3>1
    <3>3. L[k] \in 1 .. L[n] - 1
      BY <1>12, <3>2
    <3>4. flat[L[k] + 1] = sep
      BY <1>13, <3>1
    <3> QED  BY <1>14, <3>3, <3>4
  <2>2. \A j, k \in 1 .. m : j < k => L[j] < L[k]
    BY <1>1, <1>11
  <2>3. ASSUME NEW p \in 1 .. Len(text), p \in I
        PROVE  \E k \in 1 .. m : L[k] = p
    <3>1. p \in 1 .. L[n] - 1 /\ flat[p + 1] = sep /\ p + 1 \in 1 .. Len(flat) /\ p \in Nat \ {0}
      BY <1>12, <1>14, <2>3
    <3>2. PICK i \in 1 .. n : \E j \in 1 .. Len(ss[i]) : p + 1 = L[i - 1] + j
      BY <1>8, <3>1 DEF Starts
    <3>3. PICK j \in 1 .. Len(ss[i]) : p + 1 = L[i - 1] + j
      BY <3>2
    <3> DEFINE h == i - 1
    <3>4. h \in 0 .. n /\ i - 1 = h
      BY <1>1
    <3>5. L[h] \in Nat
      BY <1>10, <3>4
    <3>6. Len(ss[i]) = 1 + Len(parts[i]) /\ Len(parts[i]) \in Nat
      BY <1>7
    <3>7. j = 1
      <4> SUFFICES ASSUME j # 1
                   PROVE  FALSE
        OBVIOUS
      <4> DEFINE l == j - 1
      <4>0. p + 1 = L[h] + j /\ j \in 1 .. 1 + Len(parts[i])
        BY <3>3, <3>4, <3>6
      <4> HIDE DEF h
      <4>1. l \in 1 .. Len(parts[i]) /\ p + 1 = L[h] + l + 1
        BY <3>5, <3>6, <4>0
      <4> HIDE DEF l
      <4>2. flat[L[h] + l + 1] = parts[i][l] /\ parts[i][l] # sep
        BY <1>2, <1>13, <3>4, <4>1
      <4> QED  BY <3>1, <4>1, <4>2
    <3>8. p = L[h]
      BY <3>1, <3>3, <3>4, <3>5, <3>7
    <3>9. h # 0
      BY <1>10, <3>1, <3>8
    <3>10. h \in 1 .. m
      BY <1>1, <3>9
    <3> HIDE DEF h, m
    <3> QED  BY <3>8, <3>10
  <2>4. \A p \in 1 .. Len(text) : p \in I => \E k \in 1 .. m : L[k] = p
    BY <2>3
  <2> HIDE DEF I
  <2> QED  BY <2>1, <2>2, <2>4 DEF InOrderAt
<1>16. m \in Nat
  BY <1>1
<1> DEFINE a == <<0>>
           b == [k \in 1 .. m |-> L[k]]
           c == <<Len(text) + 1>>
           from == a \o b \o c
<1>17. Split(text, sep) = Cut(text, from)
  <2>1. I = {p \in 1 .. Len(text) : text[p] = sep}
    OBVIOUS
  <2>2. IsList(text) /\ m \in Nat /\ InOrderAt(L, m, Len(text), {p \in 1 .. Len(text) : text[p] = sep})
    BY <1>14, <1>15, <1>16, <2>1
  <2> HIDE DEF m
  <2> QED  BY ONLY <2>2, SplitIs
<1>18. IsList(a) /\ Len(a) = 1 /\ a[1] = 0
  BY OneElement
<1>19. IsList(c) /\ Len(c) = 1 /\ c[1] = L[n]
  <2>1. Len(text) + 1 = L[n]
    BY <1>12, <1>14
  <2> QED  BY <2>1, OneElement
<1>20. IsList(b) /\ Len(b) = m /\ \A k \in 1 .. m : b[k] = L[k]
  <2> HIDE DEF m
  <2>1. b = [k \in 1 .. m |-> b[k]] /\ \A k \in 1 .. m : b[k] = L[k]
    OBVIOUS
  <2> HIDE DEF b
  <2> QED  BY <1>16, <2>1, ListFrom
<1> HIDE DEF a, b, c
<1>21. /\ IsList(a \o b) /\ Len(a \o b) = n
       /\ (a \o b)[1] = 0 /\ \A k \in 1 .. m : (a \o b)[k + 1] = L[k]
  <2>1. /\ IsList(a \o b) /\ Len(a \o b) = Len(a) + Len(b)
        /\ \A i \in 1 .. Len(a) : (a \o b)[i] = a[i]
        /\ \A i \in 1 .. Len(b) : (a \o b)[Len(a) + i] = b[i]
    <3>1. IsList(a) /\ IsList(b)
      BY <1>18, <1>20
    <3> QED  BY ONLY <3>1, Joined
  <2>2. \A k \in 1 .. m : 1 + k = k + 1
    OBVIOUS
  <2>3. Len(a) + Len(b) = n /\ 1 \in 1 .. Len(a)
    BY <1>1, <1>18, <1>20
  <2>4. (a \o b)[1] = 0
    BY <1>18, <2>1, <2>3
  <2>5. \A k \in 1 .. m : (a \o b)[k + 1] = L[k]
    <3> HIDE DEF m
    <3> QED  BY <1>18, <1>20, <2>1, <2>2
  <2> QED  BY <2>1, <2>3, <2>4, <2>5
<1> DEFINE ab == a \o b
<1> HIDE DEF ab
<1>22. /\ Len(ab \o c) = n + 1
       /\ \A k \in 1 .. n : (ab \o c)[k] = ab[k]
       /\ (ab \o c)[n + 1] = L[n]
  <2>1. IsList(ab) /\ IsList(c) /\ Len(ab) = n
    BY <1>19, <1>21 DEF ab
  <2>2. /\ Len(ab \o c) = Len(ab) + Len(c)
        /\ \A i \in 1 .. Len(ab) : (ab \o c)[i] = ab[i]
        /\ \A i \in 1 .. Len(c) : (ab \o c)[Len(ab) + i] = c[i]
    <3>1. IsList(ab) /\ IsList(c)
      BY <2>1
    <3> QED  BY ONLY <3>1, Joined
  <2>3. 1 \in 1 .. Len(c)
    BY <1>19
  <2> QED  BY <1>19, <2>1, <2>2, <2>3
<1>23. Len(from) = n + 1 /\ \A k \in 1 .. n + 1 : from[k] = L[k - 1]
  <2>1. from = ab \o c
    BY DEF ab
  <2> HIDE DEF from
  <2>2. \A k \in 1 .. n + 1 : (ab \o c)[k] = L[k - 1]
    <3> TAKE k \in 1 .. n + 1
    <3>1. CASE k = n + 1
      BY <1>1, <1>22, <3>1
    <3>2. CASE k = 1
      <4>1. ab[1] = 0 /\ 1 \in 1 .. n /\ k - 1 = 0
        BY <1>1, <1>21, <3>2 DEF ab
      <4> QED  BY <1>10, <1>22, <3>2, <4>1
    <3>3. CASE k # 1 /\ k # n + 1
      <4> DEFINE h == k - 1
      <4>1. h \in 1 .. m /\ h + 1 = k /\ k \in 1 .. n
        BY <1>1, <3>3
      <4> HIDE DEF m, h
      <4>2. ab[h + 1] = L[h]
        BY <1>21, <4>1 DEF ab
      <4>3. (ab \o c)[k] = L[h]
        BY <1>22, <4>1, <4>2
      <4> QED  BY <4>3 DEF h
    <3> QED  BY <3>1, <3>2, <3>3
  <2> QED  BY <1>22, <2>1, <2>2
<1> HIDE DEF from
<1>24. \A k \in 1 .. n : SubSeq(text, from[k] + 1, from[k + 1] - 1) = parts[k]
  <2> TAKE k \in 1 .. n
  <2> DEFINE h == k - 1
             x == L[h]
             y == L[k] - 1
             p == parts[k]
             part == SubSeq(text, x + 1, y)
  <2>1. h \in 0 .. n /\ k \in 0 .. n /\ k \in 1 .. n + 1 /\ k + 1 \in 1 .. n + 1 /\ (k + 1) - 1 = k /\ h = k - 1
    BY <1>1
  <2>2. from[k] = x /\ from[k + 1] - 1 = y
    BY <1>23, <2>1
  <2>3. L[k] = L[h] + 1 + Len(p) /\ x \in Nat /\ Len(p) \in Nat /\ IsList(p)
    BY <1>2, <1>7, <1>10, <2>1
  <2>4. y = x + Len(p) /\ y \in Nat /\ x <= y /\ y - x = Len(p)
    BY <2>3
  <2>5. y <= Len(text)
    <3>1. k = n \/ L[k] < L[n]
      <4> HIDE DEF n
      <4>0. n \in Nat /\ k \in 1 .. n
        BY <1>1 DEF n
      <4>1. n \in 0 .. n /\ (k = n \/ k < n)
        BY ONLY <4>0
      <4> QED  BY <1>11, <2>1, <4>1
    <3>2. L[k] \in Nat /\ L[n] \in Nat /\ Len(text) = L[n] - 1
      BY <1>10, <1>12, <1>14, <2>1
    <3> QED  BY <3>1, <3>2
  <2>6. \A j \in 1 .. Len(p) : text[x + j] = p[j]
    <3> TAKE j \in 1 .. Len(p)
    <3>1. x + j \in 1 .. L[n] - 1
      <4>1. x \in Nat /\ y = x + Len(p) /\ Len(p) \in Nat /\ y <= L[n] - 1 /\ L[n] \in Nat
        BY <1>12, <1>14, <2>3, <2>4, <2>5
      <4> HIDE DEF x, y, p
      <4> QED  BY <4>1
    <3>2. text[x + j] = flat[x + j + 1]
      BY <1>14, <3>1
    <3>3. flat[x + j + 1] = p[j]
      BY <1>13, <2>1
    <3> QED  BY <3>2, <3>3
  <2> HIDE DEF x, y, p, h
  <2>7. IsList(part) /\ Len(part) = Len(p) /\ \A j \in 1 .. Len(p) : part[j] = text[x + j]
    <3>1. /\ IsList(part) /\ Len(part) = IF x <= y THEN y - x ELSE 0
          /\ \A j \in 1 .. y - x : part[j] = text[x + j]
      BY <1>14, <2>3, <2>4, <2>5, Part
    <3> HIDE DEF part
    <3> QED  BY <2>4, <3>1
  <2> HIDE DEF part
  <2>8. part = p
    <3>1. \A j \in 1 .. Len(part) : part[j] = p[j]
      BY <2>6, <2>7
    <3> QED  BY <2>3, <2>7, <3>1, SameLists
  <2> QED  BY <2>2, <2>8 DEF part, p
<1>25. Len(from) - 1 = n
  BY <1>1, <1>23
<1>26. Cut(text, from) = [k \in 1 .. n |-> parts[k]]
  BY <1>24, <1>25 DEF Cut
<1>27. Split(text, sep) = parts
  <2>1. parts = [k \in 1 .. n |-> parts[k]]
    BY ListIs
  <2> QED  BY <1>17, <1>26, <2>1 DEF from, a, b, c
<1>28. ASSUME parts[1] # <<>>
       PROVE  text # <<>>
  <2>1. 1 \in 1 .. n /\ 1 \in 0 .. n /\ n \in 0 .. n /\ 1 - 1 = 0 /\ (n = 1 \/ 1 < n)
    BY <1>1
  <2>2. IsList(parts[1]) /\ Len(parts[1]) \in Nat /\ L[1] = 0 + 1 + Len(parts[1])
    BY <1>2, <1>7, <1>10, <2>1
  <2>3. Len(parts[1]) # 0
    BY <1>28, <2>2, EmptyIs
  <2>4. L[1] <= L[n] /\ L[n] \in Nat /\ L[1] \in Nat
    BY <1>10, <1>11, <2>1
  <2> HIDE DEF n
  <2>5. Len(text) # 0
    BY <1>14, <2>2, <2>3, <2>4
  <2> QED  BY <2>5, NoElements
<1> QED  BY <1>5, <1>14, <1>27, <1>28 DEF text, flat

(***************************************************************************)
(* What is encoded is decoded.                                             *)
(***************************************************************************)

Encoding(text) ==
  [i \in DOMAIN text |-> IF text[i] \in Reserved THEN <<"%", Hex[text[i]]>> ELSE <<text[i]>>]

LEMMA TwoElements ==
  ASSUME NEW d, NEW e
  PROVE  /\ IsList(<<d, e>>) /\ Len(<<d, e>>) = 2 /\ <<d, e>>[1] = d /\ <<d, e>>[2] = e
         /\ \A x : x \in ToSet(<<d, e>>) <=> x = d \/ x = e
<1> DEFINE s == <<d, e>>
<1>1. Len(s) = 2 /\ s[1] = d /\ s[2] = e /\ s = [i \in 1 .. 2 |-> s[i]]
  OBVIOUS
<1> HIDE DEF s
<1>2. IsList(s)
  BY <1>1, ListFrom
<1>3. \A x : x \in ToSet(s) <=> \E i \in 1 .. 2 : x = s[i]
  BY <1>1, <1>2, ListIs
<1>4. \A i : i \in 1 .. 2 <=> i = 1 \/ i = 2
  OBVIOUS
<1>5. \A x : x \in ToSet(s) <=> x = d \/ x = e
  BY <1>1, <1>3, <1>4, Zenon
<1> QED  BY <1>1, <1>2, <1>5 DEF s

LEMMA EncodingIs ==
  ASSUME NEW text, IsList(text)
  PROVE  /\ IsList(Encoding(text)) /\ Len(Encoding(text)) = Len(text)
         /\ \A i \in 1 .. Len(text) : IsList(Encoding(text)[i])
         /\ \A i \in 1 .. Len(text) : text[i] \in Reserved => Encoding(text)[i] = <<"%", Hex[text[i]]>>
         /\ \A i \in 1 .. Len(text) : text[i] \notin Reserved => Encoding(text)[i] = <<text[i]>>
<1> DEFINE n == Len(text)
           ss == Encoding(text)
<1>1. n \in Nat /\ DOMAIN text = 1 .. n
  BY ListIs
<1>2. /\ ss = [i \in 1 .. n |-> ss[i]]
      /\ \A i \in 1 .. n : ss[i] = IF text[i] \in Reserved THEN <<"%", Hex[text[i]]>> ELSE <<text[i]>>
  BY <1>1 DEF Encoding
<1> HIDE DEF ss
<1>3. IsList(ss) /\ Len(ss) = n
  BY <1>1, <1>2, ListFrom
<1>4. \A i \in 1 .. n : IsList(ss[i])
  <2> TAKE i \in 1 .. n
  <2>1. CASE text[i] \in Reserved
    <3>1. ss[i] = <<"%", Hex[text[i]]>>
      BY <1>2, <2>1
    <3> QED  BY <3>1, TwoElements
  <2>2. CASE text[i] \notin Reserved
    <3>1. ss[i] = <<text[i]>>
      BY <1>2, <2>2
    <3> QED  BY <3>1, OneElement
  <2> QED  BY <2>1, <2>2
<1> QED  BY <1>2, <1>3, <1>4 DEF ss

\* Of the characters that are escaped, an encoded text has only "%".
LEMMA EncodedIs ==
  ASSUME NEW text, IsList(text)
  PROVE  /\ IsList(urlencoded(text))
         /\ \A x \in Reserved : x \in ToSet(urlencoded(text)) => x = "%"
         /\ urlencoded(text) = <<>> <=> text = <<>>
<1> DEFINE n == Len(text)
           ss == Encoding(text)
<1>1. n \in Nat /\ DOMAIN text = 1 .. n
  BY ListIs
<1>2. urlencoded(text) = FlattenSeq(ss)
  BY DEF urlencoded, Encoding
<1>3. /\ IsList(ss) /\ Len(ss) = n
      /\ \A i \in 1 .. n : IsList(ss[i])
      /\ \A i \in 1 .. n : text[i] \in Reserved => ss[i] = <<"%", Hex[text[i]]>>
      /\ \A i \in 1 .. n : text[i] \notin Reserved => ss[i] = <<text[i]>>
  BY EncodingIs
<1> HIDE DEF ss
<1>4. ss = [i \in 1 .. n |-> ss[i]]
  BY <1>3, ListIs
<1>5. /\ IsList(FlattenSeq(ss))
      /\ \A x : x \in ToSet(FlattenSeq(ss)) <=> \E i \in 1 .. n : x \in ToSet(ss[i])
  BY <1>1, <1>3, <1>4, Flattened
<1>6. ASSUME NEW x \in Reserved, x \in ToSet(urlencoded(text))
      PROVE  x = "%"
  <2>1. PICK i \in 1 .. n : x \in ToSet(ss[i])
    BY <1>2, <1>5, <1>6
  <2>2. CASE text[i] \in Reserved
    <3>1. ss[i] = <<"%", Hex[text[i]]>>
      BY <1>3, <2>2
    <3>2. x = "%" \/ x = Hex[text[i]]
      BY <2>1, <3>1, TwoElements
    <3>3. Hex[text[i]] \notin Reserved
      BY <2>2, HexAssumption
    <3> QED  BY <3>2, <3>3
  <2>3. CASE text[i] \notin Reserved
    <3>1. ss[i] = <<text[i]>>
      BY <1>3, <2>3
    <3>2. x = text[i]
      BY <2>1, <3>1, OneElement
    <3> QED  BY <2>3, <3>2
  <2> QED  BY <2>2, <2>3
<1>7. text = <<>> => urlencoded(text) = <<>>
  <2> SUFFICES ASSUME text = <<>>
               PROVE  urlencoded(text) = <<>>
    OBVIOUS
  <2>1. n = 0
    BY NoElements
  <2>2. \A x : x \notin ToSet(FlattenSeq(ss))
    BY <1>5, <2>1
  <2> QED  BY <1>2, <1>5, <2>2, NoneIn
<1>8. text # <<>> => urlencoded(text) # <<>>
  <2> SUFFICES ASSUME text # <<>>
               PROVE  urlencoded(text) # <<>>
    OBVIOUS
  <2>1. 1 \in 1 .. n
    BY <1>1, EmptyIs
  <2>2. \E x : x \in ToSet(ss[1])
    <3>1. CASE text[1] \in Reserved
      <4>1. ss[1] = <<"%", Hex[text[1]]>>
        BY <1>3, <2>1, <3>1
      <4>2. "%" \in ToSet(ss[1])
        BY <4>1, TwoElements
      <4> QED  BY <4>2
    <3>2. CASE text[1] \notin Reserved
      <4>1. ss[1] = <<text[1]>>
        BY <1>3, <2>1, <3>2
      <4>2. text[1] \in ToSet(ss[1])
        BY <4>1, OneElement
      <4> QED  BY <4>2
    <3> QED  BY <3>1, <3>2
  <2>3. PICK x : x \in ToSet(urlencoded(text))
    BY <1>2, <1>5, <2>1, <2>2
  <2> QED  BY <2>3, NoElements
<1> QED  BY <1>2, <1>5, <1>6, <1>7, <1>8

\* The escapes of a text, and what follows each place.
Unescaped(text, plusIsSpace) ==
  [i \in DOMAIN text |-> IF text[i] = "%" /\ i < Len(text) THEN <<Unhex(text[i + 1])>>
                         ELSE <<IF plusIsSpace /\ text[i] = "+" THEN " " ELSE text[i]>>]

Beyond(text) == [i \in DOMAIN text |-> IF text[i] = "%" /\ i < Len(text) THEN i + 2 ELSE i + 1]

LEMMA UnescapedIs ==
  ASSUME NEW w, IsList(w), NEW plus \in BOOLEAN
  PROVE  /\ PercentDecoded(w, plus) = Spelled(Unescaped(w, plus), Beyond(w))
         /\ Len(Unescaped(w, plus)) = Len(w)
         /\ Onward(Beyond(w), Len(w)) /\ ArePieces(Unescaped(w, plus))
         /\ \A i \in 1 .. Len(w) : w[i] = "%" /\ i < Len(w) =>
               Unescaped(w, plus)[i] = <<Unhex(w[i + 1])>> /\ Beyond(w)[i] = i + 2
         /\ \A i \in 1 .. Len(w) : w[i] # "%" /\ w[i] # "+" =>
               Unescaped(w, plus)[i] = <<w[i]>> /\ Beyond(w)[i] = i + 1
<1> DEFINE n == Len(w)
           u == Unescaped(w, plus)
           b == Beyond(w)
<1>1. n \in Nat /\ DOMAIN w = 1 .. n
  BY ListIs
<1>2. PercentDecoded(w, plus) = Spelled(u, b)
  BY DEF PercentDecoded, Unescaped, Beyond
<1>3. /\ u = [i \in 1 .. n |-> u[i]]
      /\ \A i \in 1 .. n : w[i] = "%" /\ i < n => u[i] = <<Unhex(w[i + 1])>>
      /\ \A i \in 1 .. n : ~(w[i] = "%" /\ i < n) =>
            u[i] = <<IF plus /\ w[i] = "+" THEN " " ELSE w[i]>>
  BY <1>1, Zenon DEF Unescaped
<1>4. /\ \A i \in 1 .. n : w[i] = "%" /\ i < n => b[i] = i + 2
      /\ \A i \in 1 .. n : ~(w[i] = "%" /\ i < n) => b[i] = i + 1
  BY <1>1, Zenon DEF Beyond
<1> HIDE DEF u, b
<1>5. IsList(u) /\ Len(u) = n
  BY <1>1, <1>3, ListFrom
<1>6. Onward(b, n)
  BY <1>1, <1>4 DEF Onward
<1>7. ArePieces(u)
  <2>1. \A i \in 1 .. n : \E x : u[i] = <<x>>
    BY <1>3, Zenon
  <2>2. \A i \in 1 .. n : IsList(u[i])
    <3> TAKE i \in 1 .. n
    <3>1. PICK x : u[i] = <<x>>
      BY <2>1
    <3> QED  BY <3>1, OneElement
  <2> QED  BY <1>5, <2>2 DEF ArePieces
<1>8. \A i \in 1 .. n : w[i] # "%" /\ w[i] # "+" => u[i] = <<w[i]>> /\ b[i] = i + 1
  BY <1>3, <1>4
<1> QED  BY <1>2, <1>3, <1>4, <1>5, <1>6, <1>7, <1>8 DEF u, b

LEMMA Decoded ==
  ASSUME NEW text, IsList(text), NEW plus \in BOOLEAN
  PROVE  PercentDecoded(urlencoded(text), plus) = text
<1> DEFINE n == Len(text)
           ss == Encoding(text)
           w == FlattenSeq(ss)
           u == Unescaped(w, plus)
           b == Beyond(w)
           f == Spelling(u, b)
<1>1. n \in Nat /\ DOMAIN text = 1 .. n
  BY ListIs
<1>2. urlencoded(text) = w
  BY DEF urlencoded, Encoding
<1>3. /\ IsList(ss) /\ Len(ss) = n
      /\ \A i \in 1 .. n : IsList(ss[i])
      /\ \A i \in 1 .. n : text[i] \in Reserved => ss[i] = <<"%", Hex[text[i]]>>
      /\ \A i \in 1 .. n : text[i] \notin Reserved => ss[i] = <<text[i]>>
  BY EncodingIs
<1> HIDE DEF ss
<1>4. PICK L : Lengths(L, ss, n) /\ Starts(L, w, ss, n)
  BY <1>1, <1>3, FlatStarts
<1>5. IsList(w)
  BY <1>2, EncodedIs
<1> HIDE DEF w
<1>6. /\ PercentDecoded(w, plus) = Spelled(u, b) /\ Len(u) = Len(w)
      /\ Onward(b, Len(w)) /\ ArePieces(u)
      /\ \A i \in 1 .. Len(w) : w[i] = "%" /\ i < Len(w) => u[i] = <<Unhex(w[i + 1])>> /\ b[i] = i + 2
      /\ \A i \in 1 .. Len(w) : w[i] # "%" /\ w[i] # "+" => u[i] = <<w[i]>> /\ b[i] = i + 1
  BY <1>5, UnescapedIs
<1> HIDE DEF u, b
<1>7. Len(w) \in Nat
  BY <1>5, ListIs
<1>8. Spells(u, b)
  BY <1>6, <1>7, SpelledIs
<1>9. /\ Spelled(u, b) = f[1] /\ f[Len(w) + 1] = <<>>
      /\ \A i \in 1 .. Len(w) : f[i] = u[i] \o f[b[i]]
  BY <1>6, <1>8 DEF Spells
<1> HIDE DEF f
<1>10. /\ L[0] = 0 /\ \A i \in 0 .. n : L[i] \in Nat
       /\ \A i \in 1 .. n : L[i] = L[i - 1] + Len(ss[i])
       /\ Len(w) = L[n]
       /\ \A i \in 1 .. n : \A j \in 1 .. Len(ss[i]) : L[i - 1] + j \in 1 .. Len(w) /\ w[L[i - 1] + j] = ss[i][j]
  BY <1>4 DEF Lengths, Starts, StandsAt
<1>11. ASSUME NEW i \in 1 .. n
       PROVE  f[L[i - 1] + 1] = <<text[i]>> \o f[L[i] + 1]
  <2> DEFINE e == ss[i]
             p == L[i - 1] + 1
             c == text[i]
  <2>1. i - 1 \in 0 .. n /\ i \in 0 .. n
    BY <1>1
  <2>2. L[i - 1] \in Nat /\ L[i] = L[i - 1] + Len(e)
    BY <1>10, <2>1
  <2>3. /\ \A j \in 1 .. Len(e) : L[i - 1] + j \in 1 .. Len(w) /\ w[L[i - 1] + j] = e[j]
    BY <1>10
  <2>4. CASE c \in Reserved
    <3>1. e = <<"%", Hex[c]>>
      BY <1>3, <2>4
    <3> HIDE DEF e
    <3>2. Len(e) = 2 /\ e[1] = "%" /\ e[2] = Hex[c]
      BY <3>1, TwoElements
    <3>3. 1 \in 1 .. Len(e) /\ 2 \in 1 .. Len(e) /\ L[i - 1] + 2 = p + 1 /\ L[i] + 1 = p + 2
      BY <2>2, <3>2
    <3>4. p \in 1 .. Len(w) /\ p + 1 \in 1 .. Len(w) /\ w[p] = "%" /\ w[p + 1] = Hex[c]
      BY <2>3, <3>2, <3>3
    <3> HIDE DEF p
    <3>5. p < Len(w)
      BY <1>7, <3>4
    <3>6. u[p] = <<Unhex(w[p + 1])>> /\ b[p] = p + 2
      BY <1>6, <3>4, <3>5
    <3>7. Unhex(Hex[c]) = c
      BY <2>4, HexAssumption DEF Unhex
    <3>8. f[p] = <<c>> \o f[L[i] + 1]
      BY <1>9, <3>3, <3>4, <3>6, <3>7
    <3> QED  BY <3>8 DEF p
  <2>5. CASE c \notin Reserved
    <3>1. e = <<c>>
      BY <1>3, <2>5
    <3> HIDE DEF e
    <3>2. Len(e) = 1 /\ e[1] = c
      BY <3>1, OneElement
    <3>3. 1 \in 1 .. Len(e) /\ L[i] + 1 = p + 1
      BY <2>2, <3>2
    <3>4. p \in 1 .. Len(w) /\ w[p] = c
      BY <2>3, <3>2, <3>3
    <3> HIDE DEF p
    <3>5. c # "%" /\ c # "+"
      BY <2>5, HexAssumption
    <3>6. u[p] = <<c>> /\ b[p] = p + 1
      BY <1>6, <3>4, <3>5
    <3>7. f[p] = <<c>> \o f[L[i] + 1]
      BY <1>9, <3>3, <3>4, <3>6
    <3> QED  BY <3>7 DEF p
  <2> QED  BY <2>4, <2>5
<1> DEFINE T == {k \in Nat : k \in 0 .. n => f[L[n - k] + 1] = SubSeq(text, n - k + 1, n)}
<1>12. 0 \in T
  <2>1. n - 0 = n /\ n <= n /\ n \in Nat
    BY <1>1
  <2>2. SubSeq(text, n + 1, n) = <<>>
    <3> HIDE DEF n
    <3>1. n <= Len(text)
      BY <1>1 DEF n
    <3> QED  BY <2>1, <3>1, Part
  <2>3. f[L[n] + 1] = <<>>
    BY <1>9, <1>10
  <2> QED  BY <2>1, <2>2, <2>3
<1>13. ASSUME NEW k \in Nat, k \in T
       PROVE  k + 1 \in T
  <2> SUFFICES ASSUME k + 1 \in 0 .. n
               PROVE  f[L[n - (k + 1)] + 1] = SubSeq(text, n - (k + 1) + 1, n)
    OBVIOUS
  <2> DEFINE i == n - k
             h == n - (k + 1)
  <2>1. k \in 0 .. n /\ i \in 1 .. n /\ i - 1 = h /\ h + 1 = i /\ h \in Nat /\ i \in Nat /\ h <= i /\ i <= n
    BY <1>1
  <2>2. f[L[i] + 1] = SubSeq(text, i + 1, n)
    BY <1>13, <2>1
  <2> HIDE DEF i, h
  <2>3. f[L[h] + 1] = <<text[i]>> \o f[L[i] + 1]
    BY <1>11, <2>1
  <2>4. SubSeq(text, h + 1, i) = <<text[i]>>
    <3> DEFINE a == SubSeq(text, h + 1, i)
               d == <<text[i]>>
    <3>1. i <= Len(text) /\ i - h = 1
      BY <2>1
    <3>2. /\ IsList(a) /\ Len(a) = IF h <= i THEN i - h ELSE 0
          /\ \A j \in 1 .. i - h : a[j] = text[h + j]
      BY <2>1, <3>1, Part
    <3> HIDE DEF a
    <3>3. Len(a) = 1 /\ a[1] = text[i]
      BY <2>1, <3>1, <3>2
    <3>4. IsList(d) /\ Len(d) = 1 /\ d[1] = text[i]
      BY OneElement
    <3> HIDE DEF d
    <3>5. a = d
      <4>1. \A j \in 1 .. Len(a) : a[j] = d[j]
        BY <3>3, <3>4
      <4> QED  BY <3>2, <3>3, <3>4, <4>1, SameLists
    <3> QED  BY <3>5 DEF a, d
  <2>5. SubSeq(text, h + 1, i) \o SubSeq(text, i + 1, n) = SubSeq(text, h + 1, n)
    BY <1>1, <2>1, PartsJoin
  <2>6. f[L[h] + 1] = SubSeq(text, h + 1, n)
    BY <2>2, <2>3, <2>4, <2>5
  <2> QED  BY <2>6 DEF h
<1> HIDE DEF T
<1>14. n \in T /\ n - n = 0 /\ n \in 0 .. n /\ 0 + 1 = 1
  BY <1>1, <1>12, <1>13, Induct
<1>15. f[L[0] + 1] = SubSeq(text, 1, n)
  BY <1>14 DEF T
<1>16. f[1] = text
  BY <1>10, <1>14, <1>15, WholePart
<1> QED  BY <1>2, <1>6, <1>9, <1>16

(***************************************************************************)
(* The parameters that are sent are those that are received.               *)
(***************************************************************************)

LEMMA PushedIs ==
  /\ IsList(Pushed) /\ Len(Pushed) = 22
  /\ \A i, j \in 1 .. 22 : Pushed[i] = Pushed[j] => i = j
  /\ \A i \in 1 .. 22 : Pushed[i] # "&"
<1>1. Len(Pushed) = 22 /\ Pushed = [i \in 1 .. 22 |-> Pushed[i]]
  BY DEF Pushed
<1>2. IsList(Pushed)
  BY <1>1, ListFrom
<1>3. \A i \in 1 .. 22 : Pushed[i] # "&"
  BY DEF Pushed
<1>4. \A i, j \in 1 .. 22 : Pushed[i] = Pushed[j] => i = j
  BY SMTT(60) DEF Pushed
<1> QED  BY <1>1, <1>2, <1>3, <1>4

\* A number, a flag or a text is read as it was, from what is shown of it.
LEMMA ReadAsShown ==
  ASSUME NEW n, NEW v, OfItsType(n, v)
  PROVE  IsList(Shown(n, v)) /\ Readable(n, Shown(n, v)) /\ Read(n, Shown(n, v)) = v
<1>1. CASE n \in Numeric
  <2>1. v \in Values(n) /\ Values(n) = 0 .. MaxNumber /\ Shown(n, v) = Numeral(v)
    BY <1>1 DEF OfItsType, Values, Shown
  <2>2. \A u \in Values(n) : Numeral(u) = Numeral(v) => u = v
    <3> TAKE u \in Values(n)
    <3>1. ToString(u) = ToString(v) => u = v
      BY <2>1, NumeralAssumption
    <3>2. Numeral(u)[1] = ToString(u) /\ Numeral(v)[1] = ToString(v)
      BY OneElement DEF Numeral
    <3> QED  BY <3>1, <3>2
  <2>3. IsList(Numeral(v))
    BY OneElement DEF Numeral
  <2>4. Readable(n, Numeral(v))
    BY <2>1 DEF Readable
  <2>5. Read(n, Numeral(v)) = v
    <3>1. (CHOOSE u \in Values(n) : Numeral(u) = Numeral(v)) = v
      BY <2>1, <2>2, Zenon
    <3> QED  BY <1>1, <3>1, Zenon DEF Read
  <2> QED  BY <2>1, <2>3, <2>4, <2>5
<1>2. CASE n \in Flag /\ n \notin Numeric
  <2>1. v \in Values(n) /\ Values(n) = BOOLEAN /\ Shown(n, v) = Numeral(v)
    BY <1>2, Zenon DEF OfItsType, Values, Shown
  <2>2. \A u \in Values(n) : Numeral(u) = Numeral(v) => u = v
    <3> TAKE u \in Values(n)
    <3>1. \A x : Numeral(x)[1] = ToString(x)
      BY OneElement, Zenon DEF Numeral
    <3>2. ToString(TRUE) # ToString(FALSE)
      BY NumeralAssumption
    <3>3. (u = TRUE \/ u = FALSE) /\ (v = TRUE \/ v = FALSE)
      BY <2>1, Zenon
    <3>4. Numeral(TRUE) # Numeral(FALSE)
      BY <3>1, <3>2, Zenon
    <3> SUFFICES ASSUME Numeral(u) = Numeral(v)
                 PROVE  u = v
      OBVIOUS
    <3>5. CASE u = TRUE /\ v = TRUE
      BY <3>5
    <3>6. CASE u = FALSE /\ v = FALSE
      BY <3>6
    <3>7. ~(u = TRUE /\ v = FALSE)
      BY <3>4, Zenon
    <3>8. ~(u = FALSE /\ v = TRUE)
      BY <3>4, Zenon
    <3> QED  BY <3>3, <3>5, <3>6, <3>7, <3>8, Zenon
  <2>3. IsList(Numeral(v))
    BY OneElement DEF Numeral
  <2>4. Readable(n, Numeral(v))
    BY <2>1, Zenon DEF Readable
  <2>5. Read(n, Numeral(v)) = v
    <3>1. (CHOOSE u \in Values(n) : Numeral(u) = Numeral(v)) = v
      BY <2>1, <2>2, Zenon
    <3> QED  BY <1>2, <3>1, Zenon DEF Read
  <2> QED  BY <2>1, <2>3, <2>4, <2>5, Zenon
<1>3. CASE n \notin Numeric \cup Flag
  BY <1>3 DEF OfItsType, Shown, Readable, Read
<1> QED  BY <1>1, <1>2, <1>3

FieldName(f) == IF f = <<>> THEN "" ELSE Head(f)
FieldText(f) == IF Len(f) < 2 THEN <<>> ELSE PercentDecoded(SubSeq(f, 3, Len(f)), TRUE)
FieldsIn(query) == IF query = <<>> THEN <<>> ELSE Split(query, "&")
Naming(fields, n) == {i \in DOMAIN fields : FieldName(fields[i]) = n}

LEMMA PairsIs ==
  ASSUME NEW query
  PROVE  Pairs(query) = [n \in {FieldName(FieldsIn(query)[i]) : i \in DOMAIN FieldsIn(query)} |->
                            FieldText(Kept(FieldsIn(query), Naming(FieldsIn(query), n))[1])]
  BY Zenon DEF Pairs, FieldName, FieldText, FieldsIn, Naming, Select

\* A parameter as it is pushed.
Field(n, text) == <<n, "=">> \o urlencoded(text)

LEMMA FieldIs ==
  ASSUME NEW n, n # "&", NEW text, IsList(text)
  PROVE  /\ IsList(Field(n, text)) /\ Field(n, text) # <<>> /\ "&" \notin ToSet(Field(n, text))
         /\ FieldName(Field(n, text)) = n /\ FieldText(Field(n, text)) = text
<1> DEFINE a == <<n, "=">>
           b == urlencoded(text)
           f == Field(n, text)
<1>1. IsList(a) /\ Len(a) = 2 /\ a[1] = n /\ \A x : x \in ToSet(a) <=> x = n \/ x = "="
  BY TwoElements
<1>2. IsList(b) /\ \A x \in Reserved : x \in ToSet(b) => x = "%"
  BY EncodedIs
<1>3. f = a \o b
  BY DEF Field
<1>4. Len(b) \in Nat
  BY <1>2, ListIs
<1>5. PercentDecoded(b, TRUE) = text
  BY Decoded
<1> HIDE DEF a, b, f
<1>6. /\ IsList(f) /\ Len(f) = 2 + Len(b) /\ \A i \in 1 .. Len(a) : f[i] = a[i]
      /\ \A i \in 1 .. Len(b) : f[2 + i] = b[i]
      /\ \A x : x \in ToSet(f) <=> x \in ToSet(a) \/ x \in ToSet(b)
  <2>1. IsList(a) /\ IsList(b)
    BY <1>1, <1>2
  <2>2. /\ IsList(a \o b) /\ Len(a \o b) = Len(a) + Len(b)
        /\ \A i \in 1 .. Len(a) : (a \o b)[i] = a[i]
        /\ \A i \in 1 .. Len(b) : (a \o b)[Len(a) + i] = b[i]
        /\ \A x : x \in ToSet(a \o b) <=> x \in ToSet(a) \/ x \in ToSet(b)
    BY ONLY <2>1, Joined
  <2> QED  BY <1>1, <1>3, <2>2
<1>7. f # <<>> /\ f[1] = n
  <2>1. 1 \in 1 .. Len(a)
    BY <1>1
  <2>2. Len(f) # 0
    BY <1>4, <1>6
  <2> QED  BY <1>1, <1>6, <2>1, <2>2, NoElements
<1>8. "&" \notin ToSet(f)
  <2>1. "&" \in Reserved
    BY HexAssumption
  <2> QED  BY <1>1, <1>2, <1>6, <2>1
<1>9. FieldName(f) = n
  <2>1. f \in Seq(ToSet(f)) /\ f # <<>>
    BY <1>6, <1>7 DEF IsList
  <2>2. Head(f) = f[1]
    BY <2>1
  <2> QED  BY <1>7, <2>2 DEF FieldName
<1>10. FieldText(f) = text
  <2> DEFINE p == SubSeq(f, 3, Len(f))
  <2>1. Len(f) \in Nat /\ ~(Len(f) < 2) /\ 2 + 1 = 3 /\ Len(f) <= Len(f) /\ Len(f) - 2 = Len(b) /\ 2 <= Len(f)
    BY <1>4, <1>6
  <2>2. /\ IsList(SubSeq(f, 2 + 1, Len(f)))
        /\ Len(SubSeq(f, 2 + 1, Len(f))) = IF 2 <= Len(f) THEN Len(f) - 2 ELSE 0
        /\ \A i \in 1 .. Len(f) - 2 : SubSeq(f, 2 + 1, Len(f))[i] = f[2 + i]
    <3> DEFINE k == 2
    <3>1. k \in Nat /\ Len(f) \in Nat /\ Len(f) <= Len(f)
      BY <2>1
    <3> HIDE DEF k
    <3>2. /\ IsList(SubSeq(f, k + 1, Len(f)))
          /\ Len(SubSeq(f, k + 1, Len(f))) = IF k <= Len(f) THEN Len(f) - k ELSE 0
          /\ \A i \in 1 .. Len(f) - k : SubSeq(f, k + 1, Len(f))[i] = f[k + i]
      BY <1>6, <3>1, Part
    <3> QED  BY <3>2 DEF k
  <2>3. IsList(p) /\ Len(p) = Len(b) /\ \A i \in 1 .. Len(b) : p[i] = f[2 + i]
    BY <2>1, <2>2
  <2> HIDE DEF p
  <2>4. p = b
    <3>1. \A i \in 1 .. Len(p) : p[i] = b[i]
      BY <1>6, <2>3
    <3> QED  BY <1>2, <2>3, <3>1, SameLists
  <2> QED  BY <1>5, <2>1, <2>4 DEF FieldText, p
<1> QED  BY <1>6, <1>7, <1>8, <1>9, <1>10 DEF f

\* The values of some of the arguments, each of its type.
Passable(params) ==
  /\ params = [n \in DOMAIN params |-> params[n]]
  /\ DOMAIN params \subseteq ToSet(Pushed)
  /\ \A n \in DOMAIN params : OfItsType(n, params[n])

\* A query string has these fields, and their names differ.
HasFields(query, m, names, text) ==
  /\ FieldsIn(query) = [i \in 1 .. m |-> Field(names[i], text[i])]
  /\ \A i \in 1 .. m : names[i] # "&" /\ IsList(text[i])
  /\ \A i, j \in 1 .. m : names[i] = names[j] => i = j

HasPairs(query, m, names, text) ==
  /\ DOMAIN Pairs(query) = {names[i] : i \in 1 .. m}
  /\ \A i \in 1 .. m : Pairs(query)[names[i]] = text[i]

LEMMA FieldsPaired ==
  ASSUME NEW query, NEW m \in Nat, NEW names, NEW text, HasFields(query, m, names, text)
  PROVE  HasPairs(query, m, names, text)
<1> DEFINE f == FieldsIn(query)
<1>1. /\ f = [i \in 1 .. m |-> f[i]]
      /\ \A i \in 1 .. m : f[i] = Field(names[i], text[i])
  BY DEF HasFields
<1> USE DEF HasFields
<1>2. Pairs(query) = [n \in {FieldName(f[i]) : i \in DOMAIN f} |->
                         FieldText(Kept(f, Naming(f, n))[1])]
  BY PairsIs
<1> HIDE DEF f
<1>3. IsList(f) /\ Len(f) = m /\ DOMAIN f = 1 .. m
  <2>1. IsList(f) /\ Len(f) = m
    BY <1>1, ListFrom
  <2> QED  BY <2>1, ListIs
<1>4. \A i \in 1 .. m : FieldName(f[i]) = names[i] /\ FieldText(f[i]) = text[i]
  BY <1>1, FieldIs
<1>7. \A i, j \in 1 .. m : names[i] = names[j] => i = j
  OBVIOUS
<1> HIDE DEF HasFields
<1>5. {FieldName(f[i]) : i \in DOMAIN f} = {names[i] : i \in 1 .. m}
  BY <1>3, <1>4
<1>6. ASSUME NEW k \in 1 .. m
      PROVE  Pairs(query)[names[k]] = text[k]
  <2> DEFINE I == Naming(f, names[k])
  <2>1. \A i \in 1 .. m : i \in I <=> i = k
    BY <1>3, <1>4, <1>7 DEF Naming
  <2> HIDE DEF I
  <2>2. k \in 1 .. Len(f) /\ k \in I /\ \A j \in 1 .. k - 1 : j \notin I
    BY <1>3, <2>1
  <2>3. Kept(f, I)[1] = f[k]
    BY <1>3, <2>2, KeptFirst
  <2>4. names[k] \in {FieldName(f[i]) : i \in DOMAIN f}
    BY <1>5
  <2>5. Pairs(query)[names[k]] = FieldText(Kept(f, I)[1])
    BY <1>2, <2>4 DEF I
  <2> QED  BY <1>4, <2>3, <2>5
<1> QED  BY <1>2, <1>5, <1>6 DEF HasPairs

LEMMA Paired ==
  ASSUME NEW params, Passable(params)
  PROVE  /\ DOMAIN Pairs(QueryString(params)) = DOMAIN params
         /\ \A n \in DOMAIN params : Pairs(QueryString(params))[n] = Shown(n, params[n])
<1> DEFINE J == {i \in DOMAIN Pushed : Pushed[i] \in DOMAIN params}
           names == Kept(Pushed, J)
           m == Len(names)
           text(n) == Shown(n, params[n])
           parts == [i \in DOMAIN names |-> <<names[i], "=">> \o urlencoded(text(names[i]))]
           query == QueryString(params)
<1>1. DOMAIN Pushed = 1 .. 22 /\ \A x : x \in ToSet(Pushed) <=> \E i \in 1 .. 22 : x = Pushed[i]
  <2>1. IsList(Pushed) /\ Len(Pushed) = 22
    BY PushedIs
  <2>2. /\ DOMAIN Pushed = 1 .. Len(Pushed)
        /\ \A x : x \in ToSet(Pushed) <=> \E i \in 1 .. Len(Pushed) : x = Pushed[i]
    BY <2>1, ListIs
  <2> QED  BY <2>1, <2>2
<1>2. query = Join(parts, "&")
  BY DEF QueryString, Select
<1> HIDE DEF query, parts
<1>3. IsList(names) /\ m \in Nat /\ DOMAIN names = 1 .. m
  <2>1. IsList(names)
    BY PushedIs, KeptIs
  <2> QED  BY <2>1, ListIs
<1>4. PICK e : KeptFrom(e, names, Pushed, J)
  BY PushedIs, KeptPlaces
<1>5. /\ \A j \in 1 .. m : e[j] \in 1 .. 22 /\ e[j] \in J /\ names[j] = Pushed[e[j]]
      /\ \A j, k \in 1 .. m : e[j] = e[k] => j = k
      /\ \A i \in 1 .. 22 : i \in J => \E j \in 1 .. m : e[j] = i
  BY <1>4, PushedIs DEF KeptFrom, Picks
<1> HIDE DEF names, m
<1>6. \A i, j \in 1 .. m : names[i] = names[j] => i = j
  <2> TAKE i, j \in 1 .. m
  <2>1. /\ e[i] \in 1 .. 22 /\ names[i] = Pushed[e[i]]
        /\ e[j] \in 1 .. 22 /\ names[j] = Pushed[e[j]]
    BY <1>5
  <2>2. names[i] = names[j] => e[i] = e[j]
    BY <2>1, PushedIs
  <2> QED  BY <1>5, <2>2
<1>7. {names[i] : i \in 1 .. m} = DOMAIN params
  <2>1. \A i \in 1 .. m : names[i] \in DOMAIN params
    BY <1>5
  <2>2. ASSUME NEW n \in DOMAIN params
        PROVE  \E j \in 1 .. m : n = names[j]
    <3>1. PICK i \in 1 .. 22 : n = Pushed[i]
      BY <1>1 DEF Passable
    <3>2. i \in J
      BY <1>1, <3>1
    <3>3. PICK j \in 1 .. m : e[j] = i
      BY <1>5, <3>2
    <3> QED  BY <1>5, <3>1, <3>3
  <2> QED  BY <2>1, <2>2
<1>8. \A i \in 1 .. m : names[i] # "&" /\ IsList(text(names[i]))
  <2> TAKE i \in 1 .. m
  <2>0. e[i] \in 1 .. 22 /\ names[i] = Pushed[e[i]]
    BY <1>5
  <2>1. names[i] # "&"
    BY <2>0, PushedIs
  <2>2. names[i] \in DOMAIN params
    BY <1>7
  <2>3. OfItsType(names[i], params[names[i]])
    BY <2>2 DEF Passable
  <2>4. IsList(text(names[i]))
    BY <2>3, ReadAsShown
  <2> QED  BY <2>1, <2>4
<1> DEFINE t == [i \in 1 .. m |-> text(names[i])]
<1>9. /\ parts = [i \in 1 .. m |-> parts[i]]
      /\ parts = [i \in 1 .. m |-> Field(names[i], t[i])]
      /\ \A i \in 1 .. m : parts[i] = Field(names[i], t[i]) /\ t[i] = text(names[i])
  BY <1>3 DEF Field, parts
<1> HIDE DEF t, text
<1>10. IsList(parts) /\ Len(parts) = m
  BY <1>3, <1>9, ListFrom DEF m
<1>11. \A i \in 1 .. m : IsList(parts[i]) /\ parts[i] # <<>> /\ "&" \notin ToSet(parts[i])
  BY <1>8, <1>9, FieldIs
<1>12. Plain(parts, "&")
  BY <1>10, <1>11 DEF Plain
<1>13. FieldsIn(query) = parts
  <2>1. CASE parts = <<>>
    BY <1>2, <2>1 DEF Join, FieldsIn
  <2>2. CASE parts # <<>>
    <3>1. 1 \in 1 .. m
      BY <1>3, <1>10, <2>2, EmptyIs DEF m
    <3>2. Split(Join(parts, "&"), "&") = parts /\ Join(parts, "&") # <<>>
      BY <1>10, <1>11, <1>12, <2>2, <3>1, SplitJoined
    <3> QED  BY <1>2, <3>2 DEF FieldsIn
  <2> QED  BY <2>1, <2>2
<1>14. \A i \in 1 .. m : names[i] # "&" /\ IsList(t[i])
  BY <1>8, <1>9
<1>15. FieldsIn(query) = [i \in 1 .. m |-> Field(names[i], t[i])]
  BY <1>9, <1>13
<1>16. m \in Nat
  BY <1>3 DEF m
<1>19. HasFields(query, m, names, t)
  BY <1>6, <1>14, <1>15 DEF HasFields
<1>17. /\ DOMAIN Pairs(query) = {names[i] : i \in 1 .. m}
       /\ \A i \in 1 .. m : Pairs(query)[names[i]] = t[i]
  <2>1. HasPairs(query, m, names, t)
    BY ONLY <1>16, <1>19, FieldsPaired
  <2> QED  BY <2>1 DEF HasPairs
<1>18. \A n \in DOMAIN params : Pairs(query)[n] = Shown(n, params[n])
  <2> TAKE n \in DOMAIN params
  <2>1. PICK i \in 1 .. m : n = names[i]
    BY <1>7
  <2> QED  BY <1>9, <1>17, <2>1 DEF text
<1> QED  BY <1>7, <1>17, <1>18 DEF query

LEMMA Received ==
  ASSUME NEW params, Passable(params), NEW fields, DOMAIN params \subseteq fields
  PROVE  /\ ~Refused(QueryString(params), fields)
         /\ Extracted(QueryString(params), fields) = params
<1> DEFINE given == Pairs(QueryString(params))
<1>1. /\ DOMAIN given = DOMAIN params
      /\ \A n \in DOMAIN params : given[n] = Shown(n, params[n])
  BY Paired
<1>2. \A n \in DOMAIN params : Readable(n, given[n]) /\ Read(n, given[n]) = params[n]
  BY <1>1, ReadAsShown DEF Passable
<1>3. DOMAIN given \cap fields = DOMAIN params
  BY <1>1
<1>4. Refused(QueryString(params), fields) <=> \E n \in DOMAIN given \cap fields : ~Readable(n, given[n])
  BY DEF Refused
<1>5. Extracted(QueryString(params), fields) = [n \in DOMAIN given \cap fields |-> Read(n, given[n])]
  BY DEF Extracted
<1> HIDE DEF given
<1>6. params = [n \in DOMAIN params |-> params[n]]
  BY DEF Passable
<1>7. [n \in DOMAIN params |-> Read(n, given[n])] = [n \in DOMAIN params |-> params[n]]
  BY <1>2
<1> QED  BY <1>2, <1>3, <1>4, <1>5, <1>6, <1>7

(***************************************************************************)
(* The segments of a path.                                                 *)
(***************************************************************************)

LEMMA WordEncoded ==
  ASSUME NEW w, w \notin Reserved
  PROVE  urlencoded(<<w>>) = <<w>>
<1> DEFINE text == <<w>>
           ss == Encoding(text)
<1>1. IsList(text) /\ Len(text) = 1 /\ text[1] = w
  BY OneElement
<1>2. urlencoded(text) = FlattenSeq(ss)
  BY DEF urlencoded, Encoding
<1> HIDE DEF text
<1>3. IsList(ss) /\ Len(ss) = 1 /\ (\A i \in 1 .. 1 : IsList(ss[i])) /\ ss[1] = <<w>>
  <2>1. 1 \in 1 .. Len(text) /\ text[1] \notin Reserved
    BY <1>1
  <2> QED  BY <1>1, <2>1, EncodingIs
<1> HIDE DEF ss
<1>4. PICK g : Steps(g, ss, 1)
  <2>1. 1 \in Nat
    OBVIOUS
  <2> QED  BY ONLY <1>3, <2>1, FlatSteps
<1>5. g[0] = <<>> /\ g[1] = FlattenSeq(ss) /\ g[0 + 1] = g[0] \o ss[0 + 1]
  <2>1. 0 \in 0 .. 1 - 1
    OBVIOUS
  <2>2. \A i \in 0 .. 1 - 1 : g[i + 1] = g[i] \o ss[i + 1]
    BY <1>4 DEF Steps
  <2>3. g[0 + 1] = g[0] \o ss[0 + 1]
    BY ONLY <2>1, <2>2
  <2> QED  BY <1>4, <2>3 DEF Steps
<1>6. g[1] = <<>> \o ss[1]
  BY <1>5
<1>7. IsList(ss[1])
  BY <1>3
<1> QED  BY <1>2, <1>3, <1>5, <1>6, <1>7, NothingJoined DEF text

LEMMA SegmentsAre ==
  ASSUME NEW segs, IsList(segs), segs # <<>>, \A i \in 1 .. Len(segs) : IsList(segs[i])
  PROVE  Split(Target(segs), "/") = [i \in 1 .. Len(segs) |-> urlencoded(segs[i])]
<1> DEFINE n == Len(segs)
           parts == [i \in DOMAIN segs |-> urlencoded(segs[i])]
<1>1. n \in Nat \ {0} /\ DOMAIN segs = 1 .. n
  BY ListIs, EmptyIs
<1>2. /\ parts = [i \in 1 .. n |-> parts[i]]
      /\ \A i \in 1 .. n : parts[i] = urlencoded(segs[i])
      /\ parts = [i \in 1 .. n |-> urlencoded(segs[i])]
  BY <1>1
<1>3. Target(segs) = Join(parts, "/")
  BY DEF Target
<1> HIDE DEF parts
<1>4. IsList(parts) /\ Len(parts) = n
  BY <1>1, <1>2, ListFrom
<1>5. parts # <<>>
  BY <1>1, <1>4, EmptyIs
<1>6. "/" \in Reserved /\ "/" # "%"
  BY HexAssumption
<1>7. Plain(parts, "/")
  <2> SUFFICES ASSUME NEW i \in 1 .. n
               PROVE  IsList(parts[i]) /\ "/" \notin ToSet(parts[i])
    BY <1>4 DEF Plain
  <2> QED  BY <1>2, <1>6, EncodedIs
<1>8. Split(Join(parts, "/"), "/") = parts
  BY <1>4, <1>5, <1>7, SplitJoined
<1> QED  BY <1>2, <1>3, <1>8

(***************************************************************************)
(* The routes.                                                             *)
(***************************************************************************)

LEMMA V1Is ==
  /\ \A a : V1(<<a>>) = <<"v1", a>>
  /\ \A a, b : V1(<<a, b>>) = <<"v1", a, b>>
  /\ \A a, b, c : V1(<<a, b, c>>) = <<"v1", a, b, c>>
<1> DEFINE v == <<"v1">>
<1>1. IsList(v) /\ Len(v) = 1 /\ v[1] = "v1"
  BY OneElement
<1>2. \A rest : V1(rest) = v \o rest
  BY DEF V1
<1> HIDE DEF v
<1>3. ASSUME NEW rest, IsList(rest)
      PROVE  /\ IsList(V1(rest)) /\ Len(V1(rest)) = 1 + Len(rest) /\ V1(rest)[1] = "v1"
             /\ \A i \in 1 .. Len(rest) : V1(rest)[1 + i] = rest[i]
  <2>1. /\ IsList(v \o rest) /\ Len(v \o rest) = Len(v) + Len(rest)
        /\ \A i \in 1 .. Len(v) : (v \o rest)[i] = v[i]
        /\ \A i \in 1 .. Len(rest) : (v \o rest)[Len(v) + i] = rest[i]
    <3>1. IsList(v) /\ IsList(rest)
      BY <1>1, <1>3
    <3> QED  BY ONLY <3>1, Joined
  <2>2. 1 \in 1 .. Len(v)
    BY <1>1
  <2> QED  BY <1>1, <1>2, <2>1, <2>2
<1>4. ASSUME NEW a
      PROVE  V1(<<a>>) = <<"v1", a>>
  <2> DEFINE r == <<a>>
             s == V1(r)
             t == <<"v1", a>>
  <2>1. r = [i \in 1 .. 1 |-> r[i]] /\ r[1] = a /\ t = [i \in 1 .. 2 |-> t[i]] /\ t[1] = "v1" /\ t[2] = a
    OBVIOUS
  <2> HIDE DEF r, t
  <2>2. IsList(r) /\ Len(r) = 1 /\ IsList(t) /\ Len(t) = 2
    BY <2>1, ListFrom
  <2> HIDE DEF s
  <2>3. IsList(s) /\ Len(s) = 2 /\ s[1] = "v1" /\ \A i \in 1 .. 1 : s[1 + i] = r[i]
    <3>1. IsList(r)
      BY <2>2
    <3>2. /\ IsList(V1(r)) /\ Len(V1(r)) = 1 + Len(r) /\ V1(r)[1] = "v1"
          /\ \A i \in 1 .. Len(r) : V1(r)[1 + i] = r[i]
      BY ONLY <3>1, <1>3
    <3> QED  BY <2>2, <3>2 DEF s
  <2>4. s[1 + 1] = r[1]
    BY <2>3
  <2>5. \A i \in 1 .. 2 : s[i] = t[i]
    BY <2>1, <2>3, <2>4
  <2> QED  BY <2>2, <2>3, <2>5, SameLists DEF r, s, t
<1>5. ASSUME NEW a, NEW b
      PROVE  V1(<<a, b>>) = <<"v1", a, b>>
  <2> DEFINE r == <<a, b>>
             s == V1(r)
             t == <<"v1", a, b>>
  <2>1. /\ r = [i \in 1 .. 2 |-> r[i]] /\ r[1] = a /\ r[2] = b
        /\ t = [i \in 1 .. 3 |-> t[i]] /\ t[1] = "v1" /\ t[2] = a /\ t[3] = b
    OBVIOUS
  <2> HIDE DEF r, t
  <2>2. IsList(r) /\ Len(r) = 2 /\ IsList(t) /\ Len(t) = 3
    BY <2>1, ListFrom
  <2> HIDE DEF s
  <2>3. IsList(s) /\ Len(s) = 3 /\ s[1] = "v1" /\ \A i \in 1 .. 2 : s[1 + i] = r[i]
    <3>1. IsList(r)
      BY <2>2
    <3>2. /\ IsList(V1(r)) /\ Len(V1(r)) = 1 + Len(r) /\ V1(r)[1] = "v1"
          /\ \A i \in 1 .. Len(r) : V1(r)[1 + i] = r[i]
      BY ONLY <3>1, <1>3
    <3> QED  BY <2>2, <3>2 DEF s
  <2>4. s[1 + 1] = r[1] /\ s[1 + 2] = r[2]
    BY <2>3
  <2>5. \A i \in 1 .. 3 : s[i] = t[i]
    BY <2>1, <2>3, <2>4
  <2> QED  BY <2>2, <2>3, <2>5, SameLists DEF r, s, t
<1>6. ASSUME NEW a, NEW b, NEW c
      PROVE  V1(<<a, b, c>>) = <<"v1", a, b, c>>
  <2> DEFINE r == <<a, b, c>>
             s == V1(r)
             t == <<"v1", a, b, c>>
  <2>1. /\ r = [i \in 1 .. 3 |-> r[i]] /\ r[1] = a /\ r[2] = b /\ r[3] = c
        /\ t = [i \in 1 .. 4 |-> t[i]] /\ t[1] = "v1" /\ t[2] = a /\ t[3] = b /\ t[4] = c
    OBVIOUS
  <2> HIDE DEF r, t
  <2>2. IsList(r) /\ Len(r) = 3 /\ IsList(t) /\ Len(t) = 4
    BY <2>1, ListFrom
  <2> HIDE DEF s
  <2>3. IsList(s) /\ Len(s) = 4 /\ s[1] = "v1" /\ \A i \in 1 .. 3 : s[1 + i] = r[i]
    <3>1. IsList(r)
      BY <2>2
    <3>2. /\ IsList(V1(r)) /\ Len(V1(r)) = 1 + Len(r) /\ V1(r)[1] = "v1"
          /\ \A i \in 1 .. Len(r) : V1(r)[1 + i] = r[i]
      BY ONLY <3>1, <1>3
    <3> QED  BY <2>2, <3>2 DEF s
  <2>4. s[1 + 1] = r[1] /\ s[1 + 2] = r[2] /\ s[1 + 3] = r[3]
    BY <2>3
  <2>5. \A i \in 1 .. 4 : s[i] = t[i]
    BY <2>1, <2>3, <2>4
  <2> QED  BY <2>2, <2>3, <2>5, SameLists DEF r, s, t
<1> QED  BY <1>4, <1>5, <1>6, Zenon

\* The routes, their patterns written out.
LEMMA RoutesAre ==
  /\ IsList(Routes) /\ Len(Routes) = 38
  /\ Routes[1] = <<"GET", <<"v1", "health">>, "health", {}>>
  /\ Routes[2] = <<"GET", <<"v1", "sessions">>, "sessions", SessionsParams>>
  /\ Routes[3] = <<"GET", <<"v1", "sessions", Hole>>, "session", {}>>
  /\ Routes[4] = <<"GET", <<"v1", "sessions", Hole, "conversation">>, "conversation", ConversationParams>>
  /\ Routes[5] = <<"GET", <<"v1", "sessions", Hole, "tree">>, "tree", {}>>
  /\ Routes[6] = <<"GET", <<"v1", "sessions", Hole, "agents">>, "agents", {}>>
  /\ Routes[7] = <<"GET", <<"v1", "sessions", Hole, "summary">>, "summary", {}>>
  /\ Routes[8] = <<"POST", <<"v1", "messages", "query">>, "messages", MessageQuery>>
  /\ Routes[9] = <<"GET", <<"v1", "messages", Hole>>, "message", {}>>
  /\ Routes[10] = <<"GET", <<"v1", "search">>, "search", SearchParams>>
  /\ Routes[11] = <<"GET", <<"v1", "analytics", "tokens">>, "tokens", TokensParams>>
  /\ Routes[12] = <<"GET", <<"v1", "analytics", "tools">>, "tools", {}>>
  /\ Routes[13] = <<"GET", <<"v1", "analytics", "models">>, "models", {}>>
  /\ Routes[14] = <<"GET", <<"v1", "export", Hole>>, "export", ExportParams>>
  /\ Routes[15] = <<"GET", <<"v1", "schema">>, "schema", {}>>
  /\ Routes[16] = <<"GET", <<"v1", "schema", "versions">>, "versions", VersionsParams>>
  /\ Routes[17] = <<"GET", <<"v1", "schema", "drift">>, "drift", DriftParams>>
  /\ Routes[18] = <<"GET", <<"v1", "schema", "record-type-drift">>, "type_drift", RecordTypeDriftParams>>
  /\ Routes[19] = <<"GET", <<"v1", "projects">>, "projects", ProjectsParams>>
  /\ Routes[20] = <<"GET", <<"v1", "projects", Hole>>, "project", {}>>
  /\ Routes[21] = <<"POST", <<"v1", "sql">>, "sql", SqlQuery>>
  /\ Routes[22] = <<"GET", <<"v1", "files">>, "files", FilesParams>>
  /\ Routes[23] = <<"GET", <<"v1", "files", "search">>, "files_search", FileSearchParams>>
  /\ Routes[24] = <<"POST", <<"v1", "files", "query">>, "files_query", FileQueryBody>>
  /\ Routes[25] = <<"GET", <<"v1", "files", Hole>>, "file", {}>>
  /\ Routes[26] = <<"GET", <<"v1", "files", Hole, "content">>, "content", FileContentParams>>
  /\ Routes[27] = <<"GET", <<"v1", "files", Hole, "diff">>, "diff", {}>>
  /\ Routes[28] = <<"GET", <<"v1", "git">>, "git", GitParams>>
  /\ Routes[29] = <<"GET", <<"v1", "git", "commits">>, "git_commits", GitCommitsParams>>
  /\ Routes[30] = <<"GET", <<"v1", "git", "commits", Hole>>, "session_commits", {}>>
  /\ Routes[31] = <<"GET", <<"v1", "artifacts", Hole>>, "artifacts", {}>>
  /\ Routes[32] = <<"GET", <<"v1", "artifacts", Hole, "timeline">>, "timeline", TimelineParams>>
  /\ Routes[33] = <<"GET", <<"v1", "attachments">>, "attachments", AttachmentsParams>>
  /\ Routes[34] = <<"GET", <<"v1", "attachments", Hole>>, "attachment", {}>>
  /\ Routes[35] = <<"GET", <<"v1", "hook-executions">>, "hook_executions", HookExecutionsParams>>
  /\ Routes[36] = <<"GET", <<"v1", "plans">>, "plans", PlansListParams>>
  /\ Routes[37] = <<"GET", <<"v1", "plans", "search">>, "plans_search", PlansSearchParams>>
  /\ Routes[38] = <<"GET", <<"v1", "plans", Hole>>, "plan", {}>>
<1>1. Len(Routes) = 38 /\ Routes = [i \in 1 .. 38 |-> Routes[i]]
  BY DEF Routes
<1>2. IsList(Routes)
  BY <1>1, ListFrom
<1>3. Routes[1] = <<"GET", <<"v1", "health">>, "health", {}>>
  BY V1Is DEF Routes
<1>4. Routes[2] = <<"GET", <<"v1", "sessions">>, "sessions", SessionsParams>>
  BY V1Is DEF Routes
<1>5. Routes[3] = <<"GET", <<"v1", "sessions", Hole>>, "session", {}>>
  BY V1Is DEF Routes
<1>6. Routes[4] = <<"GET", <<"v1", "sessions", Hole, "conversation">>, "conversation", ConversationParams>>
  BY V1Is DEF Routes
<1>7. Routes[5] = <<"GET", <<"v1", "sessions", Hole, "tree">>, "tree", {}>>
  BY V1Is DEF Routes
<1>8. Routes[6] = <<"GET", <<"v1", "sessions", Hole, "agents">>, "agents", {}>>
  BY V1Is DEF Routes
<1>9. Routes[7] = <<"GET", <<"v1", "sessions", Hole, "summary">>, "summary", {}>>
  BY V1Is DEF Routes
<1>10. Routes[8] = <<"POST", <<"v1", "messages", "query">>, "messages", MessageQuery>>
  BY V1Is DEF Routes
<1>11. Routes[9] = <<"GET", <<"v1", "messages", Hole>>, "message", {}>>
  BY V1Is DEF Routes
<1>12. Routes[10] = <<"GET", <<"v1", "search">>, "search", SearchParams>>
  BY V1Is DEF Routes
<1>13. Routes[11] = <<"GET", <<"v1", "analytics", "tokens">>, "tokens", TokensParams>>
  BY V1Is DEF Routes
<1>14. Routes[12] = <<"GET", <<"v1", "analytics", "tools">>, "tools", {}>>
  BY V1Is DEF Routes
<1>15. Routes[13] = <<"GET", <<"v1", "analytics", "models">>, "models", {}>>
  BY V1Is DEF Routes
<1>16. Routes[14] = <<"GET", <<"v1", "export", Hole>>, "export", ExportParams>>
  BY V1Is DEF Routes
<1>17. Routes[15] = <<"GET", <<"v1", "schema">>, "schema", {}>>
  BY V1Is DEF Routes
<1>18. Routes[16] = <<"GET", <<"v1", "schema", "versions">>, "versions", VersionsParams>>
  BY V1Is DEF Routes
<1>19. Routes[17] = <<"GET", <<"v1", "schema", "drift">>, "drift", DriftParams>>
  BY V1Is DEF Routes
<1>20. Routes[18] = <<"GET", <<"v1", "schema", "record-type-drift">>, "type_drift", RecordTypeDriftParams>>
  BY V1Is DEF Routes
<1>21. Routes[19] = <<"GET", <<"v1", "projects">>, "projects", ProjectsParams>>
  BY V1Is DEF Routes
<1>22. Routes[20] = <<"GET", <<"v1", "projects", Hole>>, "project", {}>>
  BY V1Is DEF Routes
<1>23. Routes[21] = <<"POST", <<"v1", "sql">>, "sql", SqlQuery>>
  BY V1Is DEF Routes
<1>24. Routes[22] = <<"GET", <<"v1", "files">>, "files", FilesParams>>
  BY V1Is DEF Routes
<1>25. Routes[23] = <<"GET", <<"v1", "files", "search">>, "files_search", FileSearchParams>>
  BY V1Is DEF Routes
<1>26. Routes[24] = <<"POST", <<"v1", "files", "query">>, "files_query", FileQueryBody>>
  BY V1Is DEF Routes
<1>27. Routes[25] = <<"GET", <<"v1", "files", Hole>>, "file", {}>>
  BY V1Is DEF Routes
<1>28. Routes[26] = <<"GET", <<"v1", "files", Hole, "content">>, "content", FileContentParams>>
  BY V1Is DEF Routes
<1>29. Routes[27] = <<"GET", <<"v1", "files", Hole, "diff">>, "diff", {}>>
  BY V1Is DEF Routes
<1>30. Routes[28] = <<"GET", <<"v1", "git">>, "git", GitParams>>
  BY V1Is DEF Routes
<1>31. Routes[29] = <<"GET", <<"v1", "git", "commits">>, "git_commits", GitCommitsParams>>
  BY V1Is DEF Routes
<1>32. Routes[30] = <<"GET", <<"v1", "git", "commits", Hole>>, "session_commits", {}>>
  BY V1Is DEF Routes
<1>33. Routes[31] = <<"GET", <<"v1", "artifacts", Hole>>, "artifacts", {}>>
  BY V1Is DEF Routes
<1>34. Routes[32] = <<"GET", <<"v1", "artifacts", Hole, "timeline">>, "timeline", TimelineParams>>
  BY V1Is DEF Routes
<1>35. Routes[33] = <<"GET", <<"v1", "attachments">>, "attachments", AttachmentsParams>>
  BY V1Is DEF Routes
<1>36. Routes[34] = <<"GET", <<"v1", "attachments", Hole>>, "attachment", {}>>
  BY V1Is DEF Routes
<1>37. Routes[35] = <<"GET", <<"v1", "hook-executions">>, "hook_executions", HookExecutionsParams>>
  BY V1Is DEF Routes
<1>38. Routes[36] = <<"GET", <<"v1", "plans">>, "plans", PlansListParams>>
  BY V1Is DEF Routes
<1>39. Routes[37] = <<"GET", <<"v1", "plans", "search">>, "plans_search", PlansSearchParams>>
  BY V1Is DEF Routes
<1>40. Routes[38] = <<"GET", <<"v1", "plans", Hole>>, "plan", {}>>
  BY V1Is DEF Routes
<1> QED  BY <1>1, <1>2, <1>3, <1>4, <1>5, <1>6, <1>7, <1>8, <1>9, <1>10, <1>11, <1>12, <1>13, <1>14, <1>15, <1>16, <1>17, <1>18, <1>19, <1>20, <1>21, <1>22, <1>23, <1>24, <1>25, <1>26, <1>27, <1>28, <1>29, <1>30, <1>31, <1>32, <1>33, <1>34, <1>35, <1>36, <1>37, <1>38, <1>39, <1>40

\* A segment stands for a word of a pattern, or for its hole.
Stands(a, z) == IF a = Hole THEN z # <<>> ELSE z = <<a>>

LEMMA TwoMatch ==
  ASSUME NEW p, NEW x
  PROVE  Matches(<<"v1", p>>, << <<"v1">>, x>>) <=> Stands(p, x)
<1> DEFINE a == <<"v1", p>>
           s == << <<"v1">>, x>>
<1>1. Len(a) = 2 /\ DOMAIN a = 1 .. 2 /\ a[1] = "v1" /\ a[2] = p 
  OBVIOUS
<1>2. Len(s) = 2 /\ s[1] = <<"v1">> /\ s[2] = x
  OBVIOUS
<1> HIDE DEF a, s
<1>3. Matches(a, s) <=> \A i \in 1 .. 2 : Stands(a[i], s[i])
  BY <1>1, <1>2 DEF Matches, Stands
<1>4. (\A i \in 1 .. 2 : Stands(a[i], s[i])) <=> Stands(a[1], s[1]) /\ Stands(a[2], s[2])
  <2>1. \A i : i \in 1 .. 2 <=> i = 1 \/ i = 2
    OBVIOUS
  <2> QED  BY <2>1, Zenon
<1>5. Stands("v1", <<"v1">>)
  BY Zenon DEF Stands, Hole
<1> QED  BY <1>1, <1>2, <1>3, <1>4, <1>5, Zenon DEF a, s

LEMMA ThreeMatch ==
  ASSUME NEW p, NEW q, NEW x, NEW y
  PROVE  Matches(<<"v1", p, q>>, << <<"v1">>, x, y>>) <=> Stands(p, x) /\ Stands(q, y)
<1> DEFINE a == <<"v1", p, q>>
           s == << <<"v1">>, x, y>>
<1>1. Len(a) = 3 /\ DOMAIN a = 1 .. 3 /\ a[1] = "v1" /\ a[2] = p /\ a[3] = q 
  OBVIOUS
<1>2. Len(s) = 3 /\ s[1] = <<"v1">> /\ s[2] = x /\ s[3] = y
  OBVIOUS
<1> HIDE DEF a, s
<1>3. Matches(a, s) <=> \A i \in 1 .. 3 : Stands(a[i], s[i])
  BY <1>1, <1>2 DEF Matches, Stands
<1>4. (\A i \in 1 .. 3 : Stands(a[i], s[i])) <=>
         Stands(a[1], s[1]) /\ Stands(a[2], s[2]) /\ Stands(a[3], s[3])
  <2>1. \A i : i \in 1 .. 3 <=> i = 1 \/ i = 2 \/ i = 3
    OBVIOUS
  <2> QED  BY <2>1, Zenon
<1>5. Stands("v1", <<"v1">>)
  BY Zenon DEF Stands, Hole
<1> QED  BY <1>1, <1>2, <1>3, <1>4, <1>5, Zenon DEF a, s

LEMMA LengthsDiffer ==
  ASSUME NEW p, NEW q, NEW r, NEW x, NEW y
  PROVE  /\ ~Matches(<<"v1", p, q>>, << <<"v1">>, x>>)
         /\ ~Matches(<<"v1", p, q, r>>, << <<"v1">>, x>>)
         /\ ~Matches(<<"v1", p>>, << <<"v1">>, x, y>>)
         /\ ~Matches(<<"v1", p, q, r>>, << <<"v1">>, x, y>>)
<1> DEFINE s == << <<"v1">>, x>>
           t == << <<"v1">>, x, y>>
           a == <<"v1", p>>
           b == <<"v1", p, q>>
           c == <<"v1", p, q, r>>
<1>1. Len(s) = 2 /\ Len(t) = 3 /\ Len(a) = 2 /\ Len(b) = 3 /\ Len(c) = 4
  OBVIOUS
<1> HIDE DEF s, t, a, b, c
<1>2. ~Matches(b, s) /\ ~Matches(c, s) /\ ~Matches(a, t) /\ ~Matches(c, t)
  BY <1>1 DEF Matches
<1> QED  BY <1>2, Zenon DEF s, t, a, b, c

LEMMA OfTwo ==
  ASSUME NEW a, NEW p, a = <<"v1", p>>, NEW x, NEW y
  PROVE  /\ Matches(a, << <<"v1">>, x>>) <=> Stands(p, x)
         /\ ~Matches(a, << <<"v1">>, x, y>>)
<1>1. ~Matches(a, << <<"v1">>, x, y>>)
  BY LengthsDiffer
<1> QED  BY <1>1, TwoMatch

LEMMA OfThree ==
  ASSUME NEW a, NEW p, NEW q, a = <<"v1", p, q>>, NEW x, NEW y
  PROVE  /\ Matches(a, << <<"v1">>, x, y>>) <=> Stands(p, x) /\ Stands(q, y)
         /\ ~Matches(a, << <<"v1">>, x>>)
<1>1. ~Matches(a, << <<"v1">>, x>>)
  BY LengthsDiffer
<1> QED  BY <1>1, ThreeMatch

LEMMA OfFour ==
  ASSUME NEW a, NEW p, NEW q, NEW r, a = <<"v1", p, q, r>>, NEW x, NEW y
  PROVE  ~Matches(a, << <<"v1">>, x>>) /\ ~Matches(a, << <<"v1">>, x, y>>)
  BY LengthsDiffer

LEMMA UpTo38 ==
  ASSUME NEW j \in 1 .. 38
  PROVE  \/ j = 1 \/ j = 2 \/ j = 3 \/ j = 4 \/ j = 5 \/ j = 6 \/ j = 7 \/ j = 8 \/ j = 9
         \/ j = 10 \/ j = 11 \/ j = 12 \/ j = 13 \/ j = 14 \/ j = 15 \/ j = 16 \/ j = 17 \/ j = 18 \/ j = 19
         \/ j = 20 \/ j = 21 \/ j = 22 \/ j = 23 \/ j = 24 \/ j = 25 \/ j = 26 \/ j = 27 \/ j = 28 \/ j = 29
         \/ j = 30 \/ j = 31 \/ j = 32 \/ j = 33 \/ j = 34 \/ j = 35 \/ j = 36 \/ j = 37 \/ j = 38
  OBVIOUS

\* The routes of two and of three segments.
MatchTwo(j, x) ==
  \/ j = 1 /\ Stands("health", x)
  \/ j = 2 /\ Stands("sessions", x)
  \/ j = 10 /\ Stands("search", x)
  \/ j = 15 /\ Stands("schema", x)
  \/ j = 19 /\ Stands("projects", x)
  \/ j = 21 /\ Stands("sql", x)
  \/ j = 22 /\ Stands("files", x)
  \/ j = 28 /\ Stands("git", x)
  \/ j = 33 /\ Stands("attachments", x)
  \/ j = 35 /\ Stands("hook-executions", x)
  \/ j = 36 /\ Stands("plans", x)

MatchThree(j, x, y) ==
  \/ j = 3 /\ Stands("sessions", x) /\ Stands(Hole, y)
  \/ j = 8 /\ Stands("messages", x) /\ Stands("query", y)
  \/ j = 9 /\ Stands("messages", x) /\ Stands(Hole, y)
  \/ j = 11 /\ Stands("analytics", x) /\ Stands("tokens", y)
  \/ j = 12 /\ Stands("analytics", x) /\ Stands("tools", y)
  \/ j = 13 /\ Stands("analytics", x) /\ Stands("models", y)
  \/ j = 14 /\ Stands("export", x) /\ Stands(Hole, y)
  \/ j = 16 /\ Stands("schema", x) /\ Stands("versions", y)
  \/ j = 17 /\ Stands("schema", x) /\ Stands("drift", y)
  \/ j = 18 /\ Stands("schema", x) /\ Stands("record-type-drift", y)
  \/ j = 20 /\ Stands("projects", x) /\ Stands(Hole, y)
  \/ j = 23 /\ Stands("files", x) /\ Stands("search", y)
  \/ j = 24 /\ Stands("files", x) /\ Stands("query", y)
  \/ j = 25 /\ Stands("files", x) /\ Stands(Hole, y)
  \/ j = 29 /\ Stands("git", x) /\ Stands("commits", y)
  \/ j = 31 /\ Stands("artifacts", x) /\ Stands(Hole, y)
  \/ j = 34 /\ Stands("attachments", x) /\ Stands(Hole, y)
  \/ j = 37 /\ Stands("plans", x) /\ Stands("search", y)
  \/ j = 38 /\ Stands("plans", x) /\ Stands(Hole, y)

LEMMA RoutesMatch ==
  ASSUME NEW j \in 1 .. 38, NEW x, NEW y
  PROVE  /\ Matches(Routes[j][2], << <<"v1">>, x>>) => MatchTwo(j, x)
         /\ Matches(Routes[j][2], << <<"v1">>, x, y>>) => MatchThree(j, x, y)
<1> DEFINE P(i) == /\ Matches(Routes[i][2], << <<"v1">>, x>>) => MatchTwo(i, x)
                   /\ Matches(Routes[i][2], << <<"v1">>, x, y>>) => MatchThree(i, x, y)
<1>1. P(1)
  <2>1. Routes[1][2] = <<"v1", "health">>
    BY RoutesAre
  <2> QED  BY <2>1, OfTwo DEF MatchTwo
<1>2. P(2)
  <2>1. Routes[2][2] = <<"v1", "sessions">>
    BY RoutesAre
  <2> QED  BY <2>1, OfTwo DEF MatchTwo
<1>3. P(3)
  <2>1. Routes[3][2] = <<"v1", "sessions", Hole>>
    BY RoutesAre
  <2> QED  BY <2>1, OfThree DEF MatchThree
<1>4. P(4)
  <2>1. Routes[4][2] = <<"v1", "sessions", Hole, "conversation">>
    BY RoutesAre
  <2> QED  BY <2>1, OfFour
<1>5. P(5)
  <2>1. Routes[5][2] = <<"v1", "sessions", Hole, "tree">>
    BY RoutesAre
  <2> QED  BY <2>1, OfFour
<1>6. P(6)
  <2>1. Routes[6][2] = <<"v1", "sessions", Hole, "agents">>
    BY RoutesAre
  <2> QED  BY <2>1, OfFour
<1>7. P(7)
  <2>1. Routes[7][2] = <<"v1", "sessions", Hole, "summary">>
    BY RoutesAre
  <2> QED  BY <2>1, OfFour
<1>8. P(8)
  <2>1. Routes[8][2] = <<"v1", "messages", "query">>
    BY RoutesAre
  <2> QED  BY <2>1, OfThree DEF MatchThree
<1>9. P(9)
  <2>1. Routes[9][2] = <<"v1", "messages", Hole>>
    BY RoutesAre
  <2> QED  BY <2>1, OfThree DEF MatchThree
<1>10. P(10)
  <2>1. Routes[10][2] = <<"v1", "search">>
    BY RoutesAre
  <2> QED  BY <2>1, OfTwo DEF MatchTwo
<1>11. P(11)
  <2>1. Routes[11][2] = <<"v1", "analytics", "tokens">>
    BY RoutesAre
  <2> QED  BY <2>1, OfThree DEF MatchThree
<1>12. P(12)
  <2>1. Routes[12][2] = <<"v1", "analytics", "tools">>
    BY RoutesAre
  <2> QED  BY <2>1, OfThree DEF MatchThree
<1>13. P(13)
  <2>1. Routes[13][2] = <<"v1", "analytics", "models">>
    BY RoutesAre
  <2> QED  BY <2>1, OfThree DEF MatchThree
<1>14. P(14)
  <2>1. Routes[14][2] = <<"v1", "export", Hole>>
    BY RoutesAre
  <2> QED  BY <2>1, OfThree DEF MatchThree
<1>15. P(15)
  <2>1. Routes[15][2] = <<"v1", "schema">>
    BY RoutesAre
  <2> QED  BY <2>1, OfTwo DEF MatchTwo
<1>16. P(16)
  <2>1. Routes[16][2] = <<"v1", "schema", "versions">>
    BY RoutesAre
  <2> QED  BY <2>1, OfThree DEF MatchThree
<1>17. P(17)
  <2>1. Routes[17][2] = <<"v1", "schema", "drift">>
    BY RoutesAre
  <2> QED  BY <2>1, OfThree DEF MatchThree
<1>18. P(18)
  <2>1. Routes[18][2] = <<"v1", "schema", "record-type-drift">>
    BY RoutesAre
  <2> QED  BY <2>1, OfThree DEF MatchThree
<1>19. P(19)
  <2>1. Routes[19][2] = <<"v1", "projects">>
    BY RoutesAre
  <2> QED  BY <2>1, OfTwo DEF MatchTwo
<1>20. P(20)
  <2>1. Routes[20][2] = <<"v1", "projects", Hole>>
    BY RoutesAre
  <2> QED  BY <2>1, OfThree DEF MatchThree
<1>21. P(21)
  <2>1. Routes[21][2] = <<"v1", "sql">>
    BY RoutesAre
  <2> QED  BY <2>1, OfTwo DEF MatchTwo
<1>22. P(22)
  <2>1. Routes[22][2] = <<"v1", "files">>
    BY RoutesAre
  <2> QED  BY <2>1, OfTwo DEF MatchTwo
<1>23. P(23)
  <2>1. Routes[23][2] = <<"v1", "files", "search">>
    BY RoutesAre
  <2> QED  BY <2>1, OfThree DEF MatchThree
<1>24. P(24)
  <2>1. Routes[24][2] = <<"v1", "files", "query">>
    BY RoutesAre
  <2> QED  BY <2>1, OfThree DEF MatchThree
<1>25. P(25)
  <2>1. Routes[25][2] = <<"v1", "files", Hole>>
    BY RoutesAre
  <2> QED  BY <2>1, OfThree DEF MatchThree
<1>26. P(26)
  <2>1. Routes[26][2] = <<"v1", "files", Hole, "content">>
    BY RoutesAre
  <2> QED  BY <2>1, OfFour
<1>27. P(27)
  <2>1. Routes[27][2] = <<"v1", "files", Hole, "diff">>
    BY RoutesAre
  <2> QED  BY <2>1, OfFour
<1>28. P(28)
  <2>1. Routes[28][2] = <<"v1", "git">>
    BY RoutesAre
  <2> QED  BY <2>1, OfTwo DEF MatchTwo
<1>29. P(29)
  <2>1. Routes[29][2] = <<"v1", "git", "commits">>
    BY RoutesAre
  <2> QED  BY <2>1, OfThree DEF MatchThree
<1>30. P(30)
  <2>1. Routes[30][2] = <<"v1", "git", "commits", Hole>>
    BY RoutesAre
  <2> QED  BY <2>1, OfFour
<1>31. P(31)
  <2>1. Routes[31][2] = <<"v1", "artifacts", Hole>>
    BY RoutesAre
  <2> QED  BY <2>1, OfThree DEF MatchThree
<1>32. P(32)
  <2>1. Routes[32][2] = <<"v1", "artifacts", Hole, "timeline">>
    BY RoutesAre
  <2> QED  BY <2>1, OfFour
<1>33. P(33)
  <2>1. Routes[33][2] = <<"v1", "attachments">>
    BY RoutesAre
  <2> QED  BY <2>1, OfTwo DEF MatchTwo
<1>34. P(34)
  <2>1. Routes[34][2] = <<"v1", "attachments", Hole>>
    BY RoutesAre
  <2> QED  BY <2>1, OfThree DEF MatchThree
<1>35. P(35)
  <2>1. Routes[35][2] = <<"v1", "hook-executions">>
    BY RoutesAre
  <2> QED  BY <2>1, OfTwo DEF MatchTwo
<1>36. P(36)
  <2>1. Routes[36][2] = <<"v1", "plans">>
    BY RoutesAre
  <2> QED  BY <2>1, OfTwo DEF MatchTwo
<1>37. P(37)
  <2>1. Routes[37][2] = <<"v1", "plans", "search">>
    BY RoutesAre
  <2> QED  BY <2>1, OfThree DEF MatchThree
<1>38. P(38)
  <2>1. Routes[38][2] = <<"v1", "plans", Hole>>
    BY RoutesAre
  <2> QED  BY <2>1, OfThree DEF MatchThree
<1> HIDE DEF P
<1> QED  BY UpTo38, <1>1, <1>2, <1>3, <1>4, <1>5, <1>6, <1>7, <1>8, <1>9, <1>10, <1>11, <1>12, <1>13, <1>14, <1>15, <1>16, <1>17, <1>18, <1>19, <1>20, <1>21, <1>22, <1>23, <1>24, <1>25, <1>26, <1>27, <1>28, <1>29, <1>30, <1>31, <1>32, <1>33, <1>34, <1>35, <1>36, <1>37, <1>38 DEF P

\* The words of the paths.
PathWords == {"v1", "health", "sessions", "conversation", "tree", "agents", "summary", "messages",
    "query", "search", "analytics", "tokens", "tools", "models", "export", "schema", "versions",
    "drift", "record-type-drift", "projects", "sql", "files", "content", "diff", "git", "commits",
    "artifacts", "timeline", "attachments", "hook-executions", "plans"}

LEMMA WordStands ==
  /\ \A p \in PathWords : p # Hole /\ \A z : Stands(p, z) <=> z = <<p>>
  /\ \A z : Stands(Hole, z) <=> z # <<>>
<1>1. \A p \in PathWords : p # Hole
  BY Zenon DEF PathWords, Hole
<1>2. \A p, z : p # Hole => (Stands(p, z) <=> z = <<p>>)
  BY Zenon DEF Stands
<1>3. \A z : Stands(Hole, z) <=> z # <<>>
  BY Zenon DEF Stands
<1> QED  BY <1>1, <1>2, <1>3, Zenon

\* A word of a pattern is sent as it is.
LEMMA WordSent ==
  ASSUME NEW k \in 1 .. 38, NEW i, i \in DOMAIN Routes[k][2], Routes[k][2][i] # Hole
  PROVE  urlencoded(Word(Routes[k][2][i])) = <<Routes[k][2][i]>>
<1> DEFINE w == Routes[k][2][i]
<1>1. k \in DOMAIN Routes
  BY RoutesAre, ListIs
<1>2. Range(Routes[k][2]) \cap Reserved \subseteq {Hole}
  BY <1>1, RoutesAssumption
<1>3. w \in Range(Routes[k][2])
  BY DEF Range
<1> HIDE DEF w
<1>4. w \notin Reserved
  BY <1>2, <1>3 DEF w
<1> QED  BY <1>4, WordEncoded DEF w, Word

\* Two segments of a path, and three, are received as they were sent.
LEMMA TwoSent ==
  ASSUME NEW k \in 1 .. 38, NEW w \in PathWords, Routes[k][2] = <<"v1", w>>
  PROVE  Split(Target(Path(<<w>>)), "/") = << <<"v1">>, <<w>> >>
<1> DEFINE a == <<"v1", w>>
           s == Path(<<w>>)
<1>1. V1(<<w>>) = a
  BY V1Is
<1>2. Len(a) = 2 /\ DOMAIN a = 1 .. 2 /\ a[1] = "v1" /\ a[2] = w
  OBVIOUS
<1>3. Routes[k][2] = a
  OBVIOUS
<1> HIDE DEF a
<1>4. s = [i \in 1 .. 2 |-> Word(a[i])]
  BY <1>1, <1>2 DEF Path, Each
<1> HIDE DEF s
<1>5. s = [i \in 1 .. 2 |-> s[i]] /\ \A i \in 1 .. 2 : s[i] = Word(a[i])
  BY <1>4
<1>6. IsList(s) /\ Len(s) = 2
  BY <1>5, ListFrom
<1>7. s # <<>> /\ \A i \in 1 .. Len(s) : IsList(s[i])
  <2>1. s # <<>>
    BY <1>6, NoElements
  <2>2. \A i \in 1 .. Len(s) : IsList(s[i])
    BY <1>5, <1>6, OneElement DEF Word
  <2> QED  BY <2>1, <2>2
<1>8. Split(Target(s), "/") = [i \in 1 .. 2 |-> urlencoded(s[i])]
  BY <1>6, <1>7, SegmentsAre
<1>9. \A i \in 1 .. 2 : a[i] \in PathWords /\ a[i] # Hole
  <2>1. "v1" \in PathWords
    BY DEF PathWords
  <2> QED  BY <1>2, <2>1, WordStands
<1>10. \A i \in 1 .. 2 : urlencoded(s[i]) = <<a[i]>>
  BY <1>2, <1>3, <1>5, <1>9, WordSent
<1>11. [i \in 1 .. 2 |-> urlencoded(s[i])] = << <<a[1]>>, <<a[2]>> >>
  BY <1>10
<1> QED  BY <1>2, <1>8, <1>11 DEF s

LEMMA ThreeSent ==
  ASSUME NEW k \in 1 .. 38, NEW w \in PathWords, NEW x \in PathWords, Routes[k][2] = <<"v1", w, x>>
  PROVE  Split(Target(Path(<<w, x>>)), "/") = << <<"v1">>, <<w>>, <<x>> >>
<1> DEFINE a == <<"v1", w, x>>
           s == Path(<<w, x>>)
<1>1. V1(<<w, x>>) = a
  BY V1Is
<1>2. Len(a) = 3 /\ DOMAIN a = 1 .. 3 /\ a[1] = "v1" /\ a[2] = w /\ a[3] = x
  OBVIOUS
<1>3. Routes[k][2] = a
  OBVIOUS
<1> HIDE DEF a
<1>4. s = [i \in 1 .. 3 |-> Word(a[i])]
  BY <1>1, <1>2 DEF Path, Each
<1> HIDE DEF s
<1>5. s = [i \in 1 .. 3 |-> s[i]] /\ \A i \in 1 .. 3 : s[i] = Word(a[i])
  BY <1>4
<1>6. IsList(s) /\ Len(s) = 3
  BY <1>5, ListFrom
<1>7. s # <<>> /\ \A i \in 1 .. Len(s) : IsList(s[i])
  <2>1. s # <<>>
    BY <1>6, NoElements
  <2>2. \A i \in 1 .. Len(s) : IsList(s[i])
    BY <1>5, <1>6, OneElement DEF Word
  <2> QED  BY <2>1, <2>2
<1>8. Split(Target(s), "/") = [i \in 1 .. 3 |-> urlencoded(s[i])]
  BY <1>6, <1>7, SegmentsAre
<1>9. \A i \in 1 .. 3 : a[i] \in PathWords /\ a[i] # Hole
  <2>1. "v1" \in PathWords
    BY DEF PathWords
  <2> QED  BY <1>2, <2>1, WordStands
<1>10. \A i \in 1 .. 3 : urlencoded(s[i]) = <<a[i]>>
  BY <1>2, <1>3, <1>5, <1>9, WordSent
<1>11. [i \in 1 .. 3 |-> urlencoded(s[i])] = << <<a[1]>>, <<a[2]>>, <<a[3]>> >>
  BY <1>10
<1> QED  BY <1>2, <1>8, <1>11 DEF s

LEMMA IdSent ==
  ASSUME NEW k \in 1 .. 38, NEW w \in PathWords, Routes[k][2] = <<"v1", w, Hole>>,
         NEW id, IsList(id)
  PROVE  Split(Target(Path(<<w>>) \o <<id>>), "/") = << <<"v1">>, <<w>>, urlencoded(id)>>
<1> DEFINE a == <<"v1", w>>
           b == <<"v1", w, Hole>>
           p == Path(<<w>>)
           o == <<id>>
           s == p \o o
<1>1. V1(<<w>>) = a
  BY V1Is
<1>2. /\ Len(a) = 2 /\ DOMAIN a = 1 .. 2 /\ a[1] = "v1" /\ a[2] = w
      /\ DOMAIN b = 1 .. 3 /\ b[1] = "v1" /\ b[2] = w
  OBVIOUS
<1>3. Routes[k][2] = b
  OBVIOUS
<1> HIDE DEF a, b
<1>4. p = [i \in 1 .. 2 |-> Word(a[i])]
  BY <1>1, <1>2 DEF Path, Each
<1> HIDE DEF p
<1>5. p = [i \in 1 .. 2 |-> p[i]] /\ \A i \in 1 .. 2 : p[i] = Word(a[i])
  BY <1>4
<1>6. IsList(p) /\ Len(p) = 2
  BY <1>5, ListFrom
<1>7. IsList(o) /\ Len(o) = 1 /\ o[1] = id
  BY OneElement
<1> HIDE DEF o
<1>8. /\ IsList(s) /\ Len(s) = 3 /\ \A i \in 1 .. 2 : s[i] = p[i]
      /\ s[3] = id
  <2>1. /\ IsList(p \o o) /\ Len(p \o o) = Len(p) + Len(o)
        /\ \A i \in 1 .. Len(p) : (p \o o)[i] = p[i]
        /\ \A i \in 1 .. Len(o) : (p \o o)[Len(p) + i] = o[i]
    <3>1. IsList(p) /\ IsList(o)
      BY <1>6, <1>7
    <3> QED  BY ONLY <3>1, Joined
  <2>2. 1 \in 1 .. Len(o) /\ Len(p) + 1 = 3 /\ Len(p) + Len(o) = 3
    BY <1>6, <1>7
  <2>3. (p \o o)[Len(p) + 1] = o[1]
    BY <2>1, <2>2
  <2> QED  BY <1>6, <1>7, <2>1, <2>2, <2>3
<1> HIDE DEF s
<1>9. s # <<>> /\ \A i \in 1 .. Len(s) : IsList(s[i])
  <2>1. \A i \in 1 .. 2 : IsList(s[i])
    BY <1>5, <1>8, OneElement DEF Word
  <2>2. \A i \in 1 .. 3 : i \in 1 .. 2 \/ i = 3
    OBVIOUS
  <2> QED  BY <1>8, <2>1, <2>2, NoElements
<1>10. Split(Target(s), "/") = [i \in 1 .. 3 |-> urlencoded(s[i])]
  BY <1>8, <1>9, SegmentsAre
<1>11. \A i \in 1 .. 2 : b[i] \in PathWords /\ b[i] # Hole /\ a[i] = b[i] /\ i \in 1 .. 3
  <2>1. "v1" \in PathWords
    BY DEF PathWords
  <2> QED  BY <1>2, <2>1, WordStands
<1>12. \A i \in 1 .. 2 : urlencoded(s[i]) = <<b[i]>>
  <2> TAKE i \in 1 .. 2
  <2>1. s[i] = Word(b[i])
    BY <1>5, <1>8, <1>11
  <2>2. i \in DOMAIN Routes[k][2] /\ Routes[k][2][i] # Hole /\ Routes[k][2][i] = b[i]
    BY <1>2, <1>3, <1>11
  <2> QED  BY <2>1, <2>2, WordSent
<1>13. [i \in 1 .. 3 |-> urlencoded(s[i])] = << <<b[1]>>, <<b[2]>>, urlencoded(id)>>
  BY <1>8, <1>12
<1> QED  BY <1>2, <1>10, <1>13 DEF s, p, o

\* The ids of a path: those in the holes of its pattern.
Holes(pattern) == {i \in 1 .. Len(pattern) : pattern[i] = Hole}

IdsAt(segs, at, m) == [k \in 1 .. m |-> PercentDecoded(segs[at[k]], FALSE)]

LEMMA IdsIs ==
  ASSUME NEW pattern, IsList(pattern), NEW segs, NEW m \in Nat, NEW at,
         InOrderAt(at, m, Len(pattern), Holes(pattern))
  PROVE  Ids(pattern, segs) = IdsAt(segs, at, m)
<1> DEFINE s == [i \in DOMAIN pattern |-> i]
           J == {i \in DOMAIN s : pattern[s[i]] = Hole}
           h == [k \in 1 .. m |-> at[k]]
<1>1. DOMAIN pattern = 1 .. Len(pattern)
  BY ListIs
<1>2. J = Holes(pattern)
  BY <1>1 DEF Holes
<1>3. Kept(s, Holes(pattern)) = h
  BY PlacesInOrder
<1>4. Kept(s, J) = h
  BY <1>2, <1>3
<1>5. Ids(pattern, segs) = [k \in DOMAIN h |-> PercentDecoded(segs[h[k]], FALSE)]
  BY <1>4, Zenon DEF Ids, Places, Select
<1> QED  BY <1>5 DEF IdsAt

LEMMA NoIds ==
  ASSUME NEW pattern, IsList(pattern), \A i \in 1 .. Len(pattern) : pattern[i] # Hole, NEW segs
  PROVE  Ids(pattern, segs) = <<>>
<1> DEFINE at == <<>>
<1>1. InOrderAt(at, 0, Len(pattern), Holes(pattern))
  BY DEF InOrderAt, Holes
<1>2. 0 \in Nat
  OBVIOUS
<1>3. IsList(pattern)
  OBVIOUS
<1> HIDE DEF at
<1>4. Ids(pattern, segs) = IdsAt(segs, at, 0)
  BY ONLY <1>1, <1>2, <1>3, IdsIs
<1> QED  BY <1>4 DEF IdsAt

LEMMA IdOfThree ==
  ASSUME NEW w, w # Hole, NEW x, NEW y, NEW z
  PROVE  /\ Ids(<<"v1", w, Hole>>, <<x, y, z>>) # <<>>
         /\ Ids(<<"v1", w, Hole>>, <<x, y, z>>)[1] = PercentDecoded(z, FALSE)
<1> DEFINE pattern == <<"v1", w, Hole>>
           segs == <<x, y, z>>
           at == [k \in 1 .. 1 |-> 3]
<1>0. "v1" # Hole
  BY WordStands DEF PathWords
<1>1. /\ Len(pattern) = 3 /\ pattern[1] = "v1" /\ pattern[2] = w /\ pattern[3] = Hole
      /\ pattern = [i \in 1 .. 3 |-> pattern[i]] /\ segs[3] = z
  OBVIOUS
<1> HIDE DEF pattern, segs
<1>2. IsList(pattern)
  BY <1>1, ListFrom
<1>3. at[1] = 3
  OBVIOUS
<1> HIDE DEF at
<1>4. InOrderAt(at, 1, Len(pattern), Holes(pattern))
  BY <1>0, <1>1, <1>3 DEF InOrderAt, Holes
<1>5. 1 \in Nat
  OBVIOUS
<1>6. Ids(pattern, segs) = IdsAt(segs, at, 1)
  BY ONLY <1>2, <1>4, <1>5, IdsIs
<1>7. Ids(pattern, segs)[1] = PercentDecoded(z, FALSE) /\ DOMAIN Ids(pattern, segs) = 1 .. 1
  <2>1. 1 \in 1 .. 1 /\ segs[at[1]] = z
    BY <1>1, <1>3
  <2>2. IdsAt(segs, at, 1)[1] = PercentDecoded(segs[at[1]], FALSE)
    BY <2>1 DEF IdsAt
  <2>3. DOMAIN IdsAt(segs, at, 1) = 1 .. 1
    BY DEF IdsAt
  <2> QED  BY <1>6, <2>1, <2>2, <2>3
<1>8. Ids(pattern, segs) # <<>>
  <2>1. 1 \in DOMAIN Ids(pattern, segs)
    BY <1>7
  <2>2. \A e : e = <<>> => 1 \notin DOMAIN e
    OBVIOUS
  <2> QED  BY <2>1, <2>2
<1> QED  BY <1>7, <1>8 DEF pattern, segs

\* The route that a path is taken to: the first that it matches.
FirstRoute(segs, k) ==
  /\ Matches(Routes[k][2], segs)
  /\ \A j \in 1 .. k - 1 : ~Matches(Routes[j][2], segs)

LEMMA Answered ==
  ASSUME NEW request, NEW segs, Split(request.target, "/") = segs,
         NEW k \in 1 .. 38, FirstRoute(segs, k)
  PROVE  Answer(db, request) = Dispatched(db, request, Routes[k], Ids(Routes[k][2], segs),
                                          ParametersOf(request, Routes[k][4]))
<1> DEFINE I == {j \in DOMAIN Routes : Matches(Routes[j][2], segs)}
           to == Kept(Routes, I)
<1>1. IsList(Routes) /\ Len(Routes) = 38
  BY RoutesAre
<1>2. DOMAIN Routes = 1 .. 38
  BY <1>1, ListIs
<1>3. RoutesTo(segs) = to
  BY DEF RoutesTo, Select
<1>4. k \in I /\ (\A j \in 1 .. k - 1 : j \notin I) /\ k \in 1 .. Len(Routes)
  BY <1>1, <1>2 DEF FirstRoute
<1> HIDE DEF I
<1> DEFINE r == Routes
<1>5. IsList(r) /\ k \in I /\ (\A j \in 1 .. k - 1 : j \notin I) /\ k \in 1 .. Len(r)
  BY <1>1, <1>4
<1> HIDE DEF r
<1>8. Kept(r, I) # <<>> /\ Kept(r, I)[1] = r[k]
  BY ONLY <1>5, KeptFirst
<1>6. to # <<>> /\ to[1] = Routes[k]
  BY <1>8 DEF r
<1> HIDE DEF to
<1>7. Served(db, request, segs, to) =
        Dispatched(db, request, Routes[k], Ids(Routes[k][2], segs), ParametersOf(request, Routes[k][4]))
  BY <1>6 DEF Served
<1> QED  BY <1>3, <1>7 DEF Answer

LEMMA Unrouted ==
  ASSUME NEW request, NEW segs, Split(request.target, "/") = segs,
         \A j \in 1 .. 38 : ~Matches(Routes[j][2], segs)
  PROVE  Answer(db, request) = NotFound
<1> DEFINE I == {j \in DOMAIN Routes : Matches(Routes[j][2], segs)}
           to == Kept(Routes, I)
<1>1. IsList(Routes) /\ Len(Routes) = 38
  BY RoutesAre
<1>2. DOMAIN Routes = 1 .. 38
  BY <1>1, ListIs
<1>3. RoutesTo(segs) = to
  BY DEF RoutesTo, Select
<1>4. I = {}
  BY <1>2
<1> HIDE DEF I
<1> DEFINE r == Routes
<1>5. IsList(r)
  BY <1>1
<1> HIDE DEF r
<1>8. /\ IsList(Kept(r, I))
      /\ \A x : x \in ToSet(Kept(r, I)) <=> \E i \in 1 .. Len(r) : i \in I /\ x = r[i]
  BY ONLY <1>5, KeptIs
<1>6. IsList(to) /\ \A x : x \notin ToSet(to)
  BY <1>4, <1>8 DEF r
<1> HIDE DEF to
<1>7. to = <<>>
  BY <1>6, NoneIn
<1> QED  BY <1>3, <1>7 DEF Answer, Served

\* A request that gives a route what it needs is answered by its handler.
Sendable(params, fields) ==
  /\ Passable(params) /\ DOMAIN params \subseteq fields
  /\ "q" \in fields => "q" \in DOMAIN params

LEMMA GetAnswered ==
  ASSUME NEW path, NEW segs, Split(Target(path), "/") = segs,
         NEW k \in 1 .. 38, FirstRoute(segs, k), Routes[k][1] = "GET",
         NEW params, Sendable(params, Routes[k][4])
  PROVE  LET ids == Ids(Routes[k][2], segs)
         IN  Answer(db, Get(path, params)) =
                IF ids = <<>> THEN OfAll(db, Routes[k][3], params)
                ELSE OfSession(db, Routes[k][3], ids[1], params)
<1> DEFINE request == Get(path, params)
           ids == Ids(Routes[k][2], segs)
           a == ParametersOf(request, Routes[k][4])
<1>1. request.method = "GET" /\ request.target = Target(path) /\ request.query = QueryString(params)
  BY DEF Get
<1> HIDE DEF request
<1>2. ~Refused(request.query, Routes[k][4]) /\ Extracted(request.query, Routes[k][4]) = params
  BY <1>1, Received DEF Sendable
<1>3. a = params
  BY <1>1, <1>2 DEF ParametersOf
<1>4. Answer(db, request) = Dispatched(db, request, Routes[k], ids, a)
  BY <1>1, Answered
<1> HIDE DEF a, ids
<1>5. Dispatched(db, request, Routes[k], ids, a) =
        IF ids = <<>> THEN OfAll(db, Routes[k][3], params)
        ELSE OfSession(db, Routes[k][3], ids[1], params)
  BY <1>1, <1>2, <1>3 DEF Dispatched, Sendable
<1> QED  BY <1>4, <1>5 DEF request, ids

(***************************************************************************)
(* What an endpoint answers to the client.                                 *)
(***************************************************************************)

LEMMA OfWord ==
  ASSUME NEW k \in 1 .. 38, NEW w \in PathWords, NEW name, NEW fields,
         Routes[k] = <<"GET", <<"v1", w>>, name, fields>>,
         \A j \in 1 .. k - 1 : ~MatchTwo(j, <<w>>),
         NEW params, Sendable(params, fields)
  PROVE  Answer(db, Get(Path(<<w>>), params)) = OfAll(db, name, params)
<1> DEFINE segs == << <<"v1">>, <<w>> >>
           a == <<"v1", w>>
<1>1. Routes[k][1] = "GET" /\ Routes[k][2] = a /\ Routes[k][3] = name /\ Routes[k][4] = fields
  OBVIOUS
<1>2. Split(Target(Path(<<w>>)), "/") = segs
  BY <1>1, TwoSent
<1>3. w # Hole /\ "v1" # Hole
  <2>1. "v1" \in PathWords
    BY DEF PathWords
  <2> QED  BY <2>1, WordStands
<1>4. Matches(a, segs)
  BY TwoMatch, WordStands
<1>5. ASSUME NEW j \in 1 .. k - 1
      PROVE  ~Matches(Routes[j][2], segs)
  <2>1. j \in 1 .. 38
    OBVIOUS
  <2> QED  BY <2>1, RoutesMatch
<1>6. IsList(a) /\ \A i \in 1 .. Len(a) : a[i] # Hole
  <2>1. a = [i \in 1 .. 2 |-> a[i]] /\ a[1] = "v1" /\ a[2] = w
    OBVIOUS
  <2> HIDE DEF a
  <2>2. IsList(a) /\ Len(a) = 2
    BY <2>1, ListFrom
  <2> QED  BY <1>3, <2>1, <2>2
<1> HIDE DEF segs, a
<1>7. FirstRoute(segs, k)
  BY <1>1, <1>4, <1>5 DEF FirstRoute
<1>8. Ids(Routes[k][2], segs) = <<>>
  BY <1>1, <1>6, NoIds
<1> QED  BY <1>1, <1>2, <1>7, <1>8, GetAnswered

LEMMA OfWords ==
  ASSUME NEW k \in 1 .. 38, NEW w \in PathWords, NEW x \in PathWords, NEW name, NEW fields,
         Routes[k] = <<"GET", <<"v1", w, x>>, name, fields>>,
         \A j \in 1 .. k - 1 : ~MatchThree(j, <<w>>, <<x>>),
         NEW params, Sendable(params, fields)
  PROVE  Answer(db, Get(Path(<<w, x>>), params)) = OfAll(db, name, params)
<1> DEFINE segs == << <<"v1">>, <<w>>, <<x>> >>
           a == <<"v1", w, x>>
<1>1. Routes[k][1] = "GET" /\ Routes[k][2] = a /\ Routes[k][3] = name /\ Routes[k][4] = fields
  OBVIOUS
<1>2. Split(Target(Path(<<w, x>>)), "/") = segs
  BY <1>1, ThreeSent
<1>3. w # Hole /\ x # Hole /\ "v1" # Hole
  <2>1. "v1" \in PathWords
    BY DEF PathWords
  <2> QED  BY <2>1, WordStands
<1>4. Matches(a, segs)
  BY ThreeMatch, WordStands
<1>5. ASSUME NEW j \in 1 .. k - 1
      PROVE  ~Matches(Routes[j][2], segs)
  <2>1. j \in 1 .. 38
    OBVIOUS
  <2> QED  BY <2>1, RoutesMatch
<1>6. IsList(a) /\ \A i \in 1 .. Len(a) : a[i] # Hole
  <2>1. a = [i \in 1 .. 3 |-> a[i]] /\ a[1] = "v1" /\ a[2] = w /\ a[3] = x
    OBVIOUS
  <2> HIDE DEF a
  <2>2. IsList(a) /\ Len(a) = 3
    BY <2>1, ListFrom
  <2> QED  BY <1>3, <2>1, <2>2
<1> HIDE DEF segs, a
<1>7. FirstRoute(segs, k)
  BY <1>1, <1>4, <1>5 DEF FirstRoute
<1>8. Ids(Routes[k][2], segs) = <<>>
  BY <1>1, <1>6, NoIds
<1> QED  BY <1>1, <1>2, <1>7, <1>8, GetAnswered

\* An id is received as it was sent, whatever its characters, unless it is
\* empty or the word of another route.
IdPath(w, id) == Path(<<w>>) \o <<id>>

\* The route of the ids after a word.
RouteOfIds(k, w, name, fields) ==
  k \in 1 .. 38 /\ w \in PathWords /\ Routes[k] = <<"GET", <<"v1", w, Hole>>, name, fields>>

\* No route before this one takes the id.
FirstFor(k, w, id) == \A j \in 1 .. k - 1 : ~MatchThree(j, <<w>>, urlencoded(id))

LEMMA OfId ==
  ASSUME NEW k, NEW w, NEW name, NEW fields, RouteOfIds(k, w, name, fields),
         NEW id, IsList(id), id # <<>>, FirstFor(k, w, id),
         NEW params, Sendable(params, fields)
  PROVE  Answer(db, Get(IdPath(w, id), params)) = OfSession(db, name, id, params)
<1> DEFINE segs == << <<"v1">>, <<w>>, urlencoded(id)>>
           a == <<"v1", w, Hole>>
<1>0. k \in 1 .. 38 /\ w \in PathWords /\ Routes[k] = <<"GET", a, name, fields>>
  BY DEF RouteOfIds
<1>1. Routes[k][1] = "GET" /\ Routes[k][2] = a /\ Routes[k][3] = name /\ Routes[k][4] = fields
  BY <1>0
<1>2. Split(Target(Path(<<w>>) \o <<id>>), "/") = segs
  BY <1>0, <1>1, IdSent
<1>3. w # Hole
  BY <1>0, WordStands
<1>4. Matches(a, segs)
  <2>1. Stands(w, <<w>>)
    BY <1>0, WordStands
  <2>2. Stands(Hole, urlencoded(id))
    BY EncodedIs, WordStands
  <2> QED  BY <2>1, <2>2, ThreeMatch
<1>5. ASSUME NEW j \in 1 .. k - 1
      PROVE  ~Matches(Routes[j][2], segs)
  <2>1. j \in 1 .. 38 /\ ~MatchThree(j, <<w>>, urlencoded(id))
    BY <1>0 DEF FirstFor
  <2> QED  BY <2>1, RoutesMatch
<1>6. Ids(a, segs) # <<>> /\ Ids(a, segs)[1] = PercentDecoded(urlencoded(id), FALSE)
  BY <1>3, IdOfThree
<1>7. PercentDecoded(urlencoded(id), FALSE) = id
  BY Decoded
<1> HIDE DEF segs, a
<1>8. FirstRoute(segs, k)
  BY <1>1, <1>4, <1>5 DEF FirstRoute
<1> QED  BY <1>0, <1>1, <1>2, <1>6, <1>7, <1>8, GetAnswered DEF IdPath

\* An empty id is not found.
LEMMA OfNoId ==
  ASSUME NEW k, NEW w, NEW name, NEW fields, RouteOfIds(k, w, name, fields), NEW params
  PROVE  Answer(db, Get(IdPath(w, <<>>), params)) = NotFound
<1> DEFINE id == <<>>
           segs == << <<"v1">>, <<w>>, urlencoded(id)>>
           request == Get(Path(<<w>>) \o <<id>>, params)
<1>0. k \in 1 .. 38 /\ w \in PathWords /\ Routes[k] = <<"GET", <<"v1", w, Hole>>, name, fields>>
  BY DEF RouteOfIds
<1>1. Routes[k][2] = <<"v1", w, Hole>>
  BY <1>0
<1>2. IsList(id) /\ urlencoded(id) = id
  BY NoElements, EncodedIs
<1>3. Split(Target(Path(<<w>>) \o <<id>>), "/") = segs
  BY <1>0, <1>1, <1>2, IdSent
<1>4. Split(request.target, "/") = segs
  BY <1>3 DEF Get
<1>5. ASSUME NEW j \in 1 .. 38
      PROVE  ~Matches(Routes[j][2], segs)
  <2>1. ~Stands(Hole, id) /\ \A p \in PathWords : ~Stands(p, id)
    BY WordStands
  <2>2. {"query", "tokens", "tools", "models", "versions", "drift", "record-type-drift", "search",
         "commits"} \subseteq PathWords
    BY DEF PathWords
  <2>3. ~MatchThree(j, <<w>>, id)
    BY <1>0, <2>1, <2>2 DEF MatchThree
  <2> QED  BY <1>2, <2>3, RoutesMatch
<1> HIDE DEF segs, request
<1>6. Answer(db, request) = NotFound
  BY <1>4, <1>5, Unrouted
<1> QED  BY <1>6 DEF request, IdPath

LEMMA TwoOnly ==
  ASSUME NEW j, NEW w \in PathWords, MatchTwo(j, <<w>>)
  PROVE  \/ j = 1 /\ w = "health"
         \/ j = 2 /\ w = "sessions"
         \/ j = 10 /\ w = "search"
         \/ j = 15 /\ w = "schema"
         \/ j = 19 /\ w = "projects"
         \/ j = 21 /\ w = "sql"
         \/ j = 22 /\ w = "files"
         \/ j = 28 /\ w = "git"
         \/ j = 33 /\ w = "attachments"
         \/ j = 35 /\ w = "hook-executions"
         \/ j = 36 /\ w = "plans"
<1>1. /\ "health" \in PathWords /\ "sessions" \in PathWords /\ "search" \in PathWords
      /\ "schema" \in PathWords /\ "projects" \in PathWords /\ "sql" \in PathWords
      /\ "files" \in PathWords /\ "git" \in PathWords /\ "attachments" \in PathWords
      /\ "hook-executions" \in PathWords /\ "plans" \in PathWords
  BY DEF PathWords
<1>2. \A p \in PathWords : Stands(p, <<w>>) => w = p
  <2> SUFFICES ASSUME NEW p \in PathWords, Stands(p, <<w>>)
               PROVE  w = p
    OBVIOUS
  <2>1. <<w>> = <<p>>
    BY WordStands
  <2>2. <<w>>[1] = w /\ <<p>>[1] = p
    OBVIOUS
  <2> QED  BY <2>1, <2>2
<1> QED  BY <1>1, <1>2 DEF MatchTwo

\* A path of three segments whose first word has no id is matched by the
\* words only.
LEMMA ThreeOnly ==
  ASSUME NEW j, NEW w \in PathWords, NEW y, MatchThree(j, <<w>>, y)
  PROVE  \/ j = 3 /\ w = "sessions"
         \/ j = 8 /\ w = "messages" /\ y = <<"query">>
         \/ j = 9 /\ w = "messages"
         \/ j = 11 /\ w = "analytics" /\ y = <<"tokens">>
         \/ j = 12 /\ w = "analytics" /\ y = <<"tools">>
         \/ j = 13 /\ w = "analytics" /\ y = <<"models">>
         \/ j = 14 /\ w = "export"
         \/ j = 16 /\ w = "schema" /\ y = <<"versions">>
         \/ j = 17 /\ w = "schema" /\ y = <<"drift">>
         \/ j = 18 /\ w = "schema" /\ y = <<"record-type-drift">>
         \/ j = 20 /\ w = "projects"
         \/ j = 23 /\ w = "files"
         \/ j = 24 /\ w = "files"
         \/ j = 25 /\ w = "files"
         \/ j = 29 /\ w = "git"
         \/ j = 31 /\ w = "artifacts"
         \/ j = 34 /\ w = "attachments"
         \/ j = 37 /\ w = "plans" /\ y = <<"search">>
         \/ j = 38 /\ w = "plans"
<1>1. /\ "sessions" \in PathWords /\ "messages" \in PathWords /\ "query" \in PathWords
      /\ "analytics" \in PathWords /\ "tokens" \in PathWords /\ "tools" \in PathWords
      /\ "models" \in PathWords /\ "export" \in PathWords /\ "schema" \in PathWords
      /\ "versions" \in PathWords /\ "drift" \in PathWords /\ "record-type-drift" \in PathWords
      /\ "projects" \in PathWords /\ "files" \in PathWords /\ "git" \in PathWords
      /\ "artifacts" \in PathWords /\ "attachments" \in PathWords /\ "plans" \in PathWords
      /\ "search" \in PathWords
  BY DEF PathWords
<1>2. \A p \in PathWords : Stands(p, <<w>>) => w = p
  <2> SUFFICES ASSUME NEW p \in PathWords, Stands(p, <<w>>)
               PROVE  w = p
    OBVIOUS
  <2>1. <<w>> = <<p>>
    BY WordStands
  <2>2. <<w>>[1] = w /\ <<p>>[1] = p
    OBVIOUS
  <2> QED  BY <2>1, <2>2
<1>3. \A p \in PathWords : Stands(p, y) => y = <<p>>
  BY WordStands
<1> QED  BY <1>1, <1>2, <1>3 DEF MatchThree

\* The endpoints that the client asks, without an id.
LEMMA Endpoints ==
  ASSUME NEW params
  PROVE  /\ Sendable(params, SessionsParams) =>
              Answer(db, Get(Path(<<"sessions">>), params)) = sessions_list(db, params)
         /\ Sendable(params, SearchParams) =>
              Answer(db, Get(Path(<<"search">>), params)) = search_search(db, params)
         /\ Sendable(params, FilesParams) =>
              Answer(db, Get(Path(<<"files">>), params)) = files_list(db, params)
         /\ Sendable(params, GitParams) =>
              Answer(db, Get(Path(<<"git">>), params)) = git_list(db, params)
         /\ Sendable(params, AttachmentsParams) =>
              Answer(db, Get(Path(<<"attachments">>), params)) = attachments_api_list(db, params)
         /\ Sendable(params, HookExecutionsParams) =>
              Answer(db, Get(Path(<<"hook-executions">>), params)) = hook_executions_api_list(db, params)
         /\ Sendable(params, PlansListParams) =>
              Answer(db, Get(Path(<<"plans">>), params)) = plans_api_list(db, params)
<1>0. {"sessions", "search", "files", "git", "attachments", "hook-executions", "plans"} \subseteq PathWords
  BY DEF PathWords
<1>1. Sendable(params, SessionsParams) => Answer(db, Get(Path(<<"sessions">>), params)) = sessions_list(db, params)
  <2>1. Routes[2] = <<"GET", <<"v1", "sessions">>, "sessions", SessionsParams>>
    BY RoutesAre
  <2>2. \A j \in 1 .. 2 - 1 : ~MatchTwo(j, <<"sessions">>)
    BY <1>0, TwoOnly
  <2>3. OfAll(db, "sessions", params) = sessions_list(db, params)
    BY DEF OfAll
  <2> QED  BY <1>0, <2>1, <2>2, <2>3, OfWord
<1>2. Sendable(params, SearchParams) => Answer(db, Get(Path(<<"search">>), params)) = search_search(db, params)
  <2>1. Routes[10] = <<"GET", <<"v1", "search">>, "search", SearchParams>>
    BY RoutesAre
  <2>2. \A j \in 1 .. 10 - 1 : ~MatchTwo(j, <<"search">>)
    BY <1>0, TwoOnly
  <2>3. OfAll(db, "search", params) = search_search(db, params)
    BY DEF OfAll
  <2> QED  BY <1>0, <2>1, <2>2, <2>3, OfWord
<1>3. Sendable(params, FilesParams) => Answer(db, Get(Path(<<"files">>), params)) = files_list(db, params)
  <2>1. Routes[22] = <<"GET", <<"v1", "files">>, "files", FilesParams>>
    BY RoutesAre
  <2>2. \A j \in 1 .. 22 - 1 : ~MatchTwo(j, <<"files">>)
    BY <1>0, TwoOnly
  <2>3. OfAll(db, "files", params) = files_list(db, params)
    BY DEF OfAll
  <2> QED  BY <1>0, <2>1, <2>2, <2>3, OfWord
<1>4. Sendable(params, GitParams) => Answer(db, Get(Path(<<"git">>), params)) = git_list(db, params)
  <2>1. Routes[28] = <<"GET", <<"v1", "git">>, "git", GitParams>>
    BY RoutesAre
  <2>2. \A j \in 1 .. 28 - 1 : ~MatchTwo(j, <<"git">>)
    BY <1>0, TwoOnly
  <2>3. OfAll(db, "git", params) = git_list(db, params)
    BY DEF OfAll
  <2> QED  BY <1>0, <2>1, <2>2, <2>3, OfWord
<1>5. Sendable(params, AttachmentsParams) => Answer(db, Get(Path(<<"attachments">>), params)) = attachments_api_list(db, params)
  <2>1. Routes[33] = <<"GET", <<"v1", "attachments">>, "attachments", AttachmentsParams>>
    BY RoutesAre
  <2>2. \A j \in 1 .. 33 - 1 : ~MatchTwo(j, <<"attachments">>)
    BY <1>0, TwoOnly
  <2>3. OfAll(db, "attachments", params) = attachments_api_list(db, params)
    BY DEF OfAll
  <2> QED  BY <1>0, <2>1, <2>2, <2>3, OfWord
<1>6. Sendable(params, HookExecutionsParams) => Answer(db, Get(Path(<<"hook-executions">>), params)) = hook_executions_api_list(db, params)
  <2>1. Routes[35] = <<"GET", <<"v1", "hook-executions">>, "hook_executions", HookExecutionsParams>>
    BY RoutesAre
  <2>2. \A j \in 1 .. 35 - 1 : ~MatchTwo(j, <<"hook-executions">>)
    BY <1>0, TwoOnly
  <2>3. OfAll(db, "hook_executions", params) = hook_executions_api_list(db, params)
    BY DEF OfAll
  <2> QED  BY <1>0, <2>1, <2>2, <2>3, OfWord
<1>7. Sendable(params, PlansListParams) => Answer(db, Get(Path(<<"plans">>), params)) = plans_api_list(db, params)
  <2>1. Routes[36] = <<"GET", <<"v1", "plans">>, "plans", PlansListParams>>
    BY RoutesAre
  <2>2. \A j \in 1 .. 36 - 1 : ~MatchTwo(j, <<"plans">>)
    BY <1>0, TwoOnly
  <2>3. OfAll(db, "plans", params) = plans_api_list(db, params)
    BY DEF OfAll
  <2> QED  BY <1>0, <2>1, <2>2, <2>3, OfWord
<1> QED  BY <1>1, <1>2, <1>3, <1>4, <1>5, <1>6, <1>7

LEMMA WordEndpoints ==
  ASSUME NEW params
  PROVE  /\ Sendable(params, TokensParams) =>
              Answer(db, Get(Path(<<"analytics", "tokens">>), params)) = analytics_tokens(db, params)
         /\ Sendable(params, {}) =>
              Answer(db, Get(Path(<<"analytics", "tools">>), params)) = analytics_tools(db)
         /\ Sendable(params, {}) =>
              Answer(db, Get(Path(<<"analytics", "models">>), params)) = analytics_models(db)
         /\ Sendable(params, VersionsParams) =>
              Answer(db, Get(Path(<<"schema", "versions">>), params)) = schema_versions(db, params)
         /\ Sendable(params, DriftParams) =>
              Answer(db, Get(Path(<<"schema", "drift">>), params)) = schema_drift(db, params)
         /\ Sendable(params, RecordTypeDriftParams) =>
              Answer(db, Get(Path(<<"schema", "record-type-drift">>), params)) = schema_record_type_drift(db, params)
<1>0. {"analytics", "tokens", "tools", "models", "schema", "versions", "drift", "record-type-drift"}
        \subseteq PathWords
  BY DEF PathWords
<1>1. Sendable(params, TokensParams) => Answer(db, Get(Path(<<"analytics", "tokens">>), params)) = analytics_tokens(db, params)
  <2>1. Routes[11] = <<"GET", <<"v1", "analytics", "tokens">>, "tokens", TokensParams>>
    BY RoutesAre
  <2>2. \A p \in PathWords : <<"tokens">> = <<p>> => p = "tokens"
    OBVIOUS
  <2>3. \A j \in 1 .. 11 - 1 : ~MatchThree(j, <<"analytics">>, <<"tokens">>)
    BY <1>0, <2>2, ThreeOnly
  <2>4. OfAll(db, "tokens", params) = analytics_tokens(db, params)
    BY DEF OfAll
  <2> QED  BY <1>0, <2>1, <2>3, <2>4, OfWords
<1>2. Sendable(params, {}) => Answer(db, Get(Path(<<"analytics", "tools">>), params)) = analytics_tools(db)
  <2> DEFINE f == {}
  <2>1. Routes[12] = <<"GET", <<"v1", "analytics", "tools">>, "tools", f>>
    BY RoutesAre
  <2>2. \A p \in PathWords : <<"tools">> = <<p>> => p = "tools"
    OBVIOUS
  <2>3. \A j \in 1 .. 12 - 1 : ~MatchThree(j, <<"analytics">>, <<"tools">>)
    BY <1>0, <2>2, ThreeOnly
  <2>4. OfAll(db, "tools", params) = analytics_tools(db)
    BY DEF OfAll
  <2> HIDE DEF f
  <2>5. Sendable(params, f) => Answer(db, Get(Path(<<"analytics", "tools">>), params)) = OfAll(db, "tools", params)
    BY <1>0, <2>1, <2>3, OfWords
  <2> QED  BY <2>4, <2>5 DEF f
<1>3. Sendable(params, {}) => Answer(db, Get(Path(<<"analytics", "models">>), params)) = analytics_models(db)
  <2> DEFINE f == {}
  <2>1. Routes[13] = <<"GET", <<"v1", "analytics", "models">>, "models", f>>
    BY RoutesAre
  <2>2. \A p \in PathWords : <<"models">> = <<p>> => p = "models"
    OBVIOUS
  <2>3. \A j \in 1 .. 13 - 1 : ~MatchThree(j, <<"analytics">>, <<"models">>)
    BY <1>0, <2>2, ThreeOnly
  <2>4. OfAll(db, "models", params) = analytics_models(db)
    BY DEF OfAll
  <2> HIDE DEF f
  <2>5. Sendable(params, f) => Answer(db, Get(Path(<<"analytics", "models">>), params)) = OfAll(db, "models", params)
    BY <1>0, <2>1, <2>3, OfWords
  <2> QED  BY <2>4, <2>5 DEF f
<1>4. Sendable(params, VersionsParams) => Answer(db, Get(Path(<<"schema", "versions">>), params)) = schema_versions(db, params)
  <2>1. Routes[16] = <<"GET", <<"v1", "schema", "versions">>, "versions", VersionsParams>>
    BY RoutesAre
  <2>2. \A p \in PathWords : <<"versions">> = <<p>> => p = "versions"
    OBVIOUS
  <2>3. \A j \in 1 .. 16 - 1 : ~MatchThree(j, <<"schema">>, <<"versions">>)
    BY <1>0, <2>2, ThreeOnly
  <2>4. OfAll(db, "versions", params) = schema_versions(db, params)
    BY DEF OfAll
  <2> QED  BY <1>0, <2>1, <2>3, <2>4, OfWords
<1>5. Sendable(params, DriftParams) => Answer(db, Get(Path(<<"schema", "drift">>), params)) = schema_drift(db, params)
  <2>1. Routes[17] = <<"GET", <<"v1", "schema", "drift">>, "drift", DriftParams>>
    BY RoutesAre
  <2>2. \A p \in PathWords : <<"drift">> = <<p>> => p = "drift"
    OBVIOUS
  <2>3. \A j \in 1 .. 17 - 1 : ~MatchThree(j, <<"schema">>, <<"drift">>)
    BY <1>0, <2>2, ThreeOnly
  <2>4. OfAll(db, "drift", params) = schema_drift(db, params)
    BY DEF OfAll
  <2> QED  BY <1>0, <2>1, <2>3, <2>4, OfWords
<1>6. Sendable(params, RecordTypeDriftParams) => Answer(db, Get(Path(<<"schema", "record-type-drift">>), params)) = schema_record_type_drift(db, params)
  <2>1. Routes[18] = <<"GET", <<"v1", "schema", "record-type-drift">>, "type_drift", RecordTypeDriftParams>>
    BY RoutesAre
  <2>2. \A p \in PathWords : <<"record-type-drift">> = <<p>> => p = "record-type-drift"
    OBVIOUS
  <2>3. \A j \in 1 .. 18 - 1 : ~MatchThree(j, <<"schema">>, <<"record-type-drift">>)
    BY <1>0, <2>2, ThreeOnly
  <2>4. OfAll(db, "type_drift", params) = schema_record_type_drift(db, params)
    BY DEF OfAll
  <2> QED  BY <1>0, <2>1, <2>3, <2>4, OfWords
<1> QED  BY <1>1, <1>2, <1>3, <1>4, <1>5, <1>6

\* The members of a body are received as they are.
LEMMA PostAnswered ==
  ASSUME NEW a, a = [n \in DOMAIN a |-> a[n]], DOMAIN a \subseteq MessageQuery
  PROVE  Answer(db, Post(Path(<<"messages", "query">>), a)) = messages_query(db, a)
<1> DEFINE path == Path(<<"messages", "query">>)
           request == Post(path, a)
           segs == << <<"v1">>, <<"messages">>, <<"query">> >>
           p == <<"v1", "messages", "query">>
           to == ParametersOf(request, MessageQuery)
<1>0. "messages" \in PathWords /\ "query" \in PathWords /\ "v1" \in PathWords
  BY DEF PathWords
<1>1. Routes[8] = <<"POST", p, "messages", MessageQuery>>
  BY RoutesAre
<1>2. Routes[8][1] = "POST" /\ Routes[8][2] = p /\ Routes[8][3] = "messages" /\ Routes[8][4] = MessageQuery
  BY <1>1
<1>3. Split(Target(path), "/") = segs
  BY <1>0, <1>2, ThreeSent
<1>4. request.method = "POST" /\ request.body[1] = a /\ Split(request.target, "/") = segs
  BY <1>3 DEF Post, Some
<1>5. Matches(p, segs)
  BY <1>0, ThreeMatch, WordStands
<1>6. ASSUME NEW j \in 1 .. 8 - 1
      PROVE  ~Matches(Routes[j][2], segs)
  <2>1. ~MatchThree(j, <<"messages">>, <<"query">>) /\ j \in 1 .. 38
    BY <1>0, ThreeOnly
  <2> QED  BY <2>1, RoutesMatch
<1>7. IsList(p) /\ \A i \in 1 .. Len(p) : p[i] # Hole
  <2>1. p = [i \in 1 .. 3 |-> p[i]] /\ p[1] = "v1" /\ p[2] = "messages" /\ p[3] = "query"
    OBVIOUS
  <2> HIDE DEF p
  <2>2. IsList(p) /\ Len(p) = 3
    BY <2>1, ListFrom
  <2> QED  BY <1>0, <2>1, <2>2, WordStands
<1> HIDE DEF segs, p, request
<1>8. FirstRoute(segs, 8)
  BY <1>2, <1>5, <1>6 DEF FirstRoute
<1>9. Ids(Routes[8][2], segs) = <<>>
  BY <1>2, <1>7, NoIds
<1>10. to = a
  <2>1. to = [n \in DOMAIN a \cap MessageQuery |-> a[n]]
    BY <1>4 DEF ParametersOf, Columns
  <2>2. DOMAIN a \cap MessageQuery = DOMAIN a
    OBVIOUS
  <2> QED  BY <2>1, <2>2
<1>11. Answer(db, request) = Dispatched(db, request, Routes[8], <<>>, to)
  BY <1>2, <1>4, <1>8, <1>9, Answered
<1>12. "q" \notin MessageQuery
  BY DEF MessageQuery
<1> HIDE DEF to
<1>13. Dispatched(db, request, Routes[8], <<>>, to) = OfAll(db, "messages", a)
  BY <1>2, <1>4, <1>10, <1>12 DEF Dispatched
<1>14. OfAll(db, "messages", a) = messages_query(db, a)
  BY DEF OfAll
<1> QED  BY <1>11, <1>13, <1>14 DEF request

\* An id that is encoded as a word is that word.
LEMMA WordOnly ==
  ASSUME NEW id, IsList(id), urlencoded(id) = <<"search">>
  PROVE  id = Word("search")
<1> DEFINE w == Word("search")
<1>1. urlencoded(w) = <<"search">>
  <2>1. Routes[37] = <<"GET", <<"v1", "plans", "search">>, "plans_search", PlansSearchParams>>
    BY RoutesAre
  <2>2. 3 \in DOMAIN Routes[37][2] /\ Routes[37][2][3] = "search"
    BY <2>1
  <2>3. "search" \in PathWords
    BY DEF PathWords
  <2> QED  BY <2>2, <2>3, WordSent, WordStands
<1>2. IsList(w)
  BY OneElement DEF Word
<1>3. PercentDecoded(urlencoded(w), FALSE) = w /\ PercentDecoded(urlencoded(id), FALSE) = id
  BY <1>2, Decoded
<1> QED  BY <1>1, <1>3

\* The endpoints that the client asks with an id.
LEMMA IdEndpoints ==
  ASSUME NEW id, IsList(id), id # <<>>, NEW params
  PROVE  /\ Sendable(params, ExportParams) =>
              Answer(db, Get(IdPath("export", id), params)) = export_handler(db, id, params)
         /\ Sendable(params, {}) =>
              Answer(db, Get(IdPath("artifacts", id), params)) = artifacts_session(db, id)
         /\ Sendable(params, {}) =>
              Answer(db, Get(IdPath("attachments", id), params)) = attachments_api_show(db, id)
         /\ Sendable(params, {}) /\ id # Word("search") =>
              Answer(db, Get(IdPath("plans", id), params)) = plans_api_show(db, id)
<1>0. /\ "export" \in PathWords /\ "artifacts" \in PathWords /\ "attachments" \in PathWords
      /\ "plans" \in PathWords
  BY DEF PathWords
<1>1. ASSUME Sendable(params, ExportParams)
      PROVE  Answer(db, Get(IdPath("export", id), params)) = export_handler(db, id, params)
  <2> DEFINE f == ExportParams
  <2>1. RouteOfIds(14, "export", "export", f)
    <3>1. Routes[14] = <<"GET", <<"v1", "export", Hole>>, "export", f>>
      BY RoutesAre
    <3> QED  BY <1>0, <3>1 DEF RouteOfIds
  <2>2. FirstFor(14, "export", id)
    BY <1>0, <1>1, ThreeOnly DEF FirstFor
  <2>3. OfSession(db, "export", id, params) = export_handler(db, id, params)
    BY DEF OfSession, WithNumber
  <2>4. Sendable(params, f)
    BY <1>1
  <2> HIDE DEF f
  <2> QED  BY <2>1, <2>2, <2>3, <2>4, OfId
<1>2. ASSUME Sendable(params, {})
      PROVE  Answer(db, Get(IdPath("artifacts", id), params)) = artifacts_session(db, id)
  <2> DEFINE f == {}
  <2>1. RouteOfIds(31, "artifacts", "artifacts", f)
    <3>1. Routes[31] = <<"GET", <<"v1", "artifacts", Hole>>, "artifacts", f>>
      BY RoutesAre
    <3> QED  BY <1>0, <3>1 DEF RouteOfIds
  <2>2. FirstFor(31, "artifacts", id)
    BY <1>0, <1>2, ThreeOnly DEF FirstFor
  <2>3. OfSession(db, "artifacts", id, params) = artifacts_session(db, id)
    BY DEF OfSession, WithNumber
  <2>4. Sendable(params, f)
    BY <1>2
  <2> HIDE DEF f
  <2> QED  BY <2>1, <2>2, <2>3, <2>4, OfId
<1>3. ASSUME Sendable(params, {})
      PROVE  Answer(db, Get(IdPath("attachments", id), params)) = attachments_api_show(db, id)
  <2> DEFINE f == {}
  <2>1. RouteOfIds(34, "attachments", "attachment", f)
    <3>1. Routes[34] = <<"GET", <<"v1", "attachments", Hole>>, "attachment", f>>
      BY RoutesAre
    <3> QED  BY <1>0, <3>1 DEF RouteOfIds
  <2>2. FirstFor(34, "attachments", id)
    BY <1>0, <1>3, ThreeOnly DEF FirstFor
  <2>3. OfSession(db, "attachment", id, params) = attachments_api_show(db, id)
    BY DEF OfSession, WithNumber
  <2>4. Sendable(params, f)
    BY <1>3
  <2> HIDE DEF f
  <2> QED  BY <2>1, <2>2, <2>3, <2>4, OfId
<1>4. ASSUME Sendable(params, {}), id # Word("search")
      PROVE  Answer(db, Get(IdPath("plans", id), params)) = plans_api_show(db, id)
  <2> DEFINE f == {}
  <2>1. RouteOfIds(38, "plans", "plan", f)
    <3>1. Routes[38] = <<"GET", <<"v1", "plans", Hole>>, "plan", f>>
      BY RoutesAre
    <3> QED  BY <1>0, <3>1 DEF RouteOfIds
  <2>2. FirstFor(38, "plans", id)
    BY <1>0, <1>4, ThreeOnly, WordOnly DEF FirstFor
  <2>3. OfSession(db, "plan", id, params) = plans_api_show(db, id)
    BY DEF OfSession, WithNumber
  <2>4. Sendable(params, f)
    BY <1>4
  <2> HIDE DEF f
  <2> QED  BY <2>1, <2>2, <2>3, <2>4, OfId
<1> QED  BY <1>1, <1>2, <1>3, <1>4

LEMMA NoIdEndpoints ==
  ASSUME NEW params
  PROVE  /\ Answer(db, Get(IdPath("export", <<>>), params)) = NotFound
         /\ Answer(db, Get(IdPath("artifacts", <<>>), params)) = NotFound
         /\ Answer(db, Get(IdPath("attachments", <<>>), params)) = NotFound
         /\ Answer(db, Get(IdPath("plans", <<>>), params)) = NotFound
<1>0. /\ "export" \in PathWords /\ "artifacts" \in PathWords /\ "attachments" \in PathWords
      /\ "plans" \in PathWords
  BY DEF PathWords
<1>1. Answer(db, Get(IdPath("export", <<>>), params)) = NotFound
  <2> DEFINE f == ExportParams
  <2>1. RouteOfIds(14, "export", "export", f)
    <3>1. Routes[14] = <<"GET", <<"v1", "export", Hole>>, "export", f>>
      BY RoutesAre
    <3> QED  BY <1>0, <3>1 DEF RouteOfIds
  <2> HIDE DEF f
  <2> QED  BY <2>1, OfNoId
<1>2. Answer(db, Get(IdPath("artifacts", <<>>), params)) = NotFound
  <2> DEFINE f == {}
  <2>1. RouteOfIds(31, "artifacts", "artifacts", f)
    <3>1. Routes[31] = <<"GET", <<"v1", "artifacts", Hole>>, "artifacts", f>>
      BY RoutesAre
    <3> QED  BY <1>0, <3>1 DEF RouteOfIds
  <2> HIDE DEF f
  <2> QED  BY <2>1, OfNoId
<1>3. Answer(db, Get(IdPath("attachments", <<>>), params)) = NotFound
  <2> DEFINE f == {}
  <2>1. RouteOfIds(34, "attachments", "attachment", f)
    <3>1. Routes[34] = <<"GET", <<"v1", "attachments", Hole>>, "attachment", f>>
      BY RoutesAre
    <3> QED  BY <1>0, <3>1 DEF RouteOfIds
  <2> HIDE DEF f
  <2> QED  BY <2>1, OfNoId
<1>4. Answer(db, Get(IdPath("plans", <<>>), params)) = NotFound
  <2> DEFINE f == {}
  <2>1. RouteOfIds(38, "plans", "plan", f)
    <3>1. Routes[38] = <<"GET", <<"v1", "plans", Hole>>, "plan", f>>
      BY RoutesAre
    <3> QED  BY <1>0, <3>1 DEF RouteOfIds
  <2> HIDE DEF f
  <2> QED  BY <2>1, OfNoId
<1> QED  BY <1>1, <1>2, <1>3, <1>4

\* The plans of a session called "search" are taken for a search of plans
\* without the text to search for.
LEMMA SearchRefused ==
  Answer(db, Get(IdPath("plans", Word("search")), <<>>)) = BadRequest
<1> DEFINE id == Word("search")
           params == <<>>
           request == Get(IdPath("plans", id), params)
           segs == << <<"v1">>, <<"plans">>, urlencoded(id)>>
<1>0. "plans" \in PathWords /\ "search" \in PathWords
  BY DEF PathWords
<1>1. Routes[37] = <<"GET", <<"v1", "plans", "search">>, "plans_search", PlansSearchParams>>
  BY RoutesAre
<1>2. /\ Routes[37][1] = "GET" /\ Routes[37][2] = <<"v1", "plans", "search">>
      /\ Routes[37][4] = PlansSearchParams /\ 3 \in DOMAIN Routes[37][2] /\ Routes[37][2][3] = "search"
  BY <1>1
<1>3. IsList(id)
  BY OneElement DEF Word
<1>4. urlencoded(id) = <<"search">>
  BY <1>0, <1>2, WordSent, WordStands
<1>5. Split(Target(Path(<<"plans">>) \o <<id>>), "/") = segs
  <2> DEFINE f == {}
  <2>1. RouteOfIds(38, "plans", "plan", f)
    <3>1. Routes[38] = <<"GET", <<"v1", "plans", Hole>>, "plan", f>>
      BY RoutesAre
    <3> QED  BY <1>0, <3>1 DEF RouteOfIds
  <2>2. Routes[38][2] = <<"v1", "plans", Hole>>
    BY <2>1 DEF RouteOfIds
  <2> QED  BY <1>0, <1>3, <2>2, IdSent
<1>6. Split(request.target, "/") = segs /\ request.method = "GET" /\ request.query = QueryString(params)
  BY <1>5 DEF Get, IdPath
<1>7. Matches(Routes[37][2], segs)
  BY <1>0, <1>2, <1>4, ThreeMatch, WordStands
<1>8. ASSUME NEW j \in 1 .. 37 - 1
      PROVE  ~Matches(Routes[j][2], segs)
  <2>1. ~MatchThree(j, <<"plans">>, urlencoded(id)) /\ j \in 1 .. 38
    BY <1>0, ThreeOnly
  <2> QED  BY <2>1, RoutesMatch
<1>9. Passable(params)
  BY DEF Passable
<1> HIDE DEF segs, request, params, id
<1>10. FirstRoute(segs, 37)
  BY <1>7, <1>8 DEF FirstRoute
<1> DEFINE to == ParametersOf(request, PlansSearchParams)
<1>11. Answer(db, request) = Dispatched(db, request, Routes[37], Ids(Routes[37][2], segs), to)
  BY <1>2, <1>6, <1>10, Answered
<1>12. DOMAIN Pairs(QueryString(params)) = DOMAIN params
  BY <1>9, Paired
<1>13. DOMAIN to = {} /\ "q" \in PlansSearchParams
  <2>1. DOMAIN params = {}
    BY DEF params
  <2>2. to = Extracted(QueryString(params), PlansSearchParams)
    BY <1>6 DEF ParametersOf
  <2>3. DOMAIN to = {} \cap PlansSearchParams
    BY <1>12, <2>1, <2>2 DEF Extracted
  <2> QED  BY <2>3 DEF PlansSearchParams
<1> HIDE DEF to
<1>14. Dispatched(db, request, Routes[37], Ids(Routes[37][2], segs), to) = BadRequest
  BY <1>2, <1>6, <1>13 DEF Dispatched
<1> QED  BY <1>11, <1>14 DEF request, params, id

(***************************************************************************)
(* A command with a daemon and without.                                    *)
(***************************************************************************)

\* A daemon that serves the database, and replied to the command's requests.
AsksDaemon(on, command, a) ==
  /\ on.daemon = TRUE /\ on.db = db
  /\ on.replies = [i \in DOMAIN RequestsOf(command, a) |-> Requested(db, RequestsOf(command, a)[i])]

\* The command's own connection to it.
AsksStore(off) == off.daemon = FALSE /\ off.db = db

LEMMA ModesAre ==
  ASSUME NEW command, NEW a
  PROVE  \E on, off :
            /\ AsksDaemon(on, command, a) /\ main(Online, None, command, a) = Run(Online, on, command, a)
            /\ AsksStore(off) /\ main(Offline, None, command, a) = Run(Offline, off, command, a)
<1> DEFINE there == [daemon |-> TRUE, db |-> db]
           own   == [daemon |-> FALSE, db |-> db]
           R     == RequestsOf(command, a)
           on    == With(there, [replies |-> RepliesTo(there, command, a)])
           off   == With(own, [replies |-> RepliesTo(own, command, a)])
<1>1. resolve_connection_mode(Online, None) = Ok(there)
  <2>1. Online.served = <<"home">> /\ Online.dbs["home"] = db
    BY DEF Online, Some
  <2>2. Online.served # None /\ Online.served[1] = "home"
    BY <2>1 DEF None
  <2> QED  BY <2>1, <2>2 DEF resolve_connection_mode
<1>2. resolve_connection_mode(Offline, None) = Ok(own)
  <2>1. /\ Offline.served = None /\ Offline.default = "home" /\ Offline.dbs["home"] = db
        /\ "home" \in DOMAIN Offline.dbs
    BY DEF Offline
  <2>2. resolve_db_path(Offline, None) = "home"
    BY <2>1 DEF resolve_db_path
  <2>3. init_db(Offline, "home") = db
    BY <2>1 DEF init_db
  <2> QED  BY <2>1, <2>2, <2>3 DEF resolve_connection_mode
<1>3. /\ there.daemon = TRUE /\ there.db = db /\ DOMAIN there = {"daemon", "db"}
      /\ own.daemon = FALSE /\ own.db = db /\ DOMAIN own = {"daemon", "db"}
  OBVIOUS
<1>4. RepliesTo(there, command, a) = [i \in DOMAIN R |-> Requested(db, R[i])]
  BY <1>3, Zenon DEF RepliesTo, Each
<1>5. main(Online, None, command, a) = Run(Online, on, command, a)
  <2>1. Ok(there).ok /\ Ok(there).value = there
    BY DEF Ok
  <2> HIDE DEF there, on
  <2> QED  BY <1>1, <2>1 DEF main, InMode, on
<1>6. main(Offline, None, command, a) = Run(Offline, off, command, a)
  <2>1. Ok(own).ok /\ Ok(own).value = own
    BY DEF Ok
  <2> HIDE DEF own, off
  <2> QED  BY <1>2, <2>1 DEF main, InMode, off
<1>7. AsksDaemon(on, command, a)
  <2> DEFINE replies == RepliesTo(there, command, a)
  <2> HIDE DEF there, replies
  <2>1. With(there, [replies |-> replies]) =
          [n \in {"daemon", "db", "replies"} |->
              IF n \in {"daemon", "db"} THEN there[n] ELSE [replies |-> replies][n]]
    BY <1>3 DEF With
  <2>2. LET r == With(there, [replies |-> replies])
        IN  r.daemon = TRUE /\ r.db = db /\ r.replies = replies
    BY <1>3, <2>1
  <2> QED  BY <1>4, <2>2 DEF AsksDaemon, replies
<1>8. AsksStore(off)
  <2> DEFINE replies == RepliesTo(own, command, a)
  <2> HIDE DEF own, replies
  <2>1. With(own, [replies |-> replies]) =
          [n \in {"daemon", "db", "replies"} |->
              IF n \in {"daemon", "db"} THEN own[n] ELSE [replies |-> replies][n]]
    BY <1>3 DEF With
  <2>2. LET r == With(own, [replies |-> replies])
        IN  r.daemon = FALSE /\ r.db = db
    BY <1>3, <2>1
  <2> QED  BY <2>2 DEF AsksStore, replies
<1> HIDE DEF on, off
<1> QED  BY <1>5, <1>6, <1>7, <1>8

LEMMA FirstReply ==
  ASSUME NEW on, NEW command, NEW a, AsksDaemon(on, command, a),
         NEW request, RequestsOf(command, a) = <<request>>
  PROVE  on.replies[1] = ReplyOf(Answer(db, request))
<1>1. 1 \in DOMAIN RequestsOf(command, a) /\ RequestsOf(command, a)[1] = request
  OBVIOUS
<1> QED  BY <1>1 DEF AsksDaemon, Requested

\* What a handler found is what is printed, as the same that the command's own
\* connection found.
LEMMA SameFound ==
  ASSUME NEW on, on.daemon = TRUE, NEW off, off.daemon = FALSE,
         NEW x, on.replies[1] = ReplyOf(Json(x)), NEW y
  PROVE  Asked(on, y) = Ok(x) /\ Asked(off, x) = Ok(x)
  BY DEF Asked, ReplyOf, Json

LEMMA SentAll ==
  ASSUME NEW a, a = [n \in DOMAIN a |-> a[n]], NEW S, DOMAIN a \subseteq S
  PROVE  Sent(a, S) = a
<1>1. DOMAIN a \cap S = DOMAIN a
  OBVIOUS
<1> QED  BY <1>1 DEF Sent, Columns

LEMMA PushedNames ==
  {"q", "project", "group_by", "session_id", "path", "inner_type", "tool_use_id", "hook_event",
   "exit_code", "operation_type", "record_type", "type_name", "version", "since", "after", "before",
   "has_plan", "format", "diff", "at", "limit", "offset"} \subseteq ToSet(Pushed)
  BY DEF Pushed, ToSet

\* The arguments of a command are what its request may send.
LEMMA ArgumentsSent ==
  ASSUME NEW command, NEW a, Parsed(command, a), NEW S, DOMAIN a \subseteq S, S \subseteq ToSet(Pushed),
         "q" \in S => "q" \in DOMAIN a
  PROVE  Sent(a, S) = a /\ Sendable(a, S)
<1>1. a = [n \in DOMAIN a |-> a[n]] /\ \A n \in DOMAIN a : OfItsType(n, a[n])
  BY DEF Parsed
<1> QED  BY <1>1, SentAll DEF Sendable, Passable

LEMMA SessionsAlike ==
  ASSUME NEW a, Parsed("sessions", a), NEW on, AsksDaemon(on, "sessions", a), NEW off, AsksStore(off)
  PROVE  Run(Online, on, "sessions", a) = Run(Offline, off, "sessions", a)
<1> DEFINE S == {"project", "after", "before", "has_plan", "limit"}
           x == list_sessions(db, a, a["limit"])
<1>1. "limit" \in DOMAIN a /\ DOMAIN a \subseteq S
  BY DEF Parsed, Always, Perhaps
<1>2. S = SessionsParams /\ S \subseteq ToSet(Pushed) /\ "q" \notin S
  BY PushedNames DEF SessionsParams
<1>3. RequestsOf("sessions", a) = <<client_sessions(a)>>
  BY DEF RequestsOf
<1>4. client_sessions(a) = Get(Path(<<"sessions">>), Sent(a, S))
  BY DEF client_sessions
<1> HIDE DEF S
<1>5. Sent(a, S) = a /\ Sendable(a, SessionsParams)
  BY <1>1, <1>2, ArgumentsSent
<1>6. Answer(db, Get(Path(<<"sessions">>), a)) = sessions_list(db, a)
  BY <1>5, Endpoints
<1>7. sessions_list(db, a) = Json(x)
  BY <1>1 DEF sessions_list, LimitOf
<1> HIDE DEF x
<1>8. on.replies[1] = ReplyOf(Json(x))
  BY <1>3, <1>4, <1>5, <1>6, <1>7, FirstReply
<1>9. on.daemon = TRUE /\ on.db = db /\ off.daemon = FALSE /\ off.db = db
  BY DEF AsksDaemon, AsksStore
<1>10. Asked(on, x) = Ok(x) /\ Asked(off, x) = Ok(x)
  BY <1>8, <1>9, SameFound
<1>11. run_sessions(on, a) = run_sessions(off, a)
  BY <1>9, <1>10 DEF run_sessions, x
<1> QED  BY <1>11 DEF Run

LEMMA FilesAlike ==
  ASSUME NEW a, Parsed("files", a), NEW on, AsksDaemon(on, "files", a), NEW off, AsksStore(off)
  PROVE  Run(Online, on, "files", a) = Run(Offline, off, "files", a)
<1> DEFINE S == {"session_id", "path", "project", "limit"}
           x == list_files(db, ContainsPath(a), a["limit"])
<1>1. "limit" \in DOMAIN a /\ DOMAIN a \subseteq S
  BY DEF Parsed, Always, Perhaps
<1>2. S = FilesParams /\ S \subseteq ToSet(Pushed) /\ "q" \notin S
  BY PushedNames DEF FilesParams
<1>3. RequestsOf("files", a) = <<client_files(a)>>
  BY DEF RequestsOf
<1>4. client_files(a) = Get(Path(<<"files">>), Sent(a, S))
  BY DEF client_files
<1> HIDE DEF S
<1>5. Sent(a, S) = a /\ Sendable(a, FilesParams)
  BY <1>1, <1>2, ArgumentsSent
<1>6. Answer(db, Get(Path(<<"files">>), a)) = files_list(db, a)
  BY <1>5, Endpoints
<1>7. files_list(db, a) = Json(x)
  BY <1>1 DEF files_list, LimitOf
<1> HIDE DEF x
<1>8. on.replies[1] = ReplyOf(Json(x))
  BY <1>3, <1>4, <1>5, <1>6, <1>7, FirstReply
<1>9. on.daemon = TRUE /\ on.db = db /\ off.daemon = FALSE /\ off.db = db
  BY DEF AsksDaemon, AsksStore
<1>10. Asked(on, x) = Ok(x) /\ Asked(off, x) = Ok(x)
  BY <1>8, <1>9, SameFound
<1>11. run_files(on, a) = run_files(off, a)
  BY <1>9, <1>10 DEF run_files, x
<1> QED  BY <1>11 DEF Run

LEMMA GitLogAlike ==
  ASSUME NEW a, Parsed("git-log", a), NEW on, AsksDaemon(on, "git-log", a), NEW off, AsksStore(off)
  PROVE  Run(Online, on, "git-log", a) = Run(Offline, off, "git-log", a)
<1> DEFINE S == {"session_id", "operation_type", "limit"}
           x == list_git_operations(db, a, a["limit"])
<1>1. "limit" \in DOMAIN a /\ DOMAIN a \subseteq S
  BY DEF Parsed, Always, Perhaps
<1>2. S = GitParams /\ S \subseteq ToSet(Pushed) /\ "q" \notin S
  BY PushedNames DEF GitParams
<1>3. RequestsOf("git-log", a) = <<client_git_operations(a)>>
  BY DEF RequestsOf
<1>4. client_git_operations(a) = Get(Path(<<"git">>), Sent(a, S))
  BY DEF client_git_operations
<1> HIDE DEF S
<1>5. Sent(a, S) = a /\ Sendable(a, GitParams)
  BY <1>1, <1>2, ArgumentsSent
<1>6. Answer(db, Get(Path(<<"git">>), a)) = git_list(db, a)
  BY <1>5, Endpoints
<1>7. git_list(db, a) = Json(x)
  BY <1>1 DEF git_list, LimitOf
<1> HIDE DEF x
<1>8. on.replies[1] = ReplyOf(Json(x))
  BY <1>3, <1>4, <1>5, <1>6, <1>7, FirstReply
<1>9. on.daemon = TRUE /\ on.db = db /\ off.daemon = FALSE /\ off.db = db
  BY DEF AsksDaemon, AsksStore
<1>10. Asked(on, x) = Ok(x) /\ Asked(off, x) = Ok(x)
  BY <1>8, <1>9, SameFound
<1>11. run_git_log(on, a) = run_git_log(off, a)
  BY <1>9, <1>10 DEF run_git_log, x
<1> QED  BY <1>11 DEF Run

LEMMA AttachmentsAlike ==
  ASSUME NEW a, Parsed("attachments list", a), NEW on, AsksDaemon(on, "attachments list", a), NEW off, AsksStore(off)
  PROVE  Run(Online, on, "attachments list", a) = Run(Offline, off, "attachments list", a)
<1> DEFINE S == {"project", "inner_type", "since", "limit"}
           x == attachments_list(db, a, a["limit"])
<1>1. "limit" \in DOMAIN a /\ DOMAIN a \subseteq S
  BY DEF Parsed, Always, Perhaps
<1>2. S = AttachmentsParams /\ S \subseteq ToSet(Pushed) /\ "q" \notin S
  BY PushedNames DEF AttachmentsParams
<1>3. RequestsOf("attachments list", a) = <<client_attachments_list(a)>>
  BY DEF RequestsOf
<1>4. client_attachments_list(a) = Get(Path(<<"attachments">>), Sent(a, S))
  BY DEF client_attachments_list
<1> HIDE DEF S
<1>5. Sent(a, S) = a /\ Sendable(a, AttachmentsParams)
  BY <1>1, <1>2, ArgumentsSent
<1>6. Answer(db, Get(Path(<<"attachments">>), a)) = attachments_api_list(db, a)
  BY <1>5, Endpoints
<1>7. attachments_api_list(db, a) = Json(x)
  BY <1>1 DEF attachments_api_list, LimitOf
<1> HIDE DEF x
<1>8. on.replies[1] = ReplyOf(Json(x))
  BY <1>3, <1>4, <1>5, <1>6, <1>7, FirstReply
<1>9. on.daemon = TRUE /\ on.db = db /\ off.daemon = FALSE /\ off.db = db
  BY DEF AsksDaemon, AsksStore
<1>10. Asked(on, x) = Ok(x) /\ Asked(off, x) = Ok(x)
  BY <1>8, <1>9, SameFound
<1>11. run_attachments_list(on, a) = run_attachments_list(off, a)
  BY <1>9, <1>10 DEF run_attachments_list, x
<1> QED  BY <1>11 DEF Run

LEMMA HooksAlike ==
  ASSUME NEW a, Parsed("hook-executions", a), NEW on, AsksDaemon(on, "hook-executions", a), NEW off, AsksStore(off)
  PROVE  Run(Online, on, "hook-executions", a) = Run(Offline, off, "hook-executions", a)
<1> DEFINE S == {"tool_use_id", "hook_event", "exit_code", "limit"}
           x == hook_executions_list(db, a, a["limit"])
<1>1. "limit" \in DOMAIN a /\ DOMAIN a \subseteq S
  BY DEF Parsed, Always, Perhaps
<1>2. S = HookExecutionsParams /\ S \subseteq ToSet(Pushed) /\ "q" \notin S
  BY PushedNames DEF HookExecutionsParams
<1>3. RequestsOf("hook-executions", a) = <<client_hook_executions_list(a)>>
  BY DEF RequestsOf
<1>4. client_hook_executions_list(a) = Get(Path(<<"hook-executions">>), Sent(a, S))
  BY DEF client_hook_executions_list
<1> HIDE DEF S
<1>5. Sent(a, S) = a /\ Sendable(a, HookExecutionsParams)
  BY <1>1, <1>2, ArgumentsSent
<1>6. Answer(db, Get(Path(<<"hook-executions">>), a)) = hook_executions_api_list(db, a)
  BY <1>5, Endpoints
<1>7. hook_executions_api_list(db, a) = Json(x)
  BY <1>1 DEF hook_executions_api_list, LimitOf
<1> HIDE DEF x
<1>8. on.replies[1] = ReplyOf(Json(x))
  BY <1>3, <1>4, <1>5, <1>6, <1>7, FirstReply
<1>9. on.daemon = TRUE /\ on.db = db /\ off.daemon = FALSE /\ off.db = db
  BY DEF AsksDaemon, AsksStore
<1>10. Asked(on, x) = Ok(x) /\ Asked(off, x) = Ok(x)
  BY <1>8, <1>9, SameFound
<1>11. run_hook_executions(on, a) = run_hook_executions(off, a)
  BY <1>9, <1>10 DEF run_hook_executions, x
<1> QED  BY <1>11 DEF Run

LEMMA PlansAlike ==
  ASSUME NEW a, Parsed("plans list", a), NEW on, AsksDaemon(on, "plans list", a), NEW off, AsksStore(off)
  PROVE  Run(Online, on, "plans list", a) = Run(Offline, off, "plans list", a)
<1> DEFINE S == {"project", "since", "limit"}
           x == plans_list(db, a, a["limit"])
<1>1. "limit" \in DOMAIN a /\ DOMAIN a \subseteq S
  BY DEF Parsed, Always, Perhaps
<1>2. S = PlansListParams /\ S \subseteq ToSet(Pushed) /\ "q" \notin S
  BY PushedNames DEF PlansListParams
<1>3. RequestsOf("plans list", a) = <<client_plans_list(a)>>
  BY DEF RequestsOf
<1>4. client_plans_list(a) = Get(Path(<<"plans">>), Sent(a, S))
  BY DEF client_plans_list
<1> HIDE DEF S
<1>5. Sent(a, S) = a /\ Sendable(a, PlansListParams)
  BY <1>1, <1>2, ArgumentsSent
<1>6. Answer(db, Get(Path(<<"plans">>), a)) = plans_api_list(db, a)
  BY <1>5, Endpoints
<1>7. plans_api_list(db, a) = Json(x)
  BY <1>1 DEF plans_api_list, LimitOf
<1> HIDE DEF x
<1>8. on.replies[1] = ReplyOf(Json(x))
  BY <1>3, <1>4, <1>5, <1>6, <1>7, FirstReply
<1>9. on.daemon = TRUE /\ on.db = db /\ off.daemon = FALSE /\ off.db = db
  BY DEF AsksDaemon, AsksStore
<1>10. Asked(on, x) = Ok(x) /\ Asked(off, x) = Ok(x)
  BY <1>8, <1>9, SameFound
<1>11. run_plans_list(on, a) = run_plans_list(off, a)
  BY <1>9, <1>10 DEF run_plans_list, x
<1> QED  BY <1>11 DEF Run

LEMMA TypeDriftAlike ==
  ASSUME NEW a, Parsed("record-type-drift", a), NEW on, AsksDaemon(on, "record-type-drift", a), NEW off, AsksStore(off)
  PROVE  Run(Online, on, "record-type-drift", a) = Run(Offline, off, "record-type-drift", a)
<1> DEFINE S == {"type_name", "version", "since", "limit"}
           x == record_type_drift_list(db, a)
<1>1. "limit" \in DOMAIN a /\ DOMAIN a \subseteq S
  BY DEF Parsed, Always, Perhaps
<1>2. S = RecordTypeDriftParams /\ S \subseteq ToSet(Pushed) /\ "q" \notin S
  BY PushedNames DEF RecordTypeDriftParams
<1>3. RequestsOf("record-type-drift", a) = <<client_record_type_drift(a)>>
  BY DEF RequestsOf
<1>4. client_record_type_drift(a) = Get(Path(<<"schema", "record-type-drift">>), Sent(a, S))
  BY DEF client_record_type_drift
<1> HIDE DEF S
<1>5. Sent(a, S) = a /\ Sendable(a, RecordTypeDriftParams)
  BY <1>1, <1>2, ArgumentsSent
<1>6. Answer(db, Get(Path(<<"schema", "record-type-drift">>), a)) = schema_record_type_drift(db, a)
  BY <1>5, WordEndpoints
<1>7. schema_record_type_drift(db, a) = Json(x)
  BY <1>1 DEF schema_record_type_drift
<1> HIDE DEF x
<1>8. on.replies[1] = ReplyOf(Json(x))
  BY <1>3, <1>4, <1>5, <1>6, <1>7, FirstReply
<1>9. on.daemon = TRUE /\ on.db = db /\ off.daemon = FALSE /\ off.db = db
  BY DEF AsksDaemon, AsksStore
<1>10. Asked(on, x) = Ok(x) /\ Asked(off, x) = Ok(x)
  BY <1>8, <1>9, SameFound
<1>11. run_record_type_drift(on, a) = run_record_type_drift(off, a)
  BY <1>9, <1>10 DEF run_record_type_drift, x
<1> QED  BY <1>11 DEF Run

LEMMA SearchAlike ==
  ASSUME NEW a, Parsed("search", a), NEW on, AsksDaemon(on, "search", a), NEW off, AsksStore(off)
  PROVE  Run(Online, on, "search", a) =
            IF Blank(a["q"]) THEN Failed ELSE Run(Offline, off, "search", a)
<1> DEFINE S == {"q", "limit", "offset"}
           x == search_messages_and_attachments(db, a["q"], a["limit"], 0)
<1>1. {"q", "limit"} \subseteq DOMAIN a /\ DOMAIN a \subseteq S /\ "offset" \notin DOMAIN a
  BY DEF Parsed, Always, Perhaps
<1>2. S = SearchParams /\ S \subseteq ToSet(Pushed) /\ "q" \in DOMAIN a
  BY <1>1, PushedNames DEF SearchParams
<1>3. RequestsOf("search", a) = <<client_search(a)>>
  BY DEF RequestsOf
<1>4. client_search(a) = Get(Path(<<"search">>), Sent(a, S))
  BY DEF client_search
<1> HIDE DEF S
<1>5. Sent(a, S) = a /\ Sendable(a, SearchParams)
  BY <1>1, <1>2, ArgumentsSent
<1>6. Answer(db, Get(Path(<<"search">>), a)) = search_search(db, a)
  BY <1>5, Endpoints
<1>7. on.replies[1] = ReplyOf(search_search(db, a))
  BY <1>3, <1>4, <1>5, <1>6, FirstReply
<1>8. search_search(db, a) = IF Blank(a["q"]) THEN BadRequest ELSE Json(x)
  BY <1>1 DEF search_search, LimitOf, OffsetOf
<1>9. on.daemon = TRUE /\ on.db = db /\ off.daemon = FALSE /\ off.db = db
  BY DEF AsksDaemon, AsksStore
<1> HIDE DEF x
<1>10. CASE Blank(a["q"])
  <2>1. on.replies[1] = Err(400)
    BY <1>7, <1>8, <1>10 DEF ReplyOf, BadRequest
  <2>2. ~on.replies[1].ok
    BY <2>1 DEF Err
  <2>3. PrintedOr(Asked(on, x)) = Failed
    BY <1>9, <2>2 DEF Asked, PrintedOr
  <2> QED  BY <1>9, <1>10, <2>3 DEF Run, run_search, x
<1>11. CASE ~Blank(a["q"])
  <2>1. on.replies[1] = ReplyOf(Json(x))
    BY <1>7, <1>8, <1>11
  <2>2. Asked(on, x) = Ok(x) /\ Asked(off, x) = Ok(x)
    BY <1>9, <2>1, SameFound
  <2> QED  BY <1>9, <1>11, <2>2 DEF Run, run_search, x
<1> QED  BY <1>10, <1>11

LEMMA QueryAlike ==
  ASSUME NEW a, Parsed("query", a), NEW on, AsksDaemon(on, "query", a), NEW off, AsksStore(off)
  PROVE  Run(Online, on, "query", a) = Run(Offline, off, "query", a)
<1> DEFINE S == {"session_id", "message_type", "model", "tool", "after", "before", "limit"}
           D == DOMAIN a \ {"has_plan"}
           x == query_messages(db, Sent(a, D), a["limit"])
<1>1. "limit" \in DOMAIN a /\ DOMAIN a \subseteq S /\ a = [n \in DOMAIN a |-> a[n]]
  BY DEF Parsed, Always, Perhaps
<1>2. S \subseteq MessageQuery /\ "has_plan" \notin S
  BY DEF MessageQuery
<1>3. RequestsOf("query", a) = <<client_query_messages(a)>>
  BY DEF RequestsOf
<1>4. client_query_messages(a) = Post(Path(<<"messages", "query">>), Sent(a, S))
  BY DEF client_query_messages
<1>5. DOMAIN a \subseteq D
  BY <1>1
<1> HIDE DEF S, D
<1>6. Sent(a, S) = a /\ Sent(a, D) = a
  BY <1>1, <1>5, SentAll
<1>7. Answer(db, Post(Path(<<"messages", "query">>), a)) = messages_query(db, a)
  BY <1>1, <1>2, PostAnswered
<1>8. messages_query(db, a) = Json(x)
  BY <1>1, <1>6 DEF messages_query, LimitOf
<1> HIDE DEF x
<1>9. on.replies[1] = ReplyOf(Json(x))
  BY <1>3, <1>4, <1>6, <1>7, <1>8, FirstReply
<1>10. on.daemon = TRUE /\ on.db = db /\ off.daemon = FALSE /\ off.db = db
  BY DEF AsksDaemon, AsksStore
<1>11. Asked(on, x) = Ok(x) /\ Asked(off, x) = Ok(x)
  BY <1>9, <1>10, SameFound
<1>12. run_query(on, a) = run_query(off, a)
  BY <1>10, <1>11 DEF run_query, x, D
<1> QED  BY <1>12 DEF Run

LEMMA SchemaDriftAlike ==
  ASSUME NEW a, Parsed("schema-drift", a), NEW on, AsksDaemon(on, "schema-drift", a),
         NEW off, AsksStore(off)
  PROVE  Run(Online, on, "schema-drift", a) = Run(Offline, off, "schema-drift", a)
<1> DEFINE S == {"record_type", "limit"}
           all == drift_by_version(db)
           kept == IF "record_type" \in DOMAIN a THEN OfRecordType(all, a["record_type"]) ELSE all
           x == Shortened(kept, a["limit"])
<1>1. "limit" \in DOMAIN a /\ DOMAIN a \subseteq S
  BY DEF Parsed, Always, Perhaps
<1>2. S = DriftParams /\ S \subseteq ToSet(Pushed) /\ "q" \notin S
  BY PushedNames DEF DriftParams
<1>3. RequestsOf("schema-drift", a) = <<client_schema_drift_grouped(a)>>
  BY DEF RequestsOf
<1>4. client_schema_drift_grouped(a) = Get(Path(<<"schema", "drift">>), Sent(a, S))
  BY DEF client_schema_drift_grouped
<1> HIDE DEF S
<1>5. Sent(a, S) = a /\ Sendable(a, DriftParams)
  BY <1>1, <1>2, ArgumentsSent
<1>6. Answer(db, Get(Path(<<"schema", "drift">>), a)) = schema_drift(db, a)
  BY <1>5, WordEndpoints
<1>7. schema_drift(db, a) = Json(x)
  BY <1>1 DEF schema_drift
<1> HIDE DEF x
<1>8. on.replies[1] = ReplyOf(Json(x))
  BY <1>3, <1>4, <1>5, <1>6, <1>7, FirstReply
<1>9. on.daemon = TRUE /\ on.db = db /\ off.daemon = FALSE /\ off.db = db
  BY DEF AsksDaemon, AsksStore
<1>10. Asked(on, x) = Ok(x) /\ Asked(off, x) = Ok(x)
  BY <1>8, <1>9, SameFound
<1>11. run_schema_drift(on, a) = Noticed(Asked(on, x)) /\ run_schema_drift(off, a) = Noticed(Asked(off, x))
  BY <1>9 DEF run_schema_drift, x
<1> QED  BY <1>10, <1>11 DEF Run

\* Nothing is sent.
LEMMA NothingSent ==
  ASSUME NEW S, "q" \notin S
  PROVE  Sendable(<<>>, S)
<1>1. <<>> = [n \in DOMAIN <<>> |-> <<>>[n]] /\ DOMAIN <<>> = {}
  OBVIOUS
<1> DEFINE none == <<>>
<1>2. none = [n \in DOMAIN none |-> none[n]] /\ DOMAIN none = {}
  BY <1>1
<1> HIDE DEF none
<1>3. Sendable(none, S)
  BY <1>2 DEF Sendable, Passable
<1> QED  BY <1>3 DEF none

LEMMA VersionCheckAlike ==
  ASSUME NEW a, NEW on, AsksDaemon(on, "version-check", a), NEW off, AsksStore(off)
  PROVE  Run(Online, on, "version-check", a) = Run(Offline, off, "version-check", a)
<1> DEFINE x == version_history_enhanced(db)
           none == <<>>
<1>1. RequestsOf("version-check", a) = <<client_version_history>>
  BY DEF RequestsOf
<1>2. client_version_history = Get(Path(<<"schema", "versions">>), none)
  BY DEF client_version_history
<1>3. DOMAIN none = {} /\ "q" \notin VersionsParams
  BY DEF VersionsParams
<1>4. Sendable(none, VersionsParams)
  BY <1>3, NothingSent
<1> HIDE DEF none
<1>5. Answer(db, Get(Path(<<"schema", "versions">>), none)) = schema_versions(db, none)
  BY <1>4, WordEndpoints
<1>6. schema_versions(db, none) = Json(x)
  BY <1>3 DEF schema_versions, Given
<1> HIDE DEF x
<1>7. on.replies[1] = ReplyOf(Json(x))
  BY <1>1, <1>2, <1>5, <1>6, FirstReply
<1>8. on.daemon = TRUE /\ on.db = db /\ off.daemon = FALSE /\ off.db = db
  BY DEF AsksDaemon, AsksStore
<1>9. Asked(on, x) = Ok(x) /\ Asked(off, x) = Ok(x)
  BY <1>7, <1>8, SameFound
<1>10. run_version_check(on) = run_version_check(off)
  BY <1>8, <1>9 DEF run_version_check, x
<1> QED  BY <1>10 DEF Run

\* Three requests are answered as the three calls are.
LEMMA TokensAnswered ==
  ASSUME NEW a, Parsed("stats", a)
  PROVE  LET p == IF "session_id" \in DOMAIN a THEN With(a, [group_by |-> Word("session")]) ELSE <<>>
             x == IF "session_id" \in DOMAIN a THEN token_stats_by_session(db, Some(a["session_id"]))
                  ELSE token_stats_by_model(db)
         IN  Answer(db, client_stats_tokens(p)) = Json(x)
<1> DEFINE S == {"group_by", "session_id"}
           by == [group_by |-> Word("session")]
           path == Path(<<"analytics", "tokens">>)
<1>1. a = [n \in DOMAIN a |-> a[n]] /\ DOMAIN a \subseteq {"session_id"} /\ \A n \in DOMAIN a : OfItsType(n, a[n])
  BY DEF Parsed, Always, Perhaps
<1>2. S = TokensParams /\ S \subseteq ToSet(Pushed) /\ "q" \notin S
  BY PushedNames DEF TokensParams
<1>3. \A p : client_stats_tokens(p) = Get(path, Sent(p, S))
  BY DEF client_stats_tokens
<1>4. /\ Word("session") # Word("model") /\ Word("session") # Word("day")
      /\ Word("model") # Word("day")
  <2>1. /\ Word("session")[1] = "session" /\ Word("model")[1] = "model"
        /\ Word("day")[1] = "day"
    BY DEF Word
  <2> QED  BY <2>1
<1>5. CASE "session_id" \in DOMAIN a
  <2> DEFINE p == With(a, by)
  <2>1. DOMAIN a = {"session_id"} /\ DOMAIN by = {"group_by"} /\ by["group_by"] = Word("session")
    BY <1>1, <1>5
  <2> HIDE DEF by
  <2>2. p = [n \in S |-> IF n = "session_id" THEN a[n] ELSE by[n]]
    BY <2>1 DEF With
  <2> HIDE DEF p
  <2>3. /\ p = [n \in DOMAIN p |-> p[n]] /\ DOMAIN p = S
        /\ p["group_by"] = Word("session") /\ p["session_id"] = a["session_id"]
    BY <2>1, <2>2
  <2>4. OfItsType("group_by", p["group_by"]) /\ OfItsType("session_id", p["session_id"])
    <3>1. IsList(Word("session"))
      BY OneElement DEF Word
    <3> QED  BY <1>1, <1>5, <2>3, <3>1 DEF OfItsType, Numeric, Flag
  <2>5. Sendable(p, TokensParams)
    BY <1>2, <2>3, <2>4 DEF Sendable, Passable
  <2>6. Sent(p, S) = p
    BY <2>3, SentAll
  <2>7. Answer(db, client_stats_tokens(p)) = analytics_tokens(db, p)
    BY <1>3, <2>5, <2>6, WordEndpoints
  <2>9. analytics_tokens(db, p) = Json(token_stats_by_session(db, Some(a["session_id"])))
    BY <1>4, <2>3 DEF analytics_tokens
  <2> QED  BY <1>5, <2>7, <2>9 DEF p, by
<1>6. CASE "session_id" \notin DOMAIN a
  <2> DEFINE p == <<>>
  <2>1. Sendable(p, TokensParams)
    BY <1>2, NothingSent
  <2>2. DOMAIN p = {} /\ p = [n \in DOMAIN p |-> p[n]]
    OBVIOUS
  <2> HIDE DEF p, S
  <2>3. Sent(p, S) = p
    BY <2>2, SentAll
  <2>4. Answer(db, client_stats_tokens(p)) = analytics_tokens(db, p)
    BY <1>3, <2>1, <2>3, WordEndpoints
  <2>5. analytics_tokens(db, p) = Json(token_stats_by_model(db))
    BY <1>4, <2>2 DEF analytics_tokens
  <2> QED  BY <1>6, <2>4, <2>5 DEF p
<1> QED  BY <1>5, <1>6

LEMMA StatsAlike ==
  ASSUME NEW a, Parsed("stats", a), NEW on, AsksDaemon(on, "stats", a), NEW off, AsksStore(off)
  PROVE  Run(Online, on, "stats", a) = Run(Offline, off, "stats", a)
<1> DEFINE p == IF "session_id" \in DOMAIN a THEN With(a, [group_by |-> Word("session")]) ELSE <<>>
           x == IF "session_id" \in DOMAIN a THEN token_stats_by_session(db, Some(a["session_id"]))
                ELSE token_stats_by_model(db)
           y == tool_frequency(db)
           z == model_breakdown(db)
           c == client_stats_tokens(p)
           R == RequestsOf("stats", a)
           none == <<>>
<1>1. R = <<c, client_stats_tools, client_stats_models>>
  BY DEF RequestsOf
<1>2. Answer(db, c) = Json(x)
  BY TokensAnswered
<1>3. Answer(db, client_stats_tools) = Json(y) /\ Answer(db, client_stats_models) = Json(z)
  <2> DEFINE S == {}
  <2>1. "q" \notin S
    OBVIOUS
  <2> HIDE DEF S
  <2>2. Sendable(none, S)
    BY <2>1, NothingSent
  <2>3. /\ client_stats_tools = Get(Path(<<"analytics", "tools">>), none)
        /\ client_stats_models = Get(Path(<<"analytics", "models">>), none)
    BY DEF client_stats_tools, client_stats_models
  <2> HIDE DEF none
  <2>4. /\ Sendable(none, {}) =>
              Answer(db, Get(Path(<<"analytics", "tools">>), none)) = analytics_tools(db)
        /\ Sendable(none, {}) =>
              Answer(db, Get(Path(<<"analytics", "models">>), none)) = analytics_models(db)
    BY WordEndpoints
  <2> QED  BY <2>2, <2>3, <2>4 DEF S, analytics_tools, analytics_models
<1>4. on.daemon = TRUE /\ on.db = db /\ off.daemon = FALSE /\ off.db = db
  BY DEF AsksDaemon, AsksStore
<1> HIDE DEF x, y, z, c, R
<1>5. on.replies = [i \in DOMAIN R |-> ReplyOf(Answer(db, R[i]))]
  BY DEF AsksDaemon, Requested, R
<1>6. DOMAIN R = 1 .. 3 /\ R[1] = c /\ R[2] = client_stats_tools /\ R[3] = client_stats_models
  BY <1>1
<1>7. /\ on.replies[1] = Ok(x) /\ on.replies[2] = Ok(y) /\ on.replies[3] = Ok(z)
      /\ DOMAIN on.replies = 1 .. 3
  <2>1. ReplyOf(Json(x)) = Ok(x) /\ ReplyOf(Json(y)) = Ok(y) /\ ReplyOf(Json(z)) = Ok(z)
    BY DEF ReplyOf, Json
  <2> QED  BY <1>2, <1>3, <1>5, <1>6, <2>1
<1>8. \A i \in 1 .. 3 : i = 1 \/ i = 2 \/ i = 3
  OBVIOUS
<1>9. \A i \in 1 .. 3 : on.replies[i].ok
  BY <1>7, <1>8 DEF Ok
<1>10. [i \in DOMAIN on.replies |-> on.replies[i].value] = <<x, y, z>>
  <2>1. on.replies[1].value = x /\ on.replies[2].value = y /\ on.replies[3].value = z
    BY <1>7 DEF Ok
  <2> QED  BY <1>7, <1>8, <2>1
<1>11. run_stats(on, a) = Printed([i \in DOMAIN on.replies |-> on.replies[i].value])
  BY <1>4, <1>9, Zenon DEF run_stats, Each
<1>12. run_stats(off, a) = Printed(<<x, y, z>>)
  BY <1>4 DEF run_stats, x, y, z
<1> QED  BY <1>10, <1>11, <1>12 DEF Run

LEMMA ExportAlike ==
  ASSUME NEW a, Parsed("export", a), NEW on, AsksDaemon(on, "export", a), NEW off, AsksStore(off)
  PROVE  Run(Online, on, "export", a) =
            IF a["session_id"] = <<>> THEN Failed ELSE Run(Offline, off, "export", a)
<1> DEFINE s == a["session_id"]
           S == {"format"}
           p == Sent(a, S)
           file == Exported(db, s, a["format"])
           formats == {Word("json"), Word("markdown"), Word("csv")}
<1>1. {"session_id", "format"} \subseteq DOMAIN a /\ \A n \in DOMAIN a : OfItsType(n, a[n])
  BY DEF Parsed, Always
<1>2. IsList(s) /\ OfItsType("format", a["format"])
  BY <1>1 DEF OfItsType, Numeric, Flag
<1>3. p = [n \in DOMAIN p |-> p[n]] /\ DOMAIN p = {"format"} /\ p["format"] = a["format"]
  BY <1>1 DEF Sent, Columns
<1>4. RequestsOf("export", a) = <<Get(IdPath("export", s), p)>>
  BY DEF RequestsOf, client_export_session, IdPath
<1> HIDE DEF p, s
<1>5. Sendable(p, ExportParams)
  BY <1>2, <1>3, PushedNames DEF Sendable, Passable, ExportParams
<1>6. on.replies[1] = ReplyOf(Answer(db, Get(IdPath("export", s), p)))
  BY <1>4, FirstReply
<1>7. on.daemon = TRUE /\ on.db = db /\ off.daemon = FALSE /\ off.db = db
  BY DEF AsksDaemon, AsksStore
<1>8. CASE s = <<>>
  <2>1. Answer(db, Get(IdPath("export", s), p)) = NotFound
    BY <1>8, NoIdEndpoints
  <2>2. ~on.replies[1].ok
    BY <1>6, <2>1 DEF NotFound, ReplyOf, Err
  <2>3. run_export(on, a) = Failed
    BY <1>7, <2>2 DEF run_export, PrintedOr
  <2> QED  BY <1>8, <2>3 DEF Run, s
<1>9. CASE s # <<>>
  <2>1. Answer(db, Get(IdPath("export", s), p)) = export_handler(db, s, p)
    BY <1>2, <1>5, <1>9, IdEndpoints
  <2>2. export_handler(db, s, p) =
          IF a["format"] \notin formats THEN BadRequest
          ELSE IF file = None THEN Internal ELSE Json(file[1])
    BY <1>3 DEF export_handler
  <2> HIDE DEF file, formats
  <2>3. run_export(off, a) =
          IF a["format"] \notin formats THEN Failed
          ELSE IF file = None THEN Failed ELSE Printed(file[1])
    BY <1>7 DEF run_export, file, formats, s
  <2>4. run_export(on, a) =
          IF a["format"] \notin formats THEN Failed ELSE PrintedOr(on.replies[1])
    BY <1>7 DEF run_export, formats, s
  <2>5. PrintedOr(ReplyOf(Internal)) = Failed /\ PrintedOr(ReplyOf(Json(file[1]))) = Printed(file[1])
    BY DEF PrintedOr, ReplyOf, Internal, Json, Ok, Err
  <2>6. run_export(on, a) = run_export(off, a)
    BY <1>6, <2>1, <2>2, <2>3, <2>4, <2>5
  <2> QED  BY <1>9, <2>6 DEF Run, s
<1> QED  BY <1>8, <1>9

LEMMA ArtifactsAlike ==
  ASSUME NEW a, Parsed("artifacts", a), NEW on, AsksDaemon(on, "artifacts", a), NEW off, AsksStore(off)
  PROVE  Run(Online, on, "artifacts", a) =
            IF a["session_id"] = <<>> THEN Failed ELSE Run(Offline, off, "artifacts", a)
<1> DEFINE s == a["session_id"]
           none == <<>>
           fields == {}
           x == query_session_artifacts(db, s, MANY)
<1>1. "session_id" \in DOMAIN a /\ \A n \in DOMAIN a : OfItsType(n, a[n])
  BY DEF Parsed, Always
<1>2. IsList(s)
  BY <1>1 DEF OfItsType, Numeric, Flag
<1>3. RequestsOf("artifacts", a) = <<Get(IdPath("artifacts", s), none)>>
  BY DEF RequestsOf, client_artifacts, IdPath
<1>4. "q" \notin fields
  OBVIOUS
<1> HIDE DEF fields
<1>5. Sendable(none, fields)
  BY <1>4, NothingSent
<1> HIDE DEF none, s
<1>6. on.replies[1] = ReplyOf(Answer(db, Get(IdPath("artifacts", s), none)))
  BY <1>3, FirstReply
<1>7. on.daemon = TRUE /\ on.db = db /\ off.daemon = FALSE /\ off.db = db
  BY DEF AsksDaemon, AsksStore
<1>8. CASE s = <<>>
  <2>1. Answer(db, Get(IdPath("artifacts", s), none)) = NotFound
    BY <1>8, NoIdEndpoints
  <2>2. ~on.replies[1].ok
    BY <1>6, <2>1 DEF NotFound, ReplyOf, Err
  <2>3. run_artifacts(on, a) = Failed
    BY <1>7, <2>2 DEF run_artifacts, Asked, PrintedOr
  <2> QED  BY <1>8, <2>3 DEF Run, s
<1>9. CASE s # <<>>
  <2>1. Answer(db, Get(IdPath("artifacts", s), none)) = artifacts_session(db, s)
    <3>1. Sendable(none, {}) =>
            Answer(db, Get(IdPath("artifacts", s), none)) = artifacts_session(db, s)
      BY <1>2, <1>9, IdEndpoints
    <3> QED  BY <1>5, <3>1 DEF fields
  <2>2. artifacts_session(db, s) = Json(x)
    BY DEF artifacts_session
  <2> HIDE DEF x
  <2>3. on.replies[1] = ReplyOf(Json(x))
    BY <1>6, <2>1, <2>2
  <2>4. Asked(on, x) = Ok(x) /\ Asked(off, x) = Ok(x)
    BY <1>7, <2>3, SameFound
  <2>5. run_artifacts(on, a) = run_artifacts(off, a)
    BY <1>7, <2>4 DEF run_artifacts, x, s
  <2> QED  BY <1>9, <2>5 DEF Run, s
<1> QED  BY <1>8, <1>9

LEMMA NothingFound ==
  OrMissing(ReplyOf(NotFound)) = Ok(None) /\ ~OrMissing(ReplyOf(BadRequest)).ok
<1>1. ReplyOf(NotFound) = Err(404) /\ ReplyOf(BadRequest) = Err(400)
  BY DEF ReplyOf, NotFound, BadRequest
<1>2. /\ ~Err(404).ok /\ Err(404).error = 404
      /\ ~Err(400).ok /\ Err(400).error = 400
  BY DEF Err
<1>3. OrMissing(Err(404)) = Ok(None)
  BY <1>2 DEF OrMissing
<1>4. OrMissing(Err(400)) = Err(400)
  BY <1>2 DEF OrMissing
<1> QED  BY <1>1, <1>2, <1>3, <1>4

LEMMA AttachmentAlike ==
  ASSUME NEW a, Parsed("attachments show", a), NEW on, AsksDaemon(on, "attachments show", a),
         NEW off, AsksStore(off)
  PROVE  Run(Online, on, "attachments show", a) =
            IF a["uuid"] = <<>> THEN Failed ELSE Run(Offline, off, "attachments show", a)
<1> DEFINE s == a["uuid"]
           none == <<>>
           fields == {}
           x == attachment_by_uuid(db, s)
<1>1. "uuid" \in DOMAIN a /\ \A n \in DOMAIN a : OfItsType(n, a[n])
  BY DEF Parsed, Always
<1>2. IsList(s)
  BY <1>1 DEF OfItsType, Numeric, Flag
<1>3. RequestsOf("attachments show", a) = <<Get(IdPath("attachments", s), none)>>
  BY DEF RequestsOf, client_attachment_show, IdPath
<1>4. "q" \notin fields
  OBVIOUS
<1> HIDE DEF fields
<1>5. Sendable(none, fields)
  BY <1>4, NothingSent
<1> HIDE DEF none, s
<1>6. on.replies[1] = ReplyOf(Answer(db, Get(IdPath("attachments", s), none)))
  BY <1>3, FirstReply
<1>7. on.daemon = TRUE /\ on.db = db /\ off.daemon = FALSE /\ off.db = db
  BY DEF AsksDaemon, AsksStore
<1>8. OrMissing(ReplyOf(NotFound)) = Ok(None)
  BY NothingFound
<1>9. Ok(None).ok /\ Ok(None).value = None
  BY DEF Ok
<1>10. CASE s = <<>>
  <2>1. Answer(db, Get(IdPath("attachments", s), none)) = NotFound
    BY <1>10, NoIdEndpoints
  <2>2. OrMissing(on.replies[1]) = Ok(None)
    BY <1>6, <1>8, <2>1
  <2>3. run_attachments_show(on, a) = Failed
    BY <1>7, <1>9, <2>2 DEF run_attachments_show
  <2> QED  BY <1>10, <2>3 DEF Run, s
<1>11. CASE s # <<>>
  <2>1. Answer(db, Get(IdPath("attachments", s), none)) = attachments_api_show(db, s)
    <3>1. Sendable(none, {}) =>
            Answer(db, Get(IdPath("attachments", s), none)) = attachments_api_show(db, s)
      BY <1>2, <1>11, IdEndpoints
    <3> QED  BY <1>5, <3>1 DEF fields
  <2>2. attachments_api_show(db, s) = IF x = None THEN NotFound ELSE Json(x[1])
    BY DEF attachments_api_show, OrNotFound
  <2> HIDE DEF x
  <2>3. OrMissing(ReplyOf(Json(x[1]))) = Ok(Some(x[1]))
    BY DEF OrMissing, ReplyOf, Json, Ok
  <2>4. Some(x[1]) # None /\ Some(x[1])[1] = x[1]
    BY DEF Some, None
  <2>5. run_attachments_show(off, a) = IF x # None THEN Printed(x[1]) ELSE Failed
    BY <1>7 DEF run_attachments_show, x, s, Ok
  <2>6. CASE x = None
    <3>1. OrMissing(on.replies[1]) = Ok(None)
      BY <1>6, <1>8, <2>1, <2>2, <2>6
    <3>2. run_attachments_show(on, a) = Failed
      BY <1>7, <1>9, <3>1 DEF run_attachments_show
    <3> QED  BY <1>11, <2>5, <2>6, <3>2 DEF Run, s
  <2>7. CASE x # None
    <3>1. OrMissing(on.replies[1]) = Ok(Some(x[1]))
      BY <1>6, <2>1, <2>2, <2>3, <2>7
    <3>2. Ok(Some(x[1])).ok /\ Ok(Some(x[1])).value = Some(x[1])
      BY DEF Ok
    <3>3. run_attachments_show(on, a) = Printed(x[1])
      BY <1>7, <2>4, <3>1, <3>2 DEF run_attachments_show
    <3> QED  BY <1>11, <2>5, <2>7, <3>3 DEF Run, s
  <2> QED  BY <2>6, <2>7
<1> QED  BY <1>10, <1>11

LEMMA PlanAlike ==
  ASSUME NEW a, Parsed("plans show", a), NEW on, AsksDaemon(on, "plans show", a),
         NEW off, AsksStore(off)
  PROVE  Run(Online, on, "plans show", a) =
            IF a["session_id"] = <<>> \/ a["session_id"] = Word("search") THEN Failed
            ELSE Run(Offline, off, "plans show", a)
<1> DEFINE s == a["session_id"]
           none == <<>>
           fields == {}
           x == plan_show(db, s)
<1>1. "session_id" \in DOMAIN a /\ \A n \in DOMAIN a : OfItsType(n, a[n])
  BY DEF Parsed, Always
<1>2. IsList(s)
  BY <1>1 DEF OfItsType, Numeric, Flag
<1>3. RequestsOf("plans show", a) = <<Get(IdPath("plans", s), none)>>
  BY DEF RequestsOf, client_plan_show, IdPath
<1>4. "q" \notin fields
  OBVIOUS
<1> HIDE DEF fields
<1>5. Sendable(none, fields)
  BY <1>4, NothingSent
<1>6. Answer(db, Get(IdPath("plans", Word("search")), none)) = BadRequest
  BY SearchRefused
<1> HIDE DEF none, s
<1>7. on.replies[1] = ReplyOf(Answer(db, Get(IdPath("plans", s), none)))
  BY <1>3, FirstReply
<1>8. on.daemon = TRUE /\ on.db = db /\ off.daemon = FALSE /\ off.db = db
  BY DEF AsksDaemon, AsksStore
<1>9. OrMissing(ReplyOf(NotFound)) = Ok(None) /\ ~OrMissing(ReplyOf(BadRequest)).ok
  BY NothingFound
<1>10. \A v : Ok(v).ok /\ Ok(v).value = v
  BY DEF Ok
<1>11. CASE s = <<>>
  <2>1. Answer(db, Get(IdPath("plans", s), none)) = NotFound
    BY <1>11, NoIdEndpoints
  <2>2. OrMissing(on.replies[1]) = Ok(None)
    BY <1>7, <1>9, <2>1
  <2>3. run_plans_show(on, a) = Failed
    BY <1>8, <1>10, <2>2 DEF run_plans_show
  <2> QED  BY <1>11, <2>3 DEF Run, s
<1>12. CASE s = Word("search")
  <2>1. ~OrMissing(on.replies[1]).ok
    BY <1>6, <1>7, <1>9, <1>12
  <2>2. run_plans_show(on, a) = Failed
    BY <1>8, <2>1 DEF run_plans_show
  <2> QED  BY <1>12, <2>2 DEF Run, s
<1>13. CASE s # <<>> /\ s # Word("search")
  <2>1. Answer(db, Get(IdPath("plans", s), none)) = plans_api_show(db, s)
    <3>1. Sendable(none, {}) =>
            Answer(db, Get(IdPath("plans", s), none)) = plans_api_show(db, s)
      BY <1>2, <1>13, IdEndpoints
    <3> QED  BY <1>5, <3>1 DEF fields
  <2>2. plans_api_show(db, s) = IF x = <<>> THEN NotFound ELSE Json(x)
    BY DEF plans_api_show
  <2> HIDE DEF x
  <2>3. OrMissing(ReplyOf(Json(x))) = Ok(Some(x))
    BY DEF OrMissing, ReplyOf, Json, Ok
  <2>4. Some(x) # None /\ Some(x)[1] = x /\ Some(<<>>)[1] = <<>>
    BY DEF Some, None
  <2>5. run_plans_show(off, a) = IF x # <<>> THEN Printed(x) ELSE Failed
    <3>1. Some(x) \notin {None, Some(<<>>)} <=> x # <<>>
      BY <2>4
    <3>2. run_plans_show(off, a) =
            IF Ok(Some(x)).ok /\ Ok(Some(x)).value \notin {None, Some(<<>>)}
            THEN Printed(Ok(Some(x)).value[1]) ELSE Failed
      BY <1>8 DEF run_plans_show, x, s
    <3> QED  BY <1>10, <2>4, <3>1, <3>2
  <2>6. CASE x = <<>>
    <3>1. OrMissing(on.replies[1]) = Ok(None)
      BY <1>7, <1>9, <2>1, <2>2, <2>6
    <3>2. run_plans_show(on, a) = Failed
      BY <1>8, <1>10, <3>1 DEF run_plans_show
    <3> QED  BY <1>13, <2>5, <2>6, <3>2 DEF Run, s
  <2>7. CASE x # <<>>
    <3>1. OrMissing(on.replies[1]) = Ok(Some(x))
      BY <1>7, <2>1, <2>2, <2>3, <2>7
    <3>2. Some(x) \notin {None, Some(<<>>)}
      BY <2>4, <2>7
    <3>3. run_plans_show(on, a) = Printed(x)
      BY <1>8, <1>10, <2>4, <3>1, <3>2 DEF run_plans_show
    <3> QED  BY <1>13, <2>5, <2>7, <3>3 DEF Run, s
  <2> QED  BY <2>6, <2>7
<1> QED  BY <1>11, <1>12, <1>13 DEF s

\* What the daemon has no endpoint for is asked of the same database.
LEMMA OwnAlike ==
  ASSUME NEW a, NEW command \in {"file-history", "reconstruct"},
         NEW on, AsksDaemon(on, command, a), NEW off, AsksStore(off)
  PROVE  Run(Online, on, command, a) = Run(Offline, off, command, a)
<1>1. on.daemon = TRUE /\ on.db = db /\ off.daemon = FALSE /\ off.db = db
  BY DEF AsksDaemon, AsksStore
<1>2. Online.default = "home" /\ Online.dbs["home"] = db /\ "home" \in DOMAIN Online.dbs
  BY DEF Online
<1>3. OwnDatabase(Online, on) = db /\ OwnDatabase(Offline, off) = db
  BY <1>1, <1>2 DEF OwnDatabase, init_db, resolve_db_path, None
<1>4. run_file_history(Online, on, a) = run_file_history(Offline, off, a)
  BY <1>3 DEF run_file_history
<1>5. run_reconstruct(Online, on, a) = run_reconstruct(Offline, off, a)
  BY <1>3 DEF run_reconstruct
<1> QED  BY <1>4, <1>5 DEF Run

\* A command and its arguments print the same with a daemon and without, if
\* they can be asked of a daemon, and fail there otherwise.
LEMMA CommandAlike ==
  ASSUME NEW c, Parsed(c.command, c.a),
         NEW on, AsksDaemon(on, c.command, c.a), NEW off, AsksStore(off)
  PROVE  Run(Online, on, c.command, c.a) =
            IF Unaskable(c) THEN Failed ELSE Run(Offline, off, c.command, c.a)
<1> DEFINE a == c.a
<1>1. c.command \in CommandNames
  BY DEF Parsed
<1>2. CASE c.command = "search"
  <2>1. Unaskable(c) <=> Blank(a["q"])
    BY <1>2 DEF Unaskable
  <2> QED  BY <1>2, <2>1, SearchAlike
<1>3. CASE c.command = "sessions"
  <2>1. ~Unaskable(c)
    BY <1>3 DEF Unaskable
  <2> QED  BY <1>3, <2>1, SessionsAlike
<1>4. CASE c.command = "query"
  <2>1. ~Unaskable(c)
    BY <1>4 DEF Unaskable
  <2> QED  BY <1>4, <2>1, QueryAlike
<1>5. CASE c.command = "stats"
  <2>1. ~Unaskable(c)
    BY <1>5 DEF Unaskable
  <2> QED  BY <1>5, <2>1, StatsAlike
<1>6. CASE c.command = "export"
  <2>1. Unaskable(c) <=> a["session_id"] = <<>>
    BY <1>6 DEF Unaskable
  <2> QED  BY <1>6, <2>1, ExportAlike
<1>7. CASE c.command = "version-check"
  <2>1. ~Unaskable(c)
    BY <1>7 DEF Unaskable
  <2> QED  BY <1>7, <2>1, VersionCheckAlike
<1>8. CASE c.command = "schema-drift"
  <2>1. ~Unaskable(c)
    BY <1>8 DEF Unaskable
  <2> QED  BY <1>8, <2>1, SchemaDriftAlike
<1>9. CASE c.command = "record-type-drift"
  <2>1. ~Unaskable(c)
    BY <1>9 DEF Unaskable
  <2> QED  BY <1>9, <2>1, TypeDriftAlike
<1>10. CASE c.command = "attachments list"
  <2>1. ~Unaskable(c)
    BY <1>10 DEF Unaskable
  <2> QED  BY <1>10, <2>1, AttachmentsAlike
<1>11. CASE c.command = "attachments show"
  <2>1. Unaskable(c) <=> a["uuid"] = <<>>
    BY <1>11 DEF Unaskable
  <2> QED  BY <1>11, <2>1, AttachmentAlike
<1>12. CASE c.command = "plans list"
  <2>1. ~Unaskable(c)
    BY <1>12 DEF Unaskable
  <2> QED  BY <1>12, <2>1, PlansAlike
<1>13. CASE c.command = "plans show"
  <2>1. Unaskable(c) <=> (a["session_id"] = <<>> \/ a["session_id"] = Word("search"))
    BY <1>13 DEF Unaskable
  <2> QED  BY <1>13, <2>1, PlanAlike
<1>14. CASE c.command = "hook-executions"
  <2>1. ~Unaskable(c)
    BY <1>14 DEF Unaskable
  <2> QED  BY <1>14, <2>1, HooksAlike
<1>15. CASE c.command = "files"
  <2>1. ~Unaskable(c)
    BY <1>15 DEF Unaskable
  <2> QED  BY <1>15, <2>1, FilesAlike
<1>16. CASE c.command = "file-history"
  <2>1. ~Unaskable(c)
    BY <1>16 DEF Unaskable
  <2> QED  BY <1>16, <2>1, OwnAlike
<1>17. CASE c.command = "reconstruct"
  <2>1. ~Unaskable(c)
    BY <1>17 DEF Unaskable
  <2> QED  BY <1>17, <2>1, OwnAlike
<1>18. CASE c.command = "git-log"
  <2>1. ~Unaskable(c)
    BY <1>18 DEF Unaskable
  <2> QED  BY <1>18, <2>1, GitLogAlike
<1>19. CASE c.command = "artifacts"
  <2>1. Unaskable(c) <=> a["session_id"] = <<>>
    BY <1>19 DEF Unaskable
  <2> QED  BY <1>19, <2>1, ArtifactsAlike
<1> QED  BY <1>1, <1>2, <1>3, <1>4, <1>5, <1>6, <1>7, <1>8, <1>9, <1>10, <1>11, <1>12, <1>13, <1>14, <1>15, <1>16, <1>17, <1>18, <1>19 DEF CommandNames

\* Every command prints the same and exits the same whether a daemon serves
\* the database or not, on every history, for arguments of any length and of
\* any characters: what the client encodes the daemon's router and extractors
\* decode (daemon_client.rs, api/mod.rs, main.rs).
THEOREM ModesAlike == Spec => []ModesAgree
<1>1. ModesAgree
  <2> SUFFICES ASSUME NEW i \in DOMAIN Commands
               PROVE  main(Online, None, Commands[i].command, Commands[i].a) =
                        IF Unaskable(Commands[i]) THEN Failed
                        ELSE main(Offline, None, Commands[i].command, Commands[i].a)
    <3> DEFINE c(i) == Commands[i]
               out(i) == [world \in {Online, Offline} |-> main(world, None, c(i).command, c(i).a)]
    <3>1. \A i \in DOMAIN Commands :
             /\ out(i)[Online] = main(Online, None, c(i).command, c(i).a)
             /\ out(i)[Offline] = main(Offline, None, c(i).command, c(i).a)
      OBVIOUS
    <3> HIDE DEF out, c
    <3>2. ASSUME \A i \in DOMAIN Commands :
                   main(Online, None, c(i).command, c(i).a) =
                     IF Unaskable(c(i)) THEN Failed ELSE main(Offline, None, c(i).command, c(i).a)
          PROVE  \A i \in DOMAIN Commands : \A o \in {out(i)} :
                   o[Online] = IF Unaskable(c(i)) THEN Failed ELSE o[Offline]
      BY <3>1, <3>2
    <3> QED  BY <3>2, Zenon DEF ModesAgree, out, c
  <2> DEFINE c == Commands[i]
  <2>1. Parsed(c.command, c.a)
    BY CommandsAssumption
  <2> HIDE DEF c
  <2>2. PICK on, off :
            /\ AsksDaemon(on, c.command, c.a)
            /\ main(Online, None, c.command, c.a) = Run(Online, on, c.command, c.a)
            /\ AsksStore(off)
            /\ main(Offline, None, c.command, c.a) = Run(Offline, off, c.command, c.a)
    BY ModesAre
  <2>3. Run(Online, on, c.command, c.a) =
            IF Unaskable(c) THEN Failed ELSE Run(Offline, off, c.command, c.a)
    BY <2>1, <2>2, CommandAlike
  <2> QED  BY <2>2, <2>3 DEF c
<1> QED  BY <1>1, PTL
=============================================================================
