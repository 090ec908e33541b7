-------------------------------- MODULE Facts --------------------------------
(***************************************************************************)
(* Facts that the proofs share.  About natural numbers: least elements and *)
(* induction, both from the well-foundedness of <; induction is over a set *)
(* of numbers, which a leaf can instantiate.  About the lists of Lists.    *)
(***************************************************************************)
EXTENDS Integers, FiniteSetsExt, Lists, WellFoundedInduction, SequenceTheorems,
        FiniteSetTheorems, TLAPS

Less == {ss \in Nat \X Nat : ss[1] < ss[2]}

LEMMA LessWellFounded == IsWellFoundedOn(Less, Nat)
  BY NatLessThanWellFounded, Zenon DEF OpToRel, Less

LEMMA LessIntro ==
  ASSUME NEW a \in Nat, NEW b \in Nat, a < b
  PROVE  <<a, b>> \in Less
  BY DEF Less

LEMMA LeastExists ==
  ASSUME NEW S \in SUBSET Nat, S # {}
  PROVE  \E m \in S : \A j \in S : m <= j
<1>1. PICK m \in S : \A j \in S : ~ (<<j, m>> \in Less)
  BY LessWellFounded, WFMin, Zenon
<1>2. ASSUME NEW j \in S
      PROVE  m <= j
  <2>1. m \in Nat /\ j \in Nat
    OBVIOUS
  <2>2. ~ (j < m)
    BY <1>1, <2>1, LessIntro, Zenon
  <2>3. QED
    BY <2>1, <2>2
<1>3. QED
  BY <1>2

(* The least element of a non-empty set of naturals, as Min chooses it.    *)
LEMMA MinIsLeast ==
  ASSUME NEW S \in SUBSET Nat, S # {}
  PROVE  /\ Min(S) \in S
         /\ \A j \in S : Min(S) <= j
  BY LeastExists, Zenon DEF Min

(* The greatest of those below a bound.                                    *)
LEMMA GreatestExists ==
  ASSUME NEW n \in Nat, NEW S \in SUBSET (0 .. n), S # {}
  PROVE  \E m \in S : \A j \in S : j <= m
<1> DEFINE D == {n - i : i \in S}
<1>1. D \subseteq Nat /\ D # {}
  <2>1. \A i \in S : i \in 0 .. n
    OBVIOUS
  <2>2. \A i \in S : n - i \in Nat
    BY <2>1
  <2>3. QED
    BY <2>2
<1>2. PICK d \in D : \A e \in D : d <= e
  BY <1>1, LeastExists, Zenon
<1>3. PICK m \in S : d = n - m
  BY <1>2
<1>4. ASSUME NEW j \in S
      PROVE  j <= m
  <2>1. n - m <= n - j
    BY <1>2, <1>3
  <2>2. QED
    BY <2>1
<1>5. QED
  BY <1>4

LEMMA MaxIsGreatest ==
  ASSUME NEW n \in Nat, NEW S \in SUBSET (0 .. n), S # {}
  PROVE  /\ Max(S) \in S
         /\ \A j \in S : j <= Max(S)
<1>1. \E m \in S : \A j \in S : m >= j
  <2>1. PICK m \in S : \A j \in S : j <= m
    BY GreatestExists
  <2>2. \A j \in S : m >= j
    BY <2>1
  <2> QED  BY <2>2
<1>2. Max(S) \in S /\ \A j \in S : Max(S) >= j
  BY <1>1, Zenon DEF Max
<1> QED  BY <1>2

LEMMA Induct ==
  ASSUME NEW T, 0 \in T, \A n \in Nat : n \in T => n + 1 \in T
  PROVE  \A n \in Nat : n \in T
<1> DEFINE U == {n \in Nat : n \notin T}
<1>1. SUFFICES ASSUME U # {} PROVE FALSE
  OBVIOUS
<1>2. U \in SUBSET Nat
  OBVIOUS
<1>3. PICK x \in U : \A y \in U : x <= y
  BY <1>1, <1>2, LeastExists, Zenon
<1>4. x \in Nat /\ x # 0 /\ x \notin T
  BY <1>3
<1>5. x - 1 \in Nat /\ x - 1 + 1 = x /\ x - 1 \notin U
  BY <1>3, <1>4
<1>6. QED
  BY <1>4, <1>5

-----------------------------------------------------------------------------
(***************************************************************************)
(* Lists and the elements they are put together from.                      *)
(***************************************************************************)
LEMMA ListOf ==
  ASSUME NEW S, NEW s \in Seq(S)
  PROVE  /\ IsList(s) /\ ToSet(s) \subseteq S
         /\ Len(s) \in Nat /\ DOMAIN s = 1 .. Len(s)
<1>1. /\ Len(s) \in Nat /\ DOMAIN s = 1 .. Len(s)
      /\ \A i \in 1 .. Len(s) : s[i] \in S
  BY LenProperties, ElementOfSeq
<1>2. s \in [1 .. Len(s) -> ToSet(s)]
  <2>1. s \in [1 .. Len(s) -> S]
    BY LenProperties
  <2>2. \A i \in 1 .. Len(s) : s[i] \in ToSet(s)
    BY <1>1 DEF ToSet
  <2> QED  BY <2>1, <2>2
<1>3. s \in Seq(ToSet(s))
  <2> DEFINE T == ToSet(s)
  <2>1. Seq(T) = UNION {[1 .. n -> T] : n \in Nat}
    BY SeqDef
  <2>2. s \in [1 .. Len(s) -> T] /\ Len(s) \in Nat
    BY <1>1, <1>2
  <2> HIDE DEF T
  <2>3. s \in Seq(T)
    BY <2>1, <2>2
  <2> QED  BY <2>3 DEF T
<1> QED  BY <1>1, <1>3 DEF IsList, ToSet

LEMMA ListIs ==
  ASSUME NEW s, IsList(s)
  PROVE  /\ Len(s) \in Nat /\ DOMAIN s = 1 .. Len(s)
         /\ s = [i \in 1 .. Len(s) |-> s[i]]
         /\ \A x : x \in ToSet(s) <=> \E i \in 1 .. Len(s) : x = s[i]
<1>1. s \in Seq(ToSet(s))
  BY DEF IsList
<1>2. Len(s) \in Nat /\ DOMAIN s = 1 .. Len(s) /\ s \in [1 .. Len(s) -> ToSet(s)]
  BY <1>1, LenProperties
<1>3. s = [i \in 1 .. Len(s) |-> s[i]]
  BY <1>2
<1>4. \A x : x \in ToSet(s) <=> \E i \in 1 .. Len(s) : x = s[i]
  BY <1>2 DEF ToSet
<1> QED  BY <1>2, <1>3, <1>4

\* A function on 1 .. n is a list.
LEMMA ListFrom ==
  ASSUME NEW n \in Nat, NEW s, s = [i \in 1 .. n |-> s[i]]
  PROVE  IsList(s) /\ Len(s) = n
<1> DEFINE S == {s[i] : i \in 1 .. n}
<1>1. s \in [1 .. n -> S]
  OBVIOUS
<1> HIDE DEF S
<1>2. s \in Seq(S)
  BY <1>1, SeqDef, Zenon
<1>3. IsList(s)
  BY <1>2, ListOf
<1>4. DOMAIN s = 1 .. n
  BY <1>1
<1>5. Len(s) \in Nat /\ DOMAIN s = 1 .. Len(s)
  BY <1>2, ListOf
<1>6. Len(s) = n
  BY <1>4, <1>5
<1> QED  BY <1>3, <1>6

LEMMA NoElements ==
  /\ IsList(<<>>) /\ Len(<<>>) = 0
  /\ \A x : x \notin ToSet(<<>>)
<1>1. <<>> \in Seq({})
  BY EmptySeq
<1>2. IsList(<<>>) /\ ToSet(<<>>) \subseteq {}
  <2> DEFINE e == <<>>
  <2>1. e \in Seq({})
    BY <1>1
  <2> HIDE DEF e
  <2>2. IsList(e) /\ ToSet(e) \subseteq {}
    BY <2>1, ListOf
  <2> QED  BY <2>2 DEF e
<1>3. Len(<<>>) = 0
  BY EmptySeq
<1> QED  BY <1>2, <1>3

LEMMA OneElement ==
  ASSUME NEW e
  PROVE  /\ IsList(<<e>>) /\ Len(<<e>>) = 1 /\ <<e>>[1] = e
         /\ \A x : x \in ToSet(<<e>>) <=> x = e
<1>1. <<e>> \in Seq({e}) /\ Len(<<e>>) = 1 /\ <<e>>[1] = e
  OBVIOUS
<1>2. IsList(<<e>>)
  BY <1>1, ListOf
<1>3. \A x : x \in ToSet(<<e>>) <=> x = e
  BY <1>1, <1>2, ListIs
<1> QED  BY <1>1, <1>2, <1>3

LEMMA Joined ==
  ASSUME NEW a, NEW b, IsList(a), IsList(b)
  PROVE  /\ IsList(a \o b) /\ Len(a \o b) = Len(a) + Len(b)
         /\ \A i \in 1 .. Len(a) : (a \o b)[i] = a[i]
         /\ \A i \in 1 .. Len(b) : (a \o b)[Len(a) + i] = b[i]
         /\ \A i \in 1 .. Len(a) + Len(b) :
              i <= Len(a) \/ \E j \in 1 .. Len(b) : i = Len(a) + j
         /\ \A x : x \in ToSet(a \o b) <=> x \in ToSet(a) \/ x \in ToSet(b)
<1> DEFINE S == ToSet(a) \cup ToSet(b)
<1>1. a \in Seq(S) /\ b \in Seq(S)
  <2>1. a \in Seq(ToSet(a)) /\ b \in Seq(ToSet(b))
    BY DEF IsList
  <2> QED  BY <2>1, SeqMonotonic, Zenon
<1> HIDE DEF S
<1>2. /\ a \o b \in Seq(S)
      /\ Len(a \o b) = Len(a) + Len(b)
      /\ \A i \in 1 .. Len(a) + Len(b) :
           (a \o b)[i] = IF i <= Len(a) THEN a[i] ELSE b[i - Len(a)]
  BY <1>1, ConcatProperties
<1>3. Len(a) \in Nat /\ Len(b) \in Nat
  BY ListIs
<1>4. IsList(a \o b)
  BY <1>2, ListOf
<1>5. \A i \in 1 .. Len(a) : (a \o b)[i] = a[i]
  BY <1>2, <1>3
<1>6. \A i \in 1 .. Len(b) : (a \o b)[Len(a) + i] = b[i]
  <2> TAKE i \in 1 .. Len(b)
  <2>1. Len(a) + i \in 1 .. Len(a) + Len(b) /\ ~ (Len(a) + i <= Len(a)) /\ Len(a) + i - Len(a) = i
    BY <1>3
  <2> QED  BY <1>2, <2>1
<1>7. \A i \in 1 .. Len(a) + Len(b) : i <= Len(a) \/ \E j \in 1 .. Len(b) : i = Len(a) + j
  <2> TAKE i \in 1 .. Len(a) + Len(b)
  <2>1. CASE ~ (i <= Len(a))
    <3>1. i - Len(a) \in 1 .. Len(b) /\ i = Len(a) + (i - Len(a))
      BY <1>3, <2>1
    <3> QED  BY <3>1
  <2> QED  BY <2>1
<1>8. \A x : x \in ToSet(a \o b) <=> x \in ToSet(a) \/ x \in ToSet(b)
  <2> TAKE x
  <2>1. x \in ToSet(a \o b) <=> \E i \in 1 .. Len(a) + Len(b) : x = (a \o b)[i]
    <3> DEFINE c == a \o b
    <3>1. IsList(c) /\ Len(c) = Len(a) + Len(b)
      BY <1>2, <1>4
    <3> HIDE DEF c
    <3>2. x \in ToSet(c) <=> \E i \in 1 .. Len(c) : x = c[i]
      BY <3>1, ListIs
    <3>3. x \in ToSet(c) <=> \E i \in 1 .. Len(a) + Len(b) : x = c[i]
      BY <3>1, <3>2
    <3> QED  BY <3>3 DEF c
  <2>2. x \in ToSet(a) <=> \E i \in 1 .. Len(a) : x = a[i]
    BY ListIs
  <2>3. x \in ToSet(b) <=> \E i \in 1 .. Len(b) : x = b[i]
    BY ListIs
  <2>4. ASSUME NEW i \in 1 .. Len(a) + Len(b), x = (a \o b)[i]
        PROVE  x \in ToSet(a) \/ x \in ToSet(b)
    <3>1. CASE i <= Len(a)
      <4>1. i \in 1 .. Len(a)
        BY <1>3, <3>1
      <4> QED  BY <1>5, <2>2, <2>4, <4>1
    <3>2. CASE \E j \in 1 .. Len(b) : i = Len(a) + j
      BY <1>6, <2>3, <2>4, <3>2
    <3> QED  BY <1>7, <3>1, <3>2
  <2>5. ASSUME NEW i \in 1 .. Len(a), x = a[i]
        PROVE  x \in ToSet(a \o b)
    <3>1. i \in 1 .. Len(a) + Len(b)
      BY <1>3
    <3> QED  BY <1>5, <2>1, <2>5, <3>1
  <2>6. ASSUME NEW i \in 1 .. Len(b), x = b[i]
        PROVE  x \in ToSet(a \o b)
    <3>1. Len(a) + i \in 1 .. Len(a) + Len(b)
      BY <1>3
    <3> QED  BY <1>6, <2>1, <2>6, <3>1
  <2> QED  BY <2>1, <2>2, <2>3, <2>4, <2>5, <2>6
<1> QED  BY <1>2, <1>4, <1>5, <1>6, <1>7, <1>8

(* What FlattenSeq builds up: its recursive function exists.               *)
IsFlat(g, ss, n) ==
  g = [i \in 1 .. n |-> IF i = 1 THEN ss[i] ELSE g[i - 1] \o ss[i]]

LEMMA FlatExists ==
  ASSUME NEW ss, NEW n \in Nat
  PROVE  \E g : IsFlat(g, ss, n)
<1> DEFINE T == {m \in Nat : \E g : IsFlat(g, ss, m)}
<1>1. 0 \in T
  <2> DEFINE g == [i \in 1 .. 0 |-> ss[i]]
  <2>1. IsFlat(g, ss, 0)
    BY DEF IsFlat
  <2> QED  BY <2>1
<1>2. ASSUME NEW m \in Nat, m \in T
      PROVE  m + 1 \in T
  <2>1. PICK g : IsFlat(g, ss, m)
    BY <1>2
  <2> DEFINE h == [i \in 1 .. m + 1 |->
                     IF i \in 1 .. m THEN g[i]
                     ELSE IF i = 1 THEN ss[i] ELSE g[i - 1] \o ss[i]]
  <2>2. \A i \in 1 .. m : h[i] = g[i]
    OBVIOUS
  <2>3. \A i \in 1 .. m : g[i] = IF i = 1 THEN ss[i] ELSE g[i - 1] \o ss[i]
    BY <2>1 DEF IsFlat
  <2>4. \A i \in 1 .. m + 1 : h[i] = IF i = 1 THEN ss[i] ELSE h[i - 1] \o ss[i]
    <3> TAKE i \in 1 .. m + 1
    <3>1. CASE i \in 1 .. m
      <4>1. i = 1 \/ i - 1 \in 1 .. m
        BY <3>1
      <4> QED  BY <2>2, <2>3, <3>1, <4>1
    <3>2. CASE i \notin 1 .. m
      <4>1. i = 1 \/ i - 1 \in 1 .. m
        BY <3>2
      <4>2. h[i] = IF i = 1 THEN ss[i] ELSE g[i - 1] \o ss[i]
        BY <3>2
      <4> QED  BY <2>2, <4>1, <4>2
    <3> QED  BY <3>1, <3>2
  <2>5. h = [i \in 1 .. m + 1 |-> h[i]]
    OBVIOUS
  <2> HIDE DEF h
  <2>6. h = [i \in 1 .. m + 1 |-> IF i = 1 THEN ss[i] ELSE h[i - 1] \o ss[i]]
    BY <2>4, <2>5
  <2>7. IsFlat(h, ss, m + 1)
    BY <2>6 DEF IsFlat
  <2> QED  BY <2>7
<1> HIDE DEF T
<1>3. \A m \in Nat : m \in T
  BY <1>1, <1>2, Induct
<1> QED  BY <1>3 DEF T

LEMMA FlatIs ==
  ASSUME NEW ss, NEW n \in Nat \ {0}, Len(ss) = n
  PROVE  \E g : IsFlat(g, ss, n) /\ FlattenSeq(ss) = g[n]
<1> DEFINE g == CHOOSE h : IsFlat(h, ss, n)
<1>1. IsFlat(g, ss, n)
  BY FlatExists, Zenon
<1>2. FlattenSeq(ss) = g[n]
  BY Zenon DEF FlattenSeq, IsFlat
<1> QED  BY <1>1, <1>2

LEMMA Flattened ==
  ASSUME NEW n \in Nat, NEW ss, ss = [i \in 1 .. n |-> ss[i]],
         \A i \in 1 .. n : IsList(ss[i])
  PROVE  /\ IsList(FlattenSeq(ss))
         /\ \A x : x \in ToSet(FlattenSeq(ss)) <=> \E i \in 1 .. n : x \in ToSet(ss[i])
<1>1. IsList(ss) /\ Len(ss) = n
  BY ListFrom
<1>2. CASE n = 0
  <2>1. FlattenSeq(ss) = ss
    BY <1>1, <1>2, Zenon DEF FlattenSeq
  <2>2. \A x : x \notin ToSet(ss)
    BY <1>1, <1>2, ListIs
  <2>3. \A i \in 1 .. n : FALSE
    BY <1>2
  <2> QED  BY <1>1, <2>1, <2>2, <2>3
<1>3. CASE n # 0
  <2>1. PICK g : IsFlat(g, ss, n) /\ FlattenSeq(ss) = g[n]
    BY <1>1, <1>3, FlatIs
  <2>2. \A i \in 1 .. n : g[i] = IF i = 1 THEN ss[i] ELSE g[i - 1] \o ss[i]
    BY <2>1 DEF IsFlat
  <2> DEFINE Sums(m) == /\ IsList(g[m])
                        /\ \A x : x \in ToSet(g[m]) <=> \E i \in 1 .. m : x \in ToSet(ss[i])
             T == {m \in Nat : m \in 1 .. n => Sums(m)}
  <2>3. 0 \in T
    OBVIOUS
  <2>4. ASSUME NEW m \in Nat, m \in T
        PROVE  m + 1 \in T
    <3>1. CASE m + 1 \notin 1 .. n
      BY <3>1
    <3>2. CASE m = 0 /\ m + 1 \in 1 .. n
      <4>1. g[1] = ss[1] /\ 1 \in 1 .. n
        BY <2>2, <3>2
      <4>2. \A i \in 1 .. 1 : i = 1
        OBVIOUS
      <4>3. Sums(1)
        BY <4>1, <4>2
      <4>4. m + 1 = 1
        BY <3>2
      <4> QED  BY <4>3, <4>4
    <3>3. CASE m # 0 /\ m + 1 \in 1 .. n
      <4>1. m \in 1 .. n /\ m + 1 # 1 /\ m + 1 - 1 = m
        BY <3>3
      <4>2. Sums(m)
        BY <2>4, <4>1
      <4>3. g[m + 1] = g[m] \o ss[m + 1]
        <5>1. g[m + 1] = IF m + 1 = 1 THEN ss[m + 1] ELSE g[m + 1 - 1] \o ss[m + 1]
          BY <2>2, <3>3
        <5> QED  BY <4>1, <5>1
      <4>4. IsList(ss[m + 1])
        BY <3>3
      <4>5. /\ IsList(g[m] \o ss[m + 1])
            /\ \A x : x \in ToSet(g[m] \o ss[m + 1]) <=> x \in ToSet(g[m]) \/ x \in ToSet(ss[m + 1])
        BY <4>2, <4>4, Joined
      <4>6. \A i : i \in 1 .. m + 1 <=> i \in 1 .. m \/ i = m + 1
        BY <3>3
      <4>7. Sums(m + 1)
        BY <4>2, <4>3, <4>5, <4>6
      <4> QED  BY <4>7
    <3> QED  BY <3>1, <3>2, <3>3
  <2> HIDE DEF T
  <2>5. n \in T
    BY <2>3, <2>4, Induct
  <2>6. Sums(n)
    BY <1>3, <2>5 DEF T
  <2> QED  BY <2>1, <2>6
<1> QED  BY <1>2, <1>3

LEMMA SameLists ==
  ASSUME NEW a, NEW b, IsList(a), IsList(b), Len(a) = Len(b),
         \A i \in 1 .. Len(a) : a[i] = b[i]
  PROVE  a = b
<1>1. a = [i \in 1 .. Len(a) |-> a[i]] /\ b = [i \in 1 .. Len(b) |-> b[i]]
  BY ListIs
<1>2. [i \in 1 .. Len(a) |-> a[i]] = [i \in 1 .. Len(a) |-> b[i]]
  OBVIOUS
<1> QED  BY <1>1, <1>2

LEMMA NothingJoined ==
  ASSUME NEW a, IsList(a)
  PROVE  <<>> \o a = a /\ a \o <<>> = a
  BY ConcatEmptySeq DEF IsList

LEMMA EmptyIs ==
  ASSUME NEW a, IsList(a)
  PROVE  Len(a) = 0 <=> a = <<>>
<1>1. Len(a) = 0 => a = <<>>
  BY NoElements, SameLists
<1> QED  BY <1>1, NoElements

LEMMA NoneIn ==
  ASSUME NEW a, IsList(a), \A x : x \notin ToSet(a)
  PROVE  a = <<>>
<1>1. Len(a) \in Nat /\ \A i \in 1 .. Len(a) : a[i] \in ToSet(a)
  BY ListIs
<1>2. Len(a) # 0 => 1 \in 1 .. Len(a)
  BY <1>1
<1>3. Len(a) = 0
  BY <1>1, <1>2
<1> QED  BY <1>3, EmptyIs

LEMMA JoinedJoined ==
  ASSUME NEW a, NEW b, NEW c, IsList(a), IsList(b), IsList(c)
  PROVE  (a \o b) \o c = a \o (b \o c)
<1> DEFINE S == ToSet(a) \cup ToSet(b) \cup ToSet(c)
<1>1. a \in Seq(S) /\ b \in Seq(S) /\ c \in Seq(S)
  <2>1. a \in Seq(ToSet(a)) /\ b \in Seq(ToSet(b)) /\ c \in Seq(ToSet(c))
    BY DEF IsList
  <2>2. ToSet(a) \subseteq S /\ ToSet(b) \subseteq S /\ ToSet(c) \subseteq S
    OBVIOUS
  <2> QED  BY <2>1, <2>2, SeqMonotonic, Zenon
<1> HIDE DEF S
<1> QED  BY <1>1, ConcatAssociative

(* The part of a list after its first a elements, up to the b-th.          *)
LEMMA Part ==
  ASSUME NEW w, IsList(w), NEW a \in Nat, NEW b \in Nat, b <= Len(w)
  PROVE  /\ IsList(SubSeq(w, a + 1, b))
         /\ Len(SubSeq(w, a + 1, b)) = IF a <= b THEN b - a ELSE 0
         /\ \A i \in 1 .. b - a : SubSeq(w, a + 1, b)[i] = w[a + i]
         /\ b <= a => SubSeq(w, a + 1, b) = <<>>
<1>1. Len(w) \in Nat /\ w \in Seq(ToSet(w))
  BY ListIs DEF IsList
<1>2. \A i \in a + 1 .. b : w[i] \in ToSet(w)
  BY <1>1, ElementOfSeq
<1>3. /\ SubSeq(w, a + 1, b) \in Seq(ToSet(w))
      /\ Len(SubSeq(w, a + 1, b)) = IF a + 1 <= b THEN b - (a + 1) + 1 ELSE 0
      /\ \A i \in 1 .. b - (a + 1) + 1 : SubSeq(w, a + 1, b)[i] = w[a + 1 + i - 1]
  BY <1>2, SubSeqProperties
<1>4. IsList(SubSeq(w, a + 1, b))
  BY <1>3, ListOf
<1>5. Len(SubSeq(w, a + 1, b)) = IF a <= b THEN b - a ELSE 0
  BY <1>3
<1>6. \A i \in 1 .. b - a : SubSeq(w, a + 1, b)[i] = w[a + i]
  <2> TAKE i \in 1 .. b - a
  <2>1. i \in 1 .. b - (a + 1) + 1 /\ a + 1 + i - 1 = a + i
    OBVIOUS
  <2> QED  BY <1>3, <2>1
<1> QED  BY <1>4, <1>5, <1>6, EmptyIs

LEMMA PartsJoin ==
  ASSUME NEW w, IsList(w), NEW a \in Nat, NEW b \in Nat, NEW c \in Nat,
         a <= b, b <= c, c <= Len(w)
  PROVE  SubSeq(w, a + 1, b) \o SubSeq(w, b + 1, c) = SubSeq(w, a + 1, c)
<1>1. Len(w) \in Nat /\ w \in Seq(ToSet(w))
  BY ListIs DEF IsList
<1>2. a + 1 \in 1 .. Len(w) + 1 /\ b \in a + 1 - 1 .. Len(w) /\ c \in b .. Len(w)
  BY <1>1
<1> QED  BY <1>1, <1>2, ConcatAdjacentSubSeq

LEMMA WholePart ==
  ASSUME NEW w, IsList(w)
  PROVE  SubSeq(w, 1, Len(w)) = w
  BY SubSeqFull DEF IsList

(* FlattenSeq, step by step: g[i] is what the first i lists put together.  *)
Steps(g, ss, n) ==
  /\ g[0] = <<>> /\ g[n] = FlattenSeq(ss)
  /\ \A i \in 0 .. n - 1 : g[i + 1] = g[i] \o ss[i + 1]
  /\ \A i \in 0 .. n : IsList(g[i])

LEMMA FlatSteps ==
  ASSUME NEW n \in Nat, NEW ss, IsList(ss), Len(ss) = n,
         \A i \in 1 .. n : IsList(ss[i])
  PROVE  \E g : Steps(g, ss, n)
<1>1. IsList(ss) /\ Len(ss) = n
  OBVIOUS
<1>2. CASE n = 0
  <2>1. FlattenSeq(ss) = ss
    BY <1>1, <1>2, Zenon DEF FlattenSeq
  <2>2. ss = <<>>
    BY <1>1, <1>2, EmptyIs
  <2> DEFINE g == [i \in {0} |-> <<>>]
  <2>3. g[0] = <<>> /\ g[n] = FlattenSeq(ss)
    BY <1>2, <2>1, <2>2
  <2>4. \A i \in 0 .. n - 1 : FALSE
    BY <1>2
  <2>5. \A i \in 0 .. n : IsList(g[i])
    BY <1>2, NoElements
  <2> HIDE DEF g
  <2> QED  BY <2>3, <2>4, <2>5 DEF Steps
<1>3. CASE n # 0
  <2>1. PICK h : IsFlat(h, ss, n) /\ FlattenSeq(ss) = h[n]
    BY <1>1, <1>3, FlatIs
  <2>2. \A i \in 1 .. n : h[i] = IF i = 1 THEN ss[i] ELSE h[i - 1] \o ss[i]
    BY <2>1 DEF IsFlat
  <2> DEFINE g == [i \in 0 .. n |-> IF i = 0 THEN <<>> ELSE h[i]]
  <2>3. g[0] = <<>> /\ g[n] = FlattenSeq(ss) /\ \A i \in 1 .. n : g[i] = h[i]
    BY <1>3, <2>1
  <2> HIDE DEF g
  <2>4. \A i \in 0 .. n - 1 : g[i + 1] = g[i] \o ss[i + 1]
    <3> TAKE i \in 0 .. n - 1
    <3> DEFINE k == i + 1
    <3>0. k \in 1 .. n /\ k - 1 = i
      OBVIOUS
    <3>1. CASE i = 0
      <4>1. g[i] = <<>> /\ g[k] = ss[k]
        BY <2>2, <2>3, <3>0, <3>1
      <4>2. <<>> \o ss[k] = ss[k]
        BY <3>0, NothingJoined
      <4> QED  BY <4>1, <4>2
    <3>2. CASE i # 0
      <4>1. i \in 1 .. n /\ k # 1
        BY <3>2
      <4>2. h[k] = h[k - 1] \o ss[k]
        BY <2>2, <3>0, <4>1
      <4> QED  BY <2>3, <3>0, <4>1, <4>2
    <3> QED  BY <3>1, <3>2
  <2> HIDE DEF g
  <2> DEFINE T == {m \in Nat : m \in 0 .. n => IsList(g[m])}
  <2>5. 0 \in T
    BY <2>3, NoElements
  <2>6. ASSUME NEW m \in Nat, m \in T
        PROVE  m + 1 \in T
    <3>1. CASE m + 1 \in 0 .. n
      <4>1. m + 1 \in 1 .. n /\ m \in 0 .. n - 1 /\ m \in 0 .. n
        BY <3>1
      <4>2. g[m + 1] = g[m] \o ss[m + 1] /\ IsList(g[m]) /\ IsList(ss[m + 1])
        BY <2>4, <2>6, <4>1
      <4>3. IsList(g[m] \o ss[m + 1])
        BY <4>2, Joined
      <4>4. IsList(g[m + 1])
        BY <4>2, <4>3, Zenon
      <4> QED  BY <4>4
    <3> QED  BY <3>1
  <2> HIDE DEF T
  <2>7. \A m \in Nat : m \in T
    BY <2>5, <2>6, Induct
  <2>8. \A i \in 0 .. n : IsList(g[i])
    BY <2>7 DEF T
  <2> QED  BY <2>3, <2>4, <2>8 DEF Steps
<1> QED  BY <1>2, <1>3

\* Lists of at most one element each: what they make is no longer than
\* they are many.
LEMMA FlatLength ==
  ASSUME NEW n \in Nat, NEW ss, IsList(ss), Len(ss) = n,
         \A i \in 1 .. n : IsList(ss[i]) /\ Len(ss[i]) \in 0 .. 1
  PROVE  Len(FlattenSeq(ss)) \in 0 .. n
<1>0. PICK g : Steps(g, ss, n)
  BY FlatSteps
<1>1. /\ g[0] = <<>> /\ g[n] = FlattenSeq(ss)
      /\ \A i \in 0 .. n - 1 : g[i + 1] = g[i] \o ss[i + 1]
      /\ \A i \in 0 .. n : IsList(g[i])
  BY <1>0 DEF Steps
<1> DEFINE T == {m \in Nat : m \in 0 .. n => Len(g[m]) \in 0 .. m}
<1>2. 0 \in T
  BY <1>1, NoElements
<1>3. ASSUME NEW m \in Nat, m \in T
      PROVE  m + 1 \in T
  <2>1. CASE m + 1 \in 0 .. n
    <3>1. m + 1 \in 1 .. n /\ m \in 0 .. n - 1 /\ m \in 0 .. n
      BY <2>1
    <3>2. g[m + 1] = g[m] \o ss[m + 1] /\ IsList(g[m])
      BY <1>1, <3>1
    <3>3. Len(g[m]) \in 0 .. m
      BY <1>3, <3>1
    <3>4. IsList(ss[m + 1]) /\ Len(ss[m + 1]) \in 0 .. 1
      BY <3>1
    <3>5. Len(g[m] \o ss[m + 1]) = Len(g[m]) + Len(ss[m + 1])
      BY <3>2, <3>4, Joined
    <3>6. Len(g[m + 1]) = Len(g[m]) + Len(ss[m + 1])
      BY <3>2, <3>5
    <3>7. \A a \in 0 .. m, b \in 0 .. 1 : a + b \in 0 .. m + 1
      OBVIOUS
    <3>8. Len(g[m + 1]) \in 0 .. m + 1
      BY <3>3, <3>4, <3>6, <3>7, Zenon
    <3> QED  BY <3>8
  <2> QED  BY <2>1
<1> HIDE DEF T
<1>4. \A m \in Nat : m \in T
  BY <1>2, <1>3, Induct
<1>5. Len(g[n]) \in 0 .. n
  BY <1>4 DEF T
<1> QED  BY <1>1, <1>5

-----------------------------------------------------------------------------
(***************************************************************************)
(* The elements that are kept of a list.                                   *)
(***************************************************************************)
LEMMA KeptIs ==
  ASSUME NEW s, IsList(s), NEW I
  PROVE  /\ IsList(Kept(s, I)) /\ Len(Kept(s, I)) \in 0 .. Len(s)
         /\ \A x : x \in ToSet(Kept(s, I)) <=> \E i \in 1 .. Len(s) : i \in I /\ x = s[i]
<1> DEFINE n == Len(s)
           ss == [i \in 1 .. n |-> IF i \in I THEN <<s[i]>> ELSE <<>>]
<1>1. n \in Nat
  BY ListIs
<1>2. \A i \in 1 .. n : /\ IsList(ss[i]) /\ Len(ss[i]) \in 0 .. 1
                        /\ \A x : x \in ToSet(ss[i]) <=> i \in I /\ x = s[i]
  <2> TAKE i \in 1 .. n
  <2>1. CASE i \in I
    BY <2>1, OneElement
  <2>2. CASE i \notin I
    BY <2>2, NoElements
  <2> QED  BY <2>1, <2>2
<1>3. ss = [i \in 1 .. n |-> ss[i]]
  OBVIOUS
<1>4. Kept(s, I) = FlattenSeq(ss)
  BY DEF Kept
<1> HIDE DEF ss
<1>5. /\ IsList(FlattenSeq(ss))
      /\ \A x : x \in ToSet(FlattenSeq(ss)) <=> \E i \in 1 .. n : x \in ToSet(ss[i])
  BY <1>1, <1>2, <1>3, Flattened
<1>6. Len(FlattenSeq(ss)) \in 0 .. n
  <2>1. IsList(ss) /\ Len(ss) = n
    BY <1>1, <1>3, ListFrom
  <2> QED  BY <1>1, <1>2, <2>1, FlatLength
<1> QED  BY <1>2, <1>4, <1>5, <1>6

-----------------------------------------------------------------------------
(***************************************************************************)
(* The elements of a list in a strict order of its places.                 *)
(***************************************************************************)
StrictOrder(R, n) ==
  /\ \A i \in 1 .. n : <<i, i>> \notin R
  /\ \A i, j \in 1 .. n : i # j => <<i, j>> \in R \/ <<j, i>> \in R
  /\ \A i, j, k \in 1 .. n : <<i, j>> \in R /\ <<j, k>> \in R => <<i, k>> \in R

Preceding(R, n, i) == {j \in 1 .. n : <<j, i>> \in R}

LEMMA PrecedingIs ==
  ASSUME NEW n \in Nat, NEW R, StrictOrder(R, n)
  PROVE  /\ \A i \in 1 .. n : /\ IsFiniteSet(Preceding(R, n, i))
                              /\ Cardinality(Preceding(R, n, i)) \in 0 .. n - 1
         /\ \A i, j \in 1 .. n : <<i, j>> \in R =>
               Cardinality(Preceding(R, n, i)) < Cardinality(Preceding(R, n, j))
<1>1. IsFiniteSet(1 .. n) /\ Cardinality(1 .. n) = n
  BY FS_Interval
<1>2. ASSUME NEW i \in 1 .. n
      PROVE  /\ IsFiniteSet(Preceding(R, n, i))
             /\ Cardinality(Preceding(R, n, i)) \in 0 .. n - 1
  <2>1. Preceding(R, n, i) \in SUBSET ((1 .. n) \ {i})
    BY DEF Preceding, StrictOrder
  <2>2. IsFiniteSet((1 .. n) \ {i}) /\ Cardinality((1 .. n) \ {i}) = n - 1
    BY <1>1, FS_RemoveElement
  <2>3. IsFiniteSet(Preceding(R, n, i)) /\ Cardinality(Preceding(R, n, i)) <= n - 1
    BY <2>1, <2>2, FS_Subset
  <2>4. Cardinality(Preceding(R, n, i)) \in Nat
    BY <2>3, FS_CardinalityType
  <2> QED  BY <2>3, <2>4
<1>3. ASSUME NEW i \in 1 .. n, NEW j \in 1 .. n, <<i, j>> \in R
      PROVE  Cardinality(Preceding(R, n, i)) < Cardinality(Preceding(R, n, j))
  <2>1. Preceding(R, n, i) \in SUBSET (Preceding(R, n, j) \ {i}) /\ i \in Preceding(R, n, j)
    BY <1>3 DEF Preceding, StrictOrder
  <2>2. IsFiniteSet(Preceding(R, n, j)) /\ Cardinality(Preceding(R, n, j)) \in Nat
    BY <1>2
  <2>3. /\ IsFiniteSet(Preceding(R, n, j) \ {i})
        /\ Cardinality(Preceding(R, n, j) \ {i}) = Cardinality(Preceding(R, n, j)) - 1
    BY <2>1, <2>2, FS_RemoveElement
  <2>4. Cardinality(Preceding(R, n, i)) <= Cardinality(Preceding(R, n, j)) - 1
    BY <2>1, <2>3, FS_Subset
  <2>5. Cardinality(Preceding(R, n, i)) \in Nat
    BY <1>2
  <2> QED  BY <2>2, <2>4, <2>5
<1> QED  BY <1>2, <1>3

\* Every place is taken: by pigeonhole, since no two have it.
LEMMA PlaceTaken ==
  ASSUME NEW n \in Nat, NEW R, StrictOrder(R, n), NEW k \in 1 .. n
  PROVE  \E i \in 1 .. n : /\ Cardinality(Preceding(R, n, i)) = k - 1
                           /\ \A j \in 1 .. n :
                                 Cardinality(Preceding(R, n, j)) = k - 1 => j = i
<1> DEFINE c(i) == Cardinality(Preceding(R, n, i))
<1>1. \A i \in 1 .. n : c(i) \in 0 .. n - 1
  BY PrecedingIs
<1>2. \A i, j \in 1 .. n : c(i) = c(j) => i = j
  <2> SUFFICES ASSUME NEW i \in 1 .. n, NEW j \in 1 .. n, i # j
               PROVE  c(i) # c(j)
    OBVIOUS
  <2>1. c(i) \in Nat /\ c(j) \in Nat
    BY <1>1
  <2>2. CASE <<i, j>> \in R
    <3>1. c(i) < c(j)
      BY <2>2, PrecedingIs
    <3> HIDE DEF c
    <3> QED  BY <2>1, <3>1
  <2>3. CASE <<j, i>> \in R
    <3>1. c(j) < c(i)
      BY <2>3, PrecedingIs
    <3> HIDE DEF c
    <3> QED  BY <2>1, <3>1
  <2> QED  BY <2>2, <2>3 DEF StrictOrder
<1> HIDE DEF c
<1>3. \E i \in 1 .. n : c(i) = k - 1
  <2> SUFFICES ASSUME \A i \in 1 .. n : c(i) # k - 1
               PROVE  FALSE
    OBVIOUS
  <2> DEFINE P == (0 .. n - 1) \ {k - 1}
             f == [i \in 1 .. n |-> c(i)]
  <2>1. IsFiniteSet(1 .. n) /\ Cardinality(1 .. n) = n
    BY FS_Interval
  <2>2. IsFiniteSet(0 .. n - 1) /\ Cardinality(0 .. n - 1) = n
    <3> DEFINE m == n - 1
    <3>1. 0 \in Int /\ m \in Int /\ ~ (0 > m) /\ m - 0 + 1 = n
      OBVIOUS
    <3> HIDE DEF m
    <3>2. IsFiniteSet(0 .. m) /\ Cardinality(0 .. m) = n
      BY <3>1, FS_Interval
    <3> QED  BY <3>2 DEF m
  <2>3. k - 1 \in 0 .. n - 1
    OBVIOUS
  <2>4. IsFiniteSet(P) /\ Cardinality(P) = n - 1
    BY <2>2, <2>3, FS_RemoveElement
  <2>5. f \in [1 .. n -> P]
    BY <1>1
  <2> HIDE DEF P
  <2>6. \A i \in 1 .. n : f[i] = c(i)
    OBVIOUS
  <2> HIDE DEF f
  <2>7. Cardinality(P) < Cardinality(1 .. n)
    BY <2>1, <2>4
  <2>8. \E x, y \in 1 .. n : x # y /\ f[x] = f[y]
    BY <2>1, <2>4, <2>5, <2>7, FS_PigeonHole
  <2> QED  BY <1>2, <2>6, <2>8
<1>4. PICK i \in 1 .. n : c(i) = k - 1
  BY <1>3
<1>5. \A j \in 1 .. n : c(j) = k - 1 => j = i
  BY <1>2, <1>4
<1> QED  BY <1>4, <1>5 DEF c

(* What Arranged does: at[k] is the place that k - 1 others precede.       *)
\* at[k] is the place in s of the k-th element in the order.
Sorting(at, s, R) ==
  /\ at \in [1 .. Len(s) -> 1 .. Len(s)]
  /\ \A k \in 1 .. Len(s) : /\ Arranged(s, R)[k] = s[at[k]]
                            /\ Cardinality(Preceding(R, Len(s), at[k])) = k - 1
  /\ \A i \in 1 .. Len(s) : \E k \in 1 .. Len(s) : at[k] = i
  /\ \A j, k \in 1 .. Len(s) : at[j] = at[k] => j = k
  /\ \A j, k \in 1 .. Len(s) : <<at[j], at[k]>> \in R => j < k
  /\ \A j, k \in 1 .. Len(s) : j < k => <<at[j], at[k]>> \in R

LEMMA ArrangedIs ==
  ASSUME NEW s, IsList(s), NEW R, StrictOrder(R, Len(s))
  PROVE  /\ IsList(Arranged(s, R)) /\ Len(Arranged(s, R)) = Len(s)
         /\ \E at : Sorting(at, s, R)
<1> DEFINE n == Len(s)
           c(i) == Cardinality(Preceding(R, n, i))
           before == [i \in DOMAIN s |-> Cardinality({j \in DOMAIN s : <<j, i>> \in R})]
           at == [k \in 1 .. n |-> CHOOSE i \in DOMAIN s : before[i] = k - 1]
<1>1. n \in Nat /\ DOMAIN s = 1 .. n
  BY ListIs
<1>2. \A i \in 1 .. n : before[i] = c(i)
  BY <1>1 DEF Preceding
<1>3. Arranged(s, R) = [k \in 1 .. n |-> s[at[k]]]
  BY <1>1 DEF Arranged
<1> HIDE DEF n, c, before
<1>4. \A k \in 1 .. n : at[k] \in 1 .. n /\ c(at[k]) = k - 1
  <2> TAKE k \in 1 .. n
  <2>1. \E i \in 1 .. n : c(i) = k - 1
    BY <1>1, PlaceTaken DEF c, n
  <2>2. \E i \in DOMAIN s : before[i] = k - 1
    BY <1>1, <1>2, <2>1
  <2>3. at[k] \in DOMAIN s /\ before[at[k]] = k - 1
    BY <2>2
  <2> QED  BY <1>1, <1>2, <2>3
<1>5. at \in [1 .. n -> 1 .. n]
  BY <1>4
<1> HIDE DEF at
<1>6. IsList(Arranged(s, R)) /\ Len(Arranged(s, R)) = n
  BY <1>1, <1>3, ListFrom
<1>7. \A k \in 1 .. n : Arranged(s, R)[k] = s[at[k]]
  BY <1>3
<1>8. \A i \in 1 .. n : \E k \in 1 .. n : at[k] = i
  <2> TAKE i \in 1 .. n
  <2>1. c(i) \in 0 .. n - 1
    BY <1>1, PrecedingIs DEF c, n
  <2> DEFINE k == c(i) + 1
  <2>2. k \in 1 .. n /\ k - 1 = c(i)
    BY <1>1, <2>1
  <2> HIDE DEF k
  <2>3. c(at[k]) = c(i) /\ at[k] \in 1 .. n
    BY <1>4, <2>2
  <2>4. at[k] = i
    BY <1>1, <2>2, <2>3, PlaceTaken DEF c, n
  <2> QED  BY <2>2, <2>4
<1>9. \A j, k \in 1 .. n : at[j] = at[k] => j = k
  <2> TAKE j, k \in 1 .. n
  <2>1. c(at[j]) = j - 1 /\ c(at[k]) = k - 1
    BY <1>4
  <2> QED  BY <1>1, <2>1
<1>10. \A j, k \in 1 .. n : <<at[j], at[k]>> \in R => j < k
  <2> TAKE j, k \in 1 .. n
  <2>1. c(at[j]) = j - 1 /\ c(at[k]) = k - 1 /\ at[j] \in 1 .. n /\ at[k] \in 1 .. n
    BY <1>4
  <2>2. <<at[j], at[k]>> \in R => c(at[j]) < c(at[k])
    BY <1>1, <2>1, PrecedingIs DEF c, n
  <2> QED  BY <1>1, <2>1, <2>2
<1>11. \A j, k \in 1 .. n : j < k => <<at[j], at[k]>> \in R
  <2> TAKE j, k \in 1 .. n
  <2> HAVE j < k
  <2>1. at[j] \in 1 .. n /\ at[k] \in 1 .. n /\ at[j] # at[k]
    BY <1>1, <1>4, <1>9
  <2>2. ~ (<<at[k], at[j]>> \in R)
    <3>1. <<at[k], at[j]>> \in R => k < j
      BY <1>10
    <3> QED  BY <1>1, <3>1
  <2> QED  BY <2>1, <2>2 DEF StrictOrder, n
<1>12. Sorting(at, s, R)
  BY <1>4, <1>5, <1>7, <1>8, <1>9, <1>10, <1>11 DEF Sorting, c, n
<1> QED  BY <1>6, <1>12 DEF n

\* t is a part of s that keeps its order: e says where its elements stand in
\* s, and it leaves out only places that m others precede.
PartOf(e, t, Q, s, R, m) ==
  /\ \A i \in 1 .. Len(t) : t[i] = s[e[i]]
  /\ \A i, j \in 1 .. Len(t) : e[i] = e[j] => i = j
  /\ \A i, j \in 1 .. Len(t) : <<i, j>> \in Q <=> <<e[i], e[j]>> \in R
  /\ \A j \in 1 .. Len(s) : \/ \E i \in 1 .. Len(t) : e[i] = j
                            \/ m <= Cardinality(Preceding(R, Len(s), j))

\* Then its first m in the order are those of s.
LEMMA TopOfPart ==
  ASSUME NEW s, IsList(s), NEW R, StrictOrder(R, Len(s)),
         NEW t, IsList(t), NEW Q, StrictOrder(Q, Len(t)),
         NEW e \in [1 .. Len(t) -> 1 .. Len(s)], NEW m \in Nat,
         PartOf(e, t, Q, s, R, m), NEW p \in 1 .. m, p <= Len(s)
  PROVE  p <= Len(t) /\ Arranged(t, Q)[p] = Arranged(s, R)[p]
<1> DEFINE n    == Len(s)
           l    == Len(t)
           c(i) == Cardinality(Preceding(R, n, i))
<1>1. n \in Nat /\ l \in Nat /\ p \in 1 .. n
  <2>1. n \in Nat /\ l \in Nat
    BY ListIs
  <2> QED  BY <2>1
<1>2. PICK at : Sorting(at, s, R)
  BY ArrangedIs
<1> DEFINE i == at[p]
<1>3. i \in 1 .. n /\ c(i) = p - 1 /\ Arranged(s, R)[p] = s[i]
  BY <1>1, <1>2 DEF Sorting
<1> HIDE DEF i
<1>4. \A j \in 1 .. n : c(j) \in Nat
  BY <1>1, PrecedingIs
<1>5. PICK k \in 1 .. l : e[k] = i
  BY <1>1, <1>3 DEF PartOf
<1> DEFINE P == Preceding(Q, l, k)
           S == Preceding(R, n, i)
           f == [j \in P |-> e[j]]
<1>6. \A j \in P : j \in 1 .. l /\ e[j] \in S
  BY <1>5 DEF Preceding, PartOf
<1>7. \A j \in S : \E x \in P : e[x] = j
  <2> TAKE j \in S
  <2>1. j \in 1 .. n /\ <<j, i>> \in R
    BY DEF Preceding
  <2>2. c(j) < c(i)
    BY <1>1, <1>3, <2>1, PrecedingIs
  <2>3. c(j) \in Nat /\ c(i) = p - 1
    BY <1>3, <1>4, <2>1
  <2>4. ~ (m <= c(j))
    BY <2>2, <2>3
  <2>5. PICK x \in 1 .. l : e[x] = j
    BY <2>1, <2>4 DEF PartOf
  <2> QED  BY <1>5, <2>1, <2>5 DEF Preceding, PartOf
<1>8. f \in Bijection(P, S)
  <2>1. f \in [P -> S] /\ \A x \in P : f[x] = e[x]
    BY <1>6
  <2> HIDE DEF f
  <2>2. \A x, y \in P : f[x] = f[y] => x = y
    BY <1>6, <2>1 DEF PartOf
  <2>3. \A j \in S : \E x \in P : f[x] = j
    BY <1>7, <2>1
  <2> HIDE DEF P, S
  <2>4. f \in Injection(P, S)
    BY <2>1, <2>2 DEF Injection, IsInjective
  <2>5. f \in Surjection(P, S)
    BY <2>1, <2>3 DEF Surjection
  <2> QED  BY <2>4, <2>5 DEF Bijection
<1>9. IsFiniteSet(P)
  BY <1>1, PrecedingIs
<1>10. Cardinality(P) = Cardinality(S)
  <2> HIDE DEF P, S, f
  <2> QED  BY <1>8, <1>9, FS_Bijection DEF ExistsBijection
<1>11. Cardinality(Preceding(Q, l, k)) = p - 1
  BY <1>3, <1>10
<1>12. Cardinality(Preceding(Q, l, k)) \in 0 .. l - 1
  BY <1>1, <1>5, PrecedingIs
<1>13. p \in 1 .. l
  BY <1>1, <1>11, <1>12
<1>14. Arranged(t, Q)[p] = t[k]
  <2>1. PICK a : Sorting(a, t, Q)
    BY ArrangedIs
  <2>2. a[p] \in 1 .. l /\ Cardinality(Preceding(Q, l, a[p])) = p - 1
    BY <1>13, <2>1 DEF Sorting
  <2>3. a[p] = k
    BY <1>1, <1>5, <1>11, <1>13, <2>2, PlaceTaken
  <2> QED  BY <1>13, <2>1, <2>3 DEF Sorting
<1>15. t[k] = s[i]
  BY <1>5 DEF PartOf
<1> QED  BY <1>3, <1>13, <1>14, <1>15

-----------------------------------------------------------------------------
(***************************************************************************)
(* Spelling out: the pieces that are met on the way past the last place.   *)
(***************************************************************************)
IsSpelling(f, piece, next) ==
  f = [i \in 1 .. Len(piece) + 1 |->
         IF i > Len(piece) THEN <<>> ELSE piece[i] \o f[next[i]]]

\* What is spelled from each place on.
Spelling(piece, next) == CHOOSE f : IsSpelling(f, piece, next)

\* A way that leads on from each place.
Onward(next, n) == \A i \in 1 .. n : next[i] \in i + 1 .. n + 1

SpeltFrom(g, piece, next, i) ==
  g[i] = IF i > Len(piece) THEN <<>> ELSE piece[i] \o g[next[i]]

LEMMA SpellingExists ==
  ASSUME NEW piece, NEW next, Len(piece) \in Nat, Onward(next, Len(piece))
  PROVE  \E f : IsSpelling(f, piece, next)
<1> DEFINE N == Len(piece)
           Upto(g, m) == /\ g = [i \in 1 .. N + 1 |-> g[i]]
                         /\ \A i \in 1 .. N + 1 : N + 1 <= i + m => SpeltFrom(g, piece, next, i)
           T == {m \in Nat : \E g : Upto(g, m)}
<1>1. N \in Nat /\ \A i \in 1 .. N : next[i] \in i + 1 .. N + 1
  BY DEF Onward
<1>2. 0 \in T
  <2> DEFINE g == [i \in 1 .. N + 1 |-> <<>>]
  <2>1. \A i \in 1 .. N + 1 : g[i] = <<>>
    OBVIOUS
  <2>2. g = [i \in 1 .. N + 1 |-> g[i]]
    OBVIOUS
  <2> HIDE DEF g
  <2>3. \A i \in 1 .. N + 1 : N + 1 <= i + 0 => SpeltFrom(g, piece, next, i)
    <3> TAKE i \in 1 .. N + 1
    <3> HAVE N + 1 <= i + 0
    <3>1. i > N
      BY <1>1
    <3> QED  BY <2>1, <3>1 DEF SpeltFrom
  <2>4. Upto(g, 0)
    BY <2>2, <2>3
  <2> HIDE DEF Upto
  <2> QED  BY <2>4
<1>3. ASSUME NEW m \in Nat, m \in T
      PROVE  m + 1 \in T
  <2>1. PICK g : Upto(g, m)
    BY <1>3
  <2> DEFINE at == N - m
             h == [i \in 1 .. N + 1 |-> IF i = at THEN piece[at] \o g[next[at]] ELSE g[i]]
  <2>2. \A i \in 1 .. N + 1 : i # at => h[i] = g[i]
    OBVIOUS
  <2>3. at \in 1 .. N + 1 => h[at] = piece[at] \o g[next[at]]
    OBVIOUS
  <2>4. h = [i \in 1 .. N + 1 |-> h[i]]
    OBVIOUS
  <2> HIDE DEF h
  <2>5. \A i \in 1 .. N + 1 : N + 1 <= i + (m + 1) => SpeltFrom(h, piece, next, i)
    <3> TAKE i \in 1 .. N + 1
    <3> HAVE N + 1 <= i + (m + 1)
    <3>1. ASSUME i <= N
          PROVE  next[i] \in 1 .. N + 1 /\ next[i] # at /\ h[next[i]] = g[next[i]]
      <4>1. next[i] \in i + 1 .. N + 1
        BY <1>1, <3>1
      <4>2. next[i] \in 1 .. N + 1 /\ next[i] # at
        BY <1>1, <4>1
      <4> QED  BY <2>2, <4>2
    <3>2. CASE i = at
      <4>1. i <= N
        BY <1>1, <3>2
      <4>2. h[i] = piece[i] \o g[next[i]]
        BY <2>3, <3>2
      <4>3. h[i] = piece[i] \o h[next[i]] /\ ~(i > Len(piece))
        <5>1. h[next[i]] = g[next[i]]
          BY <3>1, <4>1
        <5>2. ~(i > Len(piece))
          BY <1>1, <4>1
        <5> QED  BY <4>2, <5>1, <5>2
      <4> HIDE DEF at
      <4> QED  BY <4>3 DEF SpeltFrom
    <3>3. CASE i # at
      <4>1. N + 1 <= i + m
        BY <1>1, <3>3
      <4>2. SpeltFrom(g, piece, next, i)
        BY <2>1, <4>1
      <4>3. CASE i > N
        BY <2>2, <3>3, <4>2, <4>3 DEF SpeltFrom
      <4>4. CASE i <= N
        <5>1. h[next[i]] = g[next[i]] /\ h[i] = g[i]
          BY <2>2, <3>1, <3>3, <4>4
        <5>2. ~(i > Len(piece))
          BY <1>1, <4>4
        <5> QED  BY <4>2, <5>1, <5>2 DEF SpeltFrom
      <4> QED  BY <1>1, <4>3, <4>4
    <3> QED  BY <3>2, <3>3
  <2>6. Upto(h, m + 1)
    BY <2>4, <2>5
  <2> HIDE DEF Upto
  <2> QED  BY <2>6
<1> HIDE DEF T
<1>4. N \in T
  BY <1>1, <1>2, <1>3, Induct
<1>5. PICK g : Upto(g, N)
  BY <1>4 DEF T
<1>6. \A i \in 1 .. N + 1 : g[i] = IF i > Len(piece) THEN <<>> ELSE piece[i] \o g[next[i]]
  <2> TAKE i \in 1 .. N + 1
  <2>1. N + 1 <= i + N
    BY <1>1
  <2> QED  BY <1>5, <2>1 DEF SpeltFrom
<1>7. IsSpelling(g, piece, next)
  BY <1>5, <1>6 DEF IsSpelling
<1> QED  BY <1>7

ArePieces(piece) == \A i \in 1 .. Len(piece) : IsList(piece[i])

\* Each place adds its piece to what comes after it.
Spells(piece, next) ==
  /\ Spelled(piece, next) = Spelling(piece, next)[1]
  /\ \A i \in 1 .. Len(piece) :
        Spelling(piece, next)[i] = piece[i] \o Spelling(piece, next)[next[i]]
  /\ Spelling(piece, next)[Len(piece) + 1] = <<>>
  /\ \A i \in 1 .. Len(piece) + 1 : IsList(Spelling(piece, next)[i])

LEMMA SpelledIs ==
  ASSUME NEW piece, NEW next, Len(piece) \in Nat, Onward(next, Len(piece)), ArePieces(piece)
  PROVE  Spells(piece, next)
<1> DEFINE f == Spelling(piece, next)
           N == Len(piece)
<1>1. IsSpelling(f, piece, next)
  BY SpellingExists, Zenon DEF Spelling
<1>2. Spelled(piece, next) = f[1]
  BY Zenon DEF Spelled, Spelling, IsSpelling
<1> HIDE DEF f
<1>3. \A i \in 1 .. N + 1 : f[i] = IF i > N THEN <<>> ELSE piece[i] \o f[next[i]]
  BY <1>1 DEF IsSpelling
<1>4. \A i \in 1 .. N : f[i] = piece[i] \o f[next[i]]
  <2> TAKE i \in 1 .. N
  <2>1. i \in 1 .. N + 1 /\ ~(i > N)
    OBVIOUS
  <2> QED  BY <1>3, <2>1
<1>5. f[N + 1] = <<>>
  <2>1. N + 1 \in 1 .. N + 1 /\ N + 1 > N
    OBVIOUS
  <2> QED  BY <1>3, <2>1
<1> DEFINE T == {m \in Nat : \A i \in 1 .. N + 1 : N + 1 <= i + m => IsList(f[i])}
<1>6. 0 \in T
  <2>1. \A i \in 1 .. N + 1 : N + 1 <= i + 0 => i = N + 1
    OBVIOUS
  <2> QED  BY <1>5, <2>1, NoElements
<1>7. ASSUME NEW m \in Nat, m \in T
      PROVE  m + 1 \in T
  <2> SUFFICES ASSUME NEW i \in 1 .. N + 1, N + 1 <= i + (m + 1)
               PROVE  IsList(f[i])
    OBVIOUS
  <2>1. CASE i = N + 1
    BY <1>5, <2>1, NoElements
  <2>2. CASE i # N + 1
    <3>1. i \in 1 .. N /\ next[i] \in i + 1 .. N + 1
      BY <2>2 DEF Onward
    <3>2. next[i] \in 1 .. N + 1 /\ N + 1 <= next[i] + m
      BY <3>1
    <3>3. IsList(f[next[i]])
      BY <1>7, <3>2
    <3>4. f[i] = piece[i] \o f[next[i]] /\ IsList(piece[i])
      BY <1>4, <3>1 DEF ArePieces
    <3>5. IsList(piece[i] \o f[next[i]])
      BY <3>3, <3>4, Joined
    <3> QED  BY <3>4, <3>5
  <2> QED  BY <2>1, <2>2
<1> HIDE DEF T
<1>8. N \in T
  BY <1>6, <1>7, Induct
<1>9. \A i \in 1 .. N + 1 : IsList(f[i])
  <2> TAKE i \in 1 .. N + 1
  <2>1. N + 1 <= i + N
    OBVIOUS
  <2> QED  BY <1>8, <2>1 DEF T
<1> QED  BY <1>2, <1>4, <1>5, <1>9 DEF Spells, f

-----------------------------------------------------------------------------
(***************************************************************************)
(* Sums.                                                                   *)
(***************************************************************************)
IsTotal(f, x, n) == f = [m \in 0 .. n |-> IF m = 0 THEN 0 ELSE f[m - 1] + x[m]]

\* The sum of the first n.
TotalTo(x, n) == Total([i \in 1 .. n |-> x[i]])

LEMMA TotalExists ==
  ASSUME NEW x, NEW n \in Nat
  PROVE  \E f : IsTotal(f, x, n)
<1> DEFINE T == {m \in Nat : \E f : IsTotal(f, x, m)}
<1>1. 0 \in T
  <2> DEFINE f == [m \in 0 .. 0 |-> 0]
  <2>1. f = [m \in 0 .. 0 |-> IF m = 0 THEN 0 ELSE f[m - 1] + x[m]]
    OBVIOUS
  <2>2. IsTotal(f, x, 0)
    BY <2>1 DEF IsTotal
  <2> QED  BY <2>2
<1>2. ASSUME NEW m \in Nat, m \in T
      PROVE  m + 1 \in T
  <2>1. PICK f : IsTotal(f, x, m)
    BY <1>2
  <2>2. \A i \in 0 .. m : f[i] = IF i = 0 THEN 0 ELSE f[i - 1] + x[i]
    BY <2>1 DEF IsTotal
  <2> DEFINE h == [i \in 0 .. m + 1 |-> IF i \in 0 .. m THEN f[i] ELSE f[i - 1] + x[i]]
  <2>3. \A i \in 0 .. m : h[i] = f[i]
    OBVIOUS
  <2>4. h[m + 1] = f[m] + x[m + 1]
    <3>1. m + 1 \in 0 .. m + 1 /\ m + 1 \notin 0 .. m /\ m + 1 - 1 = m
      OBVIOUS
    <3> QED  BY <3>1
  <2>5. h = [i \in 0 .. m + 1 |-> h[i]]
    OBVIOUS
  <2> HIDE DEF h
  <2>6. \A i \in 0 .. m + 1 : h[i] = IF i = 0 THEN 0 ELSE h[i - 1] + x[i]
    <3> TAKE i \in 0 .. m + 1
    <3>1. CASE i \in 0 .. m
      <4>1. i = 0 \/ i - 1 \in 0 .. m
        BY <3>1
      <4> QED  BY <2>2, <2>3, <3>1, <4>1
    <3>2. CASE i = m + 1
      <4>1. m \in 0 .. m /\ i # 0 /\ i - 1 = m
        BY <3>2
      <4> QED  BY <2>3, <2>4, <3>2, <4>1
    <3> QED  BY <3>1, <3>2
  <2>7. h = [i \in 0 .. m + 1 |-> IF i = 0 THEN 0 ELSE h[i - 1] + x[i]]
    BY <2>5, <2>6
  <2>8. IsTotal(h, x, m + 1)
    BY <2>7 DEF IsTotal
  <2> QED  BY <2>8
<1> HIDE DEF T
<1>3. \A m \in Nat : m \in T
  BY <1>1, <1>2, Induct
<1> QED  BY <1>3 DEF T

LEMMA TotalUnique ==
  ASSUME NEW x, NEW n \in Nat, NEW f, IsTotal(f, x, n), NEW m \in 0 .. n, NEW g, IsTotal(g, x, m)
  PROVE  \A i \in 0 .. m : f[i] = g[i]
<1>1. \A i \in 0 .. n : f[i] = IF i = 0 THEN 0 ELSE f[i - 1] + x[i]
  BY DEF IsTotal
<1>2. \A i \in 0 .. m : g[i] = IF i = 0 THEN 0 ELSE g[i - 1] + x[i]
  BY DEF IsTotal
<1> DEFINE T == {i \in Nat : i \in 0 .. m => f[i] = g[i]}
<1>3. 0 \in T
  BY <1>1, <1>2
<1>4. ASSUME NEW i \in Nat, i \in T
      PROVE  i + 1 \in T
  <2>1. CASE i + 1 \in 0 .. m
    <3>1. i \in 0 .. m /\ i + 1 \in 0 .. n /\ i + 1 # 0 /\ i + 1 - 1 = i
      BY <2>1
    <3>2. f[i] = g[i]
      BY <1>4, <3>1
    <3>3. f[i + 1] = f[i] + x[i + 1] /\ g[i + 1] = g[i] + x[i + 1]
      BY <1>1, <1>2, <2>1, <3>1
    <3> QED  BY <3>2, <3>3
  <2> QED  BY <2>1
<1> HIDE DEF T
<1>5. \A i \in Nat : i \in T
  BY <1>3, <1>4, Induct
<1> QED  BY <1>5 DEF T

LEMMA TotalToIs ==
  ASSUME NEW x, NEW n \in Nat, NEW f, IsTotal(f, x, n)
  PROVE  TotalTo(x, n) = f[n]
<1> DEFINE y == [i \in 1 .. n |-> x[i]]
           g == CHOOSE h : IsTotal(h, y, n)
<1>1. y = [i \in 1 .. n |-> y[i]] /\ \A i \in 1 .. n : y[i] = x[i]
  OBVIOUS
<1> HIDE DEF y
<1>2. Len(y) = n
  BY <1>1, ListFrom
<1>3. IsTotal(g, y, n)
  BY TotalExists, Zenon
<1>4. Total(y) = g[n]
  BY <1>2, Zenon DEF Total, IsTotal
<1> HIDE DEF g
<1>5. IsTotal(g, x, n)
  <2>1. g = [m \in 0 .. n |-> IF m = 0 THEN 0 ELSE g[m - 1] + y[m]]
    BY <1>3 DEF IsTotal
  <2>2. \A m \in 0 .. n : m = 0 \/ y[m] = x[m]
    <3> TAKE m \in 0 .. n
    <3>1. m = 0 \/ m \in 1 .. n
      OBVIOUS
    <3> QED  BY <1>1, <3>1
  <2>3. g = [m \in 0 .. n |-> IF m = 0 THEN 0 ELSE g[m - 1] + x[m]]
    BY <2>1, <2>2
  <2> QED  BY <2>3 DEF IsTotal
<1>6. n \in 0 .. n
  OBVIOUS
<1>7. \A i \in 0 .. n : f[i] = g[i]
  BY <1>5, <1>6, TotalUnique
<1> QED  BY <1>1, <1>4, <1>6, <1>7 DEF TotalTo, y

LEMMA TotalNone ==
  ASSUME NEW x
  PROVE  TotalTo(x, 0) = 0
<1>1. PICK f : IsTotal(f, x, 0)
  BY TotalExists
<1>2. f[0] = 0
  BY <1>1 DEF IsTotal
<1> QED  BY <1>1, <1>2, TotalToIs

LEMMA TotalNext ==
  ASSUME NEW x, NEW n \in Nat
  PROVE  TotalTo(x, n + 1) = TotalTo(x, n) + x[n + 1]
<1>1. PICK f : IsTotal(f, x, n + 1)
  BY TotalExists
<1>2. \A i \in 0 .. n + 1 : f[i] = IF i = 0 THEN 0 ELSE f[i - 1] + x[i]
  BY <1>1 DEF IsTotal
<1>3. PICK g : IsTotal(g, x, n)
  BY TotalExists
<1>4. f[n] = g[n]
  <2>1. n \in 0 .. n + 1 /\ n \in 0 .. n /\ n + 1 \in Nat
    OBVIOUS
  <2> QED  BY <1>1, <1>3, <2>1, TotalUnique
<1>5. f[n + 1] = f[n] + x[n + 1]
  <2>1. n + 1 \in 0 .. n + 1 /\ n + 1 # 0 /\ n + 1 - 1 = n
    OBVIOUS
  <2> QED  BY <1>2, <2>1
<1>6. TotalTo(x, n + 1) = f[n + 1] /\ TotalTo(x, n) = g[n]
  BY <1>1, <1>3, TotalToIs
<1> QED  BY <1>4, <1>5, <1>6

\* The sum of a list, and of one that has the same numbers.
LEMMA TotalOf ==
  ASSUME NEW x, IsList(x)
  PROVE  Total(x) = TotalTo(x, Len(x))
  BY ListIs DEF TotalTo

LEMMA TotalSame ==
  ASSUME NEW x, NEW y, NEW n \in Nat, \A i \in 1 .. n : x[i] = y[i]
  PROVE  TotalTo(x, n) = TotalTo(y, n)
<1>1. [i \in 1 .. n |-> x[i]] = [i \in 1 .. n |-> y[i]]
  OBVIOUS
<1> QED  BY <1>1 DEF TotalTo

LEMMA TotalNat ==
  ASSUME NEW x, NEW n \in Nat, \A i \in 1 .. n : x[i] \in Nat
  PROVE  \A m \in 0 .. n : TotalTo(x, m) \in Nat
<1> DEFINE T == {m \in Nat : m \in 0 .. n => TotalTo(x, m) \in Nat}
<1>1. 0 \in T
  BY TotalNone
<1>2. ASSUME NEW m \in Nat, m \in T
      PROVE  m + 1 \in T
  <2>1. CASE m + 1 \in 0 .. n
    <3>1. m \in 0 .. n /\ m + 1 \in 1 .. n
      BY <2>1
    <3>2. TotalTo(x, m) \in Nat /\ x[m + 1] \in Nat
      BY <1>2, <3>1
    <3>3. TotalTo(x, m + 1) = TotalTo(x, m) + x[m + 1]
      BY TotalNext
    <3> QED  BY <3>2, <3>3
  <2> QED  BY <2>1
<1> HIDE DEF T
<1>3. \A m \in Nat : m \in T
  BY <1>1, <1>2, Induct
<1> QED  BY <1>3 DEF T

LEMMA TotalZero ==
  ASSUME NEW x, NEW n \in Nat, \A i \in 1 .. n : x[i] = 0
  PROVE  TotalTo(x, n) = 0
<1> DEFINE T == {m \in Nat : m \in 0 .. n => TotalTo(x, m) = 0}
<1>1. 0 \in T
  BY TotalNone
<1>2. ASSUME NEW m \in Nat, m \in T
      PROVE  m + 1 \in T
  <2>1. CASE m + 1 \in 0 .. n
    <3>1. m \in 0 .. n /\ m + 1 \in 1 .. n
      BY <2>1
    <3>2. TotalTo(x, m) = 0 /\ x[m + 1] = 0
      BY <1>2, <3>1
    <3>3. TotalTo(x, m + 1) = TotalTo(x, m) + x[m + 1]
      BY TotalNext
    <3> QED  BY <3>2, <3>3
  <2> QED  BY <2>1
<1> HIDE DEF T
<1>3. \A m \in Nat : m \in T
  BY <1>1, <1>2, Induct
<1> QED  BY <1>3 DEF T

\* One number among zeros.
LEMMA TotalUnit ==
  ASSUME NEW x, NEW n \in Nat, NEW k \in 1 .. n, x[k] \in Nat,
         \A i \in 1 .. n : i # k => x[i] = 0
  PROVE  TotalTo(x, n) = x[k]
<1> DEFINE T == {m \in Nat : m \in 0 .. n => TotalTo(x, m) = IF k <= m THEN x[k] ELSE 0}
<1>1. 0 \in T
  BY TotalNone
<1>2. ASSUME NEW m \in Nat, m \in T
      PROVE  m + 1 \in T
  <2>1. CASE m + 1 \in 0 .. n
    <3>1. m \in 0 .. n /\ m + 1 \in 1 .. n
      BY <2>1
    <3>2. TotalTo(x, m) = IF k <= m THEN x[k] ELSE 0
      BY <1>2, <3>1
    <3>3. TotalTo(x, m + 1) = TotalTo(x, m) + x[m + 1]
      BY TotalNext
    <3>4. CASE m + 1 = k
      <4>1. ~(k <= m) /\ k <= m + 1
        BY <3>4
      <4>2. TotalTo(x, m) = 0
        BY <3>2, <4>1
      <4>3. TotalTo(x, m + 1) = x[k]
        BY <3>3, <3>4, <4>2
      <4> QED  BY <4>1, <4>3
    <3>5. CASE m + 1 # k
      <4>1. x[m + 1] = 0 /\ (k <= m <=> k <= m + 1)
        BY <3>1, <3>5
      <4>2. TotalTo(x, m) \in Nat
        BY <3>2
      <4>3. TotalTo(x, m + 1) = TotalTo(x, m)
        BY <3>3, <4>1, <4>2
      <4> QED  BY <3>2, <4>1, <4>3
    <3> QED  BY <3>4, <3>5
  <2> QED  BY <2>1
<1> HIDE DEF T
<1>3. n \in T
  BY <1>1, <1>2, Induct
<1>4. n \in 0 .. n /\ k <= n
  OBVIOUS
<1> QED  BY <1>3, <1>4 DEF T

\* Sums add up place by place.
LEMMA TotalAdd ==
  ASSUME NEW x, NEW y, NEW z, NEW n \in Nat,
         \A i \in 1 .. n : x[i] \in Nat /\ y[i] \in Nat /\ z[i] = x[i] + y[i]
  PROVE  TotalTo(z, n) = TotalTo(x, n) + TotalTo(y, n)
<1> DEFINE T == {m \in Nat : m \in 0 .. n => TotalTo(z, m) = TotalTo(x, m) + TotalTo(y, m)}
<1>1. 0 \in T
  BY TotalNone
<1>2. ASSUME NEW m \in Nat, m \in T
      PROVE  m + 1 \in T
  <2>1. CASE m + 1 \in 0 .. n
    <3>1. m \in 0 .. n /\ m + 1 \in 1 .. n
      BY <2>1
    <3>2. TotalTo(z, m) = TotalTo(x, m) + TotalTo(y, m)
      BY <1>2, <3>1
    <3>3. /\ TotalTo(x, m + 1) = TotalTo(x, m) + x[m + 1]
          /\ TotalTo(y, m + 1) = TotalTo(y, m) + y[m + 1]
          /\ TotalTo(z, m + 1) = TotalTo(z, m) + z[m + 1]
      BY TotalNext
    <3>4. TotalTo(x, m) \in Nat /\ TotalTo(y, m) \in Nat
      BY <3>1, TotalNat
    <3>5. x[m + 1] \in Nat /\ y[m + 1] \in Nat /\ z[m + 1] = x[m + 1] + y[m + 1]
      BY <3>1
    <3> QED  BY <3>2, <3>3, <3>4, <3>5
  <2> QED  BY <2>1
<1> HIDE DEF T
<1>3. n \in T
  BY <1>1, <1>2, Induct
<1> QED  BY <1>3 DEF T

\* What key gives to k.
GivenTo(x, n, key, k) == [i \in 1 .. n |-> IF key[i] = k THEN x[i] ELSE 0]

\* Every number has a key, or is zero.
Keyed(x, n, key, m) ==
  \A i \in 1 .. n : x[i] \in Nat /\ key[i] \in 0 .. m /\ (key[i] = 0 => x[i] = 0)

\* Numbers in groups: the sum of the groups' sums is the sum.
LEMMA TotalOfGroups ==
  ASSUME NEW x, NEW n \in Nat, NEW m \in Nat, NEW key, Keyed(x, n, key, m),
         NEW y, \A k \in 1 .. m : y[k] = TotalTo(GivenTo(x, n, key, k), n)
  PROVE  TotalTo(y, m) = TotalTo(x, n)
<1> DEFINE upto(j) == [k \in 1 .. m |-> TotalTo(GivenTo(x, n, key, k), j)]
           T == {j \in Nat : j \in 0 .. n => TotalTo(upto(j), m) = TotalTo(x, j)}
<1>1. \A k \in 1 .. m : \A i \in 1 .. n :
         /\ GivenTo(x, n, key, k)[i] = IF key[i] = k THEN x[i] ELSE 0
         /\ GivenTo(x, n, key, k)[i] \in Nat
  <2> TAKE k \in 1 .. m
  <2> TAKE i \in 1 .. n
  <2>1. GivenTo(x, n, key, k)[i] = IF key[i] = k THEN x[i] ELSE 0
    BY DEF GivenTo
  <2>2. x[i] \in Nat
    BY DEF Keyed
  <2> QED  BY <2>1, <2>2
<1>2. \A k \in 1 .. m : \A j \in 0 .. n : TotalTo(GivenTo(x, n, key, k), j) \in Nat
  <2> TAKE k \in 1 .. m
  <2> DEFINE g == GivenTo(x, n, key, k)
  <2>1. \A i \in 1 .. n : g[i] \in Nat
    BY <1>1
  <2> HIDE DEF g
  <2>2. \A j \in 0 .. n : TotalTo(g, j) \in Nat
    BY <2>1, TotalNat
  <2> QED  BY <2>2 DEF g
<1>3. 0 \in T
  <2>1. \A k \in 1 .. m : upto(0)[k] = 0
    BY TotalNone
  <2> HIDE DEF upto
  <2>2. TotalTo(upto(0), m) = 0
    BY <2>1, TotalZero
  <2> QED  BY <2>2, TotalNone
<1>4. ASSUME NEW j \in Nat, j \in T
      PROVE  j + 1 \in T
  <2>1. CASE j + 1 \in 0 .. n
    <3> DEFINE i == j + 1
               one == [k \in 1 .. m |-> IF key[i] = k THEN x[i] ELSE 0]
    <3>1. j \in 0 .. n /\ i \in 1 .. n
      BY <2>1
    <3>2. TotalTo(upto(j), m) = TotalTo(x, j)
      BY <1>4, <3>1
    <3>3. TotalTo(x, i) = TotalTo(x, j) + x[i]
      BY TotalNext
    <3>4. x[i] \in Nat /\ key[i] \in 0 .. m /\ (key[i] = 0 => x[i] = 0)
      BY <3>1 DEF Keyed
    <3>5. \A k \in 1 .. m : upto(j)[k] \in Nat /\ one[k] \in Nat /\ upto(i)[k] = upto(j)[k] + one[k]
      <4> TAKE k \in 1 .. m
      <4> DEFINE g == GivenTo(x, n, key, k)
      <4>1. upto(j)[k] = TotalTo(g, j) /\ upto(i)[k] = TotalTo(g, i)
        OBVIOUS
      <4>2. TotalTo(g, j) \in Nat
        BY <1>2, <3>1
      <4>3. TotalTo(g, i) = TotalTo(g, j) + g[i]
        BY TotalNext
      <4>4. g[i] = one[k] /\ g[i] \in Nat
        BY <1>1, <3>1
      <4> HIDE DEF g, upto, one
      <4> QED  BY <4>1, <4>2, <4>3, <4>4
    <3>6. TotalTo(one, m) = x[i]
      <4>1. \A k \in 1 .. m : one[k] = IF key[i] = k THEN x[i] ELSE 0
        OBVIOUS
      <4> HIDE DEF one, i
      <4>2. CASE key[i] = 0
        <5>1. \A k \in 1 .. m : one[k] = 0
          BY <3>4, <4>1, <4>2
        <5> QED  BY <3>4, <4>2, <5>1, TotalZero
      <4>3. CASE key[i] # 0
        <5> DEFINE k == key[i]
        <5>1. k \in 1 .. m /\ one[k] = x[i] /\ one[k] \in Nat
          BY <3>4, <4>1, <4>3
        <5>2. \A l \in 1 .. m : l # k => one[l] = 0
          BY <4>1
        <5> HIDE DEF k
        <5>3. TotalTo(one, m) = one[k]
          BY <5>1, <5>2, TotalUnit
        <5> QED  BY <5>1, <5>3
      <4> QED  BY <4>2, <4>3
    <3> DEFINE a == upto(j)
               b == upto(i)
    <3>7. \A k \in 1 .. m : a[k] \in Nat /\ one[k] \in Nat /\ b[k] = a[k] + one[k]
      BY <3>5
    <3>8. TotalTo(a, m) = TotalTo(x, j)
      BY <3>2
    <3> HIDE DEF a, b, one
    <3>9. TotalTo(b, m) = TotalTo(a, m) + TotalTo(one, m)
      BY <3>7, TotalAdd
    <3>10. TotalTo(b, m) = TotalTo(x, i)
      BY <3>3, <3>6, <3>8, <3>9
    <3> QED  BY <3>10 DEF b
  <2> QED  BY <2>1
<1> HIDE DEF T
<1>5. n \in T
  BY <1>3, <1>4, Induct
<1>6. TotalTo(upto(n), m) = TotalTo(x, n)
  BY <1>5 DEF T
<1>7. \A k \in 1 .. m : y[k] = upto(n)[k]
  OBVIOUS
<1> HIDE DEF upto
<1> QED  BY <1>6, <1>7, TotalSame

\* Numbers that are picked, none twice: the sum of them is the sum if all
\* others are zero.
Picks(e, m, n) ==
  /\ \A j \in 1 .. m : e[j] \in 1 .. n
  /\ \A j, k \in 1 .. m : e[j] = e[k] => j = k

PicksFrom(x, n, y, m, e) ==
  /\ Picks(e, m, n)
  /\ \A i \in 1 .. n : x[i] \in Nat /\ (x[i] = 0 \/ \E j \in 1 .. m : e[j] = i)
  /\ \A j \in 1 .. m : y[j] = x[e[j]]

LEMMA TotalPicked ==
  ASSUME NEW x, NEW n \in Nat, NEW y, NEW m \in Nat, NEW e, PicksFrom(x, n, y, m, e)
  PROVE  TotalTo(y, m) = TotalTo(x, n)
<1>0. /\ Picks(e, m, n)
      /\ \A i \in 1 .. n : x[i] \in Nat /\ (x[i] = 0 \/ \E j \in 1 .. m : e[j] = i)
      /\ \A j \in 1 .. m : y[j] = x[e[j]]
  BY DEF PicksFrom
<1> DEFINE key == [i \in 1 .. n |-> IF \E j \in 1 .. m : e[j] = i
                                    THEN CHOOSE j \in 1 .. m : e[j] = i ELSE 0]
<1>1. \A i \in 1 .. n : /\ (\E j \in 1 .. m : e[j] = i) => key[i] \in 1 .. m /\ e[key[i]] = i
                        /\ ~(\E j \in 1 .. m : e[j] = i) => key[i] = 0
  <2> TAKE i \in 1 .. n
  <2>1. CASE \E j \in 1 .. m : e[j] = i
    <3>1. key[i] = CHOOSE j \in 1 .. m : e[j] = i
      BY <2>1
    <3> HIDE DEF key
    <3> QED  BY <2>1, <3>1
  <2>2. CASE ~ \E j \in 1 .. m : e[j] = i
    BY <2>2
  <2> QED  BY <2>1, <2>2
<1> HIDE DEF key
<1>2. Keyed(x, n, key, m)
  <2>1. ASSUME NEW i \in 1 .. n
        PROVE  key[i] \in 0 .. m /\ (key[i] = 0 => x[i] = 0)
    <3>1. CASE \E j \in 1 .. m : e[j] = i
      <4>1. key[i] \in 1 .. m
        BY <1>1, <3>1
      <4> QED  BY <4>1
    <3>2. CASE ~ \E j \in 1 .. m : e[j] = i
      <4>1. key[i] = 0 /\ x[i] = 0
        BY <1>0, <1>1, <3>2
      <4> QED  BY <4>1
    <3> QED  BY <3>1, <3>2
  <2> QED  BY <1>0, <2>1 DEF Keyed
<1>3. \A k \in 1 .. m : y[k] = TotalTo(GivenTo(x, n, key, k), n)
  <2> TAKE k \in 1 .. m
  <2> DEFINE g == GivenTo(x, n, key, k)
             i == e[k]
  <2>1. i \in 1 .. n
    BY <1>0 DEF Picks
  <2>2. key[i] = k
    <3>1. key[i] \in 1 .. m /\ e[key[i]] = e[k]
      BY <1>1, <2>1
    <3> QED  BY <1>0, <3>1 DEF Picks
  <2>3. g[i] = x[i] /\ x[i] \in Nat
    BY <1>0, <2>1, <2>2 DEF GivenTo
  <2>4. \A l \in 1 .. n : l # i => g[l] = 0
    <3> TAKE l \in 1 .. n
    <3> HAVE l # i
    <3>1. key[l] # k
      BY <1>1
    <3> QED  BY <3>1 DEF GivenTo
  <2> HIDE DEF g, i
  <2>5. TotalTo(g, n) = g[i]
    BY <2>1, <2>3, <2>4, TotalUnit
  <2>6. y[k] = x[i]
    BY <1>0 DEF i
  <2> QED  BY <2>3, <2>5, <2>6 DEF g
<1> QED  BY <1>2, <1>3, TotalOfGroups

\* e says from which of the first m lists, each of one element at most, the
\* elements of w come.
ComesFrom(e, w, ss, m) ==
  /\ Picks(e, Len(w), m)
  /\ \A j \in 1 .. Len(w) : ss[e[j]] = <<w[j]>>
  /\ \A i \in 1 .. m : ss[i] = <<>> \/ \E j \in 1 .. Len(w) : e[j] = i

LEMMA FlatComesFrom ==
  ASSUME NEW n \in Nat, NEW ss, IsList(ss), Len(ss) = n,
         \A i \in 1 .. n : IsList(ss[i]) /\ Len(ss[i]) \in 0 .. 1
  PROVE  \E e : ComesFrom(e, FlattenSeq(ss), ss, n)
<1>1. PICK g : Steps(g, ss, n)
  BY FlatSteps
<1>2. /\ g[0] = <<>> /\ g[n] = FlattenSeq(ss)
      /\ \A i \in 0 .. n - 1 : g[i + 1] = g[i] \o ss[i + 1]
      /\ \A i \in 0 .. n : IsList(g[i])
  BY <1>1 DEF Steps
<1> DEFINE T == {m \in Nat : m \in 0 .. n => \E e : ComesFrom(e, g[m], ss, m)}
<1>3. 0 \in T
  <2>1. Len(g[0]) = 0
    BY <1>2, NoElements
  <2>2. ComesFrom(<<>>, g[0], ss, 0)
    BY <2>1 DEF ComesFrom, Picks
  <2> QED  BY <2>2
<1>4. ASSUME NEW m \in Nat, m \in T
      PROVE  m + 1 \in T
  <2>1. CASE m + 1 \in 0 .. n
    <3> DEFINE i == m + 1
               w == g[m]
               v == g[i]
               k == Len(w)
    <3>1. i \in 1 .. n /\ m \in 0 .. n - 1 /\ m \in 0 .. n
      BY <2>1
    <3>2. IsList(w) /\ IsList(v) /\ IsList(ss[i]) /\ Len(ss[i]) \in 0 .. 1 /\ v = w \o ss[i]
      BY <1>2, <2>1, <3>1
    <3>3. PICK e : ComesFrom(e, w, ss, m)
      BY <1>4, <3>1
    <3>4. k \in Nat
      BY <3>2, ListIs
    <3>5. /\ \A j \in 1 .. k : e[j] \in 1 .. m /\ ss[e[j]] = <<w[j]>>
          /\ \A j, l \in 1 .. k : e[j] = e[l] => j = l
          /\ \A l \in 1 .. m : ss[l] = <<>> \/ \E j \in 1 .. k : e[j] = l
      BY <3>3 DEF ComesFrom, Picks
    <3> HIDE DEF w, v
    <3>6. CASE Len(ss[i]) = 0
      <4>1. ss[i] = <<>>
        BY <3>2, <3>6, EmptyIs
      <4>2. v = w
        BY <3>2, <4>1, NothingJoined
      <4>3. ComesFrom(e, v, ss, i)
        BY <3>5, <4>1, <4>2 DEF ComesFrom, Picks
      <4> QED  BY <4>3 DEF v
    <3>7. CASE Len(ss[i]) = 1
      <4> DEFINE a == ss[i][1]
                 d == [j \in 1 .. k + 1 |-> IF j \in 1 .. k THEN e[j] ELSE i]
      <4>1. ss[i] = <<a>>
        BY <3>2, <3>7, ListIs
      <4>2. Len(v) = k + 1 /\ (\A j \in 1 .. k : v[j] = w[j]) /\ v[k + 1] = a
        <5>1. 1 \in 1 .. Len(ss[i]) /\ Len(v) = k + Len(ss[i]) /\ v[k + 1] = ss[i][1]
          <6>1. 1 \in 1 .. Len(ss[i])
            BY <3>7
          <6> QED  BY <3>2, <6>1, Joined
        <5> QED  BY <3>2, <3>7, <5>1, Joined
      <4>3. \A j \in 1 .. k + 1 : j \in 1 .. k \/ j = k + 1
        BY <3>4
      <4>4. (\A j \in 1 .. k : d[j] = e[j]) /\ d[k + 1] = i /\ k + 1 \notin 1 .. k
        BY <3>4
      <4> HIDE DEF d, a
      <4>5. \A j \in 1 .. k + 1 : d[j] \in 1 .. i /\ ss[d[j]] = <<v[j]>>
        <5> TAKE j \in 1 .. k + 1
        <5>1. CASE j \in 1 .. k
          <6>1. e[j] \in 1 .. m /\ ss[e[j]] = <<w[j]>> /\ d[j] = e[j] /\ v[j] = w[j]
            BY <3>5, <4>2, <4>4, <5>1
          <6>2. e[j] \in 1 .. i
            BY <6>1
          <6> QED  BY <6>1, <6>2
        <5>2. CASE j = k + 1
          <6>1. d[j] = i /\ v[j] = a /\ i \in 1 .. i
            BY <4>2, <4>4, <5>2
          <6> QED  BY <4>1, <6>1
        <5> QED  BY <4>3, <5>1, <5>2
      <4>6. \A j, l \in 1 .. k + 1 : d[j] = d[l] => j = l
        <5> TAKE j, l \in 1 .. k + 1
        <5>1. \A h \in 1 .. k : d[h] # i
          BY <3>5, <4>4
        <5>2. CASE j \in 1 .. k /\ l \in 1 .. k
          BY <3>5, <4>4, <5>2
        <5> QED  BY <4>3, <4>4, <5>1, <5>2
      <4>7. \A l \in 1 .. i : ss[l] = <<>> \/ \E j \in 1 .. k + 1 : d[j] = l
        <5> TAKE l \in 1 .. i
        <5>1. CASE l = i
          BY <3>4, <4>4, <5>1
        <5>2. CASE l # i
          <6>1. l \in 1 .. m
            BY <5>2
          <6>2. ss[l] = <<>> \/ \E j \in 1 .. k : e[j] = l
            BY <3>5, <6>1
          <6>3. \A j \in 1 .. k : j \in 1 .. k + 1
            BY <3>4
          <6> QED  BY <4>4, <6>2, <6>3
        <5> QED  BY <5>1, <5>2
      <4>8. ComesFrom(d, v, ss, i)
        BY <4>2, <4>5, <4>6, <4>7 DEF ComesFrom, Picks
      <4> QED  BY <4>8 DEF v
    <3>8. Len(ss[i]) = 0 \/ Len(ss[i]) = 1
      BY <3>2
    <3> QED  BY <3>6, <3>7, <3>8
  <2> QED  BY <2>1
<1> HIDE DEF T
<1>5. n \in T
  BY <1>3, <1>4, Induct
<1>6. n \in 0 .. n
  OBVIOUS
<1> QED  BY <1>2, <1>5, <1>6 DEF T

\* Where the elements that are kept stand.
KeptFrom(e, w, s, I) ==
  /\ Picks(e, Len(w), Len(s))
  /\ \A j \in 1 .. Len(w) : e[j] \in I /\ w[j] = s[e[j]]
  /\ \A i \in 1 .. Len(s) : i \in I => \E j \in 1 .. Len(w) : e[j] = i

LEMMA KeptPlaces ==
  ASSUME NEW s, IsList(s), NEW I
  PROVE  \E e : KeptFrom(e, Kept(s, I), s, I)
<1> DEFINE n == Len(s)
           ss == [i \in 1 .. n |-> IF i \in I THEN <<s[i]>> ELSE <<>>]
<1>1. n \in Nat
  BY ListIs
<1>2. \A i \in 1 .. n : /\ ss[i] = IF i \in I THEN <<s[i]>> ELSE <<>>
                        /\ IsList(ss[i]) /\ Len(ss[i]) \in 0 .. 1
  <2> TAKE i \in 1 .. n
  <2>1. CASE i \in I
    BY <2>1, OneElement
  <2>2. CASE i \notin I
    BY <2>2, NoElements
  <2> QED  BY <2>1, <2>2
<1>3. ss = [i \in 1 .. n |-> ss[i]]
  OBVIOUS
<1>4. Kept(s, I) = FlattenSeq(ss)
  BY DEF Kept
<1> HIDE DEF ss
<1>5. IsList(ss) /\ Len(ss) = n
  BY <1>1, <1>3, ListFrom
<1> DEFINE w == Kept(s, I)
<1>6. PICK e : ComesFrom(e, w, ss, n)
  <2>1. \E e : ComesFrom(e, FlattenSeq(ss), ss, n)
    BY <1>1, <1>2, <1>5, FlatComesFrom
  <2> QED  BY <1>4, <2>1
<1> HIDE DEF w
<1>7. \A j \in 1 .. Len(w) : e[j] \in I /\ w[j] = s[e[j]]
  <2> TAKE j \in 1 .. Len(w)
  <2>1. e[j] \in 1 .. n /\ ss[e[j]] = <<w[j]>>
    BY <1>6 DEF ComesFrom, Picks
  <2>2. CASE e[j] \in I
    <3>1. <<s[e[j]]>> = <<w[j]>>
      BY <1>2, <2>1, <2>2
    <3> QED  BY <2>2, <3>1
  <2>3. CASE e[j] \notin I
    <3>1. <<>> = <<w[j]>>
      BY <1>2, <2>1, <2>3
    <3> QED  BY <3>1
  <2> QED  BY <2>2, <2>3
<1>8. \A i \in 1 .. n : i \in I => \E j \in 1 .. Len(w) : e[j] = i
  <2> TAKE i \in 1 .. n
  <2> HAVE i \in I
  <2>1. ss[i] = <<s[i]>>
    BY <1>2
  <2>2. ss[i] # <<>>
    BY <2>1
  <2> QED  BY <1>6, <2>2 DEF ComesFrom
<1>9. KeptFrom(e, w, s, I)
  BY <1>6, <1>7, <1>8 DEF KeptFrom, ComesFrom
<1> QED  BY <1>9 DEF w

\* A sum over what is kept.
LEMMA TotalKept ==
  ASSUME NEW s, IsList(s), NEW I,
         NEW x, \A i \in 1 .. Len(s) : x[i] \in Nat /\ (i \notin I => x[i] = 0),
         NEW y, \A j \in 1 .. Len(Kept(s, I)), i \in 1 .. Len(s) :
                   i \in I /\ Kept(s, I)[j] = s[i] => y[j] = x[i]
  PROVE  TotalTo(y, Len(Kept(s, I))) = TotalTo(x, Len(s))
<1> DEFINE n == Len(s)
           w == Kept(s, I)
           m == Len(w)
<1>1. n \in Nat /\ m \in Nat
  BY KeptIs, ListIs
<1>2. PICK e : KeptFrom(e, w, s, I)
  BY KeptPlaces
<1> HIDE DEF w
<1>3. Picks(e, m, n)
  BY <1>2 DEF KeptFrom
<1>4. \A j \in 1 .. m : e[j] \in 1 .. n /\ e[j] \in I /\ w[j] = s[e[j]]
  BY <1>2 DEF KeptFrom, Picks
<1>5. \A j \in 1 .. m : y[j] = x[e[j]]
  BY <1>4 DEF w
<1>6. \A i \in 1 .. n : x[i] = 0 \/ \E j \in 1 .. m : e[j] = i
  BY <1>2 DEF KeptFrom
<1> HIDE DEF n, m
<1>7. TotalTo(y, m) = TotalTo(x, n)
  <2>1. \A i \in 1 .. n : x[i] \in Nat
    BY DEF n
  <2>2. PicksFrom(x, n, y, m, e)
    BY <1>3, <1>5, <1>6, <2>1 DEF PicksFrom
  <2> QED  BY <1>1, <2>2, TotalPicked
<1> QED  BY <1>7 DEF n, m, w

\* A sum over a list in another order.
LEMMA TotalArranged ==
  ASSUME NEW s, IsList(s), NEW R, StrictOrder(R, Len(s)),
         NEW x, \A i \in 1 .. Len(s) : x[i] \in Nat,
         NEW y, \A k, i \in 1 .. Len(s) : Arranged(s, R)[k] = s[i] => y[k] = x[i]
  PROVE  TotalTo(y, Len(s)) = TotalTo(x, Len(s))
<1> DEFINE n == Len(s)
<1>1. n \in Nat
  BY ListIs
<1>2. PICK at : Sorting(at, s, R)
  BY ArrangedIs
<1>3. /\ \A k \in 1 .. n : at[k] \in 1 .. n /\ Arranged(s, R)[k] = s[at[k]]
      /\ \A i \in 1 .. n : \E k \in 1 .. n : at[k] = i
      /\ \A j, k \in 1 .. n : at[j] = at[k] => j = k
  BY <1>2 DEF Sorting
<1>4. \A k \in 1 .. n : y[k] = x[at[k]]
  <2> TAKE k \in 1 .. n
  <2>1. at[k] \in 1 .. n /\ Arranged(s, R)[k] = s[at[k]]
    BY <1>3
  <2> QED  BY <2>1
<1>5. Picks(at, n, n)
  BY <1>3 DEF Picks
<1> HIDE DEF n
<1>6. TotalTo(y, n) = TotalTo(x, n)
  <2>1. \A i \in 1 .. n : x[i] \in Nat
    BY DEF n
  <2>2. PicksFrom(x, n, y, n, at)
    BY <1>3, <1>4, <1>5, <2>1 DEF PicksFrom
  <2> QED  BY <1>1, <2>2, TotalPicked
<1> QED  BY <1>6 DEF n

-----------------------------------------------------------------------------
(***************************************************************************)
(* Where the lists stand that a list is put together from.                 *)
(***************************************************************************)

\* Each of the first m lists stands in w after the place L[i - 1].
StandsAt(L, w, ss, i) ==
  \A j \in 1 .. Len(ss[i]) : /\ L[i - 1] + j \in 1 .. Len(w)
                             /\ w[L[i - 1] + j] = ss[i][j]

Starts(L, w, ss, m) ==
  /\ Len(w) = L[m]
  /\ \A i \in 1 .. m : StandsAt(L, w, ss, i)
  /\ \A p \in 1 .. Len(w) : \E i \in 1 .. m : \E j \in 1 .. Len(ss[i]) : p = L[i - 1] + j

\* The lengths of the first lists together.
Lengths(L, ss, n) ==
  /\ L[0] = 0 /\ \A i \in 0 .. n : L[i] \in Nat
  /\ \A i \in 1 .. n : L[i] = L[i - 1] + Len(ss[i])

LEMMA FlatStarts ==
  ASSUME NEW n \in Nat, NEW ss, IsList(ss), Len(ss) = n,
         \A i \in 1 .. n : IsList(ss[i])
  PROVE  \E L : Lengths(L, ss, n) /\ Starts(L, FlattenSeq(ss), ss, n)
<1>1. PICK g : Steps(g, ss, n)
  BY FlatSteps
<1>2. /\ g[0] = <<>> /\ g[n] = FlattenSeq(ss)
      /\ \A i \in 0 .. n - 1 : g[i + 1] = g[i] \o ss[i + 1]
      /\ \A i \in 0 .. n : IsList(g[i])
  BY <1>1 DEF Steps
<1> DEFINE L == [i \in 0 .. n |-> Len(g[i])]
<1>3. \A i \in 0 .. n : L[i] = Len(g[i]) /\ L[i] \in Nat
  BY <1>2, ListIs
<1> HIDE DEF L
<1>4. L[0] = 0
  BY <1>2, <1>3, NoElements
<1>5. \A i \in 1 .. n : L[i] = L[i - 1] + Len(ss[i])
  <2> TAKE i \in 1 .. n
  <2> DEFINE k == i - 1
  <2>1. k \in 0 .. n - 1 /\ k \in 0 .. n /\ i \in 0 .. n /\ i = k + 1
    OBVIOUS
  <2>2. g[i] = g[k] \o ss[i] /\ IsList(g[k]) /\ IsList(ss[i])
    BY <1>2, <2>1
  <2>3. Len(g[i]) = Len(g[k]) + Len(ss[i])
    BY <2>2, Joined
  <2> QED  BY <1>3, <2>1, <2>3
<1>6. Lengths(L, ss, n)
  BY <1>3, <1>4, <1>5 DEF Lengths
<1> DEFINE T == {m \in Nat : m \in 0 .. n => Starts(L, g[m], ss, m)}
<1>7. 0 \in T
  <2>1. Len(g[0]) = 0
    BY <1>2, NoElements
  <2> QED  BY <1>4, <2>1 DEF Starts
<1>8. ASSUME NEW m \in Nat, m \in T
      PROVE  m + 1 \in T
  <2> SUFFICES ASSUME m + 1 \in 0 .. n
               PROVE  Starts(L, g[m + 1], ss, m + 1)
    OBVIOUS
  <2> DEFINE k == m + 1
             w == g[m]
             v == g[k]
             e == ss[k]
  <2>1. m \in 0 .. n - 1 /\ m \in 0 .. n /\ k \in 0 .. n /\ k \in 1 .. n /\ k - 1 = m
    OBVIOUS
  <2>2. Starts(L, w, ss, m)
    BY <1>8, <2>1
  <2>3. v = w \o e /\ IsList(w) /\ IsList(e) /\ Len(w) = L[m] /\ L[m] \in Nat /\ L[k] = Len(v)
    BY <1>2, <1>3, <2>1
  <2> HIDE DEF w, v, e
  <2>4. /\ Len(v) = Len(w) + Len(e) /\ Len(e) \in Nat
        /\ \A i \in 1 .. Len(w) : v[i] = w[i]
        /\ \A i \in 1 .. Len(e) : v[Len(w) + i] = e[i]
    <3>1. IsList(w) /\ IsList(e)
      BY <2>3
    <3>2. /\ Len(w \o e) = Len(w) + Len(e)
          /\ \A i \in 1 .. Len(w) : (w \o e)[i] = w[i]
          /\ \A i \in 1 .. Len(e) : (w \o e)[Len(w) + i] = e[i]
      BY ONLY <3>1, Joined
    <3>3. Len(e) \in Nat
      BY <3>1, ListIs
    <3> QED  BY <2>3, <3>2, <3>3
  <2>5. \A i \in 1 .. k : StandsAt(L, v, ss, i)
    <3> TAKE i \in 1 .. k
    <3>1. CASE i = k
      <4>1. \A j \in 1 .. Len(e) : L[m] + j \in 1 .. Len(v) /\ v[L[m] + j] = e[j]
        <5> TAKE j \in 1 .. Len(e)
        <5>1. Len(w) + j \in 1 .. Len(w) + Len(e)
          BY <2>3, <2>4
        <5> QED  BY <2>3, <2>4, <5>1
      <4> QED  BY <2>1, <3>1, <4>1 DEF StandsAt, e
    <3>2. CASE i # k
      <4>1. i \in 1 .. m
        BY <3>2
      <4>2. StandsAt(L, w, ss, i)
        BY <2>2, <4>1 DEF Starts
      <4>3. \A p \in 1 .. Len(w) : p \in 1 .. Len(v)
        BY <2>3, <2>4
      <4> QED  BY <2>4, <4>2, <4>3 DEF StandsAt
    <3> QED  BY <3>1, <3>2
  <2>6. \A p \in 1 .. Len(v) : \E i \in 1 .. k : \E j \in 1 .. Len(ss[i]) : p = L[i - 1] + j
    <3> TAKE p \in 1 .. Len(v)
    <3>1. CASE p <= Len(w)
      <4>1. p \in 1 .. Len(w)
        BY <2>3, <3>1
      <4>2. PICK i \in 1 .. m : \E j \in 1 .. Len(ss[i]) : p = L[i - 1] + j
        BY <2>2, <4>1 DEF Starts
      <4>3. i \in 1 .. k
        OBVIOUS
      <4> QED  BY <4>2, <4>3
    <3>2. CASE ~(p <= Len(w))
      <4> DEFINE j == p - Len(w)
      <4>1. j \in 1 .. Len(e) /\ p = L[m] + j
        BY <2>3, <2>4, <3>2
      <4> HIDE DEF j
      <4>2. j \in 1 .. Len(ss[k]) /\ p = L[k - 1] + j /\ k \in 1 .. k
        BY <2>1, <4>1 DEF e
      <4> QED  BY <4>2
    <3> QED  BY <3>1, <3>2
  <2>7. Len(v) = L[k]
    BY <2>3
  <2> HIDE DEF k
  <2>8. Starts(L, v, ss, k)
    BY <2>5, <2>6, <2>7 DEF Starts
  <2> QED  BY <2>8 DEF v, k
<1> HIDE DEF T
<1>9. n \in T
  BY <1>7, <1>8, Induct
<1>10. n \in 0 .. n
  OBVIOUS
<1>11. Starts(L, FlattenSeq(ss), ss, n)
  BY <1>2, <1>9, <1>10 DEF T
<1> QED  BY <1>6, <1>11

\* The first element that is kept.
LEMMA KeptFirst ==
  ASSUME NEW s, IsList(s), NEW I, NEW k \in 1 .. Len(s), k \in I,
         \A j \in 1 .. k - 1 : j \notin I
  PROVE  Kept(s, I) # <<>> /\ Kept(s, I)[1] = s[k]
<1> DEFINE n == Len(s)
           ss == [i \in 1 .. n |-> IF i \in I THEN <<s[i]>> ELSE <<>>]
<1>1. n \in Nat
  BY ListIs
<1>2. \A i \in 1 .. n : /\ ss[i] = IF i \in I THEN <<s[i]>> ELSE <<>>
                        /\ IsList(ss[i])
  <2> TAKE i \in 1 .. n
  <2>1. CASE i \in I
    BY <2>1, OneElement
  <2>2. CASE i \notin I
    BY <2>2, NoElements
  <2> QED  BY <2>1, <2>2
<1>3. ss = [i \in 1 .. n |-> ss[i]]
  OBVIOUS
<1>4. Kept(s, I) = FlattenSeq(ss)
  BY DEF Kept
<1> HIDE DEF ss
<1>5. IsList(ss) /\ Len(ss) = n
  BY <1>1, <1>3, ListFrom
<1> HIDE DEF n
<1>6. PICK L : Lengths(L, ss, n) /\ Starts(L, FlattenSeq(ss), ss, n)
  BY <1>1, <1>2, <1>5, FlatStarts
<1>7. k \in 1 .. n
  BY DEF n
<1>8. L[k - 1] = 0
  <2> DEFINE T == {m \in Nat : m \in 0 .. k - 1 => L[m] = 0}
  <2>1. 0 \in T
    BY <1>6 DEF Lengths
  <2>2. ASSUME NEW m \in Nat, m \in T
        PROVE  m + 1 \in T
    <3> SUFFICES ASSUME m + 1 \in 0 .. k - 1
                 PROVE  L[m + 1] = 0
      OBVIOUS
    <3> DEFINE i == m + 1
    <3>1. i \in 1 .. n /\ i \in 1 .. k - 1 /\ i - 1 = m /\ m \in 0 .. k - 1
      BY <1>1, <1>7
    <3>2. L[m] = 0
      BY <2>2, <3>1
    <3>3. ss[i] = <<>>
      BY <1>2, <3>1
    <3>4. L[i] = L[i - 1] + Len(ss[i])
      BY <1>6, <3>1 DEF Lengths
    <3>5. Len(ss[i]) = 0
      BY <3>3, NoElements
    <3> HIDE DEF i
    <3>6. L[i] = 0
      BY <3>1, <3>2, <3>4, <3>5
    <3> QED  BY <3>6 DEF i
  <2> HIDE DEF T
  <2>3. k - 1 \in Nat /\ k - 1 \in 0 .. k - 1
    BY <1>7
  <2>4. k - 1 \in T
    BY <2>1, <2>2, <2>3, Induct
  <2> QED  BY <2>3, <2>4 DEF T
<1>9. ss[k] = <<s[k]>> /\ Len(ss[k]) = 1 /\ ss[k][1] = s[k]
  BY <1>2, <1>7, OneElement
<1>10. StandsAt(L, FlattenSeq(ss), ss, k)
  BY <1>6, <1>7 DEF Starts
<1>11. 1 \in 1 .. Len(ss[k]) /\ 0 + 1 = 1
  BY <1>9
<1>12. L[k - 1] + 1 = 1
  BY <1>8
<1>13. 1 \in 1 .. Len(FlattenSeq(ss)) /\ FlattenSeq(ss)[1] = s[k]
  BY <1>9, <1>10, <1>11, <1>12 DEF StandsAt
<1>14. FlattenSeq(ss) # <<>>
  BY <1>13, NoElements
<1> QED  BY <1>4, <1>13, <1>14
\* The places in I, in their order.
InOrderAt(at, m, n, I) ==
  /\ \A k \in 1 .. m : at[k] \in 1 .. n /\ at[k] \in I
  /\ \A j, k \in 1 .. m : j < k => at[j] < at[k]
  /\ \A i \in 1 .. n : i \in I => \E k \in 1 .. m : at[k] = i

\* The first c of the places are those up to i.
FirstPlaces(at, m, c, i) == \A k \in 1 .. m : at[k] <= i <=> k <= c

LEMMA KeptInOrder ==
  ASSUME NEW s, IsList(s), NEW I, NEW m \in Nat, NEW at, InOrderAt(at, m, Len(s), I)
  PROVE  Kept(s, I) = [k \in 1 .. m |-> s[at[k]]]
<1> DEFINE n == Len(s)
           ss == [i \in 1 .. n |-> IF i \in I THEN <<s[i]>> ELSE <<>>]
           Up(c) == [k \in 1 .. c |-> s[at[k]]]
<1>1. n \in Nat
  BY ListIs
<1>2. \A i \in 1 .. n : /\ ss[i] = IF i \in I THEN <<s[i]>> ELSE <<>>
                        /\ IsList(ss[i])
  <2> TAKE i \in 1 .. n
  <2>1. CASE i \in I
    BY <2>1, OneElement
  <2>2. CASE i \notin I
    BY <2>2, NoElements
  <2> QED  BY <2>1, <2>2
<1>3. ss = [i \in 1 .. n |-> ss[i]]
  OBVIOUS
<1>4. Kept(s, I) = FlattenSeq(ss)
  BY DEF Kept
<1> HIDE DEF ss
<1>5. IsList(ss) /\ Len(ss) = n
  BY <1>1, <1>3, ListFrom
<1>6. /\ \A k \in 1 .. m : at[k] \in 1 .. n /\ at[k] \in I
      /\ \A j, k \in 1 .. m : j < k => at[j] < at[k]
      /\ \A i \in 1 .. n : i \in I => \E k \in 1 .. m : at[k] = i
  BY DEF InOrderAt
<1> HIDE DEF n
<1>7. PICK g : Steps(g, ss, n)
  BY <1>1, <1>2, <1>5, FlatSteps
<1>8. /\ g[0] = <<>> /\ g[n] = FlattenSeq(ss)
      /\ \A i \in 0 .. n - 1 : g[i + 1] = g[i] \o ss[i + 1]
      /\ \A i \in 0 .. n : IsList(g[i])
  BY <1>7 DEF Steps
<1>9. \A c \in Nat : IsList(Up(c)) /\ Len(Up(c)) = c /\ \A k \in 1 .. c : Up(c)[k] = s[at[k]]
  <2> TAKE c \in Nat
  <2> DEFINE u == Up(c)
  <2>1. u = [k \in 1 .. c |-> u[k]] /\ \A k \in 1 .. c : u[k] = s[at[k]]
    OBVIOUS
  <2> HIDE DEF u
  <2>2. IsList(u) /\ Len(u) = c
    BY <2>1, ListFrom
  <2> QED  BY <2>1, <2>2 DEF u
<1> HIDE DEF Up
<1> DEFINE T == {i \in Nat : i \in 0 .. n =>
                    \E c \in 0 .. m : FirstPlaces(at, m, c, i) /\ g[i] = Up(c)}
<1>10. 0 \in T
  <2>1. FirstPlaces(at, m, 0, 0)
    BY <1>1, <1>6 DEF FirstPlaces
  <2>2. Up(0) = <<>>
    BY <1>9, EmptyIs
  <2>3. 0 \in 0 .. m
    OBVIOUS
  <2> QED  BY <1>8, <2>1, <2>2, <2>3
<1>11. ASSUME NEW h \in Nat, h \in T
       PROVE  h + 1 \in T
  <2> SUFFICES ASSUME h + 1 \in 0 .. n
               PROVE  \E c \in 0 .. m : FirstPlaces(at, m, c, h + 1) /\ g[h + 1] = Up(c)
    OBVIOUS
  <2> DEFINE i == h + 1
  <2>1. i \in 1 .. n /\ h \in 0 .. n - 1 /\ h \in 0 .. n /\ i = h + 1
    BY <1>1
  <2>2. PICK c \in 0 .. m : FirstPlaces(at, m, c, h) /\ g[h] = Up(c)
    BY <1>11, <2>1
  <2>3. g[i] = Up(c) \o ss[i] /\ c \in Nat
    <3>1. g[h + 1] = g[h] \o ss[h + 1]
      BY <1>8, <2>1
    <3>2. c \in Nat
      OBVIOUS
    <3> QED  BY <2>2, <3>1, <3>2
  <2>4. \A k \in 1 .. m : at[k] <= h <=> k <= c
    BY <2>2 DEF FirstPlaces
  <2>5. \A k \in 1 .. m : at[k] \in Nat
    BY <1>1, <1>6
  <2> HIDE DEF i
  <2>6. CASE i \in I
    <3>1. PICK k \in 1 .. m : at[k] = i
      BY <1>6, <2>1, <2>6
    <3>2. k = c + 1
      <4>1. ~(k <= c)
        BY <2>1, <2>4, <3>1
      <4>2. CASE c + 1 < k
        <5>1. c + 1 \in 1 .. m /\ ~(c + 1 <= c)
          BY <2>3, <4>2
        <5>2. at[c + 1] < at[k]
          BY <1>6, <4>2, <5>1
        <5>3. at[c + 1] <= h
          BY <2>1, <2>5, <3>1, <5>1, <5>2
        <5> QED  BY <2>4, <5>1, <5>3
      <4> QED  BY <2>3, <4>1, <4>2
    <3>3. FirstPlaces(at, m, k, i)
      <4> SUFFICES ASSUME NEW j \in 1 .. m
                   PROVE  at[j] <= i <=> j <= k
        BY DEF FirstPlaces
      <4>1. at[j] \in Nat /\ (at[j] <= h <=> j <= c)
        BY <2>4, <2>5
      <4>2. k < j => i < at[j]
        BY <1>6, <3>1
      <4>3. j = k => at[j] = i
        BY <3>1
      <4> QED  BY <2>1, <2>3, <3>2, <4>1, <4>2, <4>3
    <3>4. g[i] = Up(k)
      <4> DEFINE a == Up(c)
                 b == ss[i]
                 d == Up(k)
      <4>1. IsList(a) /\ Len(a) = c /\ \A l \in 1 .. c : a[l] = s[at[l]]
        BY <1>9, <2>3
      <4>2. IsList(d) /\ Len(d) = k /\ \A l \in 1 .. k : d[l] = s[at[l]]
        BY <1>9, <2>3, <3>2
      <4>3. b = <<s[i]>>
        BY <1>2, <2>1, <2>6
      <4>4. IsList(b) /\ Len(b) = 1 /\ b[1] = s[i]
        BY <4>3, OneElement
      <4> HIDE DEF a, b, d
      <4>5. /\ IsList(a \o b) /\ Len(a \o b) = Len(a) + Len(b)
            /\ \A l \in 1 .. Len(a) : (a \o b)[l] = a[l]
            /\ \A l \in 1 .. Len(b) : (a \o b)[Len(a) + l] = b[l]
        <5>1. IsList(a) /\ IsList(b)
          BY <4>1, <4>4
        <5> QED  BY ONLY <5>1, Joined
      <4>6. (a \o b)[k] = s[i]
        <5>1. 1 \in 1 .. Len(b)
          BY <4>4
        <5> QED  BY <3>2, <4>1, <4>4, <4>5, <5>1
      <4>7. \A l \in 1 .. k : (a \o b)[l] = d[l]
        <5> TAKE l \in 1 .. k
        <5>1. CASE l = k
          BY <3>1, <4>2, <4>6, <5>1
        <5>2. CASE l # k
          <6>1. l \in 1 .. c
            BY <2>3, <3>2, <5>2
          <6> QED  BY <4>1, <4>2, <4>5, <6>1
        <5> QED  BY <5>1, <5>2
      <4>8. Len(a \o b) = k
        BY <3>2, <4>1, <4>4, <4>5
      <4>9. a \o b = d
        BY <4>2, <4>5, <4>7, <4>8, SameLists
      <4> QED  BY <2>3, <4>9 DEF a, b, d
    <3>5. k \in 0 .. m
      OBVIOUS
    <3> QED  BY <3>3, <3>4, <3>5 DEF i
  <2>7. CASE i \notin I
    <3>1. FirstPlaces(at, m, c, i)
      <4> SUFFICES ASSUME NEW j \in 1 .. m
                   PROVE  at[j] <= i <=> j <= c
        BY DEF FirstPlaces
      <4>1. at[j] \in Nat /\ (at[j] <= h <=> j <= c) /\ at[j] # i
        BY <1>6, <2>4, <2>5, <2>7
      <4> QED  BY <2>1, <4>1
    <3>2. ss[i] = <<>>
      BY <1>2, <2>1, <2>7
    <3>3. g[i] = Up(c)
      BY <1>9, <2>3, <3>2, NothingJoined
    <3> QED  BY <3>1, <3>3 DEF i
  <2> QED  BY <2>6, <2>7
<1> HIDE DEF T
<1>12. n \in T /\ n \in 0 .. n
  BY <1>1, <1>10, <1>11, Induct
<1>13. PICK c \in 0 .. m : FirstPlaces(at, m, c, n) /\ g[n] = Up(c)
  BY <1>12 DEF T
<1>14. c = m
  <2>1. m # 0 => m \in 1 .. m
    OBVIOUS
  <2>2. \A k \in 1 .. m : at[k] <= n
    BY <1>1, <1>6
  <2>3. m # 0 => m <= c
    BY <1>13, <2>1, <2>2 DEF FirstPlaces
  <2> QED  BY <2>3
<1> QED  BY <1>4, <1>8, <1>13, <1>14 DEF Up

\* Lists that are not empty stand further and further on.
LEMMA Rising ==
  ASSUME NEW n \in Nat, NEW ss, NEW L, Lengths(L, ss, n),
         \A i \in 1 .. n : Len(ss[i]) \in Nat \ {0}
  PROVE  \A j, k \in 0 .. n : j < k => L[j] < L[k]
<1> DEFINE T == {m \in Nat : m \in 0 .. n => \A j \in 0 .. n : j < m => L[j] < L[m]}
<1>1. /\ \A i \in 0 .. n : L[i] \in Nat
      /\ \A i \in 1 .. n : L[i] = L[i - 1] + Len(ss[i])
  BY DEF Lengths
<1>2. 0 \in T
  OBVIOUS
<1>3. ASSUME NEW m \in Nat, m \in T
      PROVE  m + 1 \in T
  <2> SUFFICES ASSUME m + 1 \in 0 .. n, NEW j \in 0 .. n, j < m + 1
               PROVE  L[j] < L[m + 1]
    OBVIOUS
  <2> DEFINE k == m + 1
  <2>1. k \in 1 .. n /\ k - 1 = m /\ m \in 0 .. n /\ k \in 0 .. n
    OBVIOUS
  <2>2. L[k] = L[k - 1] + Len(ss[k]) /\ Len(ss[k]) \in Nat \ {0}
    BY <1>1, <2>1
  <2>3. L[m] \in Nat /\ L[j] \in Nat /\ L[k] \in Nat
    BY <1>1, <2>1
  <2>4. j = m \/ L[j] < L[m]
    BY <1>3, <2>1
  <2> HIDE DEF k
  <2>5. L[j] < L[k]
    BY <2>1, <2>2, <2>3, <2>4
  <2> QED  BY <2>5 DEF k
<1> HIDE DEF T
<1>4. \A m \in Nat : m \in T
  BY <1>2, <1>3, Induct
<1> QED  BY <1>4 DEF T

LEMMA TailIs ==
  ASSUME NEW w, IsList(w), Len(w) # 0
  PROVE  /\ IsList(Tail(w)) /\ Len(Tail(w)) = Len(w) - 1
         /\ \A i \in 1 .. Len(w) - 1 : Tail(w)[i] = w[i + 1]
<1>1. w \in Seq(ToSet(w)) /\ w # <<>>
  BY NoElements DEF IsList
<1>2. /\ Tail(w) \in Seq(ToSet(w)) /\ Len(Tail(w)) = Len(w) - 1
      /\ \A i \in 1 .. Len(w) - 1 : Tail(w)[i] = w[i + 1]
  BY <1>1
<1> QED  BY <1>2, ListOf

\* The places of a text, in their order.
LEMMA PlacesInOrder ==
  ASSUME NEW text, IsList(text), NEW I, NEW m \in Nat, NEW at, InOrderAt(at, m, Len(text), I)
  PROVE  Kept([i \in DOMAIN text |-> i], I) = [k \in 1 .. m |-> at[k]]
<1> DEFINE n == Len(text)
           s == [i \in DOMAIN text |-> i]
<1>1. n \in Nat /\ DOMAIN text = 1 .. n
  BY ListIs
<1>2. s = [i \in 1 .. n |-> s[i]] /\ \A i \in 1 .. n : s[i] = i
  BY <1>1
<1> HIDE DEF s
<1>3. IsList(s) /\ Len(s) = n
  BY <1>1, <1>2, ListFrom
<1>4. Kept(s, I) = [k \in 1 .. m |-> s[at[k]]]
  BY <1>3, KeptInOrder
<1>5. \A k \in 1 .. m : at[k] \in 1 .. n
  BY DEF InOrderAt
<1>6. \A k \in 1 .. m : s[at[k]] = at[k]
  BY <1>2, <1>5
<1>7. [k \in 1 .. m |-> s[at[k]]] = [k \in 1 .. m |-> at[k]]
  BY <1>6
<1> QED  BY <1>4, <1>7 DEF s
=============================================================================
