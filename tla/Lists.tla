------------------------------- MODULE Lists -------------------------------
(***************************************************************************)
(* Sequences and records as the models use them: selecting, ordering,      *)
(* adding up, spelling out.  Each operator takes data only (a set of       *)
(* places, a relation on places, a function), so that it can be reasoned   *)
(* about; Select and Ordered, which take a condition, reduce to them.      *)
(***************************************************************************)
EXTENDS Naturals, Sequences, FiniteSets, SequencesExt

IsList(s) == s \in Seq(ToSet(s))

\* The elements of s at the places in I, in their order.
Kept(s, I) == FlattenSeq([i \in 1 .. Len(s) |-> IF i \in I THEN <<s[i]>> ELSE <<>>])

Select(s, P(_)) == Kept(s, {i \in DOMAIN s : P(s[i])})

\* The elements of s in the order of R, a strict order on its places: the
\* k-th is the one that k - 1 others precede.
Arranged(s, R) ==
    LET before == [i \in DOMAIN s |-> Cardinality({j \in DOMAIN s : <<j, i>> \in R})]
        at(k)  == CHOOSE i \in DOMAIN s : before[i] = k - 1
    IN  [k \in DOMAIN s |-> s[at(k)]]

\* A stable sort.
Ordered(s, Before(_, _)) ==
    Arranged(s, {p \in (DOMAIN s) \X (DOMAIN s) :
                    \/ p[1] < p[2] /\ ~Before(s[p[2]], s[p[1]])
                    \/ p[1] > p[2] /\ Before(s[p[1]], s[p[2]])})

\* A sum.
Total(numbers) ==
    LET upto[n \in 0 .. Len(numbers)] == IF n = 0 THEN 0 ELSE upto[n - 1] + numbers[n]
    IN  upto[Len(numbers)]

\* The pieces that are met on the way from 1 past the last place, when after
\* place i comes next[i].
Spelled(piece, next) ==
    LET from[i \in 1 .. Len(piece) + 1] ==
            IF i > Len(piece) THEN <<>> ELSE piece[i] \o from[next[i]]
    IN  from[1]

\* A record and what it lacks of another.
With(record, more) ==
    [n \in DOMAIN record \cup DOMAIN more |->
        IF n \in DOMAIN record THEN record[n] ELSE more[n]]
=============================================================================
