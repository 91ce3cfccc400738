--------------------------- MODULE SequenceLemmas ---------------------------
(***************************************************************************)
(* Induction over an initial segment of the naturals, and what follows for *)
(* sequences: their elements, their order, and values defined by recursion *)
(* along them.                                                             *)
(***************************************************************************)
EXTENDS Integers, SequencesExt, SequenceTheorems, FiniteSetTheorems,
        WellFoundedInduction, TLAPS

-----------------------------------------------------------------------------
(* Induction.                                                              *)

LEMMA NatLeast ==
    ASSUME NEW P \in SUBSET Nat, P # {}
    PROVE  \E x \in P : \A y \in P : x <= y
<1> DEFINE Below == {p \in Nat \X Nat : p[1] < p[2]}
<1>1. IsWellFoundedOn(Below, Nat)
    BY NatLessThanWellFounded DEF OpToRel
<1>2. PICK x \in P : \A y \in P : ~(<<y, x>> \in Below)
    <2> HIDE DEF Below
    <2>1. QED BY <1>1, WFMin
<1>3. ASSUME NEW y \in P PROVE x <= y
    <2>1. x \in Nat /\ y \in Nat /\ ~(<<y, x>> \in Below)
        BY <1>2
    <2>2. ~(y < x)
        BY <2>1
    <2>3. QED BY <2>1, <2>2
<1>4. QED BY <1>3

LEMMA SetInduction ==
    ASSUME NEW P \in SUBSET Nat, 0 \in P, \A n \in P : n + 1 \in P
    PROVE  P = Nat
<1> DEFINE Rest == Nat \ P
<1>1. SUFFICES ASSUME Rest # {} PROVE FALSE
    OBVIOUS
<1>2. PICK x \in Rest : \A y \in Rest : x <= y
    BY <1>1, NatLeast
<1>3. x # 0 /\ x - 1 \in Nat /\ x - 1 < x
    OBVIOUS
<1>4. x - 1 \in P
    BY <1>2, <1>3
<1>5. QED BY <1>3, <1>4

\* An initial segment of the naturals is enough.
LEMMA SegmentInduction ==
    ASSUME NEW L \in Nat, NEW P \in SUBSET (0..L), 0 \in P,
           \A n \in 0..(L - 1) : n \in P => n + 1 \in P
    PROVE  P = 0..L
<1> DEFINE Q == P \cup {n \in Nat : n > L}
<1>1. 0 \in Q /\ Q \in SUBSET Nat
    <2>1. \A n \in P : n \in Nat
        OBVIOUS
    <2>2. P \subseteq Nat /\ {n \in Nat : n > L} \subseteq Nat
        BY <2>1
    <2>3. QED BY <2>2
<1>2. ASSUME NEW n \in Q PROVE n + 1 \in Q
    <2>1. CASE n \in P /\ n < L
        <3>1. n \in 0..(L - 1)
            BY <2>1
        <3>2. QED BY <2>1, <3>1
    <2>2. CASE n >= L
        BY <2>2
    <2>3. QED BY <2>1, <2>2
<1>3. Q = Nat
    <2> HIDE DEF Q
    <2>1. QED BY <1>1, <1>2, SetInduction
<1>4. ASSUME NEW n \in 0..L PROVE n \in P
    <2>1. n \in Q /\ ~(n > L)
        BY <1>3
    <2>2. QED BY <2>1
<1>5. QED BY <1>4

\* f holds the values computed along 1..L by G from a.
Along(f, L, V, a, G) ==
    f \in [0..L -> V] /\ f[0] = a /\ \A n \in 1..L : f[n] = G[n][f[n - 1]]

LEMMA RecursionExists ==
    ASSUME NEW L \in Nat, NEW V, NEW a \in V, NEW G \in [1..L -> [V -> V]]
    PROVE  \E f : Along(f, L, V, a, G)
<1> DEFINE Upto(f, k) == Along(f, k, V, a, G)
           P == {k \in 0..L : \E f : Upto(f, k)}
<1>1. 0 \in P
    <2>1. Upto([n \in 0..0 |-> a], 0)
        BY DEF Along
    <2> HIDE DEF Upto
    <2>2. QED BY <2>1
<1>2. ASSUME NEW k \in 0..(L - 1), k \in P PROVE k + 1 \in P
    <2>1. PICK f : Upto(f, k)
        BY <1>2
    <2> DEFINE g == [n \in 0..(k + 1) |-> IF n = k + 1 THEN G[k + 1][f[k]] ELSE f[n]]
    <2>2. f[k] \in V /\ k + 1 \in 1..L
        BY <2>1 DEF Along
    <2>3. G[k + 1][f[k]] \in V
        BY <2>2
    <2>4. g \in [0..(k + 1) -> V] /\ g[0] = a
        BY <2>1, <2>3 DEF Along
    <2>5. ASSUME NEW n \in 1..(k + 1) PROVE g[n] = G[n][g[n - 1]]
        <3>1. CASE n = k + 1
            <4>1. g[n] = G[k + 1][f[k]] /\ g[n - 1] = f[k]
                BY <3>1
            <4>2. QED BY <3>1, <4>1
        <3>2. CASE n # k + 1
            <4>1. n \in 1..k /\ g[n] = f[n] /\ g[n - 1] = f[n - 1]
                BY <3>2
            <4>2. QED BY <2>1, <4>1 DEF Along
        <3>3. QED BY <3>1, <3>2
    <2> HIDE DEF g
    <2>6. Upto(g, k + 1)
        BY <2>4, <2>5 DEF Along
    <2> HIDE DEF Upto
    <2>7. QED BY <2>6
<1>3. P \in SUBSET (0..L)
    OBVIOUS
<1>4. L \in P
    <2> HIDE DEF P
    <2>1. P = 0..L
        BY <1>1, <1>2, <1>3, SegmentInduction
    <2>2. QED BY <2>1
<1>5. QED BY <1>4

-----------------------------------------------------------------------------
(* The elements of a sequence.                                             *)

\* Appending and concatenating.
LEMMA AppendSet ==
    ASSUME NEW S, NEW s \in Seq(S), NEW e \in S
    PROVE  ToSet(Append(s, e)) = ToSet(s) \cup {e}
<1>1. DOMAIN Append(s, e) = 1..(Len(s) + 1) /\ DOMAIN s = 1..Len(s)
    OBVIOUS
<1>2. \A i \in 1..Len(s) : Append(s, e)[i] = s[i]
    OBVIOUS
<1>3. Append(s, e)[Len(s) + 1] = e
    OBVIOUS
<1> DEFINE u == Append(s, e)
<1> HIDE DEF u
<1>4. ToSet(u) = ToSet(s) \cup {e}
    BY <1>1, <1>2, <1>3 DEF ToSet, u
<1>5. QED BY <1>4 DEF u

LEMMA ElementIn ==
    ASSUME NEW S, NEW s \in Seq(S)
    PROVE  /\ ToSet(s) \subseteq S /\ s \in Seq(ToSet(s))
           /\ \A e : e \in ToSet(s) <=> \E i \in 1..Len(s) : s[i] = e
           /\ s = <<>> <=> ToSet(s) = {}
<1>1. ToSet(s) = {s[i] : i \in 1..Len(s)}
    BY DEF ToSet
<1>2. s \in Seq(ToSet(s))
    <2>1. s = [i \in 1..Len(s) |-> s[i]] /\ \A i \in 1..Len(s) : s[i] \in ToSet(s)
        BY <1>1
    <2>2. QED BY <2>1
<1>3. s = <<>> <=> ToSet(s) = {}
    <2>1. s = <<>> <=> Len(s) = 0
        BY EmptySeq
    <2>2. Len(s) # 0 => s[1] \in ToSet(s)
        BY <1>1
    <2>3. Len(s) = 0 => ToSet(s) = {}
        BY <1>1
    <2>4. QED BY <2>1, <2>2, <2>3
<1>4. ToSet(s) \subseteq S
    BY <1>1
<1>5. QED BY <1>1, <1>2, <1>3, <1>4

LEMMA JoinSet ==
    ASSUME NEW S, NEW s \in Seq(S), NEW t \in Seq(S)
    PROVE  ToSet(s \o t) = ToSet(s) \cup ToSet(t)
<1>0. s \o t \in Seq(S) /\ DOMAIN (s \o t) = 1..(Len(s) + Len(t))
    OBVIOUS
<1>1. ASSUME NEW i \in 1..(Len(s) + Len(t)) PROVE (s \o t)[i] \in ToSet(s) \cup ToSet(t)
    <2>1. CASE i <= Len(s)
        BY <2>1 DEF ToSet
    <2>2. CASE i > Len(s)
        <3>1. (s \o t)[i] = t[i - Len(s)] /\ i - Len(s) \in 1..Len(t)
            BY <2>2
        <3>2. QED BY <3>1 DEF ToSet
    <2>3. QED BY <2>1, <2>2
<1>2. ASSUME NEW i \in 1..Len(s) PROVE s[i] \in ToSet(s \o t)
    <2>1. i \in 1..(Len(s) + Len(t)) /\ (s \o t)[i] = s[i]
        OBVIOUS
    <2>2. QED BY <1>0, <2>1 DEF ToSet
<1>3. ASSUME NEW i \in 1..Len(t) PROVE t[i] \in ToSet(s \o t)
    <2>1. Len(s) + i \in 1..(Len(s) + Len(t)) /\ (s \o t)[Len(s) + i] = t[i]
        OBVIOUS
    <2>2. QED BY <1>0, <2>1 DEF ToSet
<1>4. ToSet(s \o t) \subseteq ToSet(s) \cup ToSet(t)
    BY <1>0, <1>1 DEF ToSet
<1>5. ToSet(s) \subseteq ToSet(s \o t) /\ ToSet(t) \subseteq ToSet(s \o t)
    <2>1. DOMAIN s = 1..Len(s) /\ DOMAIN t = 1..Len(t)
        OBVIOUS
    <2> DEFINE U == ToSet(s \o t)
    <2> HIDE DEF U
    <2>2. (\A i \in 1..Len(s) : s[i] \in U) /\ (\A i \in 1..Len(t) : t[i] \in U)
        BY <1>2, <1>3 DEF U
    <2>3. ToSet(s) \subseteq U /\ ToSet(t) \subseteq U
        BY <2>1, <2>2 DEF ToSet
    <2>4. QED BY <2>3 DEF U
<1>6. QED BY <1>4, <1>5

-----------------------------------------------------------------------------
(* Sequences in order: every element is related by R to those behind it.   *)

Sorted(s, R) == \A i, j \in DOMAIN s : i < j => <<s[i], s[j]>> \in R

\* No element occurs twice.
Distinct(s) == \A i, j \in DOMAIN s : s[i] = s[j] => i = j

LEMMA DistinctIsSorted ==
    ASSUME NEW S, NEW s \in Seq(S)
    PROVE  Distinct(s) <=> Sorted(s, {p \in S \X S : p[1] # p[2]})
<1> DEFINE R == {p \in S \X S : p[1] # p[2]}
<1>1. \A i \in DOMAIN s : s[i] \in S /\ i \in Nat
    OBVIOUS
<1>2. \A x, y \in S : <<x, y>> \in R <=> x # y
    OBVIOUS
<1> HIDE DEF R
<1>3. ASSUME Distinct(s) PROVE Sorted(s, R)
    BY <1>1, <1>2, <1>3 DEF Distinct, Sorted
<1>4. ASSUME Sorted(s, R), NEW i \in DOMAIN s, NEW j \in DOMAIN s, s[i] = s[j] PROVE i = j
    <2>1. ~(i < j) /\ ~(j < i)
        BY <1>1, <1>2, <1>4 DEF Sorted
    <2>2. QED BY <1>1, <2>1
<1>5. QED BY <1>3, <1>4 DEF Distinct, R

LEMMA SortedEmpty == \A R : Sorted(<<>>, R) /\ Distinct(<<>>)
BY DEF Sorted, Distinct

LEMMA SortedOne ==
    ASSUME NEW e
    PROVE  /\ Distinct(<<e>>) /\ ToSet(<<e>>) = {e} /\ \A R : Sorted(<<e>>, R)
<1>1. DOMAIN <<e>> = {1} /\ <<e>>[1] = e
    OBVIOUS
<1>2. QED BY <1>1 DEF Sorted, Distinct, ToSet

LEMMA SortedAppend ==
    ASSUME NEW S, NEW s \in Seq(S), NEW e \in S, NEW R, Sorted(s, R),
           \A x \in ToSet(s) : <<x, e>> \in R
    PROVE  Sorted(Append(s, e), R)
<1> DEFINE u == Append(s, e)
<1>1. DOMAIN u = 1..(Len(s) + 1) /\ u[Len(s) + 1] = e /\ \A i \in 1..Len(s) : u[i] = s[i]
    OBVIOUS
<1>2. ASSUME NEW i \in DOMAIN u, NEW j \in DOMAIN u, i < j PROVE <<u[i], u[j]>> \in R
    <2>1. i \in 1..Len(s) /\ u[i] = s[i] /\ i \in DOMAIN s
        BY <1>1, <1>2
    <2>2. CASE j = Len(s) + 1
        <3>1. s[i] \in ToSet(s)
            BY <2>1 DEF ToSet
        <3>2. QED BY <1>1, <2>1, <2>2, <3>1
    <2>3. CASE j # Len(s) + 1
        <3>1. j \in DOMAIN s /\ u[j] = s[j]
            BY <1>1, <2>3
        <3>2. QED BY <1>2, <2>1, <3>1 DEF Sorted
    <2>4. QED BY <2>2, <2>3
<1> HIDE DEF u
<1>3. Sorted(u, R)
    BY <1>2 DEF Sorted
<1>4. QED BY <1>3 DEF u

LEMMA SortedJoin ==
    ASSUME NEW S, NEW s \in Seq(S), NEW t \in Seq(S), NEW R, Sorted(s, R), Sorted(t, R),
           \A x \in ToSet(s) : \A y \in ToSet(t) : <<x, y>> \in R
    PROVE  Sorted(s \o t, R)
<1> DEFINE u == s \o t
<1>1. /\ DOMAIN u = 1..(Len(s) + Len(t)) /\ \A i \in 1..Len(s) : u[i] = s[i]
      /\ \A i \in 1..(Len(s) + Len(t)) : i > Len(s) => i - Len(s) \in 1..Len(t) /\ u[i] = t[i - Len(s)]
    OBVIOUS
<1>2. ASSUME NEW i \in DOMAIN u, NEW j \in DOMAIN u, i < j PROVE <<u[i], u[j]>> \in R
    <2>0. i \in Nat /\ j \in Nat /\ DOMAIN s = 1..Len(s) /\ DOMAIN t = 1..Len(t)
        BY <1>1
    <2>1. CASE j <= Len(s)
        <3>1. i \in DOMAIN s /\ j \in DOMAIN s /\ u[i] = s[i] /\ u[j] = s[j]
            BY <1>1, <1>2, <2>0, <2>1
        <3>2. QED BY <1>2, <3>1 DEF Sorted
    <2>2. CASE i > Len(s)
        <3>1. /\ i - Len(s) \in DOMAIN t /\ j - Len(s) \in DOMAIN t /\ i - Len(s) < j - Len(s)
              /\ u[i] = t[i - Len(s)] /\ u[j] = t[j - Len(s)]
            BY <1>1, <1>2, <2>0, <2>2
        <3>2. QED BY <3>1 DEF Sorted
    <2>3. CASE i <= Len(s) /\ j > Len(s)
        <3>1. i \in DOMAIN s /\ j - Len(s) \in DOMAIN t /\ u[i] = s[i] /\ u[j] = t[j - Len(s)]
            BY <1>1, <2>0, <2>3
        <3>2. s[i] \in ToSet(s) /\ t[j - Len(s)] \in ToSet(t)
            BY <3>1 DEF ToSet
        <3>3. QED BY <3>1, <3>2
    <2>4. Len(s) \in Nat
        OBVIOUS
    <2>5. (j <= Len(s)) \/ (i > Len(s)) \/ (i <= Len(s) /\ j > Len(s))
        BY <2>0, <2>4
    <2>6. QED BY <2>1, <2>2, <2>3, <2>5
<1> HIDE DEF u
<1>3. Sorted(u, R)
    BY <1>2 DEF Sorted
<1>4. QED BY <1>3 DEF u

LEMMA DistinctAppend ==
    ASSUME NEW S, NEW s \in Seq(S), NEW e \in S, Distinct(s), e \notin ToSet(s)
    PROVE  Distinct(Append(s, e))
<1> DEFINE R == {p \in S \X S : p[1] # p[2]}
<1>1. Sorted(s, R)
    BY DistinctIsSorted
<1>2. \A x \in ToSet(s) : <<x, e>> \in R
    BY ElementIn
<1>3. Append(s, e) \in Seq(S)
    OBVIOUS
<1>4. Sorted(Append(s, e), R)
    <2> HIDE DEF R
    <2>1. QED BY <1>1, <1>2, SortedAppend
<1>5. QED BY <1>3, <1>4, DistinctIsSorted

LEMMA DistinctJoin ==
    ASSUME NEW S, NEW s \in Seq(S), NEW t \in Seq(S), Distinct(s), Distinct(t),
           ToSet(s) \cap ToSet(t) = {}
    PROVE  Distinct(s \o t)
<1> DEFINE R == {p \in S \X S : p[1] # p[2]}
<1>1. Sorted(s, R) /\ Sorted(t, R)
    BY DistinctIsSorted
<1>2. \A x \in ToSet(s) : \A y \in ToSet(t) : <<x, y>> \in R
    <2>1. ToSet(s) \subseteq S /\ ToSet(t) \subseteq S
        BY ElementIn
    <2>2. QED BY <2>1
<1>3. s \o t \in Seq(S)
    OBVIOUS
<1>4. Sorted(s \o t, R)
    <2> HIDE DEF R
    <2>1. QED BY <1>1, <1>2, SortedJoin
<1>5. QED BY <1>3, <1>4, DistinctIsSorted

\* Taking the first element away.
LEMMA TailParts ==
    ASSUME NEW S, NEW s \in Seq(S), s # <<>>
    PROVE  /\ Head(s) \in ToSet(s) /\ Tail(s) \in Seq(S)
           /\ ToSet(s) = {Head(s)} \cup ToSet(Tail(s))
           /\ Distinct(s) => Distinct(Tail(s)) /\ Head(s) \notin ToSet(Tail(s))
           /\ \A R : Sorted(s, R) => /\ Sorted(Tail(s), R)
                                     /\ \A x \in ToSet(Tail(s)) : <<Head(s), x>> \in R
<1> DEFINE t == Tail(s)
<1>1. /\ Len(s) \in Nat \ {0} /\ DOMAIN s = 1..Len(s) /\ t \in Seq(S) /\ DOMAIN t = 1..(Len(s) - 1)
      /\ \A i \in 1..(Len(s) - 1) : t[i] = s[i + 1]
      /\ Head(s) = s[1]
    BY EmptySeq
<1> HIDE DEF t
<1>2. Head(s) \in ToSet(s)
    BY <1>1 DEF ToSet
<1>3. ToSet(s) = {Head(s)} \cup ToSet(t)
    <2>1. ASSUME NEW i \in 1..Len(s) PROVE s[i] \in {Head(s)} \cup ToSet(t)
        <3>1. CASE i = 1
            BY <1>1, <3>1
        <3>2. CASE i # 1
            <4>1. i - 1 \in DOMAIN t /\ t[i - 1] = s[(i - 1) + 1] /\ (i - 1) + 1 = i
                BY <1>1, <3>2
            <4>2. QED BY <4>1 DEF ToSet
        <3>3. QED BY <3>1, <3>2
    <2>2. ASSUME NEW i \in 1..(Len(s) - 1) PROVE t[i] \in ToSet(s)
        <3>1. i + 1 \in DOMAIN s /\ t[i] = s[i + 1]
            BY <1>1
        <3>2. QED BY <3>1 DEF ToSet
    <2>3. ToSet(t) \subseteq ToSet(s) /\ ToSet(s) \subseteq {Head(s)} \cup ToSet(t)
        <3>1. ToSet(t) \subseteq ToSet(s)
            BY <1>1, <2>2 DEF ToSet
        <3> DEFINE U == {Head(s)} \cup ToSet(t)
        <3> HIDE DEF U
        <3>2. \A i \in 1..Len(s) : s[i] \in U
            BY <2>1 DEF U
        <3>3. ToSet(s) \subseteq U
            BY <1>1, <3>2 DEF ToSet
        <3>4. QED BY <3>1, <3>3 DEF U
    <2>4. QED BY <1>2, <2>3
<1>4. ASSUME NEW R, Sorted(s, R)
      PROVE  Sorted(t, R) /\ \A x \in ToSet(t) : <<Head(s), x>> \in R
    <2>1. ASSUME NEW i \in DOMAIN t, NEW j \in DOMAIN t, i < j PROVE <<t[i], t[j]>> \in R
        <3>1. /\ i + 1 \in DOMAIN s /\ j + 1 \in DOMAIN s /\ i + 1 < j + 1
              /\ t[i] = s[i + 1] /\ t[j] = s[j + 1]
            BY <1>1, <2>1
        <3>2. QED BY <1>4, <3>1 DEF Sorted
    <2>2. ASSUME NEW i \in DOMAIN t PROVE <<Head(s), t[i]>> \in R
        <3>1. 1 \in DOMAIN s /\ i + 1 \in DOMAIN s /\ 1 < i + 1 /\ t[i] = s[i + 1]
            BY <1>1
        <3>2. QED BY <1>1, <1>4, <3>1 DEF Sorted
    <2>3. QED BY <2>1, <2>2 DEF Sorted, ToSet
<1>5. ASSUME Distinct(s) PROVE Distinct(t) /\ Head(s) \notin ToSet(t)
    <2> DEFINE R == {p \in S \X S : p[1] # p[2]}
    <2>1. Sorted(s, R)
        BY <1>5, DistinctIsSorted
    <2> HIDE DEF R
    <2>2. Sorted(t, R) /\ \A x \in ToSet(t) : <<Head(s), x>> \in R
        BY <1>4, <2>1
    <2>3. <<Head(s), Head(s)>> \notin R
        BY DEF R
    <2>4. QED BY <1>1, <2>2, <2>3, DistinctIsSorted DEF R
<1>6. QED BY <1>1, <1>2, <1>3, <1>4, <1>5 DEF t

\* Inserting an element where the order has its place.
LEMMA InsertParts ==
    ASSUME NEW S, NEW s \in Seq(S), NEW e \in S, NEW i \in 1..Len(s)
    PROVE  /\ InsertAt(s, i, e) \in Seq(S) /\ ToSet(InsertAt(s, i, e)) = ToSet(s) \cup {e}
           /\ \A R : (/\ Sorted(s, R)
                      /\ \A j \in 1..(i - 1) : <<s[j], e>> \in R
                      /\ \A j \in i..Len(s) : <<e, s[j]>> \in R) => Sorted(InsertAt(s, i, e), R)
<1> DEFINE a == SubSeq(s, 1, i - 1)
           b == SubSeq(s, i, Len(s))
           L == Len(s)
<1>0. L \in Nat /\ DOMAIN s = 1..L /\ i \in 1..L /\ \A j \in 1..L : s[j] \in S
    OBVIOUS
<1>1. /\ a \in Seq(S) /\ Len(a) = i - 1 /\ DOMAIN a = 1..(i - 1)
      /\ \A j \in 1..(i - 1) : a[j] = s[j]
    <2>1. /\ 1 \in Int /\ i - 1 \in Int /\ (\A j \in 1..(i - 1) : s[j] \in S)
          /\ (IF 1 <= i - 1 THEN (i - 1) - 1 + 1 ELSE 0) = i - 1 /\ (i - 1) - 1 + 1 = i - 1
          /\ \A j \in 1..(i - 1) : 1 + j - 1 = j
        BY <1>0
    <2>2. a \in Seq(S) /\ Len(a) = i - 1 /\ \A j \in 1..(i - 1) : a[j] = s[j]
        BY <2>1, SubSeqProperties
    <2>3. QED BY <2>2
<1>2. /\ b \in Seq(S) /\ Len(b) = L - i + 1 /\ DOMAIN b = 1..(L - i + 1)
      /\ \A j \in 1..(L - i + 1) : b[j] = s[i + j - 1]
    <2>1. /\ i \in Int /\ L \in Int /\ (\A j \in i..L : s[j] \in S)
          /\ (IF i <= L THEN L - i + 1 ELSE 0) = L - i + 1
        BY <1>0
    <2>2. b \in Seq(S) /\ Len(b) = L - i + 1 /\ \A j \in 1..(L - i + 1) : b[j] = s[i + j - 1]
        BY <2>1, SubSeqProperties
    <2>3. QED BY <2>2
<1>3. InsertAt(s, i, e) = (a \o <<e>>) \o b
    BY DEF InsertAt
<1> HIDE DEF a, b, L
<1>4. <<e>> \in Seq(S) /\ ToSet(<<e>>) = {e} /\ a \o <<e>> \in Seq(S)
      /\ ToSet(a \o <<e>>) = ToSet(a) \cup {e}
    <2>1. <<e>> \in Seq(S) /\ ToSet(<<e>>) = {e}
        BY SortedOne
    <2>2. ToSet(a \o <<e>>) = ToSet(a) \cup ToSet(<<e>>)
        <3> DEFINE c == <<e>>
        <3> HIDE DEF c
        <3>1. ToSet(a \o c) = ToSet(a) \cup ToSet(c)
            <4>1. a \in Seq(S) /\ c \in Seq(S)
                BY <1>1, <2>1 DEF c
            <4>2. QED BY <4>1, JoinSet
        <3>2. QED BY <3>1 DEF c
    <2>3. QED BY <1>1, <2>1, <2>2
<1>5. ToSet(s) = ToSet(a) \cup ToSet(b)
    <2>1. ASSUME NEW j \in 1..L PROVE s[j] \in ToSet(a) \cup ToSet(b)
        <3>1. CASE j < i
            <4>1. j \in DOMAIN a /\ a[j] = s[j]
                BY <1>0, <1>1, <3>1
            <4>2. QED BY <4>1 DEF ToSet
        <3>2. CASE ~(j < i)
            <4>1. j - i + 1 \in 1..(L - i + 1) /\ i + (j - i + 1) - 1 = j
                BY <1>0, <3>2
            <4>2. j - i + 1 \in DOMAIN b /\ b[j - i + 1] = s[j]
                BY <1>2, <4>1
            <4>3. QED BY <4>2 DEF ToSet
        <3>3. QED BY <3>1, <3>2
    <2>2. \A j \in 1..(i - 1) : j \in 1..L
        BY <1>0
    <2>3. \A j \in 1..(L - i + 1) : i + j - 1 \in 1..L
        BY <1>0
    <2>4. ToSet(a) \subseteq ToSet(s)
        BY <1>0, <1>1, <2>2 DEF ToSet
    <2>5. ToSet(b) \subseteq ToSet(s)
        BY <1>0, <1>2, <2>3 DEF ToSet
    <2> DEFINE U == ToSet(a) \cup ToSet(b)
    <2>6. \A j \in 1..L : s[j] \in U
        BY <2>1
    <2> HIDE DEF U
    <2>7. ToSet(s) \subseteq U
        BY <1>0, <2>6 DEF ToSet
    <2>8. QED BY <2>4, <2>5, <2>7 DEF U
<1>6. ASSUME NEW R, Sorted(s, R), \A j \in 1..(i - 1) : <<s[j], e>> \in R,
             \A j \in i..L : <<e, s[j]>> \in R
      PROVE  Sorted((a \o <<e>>) \o b, R)
    <2>1. Sorted(a, R)
        BY <1>0, <1>1, <1>6 DEF Sorted
    <2>2. Sorted(b, R)
        <3>1. ASSUME NEW j \in DOMAIN b, NEW k \in DOMAIN b, j < k PROVE <<b[j], b[k]>> \in R
            <4>1. /\ i + j - 1 \in DOMAIN s /\ i + k - 1 \in DOMAIN s /\ i + j - 1 < i + k - 1
                  /\ b[j] = s[i + j - 1] /\ b[k] = s[i + k - 1]
                BY <1>0, <1>2, <3>1
            <4>2. QED BY <1>6, <4>1 DEF Sorted
        <3>2. QED BY <3>1 DEF Sorted
    <2>3. \A x \in ToSet(a) : <<x, e>> \in R
        BY <1>1, <1>6 DEF ToSet
    <2>4. \A y \in ToSet(b) : <<e, y>> \in R
        <3>1. \A j \in 1..(L - i + 1) : i + j - 1 \in i..L
            BY <1>0
        <3>2. QED BY <1>2, <1>6, <3>1 DEF ToSet
    <2>5. \A x \in ToSet(a) : \A y \in ToSet(b) : <<x, y>> \in R
        <3>1. ASSUME NEW j \in DOMAIN a, NEW k \in DOMAIN b PROVE <<a[j], b[k]>> \in R
            <4>1. /\ j \in DOMAIN s /\ i + k - 1 \in DOMAIN s /\ j < i + k - 1
                  /\ a[j] = s[j] /\ b[k] = s[i + k - 1]
                BY <1>0, <1>1, <1>2
            <4>2. QED BY <1>6, <4>1 DEF Sorted
        <3>2. QED BY <3>1 DEF ToSet
    <2>6. Sorted(a \o <<e>>, R)
        <3>1. Sorted(<<e>>, R)
            BY SortedOne
        <3>2. \A x \in ToSet(a) : \A y \in ToSet(<<e>>) : <<x, y>> \in R
            BY <1>4, <2>3
        <3>3. QED BY <1>1, <1>4, <2>1, <3>1, <3>2, SortedJoin
    <2>7. \A x \in ToSet(a \o <<e>>) : \A y \in ToSet(b) : <<x, y>> \in R
        BY <1>4, <2>4, <2>5
    <2>8. QED BY <1>2, <1>4, <2>2, <2>6, <2>7, SortedJoin
<1>7. (a \o <<e>>) \o b \in Seq(S) /\ ToSet((a \o <<e>>) \o b) = ToSet(s) \cup {e}
    <2>1. ToSet((a \o <<e>>) \o b) = ToSet(a \o <<e>>) \cup ToSet(b)
        <3> DEFINE c == a \o <<e>>
        <3> HIDE DEF c
        <3>1. c \in Seq(S) /\ b \in Seq(S)
            BY <1>2, <1>4 DEF c
        <3>2. ToSet(c \o b) = ToSet(c) \cup ToSet(b)
            BY <3>1, JoinSet
        <3>3. QED BY <3>2 DEF c
    <2>2. QED BY <1>2, <1>4, <1>5, <2>1
<1>8. QED BY <1>3, <1>6, <1>7 DEF L

\* A larger relation on the elements keeps the order.
LEMMA SortedWider ==
    ASSUME NEW S, NEW s \in Seq(S), NEW R, NEW Q, Sorted(s, R),
           \A x, y \in ToSet(s) : <<x, y>> \in R => <<x, y>> \in Q
    PROVE  Sorted(s, Q)
<1>1. \A i \in DOMAIN s : s[i] \in ToSet(s)
    BY DEF ToSet
<1>2. QED BY <1>1 DEF Sorted

\* Along an order there is no going back ...
LEMMA SortedAhead ==
    ASSUME NEW S, NEW s \in Seq(S), NEW t \in Seq(S), NEW R, Sorted(s, R), Sorted(t, R),
           \A x, y \in S : <<x, y>> \in R => <<y, x>> \notin R,
           ToSet(s) \subseteq ToSet(t)
    PROVE  \A i \in 1..Len(s) : \A k \in 1..Len(t) : t[k] = s[i] => k >= i
<1>0. /\ DOMAIN s = 1..Len(s) /\ DOMAIN t = 1..Len(t) /\ Len(s) \in Nat
      /\ \A i \in 1..Len(s) : s[i] \in S
    OBVIOUS
<1> DEFINE P == {i \in 0..Len(s) : i = 0 \/ \A k \in 1..Len(t) : t[k] = s[i] => k >= i}
<1>1. 0 \in P /\ P \in SUBSET (0..Len(s))
    BY <1>0
<1>2. ASSUME NEW i \in 0..(Len(s) - 1), i \in P PROVE i + 1 \in P
    <2>1. SUFFICES ASSUME NEW k \in 1..Len(t), t[k] = s[i + 1] PROVE k >= i + 1
        BY <1>0
    <2>2. CASE i = 0
        BY <2>2
    <2>3. CASE i # 0
        <3>1. i \in 1..Len(s) /\ i + 1 \in 1..Len(s) /\ i < i + 1
            BY <1>0, <2>3
        <3>2. <<s[i], s[i + 1]>> \in R
            BY <1>0, <3>1 DEF Sorted
        <3>3. s[i] \in ToSet(t)
            BY <1>0, <3>1 DEF ToSet
        <3>4. PICK j \in 1..Len(t) : t[j] = s[i]
            BY <1>0, <3>3 DEF ToSet
        <3>5. j >= i
            BY <1>2, <2>3, <3>4
        <3>6. ~(k < j) /\ k # j
            <4>1. <<t[k], t[j]>> \notin R /\ s[i] # s[i + 1]
                BY <1>0, <2>1, <3>1, <3>2, <3>4
            <4>2. QED BY <1>0, <2>1, <3>4, <4>1 DEF Sorted
        <3>7. QED BY <3>5, <3>6
    <2>4. QED BY <2>2, <2>3
<1>3. ASSUME NEW i \in 1..Len(s) PROVE i \in P
    <2> HIDE DEF P
    <2>1. P = 0..Len(s)
        BY <1>0, <1>1, <1>2, SegmentInduction
    <2>2. QED BY <1>0, <2>1
<1>4. QED BY <1>3

\* ... hence an order determines the sequence of a set's elements.
LEMMA SortedUnique ==
    ASSUME NEW S, NEW s \in Seq(S), NEW t \in Seq(S), NEW R, Sorted(s, R), Sorted(t, R),
           \A x, y \in S : <<x, y>> \in R => <<y, x>> \notin R,
           ToSet(s) = ToSet(t)
    PROVE  s = t
<1>1. \A i \in 1..Len(s) : \A k \in 1..Len(t) : t[k] = s[i] => k = i
    <2>1. \A i \in 1..Len(s) : \A k \in 1..Len(t) : t[k] = s[i] => k >= i
        BY SortedAhead
    <2>2. \A i \in 1..Len(t) : \A k \in 1..Len(s) : s[k] = t[i] => k >= i
        BY SortedAhead
    <2>3. QED BY <2>1, <2>2
<1>2. \A i \in 1..Len(s) : i \in 1..Len(t) /\ t[i] = s[i]
    <2> TAKE i \in 1..Len(s)
    <2>1. s[i] \in ToSet(t)
        BY ElementIn
    <2>2. PICK k \in 1..Len(t) : t[k] = s[i]
        BY <2>1, ElementIn
    <2>3. QED BY <1>1, <2>2
<1>3. \A k \in 1..Len(t) : k \in 1..Len(s)
    <2> TAKE k \in 1..Len(t)
    <2>1. t[k] \in ToSet(s)
        BY ElementIn
    <2>2. PICK i \in 1..Len(s) : s[i] = t[k]
        BY <2>1, ElementIn
    <2>3. QED BY <1>1, <2>2
<1>4. Len(s) = Len(t)
    <2>1. Len(s) \in Nat /\ Len(t) \in Nat
        OBVIOUS
    <2>2. ~(Len(s) > Len(t)) /\ ~(Len(t) > Len(s))
        BY <1>2, <1>3, <2>1
    <2>3. QED BY <2>1, <2>2
<1>5. QED BY <1>2, <1>4, SeqEqual
=============================================================================
