------------------------- MODULE EventReplayProofs --------------------------
(***************************************************************************)
(* Proofs about EventReplay, for every length of the window and any number *)
(* of events, lost connections, crashes, failed writes and reducers,       *)
(* unreadable logs, reloads and deletions:                                 *)
(*   - LogInv: what the outbox and the log hold.  A deleted event never    *)
(*     comes back, and a writer that has caught up without a failure has   *)
(*     left the window on disk;                                            *)
(*   - ViewInv: types, and what is cleared with what;                      *)
(*   - LogSide: how the numbers of what is kept, logged and in the window  *)
(*     are related, from one runtime to the next;                          *)
(*   - PageSide: what is on its way to the renderer continues what it has  *)
(*     seen.  A renderer that follows its session has skipped nothing, and *)
(*     nothing is applied twice or out of order.                           *)
(*                                                                         *)
(* Assumed are LimitAssumption and BoundAssumption.  What the recursive    *)
(* Without and Handled compute is proved by induction over a segment of    *)
(* the naturals (SegmentInduction of SequenceLemmas).                      *)
(***************************************************************************)
EXTENDS EventReplay, SequenceLemmas

-----------------------------------------------------------------------------
(* Suffixes.                                                               *)

\* IsSuffix, element by element.
Ends(s, t) ==
    /\ Len(s) <= Len(t)
    /\ \A i \in 1..Len(s) : s[i] = t[Len(t) - Len(s) + i]

LEMMA SuffixIsEnd ==
    ASSUME NEW S, NEW s \in Seq(S), NEW t \in Seq(S)
    PROVE  IsSuffix(s, t) <=> Ends(s, t)
<1> DEFINE r == Reverse(s)
           u == Reverse(t)
<1>1. /\ r \in Seq(S) /\ Len(r) = Len(s) /\ \A i \in 1..Len(s) : r[i] = s[Len(s) - i + 1]
      /\ u \in Seq(S) /\ Len(u) = Len(t) /\ \A i \in 1..Len(t) : u[i] = t[Len(t) - i + 1]
    BY DEF Reverse
<1> HIDE DEF r, u
<1>2. IsSuffix(s, t) <=> Len(s) <= Len(t) /\ SubSeq(r, 1, Len(s)) = SubSeq(u, 1, Len(s))
    BY <1>1 DEF IsSuffix, IsPrefix, r, u
<1>3. ASSUME Len(s) <= Len(t)
      PROVE  SubSeq(r, 1, Len(s)) = SubSeq(u, 1, Len(s))
                 <=> \A i \in 1..Len(s) : r[i] = u[i]
    BY <1>1, <1>3
<1>4. ASSUME Len(s) <= Len(t)
      PROVE  (\A i \in 1..Len(s) : r[i] = u[i])
                 <=> \A i \in 1..Len(s) : s[i] = t[Len(t) - Len(s) + i]
    <2>1. ASSUME \A i \in 1..Len(s) : r[i] = u[i], NEW i \in 1..Len(s)
          PROVE  s[i] = t[Len(t) - Len(s) + i]
        <3> DEFINE j == Len(s) - i + 1
        <3>1. j \in 1..Len(s) /\ Len(s) - j + 1 = i /\ Len(t) - j + 1 = Len(t) - Len(s) + i
            OBVIOUS
        <3> HIDE DEF j
        <3>2. r[j] = s[i]
            BY <1>1, <3>1
        <3>3. u[j] = t[Len(t) - Len(s) + i]
            <4>1. j \in 1..Len(t)
                BY <1>4, <3>1
            <4>2. u[j] = t[Len(t) - j + 1]
                BY <1>1, <4>1
            <4>3. QED BY <3>1, <4>2
        <3>4. QED BY <2>1, <3>1, <3>2, <3>3
    <2>2. ASSUME \A i \in 1..Len(s) : s[i] = t[Len(t) - Len(s) + i], NEW i \in 1..Len(s)
          PROVE  r[i] = u[i]
        <3> DEFINE j == Len(s) - i + 1
        <3>1. j \in 1..Len(s) /\ Len(t) - Len(s) + j = Len(t) - i + 1
            OBVIOUS
        <3>2. s[j] = t[Len(t) - Len(s) + j]
            BY <2>2, <3>1
        <3> HIDE DEF j
        <3>3. r[i] = s[j] /\ u[i] = t[Len(t) - i + 1]
            BY <1>1, <1>4 DEF j
        <3>4. QED BY <3>1, <3>2, <3>3
    <2>3. QED BY <2>1, <2>2
<1>5. QED BY <1>2, <1>3, <1>4 DEF Ends

-----------------------------------------------------------------------------
(* What Without computes.                                                  *)

LEMMA EndOfAppend ==
    ASSUME NEW S, NEW s \in Seq(S), NEW t \in Seq(S), NEW e \in S, Ends(s, t)
    PROVE  Ends(Append(s, e), Append(t, e))
<1> DEFINE x == Append(s, e)
           y == Append(t, e)
<1>1. Len(x) = Len(s) + 1 /\ Len(y) = Len(t) + 1 /\ Len(s) <= Len(t)
    BY DEF Ends
<1>2. ASSUME NEW i \in 1..(Len(s) + 1)
      PROVE  x[i] = y[Len(t) - Len(s) + i]
    <2>1. CASE i = Len(s) + 1
        <3>1. Len(t) - Len(s) + i = Len(t) + 1
            BY <2>1
        <3>2. QED BY <2>1, <3>1
    <2>2. CASE i # Len(s) + 1
        <3>1. i \in 1..Len(s) /\ Len(t) - Len(s) + i \in 1..Len(t)
            BY <1>1, <2>2
        <3>2. s[i] = t[Len(t) - Len(s) + i]
            BY <3>1 DEF Ends
        <3>3. QED BY <3>1, <3>2
    <2>3. QED BY <2>1, <2>2
<1>3. (Len(t) + 1) - (Len(s) + 1) = Len(t) - Len(s)
    OBVIOUS
<1> HIDE DEF x, y
<1>4. Ends(x, y)
    BY <1>1, <1>2, <1>3 DEF Ends
<1>5. QED BY <1>4 DEF x, y

\* f holds what is kept of every initial segment of s up to the n-th.
Kept(q, e, ids) == IF Id(e) \in ids THEN q ELSE Append(q, e)
KeptUpTo(f, n, s, ids) ==
    /\ f \in [0..n -> Seq(Event)] /\ f[0] = <<>>
    /\ \A i \in 1..n : f[i] = Kept(f[i - 1], s[i], ids)

LEMMA KeptTyped ==
    ASSUME NEW q \in Seq(Event), NEW e \in Event, NEW ids
    PROVE  Kept(q, e, ids) \in Seq(Event)
BY DEF Kept

LEMMA KeptExists ==
    ASSUME NEW s \in Seq(Event), NEW ids
    PROVE  \E f : KeptUpTo(f, Len(s), s, ids)
<1> DEFINE P == {n \in 0..Len(s) : \E f : KeptUpTo(f, n, s, ids)}
<1>1. 0 \in P
    <2>1. KeptUpTo([i \in 0..0 |-> <<>>], 0, s, ids)
        BY DEF KeptUpTo
    <2>2. QED BY <2>1
<1>2. ASSUME NEW n \in 0..(Len(s) - 1), n \in P PROVE n + 1 \in P
    <2>1. PICK f : KeptUpTo(f, n, s, ids)
        BY <1>2
    <2> DEFINE last == Kept(f[n], s[n + 1], ids)
               g == [i \in 0..(n + 1) |-> IF i = n + 1 THEN last ELSE f[i]]
    <2>2. last \in Seq(Event)
        BY <2>1, KeptTyped DEF KeptUpTo
    <2> HIDE DEF last
    <2>3. g \in [0..(n + 1) -> Seq(Event)]
        BY <2>1, <2>2 DEF KeptUpTo
    <2>4. g[0] = <<>>
        BY <2>1 DEF KeptUpTo
    <2>5. ASSUME NEW i \in 1..(n + 1) PROVE g[i] = Kept(g[i - 1], s[i], ids)
        <3>1. CASE i = n + 1
            <4>1. g[i] = last /\ g[i - 1] = f[n]
                BY <3>1
            <4>2. QED BY <3>1, <4>1 DEF last
        <3>2. CASE i # n + 1
            <4>1. i \in 1..n /\ g[i] = f[i] /\ g[i - 1] = f[i - 1]
                BY <3>2
            <4>2. QED BY <2>1, <4>1 DEF KeptUpTo
        <3>3. QED BY <3>1, <3>2
    <2>6. KeptUpTo(g, n + 1, s, ids)
        <3> HIDE DEF g
        <3>1. QED BY <2>3, <2>4, <2>5 DEF KeptUpTo
    <2>7. \E h : KeptUpTo(h, n + 1, s, ids)
        BY <2>6
    <2>8. QED BY <2>7
<1>3. P = 0..Len(s)
    <2>1. P \in SUBSET (0..Len(s))
        OBVIOUS
    <2> HIDE DEF P
    <2>2. QED BY <1>1, <1>2, <2>1, SegmentInduction
<1>4. Len(s) \in P
    <2> HIDE DEF P
    <2>1. QED BY <1>3
<1>5. QED BY <1>4

LEMMA WithoutIsKept ==
    ASSUME NEW s \in Seq(Event), NEW ids
    PROVE  \E f : KeptUpTo(f, Len(s), s, ids) /\ Without(s, ids) = f[Len(s)]
<1> DEFINE Body(f) == [n \in 0..Len(s) |->
                          IF n = 0 THEN <<>>
                          ELSE IF Id(s[n]) \in ids THEN f[n - 1] ELSE Append(f[n - 1], s[n])]
           g == CHOOSE f : f = Body(f)
<1>1. Without(s, ids) = g[Len(s)]
    BY DEF Without
<1>2. \E f : f = Body(f)
    <2>1. PICK f : KeptUpTo(f, Len(s), s, ids)
        BY KeptExists
    <2>2. ASSUME NEW n \in 0..Len(s) PROVE f[n] = Body(f)[n]
        <3>1. CASE n = 0
            BY <2>1, <3>1 DEF KeptUpTo
        <3>2. CASE n # 0
            <4>1. n \in 1..Len(s)
                BY <3>2
            <4>2. f[n] = Kept(f[n - 1], s[n], ids)
                BY <2>1, <4>1 DEF KeptUpTo
            <4>3. QED BY <3>2, <4>2 DEF Kept
        <3>3. QED BY <3>1, <3>2
    <2>3. f = Body(f)
        BY <2>1, <2>2 DEF KeptUpTo
    <2>4. QED BY <2>3
<1>3. g = Body(g)
    <2> HIDE DEF Body
    <2>1. QED BY <1>2
<1> HIDE DEF g
<1>4. /\ g = [n \in 0..Len(s) |-> g[n]] /\ g[0] = <<>>
      /\ \A n \in 1..Len(s) : g[n] = Kept(g[n - 1], s[n], ids)
    <2>1. g = [n \in 0..Len(s) |-> g[n]]
        BY <1>3
    <2>2. g[0] = <<>>
        BY <1>3
    <2>3. ASSUME NEW n \in 1..Len(s) PROVE g[n] = Kept(g[n - 1], s[n], ids)
        <3>1. Body(g)[n] = Kept(g[n - 1], s[n], ids)
            BY DEF Kept
        <3> HIDE DEF Body
        <3>2. QED BY <1>3, <3>1
    <2>4. QED BY <2>1, <2>2, <2>3
<1> DEFINE P == {n \in 0..Len(s) : g[n] \in Seq(Event)}
<1>5. P = 0..Len(s)
    <2>1. 0 \in P
        <3>1. <<>> \in Seq(Event) /\ 0 \in 0..Len(s) /\ g[0] = <<>>
            BY <1>4
        <3> HIDE DEF Event
        <3>2. QED BY <3>1
    <2>2. ASSUME NEW n \in 0..(Len(s) - 1), n \in P PROVE n + 1 \in P
        <3>1. n + 1 \in 1..Len(s) /\ (n + 1) - 1 = n
            OBVIOUS
        <3>2. g[n + 1] = Kept(g[n], s[n + 1], ids) /\ s[n + 1] \in Event
            BY <1>4, <3>1
        <3>3. QED BY <2>2, <3>1, <3>2, KeptTyped
    <2>3. P \in SUBSET (0..Len(s))
        OBVIOUS
    <2> HIDE DEF P
    <2>4. QED BY <2>1, <2>2, <2>3, SegmentInduction
<1>6. KeptUpTo(g, Len(s), s, ids)
    BY <1>4, <1>5 DEF KeptUpTo
<1>7. QED BY <1>1, <1>6

\* The events that are not removed are left, in their order.
LEMMA WithoutKeepsTheOthers ==
    ASSUME NEW s \in Seq(Event), NEW ids
    PROVE  /\ Without(s, ids) \in Seq(Event)
           /\ ToSet(Without(s, ids)) = {e \in ToSet(s) : Id(e) \notin ids}
           /\ \A R : Sorted(s, R) => Sorted(Without(s, ids), R)
<1>1. PICK f : KeptUpTo(f, Len(s), s, ids) /\ Without(s, ids) = f[Len(s)]
    BY WithoutIsKept
<1> DEFINE Left(n) == {e \in {s[i] : i \in 1..n} : Id(e) \notin ids}
           P == {n \in 0..Len(s) : /\ ToSet(f[n]) = Left(n)
                                   /\ \A R : Sorted(s, R) => Sorted(f[n], R)}
<1>2. 0 \in P
    <2>1. f[0] = <<>> /\ ToSet(f[0]) = {} /\ Left(0) = {}
        BY <1>1 DEF KeptUpTo, ToSet
    <2>2. QED BY <2>1, SortedEmpty
<1>3. ASSUME NEW n \in 0..(Len(s) - 1), n \in P PROVE n + 1 \in P
    <2>1. n + 1 \in 1..Len(s) /\ (n + 1) - 1 = n /\ n \in Nat
        OBVIOUS
    <2>2. f[n + 1] = Kept(f[n], s[n + 1], ids) /\ f[n] \in Seq(Event) /\ s[n + 1] \in Event
        BY <1>1, <2>1 DEF KeptUpTo
    <2>3. {s[i] : i \in 1..(n + 1)} = {s[i] : i \in 1..n} \cup {s[n + 1]}
        BY <2>1
    <2>4. CASE Id(s[n + 1]) \in ids
        BY <1>3, <2>1, <2>2, <2>3, <2>4 DEF Kept
    <2>5. CASE Id(s[n + 1]) \notin ids
        <3>1. f[n + 1] = Append(f[n], s[n + 1])
            BY <2>2, <2>5 DEF Kept
        <3>2. ToSet(f[n + 1]) = ToSet(f[n]) \cup {s[n + 1]}
            BY <2>2, <3>1, AppendSet
        <3>3. ToSet(f[n + 1]) = Left(n + 1)
            BY <1>3, <2>3, <2>5, <3>2
        <3>4. ASSUME NEW R, Sorted(s, R) PROVE Sorted(f[n + 1], R)
            <4>1. Sorted(f[n], R)
                BY <1>3, <3>4
            <4>2. ASSUME NEW x \in ToSet(f[n]) PROVE <<x, s[n + 1]>> \in R
                <5>1. PICK i \in 1..n : x = s[i]
                    BY <1>3
                <5>2. i \in DOMAIN s /\ n + 1 \in DOMAIN s /\ i < n + 1
                    BY <2>1
                <5>3. QED BY <3>4, <5>1, <5>2 DEF Sorted
            <4>3. QED BY <2>2, <3>1, <4>1, <4>2, SortedAppend
        <3>5. QED BY <2>1, <3>3, <3>4
    <2>6. QED BY <2>4, <2>5
<1>4. P = 0..Len(s)
    <2>1. P \in SUBSET (0..Len(s))
        OBVIOUS
    <2> HIDE DEF P
    <2>2. QED BY <1>2, <1>3, <2>1, SegmentInduction
<1>5. Len(s) \in P
    <2> HIDE DEF P
    <2>1. QED BY <1>4
<1>6. Left(Len(s)) = {e \in ToSet(s) : Id(e) \notin ids}
    BY DEF ToSet
<1>7. QED BY <1>1, <1>5, <1>6 DEF KeptUpTo

\* What is removed of an end is an end of what is left.
LEMMA WithoutOfEnd ==
    ASSUME NEW s \in Seq(Event), NEW t \in Seq(Event), NEW ids, Ends(s, t)
    PROVE  Ends(Without(s, ids), Without(t, ids))
<1> DEFINE d == Len(t) - Len(s)
<1>1. PICK f : KeptUpTo(f, Len(s), s, ids) /\ Without(s, ids) = f[Len(s)]
    BY WithoutIsKept
<1>2. PICK g : KeptUpTo(g, Len(t), t, ids) /\ Without(t, ids) = g[Len(t)]
    BY WithoutIsKept
<1>3. d \in 0..Len(t) /\ Len(t) = d + Len(s) /\ g[d] \in Seq(Event)
    <2>1. d \in 0..Len(t) /\ Len(t) = d + Len(s)
        BY DEF Ends
    <2> HIDE DEF d, Event
    <2>2. g[d] \in Seq(Event)
        BY <1>2, <2>1 DEF KeptUpTo
    <2>3. QED BY <2>1, <2>2
<1> DEFINE P == {n \in 0..Len(s) : Ends(f[n], g[d + n])}
<1>4. 0 \in P
    <2>1. f[0] = <<>> /\ d + 0 = d /\ 0 \in 0..Len(s)
        BY <1>1, <1>3 DEF KeptUpTo
    <2>2. Ends(<<>>, g[d])
        BY <1>3 DEF Ends
    <2> HIDE DEF d
    <2>3. QED BY <2>1, <2>2
<1>5. ASSUME NEW n \in 0..(Len(s) - 1), n \in P PROVE n + 1 \in P
    <2>1. /\ n + 1 \in 1..Len(s) /\ (n + 1) - 1 = n /\ n \in 0..Len(s)
          /\ d + (n + 1) \in 1..Len(t) /\ (d + (n + 1)) - 1 = d + n
          /\ d + n \in 0..Len(t)
        BY <1>3
    <2>2. t[d + (n + 1)] = s[n + 1] /\ s[n + 1] \in Event
        BY <2>1 DEF Ends
    <2> HIDE DEF d
    <2>3. /\ f[n + 1] = Kept(f[n], s[n + 1], ids) /\ f[n] \in Seq(Event)
          /\ g[d + (n + 1)] = Kept(g[d + n], s[n + 1], ids) /\ g[d + n] \in Seq(Event)
        BY <1>1, <1>2, <2>1, <2>2 DEF KeptUpTo
    <2>4. Ends(f[n], g[d + n])
        BY <1>5
    <2>5. Ends(f[n + 1], g[d + (n + 1)])
        BY <2>2, <2>3, <2>4, EndOfAppend DEF Kept
    <2>6. QED BY <2>1, <2>5
<1>6. P = 0..Len(s)
    <2>1. P \in SUBSET (0..Len(s))
        OBVIOUS
    <2> HIDE DEF P
    <2>2. QED BY <1>4, <1>5, <2>1, SegmentInduction
<1>7. Len(s) \in P
    <2> HIDE DEF P
    <2>1. QED BY <1>6
<1>8. QED BY <1>1, <1>2, <1>3, <1>7

-----------------------------------------------------------------------------
(* Ends of sequences.                                                      *)

LEMMA EndsItself ==
    ASSUME NEW S, NEW s \in Seq(S)
    PROVE  Ends(s, s) /\ Ends(<<>>, s) /\ s \o <<>> = s
BY DEF Ends

LEMMA EndsTransitive ==
    ASSUME NEW S, NEW s \in Seq(S), NEW t \in Seq(S), NEW u \in Seq(S),
           Ends(s, t), Ends(t, u)
    PROVE  Ends(s, u)
<1>1. ASSUME NEW i \in 1..Len(s) PROVE s[i] = u[Len(u) - Len(s) + i]
    <2> DEFINE j == Len(t) - Len(s) + i
    <2>1. j \in 1..Len(t) /\ Len(u) - Len(t) + j = Len(u) - Len(s) + i
        BY DEF Ends
    <2>2. s[i] = t[j]
        BY DEF Ends
    <2> HIDE DEF j
    <2>3. t[j] = u[Len(u) - Len(t) + j]
        BY <2>1 DEF Ends
    <2>4. QED BY <2>1, <2>2, <2>3
<1>2. Len(s) <= Len(u)
    BY DEF Ends
<1>3. QED BY <1>1, <1>2 DEF Ends

\* Of two ends the shorter is an end of the other.
LEMMA EndsShorter ==
    ASSUME NEW S, NEW s \in Seq(S), NEW t \in Seq(S), NEW u \in Seq(S),
           Ends(s, u), Ends(t, u), Len(s) <= Len(t)
    PROVE  Ends(s, t)
<1>1. ASSUME NEW i \in 1..Len(s) PROVE s[i] = t[Len(t) - Len(s) + i]
    <2> DEFINE j == Len(t) - Len(s) + i
    <2>1. j \in 1..Len(t) /\ Len(u) - Len(t) + j = Len(u) - Len(s) + i
        OBVIOUS
    <2>2. s[i] = u[Len(u) - Len(s) + i]
        BY DEF Ends
    <2> HIDE DEF j
    <2>3. t[j] = u[Len(u) - Len(t) + j]
        BY <2>1 DEF Ends
    <2>4. QED BY <2>1, <2>2, <2>3 DEF j
<1>2. QED BY <1>1 DEF Ends

LEMMA JoinAppend ==
    ASSUME NEW S, NEW b \in Seq(S), NEW l \in Seq(S), NEW e \in S
    PROVE  b \o Append(l, e) = Append(b \o l, e)
<1> DEFINE x == b \o Append(l, e)
           y == Append(b \o l, e)
<1>1. x \in Seq(S) /\ Len(x) = Len(b) + Len(l) + 1
    OBVIOUS
<1>2. y \in Seq(S) /\ Len(y) = Len(b) + Len(l) + 1
    OBVIOUS
<1>3. ASSUME NEW i \in 1..(Len(b) + Len(l) + 1) PROVE x[i] = y[i]
    OBVIOUS
<1> HIDE DEF x, y
<1>4. x = y
    BY <1>1, <1>2, <1>3, SeqEqual
<1>5. QED BY <1>4 DEF x, y

\* The window is the end of what it was cut from.
LEMMA RetainedIsEnd ==
    ASSUME NEW s \in Seq(Event)
    PROVE  /\ Retained(s) \in Seq(Event) /\ Ends(Retained(s), s)
           /\ ToSet(Retained(s)) \subseteq ToSet(s)
           /\ Len(Retained(s)) = IF Len(s) <= Limit THEN Len(s) ELSE Limit
<1> DEFINE k == IF Len(s) <= Limit THEN 1 ELSE Len(s) - Limit + 1
<1>1. Limit \in Nat /\ Limit >= 1 /\ Len(s) \in Nat
    BY LimitAssumption
<1>2. Max({1, Len(s) - Limit + 1}) = k
    BY <1>1 DEF Max
<1>3. Retained(s) = SubSeq(s, k, Len(s))
    BY <1>2 DEF Retained
<1>4. k \in 1..(Len(s) + 1)
    BY <1>1
<1> HIDE DEF k
<1>5. /\ SubSeq(s, k, Len(s)) \in Seq(Event)
      /\ Len(SubSeq(s, k, Len(s))) = Len(s) - k + 1
      /\ \A i \in 1..(Len(s) - k + 1) : SubSeq(s, k, Len(s))[i] = s[k + i - 1]
    BY <1>1, <1>4, SubSeqProperties
<1> DEFINE r == Retained(s)
<1> HIDE DEF r
<1>6. /\ r \in Seq(Event) /\ Len(r) = Len(s) - k + 1
      /\ \A i \in 1..Len(r) : r[i] = s[k + i - 1]
    BY <1>3, <1>5 DEF r
<1>7. Ends(r, s)
    BY <1>1, <1>4, <1>6 DEF Ends
<1>8. ToSet(r) \subseteq ToSet(s)
    BY <1>1, <1>4, <1>6, SMTT(20) DEF ToSet
<1>9. Len(r) = IF Len(s) <= Limit THEN Len(s) ELSE Limit
    BY <1>1, <1>6 DEF k
<1>10. QED BY <1>6, <1>7, <1>8, <1>9 DEF r

LEMMA EndSet ==
    ASSUME NEW S, NEW s \in Seq(S), NEW t \in Seq(S), Ends(s, t)
    PROVE  ToSet(s) \subseteq ToSet(t)
BY DEF Ends, ToSet

-----------------------------------------------------------------------------
(* The inductive invariant.                                                *)

\* The rewrite at the head of the queue, and the single lines behind it.
Rewriting(q) == q # <<>> /\ Head(q).rewrite
Singles(q) == IF Rewriting(q) THEN Tail(q) ELSE q
Lines(q) == [i \in DOMAIN q |-> Head(q[i].events)]

LogTypes ==
    /\ up \in BOOLEAN /\ inc \in Nat /\ eventSeq \in Nat /\ cursor \in Nat
    /\ window \in Seq(Event) /\ disk \in Seq(Event)
    /\ unwritten \in 0..Limit
    /\ queue \in Seq(Write) /\ write \in Seq(Write) /\ Len(write) <= 1

\* Only the head of the queue can be a rewrite: it empties the queue that it
\* replaces.  The others are one event each, which is its own trigger.
QueueShape ==
    /\ \A i \in DOMAIN queue :
          IF queue[i].rewrite THEN i = 1
          ELSE Len(queue[i].events) = 1 /\ queue[i].trigger = queue[i].events[1].seq
    /\ write # <<>> => Head(write).rewrite \/ Head(write).trigger \in Seqs(Head(write).events)

\* A runtime that is not there has no state of its own.
StoppedIsEmpty ==
    up \/ (window = <<>> /\ queue = <<>> /\ write = <<>> /\ failed = {} /\ deleting = {})

\* What the log will hold when everything that is waiting has been written.
Base ==
    IF Rewriting(queue) THEN Head(queue).events
    ELSE IF write = <<>> THEN disk
    ELSE IF Head(write).rewrite THEN Head(write).events
    ELSE disk \o Head(write).events
Final == Base \o Lines(Singles(queue))

RewritePending == Rewriting(queue) \/ (write # <<>> /\ Head(write).rewrite)

\* Unless a failure is waiting for its repair, the window is on its way.
EndsWithWindow == (failed = {} \/ RewritePending) => Ends(window, Final)

\* After a failure only rewrites are started.
CleanAppends == write # <<>> /\ ~Head(write).rewrite => failed = {}

\* A compaction comes before the window has lost anything that was queued
\* since the last one ...
QueueInWindow ==
    /\ queue # <<>> \/ write # <<>> => unwritten < Limit
    /\ Len(Singles(queue)) <= unwritten
    /\ Ends(Lines(Singles(queue)), window)

\* ... or an event that a write would report if it failed.
InWindow(w) ==
    \E i \in DOMAIN window : window[i].seq = w.trigger /\ Len(window) - i <= unwritten
TriggerInWindow ==
    /\ Rewriting(queue) => InWindow(Head(queue))
    /\ write # <<>> /\ ~Rewriting(queue) => InWindow(Head(write))

\* No number is given out again by the runtime that gave it out.
Old(id) == id \in Nat \X Nat /\ id[1] <= inc /\ (up /\ id[1] = inc => id[2] <= eventSeq)
Logged ==
    ToSet(disk) \cup ToSet(window)
        \cup UNION {ToSet(w.events) : w \in ToSet(queue) \cup ToSet(write)}
NumbersAreOld ==
    /\ \A e \in Logged : Old(Id(e))
    /\ \A id \in deleted \cup deleting : Old(id)

LogInv ==
    /\ LogTypes /\ QueueShape /\ StoppedIsEmpty
    /\ EndsWithWindow /\ CleanAppends /\ QueueInWindow /\ TriggerInWindow
    /\ NumbersAreOld /\ DeletedStaysDeleted

-----------------------------------------------------------------------------
(* The queue and the lines in it.                                          *)

OneEach(q) == \A i \in DOMAIN q : ~q[i].rewrite /\ Len(q[i].events) = 1

LEMMA LinesTyped ==
    ASSUME NEW q \in Seq(Write), OneEach(q)
    PROVE  /\ Lines(q) \in Seq(Event) /\ Len(Lines(q)) = Len(q)
           /\ \A i \in 1..Len(q) : Lines(q)[i] = q[i].events[1]
           /\ ToSet(Lines(q)) \subseteq UNION {ToSet(w.events) : w \in ToSet(q)}
<1>1. \A i \in 1..Len(q) :
          /\ q[i] \in Write /\ q[i].events \in Seq(Event) /\ Len(q[i].events) = 1
          /\ Head(q[i].events) = q[i].events[1] /\ q[i].events[1] \in Event
    <2> TAKE i \in 1..Len(q)
    <2>1. q[i] \in Write /\ Len(q[i].events) = 1
        BY DEF OneEach
    <2>2. q[i].events \in Seq(Event)
        BY <2>1 DEF Write
    <2> HIDE DEF Event
    <2>3. QED BY <2>1, <2>2
<1>2. Lines(q) \in Seq(Event) /\ Len(Lines(q)) = Len(q) /\ DOMAIN Lines(q) = 1..Len(q)
    <2> HIDE DEF Event, Write
    <2>1. QED BY <1>1 DEF Lines
<1>3. \A i \in 1..Len(q) : Lines(q)[i] = q[i].events[1]
    BY <1>1 DEF Lines
<1>4. ASSUME NEW i \in 1..Len(q)
      PROVE  Lines(q)[i] \in UNION {ToSet(w.events) : w \in ToSet(q)}
    <2>1. q[i] \in ToSet(q)
        BY DEF ToSet
    <2>2. Lines(q)[i] \in ToSet(q[i].events)
        BY <1>1, <1>3 DEF ToSet
    <2>3. QED BY <2>1, <2>2
<1>5. QED BY <1>2, <1>3, <1>4 DEF ToSet

LEMMA LinesAppend ==
    ASSUME NEW q \in Seq(Write), OneEach(q), NEW w \in Write, ~w.rewrite, Len(w.events) = 1
    PROVE  /\ OneEach(Append(q, w)) /\ Append(q, w) \in Seq(Write)
           /\ Lines(Append(q, w)) = Append(Lines(q), w.events[1])
<1> DEFINE u == Append(q, w)
<1>1. /\ u \in Seq(Write) /\ Len(u) = Len(q) + 1 /\ u[Len(q) + 1] = w
      /\ \A i \in 1..Len(q) : u[i] = q[i]
    OBVIOUS
<1> HIDE DEF u
<1>2. OneEach(u)
    BY <1>1 DEF OneEach
<1>3. /\ Lines(u) \in Seq(Event) /\ Len(Lines(u)) = Len(q) + 1
      /\ \A i \in 1..(Len(q) + 1) : Lines(u)[i] = u[i].events[1]
    BY <1>1, <1>2, LinesTyped
<1>4. /\ Lines(q) \in Seq(Event) /\ Len(Lines(q)) = Len(q)
      /\ \A i \in 1..Len(q) : Lines(q)[i] = q[i].events[1]
    BY LinesTyped
<1> DEFINE a == Lines(u)
           b == Lines(q)
           e == w.events[1]
<1>5. a = Append(b, e)
    <2>1. /\ a \in Seq(Event) /\ b \in Seq(Event) /\ e \in Event
          /\ Len(a) = Len(b) + 1 /\ a[Len(b) + 1] = e /\ \A i \in 1..Len(b) : a[i] = b[i]
        <3>1. e \in Event
            <4>1. w.events \in Seq(Event)
                BY DEF Write
            <4> HIDE DEF Event
            <4>2. QED BY <4>1
        <3> HIDE DEF Event
        <3>2. QED BY <1>1, <1>3, <1>4, <3>1
    <2> HIDE DEF a, b, e
    <2>2. Append(b, e) \in Seq(Event) /\ Len(Append(b, e)) = Len(b) + 1
        BY <2>1
    <2>3. \A i \in 1..Len(a) : a[i] = Append(b, e)[i]
        BY <2>1
    <2>4. QED BY <2>1, <2>2, <2>3, SeqEqual
<1>6. QED BY <1>1, <1>2, <1>5 DEF u

\* The parts of the queue that the invariant speaks of.
LEMMA QueueParts ==
    ASSUME LogTypes, QueueShape
    PROVE  /\ Singles(queue) \in Seq(Write) /\ OneEach(Singles(queue))
           /\ Lines(Singles(queue)) \in Seq(Event) /\ Base \in Seq(Event)
           /\ Len(Lines(Singles(queue))) = Len(Singles(queue))
           /\ Rewriting(queue) => Head(queue) \in Write
           /\ write # <<>> => Head(write) \in Write /\ write = <<Head(write)>>
<1>1. Singles(queue) \in Seq(Write) /\ (Rewriting(queue) => Head(queue) \in Write)
    BY DEF LogTypes, Singles, Rewriting
<1>2. write # <<>> => Head(write) \in Write /\ write = <<Head(write)>>
    <2>1. SUFFICES ASSUME write # <<>> PROVE Head(write) \in Write /\ write = <<Head(write)>>
        OBVIOUS
    <2>2. write \in Seq(Write) /\ Len(write) = 1
        <3>1. write \in Seq(Write) /\ Len(write) <= 1
            BY DEF LogTypes
        <3>2. Len(write) # 0
            BY <2>1, <3>1, EmptySeq
        <3>3. Len(write) \in Nat
            BY <3>1
        <3>4. Len(write) = 1
            <4>1. \A n \in Nat : n <= 1 /\ n # 0 => n = 1
                OBVIOUS
            <4>2. QED BY <3>1, <3>2, <3>3, <4>1, Zenon
        <3>5. QED BY <3>1, <3>4
    <2> HIDE DEF Write
    <2>3. /\ write[1] \in Write /\ Head(write) = write[1]
          /\ <<write[1]>> \in Seq(Write) /\ Len(<<write[1]>>) = 1 /\ <<write[1]>>[1] = write[1]
        BY <2>2
    <2>4. write = <<write[1]>>
        <3> DEFINE u == <<write[1]>>
        <3>1. u \in Seq(Write) /\ Len(u) = 1 /\ u[1] = write[1]
            BY <2>3
        <3> HIDE DEF u
        <3>2. write = u
            BY <2>2, <3>1, SeqEqual
        <3>3. QED BY <3>2 DEF u
    <2>5. QED BY <2>3, <2>4
<1>3. OneEach(Singles(queue))
    <2>1. CASE Rewriting(queue)
        <3>1. \A i \in 1..Len(Tail(queue)) : Tail(queue)[i] = queue[i + 1] /\ i + 1 # 1
                                             /\ i + 1 \in 1..Len(queue)
            BY <2>1 DEF LogTypes, Rewriting
        <3>2. DOMAIN Tail(queue) = 1..Len(Tail(queue))
            BY <2>1 DEF LogTypes, Rewriting
        <3>3. QED BY <2>1, <3>1, <3>2 DEF QueueShape, OneEach, Singles, LogTypes
    <2>2. CASE ~Rewriting(queue)
        <3>1. \A i \in DOMAIN queue : ~queue[i].rewrite
            BY <2>2 DEF QueueShape, Rewriting, LogTypes
        <3>2. QED BY <2>2, <3>1 DEF QueueShape, OneEach, Singles
    <2>3. QED BY <2>1, <2>2
<1>4. Base \in Seq(Event)
    BY <1>1, <1>2 DEF Base, LogTypes, Write
<1>5. QED BY <1>1, <1>2, <1>3, <1>4, LinesTyped

-----------------------------------------------------------------------------
(* Numbers: no step but the giving out of a number makes one that is not   *)
(* old, and no step puts back an event that was deleted.                   *)

LEMMA OldStaysOld ==
    ASSUME NEW id, Old(id), inc \in Nat, inc' \in Nat, eventSeq \in Nat, eventSeq' \in Nat,
           \/ inc' = inc /\ (up' => up /\ eventSeq' >= eventSeq)
           \/ inc' > inc
    PROVE  Old(id)'
<1>1. id[1] \in Nat /\ id[2] \in Nat
    BY DEF Old
<1>2. QED BY <1>1 DEF Old

LEMMA NumbersKept ==
    ASSUME NumbersAreOld, inc \in Nat, inc' \in Nat, eventSeq \in Nat, eventSeq' \in Nat,
           \/ inc' = inc /\ (up' => up /\ eventSeq' >= eventSeq)
           \/ inc' > inc,
           Logged' \subseteq Logged, (deleted \cup deleting)' \subseteq deleted \cup deleting
    PROVE  NumbersAreOld'
<1>1. \A e \in Logged' : Old(Id(e))'
    BY OldStaysOld DEF NumbersAreOld
<1>2. \A id \in (deleted \cup deleting)' : Old(id)'
    BY OldStaysOld DEF NumbersAreOld
<1>3. QED BY <1>1, <1>2 DEF NumbersAreOld, Id

LEMMA DeletedIsNotLogged ==
    /\ DeletedStaysDeleted <=> \A e \in Logged : Id(e) \notin deleted
    /\ DeletedStaysDeleted' <=> \A e \in Logged' : Id(e) \notin deleted'
BY DEF DeletedStaysDeleted, Logged, Id

\* A step that logs nothing new and deletes nothing.
LEMMA SameNumbers ==
    ASSUME LogInv, Logged' \subseteq Logged, UNCHANGED <<inc, up, deleting, deleted>>,
           eventSeq' \in Nat, eventSeq' >= eventSeq
    PROVE  NumbersAreOld' /\ DeletedStaysDeleted'
<1>1. NumbersAreOld'
    BY NumbersKept DEF LogInv, LogTypes
<1>2. QED BY <1>1, DeletedIsNotLogged DEF LogInv

-----------------------------------------------------------------------------
(* Steps that leave the outbox and the log alone.                          *)

logVars == <<inc, up, window, unwritten, queue, write, failed, deleting, disk, deleted>>

LEMMA QuietSteps ==
    ASSUME LogInv, UNCHANGED logVars, cursor' \in Nat, eventSeq' \in Nat, eventSeq' >= eventSeq
    PROVE  LogInv'
<1> USE DEF logVars
<1>1. LogTypes' /\ QueueShape' /\ StoppedIsEmpty'
    BY DEF LogInv, LogTypes, QueueShape, StoppedIsEmpty
<1>2. EndsWithWindow' /\ CleanAppends' /\ QueueInWindow' /\ TriggerInWindow'
    <2>1. Base' = Base /\ Lines(Singles(queue))' = Lines(Singles(queue))
          /\ Rewriting(queue)' = Rewriting(queue) /\ Singles(queue)' = Singles(queue)
        BY DEF Base, Singles, Rewriting, Lines
    <2>2. Final' = Final /\ RewritePending' = RewritePending
        BY <2>1 DEF Final, RewritePending
    <2>3. QED BY <2>1, <2>2 DEF LogInv, EndsWithWindow, CleanAppends, QueueInWindow,
                                TriggerInWindow, InWindow, Ends
<1>3. Logged' = Logged
    BY DEF Logged
<1>4. NumbersAreOld' /\ DeletedStaysDeleted'
    BY <1>3, SameNumbers
<1>5. QED BY <1>1, <1>2, <1>4 DEF LogInv

-----------------------------------------------------------------------------
(* The writer.                                                             *)

\* A sequence that is one write, or none.
LEMMA OneWrite ==
    ASSUME NEW w
    PROVE  <<w>> # <<>> /\ Head(<<w>>) = w /\ Len(<<w>>) = 1 /\ ToSet(<<w>>) = {w}
BY DEF ToSet

\* What is logged, by its places.
LEMMA LoggedParts ==
    ASSUME LogTypes
    PROVE  /\ ToSet(disk) \subseteq Logged /\ ToSet(window) \subseteq Logged
           /\ \A w \in ToSet(queue) \cup ToSet(write) : ToSet(w.events) \subseteq Logged
           /\ queue # <<>> => Head(queue) \in ToSet(queue) /\ Head(queue) = queue[1]
                              /\ 1 \in DOMAIN queue
                              /\ ToSet(Tail(queue)) \subseteq ToSet(queue)
           /\ write # <<>> => Head(write) \in ToSet(write)
<1>1. queue # <<>> => Head(queue) \in ToSet(queue) /\ Head(queue) = queue[1]
                              /\ 1 \in DOMAIN queue
                              /\ ToSet(Tail(queue)) \subseteq ToSet(queue)
    BY DEF LogTypes, ToSet
<1>2. write # <<>> => Head(write) \in ToSet(write)
    BY DEF LogTypes, ToSet
<1>3. QED BY <1>1, <1>2 DEF Logged

LEMMA FinishWriteKeeps ==
    ASSUME LogInv, FinishWrite
    PROVE  /\ LogInv' /\ Logged' \subseteq Logged
           /\ Final' = Final /\ (failed = {} \/ RewritePending)
<1> DEFINE w == Head(write)
<1>1. /\ up /\ write # <<>> /\ write' = <<>>
      /\ UNCHANGED <<inc, up, eventSeq, cursor, window, unwritten, queue, deleting, deleted>>
      /\ disk' = IF w.rewrite THEN w.events ELSE disk \o w.events
      /\ failed' = (failed \ Seqs(w.events)) \cap Seqs(window)
    BY DEF FinishWrite, runtime, ghosts
<1>2. /\ Singles(queue) \in Seq(Write) /\ OneEach(Singles(queue)) /\ Base \in Seq(Event)
      /\ w \in Write /\ write = <<w>>
    BY <1>1, QueueParts DEF LogInv
<1>3. w.events \in Seq(Event)
    BY <1>2 DEF Write
<1>4. LogTypes' /\ QueueShape' /\ StoppedIsEmpty'
    <2>1. disk' \in Seq(Event)
        BY <1>1, <1>3 DEF LogInv, LogTypes
    <2>2. LogTypes'
        BY <1>1, <2>1 DEF LogInv, LogTypes
    <2>3. QED BY <1>1, <2>2 DEF LogInv, QueueShape, StoppedIsEmpty
<1>5. /\ Rewriting(queue)' = Rewriting(queue) /\ Singles(queue)' = Singles(queue)
      /\ Lines(Singles(queue))' = Lines(Singles(queue))
    BY <1>1 DEF Rewriting, Singles, Lines
<1>6. Final' = Final
    <2>1. Base' = Base
        BY <1>1, <1>5 DEF Base, Rewriting
    <2>2. QED BY <1>5, <2>1 DEF Final
<1>7. EndsWithWindow'
    <2>1. failed = {} \/ RewritePending
        BY <1>1 DEF LogInv, CleanAppends, RewritePending
    <2>2. Ends(window, Final)
        BY <2>1 DEF LogInv, EndsWithWindow
    <2>3. QED BY <1>1, <1>6, <2>2 DEF EndsWithWindow
<1>8. CleanAppends' /\ QueueInWindow' /\ TriggerInWindow'
    BY <1>1, <1>5 DEF LogInv, CleanAppends, QueueInWindow, TriggerInWindow, InWindow, Ends,
                      Rewriting
<1>9. Logged' \subseteq Logged
    <2>1. ToSet(w.events) \subseteq Logged /\ ToSet(disk) \subseteq Logged
        BY <1>1, LoggedParts DEF LogInv
    <2>2. ToSet(disk') \subseteq ToSet(disk) \cup ToSet(w.events)
        <3>1. CASE w.rewrite
            BY <1>1, <3>1
        <3>2. CASE ~w.rewrite
            BY <1>1, <1>3, <3>2, JoinSet DEF LogInv, LogTypes
        <3>3. QED BY <3>1, <3>2
    <2>3. ToSet(write') = {}
        BY <1>1 DEF ToSet
    <2>4. QED BY <1>1, <2>1, <2>2, <2>3 DEF Logged
<1>10. NumbersAreOld' /\ DeletedStaysDeleted'
    BY <1>1, <1>9, SameNumbers DEF LogInv, LogTypes
<1>11. failed = {} \/ RewritePending
    BY <1>1 DEF LogInv, CleanAppends, RewritePending
<1>12. QED BY <1>4, <1>6, <1>7, <1>8, <1>9, <1>10, <1>11 DEF LogInv

LEMMA FailWriteKeeps ==
    ASSUME LogInv, FailWrite
    PROVE  /\ LogInv' /\ Logged' \subseteq Logged
           /\ \/ RewritePending /\ Final' = Final
              \/ failed' # {} /\ ~RewritePending'
<1> DEFINE w == Head(write)
<1>1. /\ up /\ write # <<>> /\ write' = <<>>
      /\ UNCHANGED <<inc, up, eventSeq, cursor, window, unwritten, queue, deleting, deleted, disk>>
      /\ failed' = (failed \cup Unpublished(w)) \cap Seqs(window)
    BY DEF FailWrite, runtime, ghosts
<1>4. LogTypes' /\ QueueShape' /\ StoppedIsEmpty'
    BY <1>1 DEF LogInv, LogTypes, QueueShape, StoppedIsEmpty
<1>5. /\ Rewriting(queue)' = Rewriting(queue) /\ Singles(queue)' = Singles(queue)
      /\ Lines(Singles(queue))' = Lines(Singles(queue))
    BY <1>1 DEF Rewriting, Singles, Lines
<1>6. \/ RewritePending /\ Final' = Final
      \/ failed' # {} /\ ~RewritePending'
    <2>1. CASE Rewriting(queue)
        <3>1. RewritePending
            BY <2>1 DEF RewritePending
        <3>2. Base' = Base /\ Final' = Final
            BY <1>1, <1>5, <2>1 DEF Base, Final, Rewriting
        <3>3. QED BY <3>1, <3>2
    <2>2. CASE ~Rewriting(queue)
        <3>1. PICK i \in DOMAIN window : window[i].seq = w.trigger
            BY <1>1, <2>2 DEF LogInv, TriggerInWindow, InWindow
        <3>2. w.trigger \in Seqs(window)
            BY <3>1 DEF Seqs, ToSet
        <3>3. w.trigger \in Unpublished(w)
            BY <1>1 DEF LogInv, QueueShape, Unpublished
        <3>4. failed' # {}
            BY <1>1, <3>2, <3>3
        <3>5. ~RewritePending'
            BY <1>1, <1>5, <2>2 DEF RewritePending
        <3>6. QED BY <3>4, <3>5
    <2>3. QED BY <2>1, <2>2
<1>7. CleanAppends' /\ QueueInWindow' /\ TriggerInWindow'
    BY <1>1, <1>5 DEF LogInv, CleanAppends, QueueInWindow, TriggerInWindow, InWindow, Ends,
                      Rewriting
<1>8. Logged' \subseteq Logged
    <2>1. ToSet(write') = {}
        BY <1>1 DEF ToSet
    <2>2. QED BY <1>1, <2>1 DEF Logged
<1>9. NumbersAreOld' /\ DeletedStaysDeleted'
    BY <1>1, <1>8, SameNumbers DEF LogInv, LogTypes
<1>10. EndsWithWindow'
    BY <1>1, <1>6 DEF LogInv, EndsWithWindow, Ends
<1>11. QED BY <1>4, <1>6, <1>7, <1>8, <1>9, <1>10 DEF LogInv

\* A write of which the events, and perhaps the kind, are others.
LEMMA AnotherWrite ==
    ASSUME NEW w \in Write, NEW s \in Seq(Event)
    PROVE  /\ [w EXCEPT !.events = s] \in Write
           /\ [w EXCEPT !.events = s].events = s
           /\ [w EXCEPT !.events = s].rewrite = w.rewrite
           /\ [w EXCEPT !.events = s].trigger = w.trigger
           /\ [w EXCEPT !.rewrite = TRUE, !.events = s] \in Write
           /\ [w EXCEPT !.rewrite = TRUE, !.events = s].events = s
           /\ [w EXCEPT !.rewrite = TRUE, !.events = s].rewrite
           /\ [w EXCEPT !.rewrite = TRUE, !.events = s].trigger = w.trigger
BY DEF Write

\* What is written is a rewrite that was waiting, the window, or what the log
\* lacks of its end.
WriteStarted == \E w \in Write :
    /\ write' = <<w>> /\ ToSet(queue') \subseteq ToSet(queue)
    /\ \/ w.rewrite /\ w \in ToSet(queue) /\ RewritePending /\ Final' = Final
       \/ w.rewrite /\ w.events = window /\ Final' = window
       \/ ~w.rewrite /\ failed = {} /\ Final' = Final /\ disk \o w.events = Final

LEMMA StartWriteKeeps ==
    ASSUME LogInv, StartWrite
    PROVE  LogInv' /\ Logged' \subseteq Logged /\ WriteStarted
<1> DEFINE first == Head(queue)
           lines == Lines(queue)
           appended == [first EXCEPT !.events = lines]
           repair == [first EXCEPT !.rewrite = TRUE, !.events = window]
<1>1. /\ up /\ write = <<>> /\ queue # <<>>
      /\ UNCHANGED <<inc, up, eventSeq, cursor, window, unwritten, failed, deleting, disk, deleted>>
      /\ IF first.rewrite
         THEN write' = <<first>> /\ queue' = Tail(queue)
         ELSE /\ write' = IF failed = {} THEN <<appended>> ELSE <<repair>>
              /\ queue' = <<>>
    BY DEF StartWrite, runtime, ghosts, Lines
<1>2. /\ LogTypes /\ QueueShape /\ StoppedIsEmpty /\ EndsWithWindow /\ QueueInWindow
      /\ TriggerInWindow
    BY DEF LogInv
<1>3. /\ Singles(queue) \in Seq(Write) /\ OneEach(Singles(queue))
      /\ first \in Write /\ queue \in Seq(Write) /\ window \in Seq(Event) /\ disk \in Seq(Event)
    BY <1>1, <1>2, QueueParts DEF LogTypes
<1>4. /\ ToSet(disk) \subseteq Logged /\ ToSet(window) \subseteq Logged
      /\ first \in ToSet(queue) /\ first = queue[1] /\ 1 \in DOMAIN queue
      /\ ToSet(Tail(queue)) \subseteq ToSet(queue)
      /\ \A w \in ToSet(queue) : ToSet(w.events) \subseteq Logged
    BY <1>1, <1>2, LoggedParts
<1>5. unwritten < Limit /\ unwritten' = unwritten
    BY <1>1, <1>2 DEF QueueInWindow
<1> SUFFICES ASSUME TRUE
             PROVE  LogTypes' /\ QueueShape' /\ EndsWithWindow' /\ CleanAppends' /\ QueueInWindow'
                    /\ TriggerInWindow' /\ Logged' \subseteq Logged /\ WriteStarted
    <2>1. StoppedIsEmpty'
        BY <1>1 DEF StoppedIsEmpty
    <2>2. ASSUME Logged' \subseteq Logged PROVE NumbersAreOld' /\ DeletedStaysDeleted'
        BY <1>1, <1>2, <2>2, SameNumbers DEF LogTypes
    <2>3. QED BY <2>1, <2>2 DEF LogInv
<1>6. CASE Rewriting(queue)
    <2>1. /\ write' = <<first>> /\ queue' = Tail(queue) /\ first.rewrite
          /\ Singles(queue) = Tail(queue) /\ OneEach(queue') /\ queue' \in Seq(Write)
        BY <1>1, <1>3, <1>6 DEF Rewriting, Singles
    <2>2. write' # <<>> /\ Head(write') = first /\ Len(write') = 1 /\ ToSet(write') = {first}
        BY <2>1, OneWrite
    <2>3. ~Rewriting(queue)' /\ Singles(queue)' = Singles(queue)
        <3>1. ~Rewriting(queue')
            <4>1. queue' # <<>> => 1 \in DOMAIN queue' /\ Head(queue') = queue'[1]
                BY <2>1
            <4>2. QED BY <2>1, <4>1 DEF Rewriting, OneEach
        <3>2. QED BY <2>1, <3>1 DEF Singles, Rewriting
    <2>4. LogTypes' /\ QueueShape'
        <3>1. write' \in Seq(Write)
            BY <1>3, <2>1
        <3>2. LogTypes'
            BY <1>1, <1>2, <2>1, <2>2, <3>1 DEF LogTypes
        <3>3. ASSUME NEW i \in DOMAIN queue'
              PROVE  /\ ~queue'[i].rewrite /\ Len(queue'[i].events) = 1
                     /\ queue'[i].trigger = queue'[i].events[1].seq
            <4>1. i + 1 \in DOMAIN queue /\ queue'[i] = queue[i + 1] /\ i + 1 # 1
                BY <1>1, <1>3, <2>1
            <4>2. QED BY <1>2, <4>1 DEF QueueShape
        <3>4. QED BY <2>1, <2>2, <3>2, <3>3 DEF QueueShape
    <2>5. EndsWithWindow' /\ RewritePending /\ Final' = Final
        <3>1. RewritePending /\ Final' = Final
            BY <1>6, <2>1, <2>2, <2>3 DEF Final, Base, Rewriting, Lines, RewritePending
        <3>2. QED BY <1>1, <1>2, <1>6, <3>1 DEF EndsWithWindow, RewritePending
    <2>6. CleanAppends'
        BY <2>1, <2>2 DEF CleanAppends
    <2>7. QueueInWindow'
        <3>1. Lines(Singles(queue))' = Lines(Singles(queue))
            BY <2>3 DEF Lines
        <3>2. QED BY <1>1, <1>2, <1>5, <2>3, <3>1 DEF QueueInWindow, Ends
    <2>8. TriggerInWindow'
        BY <1>1, <1>2, <1>6, <2>2, <2>3 DEF TriggerInWindow, InWindow
    <2>9. Logged' \subseteq Logged
        BY <1>1, <1>4, <2>1, <2>2 DEF Logged
    <2>10. WriteStarted
        BY <1>3, <1>4, <2>1, <2>5 DEF WriteStarted
    <2>11. QED BY <2>4, <2>5, <2>6, <2>7, <2>8, <2>9, <2>10
<1>7. CASE ~Rewriting(queue)
    <2> DEFINE v == IF failed = {} THEN appended ELSE repair
               s == IF failed = {} THEN lines ELSE window
    <2>1. /\ ~first.rewrite /\ Singles(queue) = queue /\ OneEach(queue)
          /\ write' = <<v>> /\ queue' = <<>>
        BY <1>1, <1>3, <1>7 DEF Rewriting, Singles
    <2>2. /\ lines \in Seq(Event) /\ Len(lines) = Len(queue) /\ lines[1] = first.events[1]
          /\ ToSet(lines) \subseteq UNION {ToSet(w.events) : w \in ToSet(queue)}
        BY <1>3, <1>4, <2>1, LinesTyped
    <2>3. /\ v \in Write /\ v.events = s /\ v.trigger = first.trigger /\ s \in Seq(Event)
          /\ v.rewrite <=> failed # {}
        <3> HIDE DEF lines
        <3>1. /\ appended \in Write /\ appended.events = lines /\ appended.rewrite = first.rewrite
              /\ appended.trigger = first.trigger
            BY <1>3, <2>2, AnotherWrite
        <3>2. /\ repair \in Write /\ repair.events = window /\ repair.rewrite
              /\ repair.trigger = first.trigger
            BY <1>3, AnotherWrite
        <3> HIDE DEF appended, repair
        <3>3. CASE failed = {}
            BY <2>1, <2>2, <3>1, <3>3
        <3>4. CASE failed # {}
            BY <1>3, <3>2, <3>4
        <3>5. QED BY <3>3, <3>4
    <2> HIDE DEF v, appended, repair
    <2>4. write' # <<>> /\ Head(write') = v /\ Len(write') = 1 /\ ToSet(write') = {v}
        BY <2>1, OneWrite
    <2>5. ~Rewriting(queue)' /\ Singles(queue)' = <<>> /\ Lines(Singles(queue))' = <<>>
        BY <2>1 DEF Rewriting, Singles, Lines
    <2>6. LogTypes' /\ QueueShape'
        <3>1. write' \in Seq(Write) /\ queue' \in Seq(Write)
            BY <2>1, <2>3
        <3>2. LogTypes'
            BY <1>1, <1>2, <2>4, <3>1 DEF LogTypes
        <3>3. v.rewrite \/ v.trigger \in Seqs(v.events)
            <4>1. Len(queue) # 0
                BY <1>1, <1>3, EmptySeq
            <4>2. Len(queue) \in Nat /\ Len(queue) >= 1
                BY <1>3, <4>1
            <4>3. lines[1] \in ToSet(lines)
                BY <2>2, <4>2 DEF ToSet
            <4>4. v.trigger = lines[1].seq
                BY <1>2, <1>4, <2>1, <2>2, <2>3 DEF QueueShape
            <4>5. QED BY <2>3, <4>3, <4>4 DEF Seqs
        <3>4. QED BY <2>1, <2>4, <3>2, <3>3 DEF QueueShape
    <2>7. Final' = IF failed = {} THEN disk \o lines ELSE window
        <3>1. Base' = IF failed = {} THEN disk \o lines ELSE window
            BY <1>1, <2>3, <2>4, <2>5 DEF Base
        <3>2. (disk \o lines) \o <<>> = disk \o lines /\ window \o <<>> = window
            <4>1. disk \o lines \in Seq(Event)
                BY <1>3, <2>2
            <4> HIDE DEF lines
            <4>2. QED BY <1>3, <4>1, ConcatEmptySeq
        <3>3. QED BY <2>5, <3>1, <3>2 DEF Final
    <2>13. failed = {} => Final = disk \o lines
        BY <1>1, <1>7, <2>1 DEF Final, Base
    <2>14. EndsWithWindow'
        <3>1. CASE failed = {}
            <4>1. Ends(window, Final)
                BY <1>2, <3>1 DEF EndsWithWindow
            <4>2. QED BY <1>1, <2>7, <2>13, <3>1, <4>1 DEF EndsWithWindow
        <3>2. CASE failed # {}
            <4>1. Ends(window, window)
                BY <1>3, EndsItself
            <4>2. QED BY <1>1, <2>7, <3>2, <4>1 DEF EndsWithWindow
        <3>3. QED BY <3>1, <3>2
    <2>8. CleanAppends'
        BY <1>1, <2>3, <2>4 DEF CleanAppends
    <2>9. QueueInWindow'
        <3>1. Ends(<<>>, window)
            BY <1>3, EndsItself
        <3>2. 0 <= unwritten
            BY <1>2 DEF LogTypes
        <3>3. Len(Singles(queue))' <= unwritten'
            BY <1>5, <2>5, <3>2
        <3>4. Ends(Lines(Singles(queue)), window)'
            BY <1>1, <2>5, <3>1
        <3>5. QED BY <1>5, <3>3, <3>4 DEF QueueInWindow
    <2>10. TriggerInWindow'
        <3>1. \E i \in DOMAIN window :
                  window[i].seq = v.trigger /\ Len(window) - i <= unwritten
            <4> DEFINE i == Len(window) - Len(queue) + 1
            <4>1. Ends(lines, window) /\ Len(queue) <= unwritten
                BY <1>2, <2>1 DEF QueueInWindow
            <4>2. Len(queue) \in Nat /\ Len(queue) # 0 /\ Len(queue) <= Len(window)
                BY <1>1, <1>3, <2>2, <4>1, EmptySeq DEF Ends
            <4>3. i \in DOMAIN window /\ Len(window) - i = Len(queue) - 1
                BY <1>3, <4>2
            <4>4. lines[1] = window[i]
                BY <2>2, <4>1, <4>2 DEF Ends
            <4>5. first.trigger = lines[1].seq
                BY <1>2, <1>4, <2>1, <2>2 DEF QueueShape
            <4> HIDE DEF i, lines
            <4>6. unwritten \in Nat /\ Len(window) - i <= unwritten
                BY <1>2, <4>1, <4>2, <4>3, LimitAssumption DEF LogTypes
            <4>7. window[i].seq = v.trigger
                BY <2>3, <4>4, <4>5
            <4>8. QED BY <4>3, <4>6, <4>7
        <3>2. QED BY <1>1, <2>4, <2>5, <3>1 DEF TriggerInWindow, InWindow
    <2>11. Logged' \subseteq Logged
        <3>1. ToSet(s) \subseteq Logged
            BY <1>4, <2>2
        <3>2. ToSet(queue') = {}
            BY <2>1 DEF ToSet
        <3>3. QED BY <1>1, <1>4, <2>3, <2>4, <3>1, <3>2 DEF Logged
    <2>12. WriteStarted
        <3>1. ToSet(queue') \subseteq ToSet(queue)
            BY <2>1 DEF ToSet
        <3>2. CASE failed = {}
            BY <2>1, <2>3, <2>7, <2>13, <3>1, <3>2 DEF WriteStarted
        <3>3. CASE failed # {}
            BY <2>1, <2>3, <2>7, <3>1, <3>3 DEF WriteStarted
        <3>4. QED BY <3>2, <3>3
    <2>15. QED BY <2>6, <2>8, <2>9, <2>10, <2>11, <2>12, <2>14
<1>8. QED BY <1>6, <1>7

-----------------------------------------------------------------------------
(* Emit.                                                                   *)

\* What a new event does to the window.
LEMMA EmitWindow ==
    ASSUME LogTypes, NEW e \in Event
    PROVE  LET x == Append(window, e)
               r == Retained(x)
           IN  /\ x \in Seq(Event) /\ Len(x) = Len(window) + 1
               /\ r \in Seq(Event) /\ Ends(r, x)
               /\ Len(r) = IF Len(x) <= Limit THEN Len(x) ELSE Limit
               /\ Len(r) \in Nat /\ Len(r) >= 1 /\ r[Len(r)] = e
               /\ ToSet(r) \subseteq ToSet(window) \cup {e}
<1> DEFINE x == Append(window, e)
           r == Retained(x)
<1>1. window \in Seq(Event) /\ Limit \in Nat /\ Limit >= 1
    BY LimitAssumption DEF LogTypes
<1>2. x \in Seq(Event) /\ Len(x) = Len(window) + 1 /\ x[Len(window) + 1] = e
    BY <1>1
<1>3. ToSet(x) = ToSet(window) \cup {e}
    BY <1>1, AppendSet
<1> HIDE DEF x
<1>4. /\ r \in Seq(Event) /\ Ends(r, x) /\ ToSet(r) \subseteq ToSet(x)
      /\ Len(r) = IF Len(x) <= Limit THEN Len(x) ELSE Limit
    BY <1>2, RetainedIsEnd
<1> HIDE DEF r
<1>5. Len(r) \in Nat /\ Len(r) >= 1
    BY <1>1, <1>2, <1>4
<1>6. r[Len(r)] = e
    <2>1. Len(r) \in 1..Len(r) /\ Len(x) - Len(r) + Len(r) = Len(window) + 1
        BY <1>1, <1>2, <1>5
    <2>2. r[Len(r)] = x[Len(x) - Len(r) + Len(r)]
        BY <1>4, <2>1 DEF Ends
    <2>3. QED BY <1>2, <2>1, <2>2
<1>7. QED BY <1>2, <1>3, <1>4, <1>5, <1>6 DEF x, r

\* An event near the end of the window stays in it.
LEMMA NearTheEnd ==
    ASSUME LogTypes, NEW e \in Event, NEW n \in Nat, unwritten + 1 < Limit,
           NEW i \in DOMAIN window, window[i].seq = n, Len(window) - i <= unwritten
    PROVE  LET r == Retained(Append(window, e))
           IN  \E j \in DOMAIN r : r[j].seq = n /\ Len(r) - j <= unwritten + 1
<1> DEFINE x == Append(window, e)
           r == Retained(x)
           j == Len(r) - (Len(window) - i) - 1
<1>1. window \in Seq(Event) /\ Limit \in Nat /\ Limit >= 1 /\ unwritten \in Nat
    BY LimitAssumption DEF LogTypes
<1>2. x[i] = window[i] /\ i \in 1..Len(window)
    BY <1>1
<1>3. /\ x \in Seq(Event) /\ Len(x) = Len(window) + 1 /\ r \in Seq(Event) /\ Ends(r, x)
      /\ Len(r) = IF Len(x) <= Limit THEN Len(x) ELSE Limit
    BY EmitWindow
<1> HIDE DEF x, r
<1>4. /\ j \in 1..Len(r) /\ Len(x) - Len(r) + j = i /\ Len(r) - j = Len(window) - i + 1
      /\ Len(window) \in Nat
    <2> DEFINE a == Len(r)
               b == Len(x)
               c == Len(window)
    <2>1. /\ a \in Nat /\ b \in Nat /\ c \in Nat /\ i \in 1..c /\ b = c + 1
          /\ a = (IF b <= Limit THEN b ELSE Limit) /\ c - i <= unwritten
          /\ j = a - (c - i) - 1
        BY <1>1, <1>2, <1>3
    <2> HIDE DEF a, b, c, j
    <2>2. c - i + 1 < Limit
        BY <1>1, <2>1
    <2>3. j \in 1..a /\ b - a + j = i /\ a - j = c - i + 1
        <3>1. a \in Int /\ b \in Int /\ c \in Int /\ i \in Int /\ Limit \in Int /\ 1 <= i /\ i <= c
            BY <1>1, <2>1
        <3>2. j \in Int
            BY <2>1, <3>1
        <3>3. CASE b <= Limit
            BY <2>1, <3>1, <3>3
        <3>4. CASE ~(b <= Limit)
            <4>1. a = Limit
                BY <2>1, <3>4
            <4>2. j = Limit - (c - i) - 1 /\ b = c + 1 /\ c - i + 1 < Limit
                BY <2>1, <2>2, <4>1
            <4>3. 1 <= j /\ j <= Limit
                <5> DEFINE d == c - i
                <5>1. d \in Int /\ 0 <= d /\ d + 1 < Limit /\ j = Limit - d - 1 /\ Limit \in Int
                    BY <3>1, <4>2, SMTT(20)
                <5> HIDE DEF d
                <5>2. d + 2 <= Limit
                    BY <5>1
                <5>3. 1 <= Limit - d - 1
                    BY <5>1, <5>2
                <5>4. QED BY <5>1, <5>3
            <4>4. b - Limit + j = i
                BY <3>1, <4>2
            <4>5. Limit - j = c - i + 1
                BY <3>1, <4>2
            <4>6. QED BY <3>2, <4>1, <4>3, <4>4, <4>5
        <3>5. QED BY <3>3, <3>4
    <2>4. QED BY <2>1, <2>3 DEF a, b, c
<1> HIDE DEF j
<1>5. r[j] = x[i]
    BY <1>3, <1>4 DEF Ends
<1>6. Len(r) - j <= unwritten + 1
    BY <1>1, <1>2, <1>4
<1>7. j \in DOMAIN r /\ r[j].seq = n
    BY <1>2, <1>3, <1>4, <1>5
<1>8. \E k \in DOMAIN r : r[k].seq = n /\ Len(r) - k <= unwritten + 1
    BY <1>6, <1>7
<1>9. QED BY <1>8 DEF x, r

\* One event more is logged, and either a rewrite of the window alone is waiting
\* or what was waiting ends with it.
EventEmitted(e) ==
    /\ window' = Retained(Append(window, e)) /\ Logged' \subseteq Logged \cup {e}
    /\ \/ Final' = window' /\ \A w \in ToSet(queue') : w.events = window'
       \/ /\ Final' = Append(Final, e) /\ (RewritePending' <=> RewritePending)
          /\ \A w \in ToSet(queue') : w.rewrite => w \in ToSet(queue)

LEMMA EmitKeeps ==
    ASSUME LogInv, Emit
    PROVE  LogInv' /\ EventEmitted([inc |-> inc, seq |-> eventSeq + 1, prev |-> cursor])
<1> DEFINE e == [inc |-> inc, seq |-> eventSeq + 1, prev |-> cursor]
           x == Append(window, e)
           r == Retained(x)
           l == Lines(Singles(queue))
           all == [rewrite |-> TRUE, events |-> r, trigger |-> eventSeq + 1]
           one == [rewrite |-> FALSE, events |-> <<e>>, trigger |-> eventSeq + 1]
           compact == unwritten + 1 >= Limit
<1>1. /\ up /\ deleting = {} /\ eventSeq' = eventSeq + 1 /\ cursor' = eventSeq + 1
      /\ window' = r /\ unwritten' = IF compact THEN 0 ELSE unwritten + 1
      /\ queue' = IF compact THEN <<all>> ELSE Append(queue, one)
      /\ UNCHANGED <<inc, up, write, failed, deleting, disk, deleted>>
    BY DEF Emit, Unlocked, Staged
<1>2. /\ LogTypes /\ QueueShape /\ StoppedIsEmpty /\ EndsWithWindow /\ CleanAppends
      /\ QueueInWindow /\ TriggerInWindow /\ NumbersAreOld /\ DeletedStaysDeleted
    BY DEF LogInv
<1>3. /\ inc \in Nat /\ eventSeq \in Nat /\ cursor \in Nat /\ unwritten \in Nat /\ Limit \in Nat
      /\ Limit >= 1 /\ queue \in Seq(Write) /\ write \in Seq(Write) /\ disk \in Seq(Event)
      /\ window \in Seq(Event)
    BY <1>2, LimitAssumption DEF LogTypes
<1>4. e \in Event /\ e.seq = eventSeq + 1 /\ Id(e) = <<inc, eventSeq + 1>>
    BY <1>3 DEF Event, Id
<1> HIDE DEF e
<1>5. /\ x \in Seq(Event) /\ Len(x) = Len(window) + 1 /\ r \in Seq(Event) /\ Ends(r, x)
      /\ Len(r) = IF Len(x) <= Limit THEN Len(x) ELSE Limit
      /\ Len(r) \in Nat /\ Len(r) >= 1 /\ r[Len(r)] = e
      /\ ToSet(r) \subseteq ToSet(window) \cup {e}
    BY <1>2, <1>4, EmitWindow
<1>6. /\ Singles(queue) \in Seq(Write) /\ OneEach(Singles(queue)) /\ l \in Seq(Event)
      /\ Base \in Seq(Event) /\ Len(l) = Len(Singles(queue))
    BY <1>2, QueueParts
<1>7. /\ ToSet(disk) \subseteq Logged /\ ToSet(window) \subseteq Logged
      /\ \A w \in ToSet(queue) \cup ToSet(write) : ToSet(w.events) \subseteq Logged
    BY <1>2, LoggedParts
<1> HIDE DEF x, r, l
<1>8. all \in Write /\ all.events = r /\ all.rewrite /\ all.trigger = eventSeq + 1
    BY <1>3, <1>5 DEF Write
<1>9. /\ one \in Write /\ one.events = <<e>> /\ ~one.rewrite /\ one.trigger = eventSeq + 1
      /\ Len(one.events) = 1 /\ one.events[1] = e /\ ToSet(one.events) = {e}
    <2>1. /\ one.events = <<e>> /\ ~one.rewrite /\ one.trigger = eventSeq + 1
        OBVIOUS
    <2>2. <<e>> \in Seq(Event) /\ Len(<<e>>) = 1 /\ <<e>>[1] = e
        BY <1>4
    <2>3. one \in Write
        BY <1>3, <2>2 DEF Write
    <2>4. ToSet(<<e>>) = {e}
        BY OneWrite
    <2> HIDE DEF one
    <2>5. QED BY <2>1, <2>2, <2>3, <2>4
<1> HIDE DEF all, one
<1>10. StoppedIsEmpty' /\ CleanAppends'
    BY <1>1, <1>2 DEF StoppedIsEmpty, CleanAppends
<1>11. /\ up' \in BOOLEAN /\ inc' \in Nat /\ eventSeq' \in Nat /\ cursor' \in Nat
       /\ window' \in Seq(Event) /\ disk' \in Seq(Event)
       /\ write' \in Seq(Write) /\ Len(write') <= 1
    BY <1>1, <1>2, <1>3, <1>5 DEF LogTypes
<1> SUFFICES ASSUME TRUE
             PROVE  LogTypes' /\ QueueShape' /\ EndsWithWindow' /\ QueueInWindow' /\ TriggerInWindow'
                    /\ EventEmitted(e)
    <2>1. ASSUME Logged' \subseteq Logged \cup {e} PROVE NumbersAreOld' /\ DeletedStaysDeleted'
        <3>1. eventSeq' \in Nat /\ inc' = inc /\ up' = up /\ eventSeq' >= eventSeq
            BY <1>1, <1>3
        <3>2. \A id : Old(id) => Old(id)'
            BY <1>1, <1>3, <3>1, OldStaysOld
        <3>3. ASSUME NEW id, id = <<inc, eventSeq + 1>> PROVE Old(id)'
            BY <1>1, <1>3, <3>3 DEF Old
        <3>4. NumbersAreOld'
            <4>1. ASSUME NEW f \in Logged' PROVE Old(Id(f))'
                <5>1. CASE f \in Logged
                    BY <1>2, <3>2, <5>1 DEF NumbersAreOld
                <5>2. CASE f = e
                    BY <1>4, <3>3, <5>2
                <5>3. QED BY <2>1, <5>1, <5>2
            <4>2. \A id \in (deleted \cup deleting)' : Old(id)'
                BY <1>1, <1>2, <3>2 DEF NumbersAreOld
            <4>3. QED BY <4>1, <4>2 DEF NumbersAreOld, Id
        <3>5. Id(e) \notin deleted
            BY <1>1, <1>2, <1>3, <1>4 DEF NumbersAreOld, Old
        <3>6. DeletedStaysDeleted'
            BY <1>1, <1>2, <2>1, <3>5, DeletedIsNotLogged
        <3>7. QED BY <3>4, <3>6
    <2>2. QED BY <1>10, <2>1 DEF LogInv, EventEmitted, e
<1>12. CASE compact
    <2>1. queue' = <<all>> /\ unwritten' = 0
        BY <1>1, <1>12
    <2>2. /\ queue' # <<>> /\ Head(queue') = all /\ Tail(queue') = <<>> /\ ToSet(queue') = {all}
          /\ queue' \in Seq(Write) /\ DOMAIN queue' = {1} /\ queue'[1] = all
        <3>1. /\ queue' \in Seq(Write) /\ DOMAIN queue' = {1} /\ queue'[1] = all
              /\ Tail(queue') = <<>>
            BY <1>8, <2>1
        <3>2. QED BY <2>1, <3>1, OneWrite
    <2>3. Rewriting(queue)' /\ Singles(queue)' = <<>> /\ Lines(Singles(queue))' = <<>>
        <3>1. Rewriting(queue)' /\ Singles(queue)' = <<>>
            BY <1>8, <2>2 DEF Rewriting, Singles
        <3>2. QED BY <3>1 DEF Lines
    <2>4. LogTypes' /\ QueueShape'
        <3>1. LogTypes'
            BY <1>3, <1>11, <2>1, <2>2 DEF LogTypes
        <3>2. QED BY <1>1, <1>2, <1>8, <2>2, <3>1 DEF QueueShape
    <2>5. EndsWithWindow' /\ Final' = r
        <3>1. Base' = r
            BY <1>8, <2>2, <2>3 DEF Base
        <3>2. Final' = r /\ Ends(r, r)
            BY <1>5, <2>3, <3>1, EndsItself DEF Final
        <3>3. QED BY <1>1, <3>2 DEF EndsWithWindow
    <2>6. QueueInWindow'
        <3>1. Ends(<<>>, r) /\ 0 < Limit
            BY <1>3, <1>5, EndsItself
        <3>2. Len(Singles(queue))' <= unwritten'
            BY <2>1, <2>3
        <3>3. Ends(Lines(Singles(queue)), window)'
            BY <1>1, <2>3, <3>1
        <3>4. QED BY <2>1, <3>1, <3>2, <3>3 DEF QueueInWindow
    <2>7. TriggerInWindow'
        <3>1. Len(r) \in DOMAIN r /\ r[Len(r)].seq = all.trigger /\ Len(r) - Len(r) <= 0
            BY <1>4, <1>5, <1>8
        <3>2. QED BY <1>1, <2>1, <2>2, <2>3, <3>1 DEF TriggerInWindow, InWindow
    <2>8. Logged' \subseteq Logged \cup {e}
        BY <1>1, <1>5, <1>7, <1>8, <2>2 DEF Logged
    <2>9. EventEmitted(e)
        BY <1>1, <1>8, <2>2, <2>5, <2>8 DEF EventEmitted, r, x
    <2>10. QED BY <2>4, <2>5, <2>6, <2>7, <2>9
<1>13. CASE ~compact
    <2>1. queue' = Append(queue, one) /\ unwritten' = unwritten + 1 /\ unwritten + 1 < Limit
        BY <1>1, <1>3, <1>13
    <2>2. /\ queue' \in Seq(Write) /\ Len(queue') = Len(queue) + 1 /\ queue' # <<>>
          /\ queue'[Len(queue) + 1] = one /\ \A i \in 1..Len(queue) : queue'[i] = queue[i]
          /\ ToSet(queue') = ToSet(queue) \cup {one}
        <3>1. ToSet(queue') = ToSet(queue) \cup {one}
            BY <1>3, <1>9, <2>1, AppendSet
        <3>2. QED BY <1>3, <1>9, <2>1, <3>1
    <2>3. Rewriting(queue') <=> Rewriting(queue)
        <3>1. Head(queue') = IF queue = <<>> THEN one ELSE Head(queue)
            BY <1>3, <2>1, HeadTailAppend
        <3>2. QED BY <1>9, <2>2, <3>1 DEF Rewriting
    <2>4. Rewriting(queue) => Head(queue') = Head(queue)
        BY <1>3, <2>1, HeadTailAppend DEF Rewriting
    <2>5. Singles(queue') = Append(Singles(queue), one)
        <3>1. Tail(queue') = IF queue = <<>> THEN <<>> ELSE Append(Tail(queue), one)
            BY <1>3, <2>1, HeadTailAppend
        <3>2. QED BY <2>1, <2>3, <3>1 DEF Singles, Rewriting
    <2>6. Lines(Singles(queue')) = Append(l, e) /\ Len(Singles(queue')) = Len(Singles(queue)) + 1
        <3>1. Lines(Append(Singles(queue), one)) = Append(l, e)
            BY <1>6, <1>9, LinesAppend DEF l
        <3>2. QED BY <1>6, <2>5, <3>1
    <2>7. LogTypes' /\ QueueShape'
        <3>1. LogTypes'
            BY <1>3, <1>11, <2>1, <2>2 DEF LogTypes
        <3>2. ASSUME NEW i \in DOMAIN queue'
              PROVE  IF queue'[i].rewrite THEN i = 1
                     ELSE /\ Len(queue'[i].events) = 1
                          /\ queue'[i].trigger = queue'[i].events[1].seq
            <4>1. CASE i = Len(queue) + 1
                BY <1>4, <1>9, <2>2, <4>1
            <4>2. CASE i # Len(queue) + 1
                <5>1. i \in 1..Len(queue)
                    BY <1>3, <2>2, <4>2
                <5>2. i \in DOMAIN queue /\ queue'[i] = queue[i]
                    BY <1>3, <2>2, <5>1
                <5>3. QED BY <1>2, <5>2 DEF QueueShape
            <4>3. QED BY <4>1, <4>2
        <3>3. QED BY <1>1, <1>2, <3>1, <3>2 DEF QueueShape
    <2>8. /\ EndsWithWindow' /\ (RewritePending' <=> RewritePending)
          /\ Final' = Append(Final, e)
        <3>1. Base' = Base
            BY <1>1, <2>3, <2>4 DEF Base, Rewriting
        <3>2. Final = Base \o l /\ Final' = Append(Final, e) /\ Final \in Seq(Event)
            <4>1. Final = Base \o l /\ Final' = Base \o Append(l, e)
                BY <2>6, <3>1 DEF Final, l
            <4>2. QED BY <1>4, <1>6, <4>1, JoinAppend
        <3>3. RewritePending' <=> RewritePending
            BY <1>1, <2>3 DEF RewritePending, Rewriting
        <3>4. ASSUME Ends(window, Final) PROVE Ends(r, Append(Final, e))
            <4>1. Ends(x, Append(Final, e))
                BY <1>3, <1>4, <3>2, <3>4, EndOfAppend DEF x
            <4>2. Append(Final, e) \in Seq(Event)
                BY <1>4, <3>2
            <4>3. QED BY <1>5, <4>1, <4>2, EndsTransitive
        <3>5. EndsWithWindow'
            BY <1>1, <1>2, <3>2, <3>3, <3>4 DEF EndsWithWindow
        <3>6. QED BY <3>2, <3>3, <3>5
    <2>9. QueueInWindow'
        <3>1. Len(Singles(queue)) <= unwritten /\ Ends(l, window)
            BY <1>2 DEF QueueInWindow, l
        <3>2. Ends(Append(l, e), x) /\ Append(l, e) \in Seq(Event)
              /\ Len(Append(l, e)) = Len(l) + 1
            BY <1>3, <1>4, <1>6, <3>1, EndOfAppend DEF x
        <3>3. Len(l) + 1 <= Len(r)
            <4>1. Len(l) <= Len(window) /\ Len(l) <= unwritten
                BY <1>6, <3>1 DEF Ends
            <4>2. Len(l) \in Nat /\ Len(window) \in Nat /\ Len(x) \in Nat
                BY <1>3, <1>5, <1>6
            <4>3. QED BY <1>3, <1>5, <2>1, <4>1, <4>2
        <3>4. Ends(Append(l, e), r)
            BY <1>5, <3>2, <3>3, EndsShorter
        <3>5. Len(Singles(queue')) <= unwritten'
            BY <1>3, <1>6, <2>1, <2>6, <3>1
        <3>6. QED BY <1>1, <2>1, <2>6, <3>4, <3>5 DEF QueueInWindow
    <2>10. TriggerInWindow'
        <3>1. ASSUME NEW w \in Write, InWindow(w)
              PROVE  \E i \in DOMAIN window' :
                         window'[i].seq = w.trigger /\ Len(window') - i <= unwritten'
            <4>1. PICK i \in DOMAIN window : window[i].seq = w.trigger /\ Len(window) - i <= unwritten
                BY <3>1 DEF InWindow
            <4>2. w.trigger \in Nat
                BY DEF Write
            <4>3. \E j \in DOMAIN r : r[j].seq = w.trigger /\ Len(r) - j <= unwritten + 1
                BY <1>2, <1>4, <2>1, <4>1, <4>2, NearTheEnd DEF x, r
            <4>4. QED BY <1>1, <2>1, <4>3
        <3>2. Rewriting(queue) => InWindow(Head(queue)) /\ Head(queue) \in Write
            BY <1>2, QueueParts DEF TriggerInWindow
        <3>3. write # <<>> /\ ~Rewriting(queue)
                  => InWindow(Head(write)) /\ Head(write) \in Write
            BY <1>2, QueueParts DEF TriggerInWindow
        <3>4. QED BY <1>1, <2>3, <2>4, <3>1, <3>2, <3>3 DEF TriggerInWindow, InWindow, Rewriting
    <2>11. Logged' \subseteq Logged \cup {e}
        <3>1. ToSet(window') \subseteq Logged \cup {e} /\ ToSet(disk') \subseteq Logged
            BY <1>1, <1>5, <1>7
        <3>2. ASSUME NEW w \in ToSet(queue') \cup ToSet(write')
              PROVE  ToSet(w.events) \subseteq Logged \cup {e}
            BY <1>1, <1>7, <1>9, <2>2
        <3>3. QED BY <3>1, <3>2 DEF Logged
    <2>12. EventEmitted(e)
        BY <1>1, <1>9, <2>2, <2>8, <2>11 DEF EventEmitted, r, x
    <2>13. QED BY <2>7, <2>8, <2>9, <2>10, <2>12
<1>14. QED BY <1>12, <1>13

-----------------------------------------------------------------------------
(* Deletions, runtimes and crashes.                                        *)

LEMMA TopTyped ==
    ASSUME NEW s \in Seq(Event)
    PROVE  Top(s) \in Nat /\ Top(s) \in Seqs(s) \cup {0} /\ \A e \in ToSet(s) : e.seq <= Top(s)
<1> DEFINE P == {n \in 0..Len(s) : \E x \in Nat : /\ x = 0 \/ \E i \in 1..n : x = s[i].seq
                                                  /\ \A i \in 1..n : x >= s[i].seq}
<1>1. \A i \in 1..Len(s) : s[i].seq \in Nat
    <2>1. \A i \in 1..Len(s) : s[i] \in Event
        OBVIOUS
    <2>2. QED BY <2>1 DEF Event
<1>2. 0 \in P
    <2>1. 0 \in 0..Len(s) /\ \A i \in 1..0 : 0 >= s[i].seq
        OBVIOUS
    <2>2. QED BY <2>1
<1>3. ASSUME NEW n \in 0..(Len(s) - 1), n \in P PROVE n + 1 \in P
    <2>1. PICK x \in Nat : /\ x = 0 \/ \E i \in 1..n : x = s[i].seq
                           /\ \A i \in 1..n : x >= s[i].seq
        BY <1>3
    <2> DEFINE y == s[n + 1].seq
    <2>2. y \in Nat /\ n + 1 \in 1..(n + 1) /\ n + 1 \in 0..Len(s)
        BY <1>1
    <2>3. \A i \in 1..(n + 1) : i \in 1..n \/ i = n + 1
        OBVIOUS
    <2>4. \A i \in 1..n : i \in 1..(n + 1) /\ s[i].seq \in Nat
        BY <1>1
    <2>5. CASE x >= y
        BY <2>1, <2>2, <2>3, <2>4, <2>5
    <2>6. CASE ~(x >= y)
        <3>1. \A i \in 1..n : y >= s[i].seq
            BY <2>1, <2>2, <2>4, <2>6
        <3>2. \A i \in 1..(n + 1) : y >= s[i].seq
            BY <2>2, <2>3, <3>1
        <3>3. QED BY <2>2, <3>2
    <2>7. QED BY <2>5, <2>6
<1>4. Len(s) \in P
    <2>1. P \in SUBSET (0..Len(s))
        OBVIOUS
    <2> HIDE DEF P
    <2>2. P = 0..Len(s)
        BY <1>2, <1>3, <2>1, SegmentInduction
    <2>3. QED BY <2>2
<1>5. \E x \in Seqs(s) \cup {0} : \A y \in Seqs(s) \cup {0} : x >= y
    <2>1. PICK x \in Nat : /\ x = 0 \/ \E i \in 1..Len(s) : x = s[i].seq
                           /\ \A i \in 1..Len(s) : x >= s[i].seq
        BY <1>4
    <2>2. Seqs(s) = {s[i].seq : i \in 1..Len(s)}
        BY DEF Seqs, ToSet
    <2>3. x \in Seqs(s) \cup {0}
        BY <2>1, <2>2
    <2>4. \A y \in Seqs(s) \cup {0} : x >= y
        BY <2>1, <2>2
    <2>5. QED BY <2>3, <2>4
<1>6. Seqs(s) \cup {0} \subseteq Nat
    BY <1>1 DEF Seqs, ToSet
<1> DEFINE S == Seqs(s) \cup {0}
<1> HIDE DEF S
<1>7. Max(S) \in S /\ \A y \in S : Max(S) >= y
    BY <1>5 DEF Max, S
<1>8. Top(s) = Max(S) /\ S \subseteq Nat /\ \A e \in ToSet(s) : e.seq \in S
    BY <1>6 DEF Top, S, Seqs
<1>9. Top(s) \in Nat /\ Top(s) \in S
    BY <1>7, <1>8
<1>10. \A e \in ToSet(s) : e.seq <= Top(s)
    BY <1>7, <1>8, <1>9
<1>11. QED BY <1>9, <1>10 DEF S

LEMMA BeginDeleteKeeps ==
    ASSUME LogInv, BeginDelete
    PROVE  LogInv'
<1>1. /\ up /\ deleting = {}
      /\ UNCHANGED <<inc, up, eventSeq, cursor, window, unwritten, queue, write, failed, disk, deleted>>
      /\ deleting' \subseteq {Id(e) : e \in ToSet(window) \cup ToSet(disk)}
    BY DEF BeginDelete, Unlocked, runtime, writer, ghosts
<1>2. /\ LogTypes /\ QueueShape /\ StoppedIsEmpty /\ EndsWithWindow /\ CleanAppends
      /\ QueueInWindow /\ TriggerInWindow /\ NumbersAreOld /\ DeletedStaysDeleted
    BY DEF LogInv
<1>3. LogTypes' /\ QueueShape' /\ StoppedIsEmpty'
    BY <1>1, <1>2 DEF LogTypes, QueueShape, StoppedIsEmpty
<1>4. EndsWithWindow' /\ CleanAppends' /\ QueueInWindow' /\ TriggerInWindow'
    <2>1. Base' = Base /\ Lines(Singles(queue))' = Lines(Singles(queue))
          /\ Rewriting(queue)' = Rewriting(queue) /\ Singles(queue)' = Singles(queue)
        BY <1>1 DEF Base, Singles, Rewriting, Lines
    <2>2. Final' = Final /\ RewritePending' = RewritePending
        BY <1>1, <2>1 DEF Final, RewritePending
    <2>3. QED BY <1>1, <1>2, <2>1, <2>2 DEF EndsWithWindow, CleanAppends, QueueInWindow,
                                TriggerInWindow, InWindow, Ends
<1>5. Logged' = Logged
    BY <1>1 DEF Logged
<1>6. NumbersAreOld'
    <2>1. \A id : Old(id)' <=> Old(id)
        BY <1>1 DEF Old
    <2>2. \A id \in deleting' : Old(id)
        BY <1>1, <1>2, LoggedParts DEF NumbersAreOld
    <2>3. QED BY <1>1, <1>2, <1>5, <2>1, <2>2 DEF NumbersAreOld, Id
<1>7. DeletedStaysDeleted'
    BY <1>1, <1>2, <1>5, DeletedIsNotLogged
<1>8. QED BY <1>3, <1>4, <1>6, <1>7 DEF LogInv

\* Nothing waits to be written, and the log is at rest.
LEMMA AtRest ==
    ASSUME Drained, LogTypes
    PROVE  /\ Final = disk /\ ~RewritePending /\ ~Rewriting(queue) /\ Singles(queue) = <<>>
           /\ Lines(Singles(queue)) = <<>> /\ Logged = ToSet(disk) \cup ToSet(window)
<1>1. ~RewritePending /\ ~Rewriting(queue) /\ Singles(queue) = <<>>
    BY DEF Drained, RewritePending, Rewriting, Singles
<1>2. Lines(Singles(queue)) = <<>>
    BY <1>1 DEF Lines
<1>3. Final = disk
    BY <1>1, <1>2, ConcatEmptySeq DEF Final, Base, Drained, LogTypes
<1>4. ToSet(queue) = {} /\ ToSet(write) = {}
    BY DEF Drained, ToSet
<1>5. QED BY <1>1, <1>2, <1>3, <1>4 DEF Logged

\* The invariant of a log at rest.
LEMMA RestingLog ==
    ASSUME LogTypes', Drained', StoppedIsEmpty', failed' = {} => Ends(window, disk)',
           NumbersAreOld', DeletedStaysDeleted'
    PROVE  LogInv'
<1>1. (/\ Final = disk /\ ~RewritePending /\ ~Rewriting(queue) /\ Singles(queue) = <<>>
       /\ Lines(Singles(queue)) = <<>> /\ Logged = ToSet(disk) \cup ToSet(window))'
    BY AtRest, PTL
<1>2. QueueShape'
    BY DEF Drained, QueueShape
<1>3. EndsWithWindow' /\ CleanAppends' /\ TriggerInWindow'
    BY <1>1 DEF EndsWithWindow, CleanAppends, TriggerInWindow, Drained
<1>4. QueueInWindow'
    <2>1. Ends(<<>>, window')
        BY EndsItself DEF LogTypes
    <2>2. Ends(Lines(Singles(queue)), window)'
        BY <1>1, <2>1 DEF Ends
    <2>3. Len(Singles(queue))' <= unwritten'
        BY <1>1 DEF LogTypes
    <2>4. QED BY <2>2, <2>3 DEF QueueInWindow, Drained
<1>5. QED BY <1>2, <1>3, <1>4 DEF LogInv

LEMMA EndDeleteKeeps ==
    ASSUME LogInv, EndDelete
    PROVE  LogInv' /\ Logged' \subseteq Logged
<1>1. /\ up /\ Drained /\ deleting' = {}
      /\ UNCHANGED <<inc, up, eventSeq, cursor, unwritten, queue, write, failed>>
      /\ \/ UNCHANGED <<window, disk, deleted>>
         \/ /\ window' = Without(window, deleting) /\ disk' = Without(disk, deleting)
            /\ deleted' = deleted \cup deleting
    BY DEF EndDelete, Removed, writer
<1>2. /\ LogTypes /\ StoppedIsEmpty /\ EndsWithWindow /\ NumbersAreOld /\ DeletedStaysDeleted
    BY DEF LogInv
<1>3. window \in Seq(Event) /\ disk \in Seq(Event)
    BY <1>2 DEF LogTypes
<1>4. Drained'
    BY <1>1 DEF Drained
<1>5. StoppedIsEmpty'
    BY <1>1 DEF StoppedIsEmpty
<1>6. Ends(window, disk) \/ failed # {}
    BY <1>1, <1>2, AtRest DEF EndsWithWindow
<1>7. Logged = ToSet(disk) \cup ToSet(window)
    BY <1>1, <1>2, AtRest
<1>8. ASSUME LogTypes' PROVE Logged' = ToSet(disk') \cup ToSet(window')
    <2>1. (Drained /\ LogTypes => Logged = ToSet(disk) \cup ToSet(window))'
        BY AtRest, PTL
    <2>2. QED BY <1>4, <1>8, <2>1
<1>9. (deleted \cup deleting)' \subseteq deleted \cup deleting
    BY <1>1
<1>10. CASE UNCHANGED <<window, disk, deleted>>
    <2>1. LogTypes'
        BY <1>1, <1>2, <1>10 DEF LogTypes
    <2>2. Logged' = Logged
        BY <1>7, <1>8, <1>10, <2>1
    <2>3. NumbersAreOld'
        BY <1>1, <1>2, <1>9, <2>2, NumbersKept DEF LogTypes
    <2>4. DeletedStaysDeleted'
        BY <1>2, <1>10, <2>2, DeletedIsNotLogged
    <2>5. failed' = {} => Ends(window, disk)'
        BY <1>1, <1>6, <1>10 DEF Ends
    <2>6. QED BY <1>4, <1>5, <2>1, <2>2, <2>3, <2>4, <2>5, RestingLog
<1>11. CASE /\ window' = Without(window, deleting) /\ disk' = Without(disk, deleting)
            /\ deleted' = deleted \cup deleting
    <2>1. /\ window' \in Seq(Event)
          /\ ToSet(window') \subseteq {e \in ToSet(window) : Id(e) \notin deleting}
        BY <1>3, <1>11, WithoutKeepsTheOthers
    <2>2. /\ disk' \in Seq(Event)
          /\ ToSet(disk') \subseteq {e \in ToSet(disk) : Id(e) \notin deleting}
        BY <1>3, <1>11, WithoutKeepsTheOthers
    <2>3. LogTypes'
        BY <1>1, <1>2, <2>1, <2>2 DEF LogTypes
    <2>4. Logged' \subseteq {e \in Logged : Id(e) \notin deleting}
        BY <1>7, <1>8, <2>1, <2>2, <2>3
    <2>5. Logged' \subseteq Logged
        BY <2>4
    <2>6. NumbersAreOld'
        BY <1>1, <1>2, <1>9, <2>5, NumbersKept DEF LogTypes
    <2>7. DeletedStaysDeleted'
        BY <1>2, <1>11, <2>4, DeletedIsNotLogged
    <2>8. failed' = {} => Ends(window, disk)'
        <3>1. Ends(window, disk) => Ends(window', disk')
            BY <1>3, <1>11, WithoutOfEnd
        <3>2. QED BY <1>1, <1>6, <3>1 DEF Ends
    <2>9. QED BY <1>4, <1>5, <2>3, <2>5, <2>6, <2>7, <2>8, RestingLog
<1>12. QED BY <1>1, <1>10, <1>11

LEMMA CreateKeeps ==
    ASSUME LogInv, NEW readable \in BOOLEAN, Create(readable)
    PROVE  LogInv' /\ Logged' \subseteq Logged
<1> DEFINE loaded == IF readable THEN Retained(disk) ELSE <<>>
<1>1. /\ ~up /\ up' = TRUE /\ inc' = inc + 1 /\ eventSeq' = Top(loaded) /\ cursor' = Top(loaded)
      /\ window' = loaded /\ unwritten' = Len(loaded)
      /\ UNCHANGED <<queue, write, failed, deleting, disk, deleted>>
    BY DEF Create, writer
<1>2. /\ LogTypes /\ StoppedIsEmpty /\ NumbersAreOld /\ DeletedStaysDeleted
    BY DEF LogInv
<1>3. /\ disk \in Seq(Event) /\ inc \in Nat /\ eventSeq \in Nat
      /\ Limit \in Nat /\ Limit >= 1
    BY <1>2, LimitAssumption DEF LogTypes
<1>4. queue = <<>> /\ write = <<>> /\ failed = {} /\ deleting = {} /\ window = <<>>
    BY <1>1, <1>2 DEF StoppedIsEmpty
<1>5. /\ loaded \in Seq(Event) /\ Ends(loaded, disk) /\ ToSet(loaded) \subseteq ToSet(disk)
      /\ Len(loaded) \in 0..Limit
    <2>1. CASE readable
        <3>1. /\ Retained(disk) \in Seq(Event) /\ Ends(Retained(disk), disk)
              /\ ToSet(Retained(disk)) \subseteq ToSet(disk)
              /\ Len(Retained(disk)) = IF Len(disk) <= Limit THEN Len(disk) ELSE Limit
            BY <1>3, RetainedIsEnd
        <3>2. Len(disk) \in Nat
            BY <1>3
        <3>3. Len(Retained(disk)) \in 0..Limit
            BY <1>3, <3>1, <3>2
        <3>4. QED BY <2>1, <3>1, <3>3
    <2>2. CASE ~readable
        <3>1. <<>> \in Seq(Event) /\ Len(<<>>) = 0 /\ ToSet(<<>>) = {} /\ Ends(<<>>, disk)
            BY <1>3, EmptySeq, EndsItself DEF ToSet
        <3>2. QED BY <1>3, <2>2, <3>1
    <2>3. QED BY <2>1, <2>2
<1>6. Top(loaded) \in Nat
    BY <1>5, TopTyped
<1> HIDE DEF loaded
<1>7. LogTypes' /\ Drained' /\ StoppedIsEmpty'
    BY <1>1, <1>2, <1>3, <1>4, <1>5, <1>6 DEF LogTypes, Drained, StoppedIsEmpty
<1>8. Logged' \subseteq Logged
    <2>1. ToSet(queue') = {} /\ ToSet(write') = {}
        BY <1>1, <1>4 DEF ToSet
    <2>2. QED BY <1>1, <1>5, <2>1 DEF Logged
<1>9. NumbersAreOld'
    BY <1>1, <1>2, <1>3, <1>6, <1>8, NumbersKept
<1>10. DeletedStaysDeleted'
    BY <1>1, <1>2, <1>8, DeletedIsNotLogged
<1>11. Ends(window, disk)'
    BY <1>1, <1>5 DEF Ends
<1>12. QED BY <1>7, <1>8, <1>9, <1>10, <1>11, RestingLog

LEMMA CrashKeeps ==
    ASSUME LogInv, Crash
    PROVE  LogInv' /\ Logged' \subseteq Logged
<1>1. /\ up' = FALSE /\ eventSeq' = 0 /\ cursor' = 0 /\ window' = <<>> /\ unwritten' = 0
      /\ queue' = <<>> /\ write' = <<>> /\ failed' = {} /\ deleting' = {}
      /\ UNCHANGED <<inc, disk, deleted>>
    BY DEF Crash
<1>2. /\ LogTypes /\ NumbersAreOld /\ DeletedStaysDeleted
    BY DEF LogInv
<1>3. LogTypes' /\ Drained' /\ StoppedIsEmpty'
    <2>1. /\ <<>> \in Seq(Event) /\ <<>> \in Seq(Write) /\ Len(<<>>) = 0 /\ 0 \in 0..Limit
          /\ 0 \in Nat /\ FALSE \in BOOLEAN
        BY LimitAssumption, EmptySeq
    <2>2. inc \in Nat /\ disk \in Seq(Event)
        BY <1>2 DEF LogTypes
    <2> HIDE DEF Event, Write
    <2>3. /\ up' \in BOOLEAN /\ inc' \in Nat /\ eventSeq' \in Nat /\ cursor' \in Nat
          /\ window' \in Seq(Event) /\ disk' \in Seq(Event) /\ unwritten' \in 0..Limit
        BY <1>1, <2>1, <2>2
    <2>4. queue' \in Seq(Write) /\ write' \in Seq(Write) /\ Len(write') <= 1
        <3>1. Len(write') = 0
            BY <1>1, <2>1, Zenon
        <3>2. QED BY <1>1, <2>1, <3>1
    <2>5. LogTypes'
        BY <2>3, <2>4 DEF LogTypes
    <2>6. QED BY <1>1, <2>5 DEF Drained, StoppedIsEmpty
<1>4. Logged' \subseteq Logged
    <2>1. ToSet(queue') = {} /\ ToSet(write') = {} /\ ToSet(window') = {}
        BY <1>1 DEF ToSet
    <2>2. QED BY <1>1, <2>1 DEF Logged
<1>5. NumbersAreOld'
    BY <1>1, <1>2, <1>4, NumbersKept DEF LogTypes
<1>6. DeletedStaysDeleted'
    BY <1>1, <1>2, <1>4, DeletedIsNotLogged
<1>7. Ends(window, disk)'
    <2>1. Ends(<<>>, disk')
        BY <1>3, EndsItself DEF LogTypes
    <2>2. QED BY <1>1, <2>1 DEF Ends
<1>8. QED BY <1>3, <1>4, <1>5, <1>6, <1>7, RestingLog

-----------------------------------------------------------------------------
(* The invariant, and what it says.                                        *)

LEMMA LogInitial == Init => LogInv
<1> SUFFICES ASSUME Init PROVE LogInv
    OBVIOUS
<1>1. /\ ~up /\ up \in BOOLEAN /\ inc = 0 /\ eventSeq = 0 /\ cursor = 0 /\ unwritten = 0
      /\ window = <<>> /\ queue = <<>> /\ write = <<>> /\ disk = <<>>
      /\ failed = {} /\ deleting = {} /\ deleted = {}
    BY DEF Init
<1>2. LogTypes
    <2>1. /\ <<>> \in Seq(Event) /\ <<>> \in Seq(Write) /\ Len(<<>>) = 0 /\ 0 \in 0..Limit
          /\ 0 \in Nat
        BY LimitAssumption, EmptySeq
    <2>2. QED BY <1>1, <2>1 DEF LogTypes
<1>3. Drained
    BY <1>1 DEF Drained
<1>4. /\ Final = disk /\ ~RewritePending /\ ~Rewriting(queue) /\ Singles(queue) = <<>>
      /\ Lines(Singles(queue)) = <<>> /\ Logged = ToSet(disk) \cup ToSet(window)
    BY <1>2, <1>3, AtRest
<1>5. Logged = {}
    BY <1>1, <1>4 DEF ToSet
<1>6. NumbersAreOld /\ DeletedStaysDeleted
    BY <1>1, <1>5, DeletedIsNotLogged DEF NumbersAreOld
<1>7. Ends(<<>>, <<>>) /\ Len(<<>>) = 0
    BY EmptySeq, EndsItself
<1>8. QueueShape /\ StoppedIsEmpty /\ CleanAppends /\ TriggerInWindow
    BY <1>1, <1>4 DEF QueueShape, StoppedIsEmpty, CleanAppends, TriggerInWindow
<1>9. EndsWithWindow /\ QueueInWindow
    BY <1>1, <1>4, <1>7 DEF EndsWithWindow, QueueInWindow
<1>10. QED BY <1>2, <1>6, <1>8, <1>9 DEF LogInv

LEMMA LogStep == LogInv /\ [Next]_vars => LogInv'
<1> SUFFICES ASSUME LogInv, [Next]_vars PROVE LogInv'
    OBVIOUS
<1>1. inc \in Nat /\ eventSeq \in Nat /\ cursor \in Nat
    BY DEF LogInv, LogTypes
<1>2. ASSUME UNCHANGED <<runtime, writer, deleting, disk, deleted>>
      PROVE  LogInv'
    BY <1>1, <1>2, QuietSteps DEF runtime, writer, logVars
<1>3. CASE SendRestored \/ SendReplay
    BY <1>1, <1>3, QuietSteps DEF SendRestored, SendReplay, writer, ghosts, logVars
<1>4. CASE \E readable \in BOOLEAN : Inspect(readable)
    BY <1>1, <1>4, QuietSteps DEF Inspect, writer, logVars
<1>5. CASE \/ Look \/ Receive(0) \/ ReducerFails \/ Attach \/ Disconnect \/ Reload
           \/ UNCHANGED vars
    <2>1. ASSUME NEW n, Receive(n) PROVE LogInv'
        BY <1>2, <2>1 DEF Receive
    <2>2. CASE ReducerFails
        BY <2>1, <2>2 DEF ReducerFails
    <2>3. CASE Look \/ Attach \/ Disconnect \/ Reload \/ UNCHANGED vars
        BY <1>2, <2>3 DEF Look, Attach, Disconnect, Reload, vars, ghosts
    <2>4. QED BY <1>5, <2>1, <2>2, <2>3
<1>6. CASE Emit \/ StartWrite \/ FinishWrite \/ FailWrite \/ BeginDelete \/ EndDelete
    BY <1>6, EmitKeeps, StartWriteKeeps, FinishWriteKeeps, FailWriteKeeps, BeginDeleteKeeps,
       EndDeleteKeeps
<1>7. CASE \E readable \in BOOLEAN : Create(readable)
    BY <1>7, CreateKeeps
<1>8. CASE Crash
    BY <1>8, CrashKeeps
<1>9. QED BY <1>3, <1>4, <1>5, <1>6, <1>7, <1>8 DEF Next

THEOREM LogIsKept == Spec => []LogInv
<1>1. QED BY LogInitial, LogStep, PTL DEF Spec

\* Whatever writes have failed in between, and however often the log has been
\* rewritten, read back or cleared of deleted events: when the writer has
\* caught up and reports no failure, the log ends with the window.
THEOREM WindowReachesTheDisk == Spec => []WindowOnDisk
<1>1. LogInv => WindowOnDisk
    <2> SUFFICES ASSUME LogInv, Drained, failed = {} PROVE IsSuffix(window, disk)
        BY DEF WindowOnDisk
    <2>1. Ends(window, disk)
        BY AtRest DEF LogInv, EndsWithWindow
    <2>2. QED BY <2>1, SuffixIsEnd DEF LogInv, LogTypes
<1>2. QED BY <1>1, LogIsKept, PTL

\* An event of a deleted conversation comes back neither from the window, nor
\* from the log, nor from a write that was queued or under way.
THEOREM DeletedForGood == Spec => []DeletedStaysDeleted
<1>1. LogInv => DeletedStaysDeleted
    BY DEF LogInv
<1>2. QED BY <1>1, LogIsKept, PTL

-----------------------------------------------------------------------------
(* The renderer's side: types, and what is cleared with a connection.      *)

Answers == [at : {"none", "asked", "found", "sent"}, last : Nat, current : Nat,
            reset : BOOLEAN, snapshot : BOOLEAN, events : Seq(Event)]
OnWire == [kind : {"event", "restored", "replay"}, seq : Nat, answer : Answers]
Progress == [cur : Nat, holes : SUBSET Nat, applied : SUBSET (Nat \X Nat),
             shown : SUBSET (Nat \X Nat), repeated : BOOLEAN, ok : BOOLEAN]

\* What the outbox keeps besides LogTypes ...
BoxTypes ==
    /\ degraded \in BOOLEAN /\ cursor <= eventSeq /\ Len(window) <= Limit
    /\ failed \subseteq Nat /\ deleting \subseteq Nat \X Nat /\ kept \subseteq Event
    /\ steps \in 0..MaxSteps

\* ... the renderer ...
PageTypes ==
    /\ asks \in BOOLEAN /\ mode \in {"off", "snapshot", "replay", "live"}
    /\ cur \in Nat /\ holes \subseteq Nat /\ buffer \in Seq(Event)
    /\ applied \subseteq Nat \X Nat /\ shown \subseteq Nat \X Nat
    /\ repeated \in BOOLEAN

\* ... and what is between them.
LinkTypes == restore \in Answers /\ wire \in Seq(OnWire)
Disconnected ==
    /\ up \/ mode = "off"
    /\ mode = "off" => wire = <<>> /\ buffer = <<>> /\ restore = NoRestore

ViewInv == BoxTypes /\ PageTypes /\ LinkTypes /\ Disconnected

LEMMA WithoutIsShorter ==
    ASSUME NEW s \in Seq(Event), NEW ids
    PROVE  Len(Without(s, ids)) <= Len(s)
<1>1. PICK f : KeptUpTo(f, Len(s), s, ids) /\ Without(s, ids) = f[Len(s)]
    BY WithoutIsKept
<1> DEFINE P == {n \in 0..Len(s) : Len(f[n]) <= n}
<1>2. 0 \in P
    BY <1>1, EmptySeq DEF KeptUpTo
<1>3. ASSUME NEW n \in 0..(Len(s) - 1), n \in P PROVE n + 1 \in P
    <2>1. n + 1 \in 1..Len(s) /\ (n + 1) - 1 = n /\ n \in 0..Len(s)
        OBVIOUS
    <2>2. f[n + 1] = Kept(f[n], s[n + 1], ids) /\ f[n] \in Seq(Event) /\ s[n + 1] \in Event
        BY <1>1, <2>1 DEF KeptUpTo
    <2>3. Len(f[n + 1]) <= Len(f[n]) + 1 /\ Len(f[n]) \in Nat /\ Len(f[n + 1]) \in Nat
        BY <2>2 DEF Kept
    <2>4. QED BY <1>3, <2>1, <2>3
<1>4. Len(s) \in P
    <2>1. P \in SUBSET (0..Len(s))
        OBVIOUS
    <2> HIDE DEF P
    <2>2. P = 0..Len(s)
        BY <1>2, <1>3, <2>1, SegmentInduction
    <2>3. QED BY <2>2
<1>5. QED BY <1>1, <1>4

LEMMA ApplyTyped ==
    ASSUME NEW st \in Progress, NEW e \in Event, NEW bad
    PROVE  Apply(st, e, bad) \in Progress
<1>1. /\ st.cur \in Nat /\ st.holes \subseteq Nat /\ st.applied \subseteq Nat \X Nat
      /\ st.shown \subseteq Nat \X Nat /\ st.repeated \in BOOLEAN /\ st.ok \in BOOLEAN
    BY DEF Progress
<1>2. e.seq \in Nat /\ Id(e) \in Nat \X Nat
    BY DEF Event, Id
<1>3. PICK again \in BOOLEAN : again = (st.repeated \/ (~behind /\ NotAfter(st, e)))
    OBVIOUS
<1>4. [st EXCEPT !.ok = FALSE, !.holes = @ \cup {e.seq}] \in Progress
    BY <1>1, <1>2 DEF Progress
<1>5. [st EXCEPT !.cur = e.seq, !.holes = @ \ {e.seq}, !.applied = @ \cup {Id(e)},
                 !.repeated = again] \in Progress
    BY <1>1, <1>2 DEF Progress
<1>6. QED BY <1>3, <1>4, <1>5 DEF Apply

\* What every event of a batch leaves within X, the batch leaves within X.
LEMMA HandledWithin ==
    ASSUME NEW X, NEW st \in X, NEW s \in Seq(Event), NEW bad,
           \A x \in X, e \in ToSet(s) : Apply(x, e, bad) \in X
    PROVE  Handled(st, s, bad) \in X
<1> DEFINE Body(f) == [n \in 0..Len(s) |->
                          IF n = 0 THEN st ELSE Apply(f[n - 1], s[n], bad)]
           g == CHOOSE f : f = Body(f)
           G == [n \in 1..Len(s) |-> [x \in X |-> Apply(x, s[n], bad)]]
<1>1. Handled(st, s, bad) = g[Len(s)]
    BY DEF Handled
<1>2. Len(s) \in Nat /\ \A n \in 1..Len(s) : s[n] \in ToSet(s)
    BY DEF ToSet
<1>3. G \in [1..Len(s) -> [X -> X]]
    BY <1>2
<1>4. PICK f : Along(f, Len(s), X, st, G)
    <2> HIDE DEF G
    <2>1. QED BY <1>2, <1>3, RecursionExists
<1>5. f = Body(f)
    <2>1. ASSUME NEW n \in 0..Len(s) PROVE f[n] = Body(f)[n]
        <3>1. CASE n = 0
            BY <1>4, <3>1 DEF Along
        <3>2. CASE n # 0
            <4>1. n \in 1..Len(s) /\ n - 1 \in 0..Len(s)
                BY <3>2
            <4>2. f[n] = G[n][f[n - 1]] /\ f[n - 1] \in X
                BY <1>4, <4>1 DEF Along
            <4>3. f[n] = Apply(f[n - 1], s[n], bad)
                BY <4>1, <4>2
            <4>4. QED BY <3>2, <4>3
        <3>3. QED BY <3>1, <3>2
    <2>2. f = [n \in 0..Len(s) |-> f[n]]
        BY <1>4 DEF Along
    <2>3. QED BY <2>1, <2>2
<1>6. g = Body(g)
    <2> HIDE DEF Body
    <2>1. \E x : x = Body(x)
        BY <1>5
    <2>2. QED BY <2>1
<1> HIDE DEF g
<1>7. g[0] = st /\ \A n \in 1..Len(s) : g[n] = Apply(g[n - 1], s[n], bad)
    <2>1. g[0] = st
        BY <1>6
    <2>2. ASSUME NEW n \in 1..Len(s) PROVE g[n] = Apply(g[n - 1], s[n], bad)
        <3>1. Body(g)[n] = Apply(g[n - 1], s[n], bad)
            OBVIOUS
        <3> HIDE DEF Body
        <3>2. QED BY <1>6, <3>1
    <2>3. QED BY <2>1, <2>2
<1> DEFINE P == {n \in 0..Len(s) : g[n] \in X}
<1>8. 0 \in P
    BY <1>7
<1>9. ASSUME NEW n \in 0..(Len(s) - 1), n \in P PROVE n + 1 \in P
    <2>1. n + 1 \in 1..Len(s) /\ (n + 1) - 1 = n /\ g[n] \in X
        BY <1>9
    <2>2. g[n + 1] = Apply(g[n], s[n + 1], bad) /\ s[n + 1] \in ToSet(s)
        BY <1>2, <1>7, <2>1
    <2>3. g[n + 1] \in X
        BY <2>1, <2>2
    <2>4. QED BY <2>1, <2>3
<1>10. P \in SUBSET (0..Len(s))
    OBVIOUS
<1>11. Len(s) \in P
    <2> HIDE DEF P
    <2>1. P = 0..Len(s)
        BY <1>2, <1>8, <1>9, <1>10, SegmentInduction
    <2>2. QED BY <1>2, <2>1
<1>12. QED BY <1>1, <1>11

LEMMA HandledTyped ==
    ASSUME NEW st \in Progress, NEW s \in Seq(Event), NEW bad
    PROVE  Handled(st, s, bad) \in Progress
<1>1. ToSet(s) \subseteq Event
    BY ElementIn
<1>2. \A x \in Progress, e \in ToSet(s) : Apply(x, e, bad) \in Progress
    BY <1>1, ApplyTyped
<1>3. QED BY <1>2, HandledWithin

LEMMA NoRestoreTyped ==
    /\ NoRestore \in Answers
    /\ \A n \in Nat : Ask(n) \in Answers
    /\ \A s \in Seq(Event) : [NoRestore EXCEPT !.events = s] \in Answers
<1>1. NoRestore \in Answers
    BY EmptySeq DEF NoRestore, Answers
<1>2. \A n \in Nat : Ask(n) \in Answers
    BY <1>1 DEF Ask, Answers
<1>3. \A s \in Seq(Event) : [NoRestore EXCEPT !.events = s] \in Answers
    BY <1>1 DEF Answers
<1>4. QED BY <1>1, <1>2, <1>3

\* Sending to a renderer that is not connected changes nothing.
LEMMA DeliverTyped ==
    ASSUME ViewInv, eventSeq \in Nat, NEW kind \in {"event", "restored", "replay"},
           NEW answer \in Answers, Deliver(Message(kind, answer))
    PROVE  /\ wire' \in Seq(OnWire)
           /\ mode = "off" => wire' = <<>>
<1>1. Message(kind, answer) \in OnWire
    BY DEF Message, OnWire
<1>2. wire \in Seq(OnWire) /\ (mode = "off" => wire = <<>>)
    BY DEF ViewInv, LinkTypes, Disconnected
<1>3. wire' = wire \/ (mode # "off" /\ wire' = Append(wire, Message(kind, answer)))
    BY DEF Deliver
<1> HIDE DEF OnWire, Message
<1>4. QED BY <1>1, <1>2, <1>3

LEMMA EmitTyped ==
    ASSUME LogInv, ViewInv, Emit
    PROVE  ViewInv'
<1> DEFINE e == [inc |-> inc, seq |-> eventSeq + 1, prev |-> cursor]
<1>1. /\ up /\ Step /\ eventSeq' = eventSeq + 1 /\ cursor' = eventSeq + 1
      /\ window' = Retained(Append(window, e))
      /\ Deliver(Message("event", [NoRestore EXCEPT !.events = <<e>>]))
      /\ kept' = kept \cup {e}
      /\ UNCHANGED <<up, degraded, failed, deleting, restore, page, shown, repeated>>
    BY DEF Emit, Unlocked, Staged
<1>2. /\ inc \in Nat /\ eventSeq \in Nat /\ cursor \in Nat /\ window \in Seq(Event)
    BY DEF LogInv, LogTypes
<1>3. e \in Event
    BY <1>2 DEF Event
<1> HIDE DEF e
<1>4. Len(window') <= Limit
    <2>1. PICK x : x = Append(window, e)
        OBVIOUS
    <2>2. x \in Seq(Event) /\ Len(x) \in Nat /\ Limit \in Nat
        BY <1>2, <1>3, <2>1, LimitAssumption
    <2>3. Len(Retained(x)) = IF Len(x) <= Limit THEN Len(x) ELSE Limit
        BY <2>2, RetainedIsEnd
    <2>4. QED BY <1>1, <2>1, <2>2, <2>3
<1>5. BoxTypes'
    <2>1. steps' \in 0..MaxSteps
        BY <1>1, BoundAssumption DEF ViewInv, BoxTypes, Step
    <2>2. cursor' <= eventSeq'
        BY <1>1, <1>2
    <2>3. QED BY <1>1, <1>3, <1>4, <2>1, <2>2 DEF ViewInv, BoxTypes
<1>6. wire' \in Seq(OnWire) /\ (mode = "off" => wire' = <<>>)
    <2>1. <<e>> \in Seq(Event)
        BY <1>3
    <2>2. [NoRestore EXCEPT !.events = <<e>>] \in Answers
        BY <2>1, NoRestoreTyped
    <2>3. QED BY <1>1, <1>2, <2>2, DeliverTyped
<1>7. PageTypes'
    BY <1>1 DEF ViewInv, PageTypes, page
<1>8. LinkTypes' /\ Disconnected'
    BY <1>1, <1>6 DEF ViewInv, LinkTypes, Disconnected, page
<1>9. QED BY <1>5, <1>7, <1>8 DEF ViewInv

LEMMA WriterTyped ==
    ASSUME LogInv, ViewInv, StartWrite \/ FinishWrite \/ FailWrite
    PROVE  ViewInv'
<1>1. /\ UNCHANGED <<runtime, deleting, restore, wire, page, ghosts>>
      /\ failed' = failed \/ failed' \subseteq Seqs(window)
      /\ UNCHANGED steps \/ Step
    BY DEF StartWrite, FinishWrite, FailWrite
<1>2. Seqs(window) \subseteq Nat
    <2>1. window \in Seq(Event)
        BY DEF LogInv, LogTypes
    <2>2. ToSet(window) \subseteq Event
        BY <2>1, ElementIn
    <2>3. QED BY <2>2 DEF Seqs, Event
<1>3. steps' \in 0..MaxSteps
    BY <1>1, BoundAssumption DEF ViewInv, BoxTypes, Step
<1>4. BoxTypes'
    BY <1>1, <1>2, <1>3 DEF ViewInv, BoxTypes, runtime, ghosts
<1>5. PageTypes' /\ LinkTypes' /\ Disconnected'
    BY <1>1 DEF ViewInv, PageTypes, LinkTypes, Disconnected, runtime, page, ghosts
<1>6. QED BY <1>4, <1>5 DEF ViewInv

LEMMA DeletionTyped ==
    ASSUME LogInv, ViewInv,
           BeginDelete \/ EndDelete \/ \E readable \in BOOLEAN : Inspect(readable)
    PROVE  ViewInv'
<1>1. /\ UNCHANGED <<up, eventSeq, cursor, failed, restore, wire, page, shown, repeated>>
      /\ UNCHANGED steps \/ Step
      /\ degraded' \in BOOLEAN
      /\ kept' \subseteq kept
    <2>1. CASE BeginDelete
        BY <2>1 DEF ViewInv, BoxTypes, BeginDelete, runtime, writer, ghosts
    <2>2. CASE EndDelete
        BY <2>2 DEF ViewInv, BoxTypes, EndDelete, Removed, Reread, Reads, writer
    <2>3. CASE \E readable \in BOOLEAN : Inspect(readable)
        BY <2>3 DEF Inspect, Reread, Reads, writer
    <2>4. QED BY <2>1, <2>2, <2>3
<1>2. window \in Seq(Event) /\ disk \in Seq(Event)
    BY DEF LogInv, LogTypes
<1>3. Len(window') <= Limit
    <2>1. CASE window' = window
        BY <2>1 DEF ViewInv, BoxTypes
    <2>2. CASE window' = Without(window, deleting)
        BY <1>2, <2>2, WithoutIsShorter, LimitAssumption DEF ViewInv, BoxTypes
    <2>3. window' = window \/ window' = Without(window, deleting)
        BY DEF BeginDelete, EndDelete, Removed, Inspect, runtime
    <2>4. QED BY <2>1, <2>2, <2>3
<1>4. deleting' \subseteq Nat \X Nat
    <2>1. \A e \in ToSet(window) \cup ToSet(disk) : Id(e) \in Nat \X Nat
        <3>1. ToSet(window) \subseteq Event /\ ToSet(disk) \subseteq Event
            BY <1>2, ElementIn
        <3>2. QED BY <3>1 DEF Event, Id
    <2>2. \/ deleting' = deleting \/ deleting' = {}
          \/ deleting' \subseteq {Id(e) : e \in ToSet(window) \cup ToSet(disk)}
        BY DEF BeginDelete, EndDelete, Inspect
    <2>3. QED BY <2>1, <2>2 DEF ViewInv, BoxTypes
<1>5. steps' \in 0..MaxSteps
    BY <1>1, BoundAssumption DEF ViewInv, BoxTypes, Step
<1>6. BoxTypes'
    BY <1>1, <1>3, <1>4, <1>5 DEF ViewInv, BoxTypes
<1>7. PageTypes' /\ LinkTypes' /\ Disconnected'
    BY <1>1 DEF ViewInv, PageTypes, LinkTypes, Disconnected, page
<1>8. QED BY <1>6, <1>7 DEF ViewInv

-----------------------------------------------------------------------------
(* The answer to a restore.                                                *)

LEMMA LinkedTyped ==
    ASSUME NEW missed \in Seq(Event), NEW last \in Nat
    PROVE  /\ Linked(missed, last).missed \in Seq(Event)
           /\ Linked(missed, last).gap \in BOOLEAN
<1> DEFINE before(i) == IF i = 1 THEN last ELSE missed[i - 1].seq
           anew == [i \in DOMAIN missed |-> [missed[i] EXCEPT !.prev = before(i)]]
<1>1. anew \in Seq(Event)
    <2>1. ASSUME NEW i \in 1..Len(missed)
          PROVE  [missed[i] EXCEPT !.prev = before(i)] \in Event
        <3>1. missed[i] \in Event
            OBVIOUS
        <3>2. before(i) \in Nat
            <4>1. CASE i = 1
                BY <4>1
            <4>2. CASE i # 1
                <5>1. i - 1 \in 1..Len(missed)
                    BY <4>2
                <5>2. missed[i - 1] \in Event
                    BY <5>1
                <5>3. missed[i - 1].seq \in Nat
                    BY <5>2 DEF Event
                <5>4. QED BY <4>2, <5>3
            <4>3. QED BY <4>1, <4>2
        <3> HIDE DEF before
        <3>3. QED BY <3>1, <3>2 DEF Event
    <2>2. DOMAIN missed = 1..Len(missed) /\ Len(missed) \in Nat
        OBVIOUS
    <2>3. anew = [i \in 1..Len(missed) |-> anew[i]] /\ \A i \in 1..Len(missed) : anew[i] \in Event
        <3> HIDE DEF before, Event
        <3>1. QED BY <2>1, <2>2
    <2> HIDE DEF anew
    <2>4. QED BY <2>2, <2>3
<1>2. Gap.missed \in Seq(Event) /\ Gap.gap \in BOOLEAN
    BY EmptySeq DEF Gap
<1>3. \/ Linked(missed, last) = [missed |-> anew, gap |-> FALSE]
      \/ Linked(missed, last) = Gap
    BY DEF Linked
<1>4. PICK x : x = anew
    OBVIOUS
<1>5. PICK l : l = Linked(missed, last)
    OBVIOUS
<1> HIDE DEF anew
<1>6. \/ l = [missed |-> x, gap |-> FALSE]
      \/ l = Gap
    BY <1>3, <1>4, <1>5
<1>7. l.missed \in Seq(Event) /\ l.gap \in BOOLEAN
    <2>1. CASE l = Gap
        BY <1>2, <2>1, Zenon
    <2>2. CASE l = [missed |-> x, gap |-> FALSE]
        <3>1. l.missed = x /\ l.gap = FALSE
            BY <2>2
        <3>2. x \in Seq(Event)
            BY <1>1, <1>4, Zenon
        <3>3. QED BY <3>1, <3>2, Zenon
    <2>3. QED BY <1>6, <2>1, <2>2
<1>8. QED BY <1>5, <1>7

LEMMA ReplayWindowTyped ==
    ASSUME window \in Seq(Event), NEW last \in Nat
    PROVE  /\ ReplayWindowAfter(last).missed \in Seq(Event)
           /\ ReplayWindowAfter(last).gap \in BOOLEAN
<1> DEFINE after == {i \in DOMAIN window : window[i].seq > last}
           missed == SubSeq(window, Min(after), Len(window))
<1>1. ASSUME after # {}
      PROVE  missed \in Seq(Event)
    <2>1. after \subseteq 1..Len(window) /\ after \subseteq Nat
        OBVIOUS
    <2> HIDE DEF after
    <2>2. PICK k \in after : \A j \in after : k <= j
        BY <1>1, <2>1, NatLeast
    <2>3. Min(after) \in after
        BY <2>2 DEF Min
    <2>4. PICK m \in 1..Len(window) : m = Min(after)
        BY <2>1, <2>3
    <2>5. SubSeq(window, m, Len(window)) \in Seq(Event)
        <3>1. \A i \in m..Len(window) : window[i] \in Event
            OBVIOUS
        <3> HIDE DEF Event
        <3>2. QED BY <3>1
    <2>6. QED BY <2>4, <2>5
<1>2. /\ NoReplay.missed \in Seq(Event) /\ NoReplay.gap \in BOOLEAN
      /\ Gap.missed \in Seq(Event) /\ Gap.gap \in BOOLEAN
    BY EmptySeq DEF NoReplay, Gap
<1>3. \/ ReplayWindowAfter(last) = NoReplay
      \/ ReplayWindowAfter(last) = Gap
      \/ after # {} /\ ReplayWindowAfter(last) = Linked(missed, last)
    BY DEF ReplayWindowAfter
<1> HIDE DEF after, missed
<1>4. QED BY <1>1, <1>2, <1>3, LinkedTyped

LEMMA AnswerTyped ==
    ASSUME LogInv, NEW last \in Nat
    PROVE  Answer(last) \in Answers
<1> DEFINE reset == last > cursor
           from == IF reset THEN cursor ELSE last
           gap == ReplayWindowAfter(from).gap \/ reset \/ degraded
           events == IF gap THEN <<>> ELSE ReplayWindowAfter(from).missed
<1>1. cursor \in Nat /\ window \in Seq(Event)
    BY DEF LogInv, LogTypes
<1>2. from \in Nat /\ reset \in BOOLEAN
    BY <1>1
<1>3. events \in Seq(Event)
    <2> HIDE DEF from
    <2>1. ReplayWindowAfter(from).missed \in Seq(Event)
        BY <1>1, <1>2, ReplayWindowTyped
    <2>2. QED BY <2>1, EmptySeq
<1>4. Answer(last) = [at |-> "found", last |-> from, current |-> cursor, reset |-> reset,
                      snapshot |-> gap \/ from = 0, events |-> events]
    BY DEF Answer
<1>5. (gap \/ from = 0) \in BOOLEAN
    OBVIOUS
<1> HIDE DEF reset, from, gap, events
<1>6. QED BY <1>1, <1>2, <1>3, <1>4, <1>5 DEF Answers

LEMMA RestoreTyped ==
    ASSUME LogInv, ViewInv, Look \/ SendRestored \/ SendReplay
    PROVE  ViewInv'
<1>1. /\ UNCHANGED <<up, degraded, cursor, window, failed, deleting, page, shown, repeated,
                     kept, steps>>
      /\ eventSeq' = eventSeq \/ eventSeq' = eventSeq + 1
    BY DEF Look, SendRestored, SendReplay, runtime, writer, ghosts
<1>2. eventSeq \in Nat /\ cursor \in Nat
    BY DEF LogInv, LogTypes
<1>3. restore \in Answers /\ restore # NoRestore /\ mode # "off"
    <2>1. restore.at # NoRestore.at
        BY DEF Look, SendRestored, SendReplay, NoRestore
    <2>2. QED BY <2>1 DEF ViewInv, LinkTypes, Disconnected
<1>4. restore' \in Answers
    <2>1. CASE Look
        <3>1. restore.last \in Nat
            BY <1>3 DEF Answers
        <3>2. QED BY <2>1, <3>1, AnswerTyped DEF Look
    <2>2. CASE SendRestored
        <3>1. [restore EXCEPT !.at = "sent"] \in Answers
            BY <1>3 DEF Answers
        <3>2. restore' = NoRestore \/ restore' = [restore EXCEPT !.at = "sent"]
            BY <2>2 DEF SendRestored, AfterRestored
        <3>3. QED BY <3>1, <3>2, NoRestoreTyped
    <2>3. CASE SendReplay
        BY <2>3, NoRestoreTyped DEF SendReplay
    <2>4. QED BY <2>1, <2>2, <2>3
<1>5. wire' \in Seq(OnWire)
    <2>1. CASE Look
        BY <2>1 DEF Look, ViewInv, LinkTypes
    <2>2. CASE SendRestored
        BY <1>2, <1>3, <2>2, DeliverTyped DEF SendRestored
    <2>3. CASE SendReplay
        BY <1>2, <1>3, <2>3, DeliverTyped DEF SendReplay
    <2>4. QED BY <2>1, <2>2, <2>3
<1>6. BoxTypes'
    BY <1>1, <1>2 DEF ViewInv, BoxTypes
<1>7. PageTypes'
    BY <1>1 DEF ViewInv, PageTypes, page
<1>8. LinkTypes' /\ Disconnected'
    BY <1>1, <1>3, <1>4, <1>5 DEF ViewInv, LinkTypes, Disconnected, page
<1>9. QED BY <1>6, <1>7, <1>8 DEF ViewInv

-----------------------------------------------------------------------------
(* What the renderer does with it.                                         *)

LEMMA HandlingTyped ==
    ASSUME ViewInv, NEW c \in Nat, NEW h \in SUBSET Nat, NEW s \in SUBSET (Nat \X Nat)
    PROVE  Handling(c, h, s) \in Progress
BY DEF ViewInv, PageTypes, Handling, Progress

\* After a batch the renderer is live, or has closed its connection.
LEMMA SettleTyped ==
    ASSUME ViewInv, wire # <<>>, NEW st \in Progress, Settle(st)
    PROVE  /\ cur' \in Nat /\ holes' \subseteq Nat /\ applied' \subseteq Nat \X Nat
           /\ shown' \subseteq Nat \X Nat /\ repeated' \in BOOLEAN
           /\ mode' \in {"live", "off"} /\ buffer' = <<>>
           /\ wire' \in Seq(OnWire) /\ restore' \in Answers
           /\ mode' = "off" => wire' = <<>> /\ restore' = NoRestore
<1>1. /\ st.cur \in Nat /\ st.holes \subseteq Nat /\ st.applied \subseteq Nat \X Nat
      /\ st.shown \subseteq Nat \X Nat /\ st.repeated \in BOOLEAN /\ st.ok \in BOOLEAN
    BY DEF Progress
<1>2. /\ cur' = st.cur /\ holes' = st.holes /\ applied' = st.applied
      /\ shown' = st.shown /\ repeated' = st.repeated /\ buffer' = <<>>
      /\ IF st.ok THEN mode' = "live" /\ wire' = Tail(wire) /\ restore' = restore
                  ELSE mode' = "off" /\ wire' = <<>> /\ restore' = NoRestore
    BY DEF Settle
<1>3. /\ wire \in Seq(OnWire) /\ Tail(wire) \in Seq(OnWire) /\ <<>> \in Seq(OnWire)
      /\ restore \in Answers
    <2>1. wire \in Seq(OnWire) /\ restore \in Answers
        BY DEF ViewInv, LinkTypes
    <2> HIDE DEF OnWire
    <2>2. QED BY <2>1, EmptySeq
<1>4. QED BY <1>1, <1>2, <1>3, NoRestoreTyped

LEMMA FirstOnWire ==
    ASSUME ViewInv, wire # <<>>
    PROVE  /\ Head(wire) \in OnWire /\ Tail(wire) \in Seq(OnWire)
           /\ Head(wire).answer \in Answers /\ Head(wire).answer.events \in Seq(Event)
           /\ Head(wire).answer.current \in Nat
<1>1. wire \in Seq(OnWire)
    BY DEF ViewInv, LinkTypes
<1>2. Head(wire) \in OnWire /\ Tail(wire) \in Seq(OnWire)
    <2> HIDE DEF OnWire
    <2>1. QED BY <1>1
<1>3. QED BY <1>2 DEF OnWire, Answers

LEMMA ReceiveTyped ==
    ASSUME LogInv, ViewInv, NEW bad, Receive(bad), steps' \in 0..MaxSteps
    PROVE  ViewInv'
<1>1. /\ mode # "off" /\ wire # <<>>
      /\ UNCHANGED <<runtime, writer, deleting, disk, asks, kept>>
    BY DEF Receive
<1>2. PICK m \in OnWire :
        /\ m = Head(wire) /\ Tail(wire) \in Seq(OnWire)
        /\ m.answer \in Answers /\ m.answer.events \in Seq(Event) /\ m.answer.current \in Nat
    BY <1>1, FirstOnWire
<1>3. /\ cur \in Nat /\ holes \subseteq Nat /\ applied \subseteq Nat \X Nat
      /\ shown \subseteq Nat \X Nat /\ buffer \in Seq(Event) /\ kept \subseteq Event
      /\ repeated \in BOOLEAN /\ mode \in {"off", "snapshot", "replay", "live"}
      /\ restore \in Answers /\ up
    BY <1>1 DEF ViewInv, BoxTypes, PageTypes, LinkTypes, Disconnected
<1> DEFINE Settled == \E st \in Progress : Settle(st)
           Waiting ==
               /\ mode' \in {"snapshot", "replay"} /\ wire' = Tail(wire)
               /\ buffer' \in Seq(Event)
               /\ UNCHANGED <<cur, holes, applied, restore, shown, repeated>>
<1>4. Settled \/ Waiting
    <2>1. CASE m.kind = "event" /\ mode = "live" /\ Take(m, bad)
        <3>1. Handled(Handling(cur, holes, shown), m.answer.events, bad) \in Progress
            BY <1>2, <1>3, HandlingTyped, HandledTyped
        <3>2. QED BY <2>1, <3>1 DEF Take
    <2>2. CASE m.kind = "event" /\ mode # "live" /\ bad = 0 /\ Buffer(m)
        <3>1. PICK b \in Seq(Event) : b = m.answer.events
            BY <1>2
        <3>2. buffer \o b \in Seq(Event)
            BY <1>3
        <3>3. QED BY <1>1, <1>2, <1>3, <2>2, <3>1, <3>2 DEF Buffer
    <2>3. CASE m.kind = "restored" /\ Restored(m, bad)
        <3> DEFINE a == m.answer
                   blind == BehindHole(holes, m.seq)
                   st == IF blind THEN Handling(cur, holes, shown)
                         ELSE Handling(SnapshotCursor(a), SnapshotHoles(a), shown \cup Shows(a))
        <3>1. CASE a.events # <<>>
            BY <1>3, <2>3, <3>1 DEF Restored
        <3>2. CASE a.events = <<>>
            <4>1. SnapshotCursor(a) \in Nat /\ SnapshotHoles(a) \subseteq Nat
                BY <1>2, <1>3 DEF SnapshotCursor, SnapshotHoles
            <4>2. shown \cup Shows(a) \subseteq Nat \X Nat
                BY <1>3 DEF Shows, Event, Id
            <4>3. st \in Progress
                BY <1>3, <4>1, <4>2, HandlingTyped
            <4>4. Settle(Handled(st, buffer, bad))
                BY <2>3, <3>2 DEF Restored
            <4> HIDE DEF st
            <4>5. Handled(st, buffer, bad) \in Progress
                BY <1>3, <4>3, HandledTyped
            <4>6. QED BY <4>4, <4>5
        <3>3. QED BY <3>1, <3>2
    <2>4. CASE m.kind = "replay" /\ Replayed(m, bad)
        <3> DEFINE missed == IF BehindHole(holes, m.seq) THEN <<>> ELSE m.answer.events
        <3>1. missed \in Seq(Event)
            BY <1>2, EmptySeq
        <3>2. Settle(Handled(Handling(cur, holes, shown), missed \o buffer, bad))
            BY <2>4 DEF Replayed
        <3> HIDE DEF missed
        <3>3. missed \o buffer \in Seq(Event)
            BY <1>3, <3>1
        <3>4. Handled(Handling(cur, holes, shown), missed \o buffer, bad) \in Progress
            BY <1>3, <3>3, HandlingTyped, HandledTyped
        <3>5. QED BY <3>2, <3>4
    <2>5. QED BY <1>2, <2>1, <2>2, <2>3, <2>4 DEF Receive
<1>5. BoxTypes'
    BY <1>1 DEF ViewInv, BoxTypes, runtime, writer
<1>6. PageTypes' /\ LinkTypes' /\ Disconnected'
    <2>1. CASE Settled
        <3>1. PICK st \in Progress : Settle(st)
            BY <2>1
        <3>2. /\ cur' \in Nat /\ holes' \subseteq Nat /\ applied' \subseteq Nat \X Nat
              /\ shown' \subseteq Nat \X Nat /\ repeated' \in BOOLEAN
              /\ mode' \in {"live", "off"} /\ buffer' = <<>>
              /\ wire' \in Seq(OnWire) /\ restore' \in Answers
              /\ mode' = "off" => wire' = <<>> /\ restore' = NoRestore
            BY <1>1, <3>1, SettleTyped
        <3>3. buffer' \in Seq(Event)
            BY <3>2, EmptySeq
        <3>4. QED BY <1>1, <1>3, <3>2, <3>3 DEF ViewInv, PageTypes, LinkTypes, Disconnected, runtime
    <2>2. CASE Waiting
        BY <1>1, <1>2, <1>3, <2>2 DEF ViewInv, PageTypes, LinkTypes, Disconnected, runtime
    <2>3. QED BY <1>4, <2>1, <2>2
<1>7. QED BY <1>5, <1>6 DEF ViewInv

-----------------------------------------------------------------------------
(* Connections, runtimes and pages.                                        *)

LEMMA BreakTyped ==
    ASSUME Break
    PROVE  LinkTypes' /\ buffer' \in Seq(Event) /\ mode' = "off" /\ Disconnected'
<1>1. mode' = "off" /\ wire' = <<>> /\ buffer' = <<>> /\ restore' = NoRestore
    BY DEF Break
<1>2. <<>> \in Seq(Event) /\ <<>> \in Seq(OnWire)
    BY EmptySeq
<1>3. QED BY <1>1, <1>2, NoRestoreTyped DEF LinkTypes, Disconnected

LEMMA JoinTyped ==
    ASSUME ViewInv, Join, up', UNCHANGED <<shown, repeated>>
    PROVE  PageTypes' /\ LinkTypes' /\ Disconnected'
<1>1. /\ asks' = TRUE /\ mode' \in {"snapshot", "live"}
      /\ restore' = Ask(cur) \/ restore' = NoRestore
      /\ UNCHANGED <<cur, holes, applied, buffer, wire>>
    BY DEF Join
<1>2. PageTypes'
    BY <1>1 DEF ViewInv, PageTypes
<1>3. LinkTypes'
    BY <1>1, NoRestoreTyped DEF ViewInv, PageTypes, LinkTypes
<1>4. Disconnected'
    BY <1>1 DEF Disconnected
<1>5. QED BY <1>2, <1>3, <1>4

LEMMA AttachTyped ==
    ASSUME LogInv, ViewInv, Attach
    PROVE  ViewInv'
<1>1. /\ up /\ Join /\ UNCHANGED <<runtime, writer, deleting, shown, repeated, kept, steps>>
    BY DEF Attach
<1>2. BoxTypes'
    BY <1>1 DEF ViewInv, BoxTypes, runtime, writer
<1>3. PageTypes' /\ LinkTypes' /\ Disconnected'
    BY <1>1, JoinTyped DEF runtime
<1>4. QED BY <1>2, <1>3 DEF ViewInv

LEMMA CreateTyped ==
    ASSUME LogInv, ViewInv, NEW readable \in BOOLEAN, Create(readable)
    PROVE  ViewInv'
<1> DEFINE loaded == IF readable THEN Retained(disk) ELSE <<>>
<1>1. /\ Join /\ Reads(readable) /\ up' /\ degraded' = ~readable
      /\ eventSeq' = Top(loaded) /\ cursor' = Top(loaded) /\ window' = loaded
      /\ UNCHANGED <<writer, deleting, shown, repeated, kept>>
    BY DEF Create
<1>2. loaded \in Seq(Event) /\ Len(loaded) <= Limit
    <2>1. disk \in Seq(Event) /\ Len(disk) \in Nat /\ Limit \in Nat
        BY LimitAssumption DEF LogInv, LogTypes
    <2>2. Retained(disk) \in Seq(Event) /\ Len(Retained(disk)) <= Limit
        BY <2>1, RetainedIsEnd
    <2>3. <<>> \in Seq(Event) /\ Len(<<>>) = 0
        BY EmptySeq
    <2>4. QED BY <2>1, <2>2, <2>3
<1>3. Top(loaded) \in Nat
    BY <1>2, TopTyped
<1> HIDE DEF loaded
<1>4. steps' \in 0..MaxSteps
    BY <1>1, BoundAssumption DEF ViewInv, BoxTypes, Reads, Step
<1>5. BoxTypes'
    BY <1>1, <1>2, <1>3, <1>4 DEF ViewInv, BoxTypes, writer
<1>6. PageTypes' /\ LinkTypes' /\ Disconnected'
    BY <1>1, JoinTyped
<1>7. QED BY <1>5, <1>6 DEF ViewInv

LEMMA BreaksTyped ==
    ASSUME LogInv, ViewInv, Disconnect \/ Crash \/ Reload
    PROVE  ViewInv'
<1>1. /\ Break /\ Step
      /\ cur' \in {cur, 0} /\ holes' \subseteq holes /\ applied' \subseteq applied
      /\ shown' \subseteq shown /\ kept' \subseteq kept
      /\ asks' \in BOOLEAN /\ repeated' = repeated
      /\ degraded' = degraded
    <2>1. CASE Disconnect
        BY <2>1 DEF ViewInv, PageTypes, Disconnect, runtime, ghosts
    <2>2. CASE Crash
        BY <2>2 DEF ViewInv, PageTypes, Crash
    <2>3. CASE Reload
        BY <2>3 DEF Reload, runtime
    <2>4. QED BY <2>1, <2>2, <2>3
<1>2. \/ UNCHANGED <<eventSeq, cursor, window, failed, deleting>>
      \/ eventSeq' = 0 /\ cursor' = 0 /\ window' = <<>> /\ failed' = {} /\ deleting' = {}
    BY DEF Disconnect, Crash, Reload, runtime, writer
<1>3. steps' \in 0..MaxSteps
    BY <1>1, BoundAssumption DEF ViewInv, BoxTypes, Step
<1>4. BoxTypes'
    <2>1. Len(<<>>) = 0 /\ 0 <= Limit
        BY EmptySeq, LimitAssumption
    <2>2. cursor' <= eventSeq' /\ Len(window') <= Limit
        BY <1>2, <2>1 DEF ViewInv, BoxTypes
    <2>3. QED BY <1>1, <1>2, <1>3, <2>2 DEF ViewInv, BoxTypes
<1>5. PageTypes'
    BY <1>1, BreakTyped DEF ViewInv, PageTypes
<1>6. QED BY <1>1, <1>4, <1>5, BreakTyped DEF ViewInv

LEMMA ViewInitial == Init => ViewInv
<1> SUFFICES ASSUME Init PROVE ViewInv
    OBVIOUS
<1>1. <<>> \in Seq(Event) /\ <<>> \in Seq(OnWire) /\ Len(<<>>) = 0 /\ 0 <= Limit
    BY EmptySeq, LimitAssumption
<1>2. BoxTypes
    <2>1. window = <<>> /\ Len(window) <= Limit
        BY <1>1, Zenon DEF Init
    <2>2. cursor <= eventSeq /\ steps \in 0..MaxSteps
        BY BoundAssumption DEF Init
    <2>3. QED BY <2>1, <2>2 DEF Init, BoxTypes
<1>3. PageTypes /\ LinkTypes /\ Disconnected
    BY <1>1, NoRestoreTyped DEF Init, PageTypes, LinkTypes, Disconnected
<1>4. QED BY <1>2, <1>3 DEF ViewInv

LEMMA ViewStep == LogInv /\ ViewInv /\ [Next]_vars => ViewInv'
<1> SUFFICES ASSUME LogInv, ViewInv, [Next]_vars PROVE ViewInv'
    OBVIOUS
<1>1. CASE Emit \/ StartWrite \/ FinishWrite \/ FailWrite
    BY <1>1, EmitTyped, WriterTyped
<1>2. CASE BeginDelete \/ EndDelete \/ \E readable \in BOOLEAN : Inspect(readable)
    BY <1>2, DeletionTyped
<1>3. CASE Look \/ SendRestored \/ SendReplay
    BY <1>3, RestoreTyped
<1>4. CASE Receive(0) /\ UNCHANGED steps
    BY <1>4, ReceiveTyped DEF ViewInv, BoxTypes
<1>5. CASE ReducerFails
    <2>1. PICK n : Receive(n)
        BY <1>5 DEF ReducerFails
    <2>2. steps' \in 0..MaxSteps
        BY <1>5, BoundAssumption DEF ReducerFails, ViewInv, BoxTypes, Step
    <2>3. QED BY <2>1, <2>2, ReceiveTyped
<1>6. CASE Attach \/ \E readable \in BOOLEAN : Create(readable)
    BY <1>6, AttachTyped, CreateTyped
<1>7. CASE Disconnect \/ Crash \/ Reload
    BY <1>7, BreaksTyped
<1>8. CASE UNCHANGED vars
    BY <1>8 DEF ViewInv, BoxTypes, PageTypes, LinkTypes, Disconnected, vars, runtime, writer,
                page, ghosts
<1>9. QED BY <1>1, <1>2, <1>3, <1>4, <1>5, <1>6, <1>7, <1>8 DEF Next

\* The types of the outbox and of the renderer; a runtime that has stopped
\* has no window, no queue and no connection, and a renderer that is not
\* connected has nothing on the wire, in its buffer or to be answered.
THEOREM TypeCorrect == Spec => []TypeOK
<1>1. LogInv /\ ViewInv => TypeOK
    <2> SUFFICES ASSUME LogInv, ViewInv PROVE TypeOK
        OBVIOUS
    <2>1. eventSeq \in Nat /\ cursor \in Nat /\ cursor <= eventSeq
        BY DEF LogInv, LogTypes, ViewInv, BoxTypes
    <2>2. cursor \in 0..eventSeq
        BY <2>1
    <2>3. QED BY <2>2 DEF LogInv, LogTypes, StoppedIsEmpty, ViewInv, BoxTypes, PageTypes,
                         Disconnected, TypeOK
<1>2. Spec => []ViewInv
    BY ViewInitial, ViewStep, LogIsKept, PTL DEF Spec
<1>3. QED BY <1>1, <1>2, LogIsKept, PTL

-----------------------------------------------------------------------------
(* The order in which events are numbered.                                 *)

Precedes(a, b) == a[1] < b[1] \/ (a[1] = b[1] /\ a[2] < b[2])
Older == {p \in Event \X Event : Precedes(Id(p[1]), Id(p[2]))}

LEMMA IdsAreOrdered ==
    ASSUME NEW a \in Nat \X Nat, NEW b \in Nat \X Nat, NEW c \in Nat \X Nat
    PROVE  /\ ~Precedes(a, a)
           /\ Precedes(a, b) => ~Precedes(b, a)
           /\ Precedes(a, b) /\ Precedes(b, c) => Precedes(a, c)
           /\ a = b \/ Precedes(a, b) \/ Precedes(b, a)
<1>1. a[1] \in Nat /\ a[2] \in Nat /\ b[1] \in Nat /\ b[2] \in Nat /\ c[1] \in Nat /\ c[2] \in Nat
    OBVIOUS
<1>2. a[1] = b[1] /\ a[2] = b[2] => a = b
    OBVIOUS
<1>3. QED BY <1>1, <1>2 DEF Precedes

LEMMA EventsAreOrdered ==
    ASSUME NEW x \in Event, NEW y \in Event
    PROVE  /\ x.inc \in Nat /\ x.seq \in Nat /\ x.prev \in Nat /\ Id(x) \in Nat \X Nat
           /\ Id(x)[1] = x.inc /\ Id(x)[2] = x.seq
           /\ Id(x) = Id(y) <=> x.inc = y.inc /\ x.seq = y.seq
           /\ Precedes(Id(x), Id(y)) <=> x.inc < y.inc \/ (x.inc = y.inc /\ x.seq < y.seq)
           /\ <<x, y>> \in Older <=> Precedes(Id(x), Id(y))
           /\ Id(x) = Id(y) \/ Precedes(Id(x), Id(y)) \/ Precedes(Id(y), Id(x))
           /\ Precedes(Id(x), Id(y)) => ~Precedes(Id(y), Id(x)) /\ Id(x) # Id(y)
<1>1. x.inc \in Nat /\ x.seq \in Nat /\ x.prev \in Nat /\ y.inc \in Nat /\ y.seq \in Nat
    BY DEF Event
<1>2. /\ Id(x) \in Nat \X Nat /\ Id(x)[1] = x.inc /\ Id(x)[2] = x.seq
      /\ Id(y) \in Nat \X Nat /\ Id(y)[1] = y.inc /\ Id(y)[2] = y.seq
    BY <1>1 DEF Id
<1>3. Id(x) = Id(y) <=> x.inc = y.inc /\ x.seq = y.seq
    BY DEF Id
<1>4. Precedes(Id(x), Id(y)) <=> x.inc < y.inc \/ (x.inc = y.inc /\ x.seq < y.seq)
    BY <1>2 DEF Precedes
<1>5. <<x, y>> \in Older <=> Precedes(Id(x), Id(y))
    BY DEF Older
<1>6. QED BY <1>1, <1>2, <1>3, <1>4, <1>5, IdsAreOrdered

LEMMA OlderIsOneWay == \A x, y \in Event : <<x, y>> \in Older => <<y, x>> \notin Older
<1> SUFFICES ASSUME NEW x \in Event, NEW y \in Event, <<x, y>> \in Older
             PROVE  <<y, x>> \notin Older
    OBVIOUS
<1>1. QED BY EventsAreOrdered

-----------------------------------------------------------------------------
(* How what is kept is numbered.                                           *)

\* Of two events the older one is counted on from.
CountedOn(x, y) == Precedes(Id(x), Id(y)) => x.seq <= y.prev

\* What is logged since the last log that could not be read: its numbers go on.
Young == {x \in Logged : x.inc >= origin}

\* Numbers are given out by one runtime after the other.
KeptNumbers ==
    /\ kept \subseteq Event /\ Logged \subseteq kept /\ (up => inc # 0)
    /\ \A k \in kept : k.inc \in 1..inc /\ k.prev < k.seq /\ (up /\ k.inc = inc => k.seq <= cursor)
    /\ \A k, l \in kept :
          /\ Id(k) = Id(l) => k = l
          /\ k.inc = l.inc => CountedOn(k, l)

\* They go on from those of the log.
YoungNumbers ==
    /\ origin \in Nat /\ origin <= inc
    /\ \A x, y \in Young : CountedOn(x, y)
    /\ \A x \in Young, k \in kept : k.inc = inc => CountedOn(x, k)
    /\ up => \A x \in Young \cup ToSet(window) : x.seq <= cursor

Numbered == KeptNumbers /\ YoungNumbers

\* Nothing that is kept is missing behind an event of L, as far as the
\* runtimes before this one go, and this one as far as L goes.
Closed(L) == \A x \in L, k \in kept : Precedes(Id(x), Id(k)) => k \in L
ClosedWithin(L) ==
    \A x \in L, k \in kept :
        /\ Precedes(Id(x), Id(k))
        /\ k.inc < inc \/ \E y \in L : y.inc = inc /\ k.seq <= y.seq
        => k \in L
Whole(s) == Sorted(s, Older) /\ Closed(ToSet(s))
WholeWithin(s) == Sorted(s, Older) /\ ClosedWithin(ToSet(s))

\* The window, the log, what is about to replace or to continue it, and what it
\* will be when nothing has failed.
Lasting ==
    /\ Whole(window) /\ WholeWithin(disk)
    /\ \A w \in ToSet(queue) \cup ToSet(write) : w.rewrite => WholeWithin(w.events)
    /\ write # <<>> /\ ~Head(write).rewrite => WholeWithin(disk \o Head(write).events)
    /\ failed = {} \/ RewritePending => Whole(Final)

\* Less is kept and less is logged.
LEMMA NumberedShrinks ==
    ASSUME LogInv, Numbered, kept' \subseteq kept, Logged' \subseteq Logged, Logged' \subseteq kept',
           ToSet(window') \subseteq ToSet(window), UNCHANGED <<inc, origin>>,
           up' => up /\ cursor' = cursor
    PROVE  Numbered'
<1>1. Young' \subseteq Young
    BY DEF Young
<1>2. KeptNumbers'
    BY DEF Numbered, KeptNumbers, CountedOn, Precedes, Id
<1>3. YoungNumbers'
    BY <1>1 DEF Numbered, YoungNumbers, CountedOn, Precedes, Id
<1>4. QED BY <1>2, <1>3 DEF Numbered

LEMMA WholeIsWithin ==
    ASSUME NEW s
    PROVE  Whole(s) => WholeWithin(s)
BY DEF Whole, WholeWithin, Closed, ClosedWithin

\* What is whole stays whole when less is kept.
LEMMA WholeStays ==
    ASSUME kept' \subseteq kept, inc' = inc, NEW s
    PROVE  /\ Whole(s) => Whole(s)'
           /\ WholeWithin(s) => WholeWithin(s)'
BY DEF Whole, WholeWithin, Closed, ClosedWithin, Sorted, Older, Precedes, Id, ToSet, Event

LogSide == Numbered /\ Lasting

LEMMA KeptTypes ==
    ASSUME LogInv, Numbered
    PROVE  /\ kept \subseteq Event /\ Logged \subseteq kept /\ inc \in Nat /\ cursor \in Nat
           /\ ToSet(disk) \subseteq Logged /\ ToSet(window) \subseteq Logged
           /\ ToSet(Final) \subseteq Logged /\ Final \in Seq(Event)
           /\ window \in Seq(Event) /\ disk \in Seq(Event)
           /\ \A w \in ToSet(queue) \cup ToSet(write) :
                 w \in Write /\ w.events \in Seq(Event) /\ ToSet(w.events) \subseteq Logged
           /\ write # <<>> => Head(write) \in ToSet(write)
<1>1. /\ kept \subseteq Event /\ Logged \subseteq kept /\ inc \in Nat /\ cursor \in Nat
      /\ window \in Seq(Event) /\ disk \in Seq(Event)
      /\ queue \in Seq(Write) /\ write \in Seq(Write)
    BY DEF Numbered, KeptNumbers, LogInv, LogTypes
<1>2. /\ ToSet(disk) \subseteq Logged /\ ToSet(window) \subseteq Logged
      /\ \A w \in ToSet(queue) \cup ToSet(write) : ToSet(w.events) \subseteq Logged
      /\ queue # <<>> => Head(queue) \in ToSet(queue)
      /\ write # <<>> => Head(write) \in ToSet(write)
    BY LoggedParts DEF LogInv
<1>3. \A w \in ToSet(queue) \cup ToSet(write) : w \in Write /\ w.events \in Seq(Event)
    <2>1. ToSet(queue) \subseteq Write /\ ToSet(write) \subseteq Write
        BY <1>1, ElementIn
    <2>2. \A w \in Write : w.events \in Seq(Event)
        BY DEF Write
    <2>3. QED BY <2>1, <2>2
<1>4. /\ Base \in Seq(Event) /\ Singles(queue) \in Seq(Write) /\ OneEach(Singles(queue))
      /\ Lines(Singles(queue)) \in Seq(Event)
      /\ ToSet(Lines(Singles(queue))) \subseteq UNION {ToSet(w.events) : w \in ToSet(Singles(queue))}
    BY QueueParts, LinesTyped DEF LogInv
<1>5. ToSet(Base) \subseteq Logged
    <2>1. write # <<>> => ToSet(disk \o Head(write).events) \subseteq Logged
        BY <1>1, <1>2, <1>3, JoinSet
    <2>2. QED BY <1>2, <2>1 DEF Base, Rewriting
<1>6. ToSet(Singles(queue)) \subseteq ToSet(queue)
    BY LoggedParts DEF LogInv, Singles, Rewriting
<1>7. Final \in Seq(Event) /\ ToSet(Final) \subseteq Logged
    <2>1. ToSet(Final) = ToSet(Base) \cup ToSet(Lines(Singles(queue)))
        BY <1>4, JoinSet DEF Final
    <2>2. Final \in Seq(Event)
        BY <1>4 DEF Final
    <2>3. QED BY <1>2, <1>4, <1>5, <1>6, <2>1, <2>2
<1>8. QED BY <1>1, <1>2, <1>3, <1>7

logSideVars == <<kept, inc, origin, up, cursor, window, queue, write, failed, disk>>

LEMMA LogSideQuiet ==
    ASSUME LogInv, LogSide, UNCHANGED logSideVars
    PROVE  LogSide'
<1> USE DEF logSideVars
<1>1. Logged' = Logged
    BY DEF Logged
<1>2. Numbered'
    BY <1>1, NumberedShrinks DEF LogSide, Numbered, KeptNumbers
<1>3. Final' = Final /\ (RewritePending' <=> RewritePending)
    BY DEF Final, Base, Lines, Singles, Rewriting, RewritePending
<1>4. Lasting'
    <2>1. \A s : (Whole(s) => Whole(s)') /\ (WholeWithin(s) => WholeWithin(s)')
        BY WholeStays
    <2>2. QED BY <1>3, <2>1 DEF LogSide, Lasting
<1>5. QED BY <1>2, <1>4 DEF LogSide

\* A step of the writer: less is logged, and what was whole is whole.
LEMMA LogSideWriter ==
    ASSUME LogInv, LogSide, StartWrite \/ FinishWrite \/ FailWrite
    PROVE  LogSide'
<1>1. /\ up /\ UNCHANGED <<kept, inc, origin, up, cursor, window>>
      /\ (FinishWrite \/ FailWrite => write' = <<>> /\ write # <<>> /\ queue' = queue)
    BY DEF StartWrite, FinishWrite, FailWrite, runtime, ghosts
<1>2. Logged' \subseteq Logged
    BY StartWriteKeeps, FinishWriteKeeps, FailWriteKeeps
<1>3. Numbered'
    BY <1>1, <1>2, NumberedShrinks DEF LogSide, Numbered, KeptNumbers
<1>4. \A s : (Whole(s) => Whole(s)') /\ (WholeWithin(s) => WholeWithin(s)')
               /\ (Whole(s) => WholeWithin(s))
    BY <1>1, WholeStays, WholeIsWithin
<1>5. /\ Whole(window) /\ WholeWithin(disk)
      /\ \A w \in ToSet(queue) \cup ToSet(write) : w.rewrite => WholeWithin(w.events)
      /\ write # <<>> /\ ~Head(write).rewrite => WholeWithin(disk \o Head(write).events)
      /\ failed = {} \/ RewritePending => Whole(Final)
      /\ write # <<>> => Head(write) \in ToSet(write)
    BY KeptTypes DEF LogSide, Lasting
<1>6. CASE StartWrite
    <2>1. failed' = failed /\ disk' = disk
        BY <1>6 DEF StartWrite
    <2>2. PICK w \in Write :
              /\ write' = <<w>> /\ ToSet(queue') \subseteq ToSet(queue)
              /\ \/ w.rewrite /\ w \in ToSet(queue) /\ RewritePending /\ Final' = Final
                 \/ w.rewrite /\ w.events = window /\ Final' = window
                 \/ ~w.rewrite /\ failed = {} /\ Final' = Final /\ disk \o w.events = Final
        BY <1>6, StartWriteKeeps DEF WriteStarted
    <2>3. write' # <<>> /\ Head(write') = w /\ ToSet(write') = {w}
        BY <2>2, OneWrite
    <2>4. w.rewrite => WholeWithin(w.events)
        BY <1>4, <1>5, <2>2
    <2>5. ~w.rewrite => WholeWithin(disk \o w.events)
        BY <1>4, <1>5, <2>2
    <2>6. (failed = {} \/ RewritePending)' => Whole(Final')
        BY <1>5, <2>1, <2>2
    <2>7. Lasting'
        BY <1>1, <1>4, <1>5, <2>1, <2>2, <2>3, <2>4, <2>5, <2>6 DEF Lasting
    <2>8. QED BY <1>3, <2>7 DEF LogSide
<1>7. CASE FinishWrite \/ FailWrite
    <2>1. ToSet(write') = {} /\ write' = <<>>
        BY <1>1, <1>7 DEF ToSet
    <2>2. \A w \in ToSet(queue') \cup ToSet(write') : w.rewrite => WholeWithin(w.events)
        BY <1>1, <1>5, <1>7, <2>1
    <2>3. WholeWithin(disk')
        <3>1. \/ disk' = disk
              \/ Head(write).rewrite /\ disk' = Head(write).events
              \/ ~Head(write).rewrite /\ disk' = disk \o Head(write).events
            BY <1>7 DEF FinishWrite, FailWrite
        <3>2. QED BY <1>1, <1>5, <1>7, <3>1
    <2>4. (failed = {} \/ RewritePending)' => Whole(Final')
        BY <1>5, <1>7, FinishWriteKeeps, FailWriteKeeps
    <2>5. Lasting'
        BY <1>1, <1>4, <1>5, <2>1, <2>2, <2>3, <2>4 DEF Lasting
    <2>6. QED BY <1>3, <2>5 DEF LogSide
<1>8. QED BY <1>6, <1>7

\* An end of what is in order is in order, and has all that comes after any of
\* its events.
LEMMA EndInOrder ==
    ASSUME NEW s \in Seq(Event), NEW t \in Seq(Event), Ends(s, t), Sorted(t, Older)
    PROVE  /\ Sorted(s, Older)
           /\ \A x \in ToSet(s), k \in ToSet(t) : Precedes(Id(x), Id(k)) => k \in ToSet(s)
<1> DEFINE d == Len(t) - Len(s)
<1>1. /\ DOMAIN s = 1..Len(s) /\ DOMAIN t = 1..Len(t) /\ Len(s) \in Nat /\ Len(t) \in Nat
      /\ d \in Nat
    BY DEF Ends
<1>2. \A i \in 1..Len(s) : d + i \in 1..Len(t) /\ s[i] = t[d + i]
    BY <1>1 DEF Ends
<1>3. Sorted(s, Older)
    <2> SUFFICES ASSUME NEW i \in DOMAIN s, NEW j \in DOMAIN s, i < j
                 PROVE  <<s[i], s[j]>> \in Older
        BY DEF Sorted
    <2>1. i \in 1..Len(s) /\ j \in 1..Len(s) /\ d + i < d + j
        BY <1>1
    <2>2. QED BY <1>1, <1>2, <2>1 DEF Sorted
<1>4. ASSUME NEW x \in ToSet(s), NEW k \in ToSet(t), Precedes(Id(x), Id(k)) PROVE k \in ToSet(s)
    <2>1. PICK i \in 1..Len(s) : x = s[i]
        BY <1>1 DEF ToSet
    <2>2. PICK j \in 1..Len(t) : k = t[j]
        BY <1>1 DEF ToSet
    <2>3. x \in Event /\ k \in Event
        BY <2>1, <2>2
    <2>4. j > d
        <3>1. SUFFICES ASSUME j <= d PROVE FALSE
            BY <1>1
        <3>2. j < d + i
            BY <1>1, <3>1
        <3>3. <<k, x>> \in Older
            BY <1>1, <1>2, <2>1, <2>2, <3>2 DEF Sorted
        <3>4. QED BY <1>4, <2>3, <3>3, EventsAreOrdered
    <2>5. j - d \in 1..Len(s) /\ d + (j - d) = j
        BY <1>1, <2>4
    <2>6. s[j - d] = k
        BY <1>2, <2>2, <2>5
    <2>7. QED BY <1>1, <2>5, <2>6 DEF ToSet
<1>5. QED BY <1>3, <1>4

LEMMA WholeEnd ==
    ASSUME NEW s \in Seq(Event), NEW t \in Seq(Event), Ends(s, t)
    PROVE  Whole(t)' => Whole(s)'
<1> SUFFICES ASSUME Whole(t)' PROVE Whole(s)'
    OBVIOUS
<1>1. Sorted(t, Older) /\ \A x \in ToSet(t), k \in kept' : Precedes(Id(x), Id(k)) => k \in ToSet(t)
    BY DEF Whole, Closed
<1>2. ToSet(s) \subseteq ToSet(t)
    BY EndSet
<1>3. /\ Sorted(s, Older)
      /\ \A x \in ToSet(s), k \in ToSet(t) : Precedes(Id(x), Id(k)) => k \in ToSet(s)
    BY <1>1, EndInOrder
<1>4. QED BY <1>1, <1>2, <1>3 DEF Whole, Closed

\* A new event comes after all that is kept.
Newest(e) == e \in Event /\ e.inc = inc /\ \A k \in kept : Precedes(Id(k), Id(e))

LEMMA WholeGrows ==
    ASSUME kept \subseteq Event, NEW e, Newest(e), kept' = kept \cup {e}, inc' = inc,
           NEW s \in Seq(Event), ToSet(s) \subseteq kept
    PROVE  /\ Whole(s) => Whole(Append(s, e))'
           /\ WholeWithin(s) => WholeWithin(s)'
<1>1. /\ e \in Event /\ e.inc = inc
      /\ \A k \in kept : k \in Event /\ Precedes(Id(k), Id(e)) /\ ~Precedes(Id(e), Id(k))
    BY EventsAreOrdered DEF Newest
<1>2. ~Precedes(Id(e), Id(e))
    BY <1>1, EventsAreOrdered
<1>3. ASSUME Whole(s) PROVE Whole(Append(s, e))'
    <2>1. ToSet(Append(s, e)) = ToSet(s) \cup {e}
        BY <1>1, AppendSet
    <2>2. \A x \in ToSet(s) : <<x, e>> \in Older
        BY <1>1, EventsAreOrdered
    <2>3. Sorted(Append(s, e), Older)
        BY <1>1, <1>3, <2>2, SortedAppend DEF Whole
    <2>4. Closed(ToSet(Append(s, e)))'
        BY <1>1, <1>2, <1>3, <2>1 DEF Whole, Closed
    <2>5. QED BY <2>3, <2>4 DEF Whole
<1>4. ASSUME WholeWithin(s) PROVE WholeWithin(s)'
    <2>1. ASSUME NEW x \in ToSet(s), NEW k \in kept', Precedes(Id(x), Id(k)),
                 k.inc < inc \/ \E y \in ToSet(s) : y.inc = inc /\ k.seq <= y.seq
          PROVE  k \in ToSet(s)
        <3>1. CASE k \in kept
            BY <1>4, <2>1, <3>1 DEF WholeWithin, ClosedWithin
        <3>2. CASE k = e
            <4>1. inc \in Nat
                BY <1>1 DEF Event
            <4>2. PICK y \in ToSet(s) : y.inc = inc /\ e.seq <= y.seq
                BY <1>1, <2>1, <3>2, <4>1
            <4>3. y \in Event /\ Precedes(Id(y), Id(e))
                BY <1>1
            <4>4. y.seq < e.seq /\ y.seq \in Nat /\ e.seq \in Nat
                <5>1. y.inc < e.inc \/ (y.inc = e.inc /\ y.seq < e.seq)
                    BY <1>1, <4>3, EventsAreOrdered
                <5>2. y.seq \in Nat /\ e.seq \in Nat /\ y.inc = e.inc
                    BY <1>1, <4>2, <4>3 DEF Event
                <5>3. QED BY <1>1, <4>1, <4>2, <5>1, <5>2
            <4>5. QED BY <4>2, <4>4
        <3>3. QED BY <2>1, <3>1, <3>2
    <2>2. ClosedWithin(ToSet(s))'
        BY <2>1 DEF ClosedWithin
    <2>3. QED BY <1>4, <2>2 DEF WholeWithin
<1>5. QED BY <1>3, <1>4

LEMMA LogSideEmit ==
    ASSUME LogInv, ViewInv, LogSide, Emit
    PROVE  LogSide' /\ \E e : Newest(e) /\ e = [inc |-> inc, seq |-> eventSeq + 1, prev |-> cursor]
<1>1. PICK e : e = [inc |-> inc, seq |-> eventSeq + 1, prev |-> cursor]
    OBVIOUS
<1>2. /\ up /\ cursor' = eventSeq + 1 /\ eventSeq' = eventSeq + 1 /\ kept' = kept \cup {e}
      /\ UNCHANGED <<inc, up, origin, write, failed, disk>>
    BY <1>1 DEF Emit, Unlocked, Staged
<1>3. /\ window' = Retained(Append(window, e)) /\ Logged' \subseteq Logged \cup {e}
      /\ \/ Final' = window' /\ \A w \in ToSet(queue') : w.events = window'
         \/ /\ Final' = Append(Final, e) /\ (RewritePending' <=> RewritePending)
            /\ \A w \in ToSet(queue') : w.rewrite => w \in ToSet(queue)
    BY <1>1, EmitKeeps DEF EventEmitted
<1>4. /\ kept \subseteq Event /\ Logged \subseteq kept /\ inc \in Nat /\ cursor \in Nat
      /\ ToSet(disk) \subseteq Logged /\ ToSet(window) \subseteq Logged
      /\ ToSet(Final) \subseteq Logged /\ Final \in Seq(Event)
      /\ window \in Seq(Event) /\ disk \in Seq(Event)
      /\ \A w \in ToSet(queue) \cup ToSet(write) :
            w \in Write /\ w.events \in Seq(Event) /\ ToSet(w.events) \subseteq Logged
      /\ write # <<>> => Head(write) \in ToSet(write)
    BY KeptTypes DEF LogSide
<1>5. eventSeq \in Nat /\ cursor <= eventSeq
    BY DEF LogInv, LogTypes, ViewInv, BoxTypes
<1>6. e \in Event /\ e.inc = inc /\ e.seq = eventSeq + 1 /\ e.prev = cursor
    BY <1>1, <1>4, <1>5 DEF Event
<1>7. ASSUME NEW k \in kept PROVE k \in Event /\ Precedes(Id(k), Id(e)) /\ k.inc <= inc
    <2>1. k \in Event /\ k.inc \in 1..inc /\ (k.inc = inc => k.seq <= cursor) /\ k.seq \in Nat
        BY <1>2, <1>4 DEF LogSide, Numbered, KeptNumbers, Event
    <2>2. k.inc < e.inc \/ (k.inc = e.inc /\ k.seq < e.seq)
        BY <1>4, <1>5, <1>6, <2>1
    <2>3. e \in Event
        BY <1>6
    <2>4. Precedes(Id(k), Id(e))
        BY <2>1, <2>2, <2>3, EventsAreOrdered
    <2>5. k.inc <= inc
        BY <1>4, <2>1
    <2>6. QED BY <2>1, <2>4, <2>5
<1>8. Newest(e)
    BY <1>6, <1>7 DEF Newest
<1>9. /\ window' \in Seq(Event) /\ Append(window, e) \in Seq(Event)
      /\ Ends(window', Append(window, e)) /\ ToSet(window') \subseteq ToSet(window) \cup {e}
    BY <1>3, <1>6, EmitWindow DEF LogInv
<1>10. Numbered'
    <2>1. KeptNumbers'
        <3>1. kept' \subseteq Event /\ Logged' \subseteq kept'
            BY <1>2, <1>3, <1>4, <1>6
        <3>2. ASSUME NEW k \in kept'
              PROVE  k.inc \in 1..inc' /\ k.prev < k.seq /\ (k.inc = inc' => k.seq <= cursor')
            <4>1. CASE k \in kept
                <5>1. k.inc \in 1..inc /\ k.prev < k.seq /\ (k.inc = inc => k.seq <= cursor)
                    BY <1>2, <4>1 DEF LogSide, Numbered, KeptNumbers
                <5>2. k.seq \in Nat
                    BY <1>4, <4>1 DEF Event
                <5>3. QED BY <1>2, <1>4, <1>5, <5>1, <5>2
            <4>2. CASE k = e
                <5>1. inc # 0
                    BY <1>2 DEF LogSide, Numbered, KeptNumbers
                <5>2. QED BY <1>2, <1>4, <1>5, <1>6, <4>2, <5>1
            <4>3. QED BY <1>2, <4>1, <4>2
        <3>3. ASSUME NEW k \in kept', NEW l \in kept'
              PROVE  /\ Id(k) = Id(l) => k = l
                     /\ k.inc = l.inc => CountedOn(k, l)
            <4>1. CASE k \in kept /\ l \in kept
                BY <4>1 DEF LogSide, Numbered, KeptNumbers
            <4>2. CASE k \in kept /\ l = e
                <5>1. k.inc = inc => k.seq <= cursor
                    BY <1>2, <4>2 DEF LogSide, Numbered, KeptNumbers
                <5>2. Id(k) # Id(e)
                    BY <1>6, <1>7, <4>2, EventsAreOrdered
                <5>3. QED BY <1>6, <4>2, <5>1, <5>2 DEF CountedOn
            <4>3. CASE k = e /\ l \in kept
                <5>1. ~Precedes(Id(e), Id(l)) /\ Id(l) # Id(e)
                    BY <1>6, <1>7, <4>3, EventsAreOrdered
                <5>2. QED BY <4>3, <5>1 DEF CountedOn
            <4>4. CASE k = e /\ l = e
                <5>1. ~Precedes(Id(e), Id(e))
                    BY <1>6, EventsAreOrdered
                <5>2. QED BY <4>4, <5>1 DEF CountedOn
            <4>5. QED BY <1>2, <4>1, <4>2, <4>3, <4>4
        <3>4. up' => inc' # 0
            BY <1>2 DEF LogSide, Numbered, KeptNumbers
        <3>5. QED BY <3>1, <3>2, <3>3, <3>4 DEF KeptNumbers, CountedOn, Precedes, Id
    <2>2. YoungNumbers'
        <3>1. Young' \subseteq Young \cup {e} /\ Young \subseteq kept
            BY <1>2, <1>3, <1>4 DEF Young
        <3>2. /\ origin \in Nat /\ origin <= inc
              /\ \A x, y \in Young : CountedOn(x, y)
              /\ \A x \in Young, k \in kept : k.inc = inc => CountedOn(x, k)
              /\ \A x \in Young \cup ToSet(window) : x.seq <= cursor
            BY <1>2 DEF LogSide, Numbered, YoungNumbers
        <3>3. \A x \in Young : CountedOn(x, e) /\ CountedOn(e, x)
            BY <1>6, <1>7, <3>1, <3>2, EventsAreOrdered DEF CountedOn
        <3>4. CountedOn(e, e) /\ \A k \in kept : CountedOn(e, k)
            BY <1>6, <1>7, EventsAreOrdered DEF CountedOn
        <3>5. ASSUME NEW x \in Young' \cup ToSet(window') PROVE x.seq <= cursor'
            <4>1. CASE x = e
                BY <1>2, <1>5, <1>6, <4>1
            <4>2. CASE x \in Young \cup ToSet(window)
                <5>1. x.seq <= cursor /\ x.seq \in Nat
                    BY <1>4, <3>1, <3>2, <4>2 DEF Event
                <5>2. QED BY <1>2, <1>4, <1>5, <5>1
            <4>3. QED BY <1>9, <3>1, <4>1, <4>2
        <3>6. \A x, y \in Young' : CountedOn(x, y)
            BY <3>1, <3>2, <3>3, <3>4
        <3>7. \A x \in Young', k \in kept' : k.inc = inc => CountedOn(x, k)
            BY <1>2, <3>1, <3>2, <3>3, <3>4
        <3>8. QED BY <1>2, <3>2, <3>5, <3>6, <3>7 DEF YoungNumbers, CountedOn, Precedes, Id
    <2>3. QED BY <2>1, <2>2 DEF Numbered
<1>11. Lasting'
    <2>1. \A s \in Seq(Event) : ToSet(s) \subseteq kept =>
              /\ Whole(s) => Whole(Append(s, e))'
              /\ WholeWithin(s) => WholeWithin(s)'
        BY <1>2, <1>4, <1>8, WholeGrows
    <2>2. Whole(window)'
        <3>1. PICK s : s = window'
            OBVIOUS
        <3>2. PICK t : t = Append(window, e)
            OBVIOUS
        <3>3. PICK u : u = window
            OBVIOUS
        <3>4. Whole(u)
            BY <3>3 DEF LogSide, Lasting
        <3>5. Whole(Append(u, e))'
            BY <1>4, <2>1, <3>3, <3>4
        <3>6. Whole(t)'
            BY <3>2, <3>3, <3>5
        <3>7. s \in Seq(Event) /\ t \in Seq(Event) /\ Ends(s, t)
            BY <1>9, <3>1, <3>2
        <3>8. Whole(s)'
            BY <3>6, <3>7, WholeEnd
        <3>9. QED BY <3>1, <3>8 DEF Whole
    <2>3. WholeWithin(disk)'
        BY <1>2, <1>4, <2>1 DEF LogSide, Lasting
    <2>4. ASSUME NEW w \in ToSet(queue') \cup ToSet(write'), w.rewrite PROVE WholeWithin(w.events)'
        <3>1. CASE w \in ToSet(queue) \cup ToSet(write)
            BY <1>4, <2>1, <2>4, <3>1 DEF LogSide, Lasting
        <3>2. CASE w \notin ToSet(queue) \cup ToSet(write)
            <4>1. w.events = window'
                BY <1>2, <1>3, <2>4, <3>2
            <4>2. WholeWithin(window)'
                BY <2>2 DEF Whole, WholeWithin, Closed, ClosedWithin
            <4>3. QED BY <4>1, <4>2 DEF WholeWithin
        <3>3. QED BY <3>1, <3>2
    <2>5. write' # <<>> /\ ~Head(write').rewrite => WholeWithin(disk \o Head(write).events)'
        <3>1. SUFFICES ASSUME write # <<>>, ~Head(write).rewrite
                       PROVE  WholeWithin(disk \o Head(write).events)'
            BY <1>2
        <3>2. PICK s : s = disk \o Head(write).events
            OBVIOUS
        <3>3. s \in Seq(Event) /\ ToSet(s) \subseteq kept
            BY <1>4, <3>1, <3>2, JoinSet
        <3>4. WholeWithin(s)
            BY <3>1, <3>2 DEF LogSide, Lasting
        <3>5. WholeWithin(s)'
            BY <2>1, <3>3, <3>4
        <3>6. s = disk' \o Head(write').events
            BY <1>2, <3>2
        <3>7. QED BY <3>5, <3>6 DEF WholeWithin
    <2>6. (failed = {} \/ RewritePending)' => Whole(Final)'
        <3>1. CASE Final' = window'
            BY <2>2, <3>1 DEF Whole
        <3>2. CASE Final' = Append(Final, e) /\ (RewritePending' <=> RewritePending)
            <4>1. PICK s : s = Final
                OBVIOUS
            <4>2. Whole(s) => Whole(Append(s, e))'
                BY <1>4, <2>1, <4>1
            <4>3. failed = {} \/ RewritePending => Whole(s)
                BY <4>1 DEF LogSide, Lasting
            <4>4. Append(s, e) = Final'
                BY <3>2, <4>1
            <4>5. (failed = {} \/ RewritePending)' => Whole(Append(s, e))'
                BY <1>2, <3>2, <4>2, <4>3
            <4>6. QED BY <4>4, <4>5 DEF Whole
        <3>3. QED BY <1>3, <3>1, <3>2
    <2>7. QED BY <2>2, <2>3, <2>4, <2>5, <2>6 DEF Lasting
<1>12. QED BY <1>1, <1>8, <1>10, <1>11 DEF LogSide

LEMMA WholeWithout ==
    ASSUME NEW s \in Seq(Event), NEW ids, inc' = inc, kept' = {k \in kept : Id(k) \notin ids}
    PROVE  /\ Whole(s) => Whole(Without(s, ids))'
           /\ WholeWithin(s) => WholeWithin(Without(s, ids))'
<1>1. PICK t : t = Without(s, ids)
    OBVIOUS
<1>2. ToSet(t) = {e \in ToSet(s) : Id(e) \notin ids} /\ (Sorted(s, Older) => Sorted(t, Older))
    BY <1>1, WithoutKeepsTheOthers
<1>3. Whole(s) => Whole(t)'
    BY <1>2 DEF Whole, Closed
<1>4. WholeWithin(s) => WholeWithin(t)'
    BY <1>2 DEF WholeWithin, ClosedWithin
<1>5. QED BY <1>1, <1>3, <1>4

LEMMA LogSideEndDelete ==
    ASSUME LogInv, LogSide, EndDelete
    PROVE  LogSide'
<1>1. /\ up /\ Drained
      /\ UNCHANGED <<inc, up, cursor, queue, write, failed, origin>>
      /\ \/ UNCHANGED <<window, disk, kept>>
         \/ /\ window' = Without(window, deleting) /\ disk' = Without(disk, deleting)
            /\ kept' = {k \in kept : Id(k) \notin deleting}
    BY DEF EndDelete, Removed, writer
<1>2. CASE UNCHANGED <<window, disk, kept>>
    <2>1. UNCHANGED logSideVars
        BY <1>1, <1>2 DEF logSideVars
    <2>2. QED BY <2>1, LogSideQuiet
<1>3. CASE /\ window' = Without(window, deleting) /\ disk' = Without(disk, deleting)
           /\ kept' = {k \in kept : Id(k) \notin deleting}
    <2>1. /\ window \in Seq(Event) /\ disk \in Seq(Event) /\ kept \subseteq Event
          /\ Logged \subseteq kept
        BY KeptTypes DEF LogSide
    <2>2. ToSet(window') \subseteq ToSet(window)
        BY <1>3, <2>1, WithoutKeepsTheOthers
    <2>3. Logged' \subseteq kept'
        <3>1. ToSet(queue') = {} /\ ToSet(write') = {}
            BY <1>1 DEF Drained, ToSet
        <3>2. \A x \in Logged' : x \in ToSet(disk') \cup ToSet(window')
            BY <3>1 DEF Logged
        <3>3. /\ ToSet(window') = {e \in ToSet(window) : Id(e) \notin deleting}
              /\ ToSet(disk') = {e \in ToSet(disk) : Id(e) \notin deleting}
            BY <1>3, <2>1, WithoutKeepsTheOthers
        <3>4. QED BY <1>3, <2>1, <3>2, <3>3, LoggedParts DEF LogInv
    <2>4. Numbered'
        BY <1>1, <1>3, <2>2, <2>3, EndDeleteKeeps, NumberedShrinks DEF LogSide
    <2>5. /\ Final = disk /\ ~RewritePending /\ Whole(window) /\ WholeWithin(disk)
          /\ failed = {} => Whole(Final)
        BY <1>1, AtRest DEF LogInv, LogSide, Lasting
    <2>6. (Final = disk /\ ~RewritePending)'
        <3>1. (Drained /\ LogTypes => Final = disk /\ ~RewritePending)'
            BY AtRest, PTL
        <3>2. Drained' /\ LogTypes'
            BY <1>1, EndDeleteKeeps DEF Drained, LogInv
        <3>3. QED BY <3>1, <3>2
    <2>7. PICK s, t : s = window /\ t = disk
        OBVIOUS
    <2>8. Whole(s) /\ WholeWithin(t) /\ (failed = {} => Whole(t))
        BY <2>5, <2>7 DEF Whole
    <2>9. PICK u, v : u = window' /\ v = disk'
        OBVIOUS
    <2>10. u = Without(s, deleting) /\ v = Without(t, deleting)
        BY <1>3, <2>7, <2>9
    <2>11. Whole(u)' /\ WholeWithin(v)' /\ (failed = {} => Whole(v)')
        BY <1>1, <1>3, <2>1, <2>7, <2>8, <2>10, WholeWithout
    <2>12. Lasting'
        <3>1. ToSet(queue') = {} /\ ToSet(write') = {} /\ write' = <<>>
            BY <1>1 DEF Drained, ToSet
        <3>2. Whole(window)' /\ WholeWithin(disk)'
            BY <2>9, <2>11 DEF Whole, WholeWithin
        <3>3. (failed = {} \/ RewritePending)' => Whole(Final)'
            BY <1>1, <2>6, <2>9, <2>11 DEF Whole
        <3>4. QED BY <3>1, <3>2, <3>3 DEF Lasting
    <2>13. QED BY <2>4, <2>12 DEF LogSide
<1>4. QED BY <1>1, <1>2, <1>3

-----------------------------------------------------------------------------
(* A new runtime.                                                          *)

\* The last line of the log is in the window that is read from it.
LEMMA RetainedLast ==
    ASSUME NEW s \in Seq(Event), Sorted(s, Older), s # <<>>
    PROVE  \E l \in ToSet(Retained(s)) :
               /\ l \in ToSet(s) /\ l.seq <= Top(Retained(s))
               /\ \A x \in ToSet(s) : x = l \/ Precedes(Id(x), Id(l))
<1>1. PICK r : r = Retained(s)
    OBVIOUS
<1>2. /\ r \in Seq(Event) /\ Ends(r, s) /\ ToSet(r) \subseteq ToSet(s)
      /\ Len(r) = IF Len(s) <= Limit THEN Len(s) ELSE Limit
    BY <1>1, RetainedIsEnd
<1>3. Len(s) \in Nat /\ Len(s) >= 1 /\ DOMAIN s = 1..Len(s) /\ DOMAIN r = 1..Len(r)
      /\ Limit \in Nat /\ Limit >= 1
    BY <1>2, EmptySeq, LimitAssumption
<1>4. Len(r) \in 1..Len(r) /\ Len(s) \in 1..Len(s)
    BY <1>2, <1>3
<1>5. r[Len(r)] = s[Len(s)]
    <2>1. Len(s) - Len(r) + Len(r) = Len(s)
        BY <1>2, <1>3
    <2>2. r[Len(r)] = s[Len(s) - Len(r) + Len(r)]
        BY <1>2, <1>4 DEF Ends
    <2>3. QED BY <2>1, <2>2
<1>6. PICK l : l = r[Len(r)]
    OBVIOUS
<1>7. l \in ToSet(r) /\ l \in ToSet(s)
    BY <1>2, <1>3, <1>4, <1>6 DEF ToSet
<1>8. l.seq <= Top(r)
    BY <1>2, <1>7, TopTyped
<1>9. ASSUME NEW x \in ToSet(s) PROVE x = l \/ Precedes(Id(x), Id(l))
    <2>1. PICK i \in 1..Len(s) : x = s[i]
        BY <1>3 DEF ToSet
    <2>2. CASE i = Len(s)
        BY <1>5, <1>6, <2>1, <2>2
    <2>3. CASE i # Len(s)
        <3>1. i < Len(s)
            <4>1. PICK n \in Nat : n = Len(s)
                BY <1>3
            <4>2. PICK j \in Nat : j = i
                BY <2>1
            <4>3. j <= n /\ j # n
                BY <2>1, <2>3, <4>1, <4>2
            <4>4. j < n
                BY <4>3
            <4>5. QED BY <4>1, <4>2, <4>4
        <3>2. <<x, l>> \in Older
            BY <1>3, <1>4, <1>5, <1>6, <2>1, <3>1 DEF Sorted
        <3>3. QED BY <3>2 DEF Older
    <2>4. QED BY <2>2, <2>3
<1>10. QED BY <1>1, <1>7, <1>8, <1>9

\* What a stopped session has on disk is all there is, and whole.
LEMMA StoppedLog ==
    ASSUME LogInv, LogSide, ~up
    PROVE  /\ Logged = ToSet(disk) /\ Whole(disk) /\ failed = {}
           /\ queue = <<>> /\ write = <<>> /\ window = <<>> /\ Drained
<1>1. queue = <<>> /\ write = <<>> /\ window = <<>> /\ failed = {}
    BY DEF LogInv, StoppedIsEmpty
<1>2. Drained
    BY <1>1 DEF Drained
<1>3. Final = disk /\ Logged = ToSet(disk) \cup ToSet(window)
    BY <1>2, AtRest DEF LogInv
<1>4. ToSet(window) = {}
    BY <1>1 DEF ToSet
<1>5. Whole(disk)
    BY <1>1, <1>3 DEF LogSide, Lasting, Whole
<1>6. QED BY <1>1, <1>2, <1>3, <1>4, <1>5

LEMMA LogSideCreate ==
    ASSUME LogInv, LogSide, NEW readable \in BOOLEAN, Create(readable)
    PROVE  LogSide'
<1> DEFINE loaded == IF readable THEN Retained(disk) ELSE <<>>
<1>1. /\ ~up /\ up' = TRUE /\ inc' = inc + 1 /\ cursor' = Top(loaded)
      /\ window' = loaded /\ origin' = IF readable THEN origin ELSE inc + 1
      /\ UNCHANGED <<queue, write, failed, disk, kept>>
    BY DEF Create, writer
<1>2. /\ Logged = ToSet(disk) /\ Whole(disk) /\ failed = {}
      /\ queue = <<>> /\ write = <<>> /\ Drained
    BY <1>1, StoppedLog
<1>3. /\ disk \in Seq(Event) /\ kept \subseteq Event /\ Logged \subseteq kept /\ inc \in Nat
    BY KeptTypes DEF LogSide
<1>4. /\ loaded \in Seq(Event) /\ ToSet(loaded) \subseteq ToSet(disk) /\ Ends(loaded, disk)
      /\ ~readable => ToSet(loaded) = {}
    <2>1. CASE readable
        BY <1>3, <2>1, RetainedIsEnd
    <2>2. CASE ~readable
        <3>1. <<>> \in Seq(Event) /\ ToSet(<<>>) = {} /\ Ends(<<>>, disk)
            BY <1>3, EmptySeq, EndsItself DEF ToSet
        <3>2. QED BY <2>2, <3>1
    <2>3. QED BY <2>1, <2>2
<1>5. Top(loaded) \in Nat /\ \A x \in ToSet(loaded) : x.seq <= Top(loaded)
    BY <1>4, TopTyped
<1>6. Logged' = ToSet(disk)
    <2>1. ToSet(queue') = {} /\ ToSet(write') = {}
        BY <1>1, <1>2 DEF ToSet
    <2> HIDE DEF loaded
    <2>2. QED BY <1>1, <1>4, <2>1 DEF Logged
<1>7. \A k \in kept : k.inc \in 1..inc /\ k.prev < k.seq /\ k.inc # inc' /\ k.inc \in 1..inc'
    BY <1>1, <1>3 DEF LogSide, Numbered, KeptNumbers
<1>8. KeptNumbers'
    <2> HIDE DEF loaded
    <2>1. kept' \subseteq Event /\ Logged' \subseteq kept' /\ inc' # 0
        BY <1>1, <1>2, <1>3, <1>6
    <2>2. \A k \in kept' : k.inc \in 1..inc' /\ k.prev < k.seq /\ k.inc # inc'
        BY <1>1, <1>7
    <2>3. \A k, l \in kept' : /\ Id(k) = Id(l) => k = l
                              /\ k.inc = l.inc => CountedOn(k, l)
        BY <1>1 DEF LogSide, Numbered, KeptNumbers
    <2>4. QED BY <2>1, <2>2, <2>3 DEF KeptNumbers, CountedOn, Precedes, Id
<1>9. YoungNumbers'
    <2>1. CASE ~readable
        <3> HIDE DEF loaded
        <3>1. origin' = inc'
            BY <1>1, <2>1
        <3>2. Young' = {}
            <4>1. ASSUME NEW x \in Logged' PROVE ~(x.inc >= origin')
                <5>1. x.inc \in 1..inc /\ origin' = inc + 1
                    BY <1>1, <1>2, <1>3, <1>6, <1>7, <2>1
                <5>2. QED BY <1>3, <5>1
            <4>2. QED BY <4>1 DEF Young
        <3>3. ToSet(window') = {}
            BY <1>1, <1>4, <2>1
        <3>4. origin' \in Nat /\ origin' <= inc'
            BY <1>1, <1>3, <3>1
        <3>5. QED BY <3>2, <3>3, <3>4 DEF YoungNumbers
    <2>2. CASE readable
        <3>1. Young' = Young /\ origin' = origin
            BY <1>1, <1>2, <1>6, <2>2 DEF Young
        <3>2. /\ origin \in Nat /\ origin <= inc
              /\ \A x, y \in Young : CountedOn(x, y)
            BY DEF LogSide, Numbered, YoungNumbers
        <3>3. ASSUME NEW x \in Young PROVE x.seq <= Top(loaded)
            <4>1. x \in ToSet(disk) /\ x.inc >= origin /\ x \in kept /\ x \in Event
                BY <1>2, <1>3 DEF Young
            <4>2. disk # <<>>
                BY <4>1 DEF ToSet
            <4>3. PICK l \in ToSet(Retained(disk)) :
                      /\ l \in ToSet(disk) /\ l.seq <= Top(Retained(disk))
                      /\ x = l \/ Precedes(Id(x), Id(l))
                BY <1>2, <1>3, <4>1, <4>2, RetainedLast DEF Whole
            <4>4. CASE x = l
                BY <2>2, <4>3, <4>4
            <4>5. CASE Precedes(Id(x), Id(l))
                <5>1. l \in kept /\ l \in Event /\ l \in Logged
                    BY <1>2, <1>3, <4>3
                <5>2. x.inc <= l.inc /\ x.inc \in Nat /\ l.inc \in Nat
                    <6>1. x.inc \in Nat /\ l.inc \in Nat
                        BY <4>1, <5>1 DEF Event
                    <6>2. x.inc < l.inc \/ x.inc = l.inc
                        BY <4>1, <4>5, <5>1, EventsAreOrdered
                    <6>3. QED BY <6>1, <6>2
                <5>3. l \in Young
                    BY <3>2, <4>1, <5>1, <5>2 DEF Young
                <5>4. x.seq <= l.prev
                    BY <3>2, <4>5, <5>3 DEF CountedOn
                <5>5. l.prev < l.seq
                    BY <1>7, <5>1
                <5>6. x.seq \in Nat /\ l.prev \in Nat /\ l.seq \in Nat
                    BY <4>1, <5>1 DEF Event
                <5>7. l.seq <= Top(loaded)
                    BY <2>2, <4>3
                <5> HIDE DEF loaded
                <5>8. QED BY <1>5, <5>4, <5>5, <5>6, <5>7
            <4>6. QED BY <4>3, <4>4, <4>5
        <3> HIDE DEF loaded
        <3>4. \A x \in Young' \cup ToSet(window') : x.seq <= cursor'
            BY <1>1, <1>5, <3>1, <3>3
        <3>5. \A k \in kept' : k.inc # inc'
            BY <1>1, <1>7
        <3>6. origin' \in Nat /\ origin' <= inc'
            BY <1>1, <1>3, <3>1, <3>2
        <3>7. QED BY <3>1, <3>2, <3>4, <3>5, <3>6 DEF YoungNumbers, CountedOn, Precedes, Id
    <2>3. QED BY <2>1, <2>2
<1>10. Lasting'
    <2> HIDE DEF loaded
    <2>1. PICK s, t : s = window' /\ t = disk
        OBVIOUS
    <2>2. Whole(t)' /\ t = disk' /\ t \in Seq(Event)
        BY <1>1, <1>2, <1>3, <2>1 DEF Whole, Closed
    <2>3. Whole(s)'
        BY <1>1, <1>4, <2>1, <2>2, WholeEnd
    <2>4. WholeWithin(t)'
        BY <2>2 DEF Whole, WholeWithin, Closed, ClosedWithin
    <2>5. (Final = disk)'
        <3>1. (Drained /\ LogTypes => Final = disk)'
            BY AtRest, PTL
        <3>2. Drained' /\ LogTypes'
            BY <1>1, <1>2, CreateKeeps DEF Drained, LogInv
        <3>3. QED BY <3>1, <3>2
    <2>6. Whole(window)' /\ WholeWithin(disk)' /\ Whole(Final)'
        BY <2>1, <2>2, <2>3, <2>4, <2>5 DEF Whole, WholeWithin
    <2>7. ToSet(queue') = {} /\ ToSet(write') = {} /\ write' = <<>>
        BY <1>1, <1>2 DEF ToSet
    <2>8. QED BY <2>6, <2>7 DEF Lasting
<1>11. QED BY <1>8, <1>9, <1>10 DEF LogSide, Numbered

\* A bounded set of naturals that is not empty has a greatest element.
LEMMA BoundedMax ==
    ASSUME NEW S \in SUBSET Nat, S # {}, NEW n \in Nat, \A x \in S : x <= n
    PROVE  Max(S) \in S /\ \A x \in S : x <= Max(S)
<1> DEFINE D == {d \in Nat : \E x \in S : n - x = d}
<1>1. D \in SUBSET Nat /\ D # {}
    <2>1. PICK x \in S : TRUE
        OBVIOUS
    <2>2. x \in Nat /\ x <= n
        OBVIOUS
    <2>3. n - x \in D
        BY <2>2
    <2>4. QED BY <2>3
<1>2. PICK d \in D : \A y \in D : d <= y
    <2> HIDE DEF D
    <2>1. QED BY <1>1, NatLeast
<1>3. PICK m \in S : n - m = d
    BY <1>2
<1>4. ASSUME NEW x \in S PROVE m >= x
    <2>1. x \in Nat /\ x <= n /\ m \in Nat /\ m <= n
        OBVIOUS
    <2>2. n - x \in D
        BY <2>1
    <2>3. d <= n - x
        BY <1>2, <2>2
    <2>4. QED BY <1>3, <2>1, <2>3
<1>5. Max(S) \in S /\ \A x \in S : Max(S) >= x
    BY <1>3, <1>4 DEF Max
<1>6. QED BY <1>5

LEMMA WrittenBounds ==
    ASSUME disk \in Seq(Event)
    PROVE  /\ Written \in Nat
           /\ \A x \in ToSet(disk) : x.inc = inc => x.seq <= Written
           /\ Written = 0 \/ \E x \in ToSet(disk) : x.inc = inc /\ x.seq = Written
<1> DEFINE S == {e.seq : e \in {x \in ToSet(disk) : x.inc = inc}} \cup {0}
<1>1. \A x \in ToSet(disk) : x \in Event /\ x.seq \in Nat /\ x.seq <= Top(disk)
    <2>1. ToSet(disk) \subseteq Event
        BY ElementIn
    <2>2. QED BY <2>1, TopTyped DEF Event
<1>2. Top(disk) \in Nat
    BY TopTyped
<1>3. S \in SUBSET Nat /\ S # {} /\ \A x \in S : x <= Top(disk)
    BY <1>1, <1>2
<1> HIDE DEF S
<1>4. Max(S) \in S /\ \A x \in S : x <= Max(S)
    BY <1>2, <1>3, BoundedMax
<1>5. Written = Max(S)
    BY DEF Written, S
<1>6. QED BY <1>3, <1>4, <1>5 DEF S

LEMMA LogSideCrash ==
    ASSUME LogInv, LogSide, Crash
    PROVE  LogSide'
<1>1. /\ up /\ up' = FALSE /\ window' = <<>> /\ queue' = <<>> /\ write' = <<>> /\ failed' = {}
      /\ kept' = {e \in kept : e.inc < inc \/ e.seq <= Written}
      /\ UNCHANGED <<inc, disk, origin>>
    BY DEF Crash
<1>2. /\ disk \in Seq(Event) /\ kept \subseteq Event /\ Logged \subseteq kept /\ inc \in Nat
      /\ ToSet(disk) \subseteq Logged
    BY KeptTypes DEF LogSide
<1>3. /\ Written \in Nat
      /\ \A x \in ToSet(disk) : x.inc = inc => x.seq <= Written
      /\ Written = 0 \/ \E x \in ToSet(disk) : x.inc = inc /\ x.seq = Written
    BY <1>2, WrittenBounds
<1>4. \A k \in kept : k.inc \in 1..inc /\ k.prev < k.seq /\ k.prev \in Nat /\ k.seq \in Nat
    BY <1>2 DEF LogSide, Numbered, KeptNumbers, Event
<1>5. ToSet(queue') = {} /\ ToSet(write') = {} /\ ToSet(window') = {}
    BY <1>1 DEF ToSet
<1>6. Logged' = ToSet(disk)
    BY <1>1, <1>5 DEF Logged
<1>7. ToSet(disk) \subseteq kept'
    <2>1. ASSUME NEW x \in ToSet(disk) PROVE x.inc < inc \/ x.seq <= Written
        <3>1. x.inc \in 1..inc
            BY <1>2, <1>4
        <3>2. QED BY <1>2, <1>3, <3>1
    <2>2. QED BY <1>1, <1>2, <2>1
<1>8. Numbered'
    <2>1. kept' \subseteq kept /\ Logged' \subseteq Logged /\ Logged' \subseteq kept'
          /\ ToSet(window') \subseteq ToSet(window)
        BY <1>1, <1>2, <1>5, <1>6, <1>7
    <2>2. QED BY <1>1, <2>1, NumberedShrinks DEF LogSide
<1>9. WholeWithin(disk)' /\ Whole(disk)'
    <2>1. WholeWithin(disk) /\ disk' = disk
        BY <1>1 DEF LogSide, Lasting
    <2>2. ASSUME NEW x \in ToSet(disk), NEW k \in kept', Precedes(Id(x), Id(k))
          PROVE  k \in ToSet(disk)
        <3>1. k \in kept /\ (k.inc < inc \/ k.seq <= Written)
            BY <1>1
        <3>2. CASE k.inc < inc
            BY <2>1, <2>2, <3>1, <3>2 DEF WholeWithin, ClosedWithin
        <3>3. CASE k.seq <= Written
            <4>1. Written # 0
                BY <1>4, <3>1, <3>3
            <4>2. PICK y \in ToSet(disk) : y.inc = inc /\ y.seq = Written
                BY <1>3, <4>1
            <4>3. QED BY <2>1, <2>2, <3>1, <3>3, <4>2 DEF WholeWithin, ClosedWithin
        <3>4. QED BY <3>1, <3>2, <3>3
    <2>3. Whole(disk)'
        BY <2>1, <2>2 DEF Whole, WholeWithin, Closed
    <2>4. WholeWithin(disk)'
        BY <2>3 DEF Whole, WholeWithin, Closed, ClosedWithin
    <2>5. QED BY <2>3, <2>4
<1>10. Whole(window)'
    BY <1>1, <1>5, SortedEmpty DEF Whole, Closed
<1>11. (Final = disk)'
    <2>1. (Drained /\ LogTypes => Final = disk)'
        BY AtRest, PTL
    <2>2. Drained' /\ LogTypes'
        BY <1>1, CrashKeeps DEF Drained, LogInv
    <2>3. QED BY <2>1, <2>2
<1>12. Lasting'
    BY <1>1, <1>5, <1>9, <1>10, <1>11 DEF Lasting, Whole
<1>13. QED BY <1>8, <1>12 DEF LogSide

LEMMA LogSideInitial == Init => LogSide
<1> SUFFICES ASSUME Init PROVE LogSide
    OBVIOUS
<1>1. /\ inc = 0 /\ ~up /\ window = <<>> /\ queue = <<>> /\ write = <<>> /\ failed = {}
      /\ disk = <<>> /\ kept = {} /\ origin = 0
    BY DEF Init
<1>2. LogInv
    BY LogInitial
<1>3. Drained
    BY <1>1 DEF Drained
<1>4. Final = disk /\ Logged = ToSet(disk) \cup ToSet(window)
    BY <1>2, <1>3, AtRest DEF LogInv
<1>5. ToSet(disk) = {} /\ ToSet(window) = {} /\ ToSet(queue) = {} /\ ToSet(write) = {}
    BY <1>1 DEF ToSet
<1>6. Numbered
    BY <1>1, <1>4, <1>5 DEF Numbered, KeptNumbers, YoungNumbers, Young
<1>7. Sorted(<<>>, Older)
    BY SortedEmpty
<1>8. Lasting
    BY <1>1, <1>4, <1>5, <1>7 DEF Lasting, Whole, WholeWithin, Closed, ClosedWithin
<1>9. QED BY <1>6, <1>8 DEF LogSide

LEMMA LogSideStep == LogInv /\ ViewInv /\ LogSide /\ [Next]_vars => LogSide'
<1> SUFFICES ASSUME LogInv, ViewInv, LogSide, [Next]_vars PROVE LogSide'
    OBVIOUS
<1>1. ASSUME UNCHANGED <<runtime, writer, disk, kept, origin>> PROVE LogSide'
    BY <1>1, LogSideQuiet DEF runtime, writer, logSideVars
<1>2. CASE SendRestored \/ SendReplay \/ BeginDelete
    BY <1>2, LogSideQuiet DEF SendRestored, SendReplay, BeginDelete, runtime, writer, ghosts, logSideVars
<1>3. CASE \E readable \in BOOLEAN : Inspect(readable)
    BY <1>3, LogSideQuiet DEF Inspect, writer, logSideVars
<1>4. CASE \/ Look \/ Receive(0) \/ ReducerFails \/ Attach \/ Disconnect \/ Reload
           \/ UNCHANGED vars
    <2>1. ASSUME NEW n, Receive(n) PROVE LogSide'
        BY <1>1, <2>1 DEF Receive
    <2>2. CASE ReducerFails
        BY <2>1, <2>2 DEF ReducerFails
    <2>3. CASE Look \/ Attach \/ Disconnect \/ Reload \/ UNCHANGED vars
        BY <1>1, <2>3 DEF Look, Attach, Disconnect, Reload, vars, ghosts
    <2>4. QED BY <1>4, <2>1, <2>2, <2>3
<1>5. CASE Emit \/ StartWrite \/ FinishWrite \/ FailWrite \/ EndDelete
    BY <1>5, LogSideEmit, LogSideWriter, LogSideEndDelete
<1>6. CASE \E readable \in BOOLEAN : Create(readable)
    BY <1>6, LogSideCreate
<1>7. CASE Crash
    BY <1>7, LogSideCrash
<1>8. QED BY <1>2, <1>3, <1>4, <1>5, <1>6, <1>7 DEF Next

-----------------------------------------------------------------------------
(* What is on its way to the renderer.                                     *)

IsAnswer(m) == m.kind \in {"restored", "replay"}
Coming ==
    {m.answer : m \in {x \in ToSet(wire) : IsAnswer(x)}}
        \cup {r \in {restore} : r.at \in {"found", "sent"}}

\* Events as they were sent, and events that an answer brings again.
Fresh ==
    ToSet(buffer) \cup UNION {ToSet(m.answer.events) : m \in {x \in ToSet(wire) : x.kind = "event"}}
Missed == UNION {ToSet(a.events) : a \in Coming}
InFlight == Fresh \cup Missed

\* Answers that have not been announced, or whose announcement is on the wire.
Announced ==
    {m.answer : m \in {x \in ToSet(wire) : x.kind = "restored"}}
        \cup {r \in {restore} : r.at = "found"}

\* One restore at a time, announced before it is replayed.
AnswerOrder == {p \in OnWire \X OnWire : p[2].kind = "restored" => ~IsAnswer(p[1])}
OneRestore ==
    /\ restore.at = "asked" => restore.last = cur
    /\ restore.at \in {"asked", "found"} =>
          mode = "snapshot" /\ \A m \in ToSet(wire) : ~IsAnswer(m)
    /\ restore.at = "sent" => ~restore.snapshot
    /\ Sorted(wire, AnswerOrder)
    /\ \A m \in ToSet(wire) :
          /\ m.kind = "replay" => ~m.answer.snapshot
          /\ m.kind = "restored" => mode = "snapshot"
          /\ m.kind = "restored" /\ m.answer.events = <<>> =>
                restore.at = "none" /\ \A x \in ToSet(wire) : x.kind # "replay"

\* The numbers that the renderer has seen are old, ...
SeenOld == \A id \in Seen : id[1] <= inc /\ (up /\ id[1] = inc => id[2] <= cursor)

\* ... those on their way have been given out, ...
Sent == \A e \in InFlight : e.inc <= inc /\ e.seq <= cursor /\ e.seq >= 1

\* ... a fresh event continues all that this runtime has kept ...
Continued ==
    \A e \in Fresh :
        /\ e.inc = inc /\ e.prev < e.seq
        /\ \A k \in kept : k.inc = inc => CountedOn(k, e)
        /\ \A x \in Young : x.inc < inc => x.seq <= e.prev

\* ... and an answer tells how far the window went.
Answered ==
    /\ \A a \in Coming : IF a.snapshot THEN a.events = <<>> ELSE cur # 0
    /\ \A a \in Announced :
          /\ a.current <= cursor
          /\ \A x \in ToSet(window) \cup Young : x.inc < inc => x.seq <= a.current
          /\ \A id \in Seen : id[1] = inc => id[2] <= a.current
          /\ ~a.snapshot /\ a.events = <<>> => a.current = cur

Flights == Sent /\ Continued /\ Answered /\ \A h \in holes : h >= 1

-----------------------------------------------------------------------------
(* What the renderer knows.                                                *)

Unseen(seen) == {k \in kept : Id(k) \notin seen}

\* An event that continues c: nothing unseen lies before it, and what has been
\* seen lies before it.
Good(e, c, seen) ==
    /\ \A k \in Unseen(seen) : ~(e.prev < k.seq /\ k.seq < e.seq) /\ (k.seq = e.seq => Id(k) = Id(e))
    /\ e.seq > c => \A id \in seen : Precedes(id, Id(e))

Knows(c, seen) ==
    /\ \A k \in Unseen(seen) :
          /\ k.seq > c /\ k.inc >= origin /\ (up => k.seq <= cursor)
          /\ \A x \in Young : CountedOn(k, x) /\ CountedOn(x, k)
    /\ up => c <= cursor
    /\ \A id \in seen : id[1] = inc => id[2] <= c
    /\ \A x \in Young : x.seq > c => \A id \in seen : Precedes(id, Id(x))
    /\ \A x \in ToSet(window) : x.inc < origin => x.seq <= c
    /\ \A e \in InFlight : Good(e, c, seen)

\* Of what is on its way, and in the log, the later runtime has counted on.
Ordered ==
    \A e \in InFlight, x \in InFlight \cup Young :
        /\ e.inc < x.inc => e.seq < x.seq
        /\ x.inc < e.inc => x.seq < e.seq

\* A renderer that waits for its first snapshot, or for the one that a runtime
\* over an unreadable log will send it, knows nothing.
Replayable == \E a \in Coming : ~a.snapshot
Synced ==
    /\ ~behind
    /\ \/ mode \in {"live", "replay"} \/ holes # {}
       \/ cur # 0 /\ (Partial /\ degraded => Replayable)

Following == Synced => Knows(cur, Seen) /\ Ordered

PageSide == OneRestore /\ SeenOld /\ Flights /\ Following /\ ~repeated

-----------------------------------------------------------------------------
(* Steps that bring nothing new.                                           *)

LEMMA FlightTypes ==
    ASSUME ViewInv
    PROVE  /\ InFlight \subseteq Event /\ ToSet(wire) \subseteq OnWire
           /\ Coming \subseteq Answers /\ Announced \subseteq Coming /\ Seen \subseteq Nat \X Nat
           /\ holes \subseteq Nat /\ cur \in Nat /\ Fresh \subseteq InFlight /\ Missed \subseteq InFlight
<1>1. /\ restore \in Answers /\ wire \in Seq(OnWire) /\ buffer \in Seq(Event)
      /\ applied \subseteq Nat \X Nat /\ shown \subseteq Nat \X Nat
      /\ holes \subseteq Nat /\ cur \in Nat
    BY DEF ViewInv, LinkTypes, PageTypes
<1>2. ToSet(wire) \subseteq OnWire /\ ToSet(buffer) \subseteq Event
    BY <1>1, ElementIn
<1>3. \A m \in OnWire : m.answer \in Answers
    BY DEF OnWire
<1>4. \A a \in Answers : ToSet(a.events) \subseteq Event
    <2>1. \A a \in Answers : a.events \in Seq(Event)
        BY DEF Answers
    <2> HIDE DEF Answers, Event
    <2>2. QED BY <2>1, ElementIn
<1>5. Coming \subseteq Answers /\ Announced \subseteq Coming
    BY <1>1, <1>2, <1>3 DEF Coming, Announced, IsAnswer
<1>6. Missed \subseteq Event
    BY <1>4, <1>5 DEF Missed
<1>7. Fresh \subseteq Event
    BY <1>2, <1>3, <1>4 DEF Fresh
<1>8. QED BY <1>1, <1>2, <1>5, <1>6, <1>7 DEF InFlight, Seen

\* What is on its way, after a step, was so before it.
NothingNew ==
    /\ Fresh' \subseteq Fresh /\ Announced' \subseteq Announced
    /\ \A a \in Coming' : \E b \in Coming : a.events = b.events /\ a.snapshot = b.snapshot

LEMMA NothingNewInFlight ==
    ASSUME NothingNew
    PROVE  InFlight' \subseteq InFlight /\ Missed' \subseteq Missed /\ (Replayable' => Replayable)
<1>1. Missed' \subseteq Missed
    BY DEF NothingNew, Missed
<1>2. Replayable' => Replayable
    BY DEF NothingNew, Replayable
<1>3. QED BY <1>1, <1>2 DEF InFlight, NothingNew

\* Messages that have been sent are taken, or lost.
LEMMA LessOnWire ==
    ASSUME ToSet(wire') \subseteq ToSet(wire), ToSet(buffer') \subseteq Fresh,
           restore' = restore \/ restore'.at \in {"none", "asked"}
    PROVE  NothingNew /\ Coming' \subseteq Coming
<1>1. Coming' \subseteq Coming /\ Announced' \subseteq Announced
    BY DEF Coming, Announced, IsAnswer
<1>2. Fresh' \subseteq Fresh
    BY DEF Fresh
<1>3. QED BY <1>1, <1>2 DEF NothingNew

LEMMA NothingOnWire ==
    ASSUME wire' = <<>>, buffer' = <<>>, restore'.at \in {"none", "asked"}
    PROVE  Coming' = {} /\ Fresh' = {} /\ InFlight' = {} /\ NothingNew
<1>1. ToSet(wire') = {} /\ ToSet(buffer') = {}
    BY DEF ToSet
<1>2. Coming' = {} /\ Announced' = {} /\ Fresh' = {}
    BY <1>1 DEF Coming, Announced, Fresh
<1>3. QED BY <1>2 DEF NothingNew, InFlight, Missed

LEMMA KnowsStays ==
    ASSUME NEW c, NEW seen, Knows(c, seen), InFlight' \subseteq InFlight,
           UNCHANGED <<inc, origin>>, up' => up /\ cursor' = cursor,
           kept' \subseteq kept, Young' \subseteq Young, ToSet(window') \subseteq ToSet(window)
    PROVE  Knows(c, seen)'
<1>1. Unseen(seen)' \subseteq Unseen(seen)
    BY DEF Unseen
<1>2. \A e \in InFlight' : Good(e, c, seen)'
    BY <1>1 DEF Knows, Good, Precedes, Id
<1>3. QED BY <1>1, <1>2 DEF Knows, CountedOn, Precedes, Id

LEMMA OrderedStays ==
    ASSUME Ordered, InFlight' \subseteq InFlight, Young' \subseteq Young
    PROVE  Ordered'
BY DEF Ordered

\* Less is kept and logged, and the renderer has not moved.
LEMMA PageSideStays ==
    ASSUME ViewInv, SeenOld, Flights, Following, NothingNew, Synced' => Synced,
           UNCHANGED <<inc, origin, cur, holes, applied, shown>>,
           up' => up, \/ cursor' = cursor
                      \/ ~up' /\ Coming' = {} /\ Fresh' = {} /\ Announced' = {},
           kept' \subseteq kept, Young' \subseteq Young, ToSet(window') \subseteq ToSet(window)
    PROVE  SeenOld' /\ Flights' /\ Following'
<1>1. Seen' = Seen /\ InFlight' \subseteq InFlight
    BY NothingNewInFlight DEF Seen
<1>2. up' => cursor' = cursor
    OBVIOUS
<1>3. SeenOld'
    BY <1>1, <1>2 DEF SeenOld
<1>4. Following'
    <2>1. SUFFICES ASSUME Synced PROVE Knows(cur, Seen)' /\ Ordered'
        BY DEF Following
    <2>2. PICK c, seen : c = cur /\ seen = Seen
        OBVIOUS
    <2>3. Knows(c, seen)'
        BY <1>1, <1>2, <2>1, <2>2, KnowsStays DEF Following
    <2>4. Knows(cur, Seen)'
        BY <1>1, <2>2, <2>3 DEF Knows
    <2>5. QED BY <1>1, <2>1, <2>4, OrderedStays DEF Following
<1>5. Sent' /\ Continued'
    <2>1. CASE Fresh' = {} /\ Coming' = {}
        BY <2>1 DEF Sent, Continued, InFlight, Missed
    <2>2. CASE cursor' = cursor
        BY <1>1, <2>2 DEF Flights, Sent, Continued, NothingNew, CountedOn, Precedes, Id
    <2>3. QED BY <2>1, <2>2
<1>6. Answered'
    <2>1. CASE Announced' = {} /\ Coming' = {}
        BY <2>1 DEF Answered
    <2>2. CASE cursor' = cursor
        <3>1. \A a \in Coming' : IF a.snapshot THEN a.events = <<>> ELSE cur' # 0
            BY DEF Flights, Answered, NothingNew
        <3>2. QED BY <1>1, <2>2, <3>1 DEF Flights, Answered, NothingNew
    <2>3. QED BY <2>1, <2>2
<1>7. QED BY <1>3, <1>4, <1>5, <1>6 DEF Flights

\* Steps of the outbox that tell the renderer nothing.
LEMMA PageSideQuiet ==
    ASSUME LogInv, ViewInv, PageSide, UNCHANGED <<inc, up, cursor, origin, restore, wire, mode, cur, holes,
                                buffer, applied, shown, repeated>>,
           kept' \subseteq kept, Logged' \subseteq Logged, ToSet(window') \subseteq ToSet(window),
           Synced' => Synced
    PROVE  PageSide'
<1>1. NothingNew
    BY DEF NothingNew, Coming, Announced, Fresh
<1>2. Young' \subseteq Young
    BY DEF Young
<1>3. SeenOld' /\ Flights' /\ Following'
    BY <1>1, <1>2, PageSideStays DEF PageSide
<1>4. OneRestore'
    BY DEF PageSide, OneRestore
<1>5. QED BY <1>3, <1>4 DEF PageSide

LEMMA PageSideOutbox ==
    ASSUME LogInv, ViewInv, PageSide,
           \/ StartWrite \/ FinishWrite \/ FailWrite \/ BeginDelete \/ EndDelete
           \/ \E readable \in BOOLEAN : Inspect(readable)
    PROVE  PageSide'
<1>1. CASE StartWrite \/ FinishWrite \/ FailWrite
    <2>1. Logged' \subseteq Logged
        BY <1>1, StartWriteKeeps, FinishWriteKeeps, FailWriteKeeps
    <2>2. UNCHANGED <<runtime, deleting, restore, wire, page, ghosts>>
        BY <1>1 DEF StartWrite, FinishWrite, FailWrite
    <2>3. Synced' => Synced
        BY <2>2 DEF Synced, Partial, Replayable, Coming, runtime, page, ghosts
    <2>4. QED BY <2>1, <2>2, <2>3, PageSideQuiet DEF runtime, page, ghosts
<1>2. CASE BeginDelete
    <2>1. UNCHANGED <<runtime, writer, disk, restore, wire, page, ghosts>>
        BY <1>2 DEF BeginDelete
    <2>2. Synced' => Synced
        BY <2>1 DEF Synced, Partial, Replayable, Coming, runtime, page, ghosts
    <2>3. Logged' = Logged
        BY <2>1 DEF Logged, runtime, writer
    <2>4. QED BY <2>1, <2>2, <2>3, PageSideQuiet DEF runtime, page, ghosts
<1>3. CASE EndDelete
    <2>1. /\ UNCHANGED <<inc, up, cursor, restore, wire, page, shown, repeated, origin>>
          /\ \/ UNCHANGED <<window, kept, degraded, behind>>
             \/ /\ kept' \subseteq kept
                /\ window' = window \/ window' = Without(window, deleting)
                /\ \E readable \in BOOLEAN : Reread(readable)
        BY <1>3 DEF EndDelete, Removed
    <2>2. ToSet(window') \subseteq ToSet(window)
        BY <2>1, WithoutKeepsTheOthers DEF LogInv, LogTypes
    <2>3. Synced' => Synced
        BY <2>1 DEF Synced, Partial, Replayable, Coming, Reread, page
    <2>4. QED BY <1>3, <2>1, <2>2, <2>3, EndDeleteKeeps, PageSideQuiet DEF page
<1>4. CASE \E readable \in BOOLEAN : Inspect(readable)
    <2>1. PICK readable \in BOOLEAN : Inspect(readable)
        BY <1>4
    <2>2. UNCHANGED <<inc, up, cursor, window, writer, disk, restore, wire, page, shown, repeated,
                      kept, origin>> /\ Reread(readable)
        BY <2>1 DEF Inspect
    <2>3. Synced' => Synced
        BY <2>2 DEF Synced, Partial, Replayable, Coming, Reread, page
    <2>4. Logged' = Logged
        BY <2>2 DEF Logged, writer
    <2>5. QED BY <2>2, <2>3, <2>4, PageSideQuiet DEF page
<1>5. QED BY <1>1, <1>2, <1>3, <1>4

\* The connection is lost, and with it everything on its way.
LEMMA PageSideBreaks ==
    ASSUME LogInv, ViewInv, LogSide, PageSide, Disconnect \/ Crash \/ Reload
    PROVE  PageSide'
<1>1. /\ mode' = "off" /\ wire' = <<>> /\ buffer' = <<>> /\ restore' = NoRestore
      /\ NoRestore.at = "none"
    BY DEF Disconnect, Crash, Reload, Break, NoRestore
<1>2. Coming' = {} /\ Fresh' = {} /\ Announced' = {} /\ InFlight' = {} /\ NothingNew
    <2>1. Coming' = {} /\ Fresh' = {} /\ InFlight' = {} /\ NothingNew
        BY <1>1, NothingOnWire
    <2>2. ToSet(wire') = {}
        BY <1>1 DEF ToSet
    <2>3. QED BY <1>1, <2>1, <2>2 DEF Announced
<1>3. OneRestore'
    <2>1. ToSet(wire') = {} /\ Sorted(wire, AnswerOrder)'
        BY <1>1, SortedEmpty DEF ToSet
    <2>2. QED BY <1>1, <2>1 DEF OneRestore
<1>4. CASE Disconnect \/ Crash
    <2>1. UNCHANGED <<inc, origin, degraded, cur, holes, applied, shown, behind, repeated>>
        BY <1>4 DEF Disconnect, Crash, runtime, ghosts
    <2>2. Synced' => Synced
        BY <1>1, <1>2, <2>1 DEF Synced, Partial, Replayable
    <2>3. Logged' \subseteq Logged
        <3>1. CASE Crash
            BY <3>1, CrashKeeps
        <3>2. CASE Disconnect
            BY <3>2 DEF Disconnect, Logged, runtime, writer
        <3>3. QED BY <1>4, <3>1, <3>2
    <2>4. kept' \subseteq kept /\ (up' => up) /\ (cursor' = cursor \/ ~up') /\ ToSet(window') \subseteq ToSet(window)
        <3>1. CASE Crash
            <4>1. window' = <<>> /\ ~up' /\ kept' \subseteq kept
                BY <3>1 DEF Crash
            <4>2. ToSet(window') = {}
                BY <4>1 DEF ToSet
            <4>3. QED BY <4>1, <4>2
        <3>2. CASE Disconnect
            BY <3>2 DEF Disconnect, runtime, ghosts
        <3>3. QED BY <1>4, <3>1, <3>2
    <2>5. Young' \subseteq Young
        BY <2>1, <2>3 DEF Young
    <2>6. SeenOld' /\ Flights' /\ Following'
        BY <1>2, <2>1, <2>2, <2>4, <2>5, PageSideStays DEF PageSide
    <2>7. QED BY <1>3, <2>1, <2>6 DEF PageSide
<1>5. CASE Reload
    <2>1. /\ cur' = 0 /\ holes' = {} /\ applied' = {} /\ shown' = {} /\ repeated' = repeated
        BY <1>5 DEF Reload
    <2>2. ~Synced'
        BY <1>1, <2>1 DEF Synced
    <2>3. Seen' = {}
        BY <2>1 DEF Seen
    <2>4. Flights'
        BY <1>2, <2>1 DEF Flights, Sent, Continued, Answered
    <2>5. QED BY <1>3, <2>1, <2>2, <2>3, <2>4 DEF PageSide, SeenOld, Following
<1>6. QED BY <1>4, <1>5

-----------------------------------------------------------------------------
(* The session sends.                                                      *)

LEMMA PageSideEmit ==
    ASSUME LogInv, ViewInv, LogSide, PageSide, Emit
    PROVE  PageSide'
<1>1. PICK e : /\ Newest(e) /\ e = [inc |-> inc, seq |-> eventSeq + 1, prev |-> cursor]
    BY LogSideEmit
<1>2. /\ up /\ cursor' = eventSeq + 1 /\ kept' = kept \cup {e}
      /\ UNCHANGED <<inc, up, degraded, origin, restore, page, shown, repeated, behind>>
      /\ wire' = IF mode = "off" THEN wire ELSE Append(wire, [kind |-> "event", seq |-> eventSeq + 1,
                                                    answer |-> [NoRestore EXCEPT !.events = <<e>>]])
      /\ window' = Retained(Append(window, e))
    BY <1>1 DEF Emit, Unlocked, Deliver, Message, Staged
<1>3. Logged' \subseteq Logged \cup {e}
    BY <1>1, EmitKeeps DEF EventEmitted
<1>4. eventSeq \in Nat /\ cursor \in Nat /\ cursor <= eventSeq /\ inc \in Nat /\ kept \subseteq Event
      /\ window \in Seq(Event) /\ wire \in Seq(OnWire) /\ Logged \subseteq kept
    BY KeptTypes DEF LogInv, LogTypes, ViewInv, BoxTypes, LinkTypes, LogSide
<1>5. /\ e \in Event /\ e.inc = inc /\ e.seq = cursor' /\ e.prev = cursor /\ cursor' \in Nat
      /\ cursor < cursor'
      /\ \A k \in kept : k \in Event /\ Precedes(Id(k), Id(e)) /\ ~Precedes(Id(e), Id(k))
      /\ ~Precedes(Id(e), Id(e))
    <2>1. e \in Event /\ e.inc = inc /\ e.seq = cursor' /\ e.prev = cursor /\ cursor' \in Nat
          /\ cursor < cursor'
        BY <1>1, <1>2, <1>4 DEF Newest
    <2>2. \A k \in kept : k \in Event /\ Precedes(Id(k), Id(e))
        BY <1>1, <1>4 DEF Newest
    <2>3. QED BY <2>1, <2>2, EventsAreOrdered
<1>6. Young' \subseteq Young \cup {e} /\ Young \subseteq kept
    BY <1>2, <1>3, <1>4 DEF Young
<1>7. ToSet(window') \subseteq ToSet(window) \cup {e}
    BY <1>2, <1>5, EmitWindow DEF LogInv
<1>8. PICK m : m = [kind |-> "event", seq |-> eventSeq + 1, answer |-> [NoRestore EXCEPT !.events = <<e>>]]
    OBVIOUS
<1>9. /\ m \in OnWire /\ m.kind = "event" /\ ToSet(m.answer.events) = {e} /\ ~IsAnswer(m)
    <2>1. m.answer = [NoRestore EXCEPT !.events = <<e>>] /\ m.kind = "event"
        BY <1>8
    <2>2. m.answer.events = <<e>> /\ ToSet(<<e>>) = {e}
        BY <2>1 DEF NoRestore, ToSet
    <2>3. m \in OnWire
        <3>1. NoRestore \in Answers /\ <<e>> \in Seq(Event)
            BY <1>5, NoRestoreTyped
        <3>2. [NoRestore EXCEPT !.events = <<e>>] \in Answers
            BY <3>1 DEF Answers
        <3> HIDE DEF Answers
        <3>3. QED BY <1>4, <1>8, <3>2 DEF OnWire
    <2>4. QED BY <2>1, <2>2, <2>3 DEF IsAnswer
<1>10. /\ ToSet(wire') \subseteq ToSet(wire) \cup {m} /\ ToSet(wire) \subseteq ToSet(wire')
       /\ Sorted(wire', AnswerOrder)
    <2>1. CASE mode = "off"
        BY <1>2, <2>1 DEF PageSide, OneRestore
    <2>2. CASE mode # "off"
        <3>1. wire' = Append(wire, m)
            BY <1>2, <1>8, <2>2
        <3>2. ToSet(wire') = ToSet(wire) \cup {m}
            BY <1>4, <1>9, <3>1, AppendSet
        <3>3. ToSet(wire) \subseteq OnWire
            BY <1>4, ElementIn
        <3>4. \A x \in ToSet(wire) : <<x, m>> \in AnswerOrder
            BY <1>9, <3>3 DEF AnswerOrder
        <3>5. Sorted(wire', AnswerOrder)
            BY <1>4, <1>9, <3>1, <3>4, SortedAppend DEF PageSide, OneRestore
        <3>6. QED BY <3>2, <3>5
    <2>3. QED BY <2>1, <2>2
<1>11. UNCHANGED <<asks, mode, cur, holes, buffer, applied>>
    BY <1>2 DEF page
<1>12. Coming' = Coming /\ Announced' = Announced /\ Fresh' \subseteq Fresh \cup {e}
    <2>1. Coming' = Coming /\ Announced' = Announced
        BY <1>2, <1>9, <1>10 DEF Coming, Announced, IsAnswer
    <2>2. Fresh' \subseteq Fresh \cup {e}
        BY <1>9, <1>10, <1>11 DEF Fresh
    <2>3. QED BY <2>1, <2>2
<1>13. InFlight' \subseteq InFlight \cup {e} /\ Missed' = Missed /\ Seen' = Seen
    BY <1>2, <1>11, <1>12 DEF InFlight, Missed, Seen
<1>14. OneRestore'
    BY <1>2, <1>9, <1>10, <1>11 DEF PageSide, OneRestore
<1>15. \A n \in Nat : n <= cursor => n <= cursor' /\ n # cursor' /\ ~(cursor' < n)
    BY <1>4, <1>5
<1>16. /\ InFlight \subseteq Event /\ Seen \subseteq Nat \X Nat
       /\ Coming \subseteq Answers /\ Announced \subseteq Coming /\ cur \in Nat /\ Fresh \subseteq InFlight
    BY FlightTypes
<1>17. SeenOld' /\ \A id \in Seen : Precedes(id, Id(e))
    <2>1. ASSUME NEW id \in Seen PROVE /\ id[1] <= inc /\ (id[1] = inc => id[2] <= cursor')
                                       /\ Precedes(id, Id(e))
        <3>1. id[1] \in Nat /\ id[2] \in Nat /\ id[1] <= inc /\ (id[1] = inc => id[2] <= cursor)
            BY <1>2, <1>16 DEF PageSide, SeenOld
        <3>2. Id(e)[1] = inc /\ Id(e)[2] = cursor'
            BY <1>5 DEF Id
        <3>3. id[1] = inc => id[2] < cursor'
            BY <1>4, <1>5, <3>1
        <3>4. id[1] < inc \/ id[1] = inc
            BY <1>4, <3>1
        <3>5. QED BY <1>15, <3>1, <3>2, <3>3, <3>4 DEF Precedes
    <2>2. QED BY <1>2, <1>13, <2>1 DEF SeenOld
<1>18. Sent'
    <2>1. ASSUME NEW x \in InFlight PROVE x.inc <= inc /\ x.seq <= cursor' /\ x.seq >= 1
        BY <1>15, <1>16, <2>1 DEF PageSide, Flights, Sent, Event
    <2>2. e.inc <= inc /\ e.seq <= cursor' /\ e.seq >= 1
        BY <1>4, <1>5
    <2>3. QED BY <1>2, <1>13, <2>1, <2>2 DEF Sent
<1>19. Continued'
    <2>1. ASSUME NEW f \in Fresh, NEW k \in kept', k.inc = inc PROVE CountedOn(k, f)
        <3>1. CASE k \in kept
            BY <2>1, <3>1 DEF PageSide, Flights, Continued
        <3>2. CASE k = e
            <4>1. f \in Event /\ f.inc = inc /\ f.seq <= cursor /\ f.seq \in Nat
                BY <1>16 DEF PageSide, Flights, Continued, Sent, Event
            <4>2. ~Precedes(Id(e), Id(f))
                <5>1. Precedes(Id(e), Id(f)) <=> e.inc < f.inc \/ (e.inc = f.inc /\ e.seq < f.seq)
                    BY <1>5, <4>1, EventsAreOrdered
                <5>2. ~(e.inc < f.inc) /\ ~(e.seq < f.seq)
                    BY <1>4, <1>5, <4>1
                <5>3. QED BY <5>1, <5>2
            <4>3. QED BY <3>2, <4>2 DEF CountedOn
        <3>3. QED BY <1>2, <3>1, <3>2
    <2>2. ASSUME NEW k \in kept', k.inc = inc PROVE CountedOn(k, e)
        <3>1. CASE k \in kept
            BY <1>2, <1>5, <2>2, <3>1 DEF LogSide, Numbered, KeptNumbers, CountedOn
        <3>2. CASE k = e
            BY <1>5, <3>2 DEF CountedOn
        <3>3. QED BY <1>2, <3>1, <3>2
    <2>3. \A x \in Young' : x.inc < inc => x \in Young /\ x.seq <= cursor
        <3>1. ~(inc < inc)
            BY <1>4
        <3>2. QED BY <1>2, <1>5, <1>6, <3>1 DEF LogSide, Numbered, YoungNumbers
    <2>4. \A f \in Fresh : /\ f.inc = inc /\ f.prev < f.seq
                           /\ \A x \in Young' : x.inc < inc => x.seq <= f.prev
        BY <2>3 DEF PageSide, Flights, Continued
    <2>5. e.prev < e.seq /\ \A x \in Young' : x.inc < inc => x.seq <= e.prev
        BY <1>5, <2>3
    <2>6. QED BY <1>2, <1>5, <1>12, <2>1, <2>2, <2>4, <2>5 DEF Continued, CountedOn, Precedes, Id
<1>20. Answered'
    <2>1. \A a \in Coming' : IF a.snapshot THEN a.events = <<>> ELSE cur' # 0
        BY <1>11, <1>12 DEF PageSide, Flights, Answered
    <2>2. ~(e.inc < inc)
        BY <1>4, <1>5
    <2>3. ASSUME NEW a \in Announced PROVE a.current <= cursor'
        BY <1>15, <1>16 DEF PageSide, Flights, Answered, Answers
    <2>4. QED BY <1>2, <1>6, <1>7, <1>11, <1>12, <1>13, <2>1, <2>2, <2>3 DEF PageSide, Flights, Answered
<1>21. Following'
    <2>1. SUFFICES ASSUME Synced' PROVE Knows(cur, Seen)' /\ Ordered'
        BY DEF Following
    <2>2. Synced
        BY <1>2, <1>11, <1>12, <2>1 DEF Synced, Partial, Replayable
    <2>3. Knows(cur, Seen) /\ Ordered
        BY <2>2 DEF PageSide, Following
    <2>4. PICK c, seen : c = cur /\ seen = Seen
        OBVIOUS
    <2>5. /\ Knows(c, seen) /\ c \in Nat /\ c <= cursor /\ \A id \in seen : Precedes(id, Id(e))
        BY <1>2, <1>16, <1>17, <2>3, <2>4 DEF Knows
    <2>6. Unseen(seen)' \subseteq Unseen(seen) \cup {e} /\ Unseen(seen) \subseteq kept
        BY <1>2 DEF Unseen
    <2>7. \A k \in Unseen(seen) : k \in Event /\ k.seq \in Nat /\ k.seq <= cursor /\ k.seq > c
                                   /\ k.inc >= origin
        BY <1>2, <1>4, <2>5, <2>6 DEF Knows, Event
    <2>8. e.seq > c /\ e.inc >= origin /\ e.seq <= cursor' /\ c <= cursor'
        BY <1>4, <1>5, <1>15, <2>5 DEF LogSide, Numbered, YoungNumbers
    <2>9. \A k \in Unseen(seen)' : k.seq > c /\ k.inc >= origin /\ k.seq <= cursor'
        BY <1>15, <2>6, <2>7, <2>8
    <2>10. \A k \in Unseen(seen)', x \in Young' : CountedOn(k, x) /\ CountedOn(x, k)
        <3>1. \A k \in Unseen(seen), x \in Young : CountedOn(k, x) /\ CountedOn(x, k)
            BY <2>5 DEF Knows
        <3>2. \A k \in Unseen(seen) : CountedOn(k, e) /\ CountedOn(e, k)
            BY <1>5, <2>6, <2>7 DEF CountedOn
        <3>3. \A x \in Young : CountedOn(x, e) /\ CountedOn(e, x)
            BY <1>2, <1>5, <1>6 DEF CountedOn, LogSide, Numbered, YoungNumbers
        <3>4. CountedOn(e, e)
            BY <1>5 DEF CountedOn
        <3>5. QED BY <1>6, <2>6, <3>1, <3>2, <3>3, <3>4
    <2>11. \A x \in Young' : x.seq > c => \A id \in seen : Precedes(id, Id(x))
        BY <1>6, <2>5 DEF Knows
    <2>12. \A x \in ToSet(window') : x.inc < origin' => x.seq <= c
        <3>1. ~(e.inc < origin)
            BY <1>4, <2>8, <1>5 DEF LogSide, Numbered, YoungNumbers
        <3>2. QED BY <1>2, <1>7, <2>5, <3>1 DEF Knows
    <2>13. ASSUME NEW f \in InFlight' PROVE Good(f, c, seen)'
        <3>1. CASE f \in InFlight
            <4>1. f.seq \in Nat /\ f.seq <= cursor
                BY <1>16, <3>1 DEF PageSide, Flights, Sent, Event
            <4>2. ~(e.seq < f.seq) /\ e.seq # f.seq
                BY <1>5, <1>15, <4>1
            <4>3. Good(f, c, seen)
                BY <2>5, <3>1 DEF Knows
            <4>4. QED BY <2>6, <4>2, <4>3 DEF Good, Precedes, Id
        <3>2. CASE f = e
            <4>1. \A k \in Unseen(seen) : ~(cursor < k.seq) /\ k.seq # cursor'
                BY <1>4, <1>15, <2>7
            <4>2. ~(e.seq < e.seq)
                BY <1>5
            <4>3. QED BY <1>5, <2>5, <2>6, <3>2, <4>1, <4>2 DEF Good, Precedes, Id
        <3>3. QED BY <1>13, <3>1, <3>2
    <2>14. \A id \in seen : id[1] = inc => id[2] <= c
        BY <2>5 DEF Knows
    <2>15. Knows(c, seen)'
        BY <1>2, <2>8, <2>9, <2>10, <2>11, <2>12, <2>13, <2>14 DEF Knows, CountedOn, Precedes, Id
    <2>16. Knows(cur, Seen)'
        BY <1>11, <1>13, <2>4, <2>15 DEF Knows
    <2>17. Ordered'
        <3>1. \A x \in InFlight \cup Young : x.inc <= inc /\ x.seq < e.seq /\ x.inc \in Nat
            <4>1. \A x \in InFlight : x.inc <= inc /\ x.seq <= cursor
                BY DEF PageSide, Flights, Sent
            <4>2. \A x \in Young : x.inc <= inc /\ x.seq <= cursor
                BY <1>2, <1>4, <1>6 DEF LogSide, Numbered, KeptNumbers, YoungNumbers
            <4>3. \A x \in InFlight \cup Young : x \in Event
                BY <1>4, <1>6, <1>16
            <4>4. ASSUME NEW x \in InFlight \cup Young PROVE x.inc <= inc /\ x.seq < e.seq /\ x.inc \in Nat
                <5>1. x.inc <= inc /\ x.seq <= cursor
                    BY <4>1, <4>2
                <5>2. x.seq \in Nat /\ x.inc \in Nat
                    BY <4>3 DEF Event
                <5>3. QED BY <1>4, <1>5, <5>1, <5>2
            <4>5. QED BY <4>4
        <3>2. ASSUME NEW x \in InFlight \cup Young PROVE ~(e.inc < x.inc)
            BY <1>4, <1>5, <3>1
        <3>3. ~(e.inc < e.inc)
            BY <1>4, <1>5
        <3>4. QED BY <1>6, <1>13, <2>3, <3>1, <3>2, <3>3 DEF Ordered
    <2>18. QED BY <2>16, <2>17
<1>22. (\A h \in holes : h >= 1)'
    BY <1>11 DEF PageSide, Flights
<1>23. QED BY <1>2, <1>14, <1>17, <1>18, <1>19, <1>20, <1>21, <1>22 DEF PageSide, Flights

\* An event that is sent again comes from the window, after `last`, and is
\* linked to no earlier event than it was there.
Replays(ev, last) ==
    \E w \in ToSet(window) :
        ev.inc = w.inc /\ ev.seq = w.seq /\ w.prev <= ev.prev /\ w.seq > last

LEMMA LinkedReplays ==
    ASSUME NEW missed \in Seq(Event), NEW last \in Nat, ToSet(missed) \subseteq ToSet(window),
           Linked(missed, last).gap = FALSE
    PROVE  \A ev \in ToSet(Linked(missed, last).missed) : Replays(ev, last)
<1> DEFINE before(i) == IF i = 1 THEN last ELSE missed[i - 1].seq
           anew == [i \in DOMAIN missed |-> [missed[i] EXCEPT !.prev = before(i)]]
<1>1. Gap.gap = TRUE
    BY DEF Gap
<1>2. /\ \A i \in DOMAIN missed : missed[i].seq > before(i)
      /\ missed[1].prev <= last
      /\ \A i \in DOMAIN missed \ {1} : missed[i].prev = before(i)
      /\ Linked(missed, last) = [missed |-> anew, gap |-> FALSE]
    BY <1>1 DEF Linked
<1>3. Len(missed) \in Nat /\ DOMAIN missed = 1..Len(missed) /\ \A i \in 1..Len(missed) : missed[i] \in Event
    OBVIOUS
<1>4. \A i \in 1..Len(missed) : missed[i].seq \in Nat /\ missed[i].prev \in Nat
    BY <1>3 DEF Event
<1> DEFINE P == {n \in 0..Len(missed) : n = 0 \/ missed[n].seq > last}
<1>5. P = 0..Len(missed)
    <2>1. 0 \in P /\ P \in SUBSET (0..Len(missed))
        BY <1>3
    <2>2. ASSUME NEW n \in 0..(Len(missed) - 1), n \in P PROVE n + 1 \in P
        <3>1. n + 1 \in 1..Len(missed) /\ n + 1 \in 0..Len(missed) /\ n \in Nat
            BY <1>3
        <3>2. missed[n + 1].seq > before(n + 1) /\ missed[n + 1].seq \in Nat
            BY <1>2, <1>3, <1>4, <3>1
        <3>3. CASE n = 0
            BY <3>1, <3>2, <3>3
        <3>4. CASE n # 0
            <4>1. n \in 1..Len(missed) /\ n + 1 # 1 /\ (n + 1) - 1 = n
                BY <3>1, <3>4
            <4>2. missed[n].seq > last /\ missed[n].seq \in Nat /\ before(n + 1) = missed[n].seq
                BY <1>4, <2>2, <3>4, <4>1
            <4> HIDE DEF before
            <4>3. missed[n + 1].seq > last
                BY <3>2, <4>2
            <4>4. QED BY <3>1, <4>3
        <3>5. QED BY <3>3, <3>4
    <2> HIDE DEF P
    <2>3. QED BY <1>3, <2>1, <2>2, SegmentInduction
<1>6. ASSUME NEW i \in 1..Len(missed) PROVE Replays(anew[i], last)
    <2>1. i \in P /\ i # 0
        BY <1>3, <1>5
    <2>2. missed[i].seq > last
        BY <2>1
    <2>3. missed[i] \in ToSet(window)
        BY <1>3 DEF ToSet
    <2>4. PICK b : b = before(i)
        OBVIOUS
    <2>5. anew[i] = [missed[i] EXCEPT !.prev = b]
        BY <1>3, <2>4
    <2>6. missed[i].prev <= b
        <3>1. CASE i = 1
            BY <1>2, <2>4, <3>1
        <3>2. CASE i # 1
            <4>1. missed[i].prev = b
                BY <1>2, <1>3, <2>4, <3>2
            <4>2. QED BY <1>4, <4>1
        <3>3. QED BY <3>1, <3>2
    <2>7. missed[i] \in Event
        BY <1>3
    <2>8. PICK x : x = anew[i]
        OBVIOUS
    <2> HIDE DEF anew, before, P
    <2>9. x.inc = missed[i].inc /\ x.seq = missed[i].seq /\ x.prev = b
        BY <2>5, <2>7, <2>8 DEF Event
    <2>10. QED BY <2>2, <2>3, <2>6, <2>8, <2>9 DEF Replays
<1>7. PICK x : x = anew
    OBVIOUS
<1>8. DOMAIN x = 1..Len(missed) /\ \A i \in 1..Len(missed) : Replays(x[i], last)
    BY <1>3, <1>6, <1>7
<1>9. Linked(missed, last).missed = x
    <2> HIDE DEF anew
    <2>1. QED BY <1>2, <1>7
<1>10. QED BY <1>8, <1>9 DEF ToSet

LEMMA WindowReplays ==
    ASSUME window \in Seq(Event), NEW last \in Nat, ReplayWindowAfter(last).gap = FALSE
    PROVE  /\ \A ev \in ToSet(ReplayWindowAfter(last).missed) : Replays(ev, last)
           /\ last = 0 => ReplayWindowAfter(last).missed = <<>>
           /\ last = 0 \/ last = cursor \/ ReplayWindowAfter(last).missed # <<>>
<1> DEFINE after == {i \in DOMAIN window : window[i].seq > last}
           missed == SubSeq(window, Min(after), Len(window))
<1>1. Gap.gap = TRUE /\ NoReplay.missed = <<>> /\ ToSet(<<>>) = {}
    BY DEF Gap, NoReplay, ToSet
<1>2. \/ (last = 0 \/ last = cursor) /\ ReplayWindowAfter(last) = NoReplay
      \/ last # 0 /\ after # {} /\ ReplayWindowAfter(last) = Linked(missed, last)
    BY <1>1 DEF ReplayWindowAfter
<1>3. CASE (last = 0 \/ last = cursor) /\ ReplayWindowAfter(last) = NoReplay
    BY <1>1, <1>3
<1>4. CASE last # 0 /\ after # {} /\ ReplayWindowAfter(last) = Linked(missed, last)
    <2>1. after \subseteq 1..Len(window) /\ after \subseteq Nat
        OBVIOUS
    <2> HIDE DEF after
    <2>2. PICK k \in after : \A j \in after : k <= j
        BY <1>4, <2>1, NatLeast
    <2>3. Min(after) \in after
        BY <2>2 DEF Min
    <2>4. PICK n \in 1..Len(window) : n = Min(after)
        BY <2>1, <2>3
    <2>5. PICK s : s = SubSeq(window, n, Len(window))
        OBVIOUS
    <2>6. Len(window) \in Nat /\ n \in Nat /\ n >= 1 /\ n <= Len(window)
        BY <2>4
    <2>7. /\ s \in Seq(Event) /\ Len(s) = Len(window) - n + 1
          /\ \A i \in 1..(Len(window) - n + 1) : s[i] = window[n + i - 1]
        <3>1. \A i \in n..Len(window) : window[i] \in Event
            OBVIOUS
        <3> HIDE DEF Event
        <3>2. QED BY <2>5, <2>6, <3>1
    <2>8. ToSet(s) \subseteq ToSet(window)
        <3>1. ASSUME NEW x \in ToSet(s) PROVE x \in ToSet(window)
            <4>1. PICK i \in 1..(Len(window) - n + 1) : x = s[i]
                BY <2>7 DEF ToSet
            <4>2. n + i - 1 \in 1..Len(window) /\ x = window[n + i - 1]
                BY <2>6, <2>7, <4>1
            <4>3. QED BY <4>2 DEF ToSet
        <3>2. QED BY <3>1
    <2>9. s # <<>> /\ DOMAIN s = 1..Len(s) /\ Len(s) >= 1
        <3>1. Len(s) >= 1
            BY <2>6, <2>7
        <3>2. QED BY <2>7, <3>1
    <2>10. ReplayWindowAfter(last) = Linked(s, last)
        BY <1>4, <2>4, <2>5
    <2>11. \A ev \in ToSet(Linked(s, last).missed) : Replays(ev, last)
        BY <2>7, <2>8, <2>10, LinkedReplays
    <2>12. Linked(s, last).missed # <<>>
        <3>1. Linked(s, last).gap = FALSE
            BY <2>10
        <3>2. Linked(s, last) = [missed |-> [i \in DOMAIN s |-> [s[i] EXCEPT !.prev = IF i = 1 THEN last ELSE s[i - 1].seq]],
                                 gap |-> FALSE]
            BY <1>1, <3>1 DEF Linked
        <3>3. DOMAIN Linked(s, last).missed = DOMAIN s
            BY <3>2
        <3>4. 1 \in DOMAIN s /\ DOMAIN <<>> = {}
            BY <2>9
        <3>5. QED BY <3>3, <3>4
    <2>13. QED BY <1>4, <2>10, <2>11, <2>12
<1> HIDE DEF after, missed
<1>5. QED BY <1>2, <1>3, <1>4

LEMMA AnswerSays ==
    ASSUME LogInv, NEW last \in Nat, NEW a, a = Answer(last)
    PROVE  /\ a.at = "found" /\ a.current = cursor
           /\ a.snapshot => a.events = <<>>
           /\ degraded => a.snapshot
           /\ ~a.snapshot => last # 0 /\ \A ev \in ToSet(a.events) : Replays(ev, last)
           /\ ~a.snapshot /\ a.events = <<>> => last = cursor
<1> DEFINE reset == last > cursor
           from == IF reset THEN cursor ELSE last
           found == ReplayWindowAfter(from)
           gap == found.gap \/ reset \/ degraded
<1>1. cursor \in Nat /\ window \in Seq(Event)
    BY DEF LogInv, LogTypes
<1>2. from \in Nat /\ found.gap \in BOOLEAN
    <2>1. from \in Nat
        BY <1>1
    <2> HIDE DEF from
    <2>2. QED BY <1>1, <2>1, ReplayWindowTyped
<1>3. a = [at |-> "found", last |-> from, current |-> cursor, reset |-> reset,
           snapshot |-> gap \/ from = 0, events |-> IF gap THEN <<>> ELSE found.missed]
    BY DEF Answer
<1>4. /\ a.at = "found" /\ a.current = cursor /\ a.snapshot = (gap \/ from = 0)
      /\ a.events = IF gap THEN <<>> ELSE found.missed
    BY <1>3
<1>5. ~gap => /\ \A ev \in ToSet(found.missed) : Replays(ev, from)
              /\ from = 0 => found.missed = <<>>
              /\ from = 0 \/ from = cursor \/ found.missed # <<>>
              /\ from = last
    <2>1. ~gap => found.gap = FALSE /\ from = last
        BY <1>2
    <2> HIDE DEF from
    <2>2. found.gap = FALSE => /\ \A ev \in ToSet(found.missed) : Replays(ev, from)
                               /\ from = 0 => found.missed = <<>>
                               /\ from = 0 \/ from = cursor \/ found.missed # <<>>
        BY <1>1, <1>2, WindowReplays
    <2>3. QED BY <2>1, <2>2
<1>6. degraded => gap
    OBVIOUS
<1> HIDE DEF found, gap, from, reset
<1>7. QED BY <1>4, <1>5, <1>6

LEMMA PageSideLook ==
    ASSUME LogInv, ViewInv, LogSide, PageSide, Look
    PROVE  PageSide'
<1>1. /\ up /\ restore.at = "asked" /\ restore' = Answer(restore.last)
      /\ UNCHANGED <<runtime, writer, deleting, disk, wire, page, ghosts>>
    BY DEF Look
<1>2. /\ restore.last = cur /\ mode = "snapshot" /\ \A m \in ToSet(wire) : ~IsAnswer(m)
    BY <1>1 DEF PageSide, OneRestore
<1>3. PICK a : a = restore'
    OBVIOUS
<1>4. /\ InFlight \subseteq Event /\ cur \in Nat /\ Seen \subseteq Nat \X Nat /\ Fresh \subseteq InFlight
    BY FlightTypes
<1>5. /\ a.at = "found" /\ a.current = cursor
      /\ a.snapshot => a.events = <<>>
      /\ degraded => a.snapshot
      /\ ~a.snapshot => cur # 0 /\ \A ev \in ToSet(a.events) : Replays(ev, cur)
      /\ ~a.snapshot /\ a.events = <<>> => cur = cursor
    BY <1>1, <1>2, <1>3, <1>4, AnswerSays
<1>6. UNCHANGED <<inc, up, degraded, cursor, window, wire, asks, mode, cur, holes, buffer, applied,
                  shown, repeated, kept, origin, behind>>
    BY <1>1 DEF runtime, page, ghosts
<1>7. Logged' = Logged /\ Young' = Young /\ Seen' = Seen
    BY <1>1, <1>6 DEF Logged, Young, Seen, writer
<1>8. Coming = {} /\ Coming' = {a} /\ Announced' = {a} /\ Fresh' = Fresh /\ InFlight = Fresh
    <2>1. \A m \in ToSet(wire) : m.kind # "restored"
        BY <1>2 DEF IsAnswer
    <2>2. Coming = {}
        BY <1>1, <1>2 DEF Coming
    <2>3. Coming' = {a}
        BY <1>2, <1>3, <1>5, <1>6 DEF Coming
    <2>4. Announced' = {a}
        BY <1>3, <1>5, <1>6, <2>1 DEF Announced
    <2>5. Fresh' = Fresh
        BY <1>6 DEF Fresh
    <2>6. QED BY <2>2, <2>3, <2>4, <2>5 DEF InFlight, Missed
<1>9. InFlight' = Fresh \cup ToSet(a.events) /\ (Replayable' <=> ~a.snapshot)
    BY <1>8 DEF InFlight, Missed, Replayable
<1>10. ToSet(<<>>) = {}
    BY DEF ToSet
<1>11. OneRestore'
    BY <1>2, <1>3, <1>5, <1>6 DEF PageSide, OneRestore, IsAnswer
<1>12. SeenOld' /\ \A h \in holes' : h >= 1
    BY <1>6, <1>7 DEF PageSide, SeenOld, Flights
<1>13. /\ kept \subseteq Event /\ Logged \subseteq kept /\ inc \in Nat /\ cursor \in Nat
       /\ ToSet(window) \subseteq Logged
    BY KeptTypes DEF LogSide
<1>14. /\ \A k \in kept : k.inc \in 1..inc /\ k.prev < k.seq
       /\ \A x \in Young \cup ToSet(window) : x.seq <= cursor
       /\ \A x, y \in Young : CountedOn(x, y)
       /\ Young \subseteq Logged /\ origin \in Nat
    BY <1>1 DEF LogSide, Numbered, KeptNumbers, YoungNumbers, Young
<1>15. ASSUME NEW ev \in ToSet(a.events)
       PROVE  \E w \in ToSet(window) :
                  /\ ev.inc = w.inc /\ ev.seq = w.seq /\ w.prev <= ev.prev /\ w.seq > cur
                  /\ w \in kept /\ Id(ev) = Id(w)
    <2>1. ~a.snapshot
        BY <1>5, <1>10, <1>15
    <2>2. PICK w \in ToSet(window) : ev.inc = w.inc /\ ev.seq = w.seq /\ w.prev <= ev.prev /\ w.seq > cur
        BY <1>5, <1>15, <2>1 DEF Replays
    <2>3. QED BY <1>13, <2>2 DEF Id
<1>16. Sent'
    <2>1. ASSUME NEW ev \in ToSet(a.events) PROVE ev.inc <= inc /\ ev.seq <= cursor /\ ev.seq >= 1
        <3>1. PICK w \in ToSet(window) : ev.inc = w.inc /\ ev.seq = w.seq /\ w.seq > cur /\ w \in kept
            BY <1>15
        <3>2. w.inc <= inc /\ w.seq <= cursor /\ w.seq \in Nat
            BY <1>13, <1>14, <3>1 DEF Event
        <3>3. w.seq >= 1
            BY <1>4, <3>1, <3>2
        <3>4. QED BY <3>1, <3>2, <3>3
    <2>2. \A e \in Fresh : e.inc <= inc /\ e.seq <= cursor /\ e.seq >= 1
        BY <1>4 DEF PageSide, Flights, Sent
    <2>3. QED BY <1>6, <1>9, <2>1, <2>2 DEF Sent
<1>17. Continued'
    BY <1>6, <1>7, <1>8 DEF PageSide, Flights, Continued, CountedOn, Precedes, Id
<1>18. Answered'
    <2>1. \A x \in ToSet(window) \cup Young : x.seq <= a.current
        BY <1>5, <1>14
    <2>2. \A id \in Seen : id[1] = inc => id[2] <= a.current
        BY <1>1, <1>5 DEF PageSide, SeenOld
    <2>3. a.current <= cursor
        BY <1>5, <1>13
    <2>4. QED BY <1>5, <1>6, <1>7, <1>8, <2>1, <2>2, <2>3 DEF Answered
<1>19. Following'
    <2>1. SUFFICES ASSUME Synced' PROVE Knows(cur, Seen)' /\ Ordered'
        BY DEF Following
    <2>2. Synced
        BY <1>2, <1>5, <1>6, <1>9, <2>1 DEF Synced, Partial
    <2>3. Knows(cur, Seen) /\ Ordered
        BY <2>2 DEF PageSide, Following
    <2>4. PICK c, seen : c = cur /\ seen = Seen
        OBVIOUS
    <2>5. Knows(c, seen) /\ c \in Nat
        BY <1>4, <2>3, <2>4 DEF Knows
    <2>6. ASSUME NEW ev \in ToSet(a.events)
          PROVE  \E w \in Young : /\ ev.inc = w.inc /\ ev.seq = w.seq /\ w.prev <= ev.prev /\ w.seq > c
                                  /\ w \in kept /\ Id(ev) = Id(w)
        <3>1. PICK w \in ToSet(window) :
                  /\ ev.inc = w.inc /\ ev.seq = w.seq /\ w.prev <= ev.prev /\ w.seq > c
                  /\ w \in kept /\ Id(ev) = Id(w)
            BY <1>15, <2>4
        <3>2. w.seq \in Nat /\ w.inc \in Nat
            BY <1>13, <3>1 DEF Event
        <3>3. ~(w.seq <= c)
            BY <2>5, <3>1, <3>2
        <3>4. ~(w.inc < origin)
            BY <2>5, <3>1, <3>3 DEF Knows
        <3>5. w.inc >= origin
            BY <1>14, <3>2, <3>4
        <3>6. w \in Young
            BY <1>13, <3>1, <3>5 DEF Young
        <3>7. QED BY <3>1, <3>6
    <2>7. ASSUME NEW ev \in ToSet(a.events) PROVE Good(ev, c, seen)
        <3>1. PICK w \in Young : /\ ev.inc = w.inc /\ ev.seq = w.seq /\ w.prev <= ev.prev /\ w.seq > c
                                 /\ w \in kept /\ Id(ev) = Id(w)
            BY <2>6
        <3>2. \A id \in seen : Precedes(id, Id(w))
            BY <2>5, <3>1 DEF Knows
        <3>3. w \in Event /\ w.prev < w.seq /\ w.prev \in Nat /\ w.seq \in Nat
            BY <1>13, <1>14, <3>1 DEF Event
        <3>4. PICK p \in Nat : p = ev.prev
            <4>1. a \in Answers
                BY <1>3, RestoreTyped DEF ViewInv, LinkTypes
            <4>2. a.events \in Seq(Event)
                BY <4>1 DEF Answers
            <4>3. ev \in Event
                BY <4>2, ElementIn
            <4>4. QED BY <4>3 DEF Event
        <3>5. ASSUME NEW k \in Unseen(seen)
              PROVE  ~(p < k.seq /\ k.seq < w.seq) /\ (k.seq = w.seq => Id(k) = Id(w))
            <4>1. k \in kept /\ k \in Event /\ k.prev < k.seq /\ k.prev \in Nat /\ k.seq \in Nat
                BY <1>13, <1>14 DEF Unseen, Event
            <4>2. CountedOn(k, w) /\ CountedOn(w, k)
                BY <2>5, <3>1 DEF Knows
            <4>3. CASE Precedes(Id(k), Id(w))
                <5>1. k.seq <= w.prev
                    BY <4>2, <4>3 DEF CountedOn
                <5>2. QED BY <3>1, <3>3, <3>4, <4>1, <5>1
            <4>4. CASE Precedes(Id(w), Id(k))
                <5>1. w.seq <= k.prev
                    BY <4>2, <4>4 DEF CountedOn
                <5>2. QED BY <3>3, <4>1, <5>1
            <4>5. CASE Id(k) = Id(w)
                <5>1. k.seq = w.seq
                    BY <3>3, <4>1, <4>5, EventsAreOrdered
                <5>2. QED BY <3>3, <4>5, <5>1
            <4>6. QED BY <3>3, <4>1, <4>3, <4>4, <4>5, EventsAreOrdered
        <3>6. QED BY <3>1, <3>2, <3>4, <3>5 DEF Good
    <2>8. \A e \in InFlight' : Good(e, c, seen)
        BY <1>8, <1>9, <2>5, <2>7 DEF Knows
    <2>9. Knows(c, seen)'
        BY <1>6, <1>7, <2>5, <2>8 DEF Knows, Good, Unseen, CountedOn, Precedes, Id
    <2>10. Knows(cur, Seen)'
        BY <1>6, <1>7, <2>4, <2>9 DEF Knows
    <2>11. Ordered'
        <3>1. ASSUME NEW x \in Young, NEW y \in Young
              PROVE  x.inc < y.inc => x.seq < y.seq
            <4>1. x \in Event /\ y \in Event /\ x \in kept /\ y \in kept
                BY <1>13, <1>14
            <4>2. x.seq \in Nat /\ y.seq \in Nat /\ y.prev \in Nat /\ y.prev < y.seq
                BY <1>14, <4>1 DEF Event
            <4>3. SUFFICES ASSUME x.inc < y.inc PROVE x.seq < y.seq
                OBVIOUS
            <4>4. Precedes(Id(x), Id(y))
                BY <4>1, <4>3, EventsAreOrdered
            <4>5. x.seq <= y.prev
                BY <1>14, <4>4 DEF CountedOn
            <4>6. QED BY <4>2, <4>5
        <3>2. ASSUME NEW x \in Young, NEW f \in Fresh
              PROVE  (x.inc < f.inc => x.seq < f.seq) /\ ~(f.inc < x.inc)
            <4>1. /\ f.inc = inc /\ f.prev < f.seq /\ (x.inc < inc => x.seq <= f.prev)
                  /\ f \in Event /\ x \in Event /\ x.inc \in 1..inc
                BY <1>4, <1>13, <1>14 DEF PageSide, Flights, Continued
            <4>2. f.prev \in Nat /\ f.seq \in Nat /\ x.seq \in Nat
                BY <4>1 DEF Event
            <4>3. QED BY <1>13, <4>1, <4>2
        <3>3. ASSUME NEW e \in InFlight', NEW x \in InFlight' \cup Young'
              PROVE  (e.inc < x.inc => e.seq < x.seq) /\ (x.inc < e.inc => x.seq < e.seq)
            <4>1. PICK f \in Fresh \cup Young : f.inc = e.inc /\ f.seq = e.seq
                BY <1>9, <2>6
            <4>2. PICK y \in Fresh \cup Young : y.inc = x.inc /\ y.seq = x.seq
                BY <1>7, <1>9, <2>6
            <4>3. CASE f \in Fresh /\ y \in Fresh
                BY <1>4, <2>3, <4>1, <4>2, <4>3 DEF Ordered
            <4>4. CASE f \in Fresh /\ y \in Young
                BY <3>2, <4>1, <4>2, <4>4
            <4>5. CASE f \in Young /\ y \in Fresh
                BY <3>2, <4>1, <4>2, <4>5
            <4>6. CASE f \in Young /\ y \in Young
                BY <3>1, <4>1, <4>2, <4>6
            <4>7. QED BY <4>3, <4>4, <4>5, <4>6
        <3>4. QED BY <3>3 DEF Ordered
    <2>12. QED BY <2>10, <2>11
<1>20. QED BY <1>6, <1>11, <1>12, <1>16, <1>17, <1>18, <1>19 DEF PageSide, Flights

LEMMA PageSideAnswers ==
    ASSUME LogInv, ViewInv, LogSide, PageSide, SendRestored \/ SendReplay
    PROVE  PageSide'
<1>1. /\ UNCHANGED <<inc, up, degraded, cursor, window, writer, disk, page, shown, repeated,
                     kept, origin, behind>>
      /\ restore.at \in {"found", "sent"}
    BY DEF SendRestored, SendReplay, ghosts
<1>2. UNCHANGED <<asks, mode, cur, holes, buffer, applied>>
    BY <1>1 DEF page
<1>3. Logged' = Logged /\ Young' = Young /\ Seen' = Seen
    BY <1>1, <1>2 DEF Logged, Young, Seen, writer
<1>4. restore \in Answers /\ wire \in Seq(OnWire) /\ mode # "off" /\ eventSeq \in Nat
      /\ ToSet(wire) \subseteq OnWire
    <2>1. restore.at # NoRestore.at
        BY <1>1 DEF NoRestore
    <2>2. ViewInv /\ eventSeq \in Nat
        BY DEF LogInv, LogTypes
    <2>3. QED BY <2>1, <2>2, ElementIn DEF ViewInv, LinkTypes, Disconnected
<1>5. PICK m : m = Message(IF restore.at = "found" THEN "restored" ELSE "replay", restore)
    OBVIOUS
<1>6. /\ m \in OnWire /\ m.answer = restore /\ IsAnswer(m)
      /\ m.kind = IF restore.at = "found" THEN "restored" ELSE "replay"
    <2>1. m.answer = restore /\ m.kind = IF restore.at = "found" THEN "restored" ELSE "replay"
        BY <1>5 DEF Message
    <2>2. m \in OnWire
        <3> HIDE DEF Answers
        <3>1. QED BY <1>4, <1>5 DEF Message, OnWire
    <2>3. QED BY <2>1, <2>2 DEF IsAnswer
<1>7. wire' = Append(wire, m)
    BY <1>4, <1>5 DEF SendRestored, SendReplay, Deliver
<1>8. ToSet(wire') = ToSet(wire) \cup {m}
    BY <1>4, <1>6, <1>7, AppendSet
<1>9. \/ /\ restore.at = "found" /\ m.kind = "restored"
         /\ \/ restore.events = <<>> /\ restore'.at = "none"
            \/ /\ restore.events # <<>> /\ restore'.at = "sent"
               /\ restore'.events = restore.events /\ restore'.snapshot = restore.snapshot
      \/ restore.at = "sent" /\ m.kind = "replay" /\ restore'.at = "none"
    <2>1. CASE SendRestored
        <3>1. restore.at = "found" /\ restore' = AfterRestored(restore)
            BY <2>1 DEF SendRestored
        <3>2. NoRestore.at = "none"
            BY DEF NoRestore
        <3>3. PICK r : r = [restore EXCEPT !.at = "sent"]
            OBVIOUS
        <3>4. r.at = "sent" /\ r.events = restore.events /\ r.snapshot = restore.snapshot
            BY <1>4, <3>3 DEF Answers
        <3>5. restore' = IF restore.events = <<>> THEN NoRestore ELSE r
            BY <3>1, <3>3 DEF AfterRestored
        <3>6. CASE restore.events = <<>>
            BY <1>6, <3>1, <3>2, <3>5, <3>6
        <3>7. CASE restore.events # <<>>
            BY <1>6, <3>1, <3>4, <3>5, <3>7
        <3>8. QED BY <3>6, <3>7
    <2>2. CASE SendReplay
        <3>1. restore.at = "sent" /\ restore' = NoRestore /\ NoRestore.at = "none"
            BY <2>2 DEF SendReplay, NoRestore
        <3>2. QED BY <1>6, <3>1
    <2>3. QED BY <2>1, <2>2
<1>10. restore \in Coming /\ (restore.at = "found" => restore \in Announced)
    BY <1>1 DEF Coming, Announced
<1>11. NothingNew
    <2>1. Fresh' \subseteq Fresh
        BY <1>2, <1>6, <1>8 DEF Fresh, IsAnswer
    <2>2. Announced' \subseteq Announced
        BY <1>6, <1>8, <1>9, <1>10 DEF Announced
    <2>3. ASSUME NEW b \in Coming' PROVE \E d \in Coming : b.events = d.events /\ b.snapshot = d.snapshot
        <3>1. CASE b = restore' /\ restore'.at = "sent"
            BY <1>9, <1>10, <3>1
        <3>2. CASE ~(b = restore' /\ restore'.at = "sent")
            <4>1. PICK x \in ToSet(wire') : IsAnswer(x) /\ b = x.answer
                <5>1. restore'.at # "found"
                    BY <1>9
                <5>2. QED BY <2>3, <3>2, <5>1 DEF Coming
            <4>2. CASE x = m
                BY <1>6, <1>10, <4>1, <4>2
            <4>3. CASE x # m
                <5>1. b \in Coming
                    BY <1>8, <4>1, <4>3 DEF Coming
                <5>2. QED BY <5>1
            <4>4. QED BY <4>2, <4>3
        <3>3. QED BY <3>1, <3>2
    <2>4. QED BY <2>1, <2>2, <2>3 DEF NothingNew
<1>12. Synced' => Synced
    BY <1>1, <1>2, <1>11, NothingNewInFlight DEF Synced, Partial
<1>13. SeenOld' /\ Flights' /\ Following'
    BY <1>1, <1>2, <1>3, <1>11, <1>12, PageSideStays DEF PageSide
<1>14. OneRestore'
    <2>1. Sorted(wire', AnswerOrder)
        <3>1. \A x \in ToSet(wire) : <<x, m>> \in AnswerOrder
            <4>1. CASE restore.at = "found"
                BY <1>4, <1>6, <4>1 DEF PageSide, OneRestore, AnswerOrder
            <4>2. CASE restore.at = "sent"
                BY <1>4, <1>6, <4>2 DEF PageSide, OneRestore, AnswerOrder
            <4>3. QED BY <1>1, <4>1, <4>2
        <3>2. QED BY <1>4, <1>6, <1>7, <3>1, SortedAppend DEF PageSide, OneRestore
    <2>2. CASE restore.at = "found"
        <3>1. /\ m.kind = "restored" /\ mode = "snapshot"
              /\ \A x \in ToSet(wire) : ~IsAnswer(x) /\ x.kind # "restored" /\ x.kind # "replay"
            BY <1>6, <2>2 DEF PageSide, OneRestore, IsAnswer
        <3>2. ASSUME restore.events # <<>> PROVE ~restore.snapshot
            BY <1>10, <3>2 DEF PageSide, Flights, Answered
        <3>3. \A x \in ToSet(wire') :
                  /\ x.kind = "replay" => ~x.answer.snapshot
                  /\ x.kind = "restored" => mode' = "snapshot"
                  /\ x.kind = "restored" /\ x.answer.events = <<>> =>
                        restore'.at = "none" /\ \A y \in ToSet(wire') : y.kind # "replay"
            BY <1>2, <1>6, <1>8, <1>9, <2>2, <3>1
        <3>4. restore'.at = "sent" => ~restore'.snapshot
            BY <1>9, <2>2, <3>2
        <3>5. restore'.at \notin {"asked", "found"}
            BY <1>9, <2>2
        <3>6. QED BY <2>1, <3>3, <3>4, <3>5 DEF OneRestore
    <2>3. CASE restore.at = "sent"
        <3>1. restore'.at = "none" /\ m.kind = "replay" /\ ~m.answer.snapshot
            BY <1>6, <1>9, <2>3 DEF PageSide, OneRestore
        <3>2. \A x \in ToSet(wire) :
                  /\ x.kind = "replay" => ~x.answer.snapshot
                  /\ x.kind = "restored" => mode = "snapshot"
                  /\ ~(x.kind = "restored" /\ x.answer.events = <<>>)
            BY <2>3 DEF PageSide, OneRestore
        <3>3. QED BY <1>2, <1>8, <2>1, <3>1, <3>2 DEF OneRestore
    <2>4. QED BY <1>1, <2>2, <2>3
<1>15. QED BY <1>1, <1>13, <1>14 DEF PageSide

\* The renderer connects: nothing is on its way yet.
LEMMA JoinParts ==
    ASSUME ViewInv, Join, \A h \in holes : h >= 1
    PROVE  /\ Coming' = {} /\ Fresh' = {} /\ InFlight' = {} /\ ~Replayable' /\ ~Replayable /\ NothingNew
           /\ Announced' = {} /\ OneRestore' /\ Flights' /\ mode = "off"
           /\ UNCHANGED <<cur, holes, applied>>
           /\ mode' = IF asks THEN "snapshot" ELSE "live"
<1>1. /\ mode = "off" /\ UNCHANGED <<cur, holes, applied, buffer, wire>>
      /\ mode' = IF asks THEN "snapshot" ELSE "live"
      /\ restore' = IF asks THEN Ask(cur) ELSE NoRestore
    BY DEF Join
<1>2. wire' = <<>> /\ buffer' = <<>> /\ wire = <<>> /\ buffer = <<>> /\ restore = NoRestore
    BY <1>1 DEF ViewInv, Disconnected
<1>3. /\ NoRestore.at = "none"
      /\ restore'.at = IF asks THEN "asked" ELSE "none"
      /\ asks => restore'.last = cur
    BY <1>1 DEF Ask, NoRestore
<1>4. Coming' = {} /\ Fresh' = {} /\ InFlight' = {} /\ NothingNew
    BY <1>2, <1>3, NothingOnWire
<1>5. ToSet(wire') = {} /\ ToSet(wire) = {}
    BY <1>2 DEF ToSet
<1>6. Announced' = {} /\ Coming = {}
    BY <1>2, <1>3, <1>5 DEF Announced, Coming
<1>7. OneRestore'
    <2>1. Sorted(wire, AnswerOrder)'
        BY <1>2, SortedEmpty
    <2>2. restore'.at \in {"asked", "found"} => asks
        BY <1>3
    <2>3. QED BY <1>1, <1>3, <1>5, <2>1, <2>2 DEF OneRestore
<1>8. Flights'
    BY <1>1, <1>4, <1>6 DEF Flights, Sent, Continued, Answered
<1>9. QED BY <1>1, <1>4, <1>6, <1>7, <1>8 DEF Replayable

\* With nothing kept there is nothing to know but the numbers.
LEMMA KnowsNothing ==
    ASSUME LogInv', Numbered', kept' = {}, InFlight' = {}, NEW c, NEW seen,
           up' => c <= cursor', \A id \in seen : id[1] = inc' => id[2] <= c
    PROVE  Knows(c, seen)' /\ Ordered'
<1>1. (ToSet(window) \subseteq Logged)'
    BY DEF Logged
<1>2. Logged' = {}
    BY DEF Numbered, KeptNumbers
<1>3. Young' = {} /\ ToSet(window') = {} /\ Unseen(seen)' = {}
    BY <1>1, <1>2 DEF Young, Unseen
<1>4. QED BY <1>3 DEF Knows, Ordered

LEMMA PageSideAttach ==
    ASSUME LogInv, LogInv', ViewInv, LogSide, LogSide', PageSide, Attach
    PROVE  PageSide'
<1>1. /\ up /\ Join /\ behind' = (behind \/ Misses(cursor))
      /\ UNCHANGED <<inc, up, degraded, cursor, window, writer, disk, shown, repeated, kept, origin>>
    BY DEF Attach, runtime
<1>2. /\ Coming' = {} /\ Fresh' = {} /\ InFlight' = {} /\ ~Replayable' /\ ~Replayable /\ NothingNew
      /\ Announced' = {} /\ OneRestore' /\ Flights' /\ mode = "off"
      /\ UNCHANGED <<cur, holes, applied>>
      /\ mode' = IF asks THEN "snapshot" ELSE "live"
    BY <1>1, JoinParts DEF PageSide, Flights
<1>3. Logged' = Logged /\ Young' = Young /\ Seen' = Seen
    BY <1>1, <1>2 DEF Logged, Young, Seen, writer
<1>4. SeenOld'
    BY <1>1, <1>3 DEF PageSide, SeenOld
<1>5. CASE asks
    <2>1. Synced' => Synced
        BY <1>1, <1>2, <1>5 DEF Synced, Partial
    <2>2. Following'
        BY <1>1, <1>2, <1>3, <2>1, PageSideStays DEF PageSide
    <2>3. QED BY <1>1, <1>2, <1>4, <2>2 DEF PageSide
<1>6. CASE ~asks
    <2>1. SUFFICES ASSUME Synced' PROVE Knows(cur, Seen)' /\ Ordered'
        BY <1>1, <1>2, <1>4 DEF PageSide, Following
    <2>2. cur = cursor /\ kept = {}
        BY <1>1, <1>6, <2>1 DEF Synced, Misses
    <2>3. PICK c, seen : c = cur /\ seen = Seen
        OBVIOUS
    <2>4. \A id \in seen : id[1] = inc' => id[2] <= c
        BY <1>1, <2>2, <2>3 DEF PageSide, SeenOld
    <2>5. c <= cursor'
        <3>1. cursor \in Nat
            BY DEF LogInv, LogTypes
        <3>2. QED BY <1>1, <2>2, <2>3, <3>1
    <2>6. Knows(c, seen)' /\ Ordered'
        BY <1>1, <1>2, <2>2, <2>4, <2>5, KnowsNothing DEF LogSide
    <2>7. QED BY <1>2, <1>3, <2>3, <2>6 DEF Knows
<1>7. QED BY <1>5, <1>6

LEMMA PageSideCreate ==
    ASSUME LogInv, LogInv', ViewInv, LogSide, LogSide', PageSide,
           NEW readable \in BOOLEAN, Create(readable)
    PROVE  PageSide'
<1> DEFINE loaded == IF readable THEN Retained(disk) ELSE <<>>
           top == Top(loaded)
<1>1. /\ ~up /\ up' = TRUE /\ Join /\ inc' = inc + 1 /\ cursor' = top /\ window' = loaded
      /\ degraded' = ~readable /\ origin' = IF readable THEN origin ELSE inc + 1
      /\ behind' = (behind \/ Misses(top) \/ Forgets(top, readable))
      /\ UNCHANGED <<queue, write, disk, shown, repeated, kept>>
    BY DEF Create, writer
<1>2. /\ Coming' = {} /\ Fresh' = {} /\ InFlight' = {} /\ ~Replayable' /\ ~Replayable /\ NothingNew
      /\ Announced' = {} /\ OneRestore' /\ Flights' /\ mode = "off"
      /\ UNCHANGED <<cur, holes, applied>>
      /\ mode' = IF asks THEN "snapshot" ELSE "live"
    BY <1>1, JoinParts DEF PageSide, Flights
<1>3. /\ disk \in Seq(Event) /\ kept \subseteq Event /\ Logged \subseteq kept /\ inc \in Nat
    BY KeptTypes DEF LogSide
<1>4. /\ Logged = ToSet(disk) /\ Whole(disk)
    BY <1>1, StoppedLog
<1>5. Seen' = Seen /\ Seen \subseteq Nat \X Nat /\ cur \in Nat /\ holes \subseteq Nat
    BY <1>1, <1>2, FlightTypes DEF Seen
<1>6. ASSUME NEW id \in Seen PROVE id[1] <= inc' /\ id[1] # inc'
    <2>1. id[1] <= inc /\ id[1] \in Nat
        BY <1>5 DEF PageSide, SeenOld
    <2>2. QED BY <1>1, <1>3, <2>1
<1>7. SeenOld'
    BY <1>5, <1>6 DEF SeenOld
<1>8. /\ loaded \in Seq(Event) /\ ToSet(loaded) \subseteq ToSet(disk)
    <2>1. <<>> \in Seq(Event) /\ ToSet(<<>>) = {}
        BY EmptySeq DEF ToSet
    <2>2. QED BY <1>3, <2>1, RetainedIsEnd
<1>9. top \in Nat
    <2> HIDE DEF loaded
    <2>1. QED BY <1>8, TopTyped
<1>10. SUFFICES ASSUME Synced' PROVE Knows(cur, Seen)' /\ Ordered'
    BY <1>1, <1>2, <1>7 DEF PageSide, Following
<1>11. ~behind /\ ~Misses(top) /\ ~Forgets(top, readable)
    BY <1>1, <1>10 DEF Synced
<1>12. PICK c, seen : c = cur /\ seen = Seen
    OBVIOUS
<1>13. CASE ~asks
    <2>1. cur = top /\ kept = {}
        BY <1>11, <1>13 DEF Misses
    <2>2. c <= cursor'
        BY <1>1, <1>9, <1>12, <2>1
    <2>3. \A id \in seen : id[1] = inc' => id[2] <= c
        BY <1>6, <1>12
    <2>4. Knows(c, seen)' /\ Ordered'
        BY <1>1, <1>2, <2>1, <2>2, <2>3, KnowsNothing DEF LogSide
    <2>5. QED BY <1>2, <1>5, <1>12, <2>4 DEF Knows
<1>14. CASE asks
    <2>1. holes # {} \/ (cur # 0 /\ ~(Partial' /\ degraded'))
        BY <1>2, <1>10, <1>14 DEF Synced
    <2>2. ASSUME top = 0, cur <= top PROVE FALSE
        <3>1. cur = 0
            BY <1>5, <2>2
        <3>2. PICK h \in holes : TRUE
            BY <2>1, <3>1
        <3>3. h \in Nat /\ h >= 1
            BY <1>5 DEF PageSide, Flights
        <3>4. h > top
            BY <2>2, <3>3
        <3>5. QED BY <1>11, <3>4 DEF Forgets
    <2>3. readable
        <3>1. SUFFICES ASSUME ~readable PROVE FALSE
            OBVIOUS
        <3>2. Partial' /\ degraded'
            <4>1. origin' = inc' /\ origin' # 0
                BY <1>1, <1>3, <3>1
            <4>2. QED BY <1>1, <3>1, <4>1 DEF Partial
        <3>3. PICK h \in holes : TRUE
            BY <2>1, <3>2
        <3>4. h \in Nat /\ h >= 1
            BY <1>5 DEF PageSide, Flights
        <3>5. top = 0
            <4>1. loaded = <<>> /\ Top(<<>>) \in Seqs(<<>>) \cup {0}
                BY <3>1, EmptySeq, TopTyped
            <4>2. Seqs(<<>>) = {}
                BY DEF Seqs, ToSet
            <4>3. QED BY <4>1, <4>2
        <3>6. h > top
            BY <3>4, <3>5
        <3>7. QED BY <1>11, <3>6 DEF Forgets
    <2>4. /\ ~Partial /\ ~(cur > top) /\ cur <= top
          /\ \A e \in ToSet(disk) : e.inc < origin => ~(e.seq > cur)
          /\ origin' = origin
        <3>1. ~Partial /\ ~(cur > top) /\ \A e \in ToSet(disk) : e.inc < origin => ~(e.seq > cur)
            BY <1>11, <2>3 DEF Forgets
        <3> HIDE DEF top
        <3>2. QED BY <1>1, <1>5, <1>9, <2>3, <3>1
    <2>5. Synced
        BY <1>11, <2>1, <2>4 DEF Synced
    <2>6. Knows(c, seen) /\ c \in Nat /\ c <= top
        BY <1>5, <1>12, <2>4, <2>5 DEF PageSide, Following, Knows
    <2>7. Young' = Young /\ Young \subseteq ToSet(disk) /\ ToSet(window') \subseteq ToSet(disk)
        <3>1. ToSet(queue') = {} /\ ToSet(write') = {}
            BY <1>1, StoppedLog DEF ToSet
        <3>2. Logged' = ToSet(disk)
            <4> HIDE DEF loaded
            <4>1. QED BY <1>1, <1>8, <3>1 DEF Logged
        <3>3. Young' = Young
            BY <1>4, <2>4, <3>2 DEF Young
        <3>4. QED BY <1>1, <1>4, <1>8, <3>3 DEF Young
    <2>8. Unseen(seen)' = Unseen(seen) /\ Unseen(seen) \subseteq kept
        BY <1>1 DEF Unseen
    <2>9. ASSUME NEW k \in Unseen(seen) PROVE k.seq <= top
        <3>1. disk # <<>>
            <4>1. SUFFICES ASSUME disk = <<>> PROVE FALSE
                OBVIOUS
            <4>2. ToSet(loaded) = {}
                <5>1. ToSet(disk) = {}
                    BY <4>1 DEF ToSet
                <5> HIDE DEF loaded
                <5>2. QED BY <1>8, <5>1
            <4>3. Top(loaded) \in Seqs(loaded) \cup {0}
                <5> HIDE DEF loaded
                <5>1. QED BY <1>8, TopTyped
            <4>4. top = 0
                BY <4>2, <4>3 DEF Seqs
            <4>5. QED BY <2>2, <2>4, <4>4
        <3>2. PICK l \in ToSet(Retained(disk)) :
                  /\ l \in ToSet(disk) /\ l.seq <= Top(Retained(disk))
                  /\ \A x \in ToSet(disk) : x = l \/ Precedes(Id(x), Id(l))
            BY <1>3, <1>4, <3>1, RetainedLast DEF Whole
        <3>3. l \in Event /\ k \in Event /\ l \in kept /\ k \in kept /\ l \in Logged
            BY <1>3, <1>4, <2>8, <3>2
        <3>4. l.seq \in Nat /\ k.seq \in Nat /\ l.prev \in Nat /\ l.inc \in Nat /\ k.inc \in Nat
            BY <3>3 DEF Event
        <3>5. l.seq <= top
            BY <2>3, <3>2
        <3>6. CASE Id(k) = Id(l)
            <4>1. k.seq = l.seq
                BY <3>3, <3>6, EventsAreOrdered
            <4>2. QED BY <3>5, <4>1
        <3>7. CASE Precedes(Id(k), Id(l))
            <4>1. k.inc <= l.inc
                <5>1. k.inc < l.inc \/ k.inc = l.inc
                    BY <3>3, <3>7, EventsAreOrdered
                <5>2. QED BY <3>4, <5>1
            <4>2. k.inc >= origin /\ origin \in Nat
                BY <2>6 DEF Knows, LogSide, Numbered, YoungNumbers
            <4>3. l.inc >= origin
                BY <3>4, <4>1, <4>2
            <4>4. l \in Young
                BY <3>3, <4>3 DEF Young
            <4>5. k.seq <= l.prev /\ l.prev < l.seq
                BY <2>6, <3>3, <3>7, <4>4 DEF Knows, CountedOn, LogSide, Numbered, KeptNumbers
            <4> HIDE DEF top
            <4>6. QED BY <1>9, <3>4, <3>5, <4>5
        <3>8. CASE Precedes(Id(l), Id(k))
            <4>1. k \in ToSet(disk)
                BY <1>4, <3>2, <3>3, <3>8 DEF Whole, Closed
            <4>2. k = l \/ Precedes(Id(k), Id(l))
                BY <3>2, <4>1
            <4>3. QED BY <3>3, <3>8, <4>2, EventsAreOrdered
        <3>9. QED BY <3>3, <3>6, <3>7, <3>8, EventsAreOrdered
    <2>10. \A x \in ToSet(window') : x.inc < origin => x.seq <= c
        <3>1. \A x \in ToSet(disk) : x \in Event /\ x.seq \in Nat
            BY <1>3, <1>4 DEF Event
        <3>2. \A x \in ToSet(disk) : x.inc < origin => ~(x.seq > c)
            BY <1>12, <2>4
        <3>3. \A x \in ToSet(disk) : x.inc < origin => x.seq <= c
            BY <2>6, <3>1, <3>2
        <3>4. QED BY <2>7, <3>3
    <2>11. \A id \in seen : id[1] # inc'
        BY <1>6, <1>12
    <2> HIDE DEF loaded, top
    <2>12. \A k \in Unseen(seen)' : /\ k.seq > c /\ k.inc >= origin' /\ k.seq <= cursor'
                                    /\ \A x \in Young' : CountedOn(k, x) /\ CountedOn(x, k)
        BY <1>1, <2>4, <2>6, <2>7, <2>8, <2>9 DEF Knows
    <2>13. \A x \in Young' : x.seq > c => \A id \in seen : Precedes(id, Id(x))
        BY <2>6, <2>7 DEF Knows
    <2>14. Knows(c, seen)'
        BY <1>1, <1>2, <2>4, <2>6, <2>10, <2>11, <2>12, <2>13 DEF Knows, CountedOn, Precedes, Id
    <2>15. Ordered'
        BY <1>2 DEF Ordered
    <2>16. QED BY <1>2, <1>5, <1>12, <2>14, <2>15 DEF Knows
<1>15. QED BY <1>13, <1>14

-----------------------------------------------------------------------------
(* What a batch leaves.                                                    *)

\* An event is ignored, or fails, or follows the cursor.
LEMMA ApplySays ==
    ASSUME NEW st \in Progress, NEW e \in Event, NEW bad, NEW r, r = Apply(st, e, bad)
    PROVE  /\ r \in Progress
           /\ \/ r = st
              \/ /\ r.cur = st.cur /\ r.applied = st.applied /\ r.shown = st.shown
                 /\ r.repeated = st.repeated /\ r.holes = st.holes \cup {e.seq}
              \/ /\ e.prev = st.cur /\ e.seq > st.cur
                 /\ r.cur = e.seq /\ r.applied = st.applied \cup {Id(e)} /\ r.shown = st.shown
                 /\ r.holes \subseteq st.holes
                 /\ r.repeated = (st.repeated \/ (~behind /\ NotAfter(st, e)))
<1>1. r \in Progress
    BY ApplyTyped
<1>2. st.cur \in Nat /\ e.seq \in Nat
    BY DEF Progress, Event
<1>3. PICK x : x = [st EXCEPT !.ok = FALSE, !.holes = @ \cup {e.seq}]
    OBVIOUS
<1>4. PICK again : again = (st.repeated \/ (~behind /\ NotAfter(st, e)))
    OBVIOUS
<1>5. PICK y : y = [st EXCEPT !.cur = e.seq, !.holes = @ \ {e.seq}, !.applied = @ \cup {Id(e)},
                              !.repeated = again]
    OBVIOUS
<1>6. \/ r = st
      \/ r = x
      \/ ~(e.seq <= st.cur) /\ e.prev = st.cur /\ r = y
    BY <1>3, <1>4, <1>5 DEF Apply, Ignored
<1>7. x.cur = st.cur /\ x.applied = st.applied /\ x.shown = st.shown
      /\ x.repeated = st.repeated /\ x.holes = st.holes \cup {e.seq}
    BY <1>3 DEF Progress
<1>8. /\ y.cur = e.seq /\ y.applied = st.applied \cup {Id(e)} /\ y.shown = st.shown
      /\ y.holes \subseteq st.holes /\ y.repeated = again
    BY <1>5 DEF Progress
<1>9. QED BY <1>1, <1>2, <1>4, <1>6, <1>7, <1>8

LEMMA NextKnown ==
    ASSUME LogInv, ViewInv, LogSide, up, Sent, Ordered, NEW c \in Nat, NEW seen \in SUBSET (Nat \X Nat),
           Knows(c, seen), NEW e \in InFlight, e.prev = c, e.seq > c
    PROVE  Knows(e.seq, seen \cup {Id(e)})
<1> DEFINE d == e.seq
           more == seen \cup {Id(e)}
<1>1. /\ InFlight \subseteq Event /\ kept \subseteq Event /\ Logged \subseteq kept /\ cursor \in Nat
      /\ ToSet(window) \subseteq Logged /\ Young \subseteq Logged
    BY FlightTypes, KeptTypes DEF LogSide, Young
<1>2. /\ e \in Event /\ d \in Nat /\ e.inc \in Nat /\ e.prev \in Nat /\ Id(e) \in Nat \X Nat
      /\ Id(e)[1] = e.inc /\ Id(e)[2] = d /\ d <= cursor
    BY <1>1, EventsAreOrdered DEF Sent
<1> HIDE DEF d
<1>3. d > c /\ e.prev = c
    BY DEF d
<1>4. Unseen(more) \subseteq Unseen(seen) /\ \A k \in Unseen(more) : k \in kept /\ Id(k) # Id(e)
    BY DEF Unseen
<1>5. ASSUME NEW k \in Unseen(more)
      PROVE  /\ k.seq > d /\ k.inc >= origin /\ k.seq <= cursor
             /\ \A x \in Young : CountedOn(k, x) /\ CountedOn(x, k)
    <2>1. /\ k.seq > c /\ k.inc >= origin /\ k.seq <= cursor
          /\ \A x \in Young : CountedOn(k, x) /\ CountedOn(x, k)
        BY <1>4 DEF Knows
    <2>2. Good(e, c, seen)
        BY DEF Knows
    <2>3. ~(c < k.seq /\ k.seq < d) /\ k.seq # d
        BY <1>3, <1>4, <2>2 DEF Good, d
    <2>4. k.seq \in Nat
        BY <1>1, <1>4 DEF Event
    <2>5. k.seq > d
        BY <1>2, <2>1, <2>3, <2>4
    <2>6. QED BY <2>1, <2>5
<1>6. ASSUME NEW id \in more, id[1] = inc PROVE id[2] <= d
    <2>1. CASE id \in seen
        <3>1. id[2] <= c /\ id[2] \in Nat
            BY <1>6, <2>1 DEF Knows
        <3>2. QED BY <1>2, <1>3, <3>1
    <2>2. CASE id = Id(e)
        BY <1>2, <2>2
    <2>3. QED BY <1>6, <2>1, <2>2
\* The event comes before every later one on its way or in the log.
<1>7. ASSUME NEW x \in InFlight \cup Young, x.seq > d PROVE Precedes(Id(e), Id(x))
    <2>1. x \in Event
        BY <1>1
    <2>2. x.seq \in Nat /\ x.inc \in Nat
        BY <2>1 DEF Event
    <2>3. ~(x.inc < e.inc)
        <3>1. x.inc < e.inc => x.seq < d
            BY DEF Ordered, d
        <3>2. QED BY <1>2, <1>7, <2>2, <3>1
    <2>4. e.inc < x.inc \/ (e.inc = x.inc /\ e.seq < x.seq)
        BY <1>2, <1>7, <2>2, <2>3 DEF d
    <2>5. QED BY <1>2, <2>1, <2>4, EventsAreOrdered
<1>8. ASSUME NEW x, NEW n \in Nat, n = x.seq, n > d PROVE n > c
    BY <1>2, <1>3, <1>8
<1>9. ASSUME NEW x \in Young, x.seq > d, NEW id \in more PROVE Precedes(id, Id(x))
    <2>1. x.seq \in Nat
        BY <1>1 DEF Event
    <2>2. x.seq > c
        BY <1>8, <1>9, <2>1
    <2>3. CASE id \in seen
        BY <2>2, <2>3 DEF Knows
    <2>4. CASE id = Id(e)
        BY <1>7, <1>9, <2>4
    <2>5. QED BY <1>9, <2>3, <2>4
<1>10. ASSUME NEW x \in ToSet(window), x.inc < origin PROVE x.seq <= d
    <2>1. x.seq <= c /\ x.seq \in Nat
        BY <1>1, <1>10 DEF Knows, Event
    <2>2. QED BY <1>2, <1>3, <2>1
<1>11. ASSUME NEW f \in InFlight PROVE Good(f, d, more)
    <2>1. Good(f, c, seen) /\ f \in Event
        BY <1>1 DEF Knows
    <2>2. ASSUME f.seq > d, NEW id \in more PROVE Precedes(id, Id(f))
        <3>1. f.seq \in Nat
            BY <2>1 DEF Event
        <3>2. f.seq > c
            BY <1>8, <2>2, <3>1
        <3>3. CASE id \in seen
            BY <2>1, <3>2, <3>3 DEF Good
        <3>4. CASE id = Id(e)
            BY <1>7, <2>2, <3>4
        <3>5. QED BY <2>2, <3>3, <3>4
    <2>3. QED BY <1>4, <2>1, <2>2 DEF Good
<1> HIDE DEF more
<1>12. Knows(d, more)
    BY <1>2, <1>5, <1>6, <1>9, <1>10, <1>11 DEF Knows
<1>13. QED BY <1>12 DEF d, more

\* The state of a renderer in a batch: `known`, what it knows at its cursor.
Sound(st, known, moved) ==
    /\ st \in Progress /\ ~st.repeated
    /\ \A h \in st.holes : h >= 1
    /\ \A id \in st.applied \cup st.shown : id[1] <= inc /\ (id[1] = inc => id[2] <= cursor)
    /\ moved => st.cur # 0
    /\ known => Knows(st.cur, st.applied \cup st.shown)

LEMMA BatchStays ==
    ASSUME LogInv, ViewInv, LogSide, up, Sent, NEW known \in BOOLEAN, NEW moved \in BOOLEAN,
           known => Ordered, ~behind => known,
           NEW st, Sound(st, known, moved),
           NEW s \in Seq(Event), ToSet(s) \subseteq InFlight, NEW bad
    PROVE  Sound(Handled(st, s, bad), known, moved)
<1> DEFINE X == {x \in Progress : Sound(x, known, moved)}
<1>1. st \in X
    BY DEF Sound
<1>2. InFlight \subseteq Event /\ inc \in Nat /\ cursor \in Nat
    BY FlightTypes, KeptTypes DEF LogSide
<1>3. ASSUME NEW x \in X, NEW e \in ToSet(s) PROVE Apply(x, e, bad) \in X
    <2>1. /\ x \in Progress /\ Sound(x, known, moved) /\ e \in InFlight /\ e \in Event
        BY <1>2
    <2>2. PICK r : r = Apply(x, e, bad)
        OBVIOUS
    <2>3. /\ r \in Progress
          /\ \/ r = x
             \/ /\ r.cur = x.cur /\ r.applied = x.applied /\ r.shown = x.shown
                /\ r.repeated = x.repeated /\ r.holes = x.holes \cup {e.seq}
             \/ /\ e.prev = x.cur /\ e.seq > x.cur
                /\ r.cur = e.seq /\ r.applied = x.applied \cup {Id(e)} /\ r.shown = x.shown
                /\ r.holes \subseteq x.holes
                /\ r.repeated = (x.repeated \/ (~behind /\ NotAfter(x, e)))
        BY <2>1, <2>2, ApplySays
    <2>4. e.seq >= 1 /\ e.seq \in Nat /\ e.inc <= inc /\ e.seq <= cursor /\ e.inc \in Nat
          /\ Id(e) \in Nat \X Nat /\ Id(e)[1] = e.inc /\ Id(e)[2] = e.seq
        BY <2>1, EventsAreOrdered DEF Sent
    <2>5. x.cur \in Nat /\ x.applied \cup x.shown \in SUBSET (Nat \X Nat)
        BY <2>1 DEF Progress
    <2>6. CASE r = x
        BY <2>2, <2>6
    <2>7. CASE /\ r.cur = x.cur /\ r.applied = x.applied /\ r.shown = x.shown
               /\ r.repeated = x.repeated /\ r.holes = x.holes \cup {e.seq}
        <3>1. Sound(r, known, moved)
            BY <2>1, <2>3, <2>4, <2>7 DEF Sound
        <3>2. QED BY <2>2, <2>3, <3>1
    <2>8. CASE /\ e.prev = x.cur /\ e.seq > x.cur
               /\ r.cur = e.seq /\ r.applied = x.applied \cup {Id(e)} /\ r.shown = x.shown
               /\ r.holes \subseteq x.holes
               /\ r.repeated = (x.repeated \/ (~behind /\ NotAfter(x, e)))
        <3>1. PICK seen \in SUBSET (Nat \X Nat) : seen = x.applied \cup x.shown
            BY <2>5
        <3>2. r.applied \cup r.shown = seen \cup {Id(e)}
            BY <2>8, <3>1
        <3>3. known => Knows(x.cur, seen)
            BY <2>1, <3>1 DEF Sound
        <3>4. known => Knows(r.cur, r.applied \cup r.shown)
            BY <2>1, <2>5, <2>8, <3>2, <3>3, NextKnown
        <3>5. ~r.repeated
            <4>1. SUFFICES ASSUME ~behind, NotAfter(x, e) PROVE FALSE
                BY <2>1, <2>8 DEF Sound
            <4>2. PICK id \in seen : id[1] > e.inc \/ (id[1] = e.inc /\ id[2] >= e.seq)
                BY <3>1, <4>1 DEF NotAfter
            <4>3. Good(e, x.cur, seen)
                BY <2>1, <3>3, <4>1 DEF Knows
            <4>4. Precedes(id, Id(e))
                BY <2>8, <4>3 DEF Good
            <4>5. id[1] \in Nat /\ id[2] \in Nat
                BY <3>1
            <4>6. id[1] < e.inc \/ (id[1] = e.inc /\ id[2] < e.seq)
                BY <2>4, <4>4 DEF Precedes
            <4>7. QED BY <2>4, <4>2, <4>5, <4>6
        <3>6. ASSUME NEW id \in seen \cup {Id(e)} PROVE id[1] <= inc /\ (id[1] = inc => id[2] <= cursor)
            <4>1. CASE id \in seen
                BY <2>1, <3>1, <4>1 DEF Sound
            <4>2. CASE id = Id(e)
                BY <2>4, <4>2
            <4>3. QED BY <3>6, <4>1, <4>2
        <3>7. r.cur # 0
            BY <2>4, <2>8
        <3>8. \A h \in r.holes : h >= 1
            BY <2>1, <2>8 DEF Sound
        <3>9. Sound(r, known, moved)
            BY <2>3, <3>2, <3>4, <3>5, <3>6, <3>7, <3>8 DEF Sound
        <3>10. QED BY <2>2, <2>3, <3>9
    <2>9. QED BY <2>3, <2>6, <2>7, <2>8
<1>4. Handled(st, s, bad) \in X
    <2> HIDE DEF X
    <2>1. QED BY <1>1, <1>3, HandledWithin
<1>5. QED BY <1>4

-----------------------------------------------------------------------------
(* The renderer receives.                                                  *)

\* What the renderer does leaves the session as it was.
SessionStays ==
    UNCHANGED <<inc, up, degraded, cursor, window, queue, write, disk, kept, origin>>

LEMMA Settled ==
    ASSUME LogInv, ViewInv, LogSide, PageSide, SessionStays, up, wire # <<>>,
           restore.at \notin {"asked", "found"}, \A x \in ToSet(Tail(wire)) : x.kind # "restored",
           NEW known \in BOOLEAN, NEW moved \in BOOLEAN, known => Ordered,
           ~behind => known, ~behind' => known, Replayable' => moved,
           NEW st, Sound(st, known, moved),
           NEW s \in Seq(Event), ToSet(s) \subseteq InFlight, NEW bad, Settle(Handled(st, s, bad))
    PROVE  PageSide'
<1>1. PICK r : r = Handled(st, s, bad)
    OBVIOUS
<1>2. Sound(r, known, moved)
    BY <1>1, BatchStays DEF PageSide, Flights
<1>3. /\ r.cur \in Nat /\ r.holes \subseteq Nat /\ r.applied \subseteq Nat \X Nat
      /\ r.shown \subseteq Nat \X Nat /\ r.ok \in BOOLEAN
    BY <1>2 DEF Sound, Progress
<1>4. /\ cur' = r.cur /\ holes' = r.holes /\ applied' = r.applied /\ shown' = r.shown
      /\ repeated' = r.repeated /\ buffer' = <<>>
      /\ \/ wire' = Tail(wire) /\ restore' = restore
         \/ wire' = <<>> /\ restore' = NoRestore
    BY <1>1, <1>3 DEF Settle
<1>5. wire \in Seq(OnWire) /\ restore.at \in {"none", "sent"} /\ NoRestore.at = "none"
    BY DEF ViewInv, LinkTypes, Answers, NoRestore
<1>6. /\ ToSet(Tail(wire)) \subseteq ToSet(wire) /\ Sorted(Tail(wire), AnswerOrder)
    BY <1>5, TailParts DEF PageSide, OneRestore
<1>7. /\ ToSet(wire') \subseteq ToSet(Tail(wire)) /\ Sorted(wire', AnswerOrder)
      /\ restore' = restore \/ restore'.at = "none"
      /\ restore'.at \in {"none", "sent"} /\ ToSet(buffer') = {}
    <2>1. ToSet(<<>>) = {}
        BY DEF ToSet
    <2>2. QED BY <1>4, <1>5, <1>6, <2>1, SortedEmpty
<1>8. NothingNew /\ Coming' \subseteq Coming
    BY <1>6, <1>7, LessOnWire
<1>9. Announced' = {}
    BY <1>7 DEF Announced
<1>10. InFlight' \subseteq InFlight /\ Fresh' \subseteq Fresh
    BY <1>8, NothingNewInFlight DEF NothingNew
<1>11. OneRestore'
    <2>1. restore'.at = "sent" => restore' = restore
        BY <1>7
    <2>2. \A m \in ToSet(wire') : m \in ToSet(wire) /\ m.kind # "restored"
        BY <1>6, <1>7
    <2>3. QED BY <1>7, <2>1, <2>2 DEF PageSide, OneRestore
<1>12. Seen' = r.applied \cup r.shown
    BY <1>4 DEF Seen
<1>13. UNCHANGED <<inc, up, cursor, kept, origin, window>> /\ Young' = Young
    BY DEF SessionStays, Young, Logged
<1>14. SeenOld'
    BY <1>2, <1>12, <1>13 DEF SeenOld, Sound
<1>15. Flights'
    <2>1. Sent' /\ Continued'
        BY <1>10, <1>13 DEF PageSide, Flights, Sent, Continued, CountedOn, Precedes, Id
    <2>2. Answered'
        <3>1. \A a \in Coming' : IF a.snapshot THEN a.events = <<>> ELSE cur' # 0
            <4>1. ASSUME NEW a \in Coming' PROVE IF a.snapshot THEN a.events = <<>> ELSE cur' # 0
                <5>1. ~a.snapshot => Replayable'
                    BY DEF Replayable
                <5>2. QED BY <1>2, <1>4, <1>8, <5>1 DEF Sound, PageSide, Flights, Answered
            <4>2. QED BY <4>1
        <3>2. QED BY <1>9, <3>1 DEF Answered
    <2>3. \A h \in holes' : h >= 1
        BY <1>2, <1>4 DEF Sound
    <2>4. QED BY <2>1, <2>2, <2>3 DEF Flights
<1>16. Following'
    <2>1. SUFFICES ASSUME ~behind' PROVE Knows(cur, Seen)' /\ Ordered'
        BY DEF Following, Synced
    <2>2. PICK c, seen : c = r.cur /\ seen = r.applied \cup r.shown
        OBVIOUS
    <2>3. Knows(c, seen) /\ Ordered
        BY <1>2, <2>1, <2>2 DEF Sound
    <2>4. Knows(c, seen)'
        BY <1>10, <1>13, <2>3, KnowsStays
    <2>5. QED BY <1>4, <1>10, <1>12, <1>13, <2>2, <2>3, <2>4, OrderedStays DEF Knows
<1>17. QED BY <1>2, <1>4, <1>11, <1>14, <1>15, <1>16 DEF PageSide, Sound

\* A renderer that has been shown the session knows all of it.
LEMMA SnapshotKnows ==
    ASSUME LogInv, ViewInv, LogSide, SeenOld, Flights, up,
           NEW a \in Announced, a.snapshot, Coming = {a}
    PROVE  /\ Knows(a.current, Seen \cup Shows(a)) /\ Ordered
           /\ \A id \in Shows(a) : id[1] <= inc /\ (id[1] = inc => id[2] <= cursor)
<1>1. /\ InFlight \subseteq Event /\ kept \subseteq Event /\ Logged \subseteq kept /\ inc \in Nat
      /\ cursor \in Nat /\ ToSet(window) \subseteq Logged /\ Young \subseteq Logged
      /\ Seen \subseteq Nat \X Nat /\ a \in Answers
    BY FlightTypes, KeptTypes DEF LogSide, Young
<1>2. PICK c \in Nat : c = a.current
    BY <1>1 DEF Answers
<1>3. InFlight = Fresh
    <2>1. a.events = <<>> /\ ToSet(<<>>) = {}
        BY DEF Flights, Answered, ToSet
    <2>2. QED BY <2>1 DEF InFlight, Missed
<1>4. PICK shows \in SUBSET (Nat \X Nat) : shows = Shows(a)
    <2>1. \A k \in kept : Id(k) \in Nat \X Nat
        BY <1>1, EventsAreOrdered
    <2>2. Shows(a) \subseteq {Id(k) : k \in kept}
        BY DEF Shows
    <2>3. QED BY <2>1, <2>2
<1>5. PICK seen : seen = Seen \cup shows
    OBVIOUS
<1>6. \A x \in Event : x.inc \in Nat /\ x.seq \in Nat /\ x.prev \in Nat /\ Id(x) = <<x.inc, x.seq>>
    BY DEF Event, Id
<1>7. /\ \A k \in kept : k.inc <= inc /\ (k.inc = inc => k.seq <= cursor)
      /\ \A x \in Young : x.inc <= inc /\ x \in kept
      /\ c <= cursor /\ origin \in Nat /\ origin <= inc
    BY <1>1, <1>2 DEF LogSide, Numbered, KeptNumbers, YoungNumbers, Flights, Answered
<1>8. ASSUME NEW id \in shows
      PROVE  id[1] <= inc /\ (id[1] = inc => id[2] <= c)
    <2>1. PICK k \in kept : id = Id(k) /\ (k.inc < inc \/ k.seq <= c)
        BY <1>2, <1>4 DEF Shows
    <2>2. id[1] = k.inc /\ id[2] = k.seq /\ k.inc \in Nat
        BY <1>1, <1>6, <2>1
    <2>3. k.inc = inc => ~(k.inc < inc)
        BY <1>1
    <2>4. QED BY <1>7, <2>1, <2>2, <2>3
<1>9. ASSUME NEW id \in seen PROVE id[1] \in Nat /\ id[2] \in Nat /\ id[1] <= inc /\ (id[1] = inc => id[2] <= c)
    <2>1. CASE id \in Seen
        BY <1>1, <1>2, <2>1 DEF SeenOld, Flights, Answered
    <2>2. CASE id \in shows
        BY <1>8, <2>2
    <2>3. QED BY <1>5, <2>1, <2>2
\* All that has been seen comes before what this runtime numbers after c.
<1>10. ASSUME NEW x \in Event, x.inc = inc, x.seq > c, NEW id \in seen PROVE Precedes(id, Id(x))
    <2>1. Id(x)[1] = inc /\ Id(x)[2] = x.seq /\ x.seq \in Nat
        BY <1>6, <1>10
    <2>2. id[1] \in Nat /\ id[2] \in Nat /\ id[1] <= inc /\ (id[1] = inc => id[2] <= c)
        BY <1>9, <1>10
    <2>3. id[1] < inc \/ (id[1] = inc /\ id[2] < x.seq)
        BY <1>1, <1>10, <2>1, <2>2
    <2>4. QED BY <2>1, <2>3 DEF Precedes
<1>11. ASSUME NEW k \in Unseen(seen) PROVE k \in kept /\ k.inc = inc /\ k.seq > c
    <2>1. k \in kept /\ Id(k) \notin Shows(a)
        BY <1>4, <1>5 DEF Unseen
    <2>2. ~(k.inc < inc) /\ ~(k.seq <= c)
        BY <1>2, <2>1 DEF Shows
    <2>3. k.inc <= inc /\ k.inc \in Nat /\ k.seq \in Nat
        BY <1>1, <1>6, <1>7, <2>1
    <2>4. QED BY <1>1, <2>1, <2>2, <2>3
<1>12. ASSUME NEW k \in Unseen(seen), NEW x \in Young PROVE CountedOn(k, x) /\ CountedOn(x, k)
    <2>1. k \in kept /\ k.inc = inc /\ k \in Event
        BY <1>1, <1>11
    <2>2. x \in kept /\ x.inc <= inc /\ x \in Event /\ x.inc \in Nat
        BY <1>1, <1>6, <1>7
    <2>3. CountedOn(x, k)
        BY <2>1 DEF LogSide, Numbered, YoungNumbers
    <2>4. CASE x.inc = inc
        BY <2>1, <2>2, <2>3, <2>4 DEF LogSide, Numbered, KeptNumbers
    <2>5. CASE x.inc # inc
        <3>1. ~(k.inc < x.inc) /\ k.inc # x.inc
            BY <1>1, <2>1, <2>2, <2>5
        <3>2. ~Precedes(Id(k), Id(x))
            BY <2>1, <2>2, <3>1, EventsAreOrdered
        <3>3. QED BY <2>3, <3>2 DEF CountedOn
    <2>6. QED BY <2>4, <2>5
<1>13. ASSUME NEW x \in Young, x.seq > c PROVE x.inc = inc
    <2>1. x \in Event /\ x.inc <= inc /\ x.inc \in Nat /\ x.seq \in Nat
        BY <1>1, <1>6, <1>7
    <2>2. x.inc < inc => x.seq <= c
        BY <1>2 DEF Flights, Answered
    <2>3. QED BY <1>1, <1>2, <1>13, <2>1, <2>2
<1>14. ASSUME NEW x \in ToSet(window), x.inc < origin PROVE x.seq <= c
    <2>1. x.inc \in Nat
        BY <1>1, <1>6
    <2>2. x.inc < inc
        BY <1>1, <1>7, <1>14, <2>1
    <2>3. QED BY <1>2, <2>2 DEF Flights, Answered
<1>15. ASSUME NEW e \in InFlight PROVE Good(e, c, seen)
    <2>1. e \in Event /\ e \in Fresh /\ e.inc = inc /\ \A k \in kept : k.inc = inc => CountedOn(k, e)
        BY <1>1, <1>3 DEF Flights, Continued
    <2>2. ASSUME NEW k \in Unseen(seen)
          PROVE  ~(e.prev < k.seq /\ k.seq < e.seq) /\ (k.seq = e.seq => Id(k) = Id(e))
        <3>1. k \in Event /\ k.inc = inc /\ CountedOn(k, e)
            BY <1>1, <1>11, <2>1
        <3>2. k.seq < e.seq => Precedes(Id(k), Id(e))
            BY <2>1, <3>1, EventsAreOrdered
        <3>3. k.seq < e.seq => k.seq <= e.prev
            BY <3>1, <3>2 DEF CountedOn
        <3>4. k.seq \in Nat /\ e.prev \in Nat
            BY <1>6, <2>1, <3>1
        <3>5. ~(e.prev < k.seq /\ k.seq < e.seq)
            BY <3>3, <3>4
        <3>6. QED BY <1>6, <2>1, <3>1, <3>5
    <2>3. QED BY <1>10, <2>1, <2>2 DEF Good
<1>16. Knows(c, seen)
    <2>1. \A k \in Unseen(seen) : /\ k.seq > c /\ k.inc >= origin /\ k.seq <= cursor
                                  /\ \A x \in Young : CountedOn(k, x) /\ CountedOn(x, k)
        BY <1>7, <1>11, <1>12
    <2>2. \A x \in Young : x.seq > c => \A id \in seen : Precedes(id, Id(x))
        BY <1>1, <1>10, <1>13
    <2>3. \A id \in seen : id[1] = inc => id[2] <= c
        BY <1>9
    <2>4. QED BY <1>7, <1>14, <1>15, <2>1, <2>2, <2>3 DEF Knows
<1>17. Ordered
    <2>1. ASSUME NEW e \in InFlight, NEW x \in InFlight \cup Young
          PROVE  (e.inc < x.inc => e.seq < x.seq) /\ (x.inc < e.inc => x.seq < e.seq)
        <3>1. /\ e \in Event /\ e.inc = inc /\ e.prev < e.seq
              /\ \A y \in Young : y.inc < inc => y.seq <= e.prev
            BY <1>1, <1>3 DEF Flights, Continued
        <3>2. CASE x \in InFlight
            <4>1. x.inc = inc
                BY <1>3, <3>2 DEF Flights, Continued
            <4>2. ~(inc < inc)
                BY <1>1
            <4>3. QED BY <3>1, <4>1, <4>2
        <3>3. CASE x \in Young
            <4>1. x \in Event /\ x.inc <= inc /\ x.inc \in Nat /\ x.seq \in Nat
                BY <1>1, <1>6, <1>7, <3>3
            <4>2. ~(e.inc < x.inc)
                BY <1>1, <3>1, <4>1
            <4>3. e.seq \in Nat /\ e.prev \in Nat
                BY <1>6, <3>1
            <4>4. x.inc < inc => x.seq < e.seq
                BY <3>1, <3>3, <4>1, <4>3
            <4>5. QED BY <3>1, <4>2, <4>4
        <3>4. QED BY <2>1, <3>2, <3>3
    <2>2. QED BY <2>1 DEF Ordered
<1>18. \A id \in shows : id[1] <= inc /\ (id[1] = inc => id[2] <= cursor)
    <2>1. ASSUME NEW id \in shows, id[1] = inc PROVE id[2] <= cursor
        <3>1. id[2] <= c /\ id[2] \in Nat
            BY <1>8, <2>1
        <3>2. QED BY <1>1, <1>7, <3>1
    <2>2. QED BY <1>8, <2>1
<1>19. QED BY <1>2, <1>4, <1>5, <1>16, <1>17, <1>18

LEMMA SoundHandling ==
    ASSUME ViewInv, ~repeated, NEW c \in Nat, NEW h \in SUBSET Nat, NEW s \in SUBSET (Nat \X Nat),
           NEW known, NEW moved, \A i \in h : i >= 1,
           \A id \in applied \cup s : id[1] <= inc /\ (id[1] = inc => id[2] <= cursor),
           moved => c # 0, known => Knows(c, applied \cup s)
    PROVE  Sound(Handling(c, h, s), known, moved)
<1>1. PICK x : x = Handling(c, h, s)
    OBVIOUS
<1>2. x \in Progress
    BY <1>1, HandlingTyped
<1>3. /\ x.cur = c /\ x.holes = h /\ x.applied = applied /\ x.shown = s /\ x.repeated = repeated
    BY <1>1 DEF Handling
<1>4. Sound(x, known, moved)
    BY <1>2, <1>3 DEF Sound
<1>5. QED BY <1>1, <1>4

\* The message that arrives, and those that come after it.
LEMMA Arriving ==
    ASSUME ViewInv, PageSide, wire # <<>>, NEW m, m = Head(wire)
    PROVE  /\ m \in ToSet(wire) /\ m \in OnWire /\ m.answer.events \in Seq(Event)
           /\ ToSet(Tail(wire)) \subseteq ToSet(wire) /\ Sorted(Tail(wire), AnswerOrder)
           /\ IsAnswer(m) => /\ \A x \in ToSet(Tail(wire)) : x.kind # "restored"
                             /\ restore.at \notin {"asked", "found"}
           /\ mode # "snapshot" => /\ \A x \in ToSet(wire) : x.kind # "restored"
                                   /\ restore.at \notin {"asked", "found"}
           /\ m.kind = "event" => ToSet(m.answer.events) \subseteq Fresh
           /\ IsAnswer(m) => m.answer \in Coming /\ ToSet(m.answer.events) \subseteq Missed
           /\ m.kind = "restored" => m.answer \in Announced
           /\ ToSet(buffer) \subseteq Fresh /\ buffer \in Seq(Event)
           /\ mode # "off" /\ up
<1>1. wire \in Seq(OnWire) /\ buffer \in Seq(Event)
    BY DEF ViewInv, LinkTypes, PageTypes
<1>2. /\ m \in ToSet(wire) /\ ToSet(Tail(wire)) \subseteq ToSet(wire)
      /\ Sorted(Tail(wire), AnswerOrder)
      /\ \A x \in ToSet(Tail(wire)) : <<m, x>> \in AnswerOrder
    BY <1>1, TailParts DEF PageSide, OneRestore
<1>3. m \in OnWire /\ m.answer.events \in Seq(Event)
    BY FirstOnWire
<1>4. IsAnswer(m) => m.answer \in Coming
    BY <1>2 DEF Coming
<1>5. IsAnswer(m) => ToSet(m.answer.events) \subseteq Missed
    BY <1>4 DEF Missed
<1>6. IsAnswer(m) => \A x \in ToSet(Tail(wire)) : x.kind # "restored"
    BY <1>2 DEF AnswerOrder
<1>7. mode # "off" /\ up
    BY DEF ViewInv, Disconnected
<1>8. QED BY <1>1, <1>2, <1>3, <1>4, <1>5, <1>6, <1>7 DEF PageSide, OneRestore, Announced, Fresh

\* A following renderer handles what continues its cursor.
LEMMA PageSideTakes ==
    ASSUME LogInv, ViewInv, LogSide, PageSide, SessionStays, wire # <<>>, behind' = behind,
           restore.at \notin {"asked", "found"}, \A x \in ToSet(Tail(wire)) : x.kind # "restored",
           ~behind => Synced,
           NEW s \in Seq(Event), ToSet(s) \subseteq InFlight, NEW bad,
           Settle(Handled(Handling(cur, holes, shown), s, bad))
    PROVE  PageSide'
<1>1. PICK known \in BOOLEAN : known = ~behind
    OBVIOUS
<1>2. PICK moved \in BOOLEAN : moved = (cur # 0)
    OBVIOUS
<1>3. known => Knows(cur, Seen) /\ Ordered
    BY <1>1 DEF PageSide, Following
<1>4. up /\ cur \in Nat /\ holes \subseteq Nat /\ shown \subseteq Nat \X Nat /\ Seen = applied \cup shown
    BY Arriving DEF ViewInv, PageTypes, Seen
<1>5. /\ ~repeated /\ \A i \in holes : i >= 1
      /\ \A id \in applied \cup shown : id[1] <= inc /\ (id[1] = inc => id[2] <= cursor)
    BY <1>4 DEF PageSide, SeenOld, Flights
<1>6. PICK st : st = Handling(cur, holes, shown)
    OBVIOUS
<1>7. Sound(st, known, moved)
    BY <1>2, <1>3, <1>4, <1>5, <1>6, SoundHandling
<1>8. ToSet(Tail(wire)) \subseteq ToSet(wire)
    BY Arriving
<1>9. /\ ToSet(wire') \subseteq ToSet(wire) /\ buffer' = <<>>
      /\ restore' = restore \/ restore'.at = "none"
    <2>1. ToSet(<<>>) = {} /\ NoRestore.at = "none"
        BY DEF ToSet, NoRestore
    <2>2. PICK r : r = Handled(st, s, bad)
        OBVIOUS
    <2>3. /\ buffer' = <<>>
          /\ wire' = IF r.ok THEN Tail(wire) ELSE <<>>
          /\ restore' = IF r.ok THEN restore ELSE NoRestore
        BY <1>6, <2>2 DEF Settle
    <2>4. QED BY <1>8, <2>1, <2>3
<1>10. Replayable' => moved
    <2>1. ToSet(buffer') \subseteq Fresh
        BY <1>9 DEF ToSet
    <2>2. Replayable' => Replayable
        BY <1>9, <2>1, LessOnWire, NothingNewInFlight
    <2>3. QED BY <1>2, <2>2 DEF Replayable, PageSide, Flights, Answered
<1>11. QED BY <1>1, <1>3, <1>4, <1>6, <1>7, <1>10, Settled

LEMMA PageSideBuffers ==
    ASSUME LogInv, ViewInv, LogSide, PageSide, SessionStays, wire # <<>>,
           Head(wire).kind = "event", Buffer(Head(wire)), repeated' = repeated
    PROVE  PageSide'
<1>1. PICK m : m = Head(wire)
    OBVIOUS
<1>2. /\ buffer' = buffer \o m.answer.events /\ wire' = Tail(wire)
      /\ UNCHANGED <<mode, cur, holes, applied, restore, shown, repeated, behind>>
    BY <1>1 DEF Buffer
<1>3. /\ m.answer.events \in Seq(Event) /\ buffer \in Seq(Event)
      /\ ToSet(wire') \subseteq ToSet(wire) /\ Sorted(wire', AnswerOrder)
      /\ ToSet(m.answer.events) \subseteq Fresh /\ ToSet(buffer) \subseteq Fresh
    BY <1>1, <1>2, Arriving
<1>4. ToSet(buffer') \subseteq Fresh
    <2> HIDE DEF Event
    <2>1. QED BY <1>2, <1>3, JoinSet
<1>5. NothingNew
    BY <1>2, <1>3, <1>4, LessOnWire
<1>6. UNCHANGED <<inc, up, degraded, cursor, kept, origin, window>> /\ Young' = Young
    BY DEF SessionStays, Young, Logged
<1>7. Synced' => Synced
    BY <1>2, <1>5, <1>6, NothingNewInFlight DEF Synced, Partial
<1>8. SeenOld' /\ Flights' /\ Following'
    BY <1>2, <1>5, <1>6, <1>7, PageSideStays DEF PageSide
<1>9. OneRestore'
    BY <1>2, <1>3 DEF PageSide, OneRestore
<1>10. QED BY <1>2, <1>8, <1>9 DEF PageSide

LEMMA PageSideRestored ==
    ASSUME LogInv, ViewInv, LogSide, PageSide, SessionStays, wire # <<>>,
           NEW bad, Head(wire).kind = "restored", Restored(Head(wire), bad)
    PROVE  PageSide'
<1>1. PICK m : m = Head(wire)
    OBVIOUS
<1>2. PICK a : a = m.answer
    OBVIOUS
<1>3. /\ m \in ToSet(wire) /\ IsAnswer(m) /\ a \in Coming /\ a \in Announced /\ up
      /\ \A x \in ToSet(Tail(wire)) : x.kind # "restored"
      /\ restore.at \notin {"asked", "found"}
      /\ ToSet(Tail(wire)) \subseteq ToSet(wire) /\ Sorted(Tail(wire), AnswerOrder)
      /\ ToSet(buffer) \subseteq InFlight /\ buffer \in Seq(Event) /\ ToSet(buffer) \subseteq Fresh
    <2>1. IsAnswer(m)
        BY <1>1 DEF IsAnswer
    <2>2. QED BY <1>1, <1>2, <2>1, Arriving DEF InFlight
<1>4. mode = "snapshot" /\ (IF a.snapshot THEN a.events = <<>> ELSE cur # 0)
    BY <1>1, <1>3 DEF PageSide, OneRestore, Flights, Answered
<1>5. a \in Answers /\ Coming \subseteq Answers
    BY <1>3, FlightTypes
<1>6. UNCHANGED <<inc, up, degraded, cursor, kept, origin, window>> /\ Young' = Young
    BY DEF SessionStays, Young, Logged
\* The events it has missed follow.
<1>7. CASE a.events # <<>>
    <2>1. /\ mode' = "replay" /\ wire' = Tail(wire)
          /\ UNCHANGED <<cur, holes, buffer, applied, restore, shown, repeated, behind>>
        BY <1>1, <1>2, <1>7 DEF Restored
    <2>2. NothingNew
        BY <1>3, <2>1, LessOnWire
    <2>3. Synced' => Synced
        BY <1>3, <1>4, <1>7, <2>1 DEF Synced, Replayable
    <2>4. SeenOld' /\ Flights' /\ Following'
        BY <1>6, <2>1, <2>2, <2>3, PageSideStays DEF PageSide
    <2>5. OneRestore'
        BY <1>3, <2>1 DEF PageSide, OneRestore
    <2>6. QED BY <2>1, <2>4, <2>5 DEF PageSide
<1>8. CASE a.events = <<>>
    <2> DEFINE blind == BehindHole(holes, m.seq)
    <2>1. /\ Settle(Handled(IF blind THEN Handling(cur, holes, shown)
                           ELSE Handling(a.current, SnapshotHoles(a), shown \cup Shows(a)), buffer, bad))
          /\ behind' = IF ~blind /\ a.snapshot THEN FALSE ELSE behind
        BY <1>1, <1>2, <1>8 DEF Restored, SnapshotCursor
    \* Behind a hole it is not looked at.
    <2>2. CASE blind
        <3>1. holes # {}
            BY <2>2 DEF BehindHole
        <3>2. ~behind => Synced
            BY <3>1 DEF Synced
        <3>3. /\ Settle(Handled(Handling(cur, holes, shown), buffer, bad)) /\ behind' = behind
            BY <2>1, <2>2
        <3>4. QED BY <1>3, <3>2, <3>3, PageSideTakes
    \* It is the only answer.
    <2>3. CASE ~blind
        <3>1. PICK h : h = SnapshotHoles(a)
            OBVIOUS
        <3>2. PICK shows : shows = Shows(a)
            OBVIOUS
        <3>3. PICK st : st = Handling(a.current, h, shown \cup shows)
            OBVIOUS
        <3>4. /\ Settle(Handled(st, buffer, bad)) /\ behind' = IF a.snapshot THEN FALSE ELSE behind
            BY <2>1, <2>3, <3>1, <3>2, <3>3
        <3>5. Coming = {a}
            <4>1. restore.at = "none" /\ \A x \in ToSet(wire) : x.kind # "replay"
                BY <1>1, <1>2, <1>3, <1>8 DEF PageSide, OneRestore
            <4>2. \A x \in ToSet(wire) : IsAnswer(x) => x = m
                <5>1. ToSet(wire) = {m} \cup ToSet(Tail(wire))
                    BY <1>1, TailParts DEF ViewInv, LinkTypes
                <5>2. QED BY <1>3, <4>1, <5>1 DEF IsAnswer
            <4>3. QED BY <1>2, <1>3, <4>1, <4>2 DEF Coming
        <3>6. ~Replayable'
            <4>1. /\ ToSet(wire') \subseteq ToSet(Tail(wire))
                  /\ restore' = restore \/ restore'.at = "none"
                <5>1. ToSet(<<>>) = {} /\ NoRestore.at = "none"
                    BY DEF ToSet, NoRestore
                <5>2. PICK r : r = Handled(st, buffer, bad)
                    OBVIOUS
                <5>3. /\ wire' = IF r.ok THEN Tail(wire) ELSE <<>>
                      /\ restore' = IF r.ok THEN restore ELSE NoRestore
                    BY <3>4, <5>2 DEF Settle
                <5>4. QED BY <5>1, <5>3
            <4>2. restore.at = "none" /\ \A x \in ToSet(wire) : x.kind # "replay"
                BY <1>1, <1>2, <1>3, <1>8 DEF PageSide, OneRestore
            <4>3. Coming' = {}
                BY <1>3, <4>1, <4>2 DEF Coming, IsAnswer
            <4>4. QED BY <4>3 DEF Replayable
        <3>7. PICK c \in Nat : c = a.current
            BY <1>5 DEF Answers
        <3>8. /\ h \subseteq Nat /\ shown \subseteq Nat \X Nat /\ ~repeated /\ \A i \in h : i >= 1
              /\ Seen = applied \cup shown /\ h \subseteq holes
            BY <3>1 DEF SnapshotHoles, ViewInv, PageTypes, PageSide, Flights, Seen
        <3>9. \A id \in Seen : id[1] <= inc /\ (id[1] = inc => id[2] <= cursor)
            BY <1>3 DEF PageSide, SeenOld
        <3>10. CASE a.snapshot
            <4>1. /\ Knows(c, Seen \cup shows) /\ Ordered
                  /\ \A id \in shows : id[1] <= inc /\ (id[1] = inc => id[2] <= cursor)
                BY <1>3, <3>2, <3>5, <3>7, <3>10, SnapshotKnows DEF PageSide
            <4>2. shows \subseteq Nat \X Nat
                <5>1. kept \subseteq Event
                    BY KeptTypes DEF LogSide
                <5>2. \A k \in kept : Id(k) \in Nat \X Nat
                    BY <5>1, EventsAreOrdered
                <5>3. shows \subseteq {Id(k) : k \in kept}
                    BY <3>2 DEF Shows
                <5>4. QED BY <5>2, <5>3
            <4>3. PICK s \in SUBSET (Nat \X Nat) : s = shown \cup shows
                BY <3>8, <4>2
            <4>4. Seen \cup shows = applied \cup s
                BY <3>8, <4>3
            <4>5. Knows(c, applied \cup s)
                BY <4>1, <4>4
            <4>6. \A id \in applied \cup s : id[1] <= inc /\ (id[1] = inc => id[2] <= cursor)
                BY <3>9, <4>1, <4>4
            <4>7. Sound(st, TRUE, FALSE)
                BY <3>3, <3>7, <3>8, <4>3, <4>5, <4>6, SoundHandling
            <4>8. QED BY <1>3, <3>4, <3>6, <4>1, <4>7, Settled
        <3>11. CASE ~a.snapshot
            <4>1. Synced \/ behind
                BY <1>3, <1>4, <3>11 DEF Synced, Replayable
            <4>2. shows = {} /\ a.current = cur /\ behind' = behind
                BY <1>3, <1>8, <3>2, <3>4, <3>11 DEF Shows, PageSide, Flights, Answered
            <4>3. PICK known \in BOOLEAN : known = ~behind
                OBVIOUS
            <4>4. known => Knows(c, applied \cup shown) /\ Ordered
                BY <3>7, <3>8, <4>1, <4>2, <4>3 DEF PageSide, Following
            <4>5. st = Handling(c, h, shown)
                BY <3>3, <3>7, <4>2
            <4>6. Sound(st, known, FALSE)
                BY <3>8, <3>9, <4>4, <4>5, SoundHandling
            <4>7. known => Ordered
                BY <4>4
            <4>8. (~behind => known) /\ (~behind' => known)
                BY <4>2, <4>3
            <4>9. QED BY <1>1, <1>3, <3>4, <3>6, <4>6, <4>7, <4>8, Settled
        <3>12. a.snapshot \in BOOLEAN
            BY <1>5 DEF Answers
        <3>13. QED BY <3>10, <3>11, <3>12
    <2>4. QED BY <2>2, <2>3
<1>9. QED BY <1>7, <1>8

LEMMA PageSideReplayed ==
    ASSUME LogInv, ViewInv, LogSide, PageSide, SessionStays, wire # <<>>,
           NEW bad, Head(wire).kind = "replay", Replayed(Head(wire), bad)
    PROVE  PageSide'
<1>1. PICK m : m = Head(wire)
    OBVIOUS
<1>2. /\ m \in ToSet(wire) /\ IsAnswer(m) /\ m.answer \in Coming
      /\ \A x \in ToSet(Tail(wire)) : x.kind # "restored"
      /\ restore.at \notin {"asked", "found"}
      /\ m.answer.events \in Seq(Event) /\ buffer \in Seq(Event)
      /\ ToSet(m.answer.events) \subseteq InFlight /\ ToSet(buffer) \subseteq InFlight
    <2>1. IsAnswer(m)
        BY <1>1 DEF IsAnswer
    <2>2. QED BY <1>1, <2>1, Arriving DEF InFlight
<1>3. ~m.answer.snapshot /\ cur # 0
    BY <1>1, <1>2 DEF PageSide, OneRestore, Flights, Answered
<1>4. ~behind => Synced
    BY <1>2, <1>3 DEF Synced, Replayable
<1>5. PICK missed : missed = IF BehindHole(holes, m.seq) THEN <<>> ELSE m.answer.events
    OBVIOUS
<1>6. missed \in Seq(Event) /\ ToSet(missed) \subseteq InFlight
    <2>1. ToSet(<<>>) = {} /\ <<>> \in Seq(Event)
        BY EmptySeq DEF ToSet
    <2>2. QED BY <1>2, <1>5, <2>1
<1>7. PICK s : s = missed \o buffer
    OBVIOUS
<1>8. s \in Seq(Event) /\ ToSet(s) \subseteq InFlight
    <2> HIDE DEF Event
    <2>1. QED BY <1>2, <1>6, <1>7, JoinSet
<1>9. /\ Settle(Handled(Handling(cur, holes, shown), s, bad)) /\ behind' = behind
    BY <1>1, <1>5, <1>7 DEF Replayed
<1>10. QED BY <1>2, <1>4, <1>8, <1>9, PageSideTakes

LEMMA PageSideReceive ==
    ASSUME LogInv, ViewInv, LogSide, PageSide, NEW bad, Receive(bad)
    PROVE  PageSide'
<1>1. SessionStays /\ wire # <<>> /\ mode # "off"
    BY DEF Receive, SessionStays, runtime, writer
<1>2. PICK m : m = Head(wire)
    OBVIOUS
<1>3. CASE m.kind = "event" /\ mode = "live" /\ Take(m, bad)
    <2>1. /\ m.answer.events \in Seq(Event) /\ ToSet(m.answer.events) \subseteq InFlight
          /\ restore.at \notin {"asked", "found"} /\ \A x \in ToSet(Tail(wire)) : x.kind # "restored"
        BY <1>1, <1>2, <1>3, Arriving DEF InFlight
    <2>2. ~behind => Synced
        BY <1>3 DEF Synced
    <2>3. /\ Settle(Handled(Handling(cur, holes, shown), m.answer.events, bad)) /\ behind' = behind
        BY <1>3 DEF Take
    <2>4. QED BY <1>1, <2>1, <2>2, <2>3, PageSideTakes
<1>4. CASE m.kind = "event" /\ Buffer(m)
    BY <1>1, <1>2, <1>4, PageSideBuffers DEF Buffer
<1>5. CASE m.kind = "restored" /\ Restored(m, bad)
    BY <1>1, <1>2, <1>5, PageSideRestored
<1>6. CASE m.kind = "replay" /\ Replayed(m, bad)
    BY <1>1, <1>2, <1>6, PageSideReplayed
<1>7. QED BY <1>2, <1>3, <1>4, <1>5, <1>6 DEF Receive

LEMMA PageSideInitial == Init => PageSide
<1> SUFFICES ASSUME Init PROVE PageSide
    OBVIOUS
<1>1. /\ inc = 0 /\ ~up /\ restore = NoRestore /\ wire = <<>> /\ buffer = <<>> /\ mode = "off"
      /\ cur = 0 /\ holes = {} /\ applied = {} /\ shown = {} /\ repeated = FALSE
    BY DEF Init
<1>2. ToSet(wire) = {} /\ ToSet(buffer) = {} /\ NoRestore.at = "none"
    BY <1>1 DEF ToSet, NoRestore
<1>3. Coming = {} /\ Announced = {} /\ Fresh = {} /\ Seen = {}
    BY <1>1, <1>2 DEF Coming, Announced, Fresh, Seen
<1>4. InFlight = {}
    BY <1>3 DEF InFlight, Missed
<1>5. Sorted(wire, AnswerOrder)
    BY <1>1, SortedEmpty
<1>6. OneRestore /\ SeenOld
    BY <1>1, <1>2, <1>3, <1>5 DEF OneRestore, SeenOld
<1>7. Flights
    BY <1>1, <1>3, <1>4 DEF Flights, Sent, Continued, Answered
<1>8. ~Synced
    BY <1>1 DEF Synced
<1>9. QED BY <1>1, <1>6, <1>7, <1>8 DEF PageSide, Following

LEMMA PageSideStep ==
    LogInv /\ ViewInv /\ LogSide /\ PageSide /\ [Next]_vars => PageSide'
<1> SUFFICES ASSUME LogInv, ViewInv, LogSide, PageSide, [Next]_vars PROVE PageSide'
    OBVIOUS
<1>1. LogInv' /\ ViewInv' /\ LogSide'
    BY LogStep, ViewStep, LogSideStep
<1>2. CASE Emit
    BY <1>2, PageSideEmit
<1>3. CASE \/ StartWrite \/ FinishWrite \/ FailWrite \/ BeginDelete \/ EndDelete
           \/ \E readable \in BOOLEAN : Inspect(readable)
    BY <1>3, PageSideOutbox
<1>4. CASE Look \/ SendRestored \/ SendReplay
    BY <1>4, PageSideLook, PageSideAnswers
<1>5. CASE (\E bad : Receive(bad)) \/ ReducerFails
    <2>1. PICK bad : Receive(bad)
        BY <1>5 DEF ReducerFails
    <2>2. QED BY <2>1, PageSideReceive
<1>6. CASE Attach \/ \E readable \in BOOLEAN : Create(readable)
    BY <1>1, <1>6, PageSideAttach, PageSideCreate
<1>7. CASE Disconnect \/ Crash \/ Reload
    BY <1>7, PageSideBreaks
<1>8. CASE UNCHANGED vars
    <2>1. UNCHANGED <<runtime, writer, deleting, disk, restore, wire, page, ghosts>>
        BY <1>8 DEF vars
    <2>2. Logged' = Logged
        BY <2>1 DEF Logged, runtime, writer
    <2>3. Synced' => Synced
        BY <2>1 DEF Synced, Partial, Replayable, Coming, runtime, page, ghosts
    <2>4. QED BY <2>1, <2>2, <2>3, PageSideQuiet DEF runtime, page, ghosts
<1>9. QED BY <1>2, <1>3, <1>4, <1>5, <1>6, <1>7, <1>8 DEF Next

\* What is on its way to the renderer continues what it has seen, as long as it
\* is to be told what it has missed: session.restore, the window it reads and
\* the log that the window was made from keep to that chain in every state.
THEOREM ChainIsKept == Spec => [](ViewInv /\ LogSide /\ PageSide)
<1>1. Spec => []ViewInv
    BY ViewInitial, ViewStep, LogIsKept, PTL DEF Spec
<1>2. Spec => []LogSide
    BY <1>1, LogSideInitial, LogSideStep, LogIsKept, PTL DEF Spec
<1>3. Spec => []PageSide
    BY <1>1, <1>2, PageSideInitial, PageSideStep, LogIsKept, PTL DEF Spec
<1>4. QED BY <1>1, <1>2, <1>3, PTL

\* A renderer that follows its session has seen every event up to its cursor
\* that has not been deleted or lost with the log, although answers to its
\* restores are read an await before they are sent, and events go out, writes
\* fail and runtimes are made anew in between.
THEOREM NoneSkipped == Spec => []NothingSkipped
<1>1. LogInv /\ ViewInv /\ LogSide /\ PageSide => NothingSkipped
    <2> SUFFICES ASSUME LogInv, ViewInv, LogSide, PageSide, mode = "live", ~behind,
                        NEW e \in kept, e.seq <= cur, Id(e) \notin Seen
                 PROVE  FALSE
        BY DEF NothingSkipped
    <2>1. Knows(cur, Seen)
        BY DEF PageSide, Following, Synced
    <2>2. e.seq > cur /\ cur \in Nat /\ e.seq \in Nat
        <3>1. e \in Event /\ cur \in Nat
            BY KeptTypes DEF LogSide, ViewInv, PageTypes
        <3>2. QED BY <2>1, <3>1 DEF Knows, Unseen, Event
    <2>3. QED BY <2>2
<1>2. QED BY <1>1, ChainIsKept, LogIsKept, PTL

\* No event is applied after itself, after a later one or on top of a snapshot
\* that shows it, whatever arrives twice, late or after a failed reducer.
THEOREM InOrder == Spec => []AppliedInOrder
<1>1. PageSide => AppliedInOrder
    BY DEF PageSide, AppliedInOrder
<1>2. QED BY <1>1, ChainIsKept, PTL
=============================================================================
