---------------------------- MODULE SequenceLemmas ----------------------------
(***************************************************************************)
(* What the queues of the models do under Append, Tail, \o, SubSeq and     *)
(* RemoveAt, in terms of the elements they hold.                           *)
(***************************************************************************)
EXTENDS Integers, Sequences, FiniteSets, SequencesExt, SequenceTheorems,
        FiniteSetTheorems, WellFoundedInduction, TLAPS

\* The elements of a sequence, by position.
LEMMA ToSetByIndex ==
  ASSUME NEW S, NEW s \in Seq(S)
  PROVE  /\ ToSet(s) = {s[i] : i \in 1..Len(s)}
         /\ ToSet(s) \subseteq S
         /\ s \in Seq(ToSet(s))
  <1>1. DOMAIN s = 1..Len(s) /\ Len(s) \in Nat /\ \A i \in 1..Len(s) : s[i] \in S
    BY LenProperties, ElementOfSeq
  <1>2. ToSet(s) = {s[i] : i \in 1..Len(s)}
    BY <1>1 DEF ToSet
  <1>3. ToSet(s) \subseteq S
    BY <1>1, <1>2
  <1>4. s \in [1..Len(s) -> ToSet(s)]
    BY <1>1, <1>2, LenProperties
  <1> QED BY <1>1, <1>2, <1>3, <1>4, SeqDef

\* Nothing is in the empty sequence, and something in any other.
LEMMA ToSetEmpty ==
  ASSUME NEW S, NEW s \in Seq(S)
  PROVE  ToSet(s) = {} <=> s = <<>>
  <1>1. s # <<>> => 1 \in 1..Len(s)
    BY EmptySeq, LenProperties
  <1>2. s = <<>> => Len(s) = 0
    BY EmptySeq
  <1> QED BY <1>1, <1>2, ToSetByIndex

\* Append adds one element.
LEMMA ToSetAppend ==
  ASSUME NEW S, NEW s \in Seq(S), NEW e \in S
  PROVE  /\ Append(s, e) \in Seq(S)
         /\ ToSet(Append(s, e)) = ToSet(s) \cup {e}
  <1> DEFINE t == Append(s, e)
  <1>1. t \in Seq(S) /\ Len(t) = Len(s) + 1 /\ Len(s) \in Nat
        /\ (\A i \in 1..Len(s) : t[i] = s[i]) /\ t[Len(s) + 1] = e
    BY AppendProperties, LenProperties
  <1>2. ToSet(t) = {t[i] : i \in 1..Len(t)} /\ ToSet(s) = {s[i] : i \in 1..Len(s)}
    BY <1>1, ToSetByIndex
  <1> QED BY <1>1, <1>2

\* Taking the head out leaves the tail.
LEMMA ToSetHeadTail ==
  ASSUME NEW S, NEW s \in Seq(S), s # <<>>
  PROVE  /\ Head(s) \in S /\ Head(s) \in ToSet(s) /\ Head(s) = s[1]
         /\ Tail(s) \in Seq(S)
         /\ ToSet(s) = {Head(s)} \cup ToSet(Tail(s))
  <1>1. /\ Head(s) \in S /\ Head(s) = s[1] /\ Tail(s) \in Seq(S) /\ Len(s) \in Nat \ {0}
        /\ Len(Tail(s)) = Len(s) - 1
        /\ \A i \in 1..Len(Tail(s)) : Tail(s)[i] = s[i + 1]
    BY HeadTailProperties, EmptySeq
  <1>2. /\ ToSet(s) = {s[i] : i \in 1..Len(s)}
        /\ ToSet(Tail(s)) = {Tail(s)[i] : i \in 1..Len(Tail(s))}
    BY <1>1, ToSetByIndex
  <1>3. ASSUME NEW i \in 1..Len(s), i # 1
        PROVE  s[i] \in ToSet(Tail(s))
    <2>1. i - 1 \in 1..Len(Tail(s)) /\ Tail(s)[i - 1] = s[i]
      BY <1>1, <1>3
    <2> QED BY <2>1, <1>2
  <1>4. \A i \in 1..Len(Tail(s)) : Tail(s)[i] \in ToSet(s)
    <2> TAKE i \in 1..Len(Tail(s))
    <2>1. i + 1 \in 1..Len(s) /\ Tail(s)[i] = s[i + 1]
      BY <1>1
    <2> QED BY <2>1, <1>2
  <1>5. 1 \in 1..Len(s)
    BY <1>1
  <1> QED BY <1>1, <1>2, <1>3, <1>4, <1>5

\* Concatenation joins the elements.
LEMMA ToSetConcat ==
  ASSUME NEW S, NEW s \in Seq(S), NEW t \in Seq(S)
  PROVE  /\ s \o t \in Seq(S)
         /\ ToSet(s \o t) = ToSet(s) \cup ToSet(t)
  <1> DEFINE u == s \o t
  <1>1. /\ u \in Seq(S) /\ Len(u) = Len(s) + Len(t) /\ Len(s) \in Nat /\ Len(t) \in Nat
        /\ \A i \in 1..Len(u) : u[i] = IF i <= Len(s) THEN s[i] ELSE t[i - Len(s)]
    BY ConcatProperties, LenProperties
  <1> HIDE DEF u
  <1>2. /\ ToSet(u) = {u[i] : i \in 1..Len(u)}
        /\ ToSet(s) = {s[i] : i \in 1..Len(s)}
        /\ ToSet(t) = {t[i] : i \in 1..Len(t)}
    BY <1>1, ToSetByIndex
  <1>3. \A i \in 1..Len(s) : i \in 1..Len(u) /\ u[i] = s[i]
    BY <1>1
  <1>4. ASSUME NEW i \in 1..Len(t)
        PROVE  i + Len(s) \in 1..Len(u) /\ u[i + Len(s)] = t[i]
    <2>1. /\ i + Len(s) \in 1..Len(u) /\ ~(i + Len(s) <= Len(s))
          /\ i + Len(s) - Len(s) = i
      BY <1>1
    <2>2. u[i + Len(s)] = t[i + Len(s) - Len(s)]
      BY <2>1, <1>1
    <2> QED BY <2>1, <2>2
  <1>5. ASSUME NEW i \in 1..Len(u)
        PROVE  u[i] \in ToSet(s) \cup ToSet(t)
    <2>1. CASE i <= Len(s)
      BY <2>1, <1>1, <1>2
    <2>2. CASE ~(i <= Len(s))
      <3>1. i - Len(s) \in 1..Len(t)
        BY <2>2, <1>1
      <3> QED BY <2>2, <3>1, <1>1, <1>2
    <2> QED BY <2>1, <2>2
  <1>6. ToSet(s) \cup ToSet(t) \subseteq ToSet(u)
    BY <1>2, <1>3, <1>4
  <1>7. ToSet(u) \subseteq ToSet(s) \cup ToSet(t)
    BY <1>2, <1>5
  <1> QED BY <1>1, <1>6, <1>7 DEF u

\* A cut splits a sequence in two.
LEMMA ToSetSplit ==
  ASSUME NEW S, NEW s \in Seq(S), NEW k \in 0..Len(s)
  PROVE  /\ SubSeq(s, 1, k) \in Seq(S) /\ SubSeq(s, k + 1, Len(s)) \in Seq(S)
         /\ SubSeq(s, 1, k) \o SubSeq(s, k + 1, Len(s)) = s
         /\ ToSet(s) = ToSet(SubSeq(s, 1, k)) \cup ToSet(SubSeq(s, k + 1, Len(s)))
  <1>1. Len(s) \in Nat /\ \A i \in 1..Len(s) : s[i] \in S
    BY LenProperties, ElementOfSeq
  <1>2. SubSeq(s, 1, k) \in Seq(S)
    <2>1. 1 \in Int /\ k \in Int /\ \A i \in 1..k : s[i] \in S
      BY <1>1
    <2> QED BY <2>1, SubSeqProperties
  <1>3. SubSeq(s, k + 1, Len(s)) \in Seq(S)
    <2>1. k + 1 \in Int /\ Len(s) \in Int /\ \A i \in (k + 1)..Len(s) : s[i] \in S
      BY <1>1
    <2> QED BY <2>1, SubSeqProperties
  <1>4. SubSeq(s, 1, k) \o SubSeq(s, k + 1, Len(s)) = SubSeq(s, 1, Len(s))
    <2>1. 1 \in 1..Len(s) + 1 /\ k \in 1 - 1..Len(s) /\ Len(s) \in k..Len(s)
      BY <1>1
    <2> QED BY <2>1, ConcatAdjacentSubSeq
  <1> DEFINE l == SubSeq(s, 1, k)
             r == SubSeq(s, k + 1, Len(s))
  <1>5. l \o r = s
    BY <1>4, SubSeqFull
  <1> HIDE DEF l, r
  <1>6. ToSet(l \o r) = ToSet(l) \cup ToSet(r)
    BY <1>2, <1>3, ToSetConcat DEF l, r
  <1> QED BY <1>2, <1>3, <1>5, <1>6 DEF l, r

\* A queue joined to another that is cut in two.
LEMMA ConcatSplit ==
  ASSUME NEW S, NEW s \in Seq(S), NEW t \in Seq(S), NEW k \in 0..Len(t)
  PROVE  s \o t = (s \o SubSeq(t, 1, k)) \o SubSeq(t, k + 1, Len(t))
  <1>1. \A l, r \in Seq(S) : (s \o l) \o r = s \o (l \o r)
    BY ConcatAssociative
  <1> DEFINE l == SubSeq(t, 1, k)
             r == SubSeq(t, k + 1, Len(t))
  <1>2. l \in Seq(S) /\ r \in Seq(S) /\ l \o r = t
    BY ToSetSplit
  <1> HIDE DEF l, r
  <1>3. (s \o l) \o r = s \o (l \o r)
    BY <1>1, <1>2
  <1>4. (s \o l) \o r = s \o t
    BY <1>2, <1>3
  <1> QED BY <1>4 DEF l, r

\* The head of two joined queues comes from the first, which loses it.
LEMMA HeadTailConcat ==
  ASSUME NEW S, NEW s \in Seq(S), NEW t \in Seq(S), s # <<>>
  PROVE  /\ Head(s \o t) = Head(s)
         /\ Tail(s \o t) = Tail(s) \o t
  <1> DEFINE u == s \o t
  <1>1. /\ u \in Seq(S) /\ Len(u) = Len(s) + Len(t) /\ Len(s) \in Nat \ {0} /\ Len(t) \in Nat
        /\ \A i \in 1..Len(u) : u[i] = IF i <= Len(s) THEN s[i] ELSE t[i - Len(s)]
    BY ConcatProperties, LenProperties, EmptySeq
  <1>2. u # <<>>
    BY <1>1, EmptySeq
  <1>3. /\ Head(u) = u[1] /\ Head(s) = s[1] /\ Tail(s) \in Seq(S) /\ Tail(u) \in Seq(S)
        /\ Len(Tail(s)) = Len(s) - 1 /\ Len(Tail(u)) = Len(u) - 1
        /\ \A i \in 1..Len(Tail(s)) : Tail(s)[i] = s[i + 1]
        /\ \A i \in 1..Len(Tail(u)) : Tail(u)[i] = u[i + 1]
    BY <1>1, <1>2, HeadTailProperties
  <1>4. /\ Tail(s) \o t \in Seq(S) /\ Len(Tail(s) \o t) = Len(Tail(s)) + Len(t)
        /\ \A i \in 1..Len(Tail(s)) + Len(t) :
             (Tail(s) \o t)[i] = IF i <= Len(Tail(s)) THEN Tail(s)[i] ELSE t[i - Len(Tail(s))]
    BY <1>3, ConcatProperties
  <1> DEFINE v == Tail(s) \o t
  <1> HIDE DEF u, v
  <1>5. Len(Tail(u)) = Len(v)
    BY <1>1, <1>3, <1>4 DEF v
  <1>6. ASSUME NEW i \in 1..Len(Tail(u))
        PROVE  Tail(u)[i] = v[i]
    <2>1. i \in 1..Len(Tail(s)) + Len(t) /\ i + 1 \in 1..Len(u) /\ Tail(u)[i] = u[i + 1]
      BY <1>1, <1>3, <1>5, <1>4
    <2>2. CASE i <= Len(Tail(s))
      BY <2>1, <2>2, <1>1, <1>3, <1>4 DEF v
    <2>3. CASE ~(i <= Len(Tail(s)))
      <3>1. i - Len(Tail(s)) = i + 1 - Len(s) /\ ~(i + 1 <= Len(s))
        BY <2>1, <2>3, <1>1, <1>3
      <3>2. v[i] = t[i - Len(Tail(s))]
        BY <2>1, <2>3, <1>4 DEF v
      <3>3. u[i + 1] = t[i + 1 - Len(s)]
        BY <2>1, <3>1, <1>1
      <3> QED BY <2>1, <3>1, <3>2, <3>3
    <2> QED BY <2>2, <2>3
  <1>7. Tail(u) = v
    BY <1>3, <1>4, <1>5, <1>6, SeqEqual DEF v
  <1>8. Head(u) = Head(s)
    BY <1>1, <1>3
  <1> QED BY <1>7, <1>8 DEF u, v

\* Appending to the second of two joined queues appends to both.
LEMMA ConcatAppend ==
  ASSUME NEW S, NEW s \in Seq(S), NEW t \in Seq(S), NEW e \in S
  PROVE  s \o Append(t, e) = Append(s \o t, e)
  <1>1. <<e>> \in Seq(S) /\ s \o t \in Seq(S)
    BY ConcatProperties
  <1>2. Append(t, e) = t \o <<e>> /\ Append(s \o t, e) = (s \o t) \o <<e>>
    BY <1>1, AppendIsConcat
  <1> QED BY <1>1, <1>2, ConcatAssociative

\* Append, as the provers read it: what it does to each position.
IsAppend(t, s, e) ==
  /\ Len(t) = Len(s) + 1 /\ t[Len(s) + 1] = e
  /\ \A i \in 1..Len(s) : t[i] = s[i]

\* Append satisfies its description.
LEMMA AppendIs ==
  ASSUME NEW S, NEW s \in Seq(S), NEW e \in S
  PROVE  Append(s, e) \in Seq(S) /\ IsAppend(Append(s, e), s, e)
  BY AppendProperties, LenProperties DEF IsAppend

\* And nothing else does.
LEMMA AppendOnly ==
  ASSUME NEW S, NEW s \in Seq(S), NEW e \in S, NEW t \in Seq(S), IsAppend(t, s, e)
  PROVE  t = Append(s, e)
  <1> DEFINE u == Append(s, e)
  <1>1. u \in Seq(S) /\ IsAppend(u, s, e) /\ Len(s) \in Nat
    BY AppendIs, LenProperties
  <1> HIDE DEF u
  <1>2. \A i \in 1..Len(t) : i \in 1..Len(s) \/ i = Len(s) + 1
    BY <1>1 DEF IsAppend
  <1>3. Len(t) = Len(u) /\ \A i \in 1..Len(t) : t[i] = u[i]
    BY <1>1, <1>2 DEF IsAppend
  <1> QED BY <1>1, <1>3, SeqEqual DEF u

\* Appending to the second of two joined queues appends to what they join to.
LEMMA AppendSecond ==
  ASSUME NEW S, NEW s \in Seq(S), NEW t \in Seq(S), NEW u \in Seq(S), NEW e \in S,
         IsAppend(u, t, e)
  PROVE  IsAppend(s \o u, s \o t, e)
  <1>1. u = Append(t, e)
    BY AppendOnly
  <1>2. s \o u = Append(s \o t, e)
    BY <1>1, ConcatAppend
  <1>3. s \o t \in Seq(S)
    BY ConcatProperties
  <1> QED BY <1>2, <1>3, AppendIs

\* t is a stretch of s: what is left of a queue when an end of it is dropped.
IsPart(t, s) ==
  \E k \in Nat : \A i \in 1..Len(t) : i + k \in 1..Len(s) /\ t[i] = s[i + k]

\* A part has no element that the whole has not.
LEMMA PartElements ==
  ASSUME NEW S, NEW s \in Seq(S), NEW t \in Seq(S), IsPart(t, s)
  PROVE  ToSet(t) \subseteq ToSet(s)
  <1>1. /\ ToSet(s) = {s[i] : i \in 1..Len(s)}
        /\ ToSet(t) = {t[i] : i \in 1..Len(t)}
    BY ToSetByIndex
  <1>2. \A i \in 1..Len(t) : t[i] \in ToSet(s)
    BY <1>1 DEF IsPart
  <1> QED BY <1>1, <1>2

\* The whole, nothing, and the tail of a sequence are parts of it.
LEMMA PartTail ==
  ASSUME NEW S, NEW s \in Seq(S)
  PROVE  /\ IsPart(s, s) /\ IsPart(<<>>, s)
         /\ s # <<>> => IsPart(Tail(s), s)
  <1>1. IsPart(s, s)
    <2>1. Len(s) \in Nat /\ \A i \in 1..Len(s) : i + 0 \in 1..Len(s) /\ s[i] = s[i + 0]
      BY LenProperties
    <2> QED BY <2>1 DEF IsPart
  <1>2. IsPart(<<>>, s)
    <2>1. \A i \in 1..Len(<<>>) : FALSE
      BY EmptySeq
    <2> QED BY <2>1 DEF IsPart
  <1>3. ASSUME s # <<>> PROVE IsPart(Tail(s), s)
    <2> DEFINE t == Tail(s)
    <2>1. /\ Len(t) = Len(s) - 1 /\ Len(s) \in Nat \ {0}
          /\ \A i \in 1..Len(t) : t[i] = s[i + 1]
      BY <1>3, HeadTailProperties, EmptySeq
    <2> HIDE DEF t
    <2>2. \A i \in 1..Len(t) : i + 1 \in 1..Len(s)
      BY <2>1
    <2> QED BY <2>1, <2>2 DEF IsPart, t
  <1> QED BY <1>1, <1>2, <1>3

\* So are both halves of a joined one.
LEMMA PartConcat ==
  ASSUME NEW S, NEW s \in Seq(S), NEW t \in Seq(S)
  PROVE  IsPart(s, s \o t) /\ IsPart(t, s \o t)
  <1> DEFINE u == s \o t
  <1>1. /\ u \in Seq(S) /\ Len(u) = Len(s) + Len(t) /\ Len(s) \in Nat /\ Len(t) \in Nat
        /\ \A i \in 1..Len(u) : u[i] = IF i <= Len(s) THEN s[i] ELSE t[i - Len(s)]
    BY ConcatProperties, LenProperties
  <1> HIDE DEF u
  <1>2. \A i \in 1..Len(s) : i + 0 \in 1..Len(u) /\ s[i] = u[i + 0]
    BY <1>1
  <1>3. ASSUME NEW i \in 1..Len(t)
        PROVE  i + Len(s) \in 1..Len(u) /\ t[i] = u[i + Len(s)]
    <2>1. /\ i + Len(s) \in 1..Len(u) /\ ~(i + Len(s) <= Len(s))
          /\ i + Len(s) - Len(s) = i
      BY <1>1
    <2> QED BY <2>1, <1>1
  <1>4. IsPart(s, u)
    BY <1>2 DEF IsPart
  <1>5. IsPart(t, u)
    BY <1>1, <1>3 DEF IsPart
  <1> QED BY <1>4, <1>5 DEF u

-----------------------------------------------------------------------------
(* Positions *)

\* A set of naturals has a least element: what the proofs have instead of the
\* induction theorems, whose parameters are operators.
LEMMA LeastNatural ==
  ASSUME NEW T, T \subseteq Nat, T # {}
  PROVE  \E n \in T : \A m \in T : n <= m
  <1> DEFINE R == {ss \in Nat \X Nat : ss[1] < ss[2]}
  <1>1. IsWellFoundedOn(R, Nat)
    BY NatLessThanWellFounded DEF OpToRel
  <1>2. PICK n \in T : \A m \in T : ~ (<<m, n>> \in R)
    <2> HIDE DEF R
    <2> QED BY <1>1, WFMin
  <1>3. \A m \in T : n <= m
    <2> TAKE m \in T
    <2>1. m \in Nat /\ n \in Nat /\ ~ (<<m, n>> \in R)
      BY <1>2
    <2>2. m < n => <<m, n>> \in R
      BY <2>1
    <2> QED BY <2>1, <2>2
  <1> QED BY <1>3

\* The positions before k.
Below(P, k) == {j \in P : j < k}

\* Each step to the right adds the position it passes.
LEMMA BelowNext ==
  ASSUME NEW P, IsFiniteSet(P), P \subseteq Nat, NEW k \in Nat
  PROVE  /\ IsFiniteSet(Below(P, k)) /\ Cardinality(Below(P, k)) \in Nat
         /\ Cardinality(Below(P, k + 1)) =
              IF k \in P THEN Cardinality(Below(P, k)) + 1 ELSE Cardinality(Below(P, k))
  <1>0. \A j \in P : j \in Nat /\ (j < k + 1 <=> j < k \/ j = k)
    OBVIOUS
  <1>1. IsFiniteSet(Below(P, k)) /\ Cardinality(Below(P, k)) \in Nat
    BY FS_Subset, FS_CardinalityType DEF Below
  <1>2. k \notin Below(P, k)
    BY DEF Below
  <1>3. CASE k \in P
    <2>1. Below(P, k + 1) = Below(P, k) \cup {k}
      BY <1>0, <1>3 DEF Below
    <2> QED BY <1>1, <1>2, <1>3, <2>1, FS_AddElement
  <1>4. CASE k \notin P
    <2>1. Below(P, k + 1) = Below(P, k)
      BY <1>0, <1>4 DEF Below
    <2> QED BY <1>1, <1>4, <2>1
  <1> QED BY <1>1, <1>3, <1>4

\* Every place among the chosen positions is taken, and by one position.
LEMMA NthPosition ==
  ASSUME NEW P, IsFiniteSet(P), NEW N \in Nat, P \subseteq 1..N
  PROVE  /\ Cardinality(P) \in Nat
         /\ \A n \in 1..Cardinality(P) : \E i \in P : Cardinality(Below(P, i)) = n - 1
         /\ \A i, k \in P : Cardinality(Below(P, i)) = Cardinality(Below(P, k)) => i = k
         /\ \A i \in P : Cardinality(Below(P, i)) + 1 \in 1..Cardinality(P)
  <1>a. \A i \in P : i \in Nat /\ i < N + 1 /\ ~(i < 0)
    OBVIOUS
  <1>b. P \subseteq Nat
    BY <1>a
  <1>c. Below(P, N + 1) = P /\ Below(P, 0) = {}
    BY <1>a DEF Below
  <1>0. Cardinality(P) \in Nat
    BY FS_CardinalityType
  <1>1. ASSUME NEW n \in 1..Cardinality(P)
        PROVE  \E i \in P : Cardinality(Below(P, i)) = n - 1
    <2> DEFINE T == {k \in Nat : n <= Cardinality(Below(P, k))}
    <2>1. N + 1 \in T
      <3> QED BY <1>c, <1>0
    <2>2. PICK k \in T : \A j \in T : k <= j
      <3> HIDE DEF T
      <3>1. T \subseteq Nat /\ T # {}
        BY <2>1 DEF T
      <3> QED BY <3>1, LeastNatural
    <2>3. k # 0
      <3> QED BY <1>c, FS_EmptySet
    <2>4. k - 1 \in Nat /\ k - 1 \notin T /\ (k - 1) + 1 = k
      BY <2>2, <2>3
    <2>5. /\ Cardinality(Below(P, k - 1)) \in Nat
          /\ Cardinality(Below(P, k)) =
               IF k - 1 \in P THEN Cardinality(Below(P, k - 1)) + 1
                              ELSE Cardinality(Below(P, k - 1))
      <3> DEFINE p == k - 1
      <3>1. p \in Nat /\ p + 1 = k
        BY <2>4
      <3> HIDE DEF p
      <3>2. /\ Cardinality(Below(P, p)) \in Nat
            /\ Cardinality(Below(P, p + 1)) =
                 IF p \in P THEN Cardinality(Below(P, p)) + 1 ELSE Cardinality(Below(P, p))
        BY <3>1, <1>b, BelowNext
      <3> QED BY <3>1, <3>2 DEF p
    <2>6. n <= Cardinality(Below(P, k)) /\ ~(n <= Cardinality(Below(P, k - 1)))
      BY <2>2, <2>4
    <2>7. k - 1 \in P /\ Cardinality(Below(P, k - 1)) = n - 1
      BY <2>5, <2>6, <1>0
    <2> QED BY <2>7
  <1>2. ASSUME NEW i \in P, NEW k \in Nat, i < k
        PROVE  /\ Cardinality(Below(P, i)) \in Nat /\ Cardinality(Below(P, k)) \in Nat
               /\ Cardinality(Below(P, i)) < Cardinality(Below(P, k))
    <2>1. Cardinality(Below(P, i + 1)) = Cardinality(Below(P, i)) + 1
          /\ Cardinality(Below(P, i)) \in Nat
      BY <1>a, <1>b, BelowNext
    <2>2. Below(P, i + 1) \subseteq Below(P, k)
      <3>1. \A j \in P : j < i + 1 => j < k
        BY <1>a, <1>2
      <3> QED BY <3>1 DEF Below
    <2>4. IsFiniteSet(Below(P, k)) /\ Cardinality(Below(P, k)) \in Nat
      BY <1>a, <1>b, BelowNext
    <2>3. Cardinality(Below(P, i + 1)) <= Cardinality(Below(P, k))
      BY <2>2, <2>4, FS_Subset
    <2> QED BY <2>1, <2>3, <2>4
  <1>3. ASSUME NEW i \in P, NEW k \in P, Cardinality(Below(P, i)) = Cardinality(Below(P, k))
        PROVE  i = k
    <2>1. ~(i < k) /\ ~(k < i)
      BY <1>2, <1>3
    <2> QED BY <2>1
  <1>4. ASSUME NEW i \in P
        PROVE  Cardinality(Below(P, i)) + 1 \in 1..Cardinality(P)
    <2> QED BY <1>a, <1>c, <1>0, <1>2
  <1> QED BY <1>0, <1>1, <1>3, <1>4

\* t is s without its n-th element.
IsRemoved(t, s, n) ==
  /\ Len(s) = Len(t) + 1
  /\ \A i \in 1..Len(t) : t[i] = IF i < n THEN s[i] ELSE s[i + 1]

\* RemoveAt satisfies its description, and loses one element at most.
LEMMA RemoveAtIs ==
  ASSUME NEW S, NEW s \in Seq(S), NEW n \in 1..Len(s)
  PROVE  /\ RemoveAt(s, n) \in Seq(S) /\ IsRemoved(RemoveAt(s, n), s, n)
         /\ s[n] \in S /\ ToSet(s) = ToSet(RemoveAt(s, n)) \cup {s[n]}
  <1>1. Len(s) \in Nat /\ \A i \in 1..Len(s) : s[i] \in S
    BY LenProperties, ElementOfSeq
  <1>2. PICK l \in Nat : l = Len(s) /\ n \in 1..l
    BY <1>1
  <1> DEFINE a == SubSeq(s, 1, n - 1)
             b == SubSeq(s, n + 1, l)
             t == a \o b
  <1>3. t = RemoveAt(s, n)
    BY <1>2 DEF RemoveAt
  <1>4. a \in Seq(S) /\ Len(a) = n - 1 /\ \A i \in 1..n - 1 : a[i] = s[i]
    <2>1. 1 \in Int /\ n - 1 \in Int /\ \A i \in 1..n - 1 : s[i] \in S
      BY <1>1, <1>2
    <2>2. /\ a \in Seq(S) /\ Len(a) = IF 1 <= n - 1 THEN n - 1 - 1 + 1 ELSE 0
          /\ \A i \in 1..n - 1 - 1 + 1 : a[i] = s[1 + i - 1]
      BY <2>1, SubSeqProperties
    <2> HIDE DEF a
    <2> QED BY <1>2, <2>2
  <1>5. b \in Seq(S) /\ Len(b) = l - n /\ \A i \in 1..l - n : b[i] = s[n + i]
    <2>1. n + 1 \in Int /\ l \in Int /\ \A i \in n + 1..l : s[i] \in S
      BY <1>1, <1>2
    <2>2. /\ b \in Seq(S) /\ Len(b) = IF n + 1 <= l THEN l - (n + 1) + 1 ELSE 0
          /\ \A i \in 1..l - (n + 1) + 1 : b[i] = s[n + 1 + i - 1]
      BY <2>1, SubSeqProperties
    <2> HIDE DEF b
    <2>3. Len(b) = l - n
      BY <1>2, <2>2
    <2>4. ASSUME NEW i \in 1..l - n PROVE b[i] = s[n + i]
      <3>1. i \in 1..l - (n + 1) + 1 /\ n + 1 + i - 1 = n + i
        BY <1>2
      <3> QED BY <2>2, <3>1
    <2> QED BY <2>2, <2>3, <2>4
  <1> HIDE DEF a, b
  <1>6. /\ t \in Seq(S) /\ Len(t) = Len(a) + Len(b)
        /\ \A i \in 1..Len(a) + Len(b) : t[i] = IF i <= Len(a) THEN a[i] ELSE b[i - Len(a)]
    BY <1>4, <1>5, ConcatProperties
  <1> HIDE DEF t
  <1>7. Len(t) = l - 1
    BY <1>2, <1>4, <1>5, <1>6
  <1>8. \A i \in 1..l - 1 : t[i] = IF i < n THEN s[i] ELSE s[i + 1]
    <2>1. ASSUME NEW i \in 1..l - 1, i < n PROVE t[i] = s[i]
      <3>1. i \in 1..(n - 1) + (l - n) /\ i <= n - 1 /\ i \in 1..n - 1
        BY <1>2, <2>1
      <3>2. t[i] = a[i]
        BY <1>4, <1>5, <1>6, <3>1
      <3> QED BY <1>4, <3>1, <3>2
    <2>2. ASSUME NEW i \in 1..l - 1, ~(i < n) PROVE t[i] = s[i + 1]
      <3>1. i - (n - 1) \in 1..l - n /\ n + (i - (n - 1)) = i + 1
        BY <1>2, <2>2
      <3>2. i \in 1..(n - 1) + (l - n) /\ ~(i <= n - 1)
        BY <1>2, <2>2
      <3>3. t[i] = b[i - (n - 1)]
        BY <1>4, <1>5, <1>6, <3>2
      <3> QED BY <1>5, <3>1, <3>3
    <2> QED BY <2>1, <2>2
  <1>9. IsRemoved(t, s, n)
    BY <1>2, <1>7, <1>8 DEF IsRemoved
  <1>10. ToSet(s) = ToSet(t) \cup {s[n]}
    <2>1. ToSet(s) = {s[i] : i \in 1..l} /\ ToSet(t) = {t[i] : i \in 1..l - 1}
      BY <1>2, <1>6, <1>7, ToSetByIndex
    <2>2. ASSUME NEW i \in 1..l PROVE s[i] \in ToSet(t) \cup {s[n]}
      <3>1. CASE i < n
        BY <1>2, <1>8, <2>1, <3>1
      <3>2. CASE i > n
        <4>1. i - 1 \in 1..l - 1 /\ ~(i - 1 < n) /\ i - 1 + 1 = i
          BY <1>2, <3>2
        <4>2. t[i - 1] = s[i]
          BY <1>8, <4>1
        <4> QED BY <2>1, <4>1, <4>2
      <3> QED BY <1>2, <3>1, <3>2
    <2>3. ASSUME NEW i \in 1..l - 1 PROVE t[i] \in ToSet(s)
      <3>1. i \in 1..l /\ i + 1 \in 1..l
        BY <1>2
      <3> QED BY <1>8, <2>1, <3>1
    <2>4. s[n] \in ToSet(s)
      BY <1>2, <2>1
    <2> QED BY <2>1, <2>2, <2>3, <2>4
  <1> QED BY <1>1, <1>3, <1>6, <1>9, <1>10

\* Append, with the length by its name.
LEMMA Appended ==
  ASSUME NEW S, NEW s \in Seq(S), NEW e \in S, NEW l \in Nat, l = Len(s), NEW u, u = Append(s, e)
  PROVE  u \in Seq(S) /\ Len(u) = l + 1 /\ u[l + 1] = e /\ \A i \in 1..l : u[i] = s[i]
  <1>1. u \in Seq(S) /\ IsAppend(u, s, e)
    BY AppendIs
  <1> QED BY <1>1 DEF IsAppend

-----------------------------------------------------------------------------
(* The operations of the messages in a queue *)

Ops(s) == [i \in 1..Len(s) |-> s[i].op]

\* Ops goes through Append, Head and Tail.
LEMMA OpsForms ==
  ASSUME NEW S, NEW s \in Seq(S)
  PROVE  /\ \A a \in S : Ops(Append(s, a)) = Append(Ops(s), a.op)
         /\ s # <<>> => /\ Ops(s) # <<>> /\ Head(Ops(s)) = Head(s).op
                        /\ Ops(Tail(s)) = Tail(Ops(s))
  <1>1. PICK l \in Nat : l = Len(s) /\ \A i \in 1..l : s[i] \in S
    BY LenProperties, ElementOfSeq
  <1> DEFINE O == {a.op : a \in S}
  <1>2. PICK o : o = Ops(s)
    OBVIOUS
  <1>3. o \in Seq(O) /\ Len(o) = l /\ \A i \in 1..l : o[i] = s[i].op
    <2>1. o = [i \in 1..l |-> s[i].op] /\ \A i \in 1..l : s[i].op \in O
      BY <1>1, <1>2 DEF Ops
    <2> HIDE DEF O
    <2> QED BY <1>1, <2>1
  <1>4. ASSUME NEW a \in S PROVE Ops(Append(s, a)) = Append(o, a.op)
    <2>1. PICK u : u = Append(s, a)
      OBVIOUS
    <2>2. Len(u) = l + 1 /\ u[l + 1] = a /\ \A i \in 1..l : u[i] = s[i]
      BY <1>1, <2>1, Appended
    <2>3. PICK q : q = Ops(u)
      OBVIOUS
    <2>4. q = [i \in 1..l + 1 |-> u[i].op]
      BY <2>2, <2>3 DEF Ops
    <2>5. a.op \in O /\ \A i \in 1..l : u[i].op \in O
      BY <1>1, <2>2
    <2> HIDE DEF O
    <2>6. q \in Seq(O) /\ Len(q) = l + 1 /\ q[l + 1] = a.op /\ \A i \in 1..l : q[i] = o[i]
      <3>1. \A i \in 1..l + 1 : u[i].op \in O
        <4>1. \A i \in 1..l + 1 : i = l + 1 \/ i \in 1..l
          BY <1>1
        <4> QED BY <2>2, <2>5, <4>1
      <3>2. q \in Seq(O) /\ Len(q) = l + 1
        BY <1>1, <2>4, <3>1
      <3>3. l + 1 \in 1..l + 1 /\ 1..l \subseteq 1..l + 1
        BY <1>1
      <3> QED BY <1>3, <2>2, <2>4, <3>2, <3>3
    <2>7. IsAppend(q, o, a.op)
      BY <1>3, <2>6 DEF IsAppend
    <2> QED BY <1>3, <2>1, <2>3, <2>5, <2>6, <2>7, AppendOnly
  <1>5. ASSUME s # <<>>
        PROVE  o # <<>> /\ Head(o) = Head(s).op /\ Ops(Tail(s)) = Tail(o)
    <2>1. l # 0
      BY <1>1, <1>5, EmptySeq
    <2>2. o # <<>>
      BY <1>3, <2>1, EmptySeq
    <2>3. Tail(s) \in Seq(S) /\ Len(Tail(s)) = l - 1 /\ Head(s) = s[1]
          /\ \A i \in 1..l - 1 : Tail(s)[i] = s[i + 1]
      BY <1>1, <1>5, HeadTailProperties
    <2>4. Tail(o) \in Seq(O) /\ Len(Tail(o)) = l - 1 /\ Head(o) = o[1]
          /\ \A i \in 1..l - 1 : Tail(o)[i] = o[i + 1]
      <3> HIDE DEF O
      <3> QED BY <1>3, <2>2, HeadTailProperties
    <2>5. Head(o) = Head(s).op
      <3>1. 1 \in 1..l
        BY <1>1, <2>1
      <3> QED BY <1>3, <2>3, <2>4, <3>1
    <2>6. PICK q : q = Ops(Tail(s))
      OBVIOUS
    <2>7. q = [i \in 1..l - 1 |-> Tail(s)[i].op]
      BY <2>3, <2>6 DEF Ops
    <2>8. \A i \in 1..l - 1 : q[i] = Tail(o)[i] /\ q[i] \in O
      <3>1. \A i \in 1..l - 1 : i + 1 \in 1..l
        BY <1>1
      <3> QED BY <1>1, <1>3, <2>3, <2>4, <2>7, <3>1
    <2> HIDE DEF O
    <2>9. q \in Seq(O) /\ Len(q) = l - 1
      BY <1>1, <2>1, <2>7, <2>8
    <2>10. q = Tail(o)
      BY <2>4, <2>8, <2>9, SeqEqual
    <2> QED BY <2>2, <2>5, <2>6, <2>10
  <1> QED BY <1>2, <1>4, <1>5
=============================================================================
