---------------------------- MODULE QueueLemmas ----------------------------
(***************************************************************************)
(* What the proofs share: how many threads stand at certain places of      *)
(* their code, what putting and taking do to the elements of a sequence,   *)
(* and what a recursive function over a sequence computes.                 *)
(***************************************************************************)
EXTENDS Integers, Functions, FiniteSetTheorems, SequenceTheorems, WellFoundedInduction, TLAPS

\* The members of P that at has at one of the places in S, and their number.
Standing(P, at, S) == {q \in P : at[q] \in S}
HowMany(P, at, S) == Cardinality(Standing(P, at, S))

\* The number of threads at certain places is a natural number.
LEMMA CountNat ==
    ASSUME NEW P, IsFiniteSet(P), NEW at, NEW S
    PROVE  HowMany(P, at, S) \in Nat
<1>1. Standing(P, at, S) \subseteq P
  BY DEF Standing
<1> QED
  BY <1>1, FS_Subset, FS_CardinalityType DEF HowMany

\* When only thread p moves, from where at has it to where after has it, the
\* count at S goes up by one if p reaches S.
LEMMA CountUp ==
    ASSUME NEW P, IsFiniteSet(P), NEW at, NEW after, NEW p \in P, NEW S,
           \A q \in P : q # p => after[q] = at[q],
           at[p] \notin S, after[p] \in S
    PROVE  HowMany(P, after, S) = HowMany(P, at, S) + 1
<1>1. Standing(P, at, S) \subseteq P /\ p \notin Standing(P, at, S)
  BY DEF Standing
<1>2. IsFiniteSet(Standing(P, at, S))
  BY <1>1, FS_Subset
<1>3. Standing(P, after, S) = Standing(P, at, S) \cup {p}
  BY DEF Standing
<1> QED
  BY <1>1, <1>2, <1>3, FS_AddElement DEF HowMany

\* It goes down by one if p leaves S.
LEMMA CountDown ==
    ASSUME NEW P, IsFiniteSet(P), NEW at, NEW after, NEW p \in P, NEW S,
           \A q \in P : q # p => after[q] = at[q],
           at[p] \in S, after[p] \notin S
    PROVE  HowMany(P, after, S) = HowMany(P, at, S) - 1
<1>1. HowMany(P, at, S) = HowMany(P, after, S) + 1
  BY CountUp
<1>2. HowMany(P, after, S) \in Nat
  BY CountNat
<1> QED
  BY <1>1, <1>2

\* It stays if p does neither.
LEMMA CountSame ==
    ASSUME NEW P, NEW at, NEW after, NEW p \in P, NEW S,
           \A q \in P : q # p => after[q] = at[q],
           (at[p] \in S <=> after[p] \in S)
    PROVE  HowMany(P, after, S) = HowMany(P, at, S)
<1>1. Standing(P, after, S) = Standing(P, at, S)
  BY DEF Standing
<1> QED
  BY <1>1 DEF HowMany

\* What appending does to the elements of a sequence.
LEMMA RangeAppend ==
    ASSUME NEW S, NEW s \in Seq(S), NEW x \in S
    PROVE  Range(Append(s, x)) = Range(s) \cup {x}
<1>1. /\ Append(s, x) \in Seq(S)
      /\ Len(Append(s, x)) = Len(s) + 1
      /\ \A i \in 1 .. Len(s) : Append(s, x)[i] = s[i]
      /\ Append(s, x)[Len(s) + 1] = x
  BY AppendProperties
<1>2. DOMAIN s = 1 .. Len(s) /\ DOMAIN Append(s, x) = 1 .. (Len(s) + 1) /\ Len(s) \in Nat
  BY <1>1, LenProperties
<1>3. 1 .. (Len(s) + 1) = (1 .. Len(s)) \cup {Len(s) + 1}
  BY <1>2
<1> QED
  BY <1>1, <1>2, <1>3 DEF Range

\* What removing the head does to them.
LEMMA RangeTail ==
    ASSUME NEW S, NEW s \in Seq(S), s # << >>
    PROVE  /\ Range(s) = {Head(s)} \cup Range(Tail(s))
           /\ Range(s) \subseteq S
<1>1. /\ Tail(s) \in Seq(S) /\ Len(Tail(s)) = Len(s) - 1 /\ Len(s) \in Nat \ {0}
      /\ \A i \in 1 .. Len(Tail(s)) : Tail(s)[i] = s[i + 1]
      /\ Head(s) = s[1]
  BY HeadTailProperties, LenProperties, EmptySeq
<1>2. DOMAIN s = 1 .. Len(s) /\ DOMAIN Tail(s) = 1 .. (Len(s) - 1)
  BY <1>1, LenProperties
<1>3. ASSUME NEW i \in 1 .. Len(s) PROVE s[i] \in {Head(s)} \cup Range(Tail(s))
  <2>1. CASE i = 1
    BY <1>1, <2>1
  <2>2. CASE i # 1
    <3>1. i - 1 \in 1 .. (Len(s) - 1)
      BY <1>1, <2>2
    <3>2. Tail(s)[i - 1] = s[i]
      BY <1>1, <3>1
    <3> QED
      BY <1>2, <3>1, <3>2 DEF Range
  <2> QED
    BY <2>1, <2>2
<1>4. Head(s) \in Range(s)
  BY <1>1, <1>2 DEF Range
<1>5. ASSUME NEW i \in 1 .. (Len(s) - 1) PROVE Tail(s)[i] \in Range(s)
  <2>1. i + 1 \in DOMAIN s /\ Tail(s)[i] = s[i + 1]
    BY <1>1, <1>2
  <2> QED
    BY <2>1 DEF Range
<1>6. Range(s) \subseteq S
  BY ElementOfSeq, <1>2 DEF Range
<1> QED
  BY <1>2, <1>3, <1>4, <1>5, <1>6 DEF Range

\* A sequence without repetitions stays one when something new is appended, and when
\* its head is taken, which is then no longer in it.
LEMMA InjectiveAppend ==
    ASSUME NEW S, NEW s \in Seq(S), NEW x \in S, IsInjective(s), x \notin Range(s)
    PROVE  IsInjective(Append(s, x))
<1>1. /\ Append(s, x) \in Seq(S)
      /\ Len(Append(s, x)) = Len(s) + 1
      /\ \A i \in 1 .. Len(s) : Append(s, x)[i] = s[i]
      /\ Append(s, x)[Len(s) + 1] = x
  BY AppendProperties
<1>2. DOMAIN s = 1 .. Len(s) /\ DOMAIN Append(s, x) = 1 .. (Len(s) + 1) /\ Len(s) \in Nat
  BY <1>1, LenProperties
<1>3. ASSUME NEW i \in 1 .. (Len(s) + 1), NEW j \in 1 .. (Len(s) + 1),
             Append(s, x)[i] = Append(s, x)[j]
      PROVE  i = j
  <2>1. CASE i <= Len(s) /\ j <= Len(s)
    BY <1>1, <1>2, <1>3, <2>1 DEF IsInjective
  <2>2. CASE i = Len(s) + 1 /\ j <= Len(s)
    BY <1>1, <1>2, <1>3, <2>2 DEF Range
  <2>3. CASE j = Len(s) + 1 /\ i <= Len(s)
    BY <1>1, <1>2, <1>3, <2>3 DEF Range
  <2> QED BY <1>2, <2>1, <2>2, <2>3
<1> QED BY <1>2, <1>3 DEF IsInjective

LEMMA InjectiveTail ==
    ASSUME NEW S, NEW s \in Seq(S), s # << >>, IsInjective(s)
    PROVE  IsInjective(Tail(s)) /\ Range(Tail(s)) = Range(s) \ {Head(s)}
<1>1. /\ Tail(s) \in Seq(S) /\ Len(Tail(s)) = Len(s) - 1 /\ Len(s) \in Nat \ {0}
      /\ \A i \in 1 .. Len(Tail(s)) : Tail(s)[i] = s[i + 1]
      /\ Head(s) = s[1]
  BY HeadTailProperties, LenProperties, EmptySeq
<1>2. DOMAIN s = 1 .. Len(s) /\ DOMAIN Tail(s) = 1 .. (Len(s) - 1)
  BY <1>1, LenProperties
<1>3. ASSUME NEW i \in 1 .. (Len(s) - 1), NEW j \in 1 .. (Len(s) - 1), Tail(s)[i] = Tail(s)[j]
      PROVE  i = j
  <2>1. i + 1 \in DOMAIN s /\ j + 1 \in DOMAIN s /\ s[i + 1] = s[j + 1]
    BY <1>1, <1>2, <1>3
  <2>2. i + 1 = j + 1
    BY <2>1 DEF IsInjective
  <2> QED BY <2>2
<1>4. ASSUME NEW i \in 1 .. (Len(s) - 1) PROVE Tail(s)[i] # Head(s)
  <2>1. i + 1 \in DOMAIN s /\ 1 \in DOMAIN s /\ i + 1 # 1 /\ Tail(s)[i] = s[i + 1]
    BY <1>1, <1>2
  <2> QED BY <1>1, <2>1 DEF IsInjective
<1>5. Range(s) = {Head(s)} \cup Range(Tail(s))
  BY RangeTail
<1> QED BY <1>2, <1>3, <1>4, <1>5 DEF IsInjective, Range

\* The positions at which a sequence has a member of T, and their number.
Where(s, T) == {i \in DOMAIN s : s[i] \in T}

LEMMA WhereFinite ==
    ASSUME NEW S, NEW s \in Seq(S), NEW T
    PROVE  IsFiniteSet(Where(s, T)) /\ Cardinality(Where(s, T)) \in Nat
<1>1. DOMAIN s = 1 .. Len(s) /\ Len(s) \in Nat
  BY LenProperties
<1>2. IsFiniteSet(1 .. Len(s))
  BY <1>1, FS_Interval
<1>3. Where(s, T) \in SUBSET (1 .. Len(s))
  BY <1>1 DEF Where
<1> QED BY <1>2, <1>3, FS_Subset, FS_CardinalityType

LEMMA WhereAppend ==
    ASSUME NEW S, NEW s \in Seq(S), NEW x \in S, NEW T
    PROVE  Cardinality(Where(Append(s, x), T)) =
               Cardinality(Where(s, T)) + IF x \in T THEN 1 ELSE 0
<1>1. /\ Append(s, x) \in Seq(S)
      /\ Len(Append(s, x)) = Len(s) + 1
      /\ \A i \in 1 .. Len(s) : Append(s, x)[i] = s[i]
      /\ Append(s, x)[Len(s) + 1] = x
  BY AppendProperties
<1>2. DOMAIN s = 1 .. Len(s) /\ DOMAIN Append(s, x) = 1 .. (Len(s) + 1) /\ Len(s) \in Nat
  BY <1>1, LenProperties
<1>3. 1 .. (Len(s) + 1) = (1 .. Len(s)) \cup {Len(s) + 1} /\ Len(s) + 1 \notin 1 .. Len(s)
  BY <1>2
<1>4. Where(Append(s, x), T) = Where(s, T) \cup IF x \in T THEN {Len(s) + 1} ELSE {}
  BY <1>1, <1>2, <1>3 DEF Where
<1>5. IsFiniteSet(Where(s, T)) /\ Cardinality(Where(s, T)) \in Nat /\ Len(s) + 1 \notin Where(s, T)
  BY <1>2, <1>3, WhereFinite DEF Where
<1>6. Cardinality(Where(s, T) \cup {Len(s) + 1}) = Cardinality(Where(s, T)) + 1
  BY <1>5, FS_AddElement
<1>7. CASE x \in T
  BY <1>4, <1>6, <1>7
<1>8. CASE x \notin T
  <2>1. Where(Append(s, x), T) = Where(s, T)
    BY <1>4, <1>8
  <2> QED BY <1>5, <1>8, <2>1
<1> QED BY <1>7, <1>8

LEMMA WhereTail ==
    ASSUME NEW S, NEW s \in Seq(S), s # << >>, NEW T
    PROVE  Cardinality(Where(Tail(s), T)) =
               Cardinality(Where(s, T)) - IF Head(s) \in T THEN 1 ELSE 0
<1>1. /\ Tail(s) \in Seq(S) /\ Len(Tail(s)) = Len(s) - 1 /\ Len(s) \in Nat \ {0}
      /\ \A i \in 1 .. Len(Tail(s)) : Tail(s)[i] = s[i + 1]
      /\ Head(s) = s[1]
  BY HeadTailProperties, LenProperties, EmptySeq
<1>2. DOMAIN s = 1 .. Len(s) /\ DOMAIN Tail(s) = 1 .. (Len(s) - 1)
  BY <1>1, LenProperties
<1> DEFINE A == Where(s, T) \ {1}
           B == Where(Tail(s), T)
           f == [i \in B |-> i + 1]
<1>3. /\ \A i \in B : i \in Nat /\ i >= 1 /\ i + 1 \in A
      /\ \A i \in A : i \in Nat /\ i - 1 \in B /\ i >= 2
  BY <1>1, <1>2 DEF Where
<1>4. IsFiniteSet(B) /\ IsFiniteSet(Where(s, T)) /\ Cardinality(Where(s, T)) \in Nat
  BY <1>1, WhereFinite
<1>5. f \in Bijection(B, A)
  <2> HIDE DEF A, B
  <2>1. f \in [B -> A]
    BY <1>3
  <2>2. f \in Injection(B, A)
    <3>1. \A i, j \in B : f[i] = f[j] => i = j
      BY <1>3
    <3> QED BY <2>1, <3>1 DEF Injection, IsInjective
  <2>3. f \in Surjection(B, A)
    <3>1. \A i \in A : \E j \in B : f[j] = i
      <4>1. ASSUME NEW i \in A PROVE \E j \in B : f[j] = i
        <5>1. i - 1 \in B /\ f[i - 1] = i
          BY <1>3
        <5> QED BY <5>1
      <4> QED BY <4>1
    <3> QED BY <2>1, <3>1 DEF Surjection
  <2> QED BY <2>2, <2>3 DEF Bijection
<1>6. Cardinality(A) = Cardinality(B)
  <2>1. ExistsBijection(B, A)
    BY <1>5 DEF ExistsBijection
  <2> QED BY <1>4, <2>1, FS_Bijection
<1>7. Cardinality(A) = IF 1 \in Where(s, T) THEN Cardinality(Where(s, T)) - 1 ELSE Cardinality(Where(s, T))
  BY <1>4, FS_RemoveElement
<1>8. 1 \in Where(s, T) <=> Head(s) \in T
  BY <1>1, <1>2 DEF Where
<1> HIDE DEF A, B
<1> QED BY <1>4, <1>6, <1>7, <1>8 DEF B

\* What is left of a sequence without its i-th entry.
LEMMA Spliced ==
    ASSUME NEW S, NEW seq \in Seq(S), NEW i \in DOMAIN seq
    PROVE  LET rest == SubSeq(seq, 1, i - 1) \o SubSeq(seq, i + 1, Len(seq)) IN
           /\ rest \in Seq(S) /\ Len(rest) = Len(seq) - 1
           /\ \A k \in 1 .. Len(seq) - 1 : rest[k] = IF k < i THEN seq[k] ELSE seq[k + 1]
<1> DEFINE n == Len(seq)
           front == SubSeq(seq, 1, i - 1)
           back == SubSeq(seq, i + 1, n)
           rest == front \o back
<1>1. n \in Nat /\ i \in 1 .. n /\ \A k \in 1 .. n : seq[k] \in S
  BY LenProperties, ElementOfSeq
<1>2. /\ front \in Seq(S) /\ Len(front) = i - 1
      /\ \A k \in 1 .. i - 1 : front[k] = seq[k]
  <2>1. \A k \in 1 .. i - 1 : seq[k] \in S
    BY <1>1
  <2>2. /\ front \in Seq(S) /\ Len(front) = IF 1 <= i - 1 THEN i - 1 - 1 + 1 ELSE 0
        /\ \A k \in 1 .. i - 1 - 1 + 1 : front[k] = seq[1 + k - 1]
    BY <1>1, <2>1, SubSeqProperties
  <2> QED
    BY <1>1, <2>2
<1>3. /\ back \in Seq(S) /\ Len(back) = n - i
      /\ \A k \in 1 .. n - i : back[k] = seq[i + k]
  <2>1. \A k \in i + 1 .. n : seq[k] \in S
    BY <1>1
  <2>2. /\ back \in Seq(S) /\ Len(back) = IF i + 1 <= n THEN n - (i + 1) + 1 ELSE 0
        /\ \A k \in 1 .. n - (i + 1) + 1 : back[k] = seq[i + 1 + k - 1]
    BY <1>1, <2>1, SubSeqProperties
  <2> QED
    BY <1>1, <2>2
<1>4. /\ rest \in Seq(S) /\ Len(rest) = Len(front) + Len(back)
      /\ \A k \in 1 .. Len(front) + Len(back) :
            rest[k] = IF k <= Len(front) THEN front[k] ELSE back[k - Len(front)]
  BY <1>2, <1>3, ConcatProperties
<1>5. rest = SubSeq(seq, 1, i - 1) \o SubSeq(seq, i + 1, Len(seq))
  OBVIOUS
<1> HIDE DEF n, front, back, rest
<1>6. ASSUME NEW k \in 1 .. n - 1
      PROVE  rest[k] = IF k < i THEN seq[k] ELSE seq[k + 1]
  <2>1. CASE k < i
    <3>1. k \in 1 .. i - 1 /\ k \in 1 .. Len(front) + Len(back)
      BY <1>1, <1>2, <1>3, <2>1
    <3> QED
      BY <1>2, <1>4, <2>1, <3>1
  <2>2. CASE ~ k < i
    <3>4. Len(front) = i - 1 /\ Len(back) = n - i /\ n \in Nat /\ i \in 1 .. n
      BY <1>1, <1>2, <1>3
    <3>5. k \in Nat /\ k >= i /\ k <= n - 1 /\ k >= 1
      BY <2>2, <3>4
    <3>6. ~ k <= i - 1 /\ k - (i - 1) >= 1 /\ k - (i - 1) <= n - i /\ k <= (i - 1) + (n - i)
      BY <3>4, <3>5, SMTT(40)
    <3>1. k \in 1 .. Len(front) + Len(back) /\ ~ k <= Len(front)
          /\ Len(front) = i - 1 /\ k - (i - 1) \in 1 .. n - i
      BY <3>4, <3>5, <3>6
    <3>3. rest[k] = back[k - (i - 1)]
      BY <1>4, <3>1
    <3>2. i + (k - (i - 1)) = k + 1
      BY <1>1
    <3> QED
      BY <1>3, <2>2, <3>1, <3>2, <3>3
  <2> QED
    BY <2>1, <2>2
<1>7. Len(rest) = n - 1
  BY <1>1, <1>2, <1>3, <1>4
<1> QED
  BY <1>4, <1>5, <1>6, <1>7 DEF n

\* t is s without its n-th entry.
Lacking(t, s, n) ==
    /\ Len(t) = Len(s) - 1
    /\ \A k \in 1 .. Len(s) - 1 : t[k] = IF k < n THEN s[k] ELSE s[k + 1]

LEMMA WhereLacking ==
    ASSUME NEW S, NEW s \in Seq(S), NEW n \in DOMAIN s, NEW T, NEW t \in Seq(S), Lacking(t, s, n)
    PROVE  Cardinality(Where(t, T)) = Cardinality(Where(s, T)) - IF s[n] \in T THEN 1 ELSE 0
<1>1. /\ DOMAIN s = 1 .. Len(s) /\ DOMAIN t = 1 .. Len(s) - 1 /\ Len(s) \in Nat \ {0}
      /\ n \in 1 .. Len(s)
  BY LenProperties DEF Lacking
<1> DEFINE A == Where(s, T) \ {n}
           B == Where(t, T)
           f == [i \in B |-> IF i < n THEN i ELSE i + 1]
<1>2. /\ \A i \in B : i \in Nat /\ (IF i < n THEN i ELSE i + 1) \in A
      /\ \A i \in A : i \in Nat /\ i # n /\ (IF i < n THEN i ELSE i - 1) \in B
  BY <1>1 DEF Where, Lacking
<1>3. IsFiniteSet(B) /\ IsFiniteSet(Where(s, T)) /\ Cardinality(Where(s, T)) \in Nat
  BY WhereFinite
<1>4. f \in Bijection(B, A)
  <2> HIDE DEF A, B
  <2>0. \A i \in B : f[i] = IF i < n THEN i ELSE i + 1
    OBVIOUS
  <2>1. f \in [B -> A]
    BY <1>2
  <2> HIDE DEF f
  <2>2. f \in Injection(B, A)
    <3>1. ASSUME NEW i \in B, NEW j \in B, f[i] = f[j] PROVE i = j
      <4>1. i \in Nat /\ j \in Nat /\ n \in Nat
        BY <1>1, <1>2
      <4> QED
        BY <2>0, <3>1, <4>1
    <3> QED
      BY <2>1, <3>1 DEF Injection, IsInjective
  <2>3. f \in Surjection(B, A)
    <3>1. ASSUME NEW i \in A PROVE \E j \in B : f[j] = i
      <4>1. PICK j \in B : j = IF i < n THEN i ELSE i - 1
        BY <1>2
      <4>2. f[j] = i
        BY <1>1, <1>2, <2>0, <4>1
      <4> QED
        BY <4>2
    <3> QED
      BY <2>1, <3>1 DEF Surjection
  <2> QED
    BY <2>2, <2>3 DEF Bijection
<1>5. Cardinality(A) = Cardinality(B)
  <2>1. ExistsBijection(B, A)
    BY <1>4 DEF ExistsBijection
  <2> QED
    BY <1>3, <2>1, FS_Bijection
<1>6. Cardinality(A) = IF n \in Where(s, T) THEN Cardinality(Where(s, T)) - 1 ELSE Cardinality(Where(s, T))
  BY <1>3, FS_RemoveElement
<1>7. n \in Where(s, T) <=> s[n] \in T
  BY <1>1 DEF Where
<1> HIDE DEF A, B
<1> QED
  BY <1>3, <1>5, <1>6, <1>7 DEF B

\* Pairs of a tag in C and an element of the set S gives the tag.
Tagged(C, S) == UNION {{c} \X S[c] : c \in C}

LEMMA UpTo ==
    ASSUME NEW n \in Nat
    PROVE  IsFiniteSet(1 .. n) /\ Cardinality(1 .. n) = n
<1>1. 1 \in Int /\ n \in Int
  OBVIOUS
<1>2. Cardinality(1 .. n) = IF 1 > n THEN 0 ELSE n - 1 + 1
  BY <1>1, FS_Interval
<1>3. (IF 1 > n THEN 0 ELSE n - 1 + 1) = n
  OBVIOUS
<1> QED BY <1>1, <1>2, <1>3, FS_Interval

\* Finitely many finite sets have finitely many tagged elements.
LEMMA TaggedFinite ==
    ASSUME NEW C, IsFiniteSet(C), NEW S, \A c \in C : IsFiniteSet(S[c])
    PROVE  IsFiniteSet(Tagged(C, S)) /\ Cardinality(Tagged(C, S)) \in Nat
<1> DEFINE T == {{c} \X S[c] : c \in C}
           f == [c \in C |-> {c} \X S[c]]
<1>1. f \in Surjection(C, T)
  BY DEF Surjection
<1>2. IsFiniteSet(T)
  BY <1>1, FS_Surjection
<1>3. \A c \in C : IsFiniteSet({c} \X S[c])
  BY FS_Singleton, FS_Product
<1>4. \A t \in T : IsFiniteSet(t)
  BY <1>3
<1>5. IsFiniteSet(UNION T)
  BY <1>2, <1>4, FS_UNION
<1> QED BY <1>5, FS_CardinalityType DEF Tagged

\* They are the elements of one tag and those of the others.
LEMMA TaggedSplit ==
    ASSUME NEW C, IsFiniteSet(C), NEW S, \A c \in C : IsFiniteSet(S[c]), NEW c \in C
    PROVE  Cardinality(Tagged(C, S)) = Cardinality(Tagged(C \ {c}, S)) + Cardinality(S[c])
<1> DEFINE Rest == Tagged(C \ {c}, S)
           One == {c} \X S[c]
<1>1. Tagged(C, S) = Rest \cup One /\ Rest \cap One = {}
  BY DEF Tagged
<1>2. IsFiniteSet(C \ {c})
  BY FS_Difference
<1>3. IsFiniteSet(Rest) /\ Cardinality(Rest) \in Nat
  BY <1>2, TaggedFinite
<1>4. Cardinality(S[c]) \in Nat /\ IsFiniteSet(One) /\ Cardinality(One) = Cardinality(S[c])
  <2>1. IsFiniteSet({c}) /\ Cardinality({c}) = 1 /\ IsFiniteSet(S[c])
    BY FS_Singleton
  <2>2. IsFiniteSet(One) /\ Cardinality(One) = Cardinality({c}) * Cardinality(S[c])
    BY <2>1, FS_Product
  <2>3. Cardinality(S[c]) \in Nat
    BY <2>1, FS_CardinalityType
  <2> QED BY <2>1, <2>2, <2>3
<1>0. Rest = Tagged(C \ {c}, S) /\ Cardinality({}) = 0
  BY FS_EmptySet
<1> HIDE DEF Rest, One
<1>5. Cardinality(Rest \cup One) = Cardinality(Rest) + Cardinality(One) - Cardinality(Rest \cap One)
  BY <1>3, <1>4, FS_Union
<1>6. Cardinality(Rest \cap One) = 0
  BY <1>0, <1>1
<1>7. Cardinality(Tagged(C, S)) = Cardinality(Rest \cup One)
  BY <1>1
<1> QED BY <1>0, <1>3, <1>4, <1>5, <1>6, <1>7

\* When the set of one tag changes, so does the number, by as much.
LEMMA TaggedMoves ==
    ASSUME NEW C, IsFiniteSet(C), NEW S, NEW R, NEW c \in C,
           \A d \in C : IsFiniteSet(S[d]) /\ IsFiniteSet(R[d]),
           \A d \in C \ {c} : R[d] = S[d]
    PROVE  Cardinality(Tagged(C, R)) - Cardinality(Tagged(C, S)) =
               Cardinality(R[c]) - Cardinality(S[c])
<1>1. Tagged(C \ {c}, R) = Tagged(C \ {c}, S)
  BY DEF Tagged
<1>2. /\ Cardinality(Tagged(C, R)) = Cardinality(Tagged(C \ {c}, R)) + Cardinality(R[c])
      /\ Cardinality(Tagged(C, S)) = Cardinality(Tagged(C \ {c}, S)) + Cardinality(S[c])
  BY TaggedSplit
<1>3. IsFiniteSet(C \ {c})
  BY FS_Difference
<1>4. Cardinality(Tagged(C \ {c}, S)) \in Nat /\ Cardinality(R[c]) \in Nat /\ Cardinality(S[c]) \in Nat
  BY <1>3, TaggedFinite, FS_CardinalityType
<1> QED BY <1>1, <1>2, <1>4

\* A set of natural numbers has a least one.
LEMMA Least ==
    ASSUME NEW T, T \subseteq Nat, T # {}
    PROVE  \E x \in T : \A y \in T : x <= y
<1>1. PICK x \in T : \A y \in T : ~ (<<y, x>> \in OpToRel(<, Nat))
  BY WFMin, NatLessThanWellFounded
<1>2. ASSUME NEW y \in T PROVE x <= y
  <2>1. ~ (y < x)
    BY <1>1 DEF OpToRel
  <2> QED
    BY <2>1
<1> QED
  BY <1>2

-----------------------------------------------------------------------------
(* Recursion *)

\* f goes on from base by step, n times; what determines such a function.
StepFunctions(n, S) == [(1 .. n) \X S -> S]
Iterates(n, S, base, step, f) ==
    /\ f \in [0 .. n -> S] /\ f[0] = base
    /\ \A k \in 1 .. n : f[k] = step[<<k, f[k - 1]>>]
Alike(n, f, g) == f[0] = g[0] /\ \A k \in 1 .. n : f[k - 1] = g[k - 1] => f[k] = g[k]
Agree(n, f, g) == \A k \in 0 .. n : f[k] = g[k]

\* There is such a function.
LEMMA Recursion ==
    ASSUME NEW n \in Nat, NEW S, NEW base \in S, NEW step \in StepFunctions(n, S)
    PROVE  \E f : Iterates(n, S, base, step, f)
<1> DEFINE Good(m, f) == /\ f \in [0 .. m -> S] /\ f[0] = base
                         /\ \A k \in 1 .. m : f[k] = step[<<k, f[k - 1]>>]
           Bad == {m \in 0 .. n : ~ \E f : Good(m, f)}
<1>1. Bad = {}
  <2>1. SUFFICES ASSUME Bad # {} PROVE FALSE
    OBVIOUS
  <2>2. \E m \in Bad : \A k \in Bad : m <= k
    <3>1. Bad \subseteq Nat
      OBVIOUS
    <3> HIDE DEF Bad
    <3> QED
      BY <2>1, <3>1, Least
  <2>3. PICK m \in Bad : \A k \in Bad : m <= k
    BY <2>2
  <2>4. m # 0
    <3>1. Good(0, [k \in 0 .. 0 |-> base])
      OBVIOUS
    <3> QED
      BY <3>1
  <2>5. m - 1 \in 0 .. n /\ m - 1 \notin Bad
    BY <2>3, <2>4
  <2>6. PICK f : Good(m - 1, f)
    BY <2>5
  <2> DEFINE g == [k \in 0 .. m |-> IF k = m THEN step[<<m, f[m - 1]>>] ELSE f[k]]
  <2>7. f[m - 1] \in S /\ <<m, f[m - 1]>> \in (1 .. n) \X S
    BY <2>4, <2>6
  <2>8. step[<<m, f[m - 1]>>] \in S
    BY <2>7 DEF StepFunctions
  <2>9. g \in [0 .. m -> S] /\ g[0] = base
    BY <2>4, <2>6, <2>8
  <2>10. ASSUME NEW k \in 1 .. m PROVE g[k] = step[<<k, g[k - 1]>>]
    <3>1. CASE k = m
      <4>1. m - 1 # m /\ m - 1 \in 0 .. m
        BY <2>4
      <4> QED
        BY <3>1, <4>1
    <3>2. CASE k # m
      <4>1. k \in 1 .. m - 1 /\ k - 1 # m /\ k - 1 \in 0 .. m /\ k \in 0 .. m
        BY <3>2
      <4> QED
        BY <2>6, <3>2, <4>1
    <3> QED
      BY <3>1, <3>2
  <2>11. Good(m, g)
    BY <2>9, <2>10
  <2> QED
    BY <2>11
<1>2. n \in 0 .. n
  OBVIOUS
<1>3. \E f : Good(n, f)
  <2>1. n \notin Bad
    BY <1>1
  <2> QED
    BY <1>2, <2>1
<1> QED
  BY <1>3 DEF Iterates

\* Two functions that begin alike and continue alike are alike.
LEMMA SameRecursion ==
    ASSUME NEW n \in Nat, NEW f, NEW g, Alike(n, f, g)
    PROVE  Agree(n, f, g)
<1> DEFINE Bad == {k \in 0 .. n : f[k] # g[k]}
<1>1. SUFFICES ASSUME Bad # {} PROVE FALSE
  BY DEF Agree
<1>2. \E m \in Bad : \A k \in Bad : m <= k
  <2>1. Bad \subseteq Nat
    OBVIOUS
  <2> HIDE DEF Bad
  <2> QED
    BY <1>1, <2>1, Least
<1>3. PICK m \in Bad : \A k \in Bad : m <= k
  BY <1>2
<1>4. m \in 1 .. n /\ m - 1 \in 0 .. n /\ m - 1 \notin Bad
  BY <1>3 DEF Alike
<1> QED
  BY <1>3, <1>4 DEF Alike
=============================================================================
