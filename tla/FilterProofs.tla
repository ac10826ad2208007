---------------------------- MODULE FilterProofs -----------------------------
EXTENDS Filter, SequenceTheorems, WellFoundedInduction, TLAPS

\* A set of natural numbers has a least one.
LEMMA LeastNumber ==
  ASSUME NEW S, S \subseteq Nat, S # {}
  PROVE  \E m \in S : \A n \in S : m <= n
<1>1. PICK m \in S : \A n \in S : <<n, m>> \notin OpToRel(<, Nat)
  BY WFMin, NatLessThanWellFounded, Zenon
<1>2. \A n \in S : ~(n < m)
  BY <1>1, Zenon DEF OpToRel
<1> QED BY <1>2

\* Induction, over the numbers of a set.
LEMMA Induction ==
  ASSUME NEW S, 0 \in S, \A n \in Nat : n \in S => n + 1 \in S
  PROVE  Nat \subseteq S
<1> SUFFICES ASSUME ~(Nat \subseteq S) PROVE FALSE
  OBVIOUS
<1> DEFINE Others == Nat \ S
<1>1. PICK m \in Others : \A n \in Others : m <= n
  BY LeastNumber
<1>2. m - 1 \in Nat /\ m - 1 \in S
  BY <1>1
<1> QED BY <1>2

\* The same for sequences, from shorter to longer.
LEMMA SequenceInduction ==
  ASSUME NEW T, NEW P, <<>> \in P,
         \A s \in Seq(T) : s \in P => \A x \in T : Append(s, x) \in P
  PROVE  Seq(T) \subseteq P
<1> DEFINE S == {n \in Nat : \A s \in Seq(T) : Len(s) = n => s \in P}
<1>1. 0 \in S
  OBVIOUS
<1>2. ASSUME NEW n \in Nat, n \in S PROVE n + 1 \in S
  <2> SUFFICES ASSUME NEW s \in Seq(T), Len(s) = n + 1 PROVE s \in P
    OBVIOUS
  <2> DEFINE r == SubSeq(s, 1, n)
  <2>1. r \in Seq(T) /\ Len(r) = n /\ s[n + 1] \in T
    OBVIOUS
  <2>2. s = Append(r, s[n + 1])
    OBVIOUS
  <2> QED BY <1>2, <2>1, <2>2
<1> HIDE DEF S
<1>3. Nat \subseteq S
  BY <1>1, <1>2, Induction
<1> QED BY <1>3 DEF S

-----------------------------------------------------------------------------
\* What the definition of Among computes for each prefix.
FilterStep(f, s, S, n) ==
  IF n = 0 THEN <<>>
  ELSE IF s[n] \in S THEN Append(f[n - 1], s[n]) ELSE f[n - 1]
UpTo(s, S, m) == CHOOSE f : f = [n \in 0..m |-> FilterStep(f, s, S, n)]

\* The recursion of Among is well-founded.
LEMMA UpToDef ==
  ASSUME NEW s, NEW S, NEW m \in Nat
  PROVE  UpTo(s, S, m) = [n \in 0..m |-> FilterStep(UpTo(s, S, m), s, S, n)]
<1> DEFINE Defined == {k \in Nat : \E f : f = [n \in 0..k |-> FilterStep(f, s, S, n)]}
<1>1. 0 \in Defined
  <2>1. [n \in 0..0 |-> <<>>] = [n \in 0..0 |-> FilterStep([i \in 0..0 |-> <<>>], s, S, n)]
    BY DEF FilterStep
  <2> QED BY <2>1
<1>2. ASSUME NEW k \in Nat, k \in Defined PROVE k + 1 \in Defined
  <2>1. PICK f : f = [n \in 0..k |-> FilterStep(f, s, S, n)]
    BY <1>2
  <2> DEFINE g == [n \in 0..(k + 1) |-> IF n = k + 1 THEN FilterStep(f, s, S, n) ELSE f[n]]
  <2>2. ASSUME NEW n \in 0..(k + 1) PROVE g[n] = FilterStep(g, s, S, n)
    <3>1. CASE n = k + 1
      BY <3>1 DEF FilterStep
    <3>2. CASE n # k + 1
      <4>1. n \in 0..k /\ (n # 0 => n - 1 \in 0..k)
        BY <3>2
      <4>2. g[n] = FilterStep(f, s, S, n)
        BY <2>1, <3>2, <4>1
      <4> QED BY <4>1, <4>2 DEF FilterStep
    <3> QED BY <3>1, <3>2
  <2>3. g = [n \in 0..(k + 1) |-> FilterStep(g, s, S, n)]
    BY <2>2
  <2>4. \E f2 : f2 = [n \in 0..(k + 1) |-> FilterStep(f2, s, S, n)]
    <3> HIDE DEF g
    <3> QED BY <2>3
  <2> QED BY <2>4
<1> HIDE DEF Defined
<1>3. m \in Defined
  BY <1>1, <1>2, Induction
<1> QED BY <1>3 DEF UpTo, Defined

\* Two sequences with a common prefix are filtered alike up to its end.
LEMMA UpToAgree ==
  ASSUME NEW s, NEW t, NEW S, NEW k \in Nat, NEW l \in Nat, NEW m \in Nat,
         m <= k, m <= l, \A n \in 1..m : s[n] = t[n]
  PROVE  UpTo(s, S, k)[m] = UpTo(t, S, l)[m]
<1> DEFINE Same == {n \in Nat : n <= m => UpTo(s, S, k)[n] = UpTo(t, S, l)[n]}
<1>1. 0 \in Same
  BY UpToDef DEF FilterStep
<1>2. ASSUME NEW n \in Nat, n \in Same PROVE n + 1 \in Same
  <2> SUFFICES ASSUME n + 1 <= m PROVE UpTo(s, S, k)[n + 1] = UpTo(t, S, l)[n + 1]
    OBVIOUS
  <2>1. n + 1 \in 0..k /\ n + 1 \in 0..l /\ n + 1 \in 1..m
    OBVIOUS
  <2>2. UpTo(s, S, k)[n] = UpTo(t, S, l)[n]
    BY <1>2
  <2>3. /\ UpTo(s, S, k)[n + 1] = FilterStep(UpTo(s, S, k), s, S, n + 1)
        /\ UpTo(t, S, l)[n + 1] = FilterStep(UpTo(t, S, l), t, S, n + 1)
    BY <2>1, UpToDef
  <2> QED BY <2>1, <2>2, <2>3 DEF FilterStep
<1> HIDE DEF Same
<1>3. m \in Same
  BY <1>1, <1>2, Induction
<1> QED BY <1>3 DEF Same

LEMMA AmongIsUpTo ==
  ASSUME NEW s, NEW S PROVE Among(s, S) = UpTo(s, S, Len(s))[Len(s)]
BY DEF Among, UpTo, FilterStep

LEMMA AmongEmpty == ASSUME NEW S PROVE Among(<<>>, S) = <<>>
BY AmongIsUpTo, UpToDef DEF FilterStep

LEMMA AmongAppend ==
  ASSUME NEW T, NEW s \in Seq(T), NEW x \in T, NEW S
  PROVE  Among(Append(s, x), S)
           = IF x \in S THEN Append(Among(s, S), x) ELSE Among(s, S)
<1> DEFINE t == Append(s, x)
           n == Len(s)
<1>1. n \in Nat /\ Len(t) = n + 1 /\ t[n + 1] = x /\ \A i \in 1..n : s[i] = t[i]
  OBVIOUS
<1>2. UpTo(t, S, n + 1)[n + 1] = FilterStep(UpTo(t, S, n + 1), t, S, n + 1)
  BY <1>1, UpToDef
<1>3. UpTo(t, S, n + 1)[n] = UpTo(s, S, n)[n]
  <2> HIDE DEF t, n
  <2> QED BY <1>1, UpToAgree
<1> HIDE DEF t
<1>4. Among(t, S) = UpTo(t, S, n + 1)[n + 1] /\ Among(s, S) = UpTo(s, S, n)[n]
  BY <1>1, AmongIsUpTo
<1> QED BY <1>1, <1>2, <1>3, <1>4 DEF FilterStep, t

-----------------------------------------------------------------------------
\* What is left has the type of the elements, is in the set, and is no longer.
LEMMA AmongType ==
  ASSUME NEW T, NEW s \in Seq(T), NEW S
  PROVE  Among(s, S) \in Seq(T \cap S) /\ Len(Among(s, S)) <= Len(s)
<1> DEFINE P == {u \in Seq(T) : /\ Among(u, S) \in Seq(T \cap S)
                                /\ Len(Among(u, S)) <= Len(u)}
<1>1. <<>> \in P
  <2>1. Among(<<>>, S) = <<>> /\ <<>> \in Seq(T \cap S) /\ <<>> \in Seq(T)
          /\ Len(<<>>) <= Len(<<>>)
    BY AmongEmpty
  <2> QED BY <2>1
<1>2. ASSUME NEW u \in Seq(T), u \in P, NEW x \in T PROVE Append(u, x) \in P
  <2>1. Among(Append(u, x), S)
          = IF x \in S THEN Append(Among(u, S), x) ELSE Among(u, S)
    BY AmongAppend
  <2>2. Among(Append(u, x), S) \in Seq(T \cap S)
    BY <1>2, <2>1
  <2>3. Len(Among(Append(u, x), S)) <= Len(Append(u, x))
    BY <1>2, <2>1
  <2> QED BY <2>2, <2>3
<1> HIDE DEF P
<1>3. s \in P
  BY <1>1, <1>2, SequenceInduction
<1> QED BY <1>3 DEF P

\* Filtering one sequence after another filters the whole.
LEMMA AmongConcat ==
  ASSUME NEW T, NEW s \in Seq(T), NEW t \in Seq(T), NEW S
  PROVE  Among(s \o t, S) = Among(s, S) \o Among(t, S)
<1> DEFINE P == {u \in Seq(T) : Among(s \o u, S) = Among(s, S) \o Among(u, S)}
<1>0. Among(s, S) \in Seq(T \cap S)
  BY AmongType
<1>1. <<>> \in P
  <2>1. s \o <<>> = s /\ Among(s, S) \o <<>> = Among(s, S) /\ <<>> \in Seq(T)
    BY <1>0, ConcatEmptySeq
  <2>2. Among(s \o <<>>, S) = Among(s, S) \o Among(<<>>, S)
    BY <2>1, AmongEmpty
  <2> QED BY <2>1, <2>2
<1>2. ASSUME NEW u \in Seq(T), u \in P, NEW x \in T PROVE Append(u, x) \in P
  <2>1. s \o Append(u, x) = Append(s \o u, x) /\ s \o u \in Seq(T)
    OBVIOUS
  <2>2. Among(Append(s \o u, x), S)
          = IF x \in S THEN Append(Among(s \o u, S), x) ELSE Among(s \o u, S)
    BY <2>1, AmongAppend
  <2>3. Among(Append(u, x), S)
          = IF x \in S THEN Append(Among(u, S), x) ELSE Among(u, S)
    BY AmongAppend
  <2>4. Among(u, S) \in Seq(T \cap S)
    BY AmongType
  <2>5. Append(Among(s, S) \o Among(u, S), x) = Among(s, S) \o Append(Among(u, S), x)
    <3> DEFINE a == Among(s, S)
               b == Among(u, S)
    <3>1. a \in Seq(T) /\ b \in Seq(T) /\ x \in T
      BY <1>0, <2>4, SeqMonotonic
    <3> HIDE DEF a, b
    <3>2. <<x>> \in Seq(T) /\ a \o b \in Seq(T)
      BY <3>1, ConcatProperties
    <3>3. Append(a \o b, x) = (a \o b) \o <<x>> /\ Append(b, x) = b \o <<x>>
      BY <3>1, <3>2, AppendIsConcat
    <3>4. Append(a \o b, x) = a \o Append(b, x)
      BY <3>1, <3>2, <3>3, ConcatAssociative
    <3> QED BY <3>4 DEF a, b
  <2>6. Among(s \o u, S) = Among(s, S) \o Among(u, S)
    BY <1>2
  <2>7. Among(s \o Append(u, x), S) = Among(s, S) \o Among(Append(u, x), S)
    BY <2>1, <2>2, <2>3, <2>5, <2>6
  <2> QED BY <2>7, AppendProperties
<1> HIDE DEF P
<1>3. t \in P
  BY <1>1, <1>2, SequenceInduction
<1> QED BY <1>3 DEF P

\* If the first element is in the set, it stays the first.
LEMMA AmongHead ==
  ASSUME NEW T, NEW s \in Seq(T), NEW S, s # <<>>, Head(s) \in S
  PROVE  Among(s, S) # <<>> /\ Head(Among(s, S)) = Head(s)
<1>1. s = <<Head(s)>> \o Tail(s) /\ <<Head(s)>> \in Seq(T) /\ Tail(s) \in Seq(T)
  OBVIOUS
<1>2. Among(<<Head(s)>>, S) = <<Head(s)>>
  <2>1. <<Head(s)>> = Append(<<>>, Head(s)) /\ <<>> \in Seq(T) /\ Head(s) \in T
    OBVIOUS
  <2>2. Among(Append(<<>>, Head(s)), S) = Append(Among(<<>>, S), Head(s))
    BY <2>1, AmongAppend
  <2> QED BY <2>1, <2>2, AmongEmpty
<1>3. Among(s, S) = <<Head(s)>> \o Among(Tail(s), S)
  <2> DEFINE a == <<Head(s)>>
             b == Tail(s)
  <2>1. a \in Seq(T) /\ b \in Seq(T)
    BY <1>1
  <2> HIDE DEF a, b
  <2>2. Among(a \o b, S) = Among(a, S) \o Among(b, S)
    BY <2>1, AmongConcat
  <2> QED BY <1>1, <1>2, <2>2 DEF a, b
<1>4. Among(Tail(s), S) \in Seq(T \cap S)
  BY <1>1, AmongType
<1> QED BY <1>3, <1>4

\* What is left is where it was relative to the rest.
LEMMA AmongOrder ==
  ASSUME NEW T, NEW s \in Seq(T), NEW S
  PROVE  \E at \in [1..Len(Among(s, S)) -> 1..Len(s)] :
           /\ \A i \in DOMAIN at : Among(s, S)[i] = s[at[i]]
           /\ \A i, j \in DOMAIN at : i < j => at[i] < at[j]
<1> DEFINE Placed(u, at) ==
             /\ at \in [1..Len(Among(u, S)) -> 1..Len(u)]
             /\ \A i \in DOMAIN at : Among(u, S)[i] = u[at[i]]
             /\ \A i, j \in DOMAIN at : i < j => at[i] < at[j]
           P == {u \in Seq(T) : \E at : Placed(u, at)}
<1>1. <<>> \in P
  <2>1. Among(<<>>, S) = <<>>
    BY AmongEmpty
  <2>2. Placed(<<>>, <<>>)
    BY <2>1
  <2> HIDE DEF Placed
  <2> QED BY <2>2
<1>2. ASSUME NEW u \in Seq(T), u \in P, NEW x \in T PROVE Append(u, x) \in P
  <2> DEFINE v == Append(u, x)
             n == Len(Among(u, S))
  <2>1. PICK at : Placed(u, at)
    BY <1>2
  <2>2. Among(v, S) = IF x \in S THEN Append(Among(u, S), x) ELSE Among(u, S)
    BY AmongAppend
  <2>3. Among(u, S) \in Seq(T) /\ n \in Nat
    <3>1. Among(u, S) \in Seq(T \cap S)
      BY AmongType
    <3> QED BY <3>1, SeqMonotonic
  <2>4. Len(v) = Len(u) + 1 /\ Len(u) \in Nat /\ v[Len(u) + 1] = x
          /\ \A i \in 1..Len(u) : v[i] = u[i]
    OBVIOUS
  <2>5. CASE x \in S
    <3> DEFINE at2 == [i \in 1..(n + 1) |-> IF i = n + 1 THEN Len(u) + 1 ELSE at[i]]
    <3>1. /\ Len(Among(v, S)) = n + 1 /\ Among(v, S)[n + 1] = x
          /\ \A i \in 1..n : Among(v, S)[i] = Among(u, S)[i]
      BY <2>2, <2>3, <2>5
    <3>2. \A i \in 1..n : at[i] \in 1..Len(u) /\ Among(u, S)[i] = u[at[i]]
      BY <2>1
    <3> HIDE DEF v, n
    <3>3. at2 \in [1..(n + 1) -> 1..Len(v)]
      BY <2>3, <2>4, <3>2
    <3>4. ASSUME NEW i \in 1..(n + 1) PROVE Among(v, S)[i] = v[at2[i]]
      <4>1. CASE i = n + 1
        BY <2>4, <3>1, <4>1
      <4>2. CASE i # n + 1
        <5>1. i \in 1..n
          BY <2>3, <4>2
        <5> QED BY <2>4, <3>1, <3>2, <4>2, <5>1
      <4> QED BY <4>1, <4>2
    <3>5. \A i, j \in 1..(n + 1) : i < j => at2[i] < at2[j]
      <4>1. \A i, j \in 1..n : i < j => at[i] < at[j]
        BY <2>1 DEF n
      <4> QED BY <2>3, <2>4, <3>2, <4>1
    <3> HIDE DEF at2
    <3>6. Placed(v, at2)
      BY <3>1, <3>3, <3>4, <3>5
    <3> HIDE DEF Placed
    <3> QED BY <3>6 DEF v
  <2>6. CASE x \notin S
    <3>1. Among(v, S) = Among(u, S)
      BY <2>2, <2>6
    <3>2. ASSUME NEW i \in 1..n PROVE at[i] \in 1..Len(v) /\ v[at[i]] = u[at[i]]
      <4>1. at[i] \in 1..Len(u)
        BY <2>1
      <4> HIDE DEF v, Placed
      <4> QED BY <2>4, <4>1
    <3> HIDE DEF v
    <3>3. Placed(v, at)
      BY <2>1, <3>1, <3>2
    <3> HIDE DEF Placed
    <3> QED BY <3>3 DEF v
  <2> QED BY <2>5, <2>6
<1> HIDE DEF P
<1>3. s \in P
  BY <1>1, <1>2, SequenceInduction
<1> QED BY <1>3 DEF P
===============================================================================
