--------------------------- MODULE SequenceLemmas ---------------------------
(***************************************************************************)
(* Facts about numbers and sequences that the theorems of several modules  *)
(* rest on.                                                                *)
(***************************************************************************)
EXTENDS Integers, Sequences, SequencesExt, FiniteSetTheorems, TLAPS

(* A set of numbers has a least element.  Induction over data goes through *)
(* it: the least counterexample is refuted.                                *)
LEMMA Least ==
  ASSUME NEW S \in SUBSET Nat, S # {}
  PROVE  \E n \in S : \A m \in S : n <= m
<1> DEFINE T == {0 .. n : n \in S}
<1>1. T \subseteq FiniteSubsetsOf(Nat)
  <2>1. ASSUME NEW n \in S PROVE 0 .. n \in FiniteSubsetsOf(Nat)
    BY FS_Interval DEF FiniteSubsetsOf
  <2> QED BY <2>1
<1>2. T # {}
  BY Zenon
<1>3. PICK x \in T : \A y \in T : ~ <<y, x>> \in StrictSubsetOrdering(Nat)
  <2> HIDE DEF T
  <2> QED BY <1>1, <1>2, WFMin, FS_StrictSubsetOrderingWellFounded, Zenon
<1>4. PICK n \in S : x = 0 .. n
  BY <1>3
<1>5. ASSUME NEW m \in S, m < n PROVE FALSE
  <2>1. 0 .. m \subseteq 0 .. n /\ 0 .. m # 0 .. n
    BY <1>5
  <2>2. <<0 .. m, 0 .. n>> \in StrictSubsetOrdering(Nat)
    BY <2>1 DEF StrictSubsetOrdering
  <2> QED BY <2>2, <1>3, <1>4
<1> QED BY <1>5

(* FlattenSeq, unfolded: the sequence of its prefixes.                     *)
PartialJoins(s, f) ==
  f = [i \in 1 .. Len(s) |-> IF i = 1 THEN s[i] ELSE f[i - 1] \o s[i]]

LEMMA PrefixesExist ==
  ASSUME NEW S, NEW s \in Seq(Seq(S))
  PROVE  \E f : PartialJoins(s, f)
<1> DEFINE N == Len(s)
           Part(f, i) == IF i = 1 THEN s[i] ELSE f[i - 1] \o s[i]
           Upto(n, f) == f = [i \in 1 .. n |-> Part(f, i)]
           Bad == {n \in 0 .. N : ~ \E f : Upto(n, f)}
<1>0. N \in Nat
  OBVIOUS
<1>1. ASSUME NEW n \in Bad, \A m \in Bad : n <= m PROVE FALSE
  <2>0. n \in 0 .. N /\ ~ \E f : Upto(n, f)
    OBVIOUS
  <2>1. CASE n = 0
    <3>1. Upto(0, [i \in 1 .. 0 |-> <<>>])
      OBVIOUS
    <3> QED BY <3>1, <2>1, <2>0
  <2>2. CASE n # 0
    <3>1. PICK f : Upto(n - 1, f)
      <4>1. n - 1 \in 0 .. N /\ n - 1 \notin Bad
        <5> HIDE DEF Bad, N
        <5>1. n - 1 \in 0 .. N /\ n - 1 < n
          BY <2>0, <2>2, <1>0
        <5> QED BY <5>1, <1>1, <2>0
      <4> QED BY <4>1
    <3> DEFINE g == [i \in 1 .. n |-> IF i < n THEN f[i] ELSE Part(f, i)]
    <3>2. ASSUME NEW i \in 1 .. n
          PROVE  g[i] = Part(g, i)
      <4>1. CASE i = n
        <5>1. g[i] = Part(f, i)
          BY <4>1
        <5>2. i # 1 => g[i - 1] = f[i - 1]
          BY <4>1, <2>0
        <5> QED BY <5>1, <5>2
      <4>2. CASE i < n
        <5>1. g[i] = f[i] /\ i \in 1 .. n - 1
          BY <4>2, <2>0
        <5>2. f[i] = Part(f, i)
          <6> HIDE DEF Part
          <6> QED BY <3>1, <5>1
        <5>3. i # 1 => g[i - 1] = f[i - 1]
          BY <4>2, <2>0
        <5> QED BY <5>1, <5>2, <5>3
      <4> QED BY <4>1, <4>2, <2>0
    <3>3. Upto(n, g)
      <4>1. \A i \in 1 .. n : g[i] = Part(g, i)
        BY <3>2
      <4>2. g = [i \in 1 .. n |-> g[i]]
        OBVIOUS
      <4> HIDE DEF g, Part
      <4> QED BY <4>1, <4>2
    <3> HIDE DEF g, Upto
    <3> QED BY <3>3, <2>0
  <2> QED BY <2>1, <2>2
<1>2. Bad = {}
  <2>1. Bad \subseteq 0 .. N
    <3> HIDE DEF Upto, N
    <3> QED OBVIOUS
  <2>2. Bad \subseteq Nat
    <3> HIDE DEF Bad, N
    <3> QED BY <2>1, <1>0
  <2> HIDE DEF Bad
  <2> QED BY <2>2, <1>1, Least
<1>3. \E f : Upto(N, f)
  <2>1. N \in 0 .. N
    BY <1>0
  <2> HIDE DEF Upto, N
  <2> QED BY <2>1, <1>2
<1> QED BY <1>3 DEF PartialJoins

(* Flattening keeps the elements: the result is a sequence over the same   *)
(* set, and has exactly the members the parts have.                        *)
LEMMA FlattenMembers ==
  ASSUME NEW S, NEW s \in Seq(Seq(S))
  PROVE  /\ FlattenSeq(s) \in Seq(S)
         /\ ToSet(FlattenSeq(s)) = UNION {ToSet(s[i]) : i \in DOMAIN s}
<1>1. CASE Len(s) = 0
  BY <1>1 DEF FlattenSeq, ToSet
<1>2. CASE Len(s) # 0
  <2> DEFINE f == CHOOSE f : PartialJoins(s, f)
  <2>1. PartialJoins(s, f)
    BY PrefixesExist
  <2>2. FlattenSeq(s) = f[Len(s)]
    BY <1>2 DEF FlattenSeq, PartialJoins
  <2> HIDE DEF f
  <2> DEFINE Good(n) == f[n] \in Seq(S) /\ ToSet(f[n]) = UNION {ToSet(s[i]) : i \in 1 .. n}
             Bad == {n \in 1 .. Len(s) : ~Good(n)}
  <2>3. ASSUME NEW n \in Bad, \A m \in Bad : n <= m PROVE FALSE
    <3>1. n \in 1 .. Len(s) /\ ~Good(n)
      OBVIOUS
    <3>2. CASE n = 1
      <4>1. f[1] = s[1]
        BY <2>1, <1>2 DEF PartialJoins
      <4> QED BY <4>1, <3>1, <3>2
    <3>3. CASE n # 1
      <4>1. Good(n - 1)
        <5>1. n - 1 \in 1 .. Len(s) /\ n - 1 < n
          BY <3>1, <3>3
        <5>2. n - 1 \notin Bad
          <6> HIDE DEF Bad
          <6> QED BY <5>1, <2>3, <3>1
        <5> HIDE DEF Good
        <5> QED BY <5>1, <5>2
      <4>2. f[n] = f[n - 1] \o s[n] /\ s[n] \in Seq(S)
        <5>1. n \in 1 .. Len(s) /\ n # 1
          BY <3>1, <3>3
        <5>2. f[n] = f[n - 1] \o s[n]
          <6>1. f = [i \in 1 .. Len(s) |-> IF i = 1 THEN s[i] ELSE f[i - 1] \o s[i]]
            BY <2>1 DEF PartialJoins
          <6> QED BY ONLY <6>1, <5>1
        <5>3. s[n] \in Seq(S)
          BY <5>1
        <5> QED BY <5>2, <5>3
      <4>3. ToSet(f[n]) = ToSet(f[n - 1]) \cup ToSet(s[n])
        <5> DEFINE a == f[n - 1]
                   b == s[n]
        <5>1. a \in Seq(S) /\ b \in Seq(S)
          BY <4>1, <4>2
        <5> HIDE DEF a, b
        <5>2. ToSet(a \o b) = ToSet(a) \cup ToSet(b)
          <6>1. ASSUME NEW i \in DOMAIN b PROVE b[i] \in ToSet(a \o b)
            <7>1. (a \o b)[Len(a) + i] = b[i] /\ Len(a) + i \in DOMAIN (a \o b)
              BY <5>1
            <7> QED BY <7>1 DEF ToSet
          <6>2. ASSUME NEW i \in DOMAIN a PROVE a[i] \in ToSet(a \o b)
            <7>1. (a \o b)[i] = a[i] /\ i \in DOMAIN (a \o b)
              BY <5>1
            <7> QED BY <7>1 DEF ToSet
          <6>3. ASSUME NEW i \in DOMAIN (a \o b) PROVE (a \o b)[i] \in ToSet(a) \cup ToSet(b)
            <7>1. CASE i <= Len(a)
              BY <7>1, <5>1 DEF ToSet
            <7>2. CASE i > Len(a)
              <8>1. (a \o b)[i] = b[i - Len(a)] /\ i - Len(a) \in DOMAIN b
                BY <7>2, <5>1
              <8> QED BY <8>1 DEF ToSet
            <7> QED BY <7>1, <7>2, <5>1
          <6> QED BY <6>1, <6>2, <6>3 DEF ToSet
        <5> QED BY <5>2, <4>2 DEF a, b
      <4>4. 1 .. n = (1 .. n - 1) \cup {n}
        BY <3>1, <3>3
      <4>5. UNION {ToSet(s[i]) : i \in 1 .. n} = (UNION {ToSet(s[i]) : i \in 1 .. n - 1}) \cup ToSet(s[n])
        <5> DEFINE M(i) == ToSet(s[i])
        <5> HIDE DEF M
        <5>1. UNION {M(i) : i \in 1 .. n} = (UNION {M(i) : i \in 1 .. n - 1}) \cup M(n)
          <6> DEFINE K == 1 .. n - 1
          <6> HIDE DEF K
          <6>1. UNION {M(i) : i \in K \cup {n}} = (UNION {M(i) : i \in K}) \cup M(n)
            OBVIOUS
          <6> QED BY <6>1, <4>4 DEF K
        <5> QED BY <5>1 DEF M
      <4>6. f[n] \in Seq(S)
        BY <4>1, <4>2
      <4> QED BY <4>1, <4>3, <4>5, <4>6, <3>1
    <3> QED BY <3>2, <3>3
  <2>4. Bad = {}
    <3>1. Bad \subseteq Nat
      OBVIOUS
    <3> HIDE DEF Bad
    <3> QED BY <3>1, <2>3, Least
  <2>5. Good(Len(s))
    <3>1. Len(s) \in 1 .. Len(s)
      BY <1>2
    <3> HIDE DEF Good
    <3> QED BY <3>1, <2>4
  <2>6. DOMAIN s = 1 .. Len(s)
    OBVIOUS
  <2> QED BY <2>2, <2>5, <2>6
<1> QED BY <1>1, <1>2

(* A finite set of numbers is bounded.                                     *)
LEMMA Bounded ==
  ASSUME NEW S \in SUBSET Nat, IsFiniteSet(S)
  PROVE  \E n \in Nat : \A m \in S : m < n
<1> DEFINE B(T) == \E n \in Nat : \A m \in T : m < n
           Bad == {T \in FiniteSubsetsOf(Nat) : ~B(T)}
<1>1. SUFFICES Bad = {}
  <2>1. S \in FiniteSubsetsOf(Nat)
    BY DEF FiniteSubsetsOf
  <2> QED BY <2>1, <1>1
<1>2. SUFFICES ASSUME Bad # {} PROVE FALSE
  OBVIOUS
<1>3. PICK T \in Bad : \A U \in Bad : ~ <<U, T>> \in StrictSubsetOrdering(Nat)
  <2>1. Bad \subseteq FiniteSubsetsOf(Nat)
    OBVIOUS
  <2> HIDE DEF Bad
  <2> QED BY <2>1, <1>2, FS_StrictSubsetOrderingWellFounded, WFMin
<1>4. T \subseteq Nat /\ IsFiniteSet(T) /\ ~B(T)
  BY DEF FiniteSubsetsOf
<1>5. PICK x \in T : TRUE
  <2>1. T # {}
    BY <1>4
  <2> QED BY <2>1
<1>6. T \ {x} \in FiniteSubsetsOf(Nat) /\ <<T \ {x}, T>> \in StrictSubsetOrdering(Nat)
  <2>1. IsFiniteSet(T \ {x})
    BY <1>4, FS_RemoveElement
  <2> QED BY <2>1, <1>4, <1>5 DEF FiniteSubsetsOf, StrictSubsetOrdering
<1>7. B(T \ {x})
  BY <1>3, <1>6
<1>8. PICK n \in Nat : \A m \in T \ {x} : m < n
  BY <1>7
<1>9. \A m \in T : m < n + x + 1
  BY <1>8, <1>4, <1>5
<1>10. n + x + 1 \in Nat
  BY <1>4, <1>5
<1> QED BY <1>4, <1>9, <1>10

(* Counting from below reaches every place.                                *)
LEMMA NthExists ==
  ASSUME NEW S \in SUBSET Nat, IsFiniteSet(S), NEW i \in 1 .. Cardinality(S)
  PROVE  \E k \in S : Cardinality({x \in S : x < k}) = i - 1
<1> DEFINE Low(k) == {x \in S : x < k}
           D == {n \in Nat : Cardinality(Low(n)) >= i}
<1>0. Cardinality(S) \in Nat /\ \A x \in S : x \in Nat
  BY FS_CardinalityType
<1>1. \A k : IsFiniteSet(Low(k)) /\ Cardinality(Low(k)) \in Nat
  BY FS_Subset, FS_CardinalityType
<1>2. D # {}
  <2>1. PICK n \in Nat : \A m \in S : m < n
    BY Bounded
  <2>2. Low(n) = S
    BY <2>1
  <2> QED BY <2>2, <1>0
<1>3. PICK n \in D : \A m \in D : n <= m
  BY <1>2, Least
<1>4. n # 0
  <2>1. Low(0) = {}
    <3>1. \A x \in S : ~(x < 0)
      BY <1>0
    <3> QED BY <3>1
  <2>2. Cardinality(Low(0)) = 0
    BY <2>1, FS_EmptySet
  <2> QED BY <2>2, <1>3
<1>5. n - 1 \in Nat /\ Cardinality(Low(n - 1)) <= i - 1
  <2>1. n - 1 \in Nat /\ n - 1 < n
    BY <1>4
  <2>2. n - 1 \notin D
    BY <2>1, <1>3
  <2> QED BY <2>1, <2>2, <1>1
<1>n. n \in Nat /\ \A x \in S : x < n <=> x < n - 1 \/ x = n - 1
  BY <1>0
<1>6. CASE n - 1 \notin S
  <2>1. Low(n) = Low(n - 1)
    BY <1>6, <1>n
  <2> QED BY <2>1, <1>5, <1>3, <1>1
<1>7. CASE n - 1 \in S
  <2>1. Low(n) = Low(n - 1) \cup {n - 1}
    BY <1>7, <1>n
  <2>2. n - 1 \notin Low(n - 1)
    BY <1>n
  <2>3. Cardinality(Low(n)) = Cardinality(Low(n - 1)) + 1
    <3>1. IsFiniteSet(Low(n - 1)) /\ Cardinality(Low(n - 1)) \in Nat
      BY <1>1
    <3> HIDE DEF Low
    <3>2. Cardinality(Low(n - 1) \cup {n - 1}) = Cardinality(Low(n - 1)) + 1
      BY <2>2, <3>1, FS_AddElement
    <3> QED BY <3>2, <2>1
  <2>4. Cardinality(Low(n - 1)) = i - 1
    <3>1. Cardinality(Low(n - 1)) \in Nat
      BY <1>1
    <3>2. Cardinality(Low(n)) >= i
      BY <1>3
    <3> HIDE DEF Low
    <3> QED BY <3>1, <3>2, <2>3, <1>5
  <2> QED BY <2>4, <1>7
<1> QED BY <1>6, <1>7

(* FlattenSeq of a sequence that is not empty is the last of its prefixes. *)
LEMMA FlattenUnfolds ==
  ASSUME NEW S, NEW s \in Seq(Seq(S)), Len(s) # 0
  PROVE  \E f : PartialJoins(s, f) /\ FlattenSeq(s) = f[Len(s)]
<1> DEFINE f == CHOOSE f : PartialJoins(s, f)
<1>1. PartialJoins(s, f)
  BY PrefixesExist
<1>2. FlattenSeq(s) = f[Len(s)]
  BY DEF FlattenSeq, PartialJoins
<1> HIDE DEF f
<1> QED BY <1>1, <1>2

LEMMA JoinsStep ==
  ASSUME NEW S, NEW s \in Seq(Seq(S)), NEW f, PartialJoins(s, f), NEW i \in 1 .. Len(s)
  PROVE  f[i] = IF i = 1 THEN s[i] ELSE f[i - 1] \o s[i]
<1>1. f = [k \in 1 .. Len(s) |-> IF k = 1 THEN s[k] ELSE f[k - 1] \o s[k]]
  BY DEF PartialJoins
<1> QED BY ONLY <1>1, i \in 1 .. Len(s)

(* One more part is flattened behind the others.                           *)
LEMMA FlattenAppend ==
  ASSUME NEW S, NEW s \in Seq(Seq(S)), NEW e \in Seq(S)
  PROVE  FlattenSeq(Append(s, e)) = FlattenSeq(s) \o e
<1> DEFINE u == Append(s, e)
           N == Len(s)
<1>0. /\ u \in Seq(Seq(S)) /\ Len(u) = N + 1 /\ u[N + 1] = e /\ N \in Nat
      /\ \A i \in 1 .. N : u[i] = s[i]
  <2> DEFINE W == Seq(S)
  <2>1. s \in Seq(W) /\ e \in W
    OBVIOUS
  <2> HIDE DEF W
  <2>2. /\ Append(s, e) \in Seq(W) /\ Len(Append(s, e)) = Len(s) + 1 /\ Append(s, e)[Len(s) + 1] = e
        /\ Len(s) \in Nat /\ \A i \in 1 .. Len(s) : Append(s, e)[i] = s[i]
    BY <2>1
  <2> QED BY <2>2 DEF W
<1> HIDE DEF u
<1>1. PICK g : PartialJoins(u, g) /\ FlattenSeq(u) = g[N + 1]
  <2>1. Len(u) # 0
    BY <1>0
  <2> QED BY <2>1, <1>0, FlattenUnfolds
<1>2. CASE N = 0
  <2>1. 1 \in 1 .. Len(u)
    BY <1>0
  <2>2. g[1] = u[1]
    BY <2>1, <1>0, <1>1, JoinsStep, Zenon
  <2>3. FlattenSeq(s) = <<>>
    BY <1>2 DEF FlattenSeq
  <2>4. <<>> \o e = e
    OBVIOUS
  <2> QED BY <2>2, <2>3, <2>4, <1>0, <1>1, <1>2 DEF u
<1>3. CASE N # 0
  <2>1. PICK f : PartialJoins(s, f) /\ FlattenSeq(s) = f[N]
    BY <1>3, FlattenUnfolds
  <2> DEFINE Bad == {n \in 1 .. N : f[n] # g[n]}
  <2>2. ASSUME NEW n \in Bad, \A m \in Bad : n <= m PROVE FALSE
    <3>1. n \in 1 .. N /\ f[n] # g[n] /\ n \in 1 .. Len(s) /\ n \in 1 .. Len(u) /\ u[n] = s[n]
      BY <1>0
    <3>2. f[n] = (IF n = 1 THEN s[n] ELSE f[n - 1] \o s[n])
      BY <3>1, <2>1, JoinsStep, Zenon
    <3>3. g[n] = (IF n = 1 THEN u[n] ELSE g[n - 1] \o u[n])
      BY <3>1, <1>0, <1>1, JoinsStep, Zenon
    <3>4. n # 1
      BY <3>1, <3>2, <3>3
    <3>5. f[n - 1] = g[n - 1]
      <4>1. n - 1 \in 1 .. N /\ n - 1 < n
        BY <3>1, <3>4
      <4>2. n - 1 \notin Bad
        <5> HIDE DEF Bad
        <5> QED BY <4>1, <2>2, <3>1
      <4> QED BY <4>1, <4>2
    <3> QED BY <3>1, <3>2, <3>3, <3>4, <3>5
  <2>3. Bad = {}
    <3>1. Bad \subseteq Nat
      OBVIOUS
    <3> HIDE DEF Bad
    <3> QED BY <3>1, <2>2, Least
  <2>4. f[N] = g[N]
    <3>1. N \in 1 .. N
      BY <1>0, <1>3
    <3> QED BY <3>1, <2>3
  <2>5. g[N + 1] = (IF N + 1 = 1 THEN u[N + 1] ELSE g[N + 1 - 1] \o u[N + 1])
    <3>1. N + 1 \in 1 .. Len(u)
      BY <1>0
    <3> QED BY <3>1, <1>0, <1>1, JoinsStep
  <2>6. N + 1 # 1 /\ N + 1 - 1 = N
    BY <1>0, <1>3
  <2> QED BY <2>1, <2>4, <2>5, <2>6, <1>0, <1>1 DEF u
<1> QED BY <1>2, <1>3

(* Two sequences that a relation holds of, place by place.                 *)
Related(R, a, b) == Len(a) = Len(b) /\ \A i \in DOMAIN a : <<a[i], b[i]>> \in R

LEMMA JoinRelated ==
  ASSUME NEW S, NEW R, NEW a \in Seq(S), NEW b \in Seq(S), NEW c \in Seq(S), NEW d \in Seq(S),
         Related(R, a, b), Related(R, c, d)
  PROVE  Related(R, a \o c, b \o d)
<1>1. Len(a) = Len(b) /\ Len(c) = Len(d) /\ Len(a \o c) = Len(b \o d)
  BY DEF Related
<1>2. ASSUME NEW i \in DOMAIN (a \o c) PROVE <<(a \o c)[i], (b \o d)[i]>> \in R
  <2>1. CASE i <= Len(a)
    <3>1. i \in DOMAIN a /\ (a \o c)[i] = a[i] /\ (b \o d)[i] = b[i]
      BY <2>1, <1>1
    <3> QED BY <3>1 DEF Related
  <2>2. CASE i > Len(a)
    <3>1. i - Len(a) \in DOMAIN c /\ (a \o c)[i] = c[i - Len(a)] /\ (b \o d)[i] = d[i - Len(a)]
      BY <2>2, <1>1
    <3> QED BY <3>1 DEF Related
  <2>3. i <= Len(a) \/ i > Len(a)
    OBVIOUS
  <2> QED BY <2>1, <2>2, <2>3, Zenon
<1> QED BY <1>1, <1>2 DEF Related

(* Parts that are alike are alike when they are flattened.                 *)
LEMMA FlattenRelated ==
  ASSUME NEW S, NEW R, NEW s \in Seq(Seq(S)), NEW u \in Seq(Seq(S)), Len(s) = Len(u),
         \A i \in 1 .. Len(s) : Related(R, s[i], u[i])
  PROVE  Related(R, FlattenSeq(s), FlattenSeq(u))
<1> DEFINE N == Len(s)
<1>0. N \in Nat /\ \A i \in 1 .. N : s[i] \in Seq(S) /\ u[i] \in Seq(S)
  OBVIOUS
<1>1. CASE N = 0
  <2>1. s = <<>> /\ u = <<>>
    <3>1. \A W : \A t \in Seq(W) : Len(t) = 0 => t = <<>>
      OBVIOUS
    <3>2. s \in Seq(Seq(S)) /\ u \in Seq(Seq(S)) /\ Len(s) = 0 /\ Len(u) = 0
      BY <1>1
    <3> QED BY ONLY <3>1, <3>2, Zenon
  <2>2. FlattenSeq(<<>>) = <<>>
    BY DEF FlattenSeq
  <2> QED BY <2>1, <2>2 DEF Related
<1>2. CASE N # 0
  <2>1. PICK f : PartialJoins(s, f) /\ FlattenSeq(s) = f[N]
    BY <1>2, FlattenUnfolds
  <2>2. PICK g : PartialJoins(u, g) /\ FlattenSeq(u) = g[N]
    BY <1>2, FlattenUnfolds
  <2> DEFINE Good(n) == f[n] \in Seq(S) /\ g[n] \in Seq(S) /\ Related(R, f[n], g[n])
             Bad == {n \in 1 .. N : ~Good(n)}
  <2>3. ASSUME NEW n \in Bad, \A m \in Bad : n <= m PROVE FALSE
    <3>1. n \in 1 .. N /\ ~Good(n) /\ n \in 1 .. Len(s) /\ n \in 1 .. Len(u)
      OBVIOUS
    <3> HIDE DEF Good
    <3>2. f[n] = (IF n = 1 THEN s[n] ELSE f[n - 1] \o s[n])
      BY <3>1, <2>1, JoinsStep, Zenon
    <3>3. g[n] = (IF n = 1 THEN u[n] ELSE g[n - 1] \o u[n])
      BY <3>1, <2>2, JoinsStep, Zenon
    <3>4. Related(R, s[n], u[n]) /\ s[n] \in Seq(S) /\ u[n] \in Seq(S)
      BY <3>1, <1>0
    <3>5. CASE n = 1
      BY <3>1, <3>2, <3>3, <3>4, <3>5 DEF Good
    <3>6. CASE n # 1
      <4>1. n - 1 \in 1 .. N /\ n - 1 < n
        BY <3>1, <3>6
      <4>2. n - 1 \notin Bad
        <5> HIDE DEF Bad
        <5> QED BY <4>1, <2>3, <3>1
      <4>3. Good(n - 1)
        BY <4>1, <4>2
      <4> DEFINE a == f[n - 1]
                 b == g[n - 1]
                 c == s[n]
                 d == u[n]
      <4>4. a \in Seq(S) /\ b \in Seq(S) /\ c \in Seq(S) /\ d \in Seq(S) /\ Related(R, a, b) /\ Related(R, c, d)
        BY <4>3, <3>4 DEF Good
      <4>5. f[n] = a \o c /\ g[n] = b \o d
        BY <3>2, <3>3, <3>6
      <4> HIDE DEF a, b, c, d
      <4>6. Related(R, a \o c, b \o d) /\ a \o c \in Seq(S) /\ b \o d \in Seq(S)
        BY <4>4, JoinRelated
      <4> QED BY <4>5, <4>6, <3>1 DEF Good
    <3> QED BY <3>5, <3>6
  <2>4. Bad = {}
    <3>1. Bad \subseteq Nat
      OBVIOUS
    <3> HIDE DEF Bad
    <3> QED BY <3>1, <2>3, Least
  <2>5. Good(N)
    <3>1. N \in 1 .. N
      BY <1>0, <1>2
    <3> HIDE DEF Good
    <3> QED BY <3>1, <2>4
  <2> QED BY <2>1, <2>2, <2>5
<1> QED BY <1>1, <1>2
(* Where the parts of a flattened sequence are: part i behind st[i].       *)
Laid(s, flat, st) ==
  /\ st \in [1 .. Len(s) + 1 -> Nat] /\ st[1] = 0 /\ st[Len(s) + 1] = Len(flat)
  /\ \A i \in 1 .. Len(s) + 1 : st[i] <= Len(flat)
  /\ \A i \in 1 .. Len(s) : st[i + 1] = st[i] + Len(s[i])
  /\ \A i \in 1 .. Len(s) : \A x \in 1 .. Len(s[i]) : flat[st[i] + x] = s[i][x]
  /\ \A k \in 1 .. Len(flat) : \E i \in 1 .. Len(s) : \E x \in 1 .. Len(s[i]) : k = st[i] + x

LEMMA Unappended ==
  ASSUME NEW W, NEW s \in Seq(W), NEW n \in Nat, Len(s) = n + 1
  PROVE  \E a \in Seq(W) : \E e \in W : s = Append(a, e) /\ Len(a) = n
<1> DEFINE a == [i \in 1 .. n |-> s[i]]
<1>1. a \in Seq(W) /\ Len(a) = n /\ s[n + 1] \in W /\ \A i \in 1 .. n : a[i] = s[i]
  OBVIOUS
<1> HIDE DEF a
<1>2. s = Append(a, s[n + 1])
  <2>1. Len(Append(a, s[n + 1])) = Len(s)
    BY <1>1
  <2>2. Append(a, s[n + 1]) \in Seq(W)
    BY <1>1
  <2>3. \A i \in 1 .. Len(s) : Append(a, s[n + 1])[i] = s[i]
    BY <1>1
  <2>4. ASSUME NEW t \in Seq(W), Len(t) = Len(s), \A i \in 1 .. Len(s) : t[i] = s[i] PROVE t = s
    BY <2>4
  <2> QED BY <2>1, <2>2, <2>3, <2>4
<1> QED BY <1>1, <1>2

(* One more part is laid behind the others.                                *)
LEMMA LaidAppend ==
  ASSUME NEW S, NEW a \in Seq(Seq(S)), NEW e \in Seq(S), NEW flat \in Seq(S), NEW st, Laid(a, flat, st)
  PROVE  \E su : Laid(Append(a, e), flat \o e, su)
<1> DEFINE n == Len(a)
           u == Append(a, e)
           more == flat \o e
           su == [i \in 1 .. n + 2 |-> IF i <= n + 1 THEN st[i] ELSE st[n + 1] + Len(e)]
<1>1. /\ Len(u) = n + 1 /\ u[n + 1] = e /\ n \in Nat
      /\ \A i \in 1 .. n : u[i] = a[i]
  <2> DEFINE W == Seq(S)
  <2>1. a \in Seq(W) /\ e \in W
    OBVIOUS
  <2> HIDE DEF W
  <2> QED BY <2>1
<1>2. /\ Len(more) = Len(flat) + Len(e) /\ Len(flat) \in Nat /\ Len(e) \in Nat
      /\ \A k \in 1 .. Len(flat) : more[k] = flat[k]
      /\ \A k \in 1 .. Len(e) : more[Len(flat) + k] = e[k]
  OBVIOUS
<1>3. \A i \in 1 .. n : a[i] \in Seq(S) /\ Len(a[i]) \in Nat
  OBVIOUS
<1>4. /\ \A i \in 1 .. n + 1 : st[i] \in Nat /\ st[i] <= Len(flat)
      /\ st[1] = 0 /\ st[n + 1] = Len(flat)
      /\ \A i \in 1 .. n : st[i + 1] = st[i] + Len(a[i])
      /\ \A i \in 1 .. n : \A x \in 1 .. Len(a[i]) : flat[st[i] + x] = a[i][x]
      /\ \A k \in 1 .. Len(flat) : \E i \in 1 .. n : \E x \in 1 .. Len(a[i]) : k = st[i] + x
  BY DEF Laid
<1> HIDE DEF n, u, more
<1>5. /\ DOMAIN su = 1 .. n + 2 /\ \A i \in 1 .. n + 1 : su[i] = st[i]
      /\ su[n + 2] = Len(flat) + Len(e)
  BY <1>1, <1>4
<1>6. su \in [1 .. n + 2 -> Nat]
  BY <1>1, <1>2, <1>4
<1> HIDE DEF su
\* The entries of a part lie within the sequence.
<1>7. ASSUME NEW i \in 1 .. n, NEW x \in 1 .. Len(a[i]) PROVE st[i] + x \in 1 .. Len(flat)
  <2>1. i \in 1 .. n + 1 /\ i + 1 \in 1 .. n + 1
    BY <1>1
  <2>2. st[i] \in Nat /\ st[i + 1] <= Len(flat) /\ st[i + 1] = st[i] + Len(a[i]) /\ Len(a[i]) \in Nat
    BY <2>1, <1>3, <1>4
  <2>3. ASSUME NEW b \in Nat, NEW l \in Nat, NEW w \in Nat, b + l <= w, NEW y \in 1 .. l PROVE b + y \in 1 .. w
    BY <2>3
  <2>4. st[i] + Len(a[i]) <= Len(flat)
    BY <2>2, Zenon
  <2> QED BY <2>2, <2>3, <2>4, <1>2, Zenon
<1>8. ASSUME NEW i \in 1 .. n + 1 PROVE su[i + 1] = su[i] + Len(u[i])
  <2>1. CASE i = n + 1
    <3>1. su[i] = Len(flat) /\ u[i] = e /\ i + 1 = n + 2
      BY <2>1, <1>1, <1>4, <1>5
    <3> QED BY <3>1, <1>5
  <2>2. CASE i # n + 1
    <3>1. i \in 1 .. n /\ i + 1 \in 1 .. n + 1
      BY <2>2, <1>1
    <3> QED BY <3>1, <1>1, <1>4, <1>5
  <2> QED BY <2>1, <2>2
<1>9. ASSUME NEW i \in 1 .. n + 1, NEW x \in 1 .. Len(u[i]) PROVE more[su[i] + x] = u[i][x]
  <2>1. CASE i = n + 1
    <3>1. su[i] = Len(flat) /\ u[i] = e
      BY <2>1, <1>1, <1>4, <1>5
    <3> QED BY <3>1, <1>2
  <2>2. CASE i # n + 1
    <3>1. i \in 1 .. n /\ i \in 1 .. n + 1 /\ u[i] = a[i] /\ su[i] = st[i]
      <4>1. i \in 1 .. n
        BY <2>2, <1>1
      <4> QED BY <4>1, <1>1, <1>5
    <3>2. st[i] + x \in 1 .. Len(flat) /\ flat[st[i] + x] = a[i][x]
      BY <3>1, <1>4, <1>7
    <3> QED BY <3>1, <3>2, <1>2
  <2> QED BY <2>1, <2>2
<1>10. ASSUME NEW k \in 1 .. Len(more) PROVE \E i \in 1 .. n + 1 : \E x \in 1 .. Len(u[i]) : k = su[i] + x
  <2>1. CASE k <= Len(flat)
    <3>1. k \in 1 .. Len(flat)
      BY <2>1
    <3>2. PICK i \in 1 .. n : \E x \in 1 .. Len(a[i]) : k = st[i] + x
      BY <3>1, <1>4
    <3>3. i \in 1 .. n + 1 /\ u[i] = a[i] /\ su[i] = st[i]
      <4>1. i \in 1 .. n + 1
        BY <1>1
      <4> QED BY <4>1, <1>1, <1>5
    <3> QED BY <3>2, <3>3
  <2>2. CASE k > Len(flat)
    <3>1. k - Len(flat) \in 1 .. Len(e) /\ k = Len(flat) + (k - Len(flat))
      BY <2>2, <1>2
    <3>2. n + 1 \in 1 .. n + 1 /\ u[n + 1] = e /\ su[n + 1] = Len(flat)
      BY <1>1, <1>4, <1>5
    <3> QED BY <3>1, <3>2
  <2>3. k <= Len(flat) \/ k > Len(flat)
    BY <1>2
  <2> QED BY <2>1, <2>2, <2>3
<1>11. su[1] = 0 /\ 1 \in 1 .. n + 1
  BY <1>1, <1>4, <1>5
<1>12. n + 1 + 1 = n + 2
  BY <1>1
<1>13. ASSUME NEW i \in 1 .. n + 2 PROVE su[i] <= Len(more)
  <2>1. i \in 1 .. n + 1 \/ i = n + 2
    BY <1>1
  <2>2. i \in 1 .. n + 1 => su[i] \in Nat /\ su[i] <= Len(flat)
    BY <1>4, <1>5
  <2> QED BY <2>1, <2>2, <1>2, <1>5
<1>14. Laid(u, more, su)
  <2>1. Len(u) = n + 1 /\ Len(u) + 1 = n + 2
    BY <1>1
  <2>2. su[1] = 0 /\ su[n + 2] = Len(more)
    BY <1>2, <1>5, <1>11
  <2>3. /\ su \in [1 .. Len(u) + 1 -> Nat] /\ su[1] = 0 /\ su[Len(u) + 1] = Len(more)
        /\ \A i \in 1 .. Len(u) + 1 : su[i] <= Len(more)
    BY <2>1, <2>2, <1>6, <1>13, Zenon
  <2>4. /\ \A i \in 1 .. Len(u) : su[i + 1] = su[i] + Len(u[i])
        /\ \A i \in 1 .. Len(u) : \A x \in 1 .. Len(u[i]) : more[su[i] + x] = u[i][x]
    BY <2>1, <1>8, <1>9, Zenon
  <2>5. \A k \in 1 .. Len(more) : \E i \in 1 .. Len(u) : \E x \in 1 .. Len(u[i]) : k = su[i] + x
    BY <2>1, <1>10, Zenon
  <2> QED BY <2>3, <2>4, <2>5, Zenon DEF Laid
<1> QED BY <1>14 DEF u, more

LEMMA FlattenLays ==
  ASSUME NEW S, NEW s \in Seq(Seq(S))
  PROVE  \E st : Laid(s, FlattenSeq(s), st)
<1> DEFINE Lays(n) == \A t \in Seq(Seq(S)) : Len(t) = n => \E st : Laid(t, FlattenSeq(t), st)
           Bad == {n \in Nat : ~Lays(n)}
<1>1. ASSUME NEW n \in Bad, \A m \in Bad : n <= m PROVE FALSE
  <2>0. n \in Nat /\ ~Lays(n)
    OBVIOUS
  <2>1. PICK t \in Seq(Seq(S)) : Len(t) = n /\ ~ \E st : Laid(t, FlattenSeq(t), st)
    BY <2>0
  <2>2. CASE n = 0
    <3>1. FlattenSeq(t) = <<>>
      BY <2>1, <2>2 DEF FlattenSeq
    <3>2. Laid(t, <<>>, [i \in 1 .. 1 |-> 0])
      <4>1. /\ [i \in 1 .. 1 |-> 0] \in [1 .. 1 -> Nat] /\ [i \in 1 .. 1 |-> 0][1] = 0
            /\ Len(<<>>) = 0 /\ 1 .. 0 = {} /\ 0 + 1 = 1
        OBVIOUS
      <4> QED BY <4>1, <2>1, <2>2 DEF Laid
    <3> QED BY <2>1, <3>1, <3>2
  <2>3. CASE n # 0
    <3>1. n - 1 \in Nat /\ (n - 1) + 1 = n /\ n - 1 < n
      BY <2>0, <2>3
    <3>2. n - 1 \notin Bad
      <4> HIDE DEF Bad
      <4> QED BY <3>1, <1>1, <2>0
    <3>3. Lays(n - 1)
      <4> HIDE DEF Lays
      <4> QED BY <3>1, <3>2
    <3>4. PICK a \in Seq(Seq(S)), e \in Seq(S) : t = Append(a, e) /\ Len(a) = n - 1
      <4> DEFINE W == Seq(S)
      <4>1. t \in Seq(W) /\ Len(t) = (n - 1) + 1
        BY <2>1, <3>1
      <4> HIDE DEF W
      <4>2. \E a \in Seq(W) : \E e \in W : t = Append(a, e) /\ Len(a) = n - 1
        BY <3>1, <4>1, Unappended
      <4> QED BY <4>2 DEF W
    <3>5. PICK st : Laid(a, FlattenSeq(a), st)
      BY <3>3, <3>4
    <3>6. FlattenSeq(a) \in Seq(S)
      BY FlattenMembers
    <3>7. \E su : Laid(Append(a, e), FlattenSeq(a) \o e, su)
      BY <3>5, <3>6, LaidAppend
    <3>8. FlattenSeq(t) = FlattenSeq(a) \o e
      BY <3>4, FlattenAppend
    <3> QED BY <2>1, <3>4, <3>7, <3>8
  <2> QED BY <2>2, <2>3
<1>2. Bad = {}
  <2>1. Bad \subseteq Nat
    OBVIOUS
  <2> HIDE DEF Bad
  <2> QED BY <2>1, <1>1, Least
<1>3. Lays(Len(s))
  <2>1. Len(s) \in Nat
    OBVIOUS
  <2> HIDE DEF Lays
  <2> QED BY <2>1, <1>2
<1> QED BY <1>3
=============================================================================
