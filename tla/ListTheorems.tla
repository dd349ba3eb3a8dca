---------------------------- MODULE ListTheorems ----------------------------
(***************************************************************************)
(* Lemmas about loops over lists, for the proofs of either plugin: what is *)
(* kept of a sequence, how what is joined grows, and that the search for a *)
(* pattern of excluded models finds a match if and only if there is one.   *)
(***************************************************************************)
EXTENDS ExcludedModels, SequenceTheorems, NaturalsInduction, WellFoundedInduction, TLAPS

(***************************************************************************)
(* Induction.  The library states it for an operator, which no prover here *)
(* can instantiate; a least element of a set of numbers does as well.      *)
(***************************************************************************)
LEMMA LeastNumber ==
  ASSUME NEW S \in SUBSET Nat, S # {}
  PROVE  \E n \in S : \A m \in S : n <= m
<1> DEFINE R == {ss \in Nat \X Nat : ss[1] < ss[2]}
<1>1. IsWellFoundedOn(R, Nat)
  BY NatLessThanWellFounded, Zenon DEF OpToRel
<1>2. PICK n \in S : \A m \in S : <<m, n>> \notin R
  <2> HIDE DEF R
  <2> QED BY <1>1, WFMin
<1>3. ASSUME NEW m \in S PROVE n <= m
  <2>1. <<m, n>> \notin R /\ m \in Nat /\ n \in Nat
    BY <1>2
  <2>2. m < n => <<m, n>> \in R
    BY <2>1
  <2> QED BY <2>1, <2>2
<1> QED BY <1>3

LEMMA Induction ==
  ASSUME NEW S \in SUBSET Nat, 0 \in S, \A n \in S : n + 1 \in S
  PROVE  S = Nat
<1> SUFFICES ASSUME Nat \ S # {}
             PROVE  FALSE
  OBVIOUS
<1>1. PICK n \in Nat \ S : \A m \in Nat \ S : n <= m
  BY LeastNumber
<1>2. n - 1 \in Nat /\ n - 1 \in S
  BY <1>1
<1> QED BY <1>1, <1>2

LEMMA Least ==
  ASSUME NEW S \in SUBSET Nat, S # {}
  PROVE  Min(S) \in S /\ \A m \in S : Min(S) <= m
BY LeastNumber, Zenon DEF Min

LEMMA Greatest ==
  ASSUME NEW n \in Nat, NEW S \in SUBSET (0..n), S # {}
  PROVE  Max(S) \in S /\ \A m \in S : m <= Max(S)
<1> DEFINE R == {n - m : m \in S}
<1>1. R \in SUBSET Nat /\ R # {}
  <2>1. \A m \in S : n - m \in Nat
    OBVIOUS
  <2> QED BY <2>1
<1>2. PICK least \in R : \A m \in R : least <= m
  BY <1>1, LeastNumber
<1>3. PICK x \in S : least = n - x
  BY <1>2
<1>4. \A m \in S : x >= m
  <2> SUFFICES ASSUME NEW m \in S
               PROVE  x >= m
    OBVIOUS
  <2>1. n - m \in R
    OBVIOUS
  <2>2. n - x <= n - m
    BY <1>2, <1>3, <2>1
  <2> QED BY <2>2
<1>5. Max(S) \in S /\ \A y \in S : Max(S) >= y
  BY <1>4, Zenon DEF Max
<1> QED BY <1>5

(***************************************************************************)
(* Without: what is left of a sequence is found step by step.              *)
(***************************************************************************)
Keeps(kept, order, es, n) ==
  kept = [i \in 0 .. n |->
            IF i = 0 THEN <<>>
            ELSE IF order[i] \in es THEN kept[i - 1] ELSE Append(kept[i - 1], order[i])]

\* The recursion defines a function.
LEMMA KeepsExists ==
  ASSUME NEW order, NEW es, NEW n \in Nat
  PROVE  \E kept : Keeps(kept, order, es, n)
<1> DEFINE S == {m \in Nat : \E kept : Keeps(kept, order, es, m)}
<1>1. 0 \in S
  <2> DEFINE kept == [i \in 0 .. 0 |-> <<>>]
  <2>1. Keeps(kept, order, es, 0)
    BY DEF Keeps
  <2> QED BY <2>1
<1>2. ASSUME NEW m \in S
      PROVE  m + 1 \in S
  <2>1. m \in Nat
    OBVIOUS
  <2>2. PICK kept : Keeps(kept, order, es, m)
    OBVIOUS
  <2> DEFINE next == IF order[m + 1] \in es THEN kept[m] ELSE Append(kept[m], order[m + 1])
             longer == [i \in 0 .. m + 1 |-> IF i = m + 1 THEN next ELSE kept[i]]
  <2>3. ASSUME NEW i \in 0 .. m + 1
        PROVE  longer[i] = IF i = 0 THEN <<>>
                           ELSE IF order[i] \in es THEN longer[i - 1] ELSE Append(longer[i - 1], order[i])
    <3>1. CASE i = m + 1
      <4>1. longer[i - 1] = kept[m]
        BY <2>1, <3>1
      <4> QED BY <2>1, <3>1, <4>1
    <3>2. CASE i \in 0 .. m /\ i # 0
      <4>1. longer[i] = kept[i] /\ longer[i - 1] = kept[i - 1]
        BY <2>1, <3>2
      <4>2. kept[i] = IF order[i] \in es THEN kept[i - 1] ELSE Append(kept[i - 1], order[i])
        BY <2>2, <3>2 DEF Keeps
      <4> QED BY <3>2, <4>1, <4>2
    <3>3. CASE i = 0
      <4>1. longer[i] = kept[i]
        BY <2>1, <3>3
      <4>2. kept[i] = <<>>
        BY <2>1, <2>2, <3>3 DEF Keeps
      <4> QED BY <3>3, <4>1, <4>2
    <3> QED BY <2>1, <3>1, <3>2, <3>3
  <2>4. Keeps(longer, order, es, m + 1)
    <3>1. longer = [i \in 0 .. m + 1 |-> longer[i]]
      OBVIOUS
    <3> HIDE DEF longer
    <3> QED BY <2>3, <3>1 DEF Keeps
  <2> QED BY <2>1, <2>4
<1>3. S = Nat
  BY <1>1, <1>2, Induction
<1> QED BY <1>3

InTurn(kept, order, es, n) ==
  /\ kept[0] = <<>>
  /\ \A i \in 1 .. n :
       kept[i] = IF order[i] \in es THEN kept[i - 1] ELSE Append(kept[i - 1], order[i])

LEMMA KeepsInTurn ==
  ASSUME NEW order, NEW es, NEW n \in Nat, NEW kept, Keeps(kept, order, es, n)
  PROVE  InTurn(kept, order, es, n)
<1>1. ASSUME NEW i \in 0 .. n, i = 0
      PROVE  kept[i] = <<>>
  BY <1>1 DEF Keeps
<1>2. ASSUME NEW i \in 1 .. n
      PROVE  kept[i] = IF order[i] \in es THEN kept[i - 1] ELSE Append(kept[i - 1], order[i])
  <2>1. i \in 0 .. n /\ i # 0
    OBVIOUS
  <2> QED BY <2>1 DEF Keeps
<1> QED BY <1>1, <1>2 DEF InTurn

\* What an appended member adds.
LEMMA AppendSet ==
  ASSUME NEW T, NEW s \in Seq(T), NEW x \in T
  PROVE  /\ Append(s, x) \in Seq(T)
         /\ ToSet(Append(s, x)) = ToSet(s) \cup {x}
         /\ IsInjective(s) /\ x \notin ToSet(s) => IsInjective(Append(s, x))
<1>1. /\ Append(s, x) \in Seq(T)
      /\ DOMAIN Append(s, x) = 1 .. Len(s) + 1
      /\ Len(s) \in Nat /\ DOMAIN s = 1 .. Len(s)
      /\ \A i \in 1 .. Len(s) : Append(s, x)[i] = s[i]
      /\ Append(s, x)[Len(s) + 1] = x
  BY AppendProperties
<1>2. ToSet(Append(s, x)) = ToSet(s) \cup {x}
  BY <1>1 DEF ToSet
<1>3. ASSUME IsInjective(s), x \notin ToSet(s)
      PROVE  IsInjective(Append(s, x))
  <2>1. \A i \in 1 .. Len(s) : s[i] # x
    BY <1>1, <1>3 DEF ToSet
  <2>2. \A i, j \in 1 .. Len(s) : s[i] = s[j] => i = j
    BY <1>1, <1>3 DEF IsInjective
  <2>3. \A i \in 1 .. Len(s) + 1 : i \in 1 .. Len(s) \/ i = Len(s) + 1
    BY <1>1
  <2> QED BY <1>1, <2>1, <2>2, <2>3 DEF IsInjective
<1> QED BY <1>1, <1>2, <1>3

\* What Without keeps: the other entries, each as often as before.
LEMMA WithoutKeeps ==
  ASSUME NEW T, NEW order \in Seq(T), NEW es
  PROVE  /\ Without(order, es) \in Seq(T)
         /\ ToSet(Without(order, es)) = ToSet(order) \ es
         /\ IsInjective(order) => IsInjective(Without(order, es))
<1> DEFINE n == Len(order)
           kept == CHOOSE f : Keeps(f, order, es, n)
<1>1. n \in Nat /\ order \in [1 .. n -> T] /\ DOMAIN order = 1 .. n
  OBVIOUS
<1>2. Keeps(kept, order, es, n)
  BY <1>1, KeepsExists
<1>3. Without(order, es) = kept[n]
  BY DEF Without, Keeps
<1> DEFINE Fits(i) ==
             /\ kept[i] \in Seq(T)
             /\ ToSet(kept[i]) = {order[j] : j \in 1 .. i} \ es
             /\ IsInjective(order) => IsInjective(kept[i])
           S == {i \in Nat : i <= n => Fits(i)}
<1> HIDE DEF n, kept
<1>4. InTurn(kept, order, es, n)
  BY <1>1, <1>2, KeepsInTurn
<1>5. /\ kept[0] = <<>>
      /\ \A i \in 1 .. n :
           kept[i] = IF order[i] \in es THEN kept[i - 1] ELSE Append(kept[i - 1], order[i])
  BY <1>4 DEF InTurn
<1>6. 0 \in S
  <2>1. <<>> \in Seq(T) /\ ToSet(<<>>) = {} /\ IsInjective(<<>>)
    BY DEF ToSet, IsInjective
  <2>2. {order[j] : j \in 1 .. 0} \ es = {}
    OBVIOUS
  <2>3. Fits(0)
    BY <1>5, <2>1, <2>2
  <2> QED BY <2>3
<1>7. ASSUME NEW m \in S
      PROVE  m + 1 \in S
  <2> SUFFICES ASSUME m + 1 <= n
               PROVE  Fits(m + 1)
    OBVIOUS
  <2>1. m \in Nat /\ m + 1 \in 1 .. n /\ (m + 1) - 1 = m /\ Fits(m)
    BY <1>1
  <2> DEFINE x == order[m + 1]
  <2>2. {order[j] : j \in 1 .. m + 1} = {order[j] : j \in 1 .. m} \cup {x}
    BY <2>1
  <2>3. CASE x \in es
    <3>1. kept[m + 1] = kept[m]
      BY <1>5, <2>1, <2>3
    <3>2. {order[j] : j \in 1 .. m + 1} \ es = {order[j] : j \in 1 .. m} \ es
      BY <2>2, <2>3
    <3> QED BY <2>1, <3>1, <3>2
  <2>4. CASE x \notin es
    <3>1. kept[m + 1] = Append(kept[m], x)
      BY <1>5, <2>1, <2>4
    <3>2. x \in T
      BY <1>1, <2>1
    <3>3. /\ Append(kept[m], x) \in Seq(T)
          /\ ToSet(Append(kept[m], x)) = ToSet(kept[m]) \cup {x}
          /\ IsInjective(kept[m]) /\ x \notin ToSet(kept[m]) => IsInjective(Append(kept[m], x))
      BY <2>1, <3>2, AppendSet
    <3>4. ToSet(kept[m + 1]) = {order[j] : j \in 1 .. m + 1} \ es
      BY <2>1, <2>2, <2>4, <3>1, <3>3
    <3>5. IsInjective(order) => x \notin {order[j] : j \in 1 .. m}
      BY <1>1, <2>1 DEF IsInjective
    <3> QED BY <2>1, <3>1, <3>3, <3>4, <3>5
  <2> QED BY <2>3, <2>4
<1>8. n \in S
  BY <1>1, <1>6, <1>7, Induction
<1>9. Fits(n)
  BY <1>1, <1>8
<1>10. {order[j] : j \in 1 .. n} = ToSet(order)
  BY <1>1 DEF ToSet
<1> QED BY <1>3, <1>9, <1>10

\* Without, step by step, of a sequence that is one longer.
LEMMA WithoutAppend ==
  ASSUME NEW T, NEW s \in Seq(T), NEW x \in T, NEW es
  PROVE  Without(Append(s, x), es) = IF x \in es THEN Without(s, es) ELSE Append(Without(s, es), x)
<1> DEFINE n == Len(s)
           longer == Append(s, x)
           kept == CHOOSE f : Keeps(f, s, es, n)
           next == CHOOSE f : Keeps(f, longer, es, n + 1)
<1>1. /\ n \in Nat /\ Len(longer) = n + 1 /\ longer[n + 1] = x
      /\ \A i \in 1 .. n : longer[i] = s[i]
  BY AppendProperties
<1>2. Keeps(kept, s, es, n) /\ Keeps(next, longer, es, n + 1)
  <2>1. \E f : Keeps(f, s, es, n)
    BY <1>1, KeepsExists
  <2>2. \E f : Keeps(f, longer, es, n + 1)
    <3>1. n + 1 \in Nat
      BY <1>1
    <3> QED BY <3>1, KeepsExists
  <2> QED BY <2>1, <2>2
<1>3. Without(s, es) = kept[n]
  BY DEF Without, Keeps
<1>4. Without(longer, es) = next[n + 1]
  <2>1. Without(longer, es) = (CHOOSE f : Keeps(f, longer, es, Len(longer)))[Len(longer)]
    BY DEF Without, Keeps
  <2> QED BY <1>1, <2>1
<1> HIDE DEF n, longer, kept, next
<1>5. InTurn(kept, s, es, n) /\ InTurn(next, longer, es, n + 1)
  <2>1. n + 1 \in Nat
    BY <1>1
  <2> QED BY <1>1, <1>2, <2>1, KeepsInTurn
<1>6. /\ kept[0] = <<>> /\ next[0] = <<>>
      /\ \A i \in 1 .. n :
           kept[i] = IF s[i] \in es THEN kept[i - 1] ELSE Append(kept[i - 1], s[i])
      /\ \A i \in 1 .. n + 1 :
           next[i] = IF longer[i] \in es THEN next[i - 1] ELSE Append(next[i - 1], longer[i])
  BY <1>5 DEF InTurn
<1> DEFINE S == {i \in Nat : i <= n => next[i] = kept[i]}
<1>7. S = Nat
  <2>1. 0 \in S
    BY <1>6
  <2>2. ASSUME NEW m \in S
        PROVE  m + 1 \in S
    <3> SUFFICES ASSUME m + 1 <= n
                 PROVE  next[m + 1] = kept[m + 1]
      OBVIOUS
    <3>1. m + 1 \in 1 .. n /\ m + 1 \in 1 .. n + 1 /\ (m + 1) - 1 = m /\ next[m] = kept[m]
      BY <1>1
    <3> QED BY <1>1, <1>6, <3>1
  <2> QED BY <2>1, <2>2, Induction
<1>8. next[n] = kept[n]
  BY <1>1, <1>7
<1>9. n + 1 \in 1 .. n + 1 /\ (n + 1) - 1 = n
  BY <1>1
<1>10. next[n + 1] = IF x \in es THEN kept[n] ELSE Append(kept[n], x)
  BY <1>1, <1>6, <1>8, <1>9
<1> QED BY <1>3, <1>4, <1>10 DEF longer

LEMMA WithoutEmpty ==
  ASSUME NEW es
  PROVE  Without(<<>>, es) = <<>>
<1> DEFINE kept == CHOOSE f : Keeps(f, <<>>, es, 0)
<1>1. Len(<<>>) = 0
  OBVIOUS
<1>2. Keeps(kept, <<>>, es, 0)
  BY KeepsExists
<1>3. Without(<<>>, es) = kept[0]
  BY <1>1 DEF Without, Keeps
<1> HIDE DEF kept
<1>4. InTurn(kept, <<>>, es, 0)
  BY <1>2, KeepsInTurn
<1> QED BY <1>3, <1>4 DEF InTurn

\* What holds of the empty sequence and of each that is one longer holds of all.
LEMMA SeqInduction ==
  ASSUME NEW T, NEW S, <<>> \in S,
         \A s \in Seq(T), x \in T : s \in S => Append(s, x) \in S
  PROVE  Seq(T) \subseteq S
<1> DEFINE N == {n \in Nat : \A s \in Seq(T) : Len(s) = n => s \in S}
<1>1. 0 \in N
  <2>1. \A s \in Seq(T) : Len(s) = 0 => s = <<>>
    BY EmptySeq
  <2> QED BY <2>1
<1>2. ASSUME NEW n \in N
      PROVE  n + 1 \in N
  <2> SUFFICES ASSUME NEW s \in Seq(T), Len(s) = n + 1
               PROVE  s \in S
    OBVIOUS
  <2>1. s # <<>>
    OBVIOUS
  <2>2. PICK t \in Seq(T), x \in T : s = Append(t, x)
    BY <2>1, SequenceEmptyOrAppend
  <2>3. Len(t) \in Nat /\ Len(s) = Len(t) + 1
    BY <2>2, AppendProperties, LenProperties
  <2>4. t \in S
    BY <2>3
  <2> QED BY <2>2, <2>4
<1>3. N = Nat
  BY <1>1, <1>2, Induction
<1>4. \A s \in Seq(T) : Len(s) \in N
  BY <1>3, LenProperties
<1> QED BY <1>4

\* What Without keeps stays in order.
Ordered(t, s) ==
  \A i, j \in DOMAIN t : i < j => \E k, l \in DOMAIN s : k < l /\ s[k] = t[i] /\ s[l] = t[j]

LEMMA WithoutInOrder ==
  ASSUME NEW T, NEW s \in Seq(T), NEW es
  PROVE  Ordered(Without(s, es), s)
<1> DEFINE S == {q \in Seq(T) : Ordered(Without(q, es), q)}
<1>1. <<>> \in S
  <2>1. <<>> \in Seq(T) /\ DOMAIN Without(<<>>, es) = {}
    BY WithoutEmpty
  <2> QED BY <2>1 DEF Ordered
<1>2. ASSUME NEW q \in Seq(T), NEW x \in T, q \in S
      PROVE  Append(q, x) \in S
  <2> DEFINE kept == Without(q, es)
             longer == Append(q, x)
             next == Without(longer, es)
  <2>1. /\ longer \in Seq(T) /\ DOMAIN longer = 1 .. Len(q) + 1 /\ longer[Len(q) + 1] = x
        /\ \A i \in 1 .. Len(q) : longer[i] = q[i]
        /\ Len(q) \in Nat /\ DOMAIN q = 1 .. Len(q)
    BY AppendProperties
  <2>2. kept \in Seq(T) /\ ToSet(kept) \subseteq ToSet(q)
    BY WithoutKeeps
  <2>3. next = IF x \in es THEN kept ELSE Append(kept, x)
    BY WithoutAppend
  <2>4. Ordered(kept, q)
    BY <1>2
  <2> HIDE DEF kept, longer, next
  <2>5. ASSUME NEW i \in DOMAIN next, NEW j \in DOMAIN next, i < j
        PROVE  \E k, l \in DOMAIN longer : k < l /\ longer[k] = next[i] /\ longer[l] = next[j]
    <3>1. Len(kept) \in Nat /\ DOMAIN kept = 1 .. Len(kept)
      BY <2>2
    <3>2. CASE i \in DOMAIN kept /\ j \in DOMAIN kept
      <4>1. next[i] = kept[i] /\ next[j] = kept[j]
        <5>1. CASE x \in es
          BY <2>3, <5>1
        <5>2. CASE x \notin es
          BY <2>2, <2>3, <3>1, <3>2, <5>2, AppendProperties
        <5> QED BY <5>1, <5>2
      <4>2. PICK k \in DOMAIN q, l \in DOMAIN q : k < l /\ q[k] = kept[i] /\ q[l] = kept[j]
        BY <2>4, <2>5, <3>2 DEF Ordered
      <4>3. k \in DOMAIN longer /\ l \in DOMAIN longer /\ longer[k] = q[k] /\ longer[l] = q[l]
        BY <2>1
      <4> QED BY <4>1, <4>2, <4>3
    <3>3. CASE ~ (i \in DOMAIN kept /\ j \in DOMAIN kept)
      <4>1. x \notin es /\ next = Append(kept, x)
        BY <2>3, <2>5, <3>3
      <4>2. /\ DOMAIN next = 1 .. Len(kept) + 1 /\ next[Len(kept) + 1] = x
            /\ \A n \in 1 .. Len(kept) : next[n] = kept[n]
        BY <2>2, <4>1, AppendProperties
      <4>3. j = Len(kept) + 1 /\ i \in 1 .. Len(kept)
        BY <2>5, <3>1, <3>3, <4>2
      <4>4. next[i] \in ToSet(q)
        BY <2>2, <3>1, <4>2, <4>3 DEF ToSet
      <4>5. PICK k \in DOMAIN q : q[k] = next[i]
        BY <4>4 DEF ToSet
      <4>6. /\ k \in DOMAIN longer /\ Len(q) + 1 \in DOMAIN longer /\ k < Len(q) + 1
            /\ longer[k] = next[i] /\ longer[Len(q) + 1] = next[j]
        BY <2>1, <4>2, <4>3, <4>5
      <4> QED BY <4>6
    <3> QED BY <3>2, <3>3
  <2>6. Ordered(next, longer)
    BY <2>5 DEF Ordered
  <2> QED BY <2>1, <2>6 DEF longer, next
<1>3. Seq(T) \subseteq S
  <2> HIDE DEF S
  <2> QED BY <1>1, <1>2, SeqInduction
<1> QED BY <1>3

\* A prefix is told member by member.
LEMMA PrefixByMembers ==
  ASSUME NEW T, NEW s \in Seq(T), NEW t \in Seq(T), Len(s) <= Len(t),
         \A i \in 1 .. Len(s) : s[i] = t[i]
  PROVE  IsPrefix(s, t)
<1>1. /\ SubSeq(s, 1, Len(s)) \in Seq(T) /\ Len(SubSeq(s, 1, Len(s))) = Len(s)
      /\ \A i \in 1 .. Len(s) : SubSeq(s, 1, Len(s))[i] = s[i]
  BY SubSeqProperties
<1>2. /\ SubSeq(t, 1, Len(s)) \in Seq(T) /\ Len(SubSeq(t, 1, Len(s))) = Len(s)
      /\ \A i \in 1 .. Len(s) : SubSeq(t, 1, Len(s))[i] = t[i]
  BY SubSeqProperties
<1>3. SubSeq(s, 1, Len(s)) = SubSeq(t, 1, Len(s))
  BY <1>1, <1>2, SeqEqual
<1> QED BY <1>3 DEF IsPrefix

\* A suffix is told member by member.
LEMMA SuffixByMembers ==
  ASSUME NEW T, NEW s \in Seq(T), NEW t \in Seq(T)
  PROVE  IsSuffix(s, t) <=> /\ Len(s) <= Len(t)
                            /\ \A i \in 1..Len(s) : s[i] = t[(Len(t) - Len(s)) + i]
<1> DEFINE u == Reverse(s)
           v == Reverse(t)
<1>1. /\ u \in Seq(T) /\ Len(u) = Len(s) /\ Len(s) \in Nat
      /\ \A i \in 1..Len(s) : u[i] = s[(Len(s) - i) + 1]
  BY DEF Reverse
<1>2. /\ v \in Seq(T) /\ Len(v) = Len(t) /\ Len(t) \in Nat
      /\ \A i \in 1..Len(t) : v[i] = t[(Len(t) - i) + 1]
  BY DEF Reverse
<1>3. IsSuffix(s, t) <=> IsPrefix(u, v)
  BY DEF IsSuffix
<1> HIDE DEF u, v
<1>4. ASSUME IsPrefix(u, v), NEW i \in 1..Len(s)
      PROVE  s[i] = t[(Len(t) - Len(s)) + i]
  <2>1. Len(u) <= Len(v) /\ SubSeq(u, 1, Len(u)) = SubSeq(v, 1, Len(u))
    BY <1>4 DEF IsPrefix
  <2> DEFINE j == (Len(s) - i) + 1
  <2>2. j \in 1..Len(s) /\ j \in 1..Len(t) /\ (Len(s) - j) + 1 = i
    BY <1>1, <1>2, <2>1
  <2>3. u[j] = v[j]
    <3>1. SubSeq(u, 1, Len(u))[j] = u[j] /\ SubSeq(v, 1, Len(u))[j] = v[j]
      BY <1>1, <1>2, <2>1, <2>2
    <3> QED BY <2>1, <3>1
  <2>4. u[j] = s[i]
    BY <1>1, <2>2
  <2>5. v[j] = t[(Len(t) - j) + 1]
    BY <1>2, <2>2
  <2>6. (Len(t) - j) + 1 = (Len(t) - Len(s)) + i
    BY <1>1, <1>2
  <2> QED BY <2>3, <2>4, <2>5, <2>6
<1>5. ASSUME Len(s) <= Len(t), \A i \in 1..Len(s) : s[i] = t[(Len(t) - Len(s)) + i]
      PROVE  IsPrefix(u, v)
  <2>1. ASSUME NEW j \in 1..Len(u)
        PROVE  u[j] = v[j]
    <3> DEFINE i == (Len(s) - j) + 1
    <3>1. i \in 1..Len(s) /\ j \in 1..Len(t) /\ (Len(t) - Len(s)) + i = (Len(t) - j) + 1
      BY <1>1, <1>2, <1>5
    <3>2. u[j] = s[i] /\ v[j] = t[(Len(t) - j) + 1]
      BY <1>1, <1>2, <3>1
    <3>3. s[i] = t[(Len(t) - Len(s)) + i]
      BY <1>5, <3>1
    <3> QED BY <3>1, <3>2, <3>3
  <2>2. Len(u) <= Len(v)
    BY <1>1, <1>2, <1>5
  <2> QED BY <1>1, <1>2, <2>1, <2>2, PrefixByMembers
<1>6. IsPrefix(u, v) => Len(s) <= Len(t)
  BY <1>1, <1>2 DEF IsPrefix
<1> QED BY <1>3, <1>4, <1>5, <1>6

LEMMA JoinedEnds ==
  ASSUME NEW T, NEW s \in Seq(T), NEW t \in Seq(T)
  PROVE  /\ s \o t \in Seq(T) /\ Len(s \o t) = Len(s) + Len(t) /\ Len(s) \in Nat /\ Len(t) \in Nat
         /\ \A i \in 1..Len(s) : (s \o t)[i] = s[i]
         /\ \A i \in 1..Len(t) : (s \o t)[Len(s) + i] = t[i]
BY ConcatProperties

LEMMA SuffixOfJoined ==
  ASSUME NEW T, NEW s \in Seq(T), NEW t \in Seq(T)
  PROVE  IsSuffix(t, s \o t)
<1>1. /\ s \o t \in Seq(T) /\ Len(s \o t) = Len(s) + Len(t) /\ Len(s) \in Nat /\ Len(t) \in Nat
      /\ \A i \in 1..Len(t) : (s \o t)[Len(s) + i] = t[i]
  BY JoinedEnds
<1> DEFINE st == s \o t
<1>2. (Len(st) - Len(t)) = Len(s) /\ Len(t) <= Len(st)
  BY <1>1
<1> HIDE DEF st
<1>3. st \in Seq(T) /\ \A i \in 1..Len(t) : t[i] = st[(Len(st) - Len(t)) + i]
  BY <1>1, <1>2 DEF st
<1>4. IsSuffix(t, st)
  BY <1>2, <1>3, SuffixByMembers
<1> QED BY <1>4 DEF st

LEMMA SuffixOfThree ==
  ASSUME NEW T, NEW r \in Seq(T), NEW s \in Seq(T), NEW t \in Seq(T)
  PROVE  IsSuffix(s \o t, r \o s \o t)
<1>1. r \o s \o t = r \o (s \o t)
  BY ConcatAssociative
<1>2. s \o t \in Seq(T)
  BY ConcatProperties
<1> QED BY <1>1, <1>2, SuffixOfJoined

\* What a sequence ends in can be split off.
LEMMA SuffixSplits ==
  ASSUME NEW T, NEW s \in Seq(T), NEW t \in Seq(T), IsSuffix(t, s)
  PROVE  \E front \in Seq(T) : s = front \o t
<1>1. Len(t) <= Len(s) /\ \A i \in 1..Len(t) : t[i] = s[(Len(s) - Len(t)) + i]
  BY SuffixByMembers
<1> DEFINE k == Len(s) - Len(t)
           front == SubSeq(s, 1, k)
<1>2. k \in 0..Len(s) /\ Len(s) \in Nat /\ Len(t) \in Nat /\ Len(s) = k + Len(t)
  BY <1>1
<1>3. front \in Seq(T) /\ Len(front) = k /\ \A i \in 1..k : front[i] = s[i]
  BY <1>2
<1> HIDE DEF front
<1>4. /\ front \o t \in Seq(T) /\ Len(front \o t) = k + Len(t)
      /\ \A i \in 1..k : (front \o t)[i] = front[i]
      /\ \A i \in 1..Len(t) : (front \o t)[k + i] = t[i]
  BY <1>3, ConcatProperties
<1>5. ASSUME NEW i \in 1..Len(s)
      PROVE  (front \o t)[i] = s[i]
  <2>1. CASE i <= k
    BY <1>2, <1>3, <1>4, <2>1
  <2>2. CASE i > k
    <3>1. i - k \in 1..Len(t) /\ k + (i - k) = i
      BY <1>2, <2>2
    <3>2. (front \o t)[k + (i - k)] = t[i - k] /\ t[i - k] = s[k + (i - k)]
      BY <1>1, <1>4, <3>1
    <3> QED BY <3>1, <3>2
  <2>3. i <= k \/ i > k
    BY <1>2
  <2> QED BY <2>1, <2>2, <2>3
<1> HIDE DEF k
<1>6. s = front \o t
  BY <1>2, <1>4, <1>5, SeqEqual
<1> QED BY <1>3, <1>6

\* Nothing is dropped that is not there.
LEMMA WithoutNone ==
  ASSUME NEW T, NEW es
  PROVE  \A s \in Seq(T) : ToSet(s) \cap es = {} => Without(s, es) = s
<1> DEFINE S == {s \in Seq(T) : ToSet(s) \cap es = {} => Without(s, es) = s}
<1>1. <<>> \in S
  BY WithoutEmpty
<1>2. ASSUME NEW s \in Seq(T), NEW x \in T, s \in S
      PROVE  Append(s, x) \in S
  <2>1. Append(s, x) \in Seq(T) /\ ToSet(Append(s, x)) = ToSet(s) \cup {x}
    BY AppendSet
  <2>2. Without(Append(s, x), es) = IF x \in es THEN Without(s, es) ELSE Append(Without(s, es), x)
    BY WithoutAppend
  <2> QED BY <1>2, <2>1, <2>2
<1>3. Seq(T) \subseteq S
  <2> HIDE DEF S
  <2> QED BY <1>1, <1>2, SeqInduction
<1> QED BY <1>3

\* What lies between the first and the last member that is not x.
ApartFrom(s, x) == {i \in DOMAIN s : s[i] # x}
Middle(s, x) == SubSeq(s, Min(ApartFrom(s, x)), Max(ApartFrom(s, x)))

LEMMA MiddleIs ==
  ASSUME NEW T, NEW letters \in Seq(T), NEW x, ApartFrom(letters, x) # {}
  PROVE  /\ Middle(letters, x) \in Seq(T) /\ ToSet(Middle(letters, x)) \subseteq ToSet(letters)
         /\ Middle(letters, x) # <<>> => Middle(letters, x)[1] # x
<1> DEFINE n == Len(letters)
           at == ApartFrom(letters, x)
<1>1. n \in Nat /\ DOMAIN letters = 1 .. n /\ at \in SUBSET (1 .. n) /\ at # {}
  <2>1. n \in Nat /\ DOMAIN letters = 1 .. n
    OBVIOUS
  <2>2. at \subseteq DOMAIN letters
    BY DEF ApartFrom
  <2>3. at # {}
    OBVIOUS
  <2> HIDE DEF n, at
  <2> QED BY <2>1, <2>2, <2>3
<1>2. Min(at) \in at /\ Max(at) \in at
  <2> HIDE DEF at, n
  <2>1. at \in SUBSET Nat /\ at \in SUBSET (0 .. n)
    BY <1>1
  <2> QED BY <1>1, <2>1, Least, Greatest
<1>3. PICK a \in 1 .. n, b \in 1 .. n : a = Min(at) /\ b = Max(at) /\ letters[a] # x
  BY <1>1, <1>2 DEF ApartFrom
<1>4. Middle(letters, x) = SubSeq(letters, a, b)
  BY <1>3 DEF Middle
<1> HIDE DEF at, n
<1>5. \A i \in a .. b : i \in 1 .. n /\ letters[i] \in T
  <2>1. \A i \in 1 .. n : letters[i] \in T
    BY <1>1
  <2> QED BY <1>1, <2>1
<1>6. /\ SubSeq(letters, a, b) \in Seq(T)
      /\ Len(SubSeq(letters, a, b)) = IF a <= b THEN b - a + 1 ELSE 0
      /\ \A i \in 1 .. b - a + 1 : SubSeq(letters, a, b)[i] = letters[a + i - 1]
  <2>1. a \in Int /\ b \in Int
    BY <1>1
  <2> QED BY <1>5, <2>1, SubSeqProperties
<1> DEFINE middle == SubSeq(letters, a, b)
<1> HIDE DEF middle
<1>7. /\ middle \in Seq(T) /\ Len(middle) = IF a <= b THEN b - a + 1 ELSE 0
      /\ \A i \in 1 .. b - a + 1 : middle[i] = letters[a + i - 1]
  BY <1>6 DEF middle
<1>8. ToSet(middle) \subseteq ToSet(letters)
  <2> SUFFICES ASSUME NEW i \in DOMAIN middle
               PROVE  middle[i] \in ToSet(letters)
    BY DEF ToSet
  <2>1. i \in 1 .. Len(middle)
    BY <1>7
  <2>2. i \in 1 .. b - a + 1 /\ a + i - 1 \in a .. b
    BY <1>1, <1>7, <2>1
  <2> QED BY <1>1, <1>5, <1>7, <2>2 DEF ToSet
<1>9. ASSUME middle # <<>>
      PROVE  middle[1] # x
  <2>1. Len(middle) # 0
    BY <1>7, <1>9
  <2>2. 1 \in 1 .. b - a + 1 /\ a + 1 - 1 = a
    BY <1>1, <1>7, <2>1
  <2> QED BY <1>3, <1>7, <2>2
<1> QED BY <1>4, <1>7, <1>8, <1>9 DEF middle

(***************************************************************************)
(* Flat: what is joined grows at its end.                                  *)
(***************************************************************************)
Joins(flat, ss, n) ==
  flat = [i \in 0 .. n |-> IF i = 0 THEN <<>> ELSE flat[i - 1] \o ss[i]]

\* The recursion defines a function.
LEMMA JoinsExists ==
  ASSUME NEW ss, NEW n \in Nat
  PROVE  \E flat : Joins(flat, ss, n)
<1> DEFINE S == {m \in Nat : \E flat : Joins(flat, ss, m)}
<1>1. 0 \in S
  <2> DEFINE flat == [i \in 0 .. 0 |-> <<>>]
  <2>1. Joins(flat, ss, 0)
    BY DEF Joins
  <2> QED BY <2>1
<1>2. ASSUME NEW m \in S
      PROVE  m + 1 \in S
  <2>1. m \in Nat
    OBVIOUS
  <2>2. PICK flat : Joins(flat, ss, m)
    OBVIOUS
  <2> DEFINE next == flat[m] \o ss[m + 1]
             longer == [i \in 0 .. m + 1 |-> IF i = m + 1 THEN next ELSE flat[i]]
  <2>3. ASSUME NEW i \in 0 .. m + 1
        PROVE  longer[i] = IF i = 0 THEN <<>> ELSE longer[i - 1] \o ss[i]
    <3>1. CASE i = m + 1
      <4>1. longer[i - 1] = flat[m]
        BY <2>1, <3>1
      <4> QED BY <2>1, <3>1, <4>1
    <3>2. CASE i \in 0 .. m /\ i # 0
      <4>1. longer[i] = flat[i] /\ longer[i - 1] = flat[i - 1]
        BY <2>1, <3>2
      <4>2. flat[i] = flat[i - 1] \o ss[i]
        BY <2>2, <3>2 DEF Joins
      <4> QED BY <3>2, <4>1, <4>2
    <3>3. CASE i = 0
      <4>1. longer[i] = flat[i]
        BY <2>1, <3>3
      <4>2. flat[i] = <<>>
        BY <2>1, <2>2, <3>3 DEF Joins
      <4> QED BY <3>3, <4>1, <4>2
    <3> QED BY <2>1, <3>1, <3>2, <3>3
  <2>4. Joins(longer, ss, m + 1)
    <3>1. longer = [i \in 0 .. m + 1 |-> longer[i]]
      OBVIOUS
    <3> HIDE DEF longer
    <3> QED BY <2>3, <3>1 DEF Joins
  <2> QED BY <2>1, <2>4
<1>3. S = Nat
  BY <1>1, <1>2, Induction
<1> QED BY <1>3

JoinedInTurn(flat, ss, n) ==
  /\ flat[0] = <<>>
  /\ \A i \in 1 .. n : flat[i] = flat[i - 1] \o ss[i]

LEMMA JoinsInTurn ==
  ASSUME NEW ss, NEW n \in Nat, NEW flat, Joins(flat, ss, n)
  PROVE  JoinedInTurn(flat, ss, n)
<1>1. flat[0] = <<>>
  <2>1. 0 \in 0 .. n
    OBVIOUS
  <2> QED BY <2>1 DEF Joins
<1>2. ASSUME NEW i \in 1 .. n
      PROVE  flat[i] = flat[i - 1] \o ss[i]
  <2>1. i \in 0 .. n /\ i # 0
    OBVIOUS
  <2> QED BY <2>1 DEF Joins
<1> QED BY <1>1, <1>2 DEF JoinedInTurn

LEMMA FlatEmpty == Flat(<<>>) = <<>>
<1> DEFINE flat == CHOOSE f : Joins(f, <<>>, 0)
<1>1. Len(<<>>) = 0
  OBVIOUS
<1>2. Joins(flat, <<>>, 0)
  BY JoinsExists
<1>3. Flat(<<>>) = flat[0]
  BY <1>1 DEF Flat, Joins
<1> HIDE DEF flat
<1>4. JoinedInTurn(flat, <<>>, 0)
  BY <1>2, JoinsInTurn
<1> QED BY <1>3, <1>4 DEF JoinedInTurn

LEMMA FlatAppend ==
  ASSUME NEW T, NEW ss \in Seq(T), NEW x \in T
  PROVE  Flat(Append(ss, x)) = Flat(ss) \o x
<1> DEFINE n == Len(ss)
           longer == Append(ss, x)
           flat == CHOOSE f : Joins(f, ss, n)
           next == CHOOSE f : Joins(f, longer, n + 1)
<1>1. /\ n \in Nat /\ Len(longer) = n + 1 /\ longer[n + 1] = x
      /\ \A i \in 1 .. n : longer[i] = ss[i]
  BY AppendProperties
<1>2. Joins(flat, ss, n) /\ Joins(next, longer, n + 1)
  <2>1. \E f : Joins(f, ss, n)
    BY <1>1, JoinsExists
  <2>2. \E f : Joins(f, longer, n + 1)
    <3>1. n + 1 \in Nat
      BY <1>1
    <3> QED BY <3>1, JoinsExists
  <2> QED BY <2>1, <2>2
<1>3. Flat(ss) = flat[n]
  BY DEF Flat, Joins
<1>4. Flat(longer) = next[n + 1]
  <2>1. Flat(longer) = (CHOOSE f : Joins(f, longer, Len(longer)))[Len(longer)]
    BY DEF Flat, Joins
  <2> QED BY <1>1, <2>1
<1> HIDE DEF n, longer, flat, next
<1>5. JoinedInTurn(flat, ss, n) /\ JoinedInTurn(next, longer, n + 1)
  <2>1. n + 1 \in Nat
    BY <1>1
  <2> QED BY <1>1, <1>2, <2>1, JoinsInTurn
<1>6. /\ flat[0] = <<>> /\ next[0] = <<>>
      /\ \A i \in 1 .. n : flat[i] = flat[i - 1] \o ss[i]
      /\ \A i \in 1 .. n + 1 : next[i] = next[i - 1] \o longer[i]
  BY <1>5 DEF JoinedInTurn
<1> DEFINE S == {i \in Nat : i <= n => next[i] = flat[i]}
<1>7. S = Nat
  <2>1. 0 \in S
    BY <1>6
  <2>2. ASSUME NEW m \in S
        PROVE  m + 1 \in S
    <3> SUFFICES ASSUME m + 1 <= n
                 PROVE  next[m + 1] = flat[m + 1]
      OBVIOUS
    <3>1. m + 1 \in 1 .. n /\ m + 1 \in 1 .. n + 1 /\ (m + 1) - 1 = m /\ next[m] = flat[m]
      BY <1>1
    <3> QED BY <1>1, <1>6, <3>1
  <2> QED BY <2>1, <2>2, Induction
<1>8. next[n] = flat[n]
  BY <1>1, <1>7
<1>9. n + 1 \in 1 .. n + 1 /\ (n + 1) - 1 = n
  BY <1>1
<1>10. next[n + 1] = flat[n] \o x
  BY <1>1, <1>6, <1>8, <1>9
<1> QED BY <1>3, <1>4, <1>10 DEF longer

LEMMA FlatType ==
  ASSUME NEW T, NEW ss \in Seq(Seq(T))
  PROVE  Flat(ss) \in Seq(T)
<1> DEFINE S == {s \in Seq(Seq(T)) : Flat(s) \in Seq(T)}
<1>1. <<>> \in S
  <2>1. <<>> \in Seq(Seq(T)) /\ <<>> \in Seq(T)
    OBVIOUS
  <2> QED BY <2>1, FlatEmpty
<1>2. ASSUME NEW s \in Seq(Seq(T)), NEW x \in Seq(T), s \in S
      PROVE  Append(s, x) \in S
  <2>1. Append(s, x) \in Seq(Seq(T))
    BY AppendProperties
  <2>2. Flat(Append(s, x)) = Flat(s) \o x
    BY FlatAppend
  <2>3. Flat(s) \o x \in Seq(T)
    BY <1>2, ConcatProperties
  <2> QED BY <2>1, <2>2, <2>3
<1>3. Seq(Seq(T)) \subseteq S
  <2> HIDE DEF S
  <2> QED BY <1>1, <1>2, SeqInduction
<1> QED BY <1>3

\* The concatenation of a sequence that is one longer.
LEMMA ConcatAppend ==
  ASSUME NEW T, NEW s \in Seq(T), NEW t \in Seq(T), NEW x \in T
  PROVE  s \o Append(t, x) = Append(s \o t, x)
<1>1. Append(t, x) = t \o <<x>> /\ Append(s \o t, x) = (s \o t) \o <<x>>
  BY AppendIsConcat, ConcatProperties
<1>2. <<x>> \in Seq(T)
  OBVIOUS
<1> QED BY <1>1, <1>2, ConcatAssociative

LEMMA FlatConcat ==
  ASSUME NEW T, NEW a \in Seq(Seq(T)), NEW b \in Seq(Seq(T))
  PROVE  Flat(a \o b) = Flat(a) \o Flat(b)
<1> DEFINE S == {s \in Seq(Seq(T)) : Flat(a \o s) = Flat(a) \o Flat(s)}
<1>1. <<>> \in S
  <2>1. a \o <<>> = a /\ Flat(a) \o <<>> = Flat(a)
    BY FlatType, ConcatEmptySeq
  <2>2. Flat(a \o <<>>) = Flat(a) \o Flat(<<>>)
    BY <2>1, FlatEmpty, Zenon
  <2>3. <<>> \in Seq(Seq(T))
    OBVIOUS
  <2> QED BY <2>2, <2>3, Zenon
<1>2. ASSUME NEW s \in Seq(Seq(T)), NEW x \in Seq(T), s \in S
      PROVE  Append(s, x) \in S
  <2>1. a \o Append(s, x) = Append(a \o s, x)
    BY ConcatAppend
  <2>2. a \o s \in Seq(Seq(T)) /\ Append(s, x) \in Seq(Seq(T))
    BY ConcatProperties, AppendProperties
  <2>3. Flat(Append(a \o s, x)) = Flat(a \o s) \o x
    BY <2>2, FlatAppend
  <2>4. Flat(Append(s, x)) = Flat(s) \o x
    BY FlatAppend
  <2>5. (Flat(a) \o Flat(s)) \o x = Flat(a) \o (Flat(s) \o x)
    <3>1. Flat(a) \in Seq(T) /\ Flat(s) \in Seq(T)
      BY FlatType
    <3> QED BY <3>1, ConcatAssociative
  <2> QED BY <1>2, <2>1, <2>2, <2>3, <2>4, <2>5
<1>3. Seq(Seq(T)) \subseteq S
  <2> HIDE DEF S
  <2> QED BY <1>1, <1>2, SeqInduction
<1> QED BY <1>3

LEMMA SeqOfMore ==
  ASSUME NEW S, NEW T, NEW s \in Seq(S), S \subseteq T
  PROVE  s \in Seq(T)
<1>1. Len(s) \in Nat /\ DOMAIN s = 1 .. Len(s)
  OBVIOUS
<1>2. s \in [1 .. Len(s) -> S]
  OBVIOUS
<1>3. s \in [1 .. Len(s) -> T]
  BY <1>1, <1>2
<1> QED BY <1>1, <1>3

\* What a function makes of each member.
Mapped(f, s) == [i \in DOMAIN s |-> f[s[i]]]

LEMMA MappedEmpty ==
  ASSUME NEW f
  PROVE  Mapped(f, <<>>) = <<>>
BY DEF Mapped

LEMMA MappedType ==
  ASSUME NEW T, NEW V, NEW f \in [T -> V], NEW s \in Seq(T)
  PROVE  Mapped(f, s) \in Seq(V) /\ Len(Mapped(f, s)) = Len(s)
<1>1. Len(s) \in Nat /\ DOMAIN s = 1 .. Len(s) /\ \A i \in 1 .. Len(s) : f[s[i]] \in V
  BY LenProperties, ElementOfSeq
<1>2. Mapped(f, s) = [i \in 1 .. Len(s) |-> f[s[i]]]
  BY <1>1 DEF Mapped
<1> QED BY <1>1, <1>2

LEMMA MappedAppend ==
  ASSUME NEW T, NEW V, NEW f \in [T -> V], NEW s \in Seq(T), NEW x \in T
  PROVE  Mapped(f, Append(s, x)) = Append(Mapped(f, s), f[x])
<1> DEFINE n == Len(s)
           longer == Append(s, x)
           map == Mapped(f, s)
           left == Mapped(f, longer)
           right == Append(map, f[x])
<1>1. /\ n \in Nat /\ longer \in Seq(T) /\ Len(longer) = n + 1 /\ longer[n + 1] = x
      /\ \A i \in 1 .. n : longer[i] = s[i]
  BY AppendProperties
<1>2. map \in Seq(V) /\ Len(map) = n /\ \A i \in 1 .. n : map[i] = f[s[i]]
  <2>1. DOMAIN s = 1 .. n
    OBVIOUS
  <2> QED BY <2>1, MappedType DEF Mapped
<1> HIDE DEF longer, map
<1>3. left \in Seq(V) /\ Len(left) = n + 1 /\ \A i \in 1 .. n + 1 : left[i] = f[longer[i]]
  <2>1. DOMAIN longer = 1 .. n + 1
    BY <1>1
  <2> QED BY <1>1, <2>1, MappedType DEF Mapped
<1> HIDE DEF left
<1>4. f[x] \in V
  OBVIOUS
<1>5. /\ right \in Seq(V) /\ Len(right) = n + 1 /\ right[n + 1] = f[x]
      /\ \A i \in 1 .. n : right[i] = map[i]
  BY <1>2, <1>4, AppendProperties
<1> HIDE DEF right
<1>6. \A i \in 1 .. n + 1 : left[i] = right[i]
  <2>1. \A i \in 1 .. n + 1 : i \in 1 .. n \/ i = n + 1
    BY <1>1
  <2> QED BY <1>1, <1>2, <1>3, <1>5, <2>1
<1>7. left = right
  BY <1>1, <1>3, <1>5, <1>6, SeqEqual
<1> QED BY <1>7 DEF left, right, longer, map

LEMMA MappedConcat ==
  ASSUME NEW T, NEW V, NEW f \in [T -> V], NEW a \in Seq(T), NEW b \in Seq(T)
  PROVE  Mapped(f, a \o b) = Mapped(f, a) \o Mapped(f, b)
<1> DEFINE S == {s \in Seq(T) : Mapped(f, a \o s) = Mapped(f, a) \o Mapped(f, s)}
<1>1. <<>> \in S
  <2>1. a \o <<>> = a /\ Mapped(f, a) \o <<>> = Mapped(f, a)
    BY MappedType, ConcatEmptySeq
  <2>2. Mapped(f, a \o <<>>) = Mapped(f, a) \o Mapped(f, <<>>)
    BY <2>1, MappedEmpty, Zenon
  <2>3. <<>> \in Seq(T)
    OBVIOUS
  <2> QED BY <2>2, <2>3, Zenon
<1>2. ASSUME NEW s \in Seq(T), NEW x \in T, s \in S
      PROVE  Append(s, x) \in S
  <2>1. a \o Append(s, x) = Append(a \o s, x)
    BY ConcatAppend
  <2>2. a \o s \in Seq(T) /\ Append(s, x) \in Seq(T)
    BY ConcatProperties, AppendProperties
  <2>3. Mapped(f, Append(a \o s, x)) = Append(Mapped(f, a \o s), f[x])
    BY <2>2, MappedAppend
  <2>4. Mapped(f, Append(s, x)) = Append(Mapped(f, s), f[x])
    BY MappedAppend
  <2>5. Mapped(f, a) \o Append(Mapped(f, s), f[x]) = Append(Mapped(f, a) \o Mapped(f, s), f[x])
    <3>1. f[x] \in V /\ Mapped(f, a) \in Seq(V) /\ Mapped(f, s) \in Seq(V)
      BY MappedType
    <3> QED BY <3>1, ConcatAppend
  <2> QED BY <1>2, <2>1, <2>2, <2>3, <2>4, <2>5
<1>3. Seq(T) \subseteq S
  <2> HIDE DEF S
  <2> QED BY <1>1, <1>2, SeqInduction
<1> QED BY <1>3

\* A sequence is what its two parts are, one after the other.
LEMMA SplitIs ==
  ASSUME NEW T, NEW s \in Seq(T), NEW m \in 0 .. Len(s)
  PROVE  /\ SubSeq(s, 1, m) \in Seq(T) /\ SubSeq(s, m + 1, Len(s)) \in Seq(T)
         /\ s = SubSeq(s, 1, m) \o SubSeq(s, m + 1, Len(s))
<1> DEFINE n == Len(s)
           a == SubSeq(s, 1, m)
           b == SubSeq(s, m + 1, n)
<1>1. n \in Nat /\ m \in Nat /\ m <= n
  OBVIOUS
<1>2. a \in Seq(T) /\ Len(a) = m /\ \A i \in 1 .. m : a[i] = s[i]
  OBVIOUS
<1>3. b \in Seq(T) /\ Len(b) = n - m /\ \A i \in 1 .. n - m : b[i] = s[m + i]
  BY <1>1
<1> HIDE DEF a, b, n
<1>4. /\ a \o b \in Seq(T) /\ Len(a \o b) = m + (n - m)
      /\ \A i \in 1 .. m + (n - m) : (a \o b)[i] = IF i <= m THEN a[i] ELSE b[i - m]
  <2>1. a \in Seq(T) /\ b \in Seq(T) /\ Len(a) = m /\ Len(b) = n - m
    BY <1>2, <1>3
  <2>2. /\ a \o b \in Seq(T) /\ Len(a \o b) = Len(a) + Len(b)
        /\ \A i \in 1 .. Len(a) + Len(b) :
             (a \o b)[i] = IF i <= Len(a) THEN a[i] ELSE b[i - Len(a)]
    <3>1. a \in Seq(T) /\ b \in Seq(T)
      BY <2>1
    <3> QED BY ONLY <3>1, ConcatProperties
  <2> QED BY <2>1, <2>2
<1>5. \A i \in 1 .. n : (a \o b)[i] = s[i]
  <2> SUFFICES ASSUME NEW i \in 1 .. n
               PROVE  (a \o b)[i] = s[i]
    OBVIOUS
  <2>1. i \in 1 .. m + (n - m)
    BY <1>1
  <2>2. CASE i <= m
    <3>1. i \in 1 .. m
      BY <1>1, <2>2
    <3> QED BY <1>2, <1>4, <2>1, <2>2, <3>1
  <2>3. CASE ~ i <= m
    <3>1. i - m \in 1 .. n - m /\ m + (i - m) = i
      BY <1>1, <2>3
    <3> QED BY <1>3, <1>4, <2>1, <2>3, <3>1
  <2> QED BY <2>2, <2>3
<1>6. Len(a \o b) = n
  BY <1>1, <1>4
<1>7. s = a \o b
  BY <1>4, <1>5, <1>6, SeqEqual DEF n
<1> QED BY <1>2, <1>3, <1>7 DEF a, b, n

(***************************************************************************)
(* Excluded models.  Matching searches from left to right and never goes   *)
(* back; the reference asks for any way the letters may be taken.          *)
(***************************************************************************)
\* The segment and what ends there are the same, letter by letter.
Stands(s, v, e) == \A m \in 1..Len(s) : s[m] = v[e - Len(s) + m]

LEMMA EndsAtMembers ==
  ASSUME NEW T, NEW s \in Seq(T), NEW v \in Seq(T), NEW e \in Len(s)..Len(v)
  PROVE  EndsAt(s, v, e) <=> Stands(s, v, e)
<1> DEFINE part == SubSeq(v, e - Len(s) + 1, e)
<1>1. Len(s) \in Nat /\ Len(v) \in Nat /\ e \in Nat /\ Len(s) <= e /\ e <= Len(v)
  OBVIOUS
<1>2. \A i \in (e - Len(s) + 1)..e : v[i] \in T
  BY <1>1
<1>3. /\ part \in Seq(T)
      /\ Len(part) = IF e - Len(s) + 1 <= e THEN e - (e - Len(s) + 1) + 1 ELSE 0
      /\ \A m \in 1..(e - (e - Len(s) + 1) + 1) : part[m] = v[e - Len(s) + 1 + m - 1]
  BY <1>1, <1>2, SubSeqProperties
<1>4. Len(part) = Len(s) /\ \A m \in 1..Len(s) : part[m] = v[e - Len(s) + m]
  BY <1>1, <1>3
<1> HIDE DEF part
<1>5. part = s <=> \A m \in 1..Len(s) : part[m] = s[m]
  BY <1>3, <1>4, SeqEqual
<1>6. EndsAt(s, v, e) <=> part = s
  BY DEF EndsAt, part
<1> QED BY <1>4, <1>5, <1>6 DEF Stands

(***************************************************************************)
(* A way to take the letters.                                              *)
(***************************************************************************)
Taken(f, pattern, value) ==
  /\ f \in [0..Len(pattern) -> 0..Len(value)]
  /\ f[0] = 0 /\ f[Len(pattern)] = Len(value)
  /\ \A i \in DOMAIN pattern :
       IF pattern[i] = "*" THEN f[i - 1] <= f[i]
       ELSE f[i] = f[i - 1] + 1 /\ pattern[i] = value[f[i]]

\* Letters in a row take letters in a row.
LEMMA PlainRun ==
  ASSUME NEW T, NEW p \in Seq(T), NEW v \in Seq(T), NEW f, Taken(f, p, v),
         NEW a \in 0..Len(p), NEW b \in a..Len(p), \A i \in (a + 1)..b : p[i] # "*"
  PROVE  f[b] = f[a] + (b - a) /\ \A m \in 1..(b - a) : p[a + m] = v[f[a] + m]
<1>1. Len(p) \in Nat /\ DOMAIN p = 1..Len(p) /\ a \in Nat /\ b \in Nat /\ a <= b /\ b <= Len(p)
      /\ \A i \in 0..Len(p) : f[i] \in Nat
  <2>1. Len(p) \in Nat /\ DOMAIN p = 1..Len(p) /\ Len(v) \in Nat
    OBVIOUS
  <2>2. \A i \in 0..Len(p) : f[i] \in Nat
    BY <2>1 DEF Taken
  <2> QED BY <2>1, <2>2
<1>2. ASSUME NEW i \in (a + 1)..b
      PROVE  f[i] = f[i - 1] + 1 /\ p[i] = v[f[i]]
  <2>1. i \in DOMAIN p /\ p[i] # "*"
    BY <1>1
  <2> QED BY <2>1 DEF Taken
<1> DEFINE S == {n \in Nat : a + n <= b => f[a + n] = f[a] + n}
<1>3. 0 \in S
  BY <1>1
<1>4. ASSUME NEW n \in S
      PROVE  n + 1 \in S
  <2> SUFFICES ASSUME a + (n + 1) <= b
               PROVE  f[a + (n + 1)] = f[a] + (n + 1)
    OBVIOUS
  <2>1. f[a + n] = f[a] + n
    BY <1>1
  <2>2. a + (n + 1) \in (a + 1)..b /\ a + (n + 1) - 1 = a + n /\ f[a] \in Nat
    BY <1>1
  <2>3. f[a + (n + 1)] = f[a + (n + 1) - 1] + 1
    BY <1>2, <2>2
  <2>4. f[a + (n + 1)] = (f[a] + n) + 1
    BY <2>1, <2>2, <2>3
  <2>5. \A x, y \in Nat : (x + y) + 1 = x + (y + 1)
    OBVIOUS
  <2>6. f[a] \in Nat /\ n \in Nat
    BY <2>2
  <2> HIDE DEF S
  <2> QED BY <2>4, <2>5, <2>6, Zenon
<1>5. S = Nat
  BY <1>3, <1>4, Induction
<1>6. \A n \in Nat : a + n <= b => f[a + n] = f[a] + n
  BY <1>5
<1>7. f[b] = f[a] + (b - a)
  <2>1. b - a \in Nat /\ a + (b - a) = b
    BY <1>1
  <2> QED BY <1>6, <2>1
<1>8. ASSUME NEW m \in 1..(b - a)
      PROVE  p[a + m] = v[f[a] + m]
  <2>1. a + m \in (a + 1)..b /\ m \in Nat
    BY <1>1
  <2>2. p[a + m] = v[f[a + m]]
    BY <1>2, <2>1
  <2>3. f[a + m] = f[a] + m
    BY <1>1, <1>6, <2>1
  <2> QED BY <2>2, <2>3
<1> QED BY <1>7, <1>8

LEMMA TakenGrows ==
  ASSUME NEW T, NEW p \in Seq(T), NEW v, NEW f, Taken(f, p, v), Len(v) \in Nat,
         NEW a \in 0..Len(p), NEW b \in a..Len(p)
  PROVE  f[a] <= f[b]
<1>1. Len(p) \in Nat /\ DOMAIN p = 1..Len(p) /\ a \in Nat /\ b \in Nat /\ a <= b /\ b <= Len(p)
      /\ \A i \in 0..Len(p) : f[i] \in Nat
  BY DEF Taken
<1>2. ASSUME NEW i \in 1..Len(p)
      PROVE  f[i - 1] <= f[i]
  <2>1. f[i] \in Nat /\ f[i - 1] \in Nat
    BY <1>1
  <2>2. f[i - 1] <= f[i] \/ f[i] = f[i - 1] + 1
    BY <1>1 DEF Taken
  <2> QED BY <2>1, <2>2
<1> DEFINE S == {n \in Nat : a + n <= b => f[a] <= f[a + n]}
<1>3. 0 \in S
  BY <1>1
<1>4. ASSUME NEW n \in S
      PROVE  n + 1 \in S
  <2> SUFFICES ASSUME a + (n + 1) <= b
               PROVE  f[a] <= f[a + (n + 1)]
    OBVIOUS
  <2>1. f[a] <= f[a + n]
    BY <1>1
  <2>2. a + (n + 1) \in 1..Len(p) /\ a + (n + 1) - 1 = a + n /\ a + n \in 0..Len(p)
    BY <1>1
  <2>3. f[a + n] <= f[a + (n + 1)]
    BY <1>2, <2>2
  <2>4. f[a] \in Nat /\ f[a + n] \in Nat /\ f[a + (n + 1)] \in Nat
    BY <1>1, <2>2
  <2> QED BY <2>1, <2>3, <2>4
<1>5. S = Nat
  BY <1>3, <1>4, Induction
<1>6. b - a \in Nat /\ a + (b - a) = b
  BY <1>1
<1>7. a + (b - a) <= b => f[a] <= f[a + (b - a)]
  BY <1>5, <1>6
<1> QED BY <1>1, <1>6, <1>7

(***************************************************************************)
(* The stars of a pattern, and the segments between them.                  *)
(***************************************************************************)
LEMMA StarsBound ==
  ASSUME NEW T, NEW p \in Seq(T), Stars(p) # {}
  PROVE  /\ Stars(p) \in SUBSET (1..Len(p))
         /\ Min(Stars(p)) \in Stars(p) /\ \A s \in Stars(p) : Min(Stars(p)) <= s
         /\ Max(Stars(p)) \in Stars(p) /\ \A s \in Stars(p) : s <= Max(Stars(p))
<1>1. Len(p) \in Nat /\ DOMAIN p = 1..Len(p)
  OBVIOUS
<1>2. Stars(p) \in SUBSET (1..Len(p))
  BY <1>1 DEF Stars
<1>3. Stars(p) \in SUBSET Nat /\ Stars(p) \in SUBSET (0..Len(p))
  BY <1>1, <1>2
<1>4. Min(Stars(p)) \in Stars(p) /\ \A s \in Stars(p) : Min(Stars(p)) <= s
  BY <1>3, Least
<1>5. Max(Stars(p)) \in Stars(p) /\ \A s \in Stars(p) : s <= Max(Stars(p))
  BY <1>1, <1>3, Greatest
<1> QED BY <1>2, <1>4, <1>5

\* Two stars with none between them.
Next(p, a, b) ==
  /\ a \in Stars(p) /\ b \in Stars(p) /\ a < b
  /\ \A i \in (a + 1)..(b - 1) : p[i] # "*"

LEMMA Neighbours ==
  ASSUME NEW T, NEW p \in Seq(T), Stars(p) # {}, NEW k \in Nat,
         Min(Stars(p)) <= k, k < Max(Stars(p))
  PROVE  LET b == Min({s \in Stars(p) : k < s}) IN
         \E a \in Stars(p) : Next(p, a, b) /\ a <= k /\ k < b /\ (k \in Stars(p) => a = k)
<1> DEFINE After == {s \in Stars(p) : k < s}
           b == Min(After)
           Before == {s \in Stars(p) : s < b}
           a == Max(Before)
<1>1. /\ Len(p) \in Nat /\ Stars(p) \in SUBSET (1..Len(p)) /\ Stars(p) \in SUBSET Nat
      /\ Min(Stars(p)) \in Stars(p) /\ Max(Stars(p)) \in Stars(p)
  BY StarsBound
<1>2. After \in SUBSET Nat /\ After # {}
  BY <1>1
<1>3. b \in After /\ \A s \in After : b <= s
  <2> HIDE DEF After
  <2> QED BY <1>2, Least
<1> HIDE DEF b
<1>4. b \in Stars(p) /\ k < b /\ b \in Nat
  BY <1>1, <1>3
<1>5. Min(Stars(p)) \in Before
  BY <1>1, <1>4
<1>6. Before \in SUBSET (0..Len(p)) /\ Before # {}
  BY <1>1, <1>5
<1>7. a \in Before /\ \A s \in Before : s <= a
  <2> HIDE DEF Before
  <2> QED BY <1>1, <1>6, Greatest
<1> HIDE DEF a
<1>8. a \in Stars(p) /\ a < b /\ a \in Nat
  BY <1>1, <1>7
<1>9. a <= k
  <2> SUFFICES ASSUME k < a
               PROVE  FALSE
    BY <1>8
  <2>1. a \in After
    BY <1>8
  <2> QED BY <1>3, <1>4, <1>8, <2>1
<1>10. ASSUME NEW i \in (a + 1)..(b - 1)
       PROVE  p[i] # "*"
  <2> SUFFICES ASSUME p[i] = "*"
               PROVE  FALSE
    OBVIOUS
  <2>1. i \in 1..Len(p) /\ i < b /\ a < i
    BY <1>1, <1>4, <1>8
  <2>2. i \in Before
    BY <2>1 DEF Stars
  <2> QED BY <1>7, <1>8, <2>1, <2>2
<1>11. k \in Stars(p) => a = k
  <2> SUFFICES ASSUME k \in Stars(p)
               PROVE  a = k
    OBVIOUS
  <2>1. k \in Before
    BY <1>4
  <2> QED BY <1>7, <1>8, <1>9, <2>1
<1>12. Next(p, a, b)
  BY <1>4, <1>8, <1>10 DEF Next
<1> QED BY <1>4, <1>8, <1>9, <1>11, <1>12 DEF b

LEMMA SegmentIs ==
  ASSUME NEW T, NEW p \in Seq(T), NEW a, NEW b, Next(p, a, b)
  PROVE  /\ SegmentAt(p, b) \in Seq(T) /\ Len(SegmentAt(p, b)) = b - 1 - a
         /\ \A m \in 1..(b - 1 - a) : SegmentAt(p, b)[m] = p[a + m]
<1> DEFINE Before == {s \in Stars(p) : s < b}
<1>1. /\ Len(p) \in Nat /\ Stars(p) \in SUBSET (1..Len(p)) /\ Stars(p) # {}
      /\ a \in 1..Len(p) /\ b \in 1..Len(p) /\ a < b
  BY StarsBound DEF Next
<1>2. Before \in SUBSET (0..Len(p)) /\ a \in Before
  BY <1>1 DEF Next
<1>3. Max(Before) \in Before /\ \A s \in Before : s <= Max(Before)
  <2> HIDE DEF Before
  <2> QED BY <1>1, <1>2, Greatest
<1>4. Max(Before) = a
  <2> DEFINE x == Max(Before)
  <2>1. x \in Nat /\ x < b /\ p[x] = "*" /\ a <= x
    BY <1>1, <1>2, <1>3 DEF Stars
  <2> HIDE DEF x
  <2>2. ~ (a < x)
    BY <1>1, <2>1 DEF Next
  <2>3. x = a
    BY <1>1, <2>1, <2>2
  <2> QED BY <2>3 DEF x
<1>5. SegmentAt(p, b) = SubSeq(p, a + 1, b - 1)
  BY <1>4 DEF SegmentAt
<1>6. \A i \in (a + 1)..(b - 1) : p[i] \in T
  BY <1>1
<1>7. /\ SubSeq(p, a + 1, b - 1) \in Seq(T)
      /\ Len(SubSeq(p, a + 1, b - 1)) = IF a + 1 <= b - 1 THEN b - 1 - (a + 1) + 1 ELSE 0
      /\ \A m \in 1..(b - 1 - (a + 1) + 1) : SubSeq(p, a + 1, b - 1)[m] = p[a + 1 + m - 1]
  BY <1>1, <1>6, SubSeqProperties
<1>8. Len(SubSeq(p, a + 1, b - 1)) = b - 1 - a
  BY <1>1, <1>7
<1>9. ASSUME NEW m \in 1..(b - 1 - a)
      PROVE  SubSeq(p, a + 1, b - 1)[m] = p[a + m]
  <2>1. m \in 1..(b - 1 - (a + 1) + 1) /\ a + 1 + m - 1 = a + m
    BY <1>1
  <2> QED BY <1>7, <2>1
<1> QED BY <1>5, <1>7, <1>8, <1>9

\* The way the search goes.
UsesUp(u, p, v, limit, n) ==
  u = [i \in 0..n |-> IF i <= Min(Stars(p)) THEN Min(Stars(p)) - 1
                      ELSE NextUsed(p, v, limit, i, u[i - 1])]

LEMMA UsesExists ==
  ASSUME NEW p, NEW v, NEW limit, Min(Stars(p)) \in Nat, NEW n \in Nat
  PROVE  \E u : UsesUp(u, p, v, limit, n)
<1> DEFINE S == {m \in Nat : \E u : UsesUp(u, p, v, limit, m)}
<1>1. 0 \in S
  <2> DEFINE u == [i \in 0..0 |-> Min(Stars(p)) - 1]
  <2>1. UsesUp(u, p, v, limit, 0)
    BY DEF UsesUp
  <2> QED BY <2>1
<1>2. ASSUME NEW m \in S
      PROVE  m + 1 \in S
  <2>1. m \in Nat
    OBVIOUS
  <2>2. PICK u : UsesUp(u, p, v, limit, m)
    OBVIOUS
  <2> DEFINE next == IF m + 1 <= Min(Stars(p)) THEN Min(Stars(p)) - 1
                     ELSE NextUsed(p, v, limit, m + 1, u[m])
             longer == [i \in 0..m + 1 |-> IF i = m + 1 THEN next ELSE u[i]]
  <2>3. ASSUME NEW i \in 0..m + 1
        PROVE  longer[i] = IF i <= Min(Stars(p)) THEN Min(Stars(p)) - 1
                           ELSE NextUsed(p, v, limit, i, longer[i - 1])
    <3>1. CASE i = m + 1
      <4>1. longer[i - 1] = u[m]
        BY <2>1, <3>1
      <4> QED BY <2>1, <3>1, <4>1
    <3>2. CASE i \in 0..m /\ i # 0
      <4>1. longer[i] = u[i] /\ longer[i - 1] = u[i - 1]
        BY <2>1, <3>2
      <4>2. u[i] = IF i <= Min(Stars(p)) THEN Min(Stars(p)) - 1
                   ELSE NextUsed(p, v, limit, i, u[i - 1])
        BY <2>2, <3>2 DEF UsesUp
      <4> QED BY <4>1, <4>2
    <3>3. CASE i = 0
      <4>1. longer[i] = u[i]
        BY <2>1, <3>3
      <4>2. u[i] = Min(Stars(p)) - 1
        BY <2>1, <2>2, <3>3 DEF UsesUp
      <4> QED BY <3>3, <4>1, <4>2
    <3> QED BY <2>1, <3>1, <3>2, <3>3
  <2>4. UsesUp(longer, p, v, limit, m + 1)
    <3>1. longer = [i \in 0..m + 1 |-> longer[i]]
      OBVIOUS
    <3> HIDE DEF longer
    <3> QED BY <2>3, <3>1 DEF UsesUp
  <2> QED BY <2>1, <2>4
<1>3. S = Nat
  BY <1>1, <1>2, Induction
<1> QED BY <1>3

LEMMA UsedIs ==
  ASSUME NEW T, NEW p \in Seq(T), Stars(p) # {}, NEW v, NEW limit
  PROVE  \E u :
           /\ LettersUsed(p, v, limit) = u[Len(p)]
           /\ \A i \in 0..Len(p) :
                u[i] = IF i <= Min(Stars(p)) THEN Min(Stars(p)) - 1
                       ELSE NextUsed(p, v, limit, i, u[i - 1])
<1> DEFINE u == CHOOSE f : UsesUp(f, p, v, limit, Len(p))
<1>1. Len(p) \in Nat /\ Min(Stars(p)) \in Nat
  BY StarsBound
<1>2. UsesUp(u, p, v, limit, Len(p))
  BY <1>1, UsesExists
<1>3. LettersUsed(p, v, limit) = u[Len(p)]
  BY DEF LettersUsed, UsesUp
<1> HIDE DEF u
<1>4. ASSUME NEW i \in 0..Len(p)
      PROVE  u[i] = IF i <= Min(Stars(p)) THEN Min(Stars(p)) - 1
                    ELSE NextUsed(p, v, limit, i, u[i - 1])
  BY <1>2 DEF UsesUp
<1> QED BY <1>3, <1>4

(***************************************************************************)
(* The search.  "used" is what is used before each letter of the pattern.  *)
(***************************************************************************)
Search(u, p, v, limit) ==
  /\ u[Min(Stars(p))] = Min(Stars(p)) - 1
  /\ \A i \in (Min(Stars(p)) + 1)..Len(p) :
       /\ (p[i] # "*" \/ u[i - 1] = NotFound) => u[i] = u[i - 1]
       /\ (p[i] = "*" /\ u[i - 1] # NotFound) =>
            LET ends == Ends(SegmentAt(p, i), v, u[i - 1], limit) IN
            u[i] = IF ends = {} THEN NotFound ELSE Min(ends)

LEMMA SearchIs ==
  ASSUME NEW T, NEW p \in Seq(T), Stars(p) # {}, NEW v, NEW limit
  PROVE  \E u : LettersUsed(p, v, limit) = u[Len(p)] /\ Search(u, p, v, limit)
<1> DEFINE first == Min(Stars(p))
<1>1. Len(p) \in Nat /\ first \in 1..Len(p)
  BY StarsBound
<1>2. PICK u :
           /\ LettersUsed(p, v, limit) = u[Len(p)]
           /\ \A i \in 0..Len(p) :
                u[i] = IF i <= first THEN first - 1 ELSE NextUsed(p, v, limit, i, u[i - 1])
  BY UsedIs
<1> HIDE DEF first
<1>3. u[first] = first - 1
  BY <1>1, <1>2
<1>4. ASSUME NEW i \in (first + 1)..Len(p)
      PROVE  u[i] = NextUsed(p, v, limit, i, u[i - 1])
  <2>1. i \in 0..Len(p) /\ ~ (i <= first)
    BY <1>1
  <2> QED BY <1>2, <2>1
<1>5. ASSUME NEW i \in (first + 1)..Len(p)
      PROVE  /\ (p[i] # "*" \/ u[i - 1] = NotFound) => u[i] = u[i - 1]
             /\ (p[i] = "*" /\ u[i - 1] # NotFound) =>
                  LET ends == Ends(SegmentAt(p, i), v, u[i - 1], limit) IN
                  u[i] = IF ends = {} THEN NotFound ELSE Min(ends)
  BY <1>4 DEF NextUsed
<1> QED BY <1>2, <1>3, <1>5 DEF Search, first

\* A segment that is found ends at the least place there is.
LEMMA EndsLeast ==
  ASSUME NEW T, NEW s \in Seq(T), NEW v, NEW used \in Nat, NEW limit \in Nat,
         Ends(s, v, used, limit) # {}
  PROVE  /\ Min(Ends(s, v, used, limit)) \in Ends(s, v, used, limit)
         /\ Min(Ends(s, v, used, limit)) \in Nat
         /\ used + Len(s) <= Min(Ends(s, v, used, limit))
         /\ Min(Ends(s, v, used, limit)) <= limit
         /\ \A e \in Ends(s, v, used, limit) : Min(Ends(s, v, used, limit)) <= e
<1> DEFINE E == Ends(s, v, used, limit)
<1>1. Len(s) \in Nat
  OBVIOUS
<1>2. \A e \in E : e \in Nat /\ used + Len(s) <= e /\ e <= limit
  BY <1>1 DEF Ends
<1>3. E \in SUBSET Nat /\ E # {}
  BY <1>2
<1> HIDE DEF E
<1>4. Min(E) \in E /\ \A e \in E : Min(E) <= e
  BY <1>3, Least
<1>5. Min(E) \in Nat /\ used + Len(s) <= Min(E) /\ Min(E) <= limit
  BY <1>2, <1>4
<1> QED BY <1>4, <1>5 DEF E

\* Once a segment is not found, none is.
LEMMA SearchGoesOn ==
  ASSUME NEW T, NEW p \in Seq(T), Stars(p) # {}, NEW v, NEW limit, NEW u,
         Search(u, p, v, limit), u[Len(p)] # NotFound,
         NEW i \in Min(Stars(p))..Len(p)
  PROVE  u[i] # NotFound
<1> DEFINE first == Min(Stars(p))
<1>1. Len(p) \in Nat /\ first \in 1..Len(p) /\ i \in Nat /\ first <= i /\ i <= Len(p)
  BY StarsBound
<1> DEFINE S == {n \in Nat : i + n <= Len(p) => u[i + n] = NotFound}
<1> SUFFICES ASSUME u[i] = NotFound
             PROVE  FALSE
  OBVIOUS
<1>2. 0 \in S
  BY <1>1
<1>3. ASSUME NEW n \in S
      PROVE  n + 1 \in S
  <2> SUFFICES ASSUME i + (n + 1) <= Len(p)
               PROVE  u[i + (n + 1)] = NotFound
    OBVIOUS
  <2>1. /\ n \in Nat /\ i + (n + 1) \in (first + 1)..Len(p)
        /\ i + (n + 1) - 1 = i + n /\ u[i + n] = NotFound
    BY <1>1
  <2> QED BY <2>1 DEF Search
<1>4. S = Nat
  BY <1>2, <1>3, Induction
<1>5. \A n \in Nat : i + n <= Len(p) => u[i + n] = NotFound
  BY <1>4
<1>6. PICK d \in Nat : i + d = Len(p)
  <2>1. Len(p) - i \in Nat /\ i + (Len(p) - i) = Len(p)
    BY <1>1
  <2> QED BY <2>1
<1>7. i + d <= Len(p)
  BY <1>1, <1>6
<1>8. u[i + d] = NotFound
  BY <1>5, <1>7
<1> QED BY <1>6, <1>8

\* What is used is so much since the last star.
UsedSince(u, p, limit, j) ==
  /\ u[j] \in Nat /\ u[j] <= limit
  /\ \A a \in Stars(p) : (a <= j /\ \A i \in (a + 1)..j : p[i] # "*") => u[j] = u[a]

FoundAll(u, from, to) == \A i \in from..to : u[i] # NotFound

\* What is used changes at stars only.
LEMMA SearchKeeps ==
  ASSUME NEW T, NEW p \in Seq(T), Stars(p) # {}, NEW v, NEW limit \in Nat, NEW u,
         Search(u, p, v, limit), NEW n \in Nat, Min(Stars(p)) + n <= Len(p),
         Min(Stars(p)) - 1 <= limit,
         FoundAll(u, Min(Stars(p)), Min(Stars(p)) + n)
  PROVE  UsedSince(u, p, limit, Min(Stars(p)) + n)
<1> DEFINE first == Min(Stars(p))
<1>1. /\ Len(p) \in Nat /\ first \in 1..Len(p) /\ first \in Nat /\ Stars(p) \in SUBSET (1..Len(p))
      /\ \A s \in Stars(p) : first <= s
  BY StarsBound
<1>2. ASSUME NEW i \in first..(first + n)
      PROVE  u[i] # NotFound
  BY DEF FoundAll
<1>3. u[first] = first - 1 /\ first - 1 <= limit /\ first + n <= Len(p)
  BY DEF Search
<1>4. ASSUME NEW i \in (first + 1)..(first + n)
      PROVE  /\ p[i] # "*" => u[i] = u[i - 1]
             /\ p[i] = "*" /\ u[i - 1] \in Nat => u[i] \in Nat /\ u[i] <= limit
  <2>1. i \in (first + 1)..Len(p) /\ i - 1 \in first..(first + n) /\ i \in first..(first + n)
    BY <1>1, <1>3
  <2>2. u[i] # NotFound /\ u[i - 1] # NotFound
    BY <1>2, <2>1
  <2>3. p[i] # "*" => u[i] = u[i - 1]
    BY <2>1 DEF Search
  <2>4. ASSUME p[i] = "*", u[i - 1] \in Nat
        PROVE  u[i] \in Nat /\ u[i] <= limit
    <3> DEFINE seg == SegmentAt(p, i)
               E == Ends(seg, v, u[i - 1], limit)
    <3>1. E # {} /\ u[i] = Min(E)
      BY <2>1, <2>2, <2>4 DEF Search
    <3>2. \A e \in E : e \in u[i - 1] + Len(seg)..limit
      BY DEF Ends
    <3>3. seg \in Seq(T)
      <4> DEFINE prev == Max({s \in Stars(p) : s < i})
      <4>1. seg = SubSeq(p, prev + 1, i - 1)
        BY DEF SegmentAt
      <4>2. first \in {s \in Stars(p) : s < i}
        BY <1>1, <2>1, StarsBound
      <4>3. {s \in Stars(p) : s < i} \in SUBSET (0..Len(p))
        BY <1>1
      <4>4. prev \in {s \in Stars(p) : s < i}
        BY <1>1, <4>2, <4>3, Greatest
      <4>5. prev \in Nat /\ i \in Nat /\ i <= Len(p)
        BY <1>1, <2>1, <4>4
      <4> HIDE DEF prev
      <4>6. \A j \in (prev + 1)..(i - 1) : p[j] \in T
        BY <1>1, <4>5
      <4>7. SubSeq(p, prev + 1, i - 1) \in Seq(T)
        BY <1>1, <4>5, <4>6, SubSeqProperties
      <4> QED BY <4>1, <4>7
    <3> QED BY <2>4, <3>1, <3>3, EndsLeast
  <2> QED BY <2>3, <2>4
<1> HIDE DEF first
<1> DEFINE Kept(m) ==
             /\ u[first + m] \in Nat /\ u[first + m] <= limit
             /\ \A a \in Stars(p) :
                  (a <= first + m /\ \A i \in (a + 1)..(first + m) : p[i] # "*") =>
                    u[first + m] = u[a]
           S == {m \in Nat : m <= n => Kept(m)}
<1>5. 0 \in S
  <2>1. first + 0 = first /\ u[first] \in Nat /\ u[first] <= limit
    BY <1>1, <1>3
  <2>2. ASSUME NEW a \in Stars(p), a <= first
        PROVE  u[first] = u[a]
    <3>1. a = first
      BY <1>1, <2>2
    <3> QED BY <3>1
  <2>3. Kept(0)
    BY <2>1, <2>2
  <2> QED BY <2>3
<1>6. ASSUME NEW m \in S
      PROVE  m + 1 \in S
  <2> SUFFICES ASSUME m + 1 <= n
               PROVE  Kept(m + 1)
    OBVIOUS
  <2> DEFINE j == first + (m + 1)
  <2>1. m \in Nat /\ Kept(m)
    OBVIOUS
  <2>2. j \in (first + 1)..(first + n) /\ j - 1 = first + m /\ first + m \in Nat
    BY <1>1, <2>1
  <2>3. u[j - 1] \in Nat /\ u[j - 1] <= limit
    BY <2>1, <2>2
  <2> HIDE DEF j
  <2>4. u[j] \in Nat /\ u[j] <= limit
    BY <1>4, <2>2, <2>3
  <2>5. ASSUME NEW a \in Stars(p), a <= j, \A i \in (a + 1)..j : p[i] # "*"
        PROVE  u[j] = u[a]
    <3>1. a \in Nat
      BY <1>1
    <3>2. CASE a = j
      BY <3>2
    <3>3. CASE a < j
      <4>1. j \in (a + 1)..j /\ a <= j - 1 /\ \A i \in (a + 1)..(j - 1) : i \in (a + 1)..j
        BY <2>2, <3>1, <3>3
      <4>2. p[j] # "*" /\ \A i \in (a + 1)..(j - 1) : p[i] # "*"
        BY <2>5, <4>1
      <4>3. u[j] = u[j - 1]
        BY <1>4, <2>2, <4>2
      <4>4. u[first + m] = u[a]
        BY <2>1, <2>2, <4>1, <4>2
      <4> QED BY <2>2, <4>3, <4>4
    <3> QED BY <2>2, <2>5, <3>1, <3>2, <3>3
  <2> QED BY <2>4, <2>5 DEF j
<1>7. Kept(n)
  <2>1. S = Nat
    BY <1>5, <1>6, Induction
  <2> QED BY <2>1
<1> QED BY <1>7 DEF first, UsedSince

\* What is used, and where a segment is found, in a search that succeeds.
LEMMA SearchFinds ==
  ASSUME NEW T, NEW p \in Seq(T), Stars(p) # {}, NEW v \in Seq(T), NEW limit \in Nat, NEW u,
         Search(u, p, v, limit), u[Len(p)] # NotFound, Min(Stars(p)) - 1 <= limit,
         limit <= Len(v)
  PROVE  /\ \A s \in Stars(p) : u[s] \in Nat /\ u[s] <= limit
         /\ \A a, b : Next(p, a, b) =>
              /\ u[a] + (b - 1 - a) <= u[b]
              /\ \A m \in 1..(b - 1 - a) : p[a + m] = v[u[b] - (b - 1 - a) + m]
<1> DEFINE first == Min(Stars(p))
<1>1. /\ Len(p) \in Nat /\ first \in 1..Len(p) /\ first \in Nat /\ Stars(p) \in SUBSET (1..Len(p))
      /\ \A s \in Stars(p) : first <= s
  BY StarsBound
<1>2. ASSUME NEW n \in Nat, first + n <= Len(p)
      PROVE  /\ u[first + n] # NotFound /\ u[first + n] \in Nat /\ u[first + n] <= limit
             /\ \A a \in Stars(p) :
                  (a <= first + n /\ \A i \in (a + 1)..(first + n) : p[i] # "*") =>
                    u[first + n] = u[a]
  <2>1. ASSUME NEW i \in first..(first + n)
        PROVE  u[i] # NotFound
    <3>1. i \in first..Len(p)
      BY <1>1, <1>2
    <3> QED BY <3>1, SearchGoesOn
  <2>2. first + n \in first..(first + n)
    BY <1>1
  <2>3. FoundAll(u, Min(Stars(p)), Min(Stars(p)) + n)
    BY <2>1 DEF FoundAll
  <2>4. UsedSince(u, p, limit, Min(Stars(p)) + n)
    BY <1>2, <2>3, SearchKeeps
  <2> QED BY <2>1, <2>2, <2>4 DEF UsedSince
<1> HIDE DEF first
<1>3. ASSUME NEW i \in first..Len(p)
      PROVE  /\ u[i] # NotFound /\ u[i] \in Nat /\ u[i] <= limit
             /\ \A a \in Stars(p) :
                  (a <= i /\ \A j \in (a + 1)..i : p[j] # "*") => u[i] = u[a]
  <2>1. PICK n \in Nat : first + n = i
    <3>1. i - first \in Nat /\ first + (i - first) = i
      BY <1>1
    <3> QED BY <3>1
  <2>2. first + n <= Len(p)
    BY <1>1, <2>1
  <2> QED BY <1>2, <2>1, <2>2
<1>4. ASSUME NEW s \in Stars(p)
      PROVE  u[s] \in Nat /\ u[s] <= limit
  <2>1. s \in first..Len(p)
    BY <1>1
  <2> QED BY <1>3, <2>1
<1>5. ASSUME NEW a, NEW b, Next(p, a, b)
      PROVE  /\ u[a] + (b - 1 - a) <= u[b]
             /\ \A m \in 1..(b - 1 - a) : p[a + m] = v[u[b] - (b - 1 - a) + m]
  <2> DEFINE seg == SegmentAt(p, b)
             E == Ends(seg, v, u[b - 1], limit)
  <2>1. /\ a \in Stars(p) /\ b \in Stars(p) /\ a < b /\ a \in 1..Len(p) /\ b \in 1..Len(p)
        /\ \A i \in (a + 1)..(b - 1) : p[i] # "*"
    BY <1>1, <1>5 DEF Next
  <2>2. b - 1 \in first..Len(p) /\ b \in (first + 1)..Len(p) /\ a <= b - 1
    BY <1>1, <2>1
  <2>3. u[b - 1] # NotFound /\ u[b - 1] = u[a] /\ u[b - 1] \in Nat
    BY <1>3, <2>1, <2>2
  <2>4. u[b] # NotFound
    <3>1. b \in first..Len(p)
      BY <1>1, <2>1
    <3> QED BY <1>3, <3>1
  <2>5. p[b] = "*"
    BY <2>1 DEF Stars
  <2>6. E # {} /\ u[b] = Min(E)
    BY <2>2, <2>3, <2>4, <2>5 DEF Search, first
  <2>7. /\ seg \in Seq(T) /\ Len(seg) = b - 1 - a
        /\ \A m \in 1..(b - 1 - a) : seg[m] = p[a + m]
    BY <1>5, SegmentIs
  <2> HIDE DEF seg
  <2>8. u[b] \in E /\ u[b - 1] + Len(seg) <= u[b] /\ u[b] \in Nat /\ u[b] <= limit
    BY <2>3, <2>6, <2>7, EndsLeast
  <2>9. EndsAt(seg, v, u[b])
    BY <2>8 DEF Ends
  <2> DEFINE e == u[b]
             used == u[b - 1]
  <2>10. used \in Nat /\ e \in Nat /\ used + Len(seg) <= e /\ e <= limit
    BY <2>3, <2>8
  <2>11. EndsAt(seg, v, e)
    BY <2>9
  <2> HIDE DEF e, used
  <2>12. e \in Len(seg)..Len(v)
    <3>1. Len(seg) \in Nat /\ Len(v) \in Nat
      BY <2>7
    <3> QED BY <2>10, <3>1
  <2>13. Stands(seg, v, e)
    BY <2>7, <2>11, <2>12, EndsAtMembers
  <2>14. \A m \in 1..(b - 1 - a) : p[a + m] = v[e - (b - 1 - a) + m]
    BY <2>7, <2>13 DEF Stands
  <2>15. used + (b - 1 - a) <= e
    BY <2>7, <2>10
  <2> QED BY <2>3, <2>14, <2>15 DEF e, used
<1> QED BY <1>4, <1>5

\* A search that succeeds shows how the letters of the pattern take up the value.
Path(u, p, v, k) ==
  IF k < Min(Stars(p)) THEN k
  ELSE IF k >= Max(Stars(p)) THEN Len(v) - (Len(p) - k)
  ELSE LET b == Min({s \in Stars(p) : k < s}) IN u[b] - (b - 1 - k)

\* Between a star and the next.
LEMMA PathBetween ==
  ASSUME NEW T, NEW p \in Seq(T), Stars(p) # {}, NEW v, NEW u,
         NEW a, NEW b, Next(p, a, b), NEW k \in a..(b - 1)
  PROVE  Path(u, p, v, k) = u[b] - (b - 1 - k)
<1> DEFINE After == {s \in Stars(p) : k < s}
<1>1. /\ Len(p) \in Nat /\ Stars(p) \in SUBSET (1..Len(p))
      /\ \A s \in Stars(p) : Min(Stars(p)) <= s /\ s <= Max(Stars(p))
      /\ Min(Stars(p)) \in Stars(p) /\ Max(Stars(p)) \in Stars(p)
  BY StarsBound
<1>2. a \in Stars(p) /\ b \in Stars(p) /\ a < b /\ a \in 1..Len(p) /\ b \in 1..Len(p)
  BY <1>1 DEF Next
<1>3. b \in After /\ After \in SUBSET Nat
  BY <1>1, <1>2
<1>4. Min(After) \in After /\ \A s \in After : Min(After) <= s
  <2> HIDE DEF After
  <2> QED BY <1>3, Least
<1>5. Min(After) = b
  <2> DEFINE x == Min(After)
  <2>1. x \in 1..Len(p) /\ k < x /\ x <= b /\ p[x] = "*"
    BY <1>1, <1>2, <1>3, <1>4 DEF Stars
  <2> HIDE DEF x
  <2>2. x \notin (a + 1)..(b - 1)
    BY <2>1 DEF Next
  <2>3. x = b
    BY <1>2, <2>1, <2>2
  <2> QED BY <2>3 DEF x
<1>6. ~ (k < Min(Stars(p))) /\ ~ (k >= Max(Stars(p)))
  <2>1. Min(Stars(p)) <= a /\ b <= Max(Stars(p))
    BY <1>1, <1>2
  <2>2. Min(Stars(p)) \in Nat /\ Max(Stars(p)) \in Nat
    BY <1>1
  <2> QED BY <1>2, <2>1, <2>2
<1> QED BY <1>5, <1>6 DEF Path

(***************************************************************************)
(* The match.                                                              *)
(***************************************************************************)
SameLetters(p, v, lo, hi, e) == \A m \in 1..(hi - lo) : p[lo + m] = v[e - (hi - lo) + m]

LEMMA PartEndsAt ==
  ASSUME NEW T, NEW p \in Seq(T), NEW v \in Seq(T), NEW lo \in 0..Len(p), NEW hi \in lo..Len(p),
         NEW e \in (hi - lo)..Len(v)
  PROVE  EndsAt(SubSeq(p, lo + 1, hi), v, e) <=> SameLetters(p, v, lo, hi, e)
<1> DEFINE part == SubSeq(p, lo + 1, hi)
<1>1. Len(p) \in Nat /\ Len(v) \in Nat /\ lo \in Nat /\ hi \in Nat /\ lo <= hi /\ hi <= Len(p)
  OBVIOUS
<1>2. \A i \in (lo + 1)..hi : p[i] \in T
  BY <1>1
<1>3. /\ part \in Seq(T)
      /\ Len(part) = IF lo + 1 <= hi THEN hi - (lo + 1) + 1 ELSE 0
      /\ \A m \in 1..(hi - (lo + 1) + 1) : part[m] = p[lo + 1 + m - 1]
  BY <1>1, <1>2, SubSeqProperties
<1>4. Len(part) = hi - lo
  BY <1>1, <1>3
<1>5. ASSUME NEW m \in 1..(hi - lo)
      PROVE  part[m] = p[lo + m]
  <2>1. m \in 1..(hi - (lo + 1) + 1) /\ lo + 1 + m - 1 = lo + m
    BY <1>1
  <2> QED BY <1>3, <2>1
<1> HIDE DEF part
<1>6. e \in Len(part)..Len(v)
  BY <1>4
<1>7. EndsAt(part, v, e) <=> Stands(part, v, e)
  BY <1>3, <1>6, EndsAtMembers
<1>8. EndsAt(part, v, e) <=> \A m \in 1..(hi - lo) : p[lo + m] = v[e - (hi - lo) + m]
  BY <1>4, <1>5, <1>7 DEF Stands
<1> QED BY <1>8 DEF part, SameLetters

\* Where the letters are, when the code finds a match.
LEMMA PathTakes ==
  ASSUME NEW T, NEW p \in Seq(T), Stars(p) # {}, NEW v \in Seq(T), NEW limit \in Nat, NEW u,
         limit = Len(v) - (Len(p) - Max(Stars(p))),
         Search(u, p, v, limit), u[Len(p)] # NotFound, Min(Stars(p)) - 1 <= limit,
         \A m \in 1..(Min(Stars(p)) - 1) : p[m] = v[m],
         \A m \in 1..(Len(p) - Max(Stars(p))) : p[Max(Stars(p)) + m] = v[limit + m]
  PROVE  Matches(p, v)
<1> DEFINE first == Min(Stars(p))
           last == Max(Stars(p))
           path == [k \in 0..Len(p) |-> Path(u, p, v, k)]
<1>1. /\ Len(p) \in Nat /\ Len(v) \in Nat /\ first \in 1..Len(p) /\ last \in first..Len(p)
      /\ first \in Stars(p) /\ last \in Stars(p)
      /\ Stars(p) \in SUBSET (1..Len(p)) /\ DOMAIN p = 1..Len(p)
      /\ \A s \in Stars(p) : first <= s /\ s <= last
  BY StarsBound
<1>2. limit <= Len(v) /\ first - 1 <= limit
  BY <1>1
<1>3. /\ \A s \in Stars(p) : u[s] \in Nat /\ u[s] <= limit
      /\ \A a, b : Next(p, a, b) =>
           /\ u[a] + (b - 1 - a) <= u[b]
           /\ \A m \in 1..(b - 1 - a) : p[a + m] = v[u[b] - (b - 1 - a) + m]
  BY <1>2, SearchFinds
<1>4. u[first] = first - 1
  BY DEF Search
<1>5. \A a, b : Next(p, a, b) => \A k \in a..(b - 1) : Path(u, p, v, k) = u[b] - (b - 1 - k)
  BY PathBetween
<1>6. ASSUME NEW k \in 0..(first - 1)
      PROVE  Path(u, p, v, k) = k
  BY <1>1 DEF Path
<1>7. ASSUME NEW k \in last..Len(p)
      PROVE  Path(u, p, v, k) = Len(v) - (Len(p) - k)
  <2>1. ~ (k < first) /\ k >= last
    BY <1>1
  <2> QED BY <2>1 DEF Path
<1>8. ASSUME NEW k \in first..(last - 1)
      PROVE  \E a, b \in 1..Len(p) :
               /\ Next(p, a, b) /\ a <= k /\ k < b /\ (k \in Stars(p) => a = k)
               /\ Path(u, p, v, k) = u[b] - (b - 1 - k)
               /\ u[a] \in Nat /\ u[b] \in Nat /\ u[b] <= limit
               /\ u[a] + (b - 1 - a) <= u[b] /\ b <= last
  <2>1. k \in Nat /\ first <= k /\ k < last
    BY <1>1
  <2> DEFINE b == Min({s \in Stars(p) : k < s})
  <2>2. PICK a \in Stars(p) : Next(p, a, b) /\ a <= k /\ k < b /\ (k \in Stars(p) => a = k)
    BY <2>1, Neighbours
  <2> HIDE DEF b
  <2>3. a \in Stars(p) /\ b \in Stars(p) /\ a \in 1..Len(p) /\ b \in 1..Len(p)
    BY <1>1, <2>2 DEF Next
  <2>4. k \in a..(b - 1)
    BY <2>1, <2>2, <2>3
  <2>5. Path(u, p, v, k) = u[b] - (b - 1 - k)
    BY <2>2, <2>4, PathBetween
  <2> QED BY <1>1, <1>3, <2>2, <2>3, <2>5
<1> HIDE DEF first, last
<1>9. ASSUME NEW k \in 0..Len(p)
      PROVE  Path(u, p, v, k) \in 0..Len(v)
  <2>1. k \in 0..(first - 1) \/ k \in last..Len(p) \/ k \in first..(last - 1)
    BY <1>1
  <2>2. CASE k \in 0..(first - 1)
    BY <1>1, <1>2, <1>6, <2>2
  <2>3. CASE k \in last..Len(p)
    <3>1. Path(u, p, v, k) = Len(v) - (Len(p) - k)
      BY <1>7, <2>3
    <3>2. limit = Len(v) - (Len(p) - last)
      BY DEF last
    <3> QED BY <1>1, <1>2, <2>3, <3>1, <3>2
  <2>4. CASE k \in first..(last - 1)
    <3>1. PICK a, b \in 1..Len(p) :
               /\ a <= k /\ k < b
               /\ Path(u, p, v, k) = u[b] - (b - 1 - k)
               /\ u[a] \in Nat /\ u[b] \in Nat /\ u[b] <= limit
               /\ u[a] + (b - 1 - a) <= u[b]
      BY <1>8, <2>4
    <3>2. u[b] - (b - 1 - k) <= u[b] /\ u[a] <= u[b] - (b - 1 - k)
      BY <1>1, <2>4, <3>1
    <3>3. u[b] - (b - 1 - k) \in Int /\ Len(v) \in Nat
      BY <1>1, <2>4, <3>1
    <3> QED BY <1>2, <3>1, <3>2, <3>3
  <2> QED BY <2>1, <2>2, <2>3, <2>4
<1>10. ASSUME NEW i \in 1..Len(p)
      PROVE  IF p[i] = "*" THEN Path(u, p, v, i - 1) <= Path(u, p, v, i)
             ELSE Path(u, p, v, i) = Path(u, p, v, i - 1) + 1 /\ p[i] = v[Path(u, p, v, i)]
  <2>1. (p[i] = "*" <=> i \in Stars(p)) /\ limit = Len(v) - (Len(p) - last)
    BY <1>1 DEF Stars, last
  <2>2. CASE i < first
    <3>1. p[i] # "*" /\ i \in 0..(first - 1) /\ i - 1 \in 0..(first - 1) /\ i \in 1..(first - 1)
      BY <1>1, <2>1, <2>2
    <3>2. p[i] = v[i]
      BY <3>1 DEF first
    <3> QED BY <1>6, <3>1, <3>2
  <2>3. ASSUME i \in first..last, p[i] = "*"
        PROVE  Path(u, p, v, i) >= u[i]
    <3>1. CASE i = last
      BY <1>1, <1>3, <1>7, <2>1, <3>1
    <3>2. CASE i < last
      <4>1. i \in first..(last - 1) /\ i \in Stars(p)
        BY <1>1, <2>1, <2>3, <3>2
      <4>2. PICK b \in 1..Len(p) :
                 /\ Path(u, p, v, i) = u[b] - (b - 1 - i)
                 /\ u[b] \in Nat /\ u[i] \in Nat
                 /\ u[i] + (b - 1 - i) <= u[b]
        BY <1>8, <4>1
      <4> QED BY <4>2
    <3> QED BY <1>1, <2>3, <3>1, <3>2
  <2>4. CASE i = first
    <3>1. p[i] = "*" /\ i \in first..last
      BY <1>1, <2>1, <2>4
    <3>2. Path(u, p, v, i) >= first - 1
      BY <1>4, <2>3, <2>4, <3>1
    <3>3. i - 1 \in 0..(first - 1)
      BY <1>1, <2>4
    <3>4. Path(u, p, v, i - 1) = first - 1
      BY <1>6, <2>4, <3>3
    <3>5. Path(u, p, v, i) \in Nat
      BY <1>1, <1>9
    <3> QED BY <1>1, <3>1, <3>2, <3>4, <3>5
  <2>5. CASE i > first /\ i <= last
    <3>1. i - 1 \in first..(last - 1)
      BY <1>1, <2>5
    <3>2. PICK a, b \in 1..Len(p) :
               /\ Next(p, a, b) /\ a <= i - 1 /\ i - 1 < b
               /\ Path(u, p, v, i - 1) = u[b] - (b - 1 - (i - 1))
               /\ u[a] \in Nat /\ u[b] \in Nat /\ u[b] <= limit
               /\ u[a] + (b - 1 - a) <= u[b] /\ b <= last
      BY <1>8, <3>1
    <3>3. CASE p[i] = "*"
      <4>1. i \notin (a + 1)..(b - 1)
        BY <3>2, <3>3 DEF Next
      <4>2. b = i
        BY <3>2, <4>1
      <4>3. Path(u, p, v, i - 1) = u[i]
        BY <3>2, <4>2
      <4>4. i \in first..last
        BY <1>1, <2>5
      <4>5. Path(u, p, v, i) >= u[i] /\ Path(u, p, v, i) \in Nat /\ u[i] \in Nat
        BY <1>1, <1>9, <2>3, <3>2, <3>3, <4>2, <4>4
      <4> QED BY <3>3, <4>3, <4>5
    <3>4. CASE p[i] # "*"
      <4>1. b # i
        BY <3>2, <3>4 DEF Next, Stars
      <4>2. i \in a..(b - 1) /\ i - a \in 1..(b - 1 - a)
        BY <3>2, <4>1
      <4>3. Path(u, p, v, i) = u[b] - (b - 1 - i)
        <5>1. Next(p, a, b) /\ i \in a..(b - 1)
          BY <3>2, <4>2
        <5> QED BY <1>5, <5>1
      <4>4. p[a + (i - a)] = v[u[b] - (b - 1 - a) + (i - a)]
        BY <1>3, <3>2, <4>2
      <4>5. a + (i - a) = i /\ u[b] - (b - 1 - a) + (i - a) = u[b] - (b - 1 - i)
        <5>1. \A x, y, z, w \in Int : x + (y - x) = y /\ z - (w - 1 - x) + (y - x) = z - (w - 1 - y)
          OBVIOUS
        <5>2. a \in Int /\ i \in Int /\ u[b] \in Int /\ b \in Int
          BY <3>2
        <5> QED BY <5>1, <5>2
      <4>6. p[i] = v[u[b] - (b - 1 - i)]
        BY <4>4, <4>5, Zenon
      <4>7. Path(u, p, v, i) = Path(u, p, v, i - 1) + 1
        BY <3>2, <4>3
      <4> QED BY <3>4, <4>3, <4>6, <4>7
    <3> QED BY <3>3, <3>4
  <2>6. CASE i > last
    <3>1. p[i] # "*" /\ i \in last..Len(p) /\ i - 1 \in last..Len(p) /\ i - last \in 1..(Len(p) - last)
      BY <1>1, <2>1, <2>6
    <3>2. Path(u, p, v, i) = Len(v) - (Len(p) - i) /\ Path(u, p, v, i - 1) = Len(v) - (Len(p) - (i - 1))
      BY <1>7, <3>1
    <3>3. p[last + (i - last)] = v[limit + (i - last)]
      BY <3>1 DEF last
    <3>4. last + (i - last) = i /\ limit + (i - last) = Len(v) - (Len(p) - i)
      BY <1>1, <2>1
    <3>5. p[i] = v[Len(v) - (Len(p) - i)]
      BY <3>3, <3>4, Zenon
    <3>6. Path(u, p, v, i) = Path(u, p, v, i - 1) + 1
      BY <1>1, <3>2
    <3> QED BY <3>1, <3>2, <3>5, <3>6
  <2> QED BY <1>1, <2>2, <2>4, <2>5, <2>6
<1>11. path \in [0..Len(p) -> 0..Len(v)]
  BY <1>9
<1>12. path[0] = 0 /\ path[Len(p)] = Len(v)
  <2>1. 0 \in 0..(first - 1) /\ Len(p) \in last..Len(p) /\ 0 \in 0..Len(p) /\ Len(p) \in 0..Len(p)
    BY <1>1
  <2>2. Path(u, p, v, 0) = 0 /\ Path(u, p, v, Len(p)) = Len(v) - (Len(p) - Len(p))
    BY <1>6, <1>7, <2>1
  <2>3. Len(v) - (Len(p) - Len(p)) = Len(v)
    BY <1>1
  <2> QED BY <2>1, <2>2, <2>3
<1>13. ASSUME NEW i \in DOMAIN p
       PROVE  IF p[i] = "*" THEN path[i - 1] <= path[i]
              ELSE path[i] = path[i - 1] + 1 /\ p[i] = v[path[i]]
  <2>1. i \in 1..Len(p) /\ i \in 0..Len(p) /\ i - 1 \in 0..Len(p)
    BY <1>1
  <2>2. path[i] = Path(u, p, v, i) /\ path[i - 1] = Path(u, p, v, i - 1)
    BY <2>1
  <2> HIDE DEF path
  <2> QED BY <1>10, <2>1, <2>2
<1> HIDE DEF path
<1> QED BY <1>11, <1>12, <1>13 DEF Matches

\* However the letters are taken, the search does not run ahead of it.
LEMMA SearchBehind ==
  ASSUME NEW T, NEW p \in Seq(T), Stars(p) # {}, NEW v \in Seq(T), NEW limit \in Nat, NEW u,
         Search(u, p, v, limit), NEW f, Taken(f, p, v),
         f[Min(Stars(p)) - 1] = Min(Stars(p)) - 1, limit = f[Max(Stars(p))],
         NEW n \in Nat, Min(Stars(p)) + n <= Max(Stars(p))
  PROVE  u[Min(Stars(p)) + n] \in Nat
<1> DEFINE first == Min(Stars(p))
           last == Max(Stars(p))
<1>1. /\ Len(p) \in Nat /\ Len(v) \in Nat /\ first \in 1..Len(p) /\ last \in first..Len(p)
      /\ first \in Stars(p) /\ last \in Stars(p)
      /\ Stars(p) \in SUBSET (1..Len(p)) /\ DOMAIN p = 1..Len(p)
      /\ \A s \in Stars(p) : first <= s /\ s <= last
  BY StarsBound
<1>2. /\ u[first] = first - 1 /\ f[first - 1] = first - 1 /\ limit = f[last]
      /\ first + n <= last
  BY DEF Search
<1>3. \A a \in 0..Len(p) : f[a] \in Nat /\ f[a] <= Len(v)
  <2>1. f \in [0..Len(p) -> 0..Len(v)]
    BY DEF Taken
  <2>2. \A x \in 0..Len(v) : x \in Nat /\ x <= Len(v)
    BY <1>1
  <2> QED BY <2>1, <2>2, Zenon
<1>4. \A a \in 0..Len(p) : \A b \in a..Len(p) : f[a] <= f[b]
  BY <1>1, TakenGrows
<1>5. \A a \in 0..Len(p) : \A b \in a..Len(p) :
        (\A i \in (a + 1)..b : p[i] # "*") =>
          f[b] = f[a] + (b - a) /\ \A m \in 1..(b - a) : p[a + m] = v[f[a] + m]
  BY PlainRun
<1>6. ASSUME NEW i \in (first + 1)..last
      PROVE  /\ (p[i] # "*" \/ u[i - 1] = NotFound) => u[i] = u[i - 1]
             /\ (p[i] = "*" /\ u[i - 1] # NotFound) =>
                  LET ends == Ends(SegmentAt(p, i), v, u[i - 1], limit) IN
                  u[i] = IF ends = {} THEN NotFound ELSE Min(ends)
  <2>1. i \in (first + 1)..Len(p)
    BY <1>1
  <2> QED BY <2>1 DEF Search
<1> HIDE DEF first, last
<1> DEFINE Behind(j) ==
             /\ u[j] \in Nat
             /\ \A a \in Stars(p) :
                  (a <= j /\ \A i \in (a + 1)..j : p[i] # "*") => u[j] <= f[a]
           S == {m \in Nat : m <= n => Behind(first + m)}
<1>7. 0 \in S
  <2>1. first + 0 = first /\ u[first] \in Nat
    BY <1>1, <1>2
  <2>2. ASSUME NEW a \in Stars(p), a <= first
        PROVE  u[first] <= f[a]
    <3>1. a = first
      BY <1>1, <2>2
    <3>2. first - 1 \in 0..Len(p) /\ first \in (first - 1)..Len(p)
      BY <1>1
    <3>3. f[first - 1] <= f[first]
      BY <1>4, <3>2
    <3> QED BY <1>2, <3>1, <3>3
  <2>3. Behind(first + 0)
    BY <2>1, <2>2
  <2> QED BY <2>3
<1>8. ASSUME NEW m \in S
      PROVE  m + 1 \in S
  <2> SUFFICES ASSUME m + 1 <= n
               PROVE  Behind(first + (m + 1))
    OBVIOUS
  <2> DEFINE j == first + (m + 1)
  <2>1. m \in Nat /\ Behind(first + m)
    OBVIOUS
  <2>2. j \in (first + 1)..last /\ j - 1 = first + m /\ j - 1 \in first..last /\ j \in Nat
    BY <1>1, <1>2, <2>1
  <2>3. /\ u[j - 1] \in Nat
        /\ \A a \in Stars(p) :
             (a <= j - 1 /\ \A i \in (a + 1)..(j - 1) : p[i] # "*") => u[j - 1] <= f[a]
    BY <2>1, <2>2
  <2> HIDE DEF j
  <2>4. u[j - 1] # NotFound
    BY <2>3 DEF NotFound
  <2>5. ASSUME p[j] # "*"
        PROVE  Behind(j)
    <3>1. u[j] = u[j - 1]
      BY <1>6, <2>2, <2>5
    <3>2. ASSUME NEW a \in Stars(p), a <= j, \A i \in (a + 1)..j : p[i] # "*"
          PROVE  u[j] <= f[a]
      <4>1. a # j /\ a \in Nat
        BY <1>1, <2>5 DEF Stars
      <4>2. a <= j - 1
        BY <2>2, <3>2, <4>1
      <4>3. \A i \in (a + 1)..(j - 1) : i \in (a + 1)..j
        BY <2>2, <4>1
      <4>4. u[j - 1] <= f[a]
        BY <2>3, <3>2, <4>2, <4>3
      <4> QED BY <3>1, <4>4
    <3> QED BY <2>3, <3>1, <3>2
  <2>6. ASSUME p[j] = "*"
        PROVE  Behind(j)
    <3>1. j \in Stars(p) /\ j \in 1..Len(p)
      BY <1>1, <2>2, <2>6 DEF Stars
    <3>2. PICK a \in Stars(p) : Next(p, a, j)
      <4>1. j - 1 \in Nat /\ first <= j - 1 /\ j - 1 < last
        BY <1>1, <2>2
      <4> DEFINE b == Min({s \in Stars(p) : j - 1 < s})
      <4>2. PICK a \in Stars(p) : Next(p, a, b) /\ a <= j - 1 /\ j - 1 < b
        BY <4>1, Neighbours DEF first, last
      <4> HIDE DEF b
      <4>3. b \in 1..Len(p) /\ a \in 1..Len(p) /\ \A i \in (a + 1)..(b - 1) : p[i] # "*"
        BY <1>1, <4>2 DEF Next
      <4>4. j \notin (a + 1)..(b - 1)
        BY <2>6, <4>3
      <4>5. b = j
        BY <2>2, <4>2, <4>3, <4>4
      <4> QED BY <4>2, <4>5
    <3>3. a \in 1..Len(p) /\ a < j /\ \A i \in (a + 1)..(j - 1) : p[i] # "*"
      BY <1>1, <3>2 DEF Next
    <3>4. u[j - 1] <= f[a]
      <4>1. a <= j - 1
        BY <2>2, <3>3
      <4> QED BY <2>3, <3>3, <4>1
    <3>5. /\ f[j - 1] = f[a] + (j - 1 - a)
          /\ \A k \in 1..(j - 1 - a) : p[a + k] = v[f[a] + k]
      <4>1. a \in 0..Len(p) /\ j - 1 \in a..Len(p)
        BY <1>1, <3>1, <3>3
      <4> QED BY <1>5, <3>3, <4>1
    <3> DEFINE seg == SegmentAt(p, j)
               E == Ends(seg, v, u[j - 1], limit)
               e == f[j - 1]
               used == u[j - 1]
    <3>6. /\ seg \in Seq(T) /\ Len(seg) = j - 1 - a
          /\ \A k \in 1..(j - 1 - a) : seg[k] = p[a + k]
      BY <3>2, SegmentIs
    <3>7. e \in Nat /\ e <= Len(v) /\ e <= limit /\ f[a] \in Nat
      <4>1. j - 1 \in 0..Len(p) /\ last \in (j - 1)..Len(p) /\ a \in 0..Len(p)
        BY <1>1, <2>2, <3>3
      <4> QED BY <1>2, <1>3, <1>4, <4>1
    <3>8. used \in Nat /\ used + Len(seg) <= e
      BY <2>3, <3>3, <3>4, <3>5, <3>6, <3>7
    <3>9. E # {} => u[j] = Min(E)
      BY <1>6, <2>2, <2>4, <2>6
    <3>10. Stands(seg, v, e)
      <4>1. f[a] = e - Len(seg)
        BY <3>3, <3>5, <3>6, <3>7
      <4> QED BY <3>5, <3>6, <4>1 DEF Stands
    <3> HIDE DEF seg, e, used
    <3>11. e \in Len(seg)..Len(v) /\ e \in used + Len(seg)..limit
      BY <3>6, <3>7, <3>8
    <3>12. EndsAt(seg, v, e)
      BY <3>6, <3>10, <3>11, EndsAtMembers
    <3>13. e \in Ends(seg, v, used, limit)
      BY <3>11, <3>12 DEF Ends
    <3>14. /\ Min(Ends(seg, v, used, limit)) \in Nat
           /\ Min(Ends(seg, v, used, limit)) <= e
      BY <3>6, <3>8, <3>13, EndsLeast
    <3>15. u[j] \in Nat /\ u[j] <= e
      BY <3>9, <3>13, <3>14 DEF used
    <3>16. e <= f[j] /\ f[j] \in Nat
      <4>1. j - 1 \in 0..Len(p) /\ j \in (j - 1)..Len(p) /\ j \in 0..Len(p)
        BY <3>1
      <4> QED BY <1>3, <1>4, <4>1 DEF e
    <3>17. ASSUME NEW s \in Stars(p), s <= j, \A i \in (s + 1)..j : p[i] # "*"
           PROVE  u[j] <= f[s]
      <4>1. s = j
        BY <1>1, <2>6, <3>1, <3>17
      <4> QED BY <3>7, <3>15, <3>16, <4>1
    <3> QED BY <3>15, <3>17
  <2>7. Behind(j)
    BY <2>5, <2>6
  <2> QED BY <2>7 DEF j
<1>9. Behind(first + n)
  <2>1. S = Nat
    BY <1>7, <1>8, Induction
  <2> QED BY <2>1
<1> QED BY <1>9 DEF first

LEMMA MatchWithStars ==
  ASSUME NEW T, NEW p \in Seq(T), Stars(p) # {}, NEW v \in Seq(T)
  PROVE  matchExcludedModel(p, v) <=> Matches(p, v)
<1> DEFINE first == Min(Stars(p))
           last == Max(Stars(p))
           limit == Len(v) - (Len(p) - last)
           prefix == SubSeq(p, 1, first - 1)
           suffix == SubSeq(p, last + 1, Len(p))
<1>1. /\ Len(p) \in Nat /\ Len(v) \in Nat /\ first \in 1..Len(p) /\ last \in first..Len(p)
      /\ first \in Stars(p) /\ last \in Stars(p)
      /\ Stars(p) \in SUBSET (1..Len(p)) /\ DOMAIN p = 1..Len(p)
      /\ \A s \in Stars(p) : first <= s /\ s <= last
  BY StarsBound
<1>2. Len(suffix) = Len(p) - last
  <2>1. \A i \in (last + 1)..Len(p) : p[i] \in T
    BY <1>1
  <2>2. Len(suffix) = IF last + 1 <= Len(p) THEN Len(p) - (last + 1) + 1 ELSE 0
    <3> HIDE DEF last
    <3> QED BY <1>1, <2>1, SubSeqProperties
  <2> HIDE DEF suffix
  <2> QED BY <1>1, <2>2
<1>3. matchExcludedModel(p, v) <=>
        /\ first - 1 <= Len(v) /\ EndsAt(prefix, v, first - 1)
        /\ first - 1 <= limit /\ EndsAt(suffix, v, Len(v))
        /\ LettersUsed(p, v, limit) # NotFound
  BY <1>2 DEF matchExcludedModel
<1>4. PICK u : LettersUsed(p, v, limit) = u[Len(p)] /\ Search(u, p, v, limit)
  BY SearchIs
<1>5. first - 1 <= Len(v) =>
        (EndsAt(prefix, v, first - 1) <=> \A m \in 1..(first - 1) : p[m] = v[m])
  <2> SUFFICES ASSUME first - 1 <= Len(v)
               PROVE  EndsAt(prefix, v, first - 1) <=> \A m \in 1..(first - 1) : p[m] = v[m]
    OBVIOUS
  <2> HIDE DEF first
  <2>1. 0 \in 0..Len(p) /\ first - 1 \in 0..Len(p) /\ first - 1 \in (first - 1 - 0)..Len(v)
    BY <1>1
  <2>2. EndsAt(SubSeq(p, 0 + 1, first - 1), v, first - 1) <=>
          SameLetters(p, v, 0, first - 1, first - 1)
    BY <2>1, PartEndsAt
  <2>3. 0 + 1 = 1 /\ first - 1 - 0 = first - 1
        /\ \A m \in 1..(first - 1) : 0 + m = m /\ first - 1 - (first - 1 - 0) + m = m
    BY <1>1
  <2> QED BY <2>2, <2>3 DEF SameLetters
<1>6. first - 1 <= limit =>
        (EndsAt(suffix, v, Len(v)) <=> \A m \in 1..(Len(p) - last) : p[last + m] = v[limit + m])
  <2> SUFFICES ASSUME first - 1 <= limit
               PROVE  EndsAt(suffix, v, Len(v)) <=>
                        \A m \in 1..(Len(p) - last) : p[last + m] = v[limit + m]
    OBVIOUS
  <2> HIDE DEF first, last
  <2>1. last \in 0..Len(p) /\ Len(p) \in last..Len(p) /\ Len(v) \in (Len(p) - last)..Len(v)
    BY <1>1
  <2>2. EndsAt(suffix, v, Len(v)) <=> SameLetters(p, v, last, Len(p), Len(v))
    BY <2>1, PartEndsAt
  <2> QED BY <2>2 DEF SameLetters
<1> HIDE DEF first, last
<1>7. ASSUME matchExcludedModel(p, v)
      PROVE  Matches(p, v)
  <2>1. limit \in Nat /\ first - 1 <= limit /\ u[Len(p)] # NotFound
    BY <1>1, <1>3, <1>4, <1>7
  <2>2. \A m \in 1..(first - 1) : p[m] = v[m]
    BY <1>3, <1>5, <1>7
  <2>3. \A m \in 1..(Len(p) - last) : p[last + m] = v[limit + m]
    BY <1>3, <1>6, <1>7
  <2> QED BY <1>4, <2>1, <2>2, <2>3, PathTakes DEF first, last
<1>8. ASSUME Matches(p, v)
      PROVE  matchExcludedModel(p, v)
  <2>1. PICK f : Taken(f, p, v)
    BY <1>8, Zenon DEF Matches, Taken
  <2>2. /\ f[0] = 0 /\ f[Len(p)] = Len(v)
    BY <2>1 DEF Taken
  <2>3. ASSUME NEW i \in 1..Len(p), i < first \/ last < i
        PROVE  p[i] # "*"
    <3>1. i \notin Stars(p)
      BY <1>1, <2>3
    <3> QED BY <1>1, <3>1 DEF Stars
  <2>4. f[first - 1] = first - 1 /\ \A m \in 1..(first - 1) : p[m] = v[m]
    <3>1. /\ 0 \in 0..Len(p) /\ first - 1 \in 0..Len(p)
          /\ \A i \in (0 + 1)..(first - 1) : p[i] # "*"
      BY <1>1, <2>3
    <3>2. /\ f[first - 1] = f[0] + (first - 1 - 0)
          /\ \A m \in 1..(first - 1 - 0) : p[0 + m] = v[f[0] + m]
      BY <2>1, <3>1, PlainRun
    <3>3. first - 1 - 0 = first - 1 /\ \A m \in 1..(first - 1) : 0 + m = m
      BY <1>1
    <3> QED BY <1>1, <2>2, <3>2, <3>3
  <2>5. /\ f[Len(p)] = f[last] + (Len(p) - last)
        /\ \A m \in 1..(Len(p) - last) : p[last + m] = v[f[last] + m]
    <3>1. /\ last \in 0..Len(p) /\ Len(p) \in last..Len(p)
          /\ \A i \in (last + 1)..Len(p) : p[i] # "*"
      BY <1>1, <2>3
    <3> QED BY <2>1, <3>1, PlainRun
  <2>6. f[last] \in Nat /\ f[first - 1] <= f[last]
    <3>1. first - 1 \in 0..Len(p) /\ last \in (first - 1)..Len(p) /\ last \in 0..Len(p)
      BY <1>1
    <3>2. f[last] \in 0..Len(v)
      BY <2>1, <3>1 DEF Taken
    <3>3. f[first - 1] <= f[last]
      BY <1>1, <2>1, <3>1, TakenGrows
    <3> QED BY <3>2, <3>3
  <2>7. limit = f[last] /\ limit \in Nat /\ first - 1 <= limit /\ first - 1 <= Len(v)
    BY <1>1, <2>2, <2>4, <2>5, <2>6
  <2>8. EndsAt(prefix, v, first - 1) /\ EndsAt(suffix, v, Len(v))
    BY <1>5, <1>6, <2>4, <2>5, <2>7
  <2>9. u[last] \in Nat
    <3>1. PICK n \in Nat : first + n = last
      <4>1. last - first \in Nat /\ first + (last - first) = last
        BY <1>1
      <4> QED BY <4>1
    <3>2. first + n <= last
      BY <1>1, <3>1
    <3> HIDE DEF limit
    <3>3. u[first + n] \in Nat
      BY <1>4, <2>1, <2>4, <2>7, <3>2, SearchBehind DEF first, last
    <3> QED BY <3>1, <3>3
  <2>10. u[Len(p)] = u[last]
    <3> DEFINE S == {n \in Nat : last + n <= Len(p) => u[last + n] = u[last]}
    <3>1. 0 \in S
      BY <1>1
    <3>2. ASSUME NEW n \in S
          PROVE  n + 1 \in S
      <4> SUFFICES ASSUME last + (n + 1) <= Len(p)
                   PROVE  u[last + (n + 1)] = u[last]
        OBVIOUS
      <4> DEFINE j == last + (n + 1)
      <4>1. /\ n \in Nat /\ j \in (first + 1)..Len(p) /\ j \in 1..Len(p) /\ last < j
            /\ j - 1 = last + n /\ u[last + n] = u[last]
        BY <1>1
      <4> HIDE DEF j
      <4>2. p[j] # "*"
        BY <2>3, <4>1
      <4>3. u[j] = u[j - 1]
        BY <1>4, <4>1, <4>2 DEF Search, first
      <4> QED BY <4>1, <4>3 DEF j
    <3>3. S = Nat
      BY <3>1, <3>2, Induction
    <3>4. \A n \in Nat : last + n <= Len(p) => u[last + n] = u[last]
      BY <3>3
    <3>5. PICK n \in Nat : last + n = Len(p)
      <4>1. Len(p) - last \in Nat /\ last + (Len(p) - last) = Len(p)
        BY <1>1
      <4> QED BY <4>1
    <3>6. last + n <= Len(p)
      BY <1>1, <3>5
    <3>7. u[last + n] = u[last]
      BY <3>4, <3>6
    <3> QED BY <3>5, <3>7
  <2>11. LettersUsed(p, v, limit) # NotFound
    BY <1>4, <2>9, <2>10 DEF NotFound
  <2> QED BY <1>3, <2>7, <2>8, <2>11
<1> QED BY <1>7, <1>8

\* The search finds a match if and only if there is one.
LEMMA MatchIsRight ==
  ASSUME NEW T, NEW p \in Seq(T), NEW v \in Seq(T)
  PROVE  matchExcludedModel(p, v) <=> p # <<>> /\ Matches(p, v)
<1>1. Len(p) \in Nat /\ Len(v) \in Nat /\ DOMAIN p = 1..Len(p)
  OBVIOUS
<1>2. CASE Stars(p) # {}
  <2>1. p # <<>>
    BY <1>2 DEF Stars
  <2>2. matchExcludedModel(p, v) <=> Matches(p, v)
    BY <1>2, MatchWithStars
  <2> QED BY <2>1, <2>2
<1>3. CASE Stars(p) = {}
  <2>1. \A i \in 1..Len(p) : p[i] # "*"
    BY <1>1, <1>3 DEF Stars
  <2>2. matchExcludedModel(p, v) <=> p # <<>> /\ p = v
    BY <1>3 DEF matchExcludedModel
  <2>3. ASSUME p = v
        PROVE  Matches(p, v)
    <3> DEFINE f == [k \in 0..Len(p) |-> k]
    <3>1. f \in [0..Len(p) -> 0..Len(v)] /\ f[0] = 0 /\ f[Len(p)] = Len(v)
      BY <1>1, <2>3
    <3>2. ASSUME NEW i \in DOMAIN p
          PROVE  f[i] = f[i - 1] + 1 /\ p[i] = v[f[i]] /\ p[i] # "*"
      <4>1. i \in 1..Len(p) /\ i \in 0..Len(p) /\ i - 1 \in 0..Len(p)
        BY <1>1
      <4>2. f[i] = i /\ f[i - 1] = i - 1
        BY <4>1
      <4> HIDE DEF f
      <4> QED BY <2>1, <2>3, <4>1, <4>2
    <3> HIDE DEF f
    <3> QED BY <3>1, <3>2 DEF Matches
  <2>4. ASSUME Matches(p, v)
        PROVE  p = v
    <3>1. PICK f : Taken(f, p, v)
      BY <2>4, Zenon DEF Matches, Taken
    <3>2. f[0] = 0 /\ f[Len(p)] = Len(v)
      BY <3>1 DEF Taken
    <3>3. /\ 0 \in 0..Len(p) /\ Len(p) \in 0..Len(p)
          /\ \A i \in (0 + 1)..Len(p) : p[i] # "*"
      BY <1>1, <2>1
    <3>4. /\ f[Len(p)] = f[0] + (Len(p) - 0)
          /\ \A m \in 1..(Len(p) - 0) : p[0 + m] = v[f[0] + m]
      BY <3>1, <3>3, PlainRun
    <3>5. Len(p) - 0 = Len(p) /\ 0 + Len(p) = Len(p) /\ \A m \in 1..Len(p) : 0 + m = m
      BY <1>1
    <3>6. Len(v) = Len(p)
      BY <1>1, <3>2, <3>4, <3>5
    <3>7. \A m \in 1..Len(p) : p[m] = v[m]
      BY <3>2, <3>4, <3>5
    <3> QED BY <3>6, <3>7, SeqEqual
  <2> QED BY <2>2, <2>3, <2>4
<1> QED BY <1>2, <1>3
=============================================================================
