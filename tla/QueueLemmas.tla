----------------------------- MODULE QueueLemmas -----------------------------
(***************************************************************************)
(* Facts about the first-in first-out queues of the library, as sequences  *)
(* over any set: what TAILQ_REMOVE, TAILQ_INSERT_TAIL and                  *)
(* TAILQ_INSERT_HEAD do to their elements.                                 *)
(***************************************************************************)
EXTENDS Integers, Sequences, FiniteSets, SequencesExt,
        FiniteSetTheorems, SequenceTheorems, NaturalsInduction, TLAPS

\* Every nonempty set of natural numbers has a least element.
LEMMA LeastOf ==
    ASSUME NEW T, T \subseteq Nat, T # {}
    PROVE  \E n \in T : \A m \in T : n <= m
<1> DEFINE R == {x \in Nat \X Nat : x[1] < x[2]}
<1>1. IsWellFoundedOn(R, Nat)
  BY NatLessThanWellFounded DEF OpToRel
<1>2. PICK x \in T : \A y \in T : ~(<<y, x>> \in R)
  <2> HIDE DEF R
  <2> QED  BY <1>1, WFMin
<1>3. ASSUME NEW y \in T, y < x PROVE FALSE
  <2>1. <<y, x>> \in Nat \X Nat /\ <<y, x>>[1] = y /\ <<y, x>>[2] = x
    OBVIOUS
  <2>2. <<y, x>> \in R
    BY <2>1, <1>3
  <2> QED  BY <2>2, <1>2
<1> QED  BY <1>3

Elems(s)    == {s[k] : k \in 1 .. Len(s)}
Distinct(s) == \A j, k \in 1 .. Len(s) : s[j] = s[k] => j = k

\* A queue in which no entry is repeated is not longer than there are entries.
LEMMA QueueLength ==
    ASSUME NEW S, IsFiniteSet(S), NEW s \in Seq(S), Distinct(s)
    PROVE  Len(s) <= Cardinality(S)
  <1>1. s \in Injection(1 .. Len(s), S)
    BY DEF Injection, IsInjective, Distinct
  <1>2. Cardinality(1 .. Len(s)) <= Cardinality(S)
    BY <1>1, FS_Injection
  <1>3. Cardinality(1 .. Len(s)) = Len(s)
    <2>1. 1 \in Int /\ Len(s) \in Int /\ Len(s) >= 0
      OBVIOUS
    <2>2. Cardinality(1 .. Len(s)) = IF 1 > Len(s) THEN 0 ELSE Len(s) - 1 + 1
      BY <2>1, FS_Interval, Zenon
    <2> QED  BY <2>1, <2>2
  <1> QED  BY <1>2, <1>3

\* t is s without its element at place n.
Without(t, s, n) == /\ Len(t) = Len(s) - 1
                    /\ \A j \in 1 .. Len(t) : t[j] = IF j < n THEN s[j] ELSE s[j + 1]

\* Taking the element at place n out of a queue (TAILQ_REMOVE).
LEMMA Taken ==
    ASSUME NEW S, NEW s \in Seq(S), Distinct(s), NEW n \in 1 .. Len(s),
           NEW t \in Seq(S), Without(t, s, n)
    PROVE  Distinct(t) /\ Elems(t) = Elems(s) \ {s[n]}
  <1> USE DEF Without
  <1>1. Distinct(t)
    <2> DEFINE at(i) == IF i < n THEN i ELSE i + 1
    <2>1. ASSUME NEW j \in 1 .. Len(t) PROVE at(j) \in 1 .. Len(s) /\ t[j] = s[at(j)]
      <3>1. CASE j < n
        <4>1. at(j) = j /\ j \in 1 .. Len(s)
          BY <3>1
        <4> QED  BY <3>1, <4>1
      <3>2. CASE ~(j < n)
        <4>1. at(j) = j + 1 /\ j + 1 \in 1 .. Len(s)
          BY <3>2
        <4> QED  BY <3>2, <4>1
      <3> QED  BY <3>1, <3>2
    <2>2. ASSUME NEW j \in 1 .. Len(t), NEW k \in 1 .. Len(t), at(j) = at(k) PROVE j = k
      BY <2>2
    <2> HIDE DEF at
    <2> QED  BY <2>1, <2>2 DEF Distinct
  <1>2. ASSUME NEW e \in Elems(t) PROVE e \in Elems(s) \ {s[n]}
    BY SMTT(30) DEF Distinct, Elems
  <1>3. ASSUME NEW e \in Elems(s), e # s[n] PROVE e \in Elems(t)
    <2>1. PICK j \in 1 .. Len(s) : e = s[j]
      BY DEF Elems
    <2>2. CASE j < n
      BY <2>1, <2>2 DEF Elems
    <2>3. CASE j > n
      <3>1. j - 1 \in 1 .. Len(t) /\ t[j - 1] = s[j]
        BY <2>3
      <3> QED  BY <2>1, <3>1 DEF Elems
    <2> QED  BY <1>3, <2>1, <2>2, <2>3
  <1> QED  BY <1>1, <1>2, <1>3

\* TAILQ_FIRST and TAILQ_REMOVE of it.
LEMMA HeadTaken ==
    ASSUME NEW S, NEW s \in Seq(S), Distinct(s), s # <<>>
    PROVE  /\ Head(s) \in Elems(s) /\ Head(s) \in S
           /\ Tail(s) \in Seq(S) /\ Len(Tail(s)) = Len(s) - 1
           /\ Distinct(Tail(s)) /\ Elems(Tail(s)) = Elems(s) \ {Head(s)}
  <1> DEFINE t == Tail(s)
  <1>1. /\ 1 \in 1 .. Len(s) /\ Head(s) = s[1] /\ s[1] \in S
        /\ t \in Seq(S) /\ Len(t) = Len(s) - 1
        /\ Without(t, s, 1)
    BY DEF Without
  <1> HIDE DEF t
  <1>2. Distinct(t) /\ Elems(t) = Elems(s) \ {s[1]}
    BY <1>1, Taken
  <1>3. s[1] \in Elems(s)
    BY <1>1 DEF Elems
  <1> QED  BY <1>1, <1>2, <1>3 DEF t

\* What RemoveAt leaves of a sequence.
LEMMA Removed ==
    ASSUME NEW S, NEW s \in Seq(S), NEW n \in 1 .. Len(s)
    PROVE  /\ RemoveAt(s, n) \in Seq(S) /\ Len(RemoveAt(s, n)) = Len(s) - 1
           /\ \A j \in 1 .. Len(RemoveAt(s, n)) :
                 RemoveAt(s, n)[j] = IF j < n THEN s[j] ELSE s[j + 1]
  <1> DEFINE a == SubSeq(s, 1, n - 1)
             b == SubSeq(s, n + 1, Len(s))
  <1>1. a \in Seq(S) /\ Len(a) = n - 1 /\ \A j \in 1 .. n - 1 : a[j] = s[j]
    OBVIOUS
  <1>2. /\ b \in Seq(S) /\ Len(b) = Len(s) - n
        /\ \A j \in 1 .. Len(b) : b[j] = s[n + j]
    OBVIOUS
  <1> HIDE DEF a, b
  <1>3. /\ a \o b \in Seq(S) /\ Len(a \o b) = Len(a) + Len(b)
        /\ \A j \in 1 .. Len(a) + Len(b) :
              (a \o b)[j] = IF j <= Len(a) THEN a[j] ELSE b[j - Len(a)]
    BY <1>1, <1>2, ConcatProperties, Zenon
  <1> DEFINE t == a \o b
  <1> HIDE DEF t
  <1>4. /\ t \in Seq(S) /\ Len(t) = Len(s) - 1
        /\ \A j \in 1 .. Len(t) : t[j] = IF j < n THEN s[j] ELSE s[j + 1]
    <2>1. Len(t) = Len(s) - 1
      BY <1>1, <1>2, <1>3 DEF t
    <2>2. ASSUME NEW j \in 1 .. Len(t), j < n PROVE t[j] = s[j]
      BY <1>1, <1>2, <1>3, <2>1, <2>2 DEF t
    <2>3. ASSUME NEW j \in 1 .. Len(t), ~(j < n) PROVE t[j] = s[j + 1]
      <3>1. t[j] = b[j - Len(a)]
        BY <1>1, <1>2, <1>3, <2>1, <2>3 DEF t
      <3>2. j - Len(a) \in 1 .. Len(b) /\ n + (j - Len(a)) = j + 1
        BY <1>1, <1>2, <2>1, <2>3
      <3> QED  BY <1>2, <3>1, <3>2
    <2>4. t \in Seq(S)
      BY <1>3 DEF t
    <2> QED  BY <2>1, <2>2, <2>3, <2>4
  <1>5. RemoveAt(s, n) = t
    BY DEF RemoveAt, a, b, t
  <1> QED  BY <1>4, <1>5

\* TAILQ_REMOVE of any element.
LEMMA AnyTaken ==
    ASSUME NEW S, NEW s \in Seq(S), Distinct(s), NEW n \in 1 .. Len(s)
    PROVE  /\ s[n] \in Elems(s) /\ s[n] \in S
           /\ RemoveAt(s, n) \in Seq(S) /\ Len(RemoveAt(s, n)) = Len(s) - 1
           /\ Distinct(RemoveAt(s, n)) /\ Elems(RemoveAt(s, n)) = Elems(s) \ {s[n]}
  <1> DEFINE t == RemoveAt(s, n)
  <1>1. /\ t \in Seq(S) /\ Len(t) = Len(s) - 1
        /\ \A j \in 1 .. Len(t) : t[j] = IF j < n THEN s[j] ELSE s[j + 1]
    BY Removed
  <1> HIDE DEF t
  <1>2. Distinct(t) /\ Elems(t) = Elems(s) \ {s[n]}
    <2>1. t \in Seq(S) /\ Without(t, s, n)
      BY <1>1 DEF Without
    <2> QED  BY <2>1, Taken
  <1>3. s[n] \in Elems(s) /\ s[n] \in S
    BY DEF Elems
  <1> QED  BY <1>1, <1>2, <1>3 DEF t

\* TAILQ_INSERT_TAIL and TAILQ_INSERT_HEAD of an element that is not there.
LEMMA Put ==
    ASSUME NEW S, NEW s \in Seq(S), Distinct(s), NEW e \in S, e \notin Elems(s),
           NEW t, t = Append(s, e) \/ t = <<e>> \o s
    PROVE  /\ t \in Seq(S) /\ Len(t) = Len(s) + 1
           /\ Distinct(t) /\ Elems(t) = Elems(s) \cup {e}
  <1>1. CASE t = Append(s, e)
    <2>1. t \in Seq(S) /\ Len(t) = Len(s) + 1
      BY <1>1
    <2>2. /\ \A j \in 1 .. Len(s) : t[j] = s[j]
          /\ t[Len(s) + 1] = e
      BY <1>1
    <2> QED  BY <2>1, <2>2, SMTT(30) DEF Elems, Distinct
  <1>2. CASE t = <<e>> \o s
    <2>1. t \in Seq(S) /\ Len(t) = Len(s) + 1
      BY <1>2
    <2>2. /\ t[1] = e
          /\ \A j \in 2 .. Len(s) + 1 : t[j] = s[j - 1]
      BY <1>2
    <2>3. Distinct(t)
      <3> SUFFICES ASSUME NEW j \in 1 .. Len(t), NEW k \in 1 .. Len(t), t[j] = t[k]
                   PROVE  j = k
        BY DEF Distinct
      <3>1. \A i \in 2 .. Len(s) + 1 : t[i] = s[i - 1] /\ t[i] # e
        BY <2>2 DEF Elems
      <3>2. CASE j = 1 \/ k = 1
        BY <2>1, <2>2, <3>1, <3>2
      <3>3. CASE j # 1 /\ k # 1
        <4>1. j - 1 \in 1 .. Len(s) /\ k - 1 \in 1 .. Len(s) /\ s[j - 1] = s[k - 1]
          BY <2>1, <3>1, <3>3
        <4> QED  BY <4>1, SMTT(30) DEF Distinct
      <3> QED  BY <3>2, <3>3
    <2>4. \A x \in Elems(t) : x \in Elems(s) \cup {e}
      BY <2>1, <2>2 DEF Elems
    <2>5. ASSUME NEW j \in 1 .. Len(s) PROVE s[j] \in Elems(t)
      <3>1. j + 1 \in 2 .. Len(s) + 1 /\ t[j + 1] = s[j]
        BY <2>2
      <3> QED  BY <2>1, <3>1 DEF Elems
    <2>6. e \in Elems(t)
      BY <2>1, <2>2 DEF Elems
    <2> QED  BY <2>1, <2>3, <2>4, <2>5, <2>6 DEF Elems
  <1> QED  BY <1>1, <1>2

\* The elements of a queue after its head was taken or an element appended,
\* whether or not it holds something twice.
LEMMA ElemsOf ==
    ASSUME NEW S, NEW s \in Seq(S)
    PROVE  /\ s # <<>> => Elems(s) = Elems(Tail(s)) \cup {Head(s)}
           /\ \A e \in S : Elems(Append(s, e)) = Elems(s) \cup {e}
  <1>1. ASSUME s # <<>> PROVE Elems(s) = Elems(Tail(s)) \cup {Head(s)}
    <2> DEFINE t == Tail(s)
    <2>1. /\ 1 \in 1 .. Len(s) /\ Head(s) = s[1] /\ t \in Seq(S) /\ Len(t) = Len(s) - 1
          /\ \A j \in 1 .. Len(t) : t[j] = s[j + 1]
      BY <1>1
    <2> HIDE DEF t
    <2>2. ASSUME NEW j \in 1 .. Len(s) PROVE s[j] \in Elems(t) \cup {s[1]}
      <3>1. CASE j # 1
        <4>1. j - 1 \in 1 .. Len(t) /\ t[j - 1] = s[j]
          BY <2>1, <3>1
        <4> QED  BY <4>1 DEF Elems
      <3> QED  BY <3>1
    <2>3. ASSUME NEW j \in 1 .. Len(t) PROVE t[j] \in Elems(s)
      <3>1. j + 1 \in 1 .. Len(s) /\ t[j] = s[j + 1]
        BY <2>1
      <3> QED  BY <3>1 DEF Elems
    <2>4. Elems(s) = Elems(t) \cup {s[1]}
      BY <2>1, <2>2, <2>3 DEF Elems
    <2> QED  BY <2>1, <2>4 DEF t
  <1>2. ASSUME NEW e \in S PROVE Elems(Append(s, e)) = Elems(s) \cup {e}
    <2> DEFINE t == Append(s, e)
    <2>1. /\ Len(t) = Len(s) + 1 /\ Len(s) \in Nat /\ t[Len(s) + 1] = e
          /\ \A j \in 1 .. Len(s) : t[j] = s[j]
      OBVIOUS
    <2> HIDE DEF t
    <2>2. Elems(t) = Elems(s) \cup {e}
      BY <2>1 DEF Elems
    <2> QED  BY <2>2 DEF t
  <1> QED  BY <1>1, <1>2

\* The initial queue holds every entry once.
LEMMA FullQueue ==
    ASSUME NEW S, IsFiniteSet(S)
    PROVE  /\ SetToSeq(S) \in Seq(S)
           /\ Len(SetToSeq(S)) = Cardinality(S)
           /\ Distinct(SetToSeq(S))
           /\ Elems(SetToSeq(S)) = S
  <1> DEFINE n == Cardinality(S)
             f == SetToSeq(S)
  <1>1. n \in Nat /\ ExistsBijection(1 .. n, S)
    BY FS_CardinalityType
  <1>2. \E g \in [1 .. n -> S] : IsInjective(g)
    BY <1>1 DEF ExistsBijection, Bijection, Injection
  <1>3. f \in [1 .. n -> S] /\ IsInjective(f)
    BY <1>2 DEF SetToSeq
  <1>4. f \in Surjection(1 .. n, S)
    <2>1. f \in Injection(1 .. n, S)
      BY <1>3 DEF Injection
    <2>2. Cardinality(1 .. n) = n
      BY <1>1, FS_Interval
    <2> QED  BY <2>1, <2>2, FS_Injection
  <1> HIDE DEF n, f
  <1>5. f \in Seq(S) /\ Len(f) = n
    BY <1>1, <1>3
  <1>6. Distinct(f)
    BY <1>3, <1>5 DEF Distinct, IsInjective
  <1>7. Elems(f) = S
    BY <1>3, <1>4, <1>5 DEF Elems, Surjection
  <1> QED  BY <1>5, <1>6, <1>7 DEF f, n
=============================================================================
