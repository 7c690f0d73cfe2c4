---------------------------- MODULE DataLemmas -----------------------------
(***************************************************************************)
(* What the operations on channels and slices do to what they hold: the    *)
(* facts about sequences that the proofs about the runtime share; and what *)
(* the bits of a number are, which the proofs about the libraries rest on. *)
(***************************************************************************)
EXTENDS Integers, Sequences, FiniteSets, Functions,
        SequenceTheorems, FiniteSetTheorems, WellFoundedInduction, TLAPS

-----------------------------------------------------------------------------
\* An empty queue holds nothing.
LEMMA EmptyElements ==
  ASSUME NEW S
  PROVE  << >> \in Seq(S) /\ Len(<< >>) = 0 /\ Range(<< >>) = {}
BY EmptySeq DEF Range

\* Append adds the element and nothing else.
LEMMA AppendElements ==
  ASSUME NEW S, NEW s \in Seq(S), NEW e \in S
  PROVE  /\ Append(s, e) \in Seq(S)
         /\ Len(Append(s, e)) = Len(s) + 1
         /\ Range(Append(s, e)) = Range(s) \cup {e}
         /\ IsInjective(s) /\ e \notin Range(s) => IsInjective(Append(s, e))
<1> DEFINE t == Append(s, e)
<1>1. /\ t \in Seq(S)
      /\ Len(t) = Len(s) + 1
      /\ \A i \in 1..Len(s) : t[i] = s[i]
      /\ t[Len(s) + 1] = e
  BY AppendProperties
<1>2. /\ Len(s) \in Nat
      /\ DOMAIN s = 1..Len(s)
      /\ DOMAIN t = 1..(Len(s) + 1)
  BY <1>1, LenProperties
<1> HIDE DEF t
<1>3. Range(t) = Range(s) \cup {e}
  <2>1. Range(t) \subseteq Range(s) \cup {e}
    <3> SUFFICES ASSUME NEW i \in 1..(Len(s) + 1)
                 PROVE  t[i] \in Range(s) \cup {e}
      BY <1>2 DEF Range
    <3>1. CASE i \in 1..Len(s)
      BY <3>1, <1>1, <1>2 DEF Range
    <3>2. CASE i = Len(s) + 1
      BY <3>2, <1>1
    <3> QED BY <3>1, <3>2, <1>2
  <2>2. Range(s) \subseteq Range(t)
    <3> SUFFICES ASSUME NEW i \in 1..Len(s)
                 PROVE  s[i] \in Range(t)
      BY <1>2 DEF Range
    <3>1. i \in 1..(Len(s) + 1) /\ t[i] = s[i]
      BY <1>1, <1>2
    <3> QED BY <3>1, <1>2 DEF Range
  <2>3. e \in Range(t)
    <3>1. Len(s) + 1 \in 1..(Len(s) + 1)
      BY <1>2
    <3> QED BY <3>1, <1>1, <1>2 DEF Range
  <2> QED BY <2>1, <2>2, <2>3
<1>4. IsInjective(s) /\ e \notin Range(s) => IsInjective(t)
  <2> SUFFICES ASSUME IsInjective(s), e \notin Range(s),
                      NEW i \in 1..(Len(s) + 1), NEW j \in 1..(Len(s) + 1),
                      t[i] = t[j]
               PROVE  i = j
    BY <1>2 DEF IsInjective
  <2>1. \A k \in 1..Len(s) : t[k] \in Range(s)
    BY <1>1, <1>2 DEF Range
  <2>2. CASE i \in 1..Len(s) /\ j \in 1..Len(s)
    BY <2>2, <1>1, <1>2 DEF IsInjective
  <2>3. CASE i = Len(s) + 1 \/ j = Len(s) + 1
    BY <2>1, <2>3, <1>1, <1>2
  <2> QED BY <2>2, <2>3, <1>2
<1> QED BY <1>1, <1>3, <1>4 DEF t

\* Sorting a queue, stable or not, keeps the events that are in it.
LEMMA PermutedElements ==
  ASSUME NEW S, NEW s \in Seq(S), NEW f \in Bijection(1..Len(s), 1..Len(s)),
         NEW r, r = [i \in 1..Len(s) |-> s[f[i]]]
  PROVE  /\ r \in Seq(S)
         /\ Range(r) = Range(s)
         /\ IsInjective(s) => IsInjective(r)
<1> DEFINE n == Len(s)
<1>1. n \in Nat /\ DOMAIN s = 1..n /\ \A i \in 1..n : s[i] \in S
  BY LenProperties, ElementOfSeq
<1>2. f \in Bijection(1..n, 1..n) /\ r = [i \in 1..n |-> s[f[i]]]
  OBVIOUS
<1> HIDE DEF n
<1>3. /\ f \in [1..n -> 1..n]
      /\ \A i, j \in 1..n : f[i] = f[j] => i = j
      /\ \A j \in 1..n : \E i \in 1..n : f[i] = j
  BY <1>2 DEF Bijection, Injection, Surjection, IsInjective
<1>4. r \in Seq(S) /\ DOMAIN r = 1..n
  BY <1>1, <1>2, <1>3
<1>5. Range(r) = Range(s)
  BY <1>1, <1>2, <1>3, <1>4 DEF Range
<1>6. IsInjective(s) => IsInjective(r)
  BY <1>1, <1>2, <1>3, <1>4 DEF IsInjective
<1> QED BY <1>4, <1>5, <1>6

\* Taking the head of a queue takes that element out, and it alone.
LEMMA TailElements ==
  ASSUME NEW S, NEW s \in Seq(S), s # << >>
  PROVE  /\ Head(s) \in S
         /\ Tail(s) \in Seq(S)
         /\ Len(Tail(s)) = Len(s) - 1
         /\ Range(s) = {Head(s)} \cup Range(Tail(s))
         /\ IsInjective(s) => IsInjective(Tail(s)) /\ Head(s) \notin Range(Tail(s))
<1> DEFINE t == Tail(s)
<1>1. /\ Head(s) \in S
      /\ t \in Seq(S)
      /\ Len(t) = Len(s) - 1
      /\ \A i \in 1..Len(t) : t[i] = s[i + 1]
  BY HeadTailProperties
<1>2. Head(s) = s[1]
  OBVIOUS
<1>3. /\ Len(s) \in Nat \ {0}
      /\ DOMAIN s = 1..Len(s)
      /\ DOMAIN t = 1..(Len(s) - 1)
  BY <1>1, LenProperties, EmptySeq
<1> HIDE DEF t
<1>4. Range(s) = {Head(s)} \cup Range(t)
  <2>1. Range(s) \subseteq {Head(s)} \cup Range(t)
    <3> SUFFICES ASSUME NEW i \in 1..Len(s)
                 PROVE  s[i] \in {Head(s)} \cup Range(t)
      BY <1>3 DEF Range
    <3>1. CASE i = 1
      BY <3>1, <1>2
    <3>2. CASE i # 1
      <4>1. i - 1 \in 1..(Len(s) - 1) /\ t[i - 1] = s[i]
        BY <3>2, <1>1, <1>3
      <4> QED BY <4>1, <1>3 DEF Range
    <3> QED BY <3>1, <3>2
  <2>2. Range(t) \subseteq Range(s)
    <3> SUFFICES ASSUME NEW i \in 1..(Len(s) - 1)
                 PROVE  t[i] \in Range(s)
      BY <1>3 DEF Range
    <3>1. i + 1 \in 1..Len(s) /\ t[i] = s[i + 1]
      BY <1>1, <1>3
    <3> QED BY <3>1, <1>3 DEF Range
  <2>3. Head(s) \in Range(s)
    BY <1>2, <1>3 DEF Range
  <2> QED BY <2>1, <2>2, <2>3
<1>5. ASSUME IsInjective(s)
      PROVE  IsInjective(t) /\ Head(s) \notin Range(t)
  <2>1. \A i, j \in 1..Len(s) : s[i] = s[j] => i = j
    BY <1>5, <1>3 DEF IsInjective
  <2>2. \A i \in 1..(Len(s) - 1) : i + 1 \in 1..Len(s) /\ t[i] = s[i + 1]
    BY <1>1, <1>3
  <2>3. IsInjective(t)
    <3> SUFFICES ASSUME NEW i \in 1..(Len(s) - 1), NEW j \in 1..(Len(s) - 1),
                        t[i] = t[j]
                 PROVE  i = j
      BY <1>3 DEF IsInjective
    <3>1. i + 1 = j + 1
      BY <2>1, <2>2
    <3> QED BY <3>1
  <2>4. Head(s) \notin Range(t)
    <3> SUFFICES ASSUME NEW i \in 1..(Len(s) - 1), t[i] = s[1]
                 PROVE  FALSE
      BY <1>2, <1>3 DEF Range
    <3>1. i + 1 = 1
      BY <2>1, <2>2, <1>3
    <3> QED BY <3>1, <1>3
  <2> QED BY <2>3, <2>4
<1> QED BY <1>1, <1>4, <1>5 DEF t

\* What a queue holds is finite, and as many as its length if each is in it
\* once.
LEMMA QueueCardinality ==
  ASSUME NEW S, NEW s \in Seq(S)
  PROVE  /\ IsFiniteSet(Range(s))
         /\ IsInjective(s) => Cardinality(Range(s)) = Len(s)
<1> DEFINE n == Len(s)
           R == Range(s)
<1>1. n \in Nat /\ DOMAIN s = 1..n /\ s \in [1..n -> R]
  BY LenProperties DEF Range
<1>2. IsFiniteSet(1..n) /\ Cardinality(1..n) = n
  <2> HIDE DEF n
  <2>1. /\ IsFiniteSet(1..n)
        /\ Cardinality(1..n) = IF 1 > n THEN 0 ELSE n - 1 + 1
    BY <1>1, FS_Interval
  <2> QED BY <1>1, <2>1
<1>3. IsFiniteSet(R)
  <2>1. s \in Surjection(1..n, R)
    BY <1>1 DEF Surjection, Range
  <2> HIDE DEF n, R
  <2> QED BY <1>2, <2>1, FS_Surjection
<1>4. ASSUME IsInjective(s) PROVE Cardinality(R) = n
  <2>1. s \in Bijection(1..n, R)
    BY <1>1, <1>4 DEF IsInjective, Bijection, Injection, Surjection, Range
  <2>2. ExistsBijection(1..n, R)
    BY <2>1 DEF ExistsBijection
  <2> HIDE DEF n, R
  <2> QED BY <1>2, <2>2, FS_Bijection
<1> QED BY <1>3, <1>4

-----------------------------------------------------------------------------
(* Two queues that make one line: the second feeds the first.              *)

\* What is added to the second queue is last in the line.
LEMMA LineAppend ==
  ASSUME NEW S, NEW s \in Seq(S), NEW t \in Seq(S), NEW e \in S
  PROVE  s \o Append(t, e) = Append(s \o t, e)
<1>1. <<e>> \in Seq(S) /\ s \o t \in Seq(S)
  BY ConcatProperties
<1>2. Append(t, e) = t \o <<e>> /\ Append(s \o t, e) = (s \o t) \o <<e>>
  BY <1>1, AppendIsConcat
<1> QED BY <1>1, <1>2, ConcatAssociative

\* A queue is its first element and the rest.
LEMMA HeadAndTail ==
  ASSUME NEW S, NEW s \in Seq(S), s # << >>
  PROVE  s = <<Head(s)>> \o Tail(s)
<1>1. Len(s) \in Nat \ {0}
  BY EmptySeq
<1>2. /\ Head(s) \in S /\ Head(s) = s[1]
      /\ Tail(s) \in Seq(S) /\ Len(Tail(s)) = Len(s) - 1
      /\ \A i \in 1..(Len(s) - 1) : Tail(s)[i] = s[i + 1]
  BY <1>1, HeadTailProperties
<1>3. <<Head(s)>> \in Seq(S) /\ Len(<<Head(s)>>) = 1 /\ <<Head(s)>>[1] = s[1]
  BY <1>2
<1> DEFINE t == <<Head(s)>> \o Tail(s)
<1>4. /\ t \in Seq(S) /\ Len(t) = 1 + (Len(s) - 1)
      /\ \A i \in 1..(1 + (Len(s) - 1)) :
           t[i] = IF i <= 1 THEN <<Head(s)>>[i] ELSE Tail(s)[i - 1]
  BY <1>2, <1>3, ConcatProperties
<1> HIDE DEF t
<1>5. \A i \in 1..Len(s) : s[i] = t[i]
  <2> SUFFICES ASSUME NEW i \in 1..Len(s) PROVE s[i] = t[i]
    OBVIOUS
  <2>1. CASE i = 1
    BY <1>1, <1>3, <1>4, <2>1
  <2>2. CASE i # 1
    <3>1. /\ i - 1 \in 1..(Len(s) - 1) /\ (i - 1) + 1 = i
          /\ ~(i <= 1) /\ i \in 1..(1 + (Len(s) - 1))
      BY <1>1, <2>2
    <3>2. t[i] = Tail(s)[i - 1] /\ Tail(s)[i - 1] = s[(i - 1) + 1]
      BY <1>2, <1>4, <3>1
    <3> QED BY <3>1, <3>2
  <2> QED BY <2>1, <2>2
<1>6. Len(s) = Len(t)
  BY <1>1, <1>4
<1> QED BY <1>4, <1>5, <1>6, SeqEqual DEF t

\* What the first queue takes from the second keeps its place in the line.
LEMMA LineMove ==
  ASSUME NEW S, NEW s \in Seq(S), NEW t \in Seq(S), t # << >>
  PROVE  Append(s, Head(t)) \o Tail(t) = s \o t
<1>1. Head(t) \in S /\ Tail(t) \in Seq(S) /\ t = <<Head(t)>> \o Tail(t)
  BY HeadTailProperties, HeadAndTail
<1>2. PICK h \in S, u \in Seq(S) : h = Head(t) /\ u = Tail(t)
  BY <1>1
<1>3. <<h>> \in Seq(S) /\ Append(s, h) = s \o <<h>>
  BY AppendIsConcat
<1>4. (s \o <<h>>) \o u = s \o (<<h>> \o u)
  BY <1>3, ConcatAssociative
<1> QED BY <1>1, <1>2, <1>3, <1>4

\* What leaves the first queue leaves the line.
LEMMA LineTail ==
  ASSUME NEW S, NEW s \in Seq(S), NEW t \in Seq(S), s # << >>
  PROVE  /\ s \o t \in Seq(S) /\ s \o t # << >>
         /\ Tail(s) \o t = Tail(s \o t)
         /\ Head(s) = Head(s \o t)
<1>1. Head(s) \in S /\ Tail(s) \in Seq(S) /\ s = <<Head(s)>> \o Tail(s)
  BY HeadTailProperties, HeadAndTail
<1>2. PICK h \in S, u \in Seq(S) : h = Head(s) /\ u = Tail(s)
  BY <1>1
<1>3. s \o t \in Seq(S) /\ s \o t # << >>
  BY ConcatProperties, ConcatEqualIffEmpty
<1>4. <<h>> \in Seq(S) /\ u \o t \in Seq(S)
  BY ConcatProperties
<1>5. s \o t = <<h>> \o (u \o t)
  BY <1>1, <1>2, <1>4, ConcatAssociative
<1>6. PICK w \in Seq(S) : w = u \o t
  BY <1>4
<1>7. Head(<<h>> \o w) = h /\ Tail(<<h>> \o w) = w
  <2>1. /\ <<h>> \o w \in Seq(S) /\ Len(<<h>> \o w) = 1 + Len(w) /\ Len(w) \in Nat
        /\ \A i \in 1..(1 + Len(w)) :
             (<<h>> \o w)[i] = IF i <= 1 THEN <<h>>[i] ELSE w[i - 1]
    BY <1>4, ConcatProperties, LenProperties
  <2> DEFINE x == <<h>> \o w
  <2> HIDE DEF x
  <2>2. x \in Seq(S) /\ Len(x) = 1 + Len(w) /\ x[1] = h
    BY <2>1 DEF x
  <2>3. x # << >> /\ Head(x) = h
    BY <2>1, <2>2
  <2>4. /\ Tail(x) \in Seq(S) /\ Len(Tail(x)) = Len(w)
        /\ \A i \in 1..Len(w) : Tail(x)[i] = x[i + 1]
    BY <2>1, <2>2, <2>3, HeadTailProperties
  <2>5. \A i \in 1..Len(w) : x[i + 1] = w[i]
    <3> SUFFICES ASSUME NEW i \in 1..Len(w) PROVE x[i + 1] = w[i]
      OBVIOUS
    <3>1. i + 1 \in 1..(1 + Len(w)) /\ ~(i + 1 <= 1) /\ (i + 1) - 1 = i
      BY <2>1
    <3> QED BY <2>1, <3>1 DEF x
  <2>6. Tail(x) = w
    BY <2>4, <2>5, SeqEqual
  <2> QED BY <2>3, <2>6 DEF x
<1> QED BY <1>2, <1>3, <1>5, <1>6, <1>7

-----------------------------------------------------------------------------
(* Queues of numbers that are in order.                                    *)

Increasing(s) == \A i, j \in 1..Len(s) : i < j => s[i] < s[j]

\* Two queues, one after the other.
LEMMA ConcatIncreasing ==
  ASSUME NEW s \in Seq(Int), NEW t \in Seq(Int),
         Increasing(s), Increasing(t),
         \A x \in Range(s) : \A y \in Range(t) : x < y
  PROVE  Increasing(s \o t)
<1> DEFINE m == Len(s)
           n == Len(t)
           u == s \o t
<1>1. /\ m \in Nat /\ n \in Nat
      /\ DOMAIN s = 1..m /\ DOMAIN t = 1..n
      /\ Len(u) = m + n
      /\ \A i \in 1..(m + n) : u[i] = IF i <= m THEN s[i] ELSE t[i - m]
  BY ConcatProperties, LenProperties
<1>2. \A i \in 1..m : s[i] \in Range(s)
  BY <1>1 DEF Range
<1>3. \A i \in 1..n : t[i] \in Range(t)
  BY <1>1 DEF Range
<1> SUFFICES ASSUME NEW i \in 1..Len(u), NEW j \in 1..Len(u), i < j
             PROVE  u[i] < u[j]
  BY DEF Increasing
<1> HIDE DEF m, n, u
<1>4. CASE j <= m
  <2>1. i \in 1..m /\ j \in 1..m /\ u[i] = s[i] /\ u[j] = s[j]
    BY <1>1, <1>4
  <2> QED BY <2>1 DEF Increasing, m
<1>5. CASE i <= m /\ ~(j <= m)
  <2>1. i \in 1..m /\ j - m \in 1..n /\ u[i] = s[i] /\ u[j] = t[j - m]
    BY <1>1, <1>5
  <2> QED BY <1>2, <1>3, <2>1
<1>6. CASE ~(i <= m)
  <2>1. /\ i - m \in 1..n /\ j - m \in 1..n /\ i - m < j - m
        /\ u[i] = t[i - m] /\ u[j] = t[j - m]
    BY <1>1, <1>6
  <2> QED BY <2>1 DEF Increasing, n
<1> QED BY <1>1, <1>4, <1>5, <1>6

\* A queue that grows by a greater number, and one that loses its head.
LEMMA AppendIncreasing ==
  ASSUME NEW s \in Seq(Int), NEW e \in Int, Increasing(s), \A x \in Range(s) : x < e
  PROVE  Increasing(Append(s, e))
<1>1. <<e>> \in Seq(Int) /\ Range(<<e>>) = {e} /\ Increasing(<<e>>)
  BY DEF Range, Increasing
<1>2. Append(s, e) = s \o <<e>>
  BY AppendIsConcat
<1> QED BY <1>1, <1>2, ConcatIncreasing

LEMMA TailIncreasing ==
  ASSUME NEW s \in Seq(Int), s # << >>, Increasing(s)
  PROVE  Increasing(Tail(s)) /\ \A x \in Range(Tail(s)) : Head(s) < x
<1> DEFINE n == Len(s)
           t == Tail(s)
<1>1. /\ n \in Nat \ {0}
      /\ t \in Seq(Int) /\ Len(t) = n - 1
      /\ \A i \in 1..(n - 1) : t[i] = s[i + 1]
  BY HeadTailProperties, LenProperties, EmptySeq
<1>2. DOMAIN t = 1..(n - 1) /\ Head(s) = s[1]
  BY <1>1, LenProperties
<1>3. \A i \in 1..(n - 1) : i + 1 \in 1..n /\ 1 \in 1..n /\ 1 < i + 1
  BY <1>1
<1> HIDE DEF n, t
<1>4. Increasing(t)
  <2> SUFFICES ASSUME NEW i \in 1..(n - 1), NEW j \in 1..(n - 1), i < j
               PROVE  t[i] < t[j]
    BY <1>1 DEF Increasing
  <2>1. i + 1 < j + 1
    BY <1>1
  <2> QED BY <1>1, <1>3, <2>1 DEF Increasing, n
<1>5. \A x \in Range(t) : Head(s) < x
  BY <1>1, <1>2, <1>3 DEF Increasing, Range, n
<1> QED BY <1>4, <1>5 DEF t
-----------------------------------------------------------------------------
(* Numbers: induction, powers of two, quotients.                           *)

LEMMA LeastNat == ASSUME NEW T \in SUBSET Nat, T # {} PROVE \E x \in T : \A y \in T : x <= y
<1> DEFINE R == {ss \in Nat \X Nat : ss[1] < ss[2]}
<1>1. IsWellFoundedOn(R, Nat)
  BY NatLessThanWellFounded DEF OpToRel
<1> HIDE DEF R
<1>2. \E x \in T : \A y \in T : ~ (<<y, x>> \in R)
  BY <1>1, WFMin
<1>3. \A x, y \in T : ~ (<<y, x>> \in R) => x <= y
  BY DEF R
<1> QED
  BY <1>2, <1>3

LEMMA SetInduction == ASSUME NEW S, 0 \in S, \A n \in Nat : n \in S => n + 1 \in S PROVE Nat \subseteq S
<1> SUFFICES ASSUME Nat \ S # {} PROVE FALSE
  OBVIOUS
<1>1. PICK x \in Nat \ S : \A y \in Nat \ S : x <= y
  BY LeastNat
<1>2. x # 0 /\ x - 1 \in Nat
  BY <1>1
<1>3. x - 1 \in S
  BY <1>1, <1>2
<1>4. (x - 1) + 1 \in S
  BY <1>2, <1>3
<1> QED
  BY <1>1, <1>4

LEMMA SingletonPowers ==
  ASSUME NEW S, IsFiniteSet(S), NEW x, x \notin S
  PROVE Cardinality(SUBSET (S \cup {x})) = 2 * Cardinality(SUBSET S)
<1> DEFINE T == {A \cup {x} : A \in SUBSET S}
           f == [A \in SUBSET S |-> A \cup {x}]
<1>1. IsFiniteSet(SUBSET S) /\ Cardinality(SUBSET S) \in Nat
  BY FS_SUBSET, FS_CardinalityType
<1>2. f \in Bijection(SUBSET S, T)
  <2>1. f \in [SUBSET S -> T]
    OBVIOUS
  <2>2. \A A, B \in SUBSET S : f[A] = f[B] => A = B
    OBVIOUS
  <2>3. \A B \in T : \E A \in SUBSET S : f[A] = B
    OBVIOUS
  <2> QED
    BY <2>1, <2>2, <2>3 DEF Bijection, Injection, Surjection, IsInjective
<1>3. ExistsBijection(SUBSET S, T)
  BY <1>2 DEF ExistsBijection
<1>4. IsFiniteSet(T) /\ Cardinality(T) = Cardinality(SUBSET S)
  BY <1>1, <1>3, FS_Bijection
<1>5. SUBSET (S \cup {x}) = (SUBSET S) \cup T
  <2>1. ASSUME NEW A \in SUBSET (S \cup {x}), x \in A PROVE A \in T
    <3>1. A \ {x} \in SUBSET S /\ A = (A \ {x}) \cup {x}
      BY <2>1
    <3> QED
      BY <3>1
  <2> QED
    BY <2>1
<1>6. (SUBSET S) \cap T = {}
  OBVIOUS
<1>7. Cardinality((SUBSET S) \cap T) = 0
  BY <1>6, FS_EmptySet
<1> HIDE DEF T
<1>8. Cardinality((SUBSET S) \cup T) = Cardinality(SUBSET S) + Cardinality(T) - Cardinality((SUBSET S) \cap T)
  BY <1>1, <1>4, FS_Union
<1>9. Cardinality((SUBSET S) \cup T) = Cardinality(SUBSET S) + Cardinality(SUBSET S) - 0
  BY <1>4, <1>7, <1>8
<1>10. Cardinality((SUBSET S) \cup T) = 2 * Cardinality(SUBSET S)
  BY <1>1, <1>9
<1> QED
  BY <1>5, <1>10

LEMMA PowerStep == ASSUME NEW n \in Nat PROVE 2^(n + 1) = 2 * 2^n
<1>1. IsFiniteSet(1..n) /\ Cardinality(1..n) = n
  BY FS_Interval
<1>2. IsFiniteSet(1..(n + 1)) /\ Cardinality(1..(n + 1)) = n + 1
  BY FS_Interval
<1>3. 1..(n + 1) = (1..n) \cup {n + 1} /\ n + 1 \notin 1..n
  OBVIOUS
<1>4. Cardinality(SUBSET (1..(n + 1))) = 2 * Cardinality(SUBSET (1..n))
  BY <1>1, <1>3, SingletonPowers
<1>5. Cardinality(SUBSET (1..n)) = 2^n
  BY <1>1, FS_SUBSET
<1>6. Cardinality(SUBSET (1..(n + 1))) = 2^(n + 1)
  BY <1>2, FS_SUBSET
<1> QED
  BY <1>4, <1>5, <1>6

LEMMA PowerNat == ASSUME NEW n \in Nat PROVE 2^n \in Nat
<1>1. IsFiniteSet(1..n) /\ Cardinality(1..n) = n
  BY FS_Interval
<1> QED
  BY <1>1, FS_SUBSET, FS_CardinalityType

LEMMA DivMod ==
  ASSUME NEW x \in Int, NEW d \in Nat \ {0}
  PROVE /\ x \div d \in Int /\ x % d \in 0..(d - 1)
        /\ x = d * (x \div d) + (x % d)
OBVIOUS

LEMMA DivUnique ==
  ASSUME NEW q \in Int, NEW d \in Nat \ {0}, NEW r \in 0..(d - 1)
  PROVE (d * q + r) \div d = q /\ (d * q + r) % d = r
OBVIOUS

LEMMA DivIs ==
  ASSUME NEW x \in Int, NEW d \in Nat \ {0}, NEW q \in Int, NEW r \in 0..(d - 1), x = d * q + r
  PROVE x \div d = q /\ x % d = r
BY DivUnique

LEMMA DivDiv ==
  ASSUME NEW x \in Int, NEW a \in Nat \ {0}, NEW b \in Nat \ {0}
  PROVE (x \div a) \div b = x \div (a * b)
<1> DEFINE q == x \div a
           r == x % a
           s == q \div b
           t == q % b
<1>1. q \in Int /\ r \in 0..(a - 1) /\ x = a * q + r
  BY DivMod
<1>2. s \in Int /\ t \in 0..(b - 1) /\ q = b * s + t
  BY <1>1, DivMod
<1> HIDE DEF q, r, s, t
<1>3. x = (a * b) * s + (a * t + r)
  BY <1>1, <1>2
<1>4. a * t + r \in 0..(a * b - 1)
  <2>1. a * t <= a * (b - 1) /\ 0 <= a * t /\ a * t \in Int
    BY <1>2
  <2>2. a * (b - 1) = a * b - a /\ a * b \in Int
    OBVIOUS
  <2> QED
    BY <2>1, <2>2, <1>1
<1>5. a * b \in Nat \ {0}
  OBVIOUS
<1>6. x \div (a * b) = s
  BY <1>2, <1>3, <1>4, <1>5, DivIs
<1> QED
  BY <1>6 DEF q, s

LEMMA PowerPlus ==
  ASSUME NEW m \in Nat, NEW n \in Nat PROVE 2^(m + n) = 2^m * 2^n
<1> DEFINE S == {k \in Nat : 2^(m + k) = 2^m * 2^k}
<1>1. 0 \in S
  <2>1. 2^0 = 1 /\ m + 0 = m /\ 2^m \in Nat
    BY PowerNat
  <2> QED
    BY <2>1
<1>2. ASSUME NEW k \in Nat, k \in S PROVE k + 1 \in S
  <2>1. 2^((m + k) + 1) = 2 * 2^(m + k) /\ 2^(k + 1) = 2 * 2^k /\ (m + k) + 1 = m + (k + 1)
    BY PowerStep
  <2>2. 2^m \in Nat /\ 2^k \in Nat /\ 2^(m + k) = 2^m * 2^k
    BY <1>2, PowerNat
  <2>3. 2^(m + (k + 1)) = 2^m * 2^(k + 1)
    BY <2>1, <2>2
  <2> QED
    BY <2>3
<1>3. Nat \subseteq S
  BY <1>1, <1>2, SetInduction
<1> QED
  BY <1>3

LEMMA PowerPositive == ASSUME NEW n \in Nat PROVE 2^n \in Nat \ {0} /\ n < 2^n
<1> DEFINE S == {k \in Nat : k < 2^k}
<1>1. 0 \in S
  BY 2^0 = 1
<1>2. ASSUME NEW k \in Nat, k \in S PROVE k + 1 \in S
  BY <1>2, PowerStep, PowerNat
<1>3. Nat \subseteq S
  BY <1>1, <1>2, SetInduction
<1> QED
  BY <1>3, PowerNat

\* The i-th bit of a number.
Bit(x, i) == (x \div 2^i) % 2

LEMMA Halves ==
  ASSUME NEW y \in Int
  PROVE y \div 2 \in Int /\ y % 2 \in {0, 1} /\ y = 2 * (y \div 2) + (y % 2)
OBVIOUS

LEMMA BitIs ==
  ASSUME NEW x \in Int, NEW i \in Nat
  PROVE /\ x \div 2^i \in Int
        /\ Bit(x, i) \in {0, 1}
        /\ Bit(x, i) = 0 <=> \E q \in Int : x \div 2^i = 2 * q
<1>1. x \div 2^i \in Int
  BY PowerPositive, DivMod
<1> DEFINE y == x \div 2^i
<1> HIDE DEF y
<1>2. y % 2 \in {0, 1} /\ y = 2 * (y \div 2) + (y % 2) /\ y \div 2 \in Int
  BY <1>1, Halves DEF y
<1>3. \A q \in Int : y = 2 * q => y % 2 = 0
  OBVIOUS
<1>4. y % 2 \in {0, 1}
  BY <1>2
<1>5. y % 2 = 0 <=> \E q \in Int : y = 2 * q
  BY <1>2, <1>3
<1> QED
  BY <1>1, <1>4, <1>5 DEF Bit, y

LEMMA BitRight ==
  ASSUME NEW x \in Int, NEW n \in Nat, NEW i \in Nat
  PROVE Bit(x \div 2^n, i) = Bit(x, n + i)
<1>1. (x \div 2^n) \div 2^i = x \div (2^n * 2^i)
  BY PowerPositive, DivDiv
<1> QED
  BY <1>1, PowerPlus DEF Bit

LEMMA MulDiv ==
  ASSUME NEW x \in Int, NEW d \in Nat \ {0}
  PROVE (x * d) \div d = x
<1>1. x * d = d * x + 0 /\ 0 \in 0..(d - 1) /\ x * d \in Int
  OBVIOUS
<1> QED
  BY <1>1, DivIs

LEMMA BitLeft ==
  ASSUME NEW x \in Int, NEW n \in Nat, NEW i \in Nat
  PROVE Bit(x * 2^n, i) = IF i >= n THEN Bit(x, i - n) ELSE 0
<1>1. 2^n \in Nat \ {0} /\ x * 2^n \in Int
  BY PowerPositive
<1>2. CASE i >= n
  <2>1. i - n \in Nat /\ n + (i - n) = i
    BY <1>2
  <2>2. Bit((x * 2^n) \div 2^n, i - n) = Bit(x * 2^n, i)
    BY <2>1, <1>1, BitRight
  <2>3. (x * 2^n) \div 2^n = x
    BY <1>1, MulDiv
  <2> QED
    BY <2>2, <2>3, <1>2
<1>3. CASE i < n
  <2>1. n - (i + 1) \in Nat /\ i + 1 \in Nat /\ n = i + ((n - (i + 1)) + 1)
    BY <1>3
  <2> DEFINE m == n - (i + 1)
  <2>2. 2^n = 2^i * 2^(m + 1) /\ 2^(m + 1) = 2 * 2^m
    BY <2>1, PowerPlus, PowerStep
  <2>3. 2^m \in Nat /\ 2^i \in Nat \ {0}
    BY <2>1, PowerPositive
  <2> HIDE DEF m
  <2>4. \A a, b \in Int : x * (a * (2 * b)) = (2 * (x * b)) * a
    OBVIOUS
  <2>5. x * 2^n = (2 * (x * 2^m)) * 2^i /\ 2 * (x * 2^m) \in Int /\ x * 2^m \in Int
    <3>1. x * 2^n = x * (2^i * (2 * 2^m))
      BY <2>2
    <3>2. x * (2^i * (2 * 2^m)) = (2 * (x * 2^m)) * 2^i
      BY <2>3, <2>4
    <3>3. x * 2^m \in Int
      BY <2>3
    <3>4. 2 * (x * 2^m) \in Int
      BY <3>3
    <3> QED
      BY <3>1, <3>2, <3>3, <3>4
  <2>6. (x * 2^n) \div 2^i = 2 * (x * 2^m)
    BY <2>3, <2>5, MulDiv
  <2>7. Bit(x * 2^n, i) = 0
    BY <2>5, <2>6, <1>1, BitIs
  <2> QED
    BY <2>7, <1>3
<1> QED
  BY <1>2, <1>3

LEMMA DivShift ==
  ASSUME NEW x \in Int, NEW b \in Int, NEW d \in Nat \ {0}
  PROVE (x + d * b) \div d = (x \div d) + b /\ (x + d * b) % d = x % d
<1> DEFINE q == x \div d
           r == x % d
<1>1. q \in Int /\ r \in 0..(d - 1) /\ x = d * q + r
  BY DivMod
<1> HIDE DEF q, r
<1>2. x + d * b = d * (q + b) + r /\ q + b \in Int
  BY <1>1
<1>3. (d * (q + b) + r) \div d = q + b /\ (d * (q + b) + r) % d = r
  BY <1>1, <1>2, DivUnique
<1> QED
  BY <1>2, <1>3 DEF q, r

\* Whole multiples of 2^n do not show in the bits below.
LEMMA BitPeriod ==
  ASSUME NEW x \in Int, NEW k \in Int, NEW n \in Nat, NEW i \in Nat, i < n
  PROVE Bit(x + k * 2^n, i) = Bit(x, i)
<1> DEFINE m == n - (i + 1)
           d == 2^i
           q == x \div d
           h == k * 2^m
<1>1. m \in Nat /\ n = i + (m + 1) /\ m + 1 \in Nat
  OBVIOUS
<1> HIDE DEF m, q
<1>2. 2^n = d * (2 * 2^m) /\ 2^m \in Nat /\ d \in Nat \ {0}
  <2>1. 2^(i + (m + 1)) = 2^i * 2^(m + 1)
    BY <1>1, PowerPlus
  <2>2. 2^(m + 1) = 2 * 2^m
    BY <1>1, PowerStep
  <2>3. 2^m \in Nat /\ d \in Nat \ {0}
    BY <1>1, PowerPositive
  <2> QED
    BY <1>1, <2>1, <2>2, <2>3
<1> HIDE DEF d
<1>3. \A a, b \in Int : k * (a * (2 * b)) = a * (2 * (k * b)) /\ k * b \in Int
  OBVIOUS
<1>4. h \in Int /\ k * 2^n = d * (2 * h)
  BY <1>2, <1>3
<1> HIDE DEF h
<1>5. q \in Int
  BY <1>2, DivMod DEF q
<1>6. 2 * h \in Int
  BY <1>4
<1>7. (x + d * (2 * h)) \div d = q + 2 * h
  BY <1>2, <1>6, DivShift DEF q
<1>8. (q + 2 * h) % 2 = q % 2
  BY <1>4, <1>5
<1> QED
  BY <1>4, <1>7, <1>8 DEF Bit, q, d

LEMMA BitZero == ASSUME NEW x \in Int PROVE Bit(x, 0) = x % 2
<1>1. 2^0 = 1
  OBVIOUS
<1>2. x = 1 * x + 0
  OBVIOUS
<1>3. x \div 1 = x
  BY <1>2, DivIs
<1> QED
  BY <1>1, <1>3 DEF Bit

LEMMA BitHalf == ASSUME NEW x \in Int, NEW i \in Nat PROVE Bit(x \div 2, i) = Bit(x, i + 1)
<1>1. 2^0 = 1 /\ 2^(0 + 1) = 2 * 2^0
  BY PowerStep
<1>2. 2^1 = 2
  BY <1>1
<1>3. Bit(x \div 2^1, i) = Bit(x, 1 + i)
  BY BitRight
<1> QED
  BY <1>2, <1>3

LEMMA HalfOf ==
  ASSUME NEW n \in Nat, NEW x \in 0..(2^(n + 1) - 1)
  PROVE /\ x \div 2 \in 0..(2^n - 1)
        /\ x = 2 * (x \div 2) + Bit(x, 0)
        /\ Bit(x, 0) \in {0, 1}
        /\ \A i \in Nat : Bit(x \div 2, i) = Bit(x, i + 1)
<1>1. 2^(n + 1) = 2 * 2^n /\ 2^n \in Nat
  BY PowerStep, PowerNat
<1>2. x \in Int
  BY <1>1
<1>3. x \div 2 \in Int /\ x % 2 \in {0, 1} /\ x = 2 * (x \div 2) + (x % 2)
  BY <1>2, Halves
<1>4. x \div 2 \in 0..(2^n - 1)
  BY <1>1, <1>3
<1> QED
  BY <1>2, <1>3, <1>4, BitZero, BitHalf

LEMMA TwiceAnd ==
  ASSUME NEW n \in Nat, NEW x \in 0..(2^n - 1), NEW b \in {0, 1}
  PROVE /\ 2 * x + b \in 0..(2^(n + 1) - 1)
        /\ Bit(2 * x + b, 0) = b
        /\ \A i \in Nat : Bit(2 * x + b, i + 1) = Bit(x, i)
<1>1. 2^(n + 1) = 2 * 2^n /\ 2^n \in Nat
  BY PowerStep, PowerNat
<1>2. x \in Int /\ 2 * x + b \in Int
  BY <1>1
<1>3. (2 * x + b) \div 2 = x /\ (2 * x + b) % 2 = b
  BY <1>2
<1>4. 2 * x + b \in 0..(2^(n + 1) - 1)
  BY <1>1, <1>2
<1> QED
  BY <1>2, <1>3, <1>4, BitZero, BitHalf

\* Numbers of n bits are told apart by them.
LEMMA BitsTell ==
  ASSUME NEW n \in Nat, NEW x \in 0..(2^n - 1), NEW y \in 0..(2^n - 1),
         \A i \in 0..(n - 1) : Bit(x, i) = Bit(y, i)
  PROVE x = y
<1> DEFINE Same(u, v, m) == \A i \in 0..(m - 1) : Bit(u, i) = Bit(v, i)
           S == {m \in Nat : \A u, v \in 0..(2^m - 1) : Same(u, v, m) => u = v}
<1>1. 0 \in S
  BY 2^0 = 1
<1>2. ASSUME NEW m \in Nat, m \in S PROVE m + 1 \in S
  <2> SUFFICES ASSUME NEW u \in 0..(2^(m + 1) - 1), NEW v \in 0..(2^(m + 1) - 1), Same(u, v, m + 1)
               PROVE u = v
    OBVIOUS
  <2>1. \A i \in 0..m : Bit(u, i) = Bit(v, i)
    OBVIOUS
  <2>2. \A i \in 0..(m - 1) : Bit(u \div 2, i) = Bit(v \div 2, i)
    <3> TAKE i \in 0..(m - 1)
    <3>1. i \in Nat /\ i + 1 \in 0..m
      OBVIOUS
    <3>2. Bit(u \div 2, i) = Bit(u, i + 1) /\ Bit(v \div 2, i) = Bit(v, i + 1)
      BY <3>1, HalfOf
    <3> QED
      BY <2>1, <3>1, <3>2
  <2>3. u \div 2 \in 0..(2^m - 1) /\ v \div 2 \in 0..(2^m - 1)
    BY HalfOf
  <2>4. u \div 2 = v \div 2
    BY <1>2, <2>2, <2>3
  <2>5. Bit(u, 0) = Bit(v, 0)
    BY <2>1
  <2>6. u = 2 * (u \div 2) + Bit(u, 0) /\ v = 2 * (v \div 2) + Bit(v, 0)
    BY HalfOf
  <2> QED
    BY <2>4, <2>5, <2>6
<1>3. Nat \subseteq S
  BY <1>1, <1>2, SetInduction
<1> QED
  BY <1>3

\* Any set of positions below n is that of the ones of a number of n bits.
LEMMA BitsExist ==
  ASSUME NEW n \in Nat, NEW T \in SUBSET (0..(n - 1))
  PROVE \E x \in 0..(2^n - 1) : \A i \in 0..(n - 1) : Bit(x, i) = 1 <=> i \in T
<1> DEFINE Ones(x, m, U) == \A i \in 0..(m - 1) : Bit(x, i) = 1 <=> i \in U
           S == {m \in Nat : \A U \in SUBSET (0..(m - 1)) : \E x \in 0..(2^m - 1) : Ones(x, m, U)}
<1>1. 0 \in S
  <2>1. 0 \in 0..(2^0 - 1)
    BY 2^0 = 1
  <2>2. \A U : Ones(0, 0, U)
    OBVIOUS
  <2> QED
    BY <2>1, <2>2
<1>2. ASSUME NEW m \in Nat, m \in S PROVE m + 1 \in S
  <2> SUFFICES ASSUME NEW U \in SUBSET (0..((m + 1) - 1))
               PROVE \E x \in 0..(2^(m + 1) - 1) : Ones(x, m + 1, U)
    OBVIOUS
  <2> DEFINE V == {i \in 0..(m - 1) : i + 1 \in U}
             b == IF 0 \in U THEN 1 ELSE 0
  <2>1. PICK x \in 0..(2^m - 1) : Ones(x, m, V)
    BY <1>2
  <2>2. /\ 2 * x + b \in 0..(2^(m + 1) - 1)
        /\ Bit(2 * x + b, 0) = b
        /\ \A i \in Nat : Bit(2 * x + b, i + 1) = Bit(x, i)
    BY TwiceAnd
  <2>3. ASSUME NEW i \in 0..((m + 1) - 1) PROVE Bit(2 * x + b, i) = 1 <=> i \in U
    <3>1. CASE i = 0
      BY <3>1, <2>2
    <3>2. CASE i # 0
      <4>1. i - 1 \in 0..(m - 1) /\ i - 1 \in Nat /\ (i - 1) + 1 = i
        BY <3>2
      <4>2. Bit(2 * x + b, i) = Bit(x, i - 1)
        BY <2>2, <4>1
      <4>3. Bit(x, i - 1) = 1 <=> i - 1 \in V
        BY <2>1, <4>1
      <4>4. i - 1 \in V <=> i \in U
        BY <4>1
      <4> QED
        BY <4>2, <4>3, <4>4
    <3> QED
      BY <3>1, <3>2
  <2> QED
    BY <2>2, <2>3
<1> HIDE DEF S
<1>3. Nat \subseteq S
  BY <1>1, <1>2, SetInduction
<1>4. n \in S
  BY <1>3
<1> QED
  BY <1>4 DEF S

LEMMA PowerMonotone == ASSUME NEW m \in Nat, NEW n \in Nat, m <= n PROVE 2^m <= 2^n
<1>1. n - m \in Nat /\ m + (n - m) = n
  OBVIOUS
<1>2. 2^n = 2^m * 2^(n - m) /\ 2^m \in Nat \ {0} /\ 2^(n - m) \in Nat \ {0}
  BY <1>1, PowerPlus, PowerPositive
<1>3. \A a, b \in Nat \ {0} : a <= a * b
  OBVIOUS
<1> QED
  BY <1>2, <1>3

\* The bits above the number, and above its sign.
LEMMA BitAbove ==
  ASSUME NEW n \in Nat, NEW i \in Nat, n <= i
  PROVE /\ \A x \in 0..(2^n - 1) : Bit(x, i) = 0
        /\ \A x \in (-(2^n))..(-1) : Bit(x, i) = 1
<1>1. 2^n <= 2^i /\ 2^n \in Nat /\ 2^i \in Nat \ {0}
  BY PowerMonotone, PowerPositive
<1> DEFINE d == 2^i
           e == 2^n
<1>2. e <= d /\ e \in Nat /\ d \in Nat \ {0}
  BY <1>1
<1> HIDE DEF d, e
<1>3. ASSUME NEW x \in 0..(e - 1) PROVE x \div d = 0
  <2>1. x = d * 0 + x /\ x \in 0..(d - 1) /\ x \in Int
    BY <1>2
  <2> QED
    BY <1>2, <2>1, DivIs
<1>4. ASSUME NEW x \in (-e)..(-1) PROVE x \div d = -1
  <2>1. x = d * (-1) + (x + d) /\ x + d \in 0..(d - 1) /\ x \in Int
    BY <1>2
  <2> QED
    BY <1>2, <2>1, DivIs
<1>5. \A q \in Int : (q = 0 => q % 2 = 0) /\ (q = -1 => q % 2 = 1)
  OBVIOUS
<1>6. ASSUME NEW x \in 0..(2^n - 1) PROVE Bit(x, i) = 0
  <2>1. x \div 2^i = 0
    BY <1>3 DEF d, e
  <2> DEFINE q == x \div 2^i
  <2>2. q \in Int /\ q = 0
    BY <2>1
  <2> HIDE DEF q
  <2>3. q % 2 = 0
    BY <2>2, <1>5
  <2> QED
    BY <2>3 DEF Bit, q
<1>7. ASSUME NEW x \in (-(2^n))..(-1) PROVE Bit(x, i) = 1
  <2>1. x \div 2^i = -1 /\ -1 \in Int
    BY <1>4 DEF d, e
  <2> DEFINE q == x \div 2^i
  <2>2. q \in Int /\ q = -1
    BY <2>1
  <2> HIDE DEF q
  <2>3. q % 2 = 1
    BY <2>2, <1>5
  <2> QED
    BY <2>3 DEF Bit, q
<1> QED
  BY <1>6, <1>7

LEMMA BitNot == ASSUME NEW x \in Int, NEW i \in Nat PROVE Bit(-x - 1, i) = 1 - Bit(x, i)
<1> DEFINE d == 2^i
           q == x \div d
           r == x % d
<1>1. d \in Nat \ {0}
  BY PowerPositive
<1> HIDE DEF d
<1>2. q \in Int /\ r \in 0..(d - 1) /\ x = d * q + r
  BY <1>1, DivMod
<1> HIDE DEF q, r
<1>3. -x - 1 = d * (-q - 1) + (d - 1 - r) /\ d - 1 - r \in 0..(d - 1) /\ -q - 1 \in Int
  BY <1>1, <1>2
<1>4. (-x - 1) \div d = -q - 1
  <2> DEFINE y == -x - 1
             p == -q - 1
             t == d - 1 - r
  <2>1. y \in Int /\ y = d * p + t /\ t \in 0..(d - 1) /\ p \in Int
    BY <1>2, <1>3
  <2> HIDE DEF y, p, t
  <2>2. y \div d = p
    BY <1>1, <2>1, DivIs
  <2> QED
    BY <2>2 DEF y, p
<1>5. (-q - 1) % 2 = 1 - (q % 2)
  BY <1>2
<1> QED
  BY <1>4, <1>5 DEF Bit, q, d

\* 2^k - 1 has k ones.
LEMMA BitMask ==
  ASSUME NEW k \in Nat, NEW i \in Nat PROVE Bit(2^k - 1, i) = IF i < k THEN 1 ELSE 0
<1>1. 2^k \in Nat
  BY PowerNat
<1>2. (-1) * 2^k \in Int /\ -((-1) * 2^k) - 1 = 2^k - 1
  BY <1>1
<1>3. Bit(2^k - 1, i) = 1 - Bit((-1) * 2^k, i)
  BY <1>2, BitNot
<1>4. Bit((-1) * 2^k, i) = IF i >= k THEN Bit(-1, i - k) ELSE 0
  BY BitLeft
<1>5. ASSUME i >= k PROVE Bit(-1, i - k) = 1
  <2>1. i - k \in Nat /\ 0 <= i - k /\ 0 \in Nat
    BY <1>5
  <2>2. -1 \in (-(2^0))..(-1)
    BY 2^0 = 1
  <2> QED
    BY <2>1, <2>2, BitAbove
<1> QED
  BY <1>3, <1>4, <1>5

\* The bits below n are those of the rest modulo 2^n.
LEMMA BitMod ==
  ASSUME NEW x \in Int, NEW n \in Nat, NEW i \in Nat, i < n
  PROVE Bit(x % 2^n, i) = Bit(x, i)
<1> DEFINE d == 2^n
           q == x \div d
           r == x % d
<1>1. d \in Nat \ {0}
  BY PowerPositive
<1>2. q \in Int /\ r \in 0..(d - 1) /\ x = d * q + r
  BY <1>1, DivMod
<1>3. r \in Int
  BY <1>1, <1>2
<1>4. Bit(r + q * d, i) = Bit(r, i)
  BY <1>2, <1>3, BitPeriod
<1>5. r + q * d = x
  <2> HIDE DEF d, q, r
  <2> QED
    BY <1>1, <1>2, <1>3
<1> QED
  BY <1>4, <1>5

\* The bits of a, o and e are those of x and y in conjunction, disjunction and
\* exclusive or.
MergedBits(n, x, y, a, o, e) ==
  \A i \in 0..(n - 1) : /\ Bit(a, i) = 1 <=> Bit(x, i) = 1 /\ Bit(y, i) = 1
                        /\ Bit(o, i) = 1 <=> Bit(x, i) = 1 \/ Bit(y, i) = 1
                        /\ Bit(e, i) = 1 <=> ~ (Bit(x, i) = 1 <=> Bit(y, i) = 1)

\* Conjunction and disjunction share the sum of two numbers, and their
\* difference is the exclusive or.
LEMMA BitSums ==
  ASSUME NEW n \in Nat, NEW x \in 0..(2^n - 1), NEW y \in 0..(2^n - 1),
         NEW a \in 0..(2^n - 1), NEW o \in 0..(2^n - 1), NEW e \in 0..(2^n - 1),
         MergedBits(n, x, y, a, o, e)
  PROVE a + o = x + y /\ o - a = e
<1> DEFINE Sums(u, v, p, q, r) == p + q = u + v /\ q - p = r
           S == {m \in Nat : \A u, v, p, q, r \in 0..(2^m - 1) :
                               MergedBits(m, u, v, p, q, r) => Sums(u, v, p, q, r)}
<1>1. 0 \in S
  <2>1. 0..(2^0 - 1) = {0}
    BY 2^0 = 1
  <2> QED
    BY <2>1
<1>2. ASSUME NEW m \in Nat, m \in S PROVE m + 1 \in S
  <2> SUFFICES ASSUME NEW u \in 0..(2^(m + 1) - 1), NEW v \in 0..(2^(m + 1) - 1),
                      NEW p \in 0..(2^(m + 1) - 1), NEW q \in 0..(2^(m + 1) - 1),
                      NEW r \in 0..(2^(m + 1) - 1), MergedBits(m + 1, u, v, p, q, r)
               PROVE Sums(u, v, p, q, r)
    OBVIOUS
  <2> DEFINE h(z) == z \div 2
  <2>1. \A z \in 0..(2^(m + 1) - 1) :
          /\ h(z) \in 0..(2^m - 1) /\ z = 2 * h(z) + Bit(z, 0) /\ Bit(z, 0) \in {0, 1}
          /\ \A i \in Nat : Bit(h(z), i) = Bit(z, i + 1)
    BY HalfOf
  <2> HIDE DEF h
  <2>2. MergedBits(m, h(u), h(v), h(p), h(q), h(r))
    <3> SUFFICES ASSUME NEW i \in 0..(m - 1)
                 PROVE /\ Bit(h(p), i) = 1 <=> Bit(h(u), i) = 1 /\ Bit(h(v), i) = 1
                       /\ Bit(h(q), i) = 1 <=> Bit(h(u), i) = 1 \/ Bit(h(v), i) = 1
                       /\ Bit(h(r), i) = 1 <=> ~ (Bit(h(u), i) = 1 <=> Bit(h(v), i) = 1)
      BY DEF MergedBits
    <3>1. i \in Nat /\ i + 1 \in 0..((m + 1) - 1)
      OBVIOUS
    <3>2. \A z \in 0..(2^(m + 1) - 1) : Bit(h(z), i) = Bit(z, i + 1)
      BY <2>1, <3>1
    <3>3. /\ Bit(p, i + 1) = 1 <=> Bit(u, i + 1) = 1 /\ Bit(v, i + 1) = 1
          /\ Bit(q, i + 1) = 1 <=> Bit(u, i + 1) = 1 \/ Bit(v, i + 1) = 1
          /\ Bit(r, i + 1) = 1 <=> ~ (Bit(u, i + 1) = 1 <=> Bit(v, i + 1) = 1)
      BY <3>1 DEF MergedBits
    <3> QED
      BY <3>2, <3>3
  <2>3. Sums(h(u), h(v), h(p), h(q), h(r))
    <3> HIDE DEF Sums
    <3>1. \A u1, u2, u3, u4, u5 \in 0..(2^m - 1) :
            MergedBits(m, u1, u2, u3, u4, u5) => Sums(u1, u2, u3, u4, u5)
      BY <1>2
    <3>2. /\ h(u) \in 0..(2^m - 1) /\ h(v) \in 0..(2^m - 1) /\ h(p) \in 0..(2^m - 1)
          /\ h(q) \in 0..(2^m - 1) /\ h(r) \in 0..(2^m - 1)
      BY <2>1
    <3> QED
      BY <2>2, <3>1, <3>2
  <2>4. /\ Bit(p, 0) = 1 <=> Bit(u, 0) = 1 /\ Bit(v, 0) = 1
        /\ Bit(q, 0) = 1 <=> Bit(u, 0) = 1 \/ Bit(v, 0) = 1
        /\ Bit(r, 0) = 1 <=> ~ (Bit(u, 0) = 1 <=> Bit(v, 0) = 1)
    <3>1. 0 \in 0..((m + 1) - 1)
      OBVIOUS
    <3> QED
      BY <3>1 DEF MergedBits
  <2>5. Sums(Bit(u, 0), Bit(v, 0), Bit(p, 0), Bit(q, 0), Bit(r, 0))
    BY <2>1, <2>4
  <2>6. 2^m \in Nat
    BY PowerNat
  <2>7. h(u) \in Int /\ h(v) \in Int /\ h(p) \in Int /\ h(q) \in Int /\ h(r) \in Int
    BY <2>1, <2>6
  <2>8. u = 2 * h(u) + Bit(u, 0) /\ v = 2 * h(v) + Bit(v, 0) /\ p = 2 * h(p) + Bit(p, 0)
        /\ q = 2 * h(q) + Bit(q, 0) /\ r = 2 * h(r) + Bit(r, 0)
    BY <2>1
  <2>9. Bit(u, 0) \in {0, 1} /\ Bit(v, 0) \in {0, 1} /\ Bit(p, 0) \in {0, 1}
        /\ Bit(q, 0) \in {0, 1} /\ Bit(r, 0) \in {0, 1}
    BY <2>1
  <2> QED
    BY <2>3, <2>5, <2>7, <2>8, <2>9
<1>3. Nat \subseteq S
  BY <1>1, <1>2, SetInduction
<1> HIDE DEF Sums
<1>4. n \in S
  BY <1>3
<1>5. Sums(x, y, a, o, e)
  BY <1>4
<1> QED
  BY <1>5 DEF Sums

LEMMA MinusZero == ASSUME NEW m \in Int, m <= 0, m >= 0 PROVE -m = 0
OBVIOUS

LEMMA RestNear ==
  ASSUME NEW a \in Int, NEW b \in Nat \ {0}
  PROVE /\ 0 <= a /\ a < b => a % b = a
        /\ b <= a /\ a < 2 * b => a % b = a - b
        /\ -b <= a /\ a < 0 => a % b = a + b
<1>1. ASSUME 0 <= a, a < b PROVE a % b = a
  <2>1. a = b * 0 + a /\ a \in 0..(b - 1)
    BY <1>1
  <2> QED
    BY <2>1, DivIs
<1>2. ASSUME b <= a, a < 2 * b PROVE a % b = a - b
  <2>1. a = b * 1 + (a - b) /\ a - b \in 0..(b - 1)
    BY <1>2
  <2> QED
    BY <2>1, DivIs
<1>3. ASSUME -b <= a, a < 0 PROVE a % b = a + b
  <2>1. a = b * (-1) + (a + b) /\ a + b \in 0..(b - 1)
    BY <1>3
  <2> QED
    BY <2>1, DivIs
<1> QED
  BY <1>1, <1>2, <1>3
=============================================================================
