----------------------------- MODULE DataLemmas -----------------------------
(* What the proofs need of sequences, numbers and orders: what appending to  *)
(* a sequence, taking its head and joining two does to their elements; the   *)
(* least and the greatest of some numbers; a finite set listed in order.     *)
EXTENDS SequenceTheorems, FiniteSetTheorems, WellFoundedInduction, TLAPS

-----------------------------------------------------------------------------
(* Sequences as queues.                                                      *)

\* Appending adds one element, and keeps a sequence of distinct ones distinct
\* when it is new.
LEMMA AppendElems ==
    ASSUME NEW S, NEW s \in Seq(S), NEW x \in S
    PROVE  /\ Append(s, x) \in Seq(S)
           /\ Len(Append(s, x)) = Len(s) + 1
           /\ Range(Append(s, x)) = Range(s) \cup {x}
           /\ IsInjective(s) /\ x \notin Range(s) => IsInjective(Append(s, x))
<1>1. /\ Append(s, x) \in Seq(S)
      /\ Len(Append(s, x)) = Len(s) + 1
      /\ DOMAIN Append(s, x) = 1 .. Len(s) + 1
      /\ \A i \in 1 .. Len(s) : Append(s, x)[i] = s[i]
      /\ Append(s, x)[Len(s) + 1] = x
      /\ DOMAIN s = 1 .. Len(s)
      /\ Len(s) \in Nat
  OBVIOUS
<1>2. Range(Append(s, x)) = Range(s) \cup {x}
  <2>1. ASSUME NEW y \in Range(Append(s, x)) PROVE y \in Range(s) \cup {x}
    BY <1>1 DEF Range
  <2>2. ASSUME NEW y \in Range(s) PROVE y \in Range(Append(s, x))
    BY <1>1 DEF Range
  <2>3. x \in Range(Append(s, x))
    BY <1>1 DEF Range
  <2>. QED BY <2>1, <2>2, <2>3
<1>3. ASSUME IsInjective(s), x \notin Range(s) PROVE IsInjective(Append(s, x))
  BY <1>1, <1>3 DEF IsInjective, Range
<1>. QED BY <1>1, <1>2, <1>3

\* Taking the head of a sequence of distinct elements removes that element.
LEMMA TailElems ==
    ASSUME NEW S, NEW s \in Seq(S), s # << >>
    PROVE  /\ Head(s) \in S
           /\ Head(s) \in Range(s)
           /\ Tail(s) \in Seq(S)
           /\ Len(Tail(s)) = Len(s) - 1
           /\ Range(s) = {Head(s)} \cup Range(Tail(s))
           /\ IsInjective(s) => /\ IsInjective(Tail(s))
                             /\ Range(Tail(s)) = Range(s) \ {Head(s)}
<1>1. /\ Tail(s) \in Seq(S)
      /\ Len(Tail(s)) = Len(s) - 1
      /\ \A i \in 1 .. Len(s) - 1 : Tail(s)[i] = s[i + 1]
      /\ DOMAIN Tail(s) = 1 .. Len(s) - 1
      /\ DOMAIN s = 1 .. Len(s)
      /\ Len(s) \in Nat \ {0}
      /\ Head(s) = s[1]
      /\ Head(s) \in S
  BY HeadTailProperties, EmptySeq, LenProperties
<1>2. Head(s) \in Range(s)
  BY <1>1 DEF Range
<1>3. Range(s) = {Head(s)} \cup Range(Tail(s))
  <2>1. ASSUME NEW y \in Range(Tail(s)) PROVE y \in Range(s)
    BY <1>1 DEF Range
  <2>2. ASSUME NEW y \in Range(s), y # Head(s) PROVE y \in Range(Tail(s))
    <3>1. PICK i \in 1 .. Len(s) : y = s[i]
      BY <1>1 DEF Range
    <3>2. i # 1 /\ i - 1 \in 1 .. Len(s) - 1 /\ Tail(s)[i - 1] = y
      BY <1>1, <2>2, <3>1
    <3>. QED BY <3>2, <1>1 DEF Range
  <2>. QED BY <1>2, <2>1, <2>2
<1>4. ASSUME IsInjective(s)
      PROVE  IsInjective(Tail(s)) /\ Range(Tail(s)) = Range(s) \ {Head(s)}
  <2>1. IsInjective(Tail(s))
    BY <1>1, <1>4 DEF IsInjective
  <2>2. Head(s) \notin Range(Tail(s))
    BY <1>1, <1>4 DEF IsInjective, Range
  <2>. QED BY <1>3, <2>1, <2>2
<1>. QED BY <1>1, <1>2, <1>3, <1>4

\* A concatenation holds the elements of both, and is distinct when both are
\* and they share none.
LEMMA ConcatElems ==
    ASSUME NEW S, NEW s \in Seq(S), NEW t \in Seq(S)
    PROVE  /\ s \o t \in Seq(S)
           /\ Range(s \o t) = Range(s) \cup Range(t)
           /\ IsInjective(s) /\ IsInjective(t) /\ Range(s) \cap Range(t) = {}
              => IsInjective(s \o t)
<1>1. /\ s \o t \in Seq(S)
      /\ Len(s \o t) = Len(s) + Len(t)
      /\ DOMAIN (s \o t) = 1 .. Len(s) + Len(t)
      /\ \A i \in 1 .. Len(s) : (s \o t)[i] = s[i]
      /\ \A i \in Len(s) + 1 .. Len(s) + Len(t) : (s \o t)[i] = t[i - Len(s)]
      /\ DOMAIN s = 1 .. Len(s)
      /\ DOMAIN t = 1 .. Len(t)
      /\ Len(s) \in Nat
      /\ Len(t) \in Nat
  BY ConcatProperties, LenProperties
<1>2. Range(s \o t) = Range(s) \cup Range(t)
  <2>1. ASSUME NEW y \in Range(s \o t) PROVE y \in Range(s) \cup Range(t)
    <3>1. PICK i \in 1 .. Len(s) + Len(t) : y = (s \o t)[i]
      BY <1>1 DEF Range
    <3>2. CASE i <= Len(s)
      BY <1>1, <3>1, <3>2 DEF Range
    <3>3. CASE i > Len(s)
      <4>1. i - Len(s) \in 1 .. Len(t) /\ y = t[i - Len(s)]
        BY <1>1, <3>1, <3>3
      <4>. QED BY <4>1, <1>1 DEF Range
    <3>. QED BY <3>2, <3>3, <1>1
  <2>2. ASSUME NEW y \in Range(s) PROVE y \in Range(s \o t)
    BY <1>1 DEF Range
  <2>3. ASSUME NEW y \in Range(t) PROVE y \in Range(s \o t)
    <3>1. PICK i \in 1 .. Len(t) : y = t[i]
      BY <1>1 DEF Range
    <3>2. i + Len(s) \in Len(s) + 1 .. Len(s) + Len(t)
      BY <1>1
    <3>3. (s \o t)[i + Len(s)] = t[i]
      BY <1>1, <3>2
    <3>. QED BY <1>1, <3>1, <3>2, <3>3 DEF Range
  <2>. QED BY <2>1, <2>2, <2>3
<1>3. ASSUME IsInjective(s), IsInjective(t), Range(s) \cap Range(t) = {},
             NEW i \in 1 .. Len(s) + Len(t), NEW j \in 1 .. Len(s) + Len(t),
             (s \o t)[i] = (s \o t)[j]
      PROVE  i = j
  <2>1. CASE i <= Len(s) /\ j <= Len(s)
    BY <1>1, <1>3, <2>1 DEF IsInjective
  <2>2. CASE i > Len(s) /\ j > Len(s)
    <3>1. /\ i - Len(s) \in DOMAIN t
          /\ j - Len(s) \in DOMAIN t
          /\ t[i - Len(s)] = t[j - Len(s)]
      BY <1>1, <1>3, <2>2
    <3>2. i - Len(s) = j - Len(s)
      BY <1>3, <3>1 DEF IsInjective
    <3>. QED BY <3>2, <1>1
  <2>3. CASE i <= Len(s) /\ j > Len(s)
    <3>1. (s \o t)[i] \in Range(s)
      BY <1>1, <2>3 DEF Range
    <3>2. j - Len(s) \in DOMAIN t /\ (s \o t)[j] = t[j - Len(s)]
      BY <1>1, <2>3
    <3>3. (s \o t)[j] \in Range(t)
      BY <3>2 DEF Range
    <3>. QED BY <1>3, <3>1, <3>3
  <2>4. CASE i > Len(s) /\ j <= Len(s)
    <3>1. (s \o t)[j] \in Range(s)
      BY <1>1, <2>4 DEF Range
    <3>2. i - Len(s) \in DOMAIN t /\ (s \o t)[i] = t[i - Len(s)]
      BY <1>1, <2>4
    <3>3. (s \o t)[i] \in Range(t)
      BY <3>2 DEF Range
    <3>. QED BY <1>3, <3>1, <3>3
  <2>. QED BY <2>1, <2>2, <2>3, <2>4, <1>1
<1>. QED BY <1>1, <1>2, <1>3 DEF IsInjective

\* A function on 1 .. n is a sequence.
LEMMA SeqOfFunction ==
    ASSUME NEW S, NEW n \in Nat, NEW s \in [1 .. n -> S]
    PROVE  s \in Seq(S) /\ Len(s) = n
<1>1. s \in UNION {[1 .. k -> S] : k \in Nat}
  BY Zenon
<1>2. s \in Seq(S)
  BY <1>1, SeqDef, Zenon
<1> QED BY <1>2

-----------------------------------------------------------------------------
(* Least and greatest.                                                       *)

\* A set of natural numbers that is not empty has a least element.
LEMMA LeastExists ==
    ASSUME NEW T, T \subseteq Nat, T # {}
    PROVE  \E m \in T : \A n \in T : m <= n
<1> DEFINE R == OpToRel(<, Nat)
<1>1. PICK m \in T : \A n \in T : ~ (<<n, m>> \in R)
  BY NatLessThanWellFounded, WFMin
<1>2. \A n \in Nat : n < m => <<n, m>> \in R
  BY DEF OpToRel
<1> HIDE DEF R
<1>3. \A n \in T : m <= n
  <2> SUFFICES ASSUME NEW n \in T PROVE m <= n
    OBVIOUS
  <2>1. m \in Nat /\ n \in Nat
    OBVIOUS
  <2>2. ~ (<<n, m>> \in R)
    BY <1>1
  <2>3. ~ (n < m)
    BY <1>2, <2>1, <2>2
  <2> QED BY <2>1, <2>3
<1> QED BY <1>3

\* Of the things a function gives a natural number, one has the least.
LEMMA LeastValue ==
    ASSUME NEW f, NEW S, S # {}, \A x \in S : f[x] \in Nat
    PROVE  \E x \in S : \A y \in S : f[x] <= f[y]
<1> DEFINE T == {f[x] : x \in S}
<1>1. T \subseteq Nat /\ T # {}
  OBVIOUS
<1>2. PICK m \in T : \A n \in T : m <= n
  <2> HIDE DEF T
  <2> QED BY <1>1, LeastExists
<1>3. PICK x \in S : f[x] = m
  BY <1>2
<1>4. \A y \in S : m <= f[y]
  BY <1>2
<1> QED BY <1>3, <1>4

\* Of some numbers with a bound, one is the greatest.
LEMMA GreatestExists ==
    ASSUME NEW T, T \subseteq Nat, T # {}, NEW b \in Nat, \A n \in T : n <= b
    PROVE  \E m \in T : \A n \in T : n <= m
<1> DEFINE f == [n \in T |-> b - n]
<1>1. \A n \in T : f[n] \in Nat
  OBVIOUS
<1>2. PICK m \in T : \A n \in T : f[m] <= f[n]
  <2> HIDE DEF f
  <2> QED BY <1>1, LeastValue
<1>3. \A n \in T : n <= m
  BY <1>2
<1> QED BY <1>3

\* Finitely many numbers have a bound.
LEMMA BoundExists ==
    ASSUME NEW n \in Nat, NEW f, \A i \in 1 .. n : f[i] \in Nat
    PROVE  \E b \in Nat : \A i \in 1 .. n : f[i] <= b
<1> DEFINE bounded(m) == \E b \in Nat : \A i \in 1 .. m : f[i] <= b
           T == {m \in 0 .. n : ~bounded(m)}
<1>1. SUFFICES ASSUME T # {} PROVE FALSE
  <2>1. n \in 0 .. n
    OBVIOUS
  <2> QED BY <1>1, <2>1
<1>2. PICK m \in T : \A k \in T : m <= k
  <2>1. T \subseteq Nat
    OBVIOUS
  <2> HIDE DEF T
  <2> QED BY <1>1, <2>1, LeastExists
<1>3. m \in 0 .. n /\ ~bounded(m)
  OBVIOUS
<1>4. m # 0
  BY <1>3
<1>5. m - 1 \in 0 .. n /\ ~(m <= m - 1)
  BY <1>3, <1>4
<1>6. bounded(m - 1)
  BY <1>2, <1>5
<1>7. PICK b \in Nat : \A i \in 1 .. m - 1 : f[i] <= b
  BY <1>6
<1>8. f[m] \in Nat
  BY <1>3, <1>4
<1>9. \A i \in 1 .. m : f[i] <= b + f[m]
  <2>1. \A i \in 1 .. m : i \in 1 .. m - 1 \/ i = m
    BY <1>3
  <2>2. \A i \in 1 .. m - 1 : f[i] \in Nat
    BY <1>3
  <2>3. \A i \in 1 .. m - 1 : f[i] <= b + f[m]
    BY <1>7, <1>8, <2>2
  <2>4. f[m] <= b + f[m]
    BY <1>8
  <2> QED BY <2>1, <2>3, <2>4
<1>10. b + f[m] \in Nat
  BY <1>8
<1> QED BY <1>3, <1>9, <1>10

-----------------------------------------------------------------------------
(* Orders.                                                                   *)

(* A total order of a set S is given by the set B[x] of the members before   *)
(* each member x.                                                            *)

Before(S, B) ==
    /\ \A x \in S : B[x] \subseteq S /\ x \notin B[x]
    /\ \A x, y \in S : x \in B[y] => B[x] \subseteq B[y]
    /\ \A x, y \in S : x = y \/ x \in B[y] \/ y \in B[x]

\* s lists S in that order, each member once.
InTurn(s, S, B) ==
    /\ \A k \in DOMAIN s : s[k] \in S
    /\ \A x \in S : \E k \in DOMAIN s : s[k] = x
    /\ \A i, j \in DOMAIN s : i < j => s[i] \in B[s[j]]
    /\ \A i, j \in DOMAIN s : s[i] = s[j] => i = j

\* In a finite set the number of members before each is a one-to-one count
\* from 0 that follows the order.
LEMMA CountBefore ==
    ASSUME NEW S, IsFiniteSet(S), NEW B, Before(S, B)
    PROVE  /\ Cardinality(S) \in Nat
           /\ \A x \in S : Cardinality(B[x]) \in 0 .. Cardinality(S) - 1
           /\ \A x, y \in S : x \in B[y] => Cardinality(B[x]) < Cardinality(B[y])
           /\ \A x, y \in S : Cardinality(B[x]) = Cardinality(B[y]) => x = y
           /\ \A m \in 0 .. Cardinality(S) - 1 : \E x \in S : Cardinality(B[x]) = m
<1> DEFINE n == Cardinality(S)
           r == [x \in S |-> Cardinality(B[x])]
<1> USE DEF Before
<1>1. n \in Nat
  BY FS_CardinalityType
<1>2. ASSUME NEW x \in S PROVE r[x] = Cardinality(B[x])
  OBVIOUS
<1> HIDE DEF n, r
<1>3. ASSUME NEW x \in S PROVE IsFiniteSet(B[x]) /\ r[x] \in 0 .. n - 1
  <2>1. B[x] \in SUBSET (S \ {x})
    OBVIOUS
  <2>2. IsFiniteSet(S \ {x}) /\ Cardinality(S \ {x}) = n - 1
    BY FS_RemoveElement DEF n
  <2>3. IsFiniteSet(B[x]) /\ Cardinality(B[x]) <= n - 1
    BY <2>1, <2>2, FS_Subset
  <2>4. Cardinality(B[x]) \in Nat
    BY <2>3, FS_CardinalityType
  <2> QED BY <1>1, <1>2, <2>3, <2>4
<1>4. ASSUME NEW x \in S, NEW y \in S, x \in B[y] PROVE r[x] < r[y]
  <2>1. B[x] \in SUBSET B[y] /\ B[x] # B[y]
    BY <1>4
  <2>2. /\ Cardinality(B[x]) <= Cardinality(B[y])
        /\ Cardinality(B[y]) = Cardinality(B[x]) => B[y] = B[x]
    BY <1>3, <2>1, FS_Subset
  <2>3. r[x] \in 0 .. n - 1 /\ r[y] \in 0 .. n - 1
    BY <1>3
  <2> QED BY <1>1, <1>2, <2>1, <2>2, <2>3
<1>5. ASSUME NEW x \in S, NEW y \in S, r[x] = r[y] PROVE x = y
  <2>1. r[x] \in 0 .. n - 1
    BY <1>3
  <2>2. ~ (r[x] < r[y]) /\ ~ (r[y] < r[x])
    BY <1>1, <1>5, <2>1
  <2> QED BY <1>4, <2>2
<1>6. r \in [S -> 0 .. n - 1]
  BY <1>3 DEF r
<1>7. r \in Injection(S, 0 .. n - 1)
  BY <1>5, <1>6 DEF Injection, IsInjective
<1>8. IsFiniteSet(0 .. n - 1) /\ Cardinality(0 .. n - 1) = n
  <2>1. 0 \in Int /\ n - 1 \in Int
    BY <1>1
  <2>2. /\ IsFiniteSet(0 .. n - 1)
        /\ Cardinality(0 .. n - 1) = IF 0 > n - 1 THEN 0 ELSE (n - 1) - 0 + 1
    BY <2>1, FS_Interval
  <2> QED BY <1>1, <2>2
<1>9. r \in Surjection(S, 0 .. n - 1)
  BY <1>7, <1>8, FS_Injection DEF n
<1>10. \A m \in 0 .. n - 1 : \E x \in S : r[x] = m
  BY <1>9 DEF Surjection
<1> QED BY <1>1, <1>2, <1>3, <1>4, <1>5, <1>10 DEF n

\* So a sequence that has at each place the member with so many before it
\* lists a finite set in its order.
LEMMA Ranks ==
    ASSUME NEW S, IsFiniteSet(S), NEW B, Before(S, B),
           NEW s, DOMAIN s = 1 .. Cardinality(S),
           \A k \in 1 .. Cardinality(S) :
               (\E x \in S : Cardinality(B[x]) = k - 1)
                   => s[k] \in S /\ Cardinality(B[s[k]]) = k - 1
    PROVE  InTurn(s, S, B)
<1> DEFINE n == Cardinality(S)
<1>1. /\ n \in Nat
      /\ \A x \in S : Cardinality(B[x]) \in 0 .. n - 1
      /\ \A x, y \in S : x \in B[y] => Cardinality(B[x]) < Cardinality(B[y])
      /\ \A x, y \in S : Cardinality(B[x]) = Cardinality(B[y]) => x = y
      /\ \A m \in 0 .. n - 1 : \E x \in S : Cardinality(B[x]) = m
  BY CountBefore
<1>2. DOMAIN s = 1 .. n
  OBVIOUS
<1>3. ASSUME NEW k \in 1 .. n PROVE s[k] \in S /\ Cardinality(B[s[k]]) = k - 1
  <2>1. k - 1 \in 0 .. n - 1
    <3> HIDE DEF n
    <3> QED BY <1>1
  <2>2. \E x \in S : Cardinality(B[x]) = k - 1
    <3> HIDE DEF n
    <3> QED BY <1>1, <2>1
  <2> QED BY <2>2
<1> HIDE DEF n
<1>4. ASSUME NEW x \in S PROVE \E k \in DOMAIN s : s[k] = x
  <2>1. Cardinality(B[x]) \in 0 .. n - 1
    BY <1>1
  <2>2. PICK k \in 1 .. n : Cardinality(B[x]) = k - 1
    <3>1. Cardinality(B[x]) + 1 \in 1 .. n
      BY <1>1, <2>1
    <3> QED BY <2>1, <3>1
  <2>3. s[k] \in S /\ Cardinality(B[s[k]]) = Cardinality(B[x])
    BY <1>3, <2>2
  <2>4. s[k] = x
    BY <1>1, <2>3
  <2> QED BY <1>2, <2>4
<1>5. ASSUME NEW i \in 1 .. n, NEW j \in 1 .. n, i < j
      PROVE  s[i] \in B[s[j]] /\ s[i] # s[j]
  <2>1. /\ s[i] \in S /\ Cardinality(B[s[i]]) = i - 1
        /\ s[j] \in S /\ Cardinality(B[s[j]]) = j - 1
    BY <1>3
  <2>2. /\ ~ (Cardinality(B[s[j]]) < Cardinality(B[s[i]]))
        /\ Cardinality(B[s[i]]) # Cardinality(B[s[j]])
    BY <1>1, <1>5, <2>1
  <2>3. s[j] \notin B[s[i]] /\ s[i] # s[j]
    BY <1>1, <2>1, <2>2
  <2> QED BY <2>1, <2>3 DEF Before
<1>6. ASSUME NEW i \in 1 .. n, NEW j \in 1 .. n, s[i] = s[j] PROVE i = j
  <2>1. ~ (i < j) /\ ~ (j < i)
    BY <1>5, <1>6
  <2> QED BY <1>1, <2>1
<1> QED BY <1>2, <1>3, <1>4, <1>5, <1>6 DEF n, InTurn
=============================================================================
