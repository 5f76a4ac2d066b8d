----------------------------- MODULE DataLemmas -----------------------------
(***************************************************************************)
(* Facts about numbers, finite sets and sequences that the proofs of the   *)
(* components share.  Induction is stated over a set of numbers, the least *)
(* number outside of which would contradict it: the well-foundedness of    *)
(* the naturals is a theorem of WellFoundedInduction.                      *)
(***************************************************************************)
EXTENDS Integers, Sequences, FiniteSets, SequenceTheorems, FiniteSetTheorems,
        WellFoundedInduction, TLAPS

(* A set of natural numbers has a least element.                           *)
LEMMA LeastNatural ==
  ASSUME NEW T \in SUBSET Nat, T # {}
  PROVE  \E m \in T : \A n \in T : m <= n
<1> DEFINE R == OpToRel(<, Nat)
<1>1. IsWellFoundedOn(R, Nat)
  BY NatLessThanWellFounded
<1>2. \A i, j \in Nat : i < j => <<i, j>> \in R
  BY DEF OpToRel
<1> HIDE DEF R
<1>3. PICK m \in T : \A n \in T : ~ (<<n, m>> \in R)
  BY <1>1, WFMin
<1>4. ASSUME NEW n \in T PROVE m <= n
  <2>1. m \in Nat /\ n \in Nat /\ (n < m => <<n, m>> \in R)
    BY <1>2
  <2>2. ~ (n < m)
    BY <1>3, <2>1
  <2> QED
    BY <2>1, <2>2
<1> QED
  BY <1>4

(* Induction: a set that holds 0 and the successor of each of its natural  *)
(* numbers holds all of them.                                              *)
LEMMA Induction ==
  ASSUME NEW T, 0 \in T, \A n \in Nat : n \in T => n + 1 \in T
  PROVE  Nat \subseteq T
<1> SUFFICES ASSUME Nat \ T # {} PROVE FALSE
  OBVIOUS
<1>1. PICK m \in Nat \ T : \A n \in Nat \ T : m <= n
  BY LeastNatural
<1>2. m - 1 \in Nat /\ m - 1 \in T
  BY <1>1
<1>3. (m - 1) + 1 \in T
  BY <1>2
<1> QED
  BY <1>1, <1>2, <1>3

(* A finite, non-empty set of natural numbers has a greatest element.      *)
LEMMA GreatestNatural ==
  ASSUME NEW n \in Nat, NEW S \in SUBSET (0 .. n), S # {}
  PROVE  \E m \in S : \A k \in S : m >= k
<1> DEFINE T == {n - k : k \in S}
<1>0. \A k \in S : n - k \in Nat
  OBVIOUS
<1>1. T \in SUBSET Nat /\ T # {}
  BY <1>0
<1>2. PICK d \in T : \A e \in T : d <= e
  BY <1>1, LeastNatural
<1>3. PICK m \in S : d = n - m
  BY <1>2
<1>4. ASSUME NEW k \in S PROVE m >= k
  <2>1. n - k \in T /\ n - m <= n - k
    BY <1>2, <1>3
  <2> QED
    BY <2>1
<1> QED
  BY <1>4

(* The values of a function over the first numbers have an upper bound.    *)
LEMMA ValuesBounded ==
  ASSUME NEW n \in Nat, NEW f \in [1 .. n -> Nat]
  PROVE  \E b \in Nat : \A i \in 1 .. n : f[i] <= b
<1> DEFINE T == {m \in Nat : m <= n => \E b \in Nat : \A i \in 1 .. m : f[i] <= b}
<1>1. 0 \in T
  OBVIOUS
<1>2. ASSUME NEW m \in Nat, m \in T PROVE m + 1 \in T
  <2>1. CASE m + 1 <= n
    <3>1. PICK b \in Nat : \A i \in 1 .. m : f[i] <= b
      BY <1>2, <2>1
    <3>2. f[m + 1] \in Nat
      BY <2>1
    <3> DEFINE c == IF f[m + 1] <= b THEN b ELSE f[m + 1]
    <3>3. c \in Nat /\ b <= c /\ f[m + 1] <= c
      BY <3>2
    <3> HIDE DEF c
    <3>4. ASSUME NEW i \in 1 .. m + 1 PROVE f[i] <= c
      <4>1. CASE i = m + 1
        BY <3>3, <4>1
      <4>2. CASE i \in 1 .. m
        <5>1. f[i] \in Nat /\ f[i] <= b
          BY <2>1, <3>1, <4>2
        <5> QED
          BY <3>3, <5>1
      <4> QED
        BY <4>1, <4>2
    <3> QED
      BY <3>3, <3>4
  <2>2. CASE ~ (m + 1 <= n)
    BY <2>2
  <2> QED
    BY <2>1, <2>2
<1> HIDE DEF T
<1>3. n \in T
  BY <1>1, <1>2, Induction
<1> QED
  BY <1>3 DEF T

(* Numbers.                                                                *)

LEMMA Products ==
  /\ \A a, b \in Nat : a * b \in Nat
  /\ \A a, b \in Nat \ {0} : a * b \in Nat \ {0}
<1>1. \A a, b \in Nat : a * b \in Nat
  OBVIOUS
<1>2. \A a, b \in Nat \ {0} : a * b # 0
  OBVIOUS
<1> QED
  BY <1>1, <1>2

LEMMA Quotients ==
  ASSUME NEW a \in Nat, NEW b \in Nat \ {0}
  PROVE  a \div b \in Nat /\ a % b \in 0 .. b - 1
OBVIOUS

(* Division with remainder: what quotient and remainder are, and that they are *)
(* the only ones.                                                          *)
LEMMA Division ==
  ASSUME NEW a \in Nat, NEW b \in Nat \ {0}
  PROVE  a = (a \div b) * b + (a % b)
OBVIOUS

LEMMA ProductOrder ==
  ASSUME NEW d \in Nat \ {0}, NEW p \in Nat, NEW q \in Nat, p < q
  PROVE  p * d + d <= q * d
<1>1. q - p - 1 \in Nat /\ q = p + 1 + (q - p - 1)
  OBVIOUS
<1>2. q * d = p * d + d + (q - p - 1) * d
  OBVIOUS
<1>3. (q - p - 1) * d \in Nat
  BY <1>1
<1> QED
  BY <1>2, <1>3

LEMMA SameDivision ==
  ASSUME NEW d \in Nat \ {0}, NEW p \in Nat, NEW q \in Nat,
         NEW r \in 0 .. d - 1, NEW s \in 0 .. d - 1,
         p * d + r = q * d + s
  PROVE  p = q /\ r = s
<1>0. p * d \in Nat /\ q * d \in Nat
  OBVIOUS
<1>1. ~ (p < q)
  <2> SUFFICES ASSUME p < q PROVE FALSE
    OBVIOUS
  <2>1. p * d + d <= q * d
    BY ProductOrder
  <2> DEFINE x == p * d
             y == q * d
  <2>2. x \in Nat /\ y \in Nat /\ x + d <= y /\ x + r = y + s
    BY <1>0, <2>1
  <2> HIDE DEF x, y
  <2> QED
    BY <2>2
<1>2. ~ (q < p)
  <2> SUFFICES ASSUME q < p PROVE FALSE
    OBVIOUS
  <2>1. q * d + d <= p * d
    BY ProductOrder
  <2> DEFINE x == p * d
             y == q * d
  <2>2. x \in Nat /\ y \in Nat /\ y + d <= x /\ x + r = y + s
    BY <1>0, <2>1
  <2> HIDE DEF x, y
  <2> QED
    BY <2>2
<1>3. p = q
  BY <1>1, <1>2
<1>4. r = s
  <2> DEFINE x == p * d
  <2>1. x \in Nat /\ x + r = x + s
    BY <1>0, <1>3
  <2> HIDE DEF x
  <2> QED
    BY <2>1
<1> QED
  BY <1>3, <1>4

LEMMA QuotientIs ==
  ASSUME NEW d \in Nat \ {0}, NEW q \in Nat, NEW r \in 0 .. d - 1
  PROVE  (q * d + r) \div d = q /\ (q * d + r) % d = r
<1> DEFINE a == q * d + r
<1>1. a \in Nat
  OBVIOUS
<1>2. a = (a \div d) * d + (a % d) /\ a \div d \in Nat /\ a % d \in 0 .. d - 1
  <2> HIDE DEF a
  <2> QED
    BY <1>1, Division, Quotients
<1>3. a = q * d + r
  OBVIOUS
<1> HIDE DEF a
<1>4. q = a \div d /\ r = a % d
  BY <1>2, <1>3, SameDivision
<1> QED
  BY <1>4 DEF a

(* Products and quotients keep the order.                                  *)
LEMMA ProductMonotone ==
  ASSUME NEW d \in Nat \ {0}, NEW p \in Nat, NEW q \in Nat
  PROVE  p <= q <=> p * d <= q * d
<1>1. p * d \in Nat /\ q * d \in Nat
  OBVIOUS
<1> DEFINE x == p * d
           y == q * d
<1>2. CASE p < q
  <2>1. x + d <= y
    BY <1>2, ProductOrder
  <2> HIDE DEF x, y
  <2>2. x <= y
    BY <1>1, <2>1 DEF x, y
  <2> QED
    BY <1>2, <2>2 DEF x, y
<1>3. CASE p = q
  BY <1>3
<1>4. CASE q < p
  <2>1. y + d <= x
    BY <1>4, ProductOrder
  <2>2. x \in Nat /\ y \in Nat
    BY <1>1
  <2> HIDE DEF x, y
  <2>3. ~ (x <= y)
    BY <2>1, <2>2
  <2> QED
    BY <1>4, <2>3 DEF x, y
<1> QED
  BY <1>2, <1>3, <1>4

LEMMA QuotientBound ==
  ASSUME NEW a \in Nat, NEW d \in Nat \ {0}, NEW n \in Nat
  PROVE  n <= a \div d <=> n * d <= a
<1>1. /\ a \div d \in Nat /\ a % d \in 0 .. d - 1
      /\ a = (a \div d) * d + (a % d)
  BY Quotients, Division
<1> DEFINE q == a \div d
           r == a % d
<1>2. q \in Nat /\ r \in 0 .. d - 1 /\ a = q * d + r
  BY <1>1
<1> HIDE DEF q, r
<1>3. n * d \in Nat /\ q * d \in Nat
  BY <1>2, Products
<1> DEFINE x == n * d
           y == q * d
<1>4. CASE n < q
  <2>1. x + d <= y
    BY <1>2, <1>4, ProductOrder
  <2>2. x \in Nat /\ y \in Nat /\ a = y + r
    BY <1>2, <1>3
  <2> HIDE DEF x, y
  <2>3. x <= a
    BY <1>2, <2>1, <2>2
  <2> QED
    BY <1>2, <1>4, <2>3 DEF x, q
<1>5. CASE n = q
  <2>1. x = y
    BY <1>5
  <2>2. x \in Nat /\ y \in Nat /\ a = y + r
    BY <1>2, <1>3
  <2> HIDE DEF x, y
  <2>3. x <= a
    BY <1>2, <2>1, <2>2
  <2> QED
    BY <1>2, <1>5, <2>3 DEF x, q
<1>6. CASE q < n
  <2>1. y + d <= x
    BY <1>2, <1>6, ProductOrder
  <2>2. x \in Nat /\ y \in Nat /\ a = y + r
    BY <1>2, <1>3
  <2> HIDE DEF x, y
  <2>3. ~ (x <= a)
    BY <1>2, <2>1, <2>2
  <2> QED
    BY <1>2, <1>6, <2>3 DEF x, q
<1> QED
  BY <1>2, <1>4, <1>5, <1>6

(* Counting: a set that is listed without repetition, and the union of n   *)
(* disjoint sets of c elements each.                                       *)
LEMMA CountedByImage ==
  ASSUME NEW n \in Nat, NEW S, NEW f \in [0 .. n - 1 -> S],
         \A i, j \in 0 .. n - 1 : f[i] = f[j] => i = j,
         \A x \in S : \E i \in 0 .. n - 1 : x = f[i]
  PROVE  IsFiniteSet(S) /\ Cardinality(S) = n
<1>1. IsFiniteSet(0 .. n - 1) /\ Cardinality(0 .. n - 1) = n
  BY FS_Interval
<1>2. f \in Bijection(0 .. n - 1, S)
  BY DEF Bijection, Injection, Surjection, IsInjective
<1>3. ExistsBijection(0 .. n - 1, S)
  BY <1>2 DEF ExistsBijection
<1> QED
  BY <1>1, <1>3, FS_Bijection

LEMMA DisjointUnion ==
  ASSUME NEW n \in Nat, NEW c \in Nat, NEW f,
         \A i \in 0 .. n - 1 : IsFiniteSet(f[i]) /\ Cardinality(f[i]) = c,
         \A i, j \in 0 .. n - 1 : i # j => f[i] \cap f[j] = {}
  PROVE  /\ IsFiniteSet(UNION {f[i] : i \in 0 .. n - 1})
         /\ Cardinality(UNION {f[i] : i \in 0 .. n - 1}) = n * c
<1> DEFINE Upto(m) == UNION {f[i] : i \in 0 .. m - 1}
           Good(m) == IsFiniteSet(Upto(m)) /\ Cardinality(Upto(m)) = m * c
           T == {m \in Nat : m <= n => Good(m)}
<1>1. 0 \in T
  <2>1. Upto(0) = {}
    OBVIOUS
  <2>2. 0 * c = 0
    OBVIOUS
  <2> HIDE DEF Upto
  <2> QED
    BY <2>1, <2>2, FS_EmptySet
<1>2. ASSUME NEW m \in Nat, m \in T PROVE m + 1 \in T
  <2> SUFFICES ASSUME m + 1 <= n PROVE Good(m + 1)
    OBVIOUS
  <2>1. Good(m) /\ m \in 0 .. n - 1
    BY <1>2
  <2>2. Upto(m + 1) = Upto(m) \cup f[m]
    <3>1. 0 .. (m + 1) - 1 = (0 .. m - 1) \cup {m}
      OBVIOUS
    <3> QED
      BY <3>1
  <2>3. Upto(m) \cap f[m] = {}
    <3>1. \A i \in 0 .. m - 1 : i \in 0 .. n - 1 /\ i # m
      OBVIOUS
    <3>2. \A i \in 0 .. m - 1 : f[i] \cap f[m] = {}
      BY <2>1, <3>1
    <3> QED
      BY <3>2
  <2> DEFINE A == Upto(m)
             B == f[m]
  <2>4. /\ IsFiniteSet(A) /\ IsFiniteSet(B) /\ A \cap B = {}
        /\ Cardinality(A) = m * c /\ Cardinality(B) = c
    BY <2>1, <2>3
  <2> HIDE DEF A, B
  <2>5. Cardinality(A \cap B) = 0
    BY <2>4, FS_EmptySet
  <2>6. /\ IsFiniteSet(A \cup B)
        /\ Cardinality(A \cup B) = Cardinality(A) + Cardinality(B) - Cardinality(A \cap B)
    BY <2>4, FS_Union
  <2>7. m * c \in Nat /\ (m + 1) * c = m * c + c
    OBVIOUS
  <2>8. Cardinality(A \cup B) = (m + 1) * c
    BY <2>4, <2>5, <2>6, <2>7
  <2>9. Upto(m + 1) = A \cup B
    BY <2>2 DEF A, B
  <2> HIDE DEF Upto
  <2> QED
    BY <2>6, <2>8, <2>9
<1> HIDE DEF T
<1>3. n \in T
  BY <1>1, <1>2, Induction
<1> QED
  BY <1>3 DEF T
-----------------------------------------------------------------------------

(* Adding an element to a sequence of one.                                 *)
LEMMA AppendToOne == \A a, b : Append(<<a>>, b) = <<a, b>>
<1> SUFFICES ASSUME NEW a, NEW b PROVE Append(<<a>>, b) = <<a, b>>
  OBVIOUS
<1> DEFINE S == {a, b}
<1>1. /\ <<a>> \in Seq(S) /\ <<a, b>> \in Seq(S)
      /\ Len(<<a>>) = 1 /\ Len(<<a, b>>) = 2 /\ <<a, b>>[1] = a /\ <<a, b>>[2] = b
  OBVIOUS
<1>2. /\ Append(<<a>>, b) \in Seq(S) /\ Len(Append(<<a>>, b)) = 2
      /\ Append(<<a>>, b)[1] = a /\ Append(<<a>>, b)[2] = b
  BY <1>1, AppendProperties
<1>3. \A i \in 1 .. 2 : i = 1 \/ i = 2
  OBVIOUS
<1>4. \A i \in 1 .. 2 : Append(<<a>>, b)[i] = <<a, b>>[i]
  BY <1>1, <1>2, <1>3
<1> HIDE DEF S
<1> QED
  BY <1>1, <1>2, <1>4, SeqEqual

(* Sequences: where their elements come from and go to.                    *)

LEMMA ConcatHolds ==
  ASSUME NEW S, NEW s \in Seq(S), NEW t \in Seq(S)
  PROVE  /\ s \o t \in Seq(S)
         /\ \A i \in DOMAIN s : i \in DOMAIN (s \o t) /\ (s \o t)[i] = s[i]
         /\ \A i \in DOMAIN t : i + Len(s) \in DOMAIN (s \o t) /\ (s \o t)[i + Len(s)] = t[i]
         /\ \A i \in DOMAIN (s \o t) :
              \/ i \in DOMAIN s /\ (s \o t)[i] = s[i]
              \/ \E j \in DOMAIN t : i = j + Len(s) /\ (s \o t)[i] = t[j]
<1>1. /\ Len(s) \in Nat /\ Len(t) \in Nat /\ DOMAIN s = 1 .. Len(s) /\ DOMAIN t = 1 .. Len(t)
      /\ s \o t \in Seq(S) /\ DOMAIN (s \o t) = 1 .. Len(s) + Len(t)
      /\ \A i \in 1 .. Len(s) + Len(t) :
           (s \o t)[i] = IF i <= Len(s) THEN s[i] ELSE t[i - Len(s)]
  BY ConcatProperties, LenProperties
<1> DEFINE u == s \o t
<1> HIDE DEF u
<1>2. ASSUME NEW i \in DOMAIN s PROVE i \in DOMAIN u /\ u[i] = s[i]
  BY <1>1 DEF u
<1>3. ASSUME NEW i \in DOMAIN t PROVE i + Len(s) \in DOMAIN u /\ u[i + Len(s)] = t[i]
  <2>1. i + Len(s) \in 1 .. Len(s) + Len(t) /\ ~ (i + Len(s) <= Len(s)) /\ i + Len(s) - Len(s) = i
    BY <1>1
  <2> QED
    BY <1>1, <2>1 DEF u
<1>4. ASSUME NEW i \in DOMAIN u
      PROVE  \/ i \in DOMAIN s /\ u[i] = s[i]
             \/ \E j \in DOMAIN t : i = j + Len(s) /\ u[i] = t[j]
  <2>1. CASE i <= Len(s)
    BY <1>1, <2>1 DEF u
  <2>2. CASE ~ (i <= Len(s))
    <3>1. i - Len(s) \in DOMAIN t /\ i = (i - Len(s)) + Len(s) /\ u[i] = t[i - Len(s)]
      BY <1>1, <2>2 DEF u
    <3> QED
      BY <3>1
  <2> QED
    BY <2>1, <2>2
<1> QED
  BY <1>1, <1>2, <1>3, <1>4 DEF u

LEMMA TailHolds ==
  ASSUME NEW S, NEW s \in Seq(S), s # << >>
  PROVE  /\ Tail(s) \in Seq(S) /\ Len(Tail(s)) = Len(s) - 1 /\ Head(s) = s[1] /\ 1 \in DOMAIN s
         /\ \A i \in DOMAIN Tail(s) : i + 1 \in DOMAIN s /\ Tail(s)[i] = s[i + 1]
         /\ \A i \in DOMAIN s : i = 1 \/ (i - 1 \in DOMAIN Tail(s) /\ Tail(s)[i - 1] = s[i])
<1>1. /\ Len(s) \in Nat \ {0} /\ DOMAIN s = 1 .. Len(s) /\ Tail(s) \in Seq(S)
      /\ Len(Tail(s)) = Len(s) - 1 /\ DOMAIN Tail(s) = 1 .. Len(s) - 1
      /\ \A i \in 1 .. Len(s) - 1 : Tail(s)[i] = s[i + 1]
  BY HeadTailProperties, LenProperties, EmptySeq
<1>2. Head(s) = s[1]
  OBVIOUS
<1>3. \A i \in 2 .. Len(s) : i - 1 \in 1 .. Len(s) - 1 /\ (i - 1) + 1 = i
  BY <1>1
<1> DEFINE u == Tail(s)
<1>4. \A i \in 2 .. Len(s) : u[i - 1] = s[i]
  BY <1>1, <1>3
<1>5. \A i \in 1 .. Len(s) - 1 : i + 1 \in 1 .. Len(s)
  BY <1>1
<1>6. \A i \in 1 .. Len(s) : i = 1 \/ i \in 2 .. Len(s)
  BY <1>1
<1> HIDE DEF u
<1>7. u = Tail(s)
  BY DEF u
<1> QED
  BY <1>1, <1>2, <1>3, <1>4, <1>5, <1>6, <1>7

LEMMA AppendHolds ==
  ASSUME NEW S, NEW s \in Seq(S), NEW x \in S
  PROVE  /\ Append(s, x) \in Seq(S) /\ Len(Append(s, x)) = Len(s) + 1 /\ Len(s) \in Nat
         /\ Append(s, x)[Len(s) + 1] = x /\ Len(s) + 1 \in DOMAIN Append(s, x)
         /\ \A i \in DOMAIN s : i \in DOMAIN Append(s, x) /\ Append(s, x)[i] = s[i] /\ i < Len(s) + 1
         /\ \A i \in DOMAIN Append(s, x) : i = Len(s) + 1 \/ i \in DOMAIN s
<1>1. /\ Append(s, x) \in Seq(S) /\ Len(Append(s, x)) = Len(s) + 1 /\ Len(s) \in Nat
      /\ Append(s, x)[Len(s) + 1] = x
      /\ \A i \in 1 .. Len(s) : Append(s, x)[i] = s[i]
      /\ DOMAIN s = 1 .. Len(s) /\ DOMAIN Append(s, x) = 1 .. Len(s) + 1
  BY AppendProperties, LenProperties
<1> QED
  BY <1>1

(* What a sequence holds, as a set.                                        *)
Held(s) == {s[i] : i \in DOMAIN s}

LEMMA HeldAre ==
  ASSUME NEW S, NEW s \in Seq(S)
  PROVE  /\ Held(s) \subseteq S /\ Held(<< >>) = {}
         /\ s # << >> => Held(s) = {Head(s)} \cup Held(Tail(s)) /\ Head(s) \in S
         /\ \A x \in S : Held(Append(s, x)) = Held(s) \cup {x}
<1>1. Held(s) \subseteq S /\ Held(<< >>) = {}
  BY DEF Held
<1>2. ASSUME s # << >> PROVE Held(s) = {Head(s)} \cup Held(Tail(s)) /\ Head(s) \in S
  <2>1. /\ Head(s) = s[1] /\ 1 \in DOMAIN s /\ Head(s) \in S
        /\ \A i \in DOMAIN Tail(s) : i + 1 \in DOMAIN s /\ Tail(s)[i] = s[i + 1]
        /\ \A i \in DOMAIN s : i = 1 \/ (i - 1 \in DOMAIN Tail(s) /\ Tail(s)[i - 1] = s[i])
    BY <1>2, TailHolds, HeadTailProperties
  <2> DEFINE u == Tail(s)
             h == Head(s)
  <2>2. /\ h = s[1] /\ 1 \in DOMAIN s
        /\ \A i \in DOMAIN u : i + 1 \in DOMAIN s /\ u[i] = s[i + 1]
        /\ \A i \in DOMAIN s : i = 1 \/ (i - 1 \in DOMAIN u /\ u[i - 1] = s[i])
    BY <2>1
  <2> HIDE DEF u, h
  <2>3. Held(s) = {h} \cup Held(u)
    <3>1. Held(s) \subseteq {h} \cup Held(u)
      BY <2>2 DEF Held
    <3>2. {h} \cup Held(u) \subseteq Held(s)
      BY <2>2 DEF Held
    <3> QED
      BY <3>1, <3>2
  <2> QED
    BY <2>1, <2>3 DEF u, h
<1>3. ASSUME NEW x \in S PROVE Held(Append(s, x)) = Held(s) \cup {x}
  <2> DEFINE u == Append(s, x)
  <2>1. /\ u[Len(s) + 1] = x /\ Len(s) + 1 \in DOMAIN u
        /\ \A i \in DOMAIN s : i \in DOMAIN u /\ u[i] = s[i]
        /\ \A i \in DOMAIN u : i = Len(s) + 1 \/ i \in DOMAIN s
    BY AppendHolds
  <2> HIDE DEF u
  <2>2. Held(u) = Held(s) \cup {x}
    <3>1. Held(s) \cup {x} \subseteq Held(u)
      BY <2>1 DEF Held
    <3>2. Held(u) \subseteq Held(s) \cup {x}
      BY <2>1 DEF Held
    <3> QED
      BY <3>1, <3>2
  <2> QED
    BY <2>2 DEF u
<1> QED
  BY <1>1, <1>2, <1>3
=============================================================================
