------------------------- MODULE StreamPackingProofs -------------------------
(***************************************************************************)
(* Proofs about StreamPacking.  One process by itself goes through the     *)
(* rounds of an epoch one by one (Lone); the generator is always where it  *)
(* would be after some of them, because of each sample of the round        *)
(* exactly one ticket or answer is about (Feeding).  PacksWhole then holds *)
(* round by round.  The batches that rank 0 takes are counted over the     *)
(* epochs (Training), which gives DeliveredInOrder.                        *)
(***************************************************************************)
EXTENDS StreamPacking, DataLemmas, TLAPS

(* A set that holds the empty sequence, and with a sequence what adding an *)
(* element to it gives, holds every sequence.                              *)
LEMMA SeqInduction ==
  ASSUME NEW S, NEW T, << >> \in T, \A s \in Seq(S), e \in S : s \in T => Append(s, e) \in T
  PROVE  Seq(S) \subseteq T
<1> DEFINE U == {n \in Nat : \A s \in Seq(S) : Len(s) = n => s \in T}
<1>1. 0 \in U
  BY EmptySeq
<1>2. ASSUME NEW n \in Nat, n \in U PROVE n + 1 \in U
  <2> SUFFICES ASSUME NEW s \in Seq(S), Len(s) = n + 1 PROVE s \in T
    OBVIOUS
  <2>1. s # << >>
    BY EmptySeq
  <2>2. PICK t \in Seq(S), e \in S : s = Append(t, e)
    BY <2>1, SequenceEmptyOrAppend
  <2>3. Len(s) = Len(t) + 1 /\ Len(t) \in Nat
    BY <2>2, AppendProperties, LenProperties
  <2>4. t \in T
    BY <1>2, <2>3
  <2> QED
    BY <2>2, <2>4
<1> HIDE DEF U
<1>3. Nat \subseteq U
  BY <1>1, <1>2, Induction
<1>4. ASSUME NEW s \in Seq(S) PROVE s \in T
  <2>1. Len(s) \in U
    BY <1>3, LenProperties
  <2> QED
    BY <2>1 DEF U
<1> QED
  BY <1>4

(* Two functions that agree at 0, and at a number when they agree at the   *)
(* one before it, agree at every number.                                   *)
LEMMA Agree ==
  ASSUME NEW n \in Nat, NEW f, NEW g, f[0] = g[0],
         \A m \in 1 .. n : f[m - 1] = g[m - 1] => f[m] = g[m]
  PROVE  f[n] = g[n]
<1> DEFINE T == {m \in Nat : m <= n => f[m] = g[m]}
<1>1. 0 \in T
  OBVIOUS
<1>2. ASSUME NEW m \in Nat, m \in T PROVE m + 1 \in T
  <2> SUFFICES ASSUME m + 1 <= n PROVE f[m + 1] = g[m + 1]
    OBVIOUS
  <2>1. m + 1 \in 1 .. n /\ (m + 1) - 1 = m /\ f[m] = g[m]
    BY <1>2
  <2> QED
    BY <2>1
<1> HIDE DEF T
<1>3. n \in T
  BY <1>1, <1>2, Induction
<1> QED
  BY <1>3 DEF T

(* Definition by recursion: step[m][x] is the value at m when x is the     *)
(* one before it.                                                          *)
Run(f, n, X, base, step) ==
  f \in [0 .. n -> X] /\ f[0] = base /\ \A m \in 1 .. n : f[m] = step[m][f[m - 1]]

(* Every such definition has a function that meets it.                     *)
LEMMA Recursion ==
  ASSUME NEW n \in Nat, NEW X, NEW base \in X, NEW step \in [1 .. n -> [X -> X]]
  PROVE  \E f : Run(f, n, X, base, step)
<1> DEFINE Is(f, m) == /\ f \in [0 .. m -> X] /\ f[0] = base
                       /\ \A i \in 1 .. m : f[i] = step[i][f[i - 1]]
           T == {m \in Nat : m <= n => \E f : Is(f, m)}
<1>1. 0 \in T
  <2> DEFINE f == [i \in 0 .. 0 |-> base]
  <2>1. Is(f, 0)
    OBVIOUS
  <2> HIDE DEF f, Is
  <2> QED
    BY <2>1
<1>2. ASSUME NEW m \in Nat, m \in T PROVE m + 1 \in T
  <2> SUFFICES ASSUME m + 1 <= n PROVE \E f : Is(f, m + 1)
    OBVIOUS
  <2>1. PICK f : Is(f, m)
    BY <1>2
  <2>2. f[m] \in X /\ m + 1 \in 1 .. n
    BY <2>1
  <2> DEFINE v == step[m + 1][f[m]]
  <2>3. v \in X
    BY <2>2
  <2> DEFINE g == [i \in 0 .. m + 1 |-> IF i = m + 1 THEN v ELSE f[i]]
  <2>4. g \in [0 .. m + 1 -> X]
    <3> HIDE DEF v
    <3> QED
      BY <2>1, <2>3
  <2>5. g[0] = base
    BY <2>1
  <2>6. ASSUME NEW i \in 1 .. m + 1 PROVE g[i] = step[i][g[i - 1]]
    <3>1. CASE i = m + 1
      <4>1. g[i] = v /\ g[i - 1] = f[m]
        BY <3>1
      <4> QED
        BY <3>1, <4>1
    <3>2. CASE i \in 1 .. m
      <4>1. g[i] = f[i] /\ g[i - 1] = f[i - 1]
        BY <3>2
      <4> QED
        BY <2>1, <3>2, <4>1
    <3> QED
      BY <3>1, <3>2
  <2> HIDE DEF g
  <2>7. Is(g, m + 1)
    BY <2>4, <2>5, <2>6
  <2> HIDE DEF Is
  <2> QED
    BY <2>7
<1> HIDE DEF T
<1>3. n \in T
  BY <1>1, <1>2, Induction
<1>4. PICK f : Is(f, n)
  BY <1>3 DEF T
<1> QED
  BY <1>4 DEF Run

(* Concatenation of the sequences over S is associative.                   *)
Assoc(S) == \A s, t, u \in Seq(S) : (s \o t) \o u = s \o (t \o u)

LEMMA ConcatAssoc == \A S : Assoc(S)
BY ConcatAssociative DEF Assoc

LEMMA ConcatOfAppend ==
  ASSUME NEW S, NEW s \in Seq(S), NEW t \in Seq(S), NEW e \in S
  PROVE  s \o Append(t, e) = Append(s \o t, e)
<1>1. s \o t \in Seq(S) /\ <<e>> \in Seq(S)
  BY ConcatProperties
<1>2. Append(s \o t, e) = (s \o t) \o <<e>>
  BY <1>1, AppendIsConcat
<1>3. Append(t, e) = t \o <<e>>
  BY AppendIsConcat
<1>4. (s \o t) \o <<e>> = s \o (t \o <<e>>)
  BY <1>1, ConcatAssociative
<1> QED
  BY <1>2, <1>3, <1>4

-----------------------------------------------------------------------------
(* Concatenation of sequences                                              *)

(* FlattenSeq concatenates one sequence after the other.                   *)
LEMMA FlattenIs ==
  ASSUME NEW S, NEW ss \in Seq(Seq(S))
  PROVE  \E f \in [0 .. Len(ss) -> Seq(S)] :
           /\ f[0] = << >> /\ FlattenSeq(ss) = f[Len(ss)]
           /\ \A m \in 1 .. Len(ss) : f[m] = f[m - 1] \o ss[m]
<1> DEFINE n == Len(ss)
           X == Seq(S)
           step == [m \in 1 .. n |-> [x \in X |-> x \o ss[m]]]
<1>1. n \in Nat /\ << >> \in X /\ \A m \in 1 .. n : ss[m] \in X
  BY LenProperties, ElementOfSeq, EmptySeq
<1>2. step \in [1 .. n -> [X -> X]]
  <2>1. ASSUME NEW m \in 1 .. n, NEW x \in X PROVE x \o ss[m] \in X
    BY <1>1, ConcatProperties
  <2> HIDE DEF n, X
  <2> QED
    BY <2>1
<1>3. PICK f : Run(f, n, X, << >>, step)
  <2> HIDE DEF step, X, n
  <2> QED
    BY <1>1, <1>2, Recursion
<1>4. f \in [0 .. n -> X] /\ f[0] = << >>
  BY <1>3 DEF Run
<1>5. ASSUME NEW m \in 1 .. n PROVE f[m] = f[m - 1] \o ss[m]
  <2>1. m - 1 \in 0 .. n
    BY <1>1
  <2>2. f[m - 1] \in X
    BY <1>4, <2>1
  <2>3. f[m] = step[m][f[m - 1]]
    BY <1>3 DEF Run
  <2>4. step[m][f[m - 1]] = f[m - 1] \o ss[m]
    <3> HIDE DEF X, n
    <3> QED
      BY <2>2
  <2> QED
    BY <2>3, <2>4
<1>6. FlattenSeq(ss) = f[n]
  <2>1. CASE n = 0
    <3>1. ss = << >>
      BY <2>1, EmptySeq
    <3> QED
      BY <1>4, <2>1, <3>1 DEF FlattenSeq
  <2>2. CASE n # 0
    <3> DEFINE Is(h) == h = [i \in 1 .. n |-> IF i = 1 THEN ss[i] ELSE h[i - 1] \o ss[i]]
               h == CHOOSE h : Is(h)
    <3>1. FlattenSeq(ss) = h[n]
      BY <2>2 DEF FlattenSeq
    <3>2. Is([i \in 1 .. n |-> f[i]])
      <4> DEFINE g == [i \in 1 .. n |-> f[i]]
      <4>1. ASSUME NEW i \in 1 .. n PROVE g[i] = IF i = 1 THEN ss[i] ELSE g[i - 1] \o ss[i]
        <5>1. CASE i = 1
          <6>1. ss[1] \in Seq(S)
            BY <1>1, <2>2
          <6>2. << >> \o ss[1] = ss[1]
            BY <6>1, ConcatEmptySeq
          <6>0. 1 \in 1 .. n /\ 1 - 1 = 0
            BY <5>1
          <6>3. f[1] = f[1 - 1] \o ss[1]
            BY <1>5, <6>0, Zenon
          <6> QED
            BY <1>4, <5>1, <6>0, <6>2, <6>3
        <5>2. CASE i # 1
          <6>1. i - 1 \in 1 .. n
            BY <1>1, <5>2
          <6>2. g[i] = f[i] /\ g[i - 1] = f[i - 1]
            BY <6>1
          <6> QED
            BY <1>5, <5>2, <6>2
        <5> QED
          BY <5>1, <5>2
      <4>2. g = [i \in 1 .. n |-> g[i]]
        OBVIOUS
      <4> HIDE DEF g
      <4>3. Is(g)
        BY <4>1, <4>2
      <4> QED
        BY <4>3 DEF g
    <3>3. Is(h)
      <4> HIDE DEF Is
      <4> QED
        BY <3>2
    <3> HIDE DEF h
    <3> DEFINE k == [i \in 0 .. n |-> IF i = 0 THEN << >> ELSE h[i]]
    <3>4. k[0] = f[0]
      BY <1>1, <1>4
    <3>5. ASSUME NEW m \in 1 .. n, k[m - 1] = f[m - 1] PROVE k[m] = f[m]
      <4>1. k[m] = h[m]
        OBVIOUS
      <4>2. CASE m = 1
        <5>1. h[1] = ss[1]
          BY <3>3, <4>2
        <5>0. 1 \in 1 .. n /\ 1 - 1 = 0
          BY <1>1, <4>2
        <5>2. f[1] = f[1 - 1] \o ss[1] /\ ss[1] \in Seq(S)
          BY <1>1, <1>5, <5>0, Zenon
        <5>3. << >> \o ss[1] = ss[1]
          BY <5>2, ConcatEmptySeq
        <5> QED
          BY <1>4, <4>1, <4>2, <5>0, <5>1, <5>2, <5>3
      <4>3. CASE m # 1
        <5>1. m - 1 \in 1 .. n
          BY <1>1, <4>3
        <5>2. k[m - 1] = h[m - 1]
          BY <5>1
        <5>3. h[m] = h[m - 1] \o ss[m]
          BY <3>3, <4>3
        <5> QED
          BY <1>5, <3>5, <4>1, <5>2, <5>3
      <4> QED
        BY <4>2, <4>3
    <3> HIDE DEF k
    <3>6. k[n] = f[n]
      <4>1. \A m \in 1 .. n : k[m - 1] = f[m - 1] => k[m] = f[m]
        BY <3>5
      <4>2. n \in Nat
        BY <1>1
      <4> HIDE DEF n
      <4> QED
        BY <3>4, <4>1, <4>2, Agree
    <3>7. k[n] = h[n]
      BY <1>1, <2>2 DEF k
    <3> QED
      BY <1>1, <3>1, <3>6, <3>7
  <2> QED
    BY <2>1, <2>2
<1> QED
  BY <1>4, <1>5, <1>6

LEMMA FlattenType ==
  ASSUME NEW S, NEW ss \in Seq(Seq(S))
  PROVE  FlattenSeq(ss) \in Seq(S)
<1>1. PICK f \in [0 .. Len(ss) -> Seq(S)] : FlattenSeq(ss) = f[Len(ss)]
  BY FlattenIs
<1>2. Len(ss) \in 0 .. Len(ss)
  BY LenProperties
<1> QED
  BY <1>1, <1>2

LEMMA FlattenEmpty == FlattenSeq(<< >>) = << >>
BY DEF FlattenSeq

(* One sequence more is added at its end.                                  *)
LEMMA FlattenAppend ==
  ASSUME NEW S, NEW ss \in Seq(Seq(S)), NEW s \in Seq(S)
  PROVE  FlattenSeq(Append(ss, s)) = FlattenSeq(ss) \o s
<1> DEFINE n == Len(ss)
           tt == Append(ss, s)
<1>1. /\ tt \in Seq(Seq(S)) /\ Len(tt) = n + 1 /\ tt[n + 1] = s /\ n \in Nat
      /\ \A m \in 1 .. n : tt[m] = ss[m]
  BY AppendProperties, LenProperties
<1>2. PICK f \in [0 .. n -> Seq(S)] :
           /\ f[0] = << >> /\ FlattenSeq(ss) = f[n]
           /\ \A m \in 1 .. n : f[m] = f[m - 1] \o ss[m]
  BY FlattenIs
<1> HIDE DEF tt
<1>3. PICK g \in [0 .. Len(tt) -> Seq(S)] :
           /\ g[0] = << >> /\ FlattenSeq(tt) = g[Len(tt)]
           /\ \A m \in 1 .. Len(tt) : g[m] = g[m - 1] \o tt[m]
  BY <1>1, FlattenIs
<1>4. ASSUME NEW m \in 1 .. n, f[m - 1] = g[m - 1] PROVE f[m] = g[m]
  <2>1. m \in 1 .. Len(tt)
    BY <1>1
  <2>2. g[m] = g[m - 1] \o tt[m] /\ tt[m] = ss[m] /\ f[m] = f[m - 1] \o ss[m]
    BY <1>1, <1>2, <1>3, <2>1
  <2> QED
    BY <1>4, <2>2
<1>5. f[n] = g[n]
  <2>1. n \in Nat /\ f[0] = g[0]
    BY <1>1, <1>2, <1>3
  <2>2. \A m \in 1 .. n : f[m - 1] = g[m - 1] => f[m] = g[m]
    BY <1>4
  <2> HIDE DEF n
  <2> QED
    BY <2>1, <2>2, Agree
<1>6. n + 1 \in 1 .. Len(tt) /\ (n + 1) - 1 = n
  BY <1>1
<1>7. g[n + 1] = g[n] \o tt[n + 1]
  BY <1>3, <1>6
<1>8. FlattenSeq(tt) = FlattenSeq(ss) \o s
  BY <1>1, <1>2, <1>3, <1>5, <1>7
<1> QED
  BY <1>8 DEF tt

(* Concatenation of sequences of sequences.                                *)
LEMMA FlattenConcat ==
  ASSUME NEW S, NEW ss \in Seq(Seq(S)), NEW tt \in Seq(Seq(S))
  PROVE  FlattenSeq(ss \o tt) = FlattenSeq(ss) \o FlattenSeq(tt)
<1>0. Assoc(S)
  BY ConcatAssoc
<1> DEFINE Good(t) == FlattenSeq(ss \o t) = FlattenSeq(ss) \o FlattenSeq(t)
           T == {t \in Seq(Seq(S)) : Good(t)}
<1>1. << >> \in T
  <2>1. << >> \in Seq(Seq(S)) /\ ss \o << >> = ss
    BY EmptySeq, ConcatEmptySeq
  <2>2. FlattenSeq(ss) \in Seq(S) 
    BY FlattenType
  <2>3. FlattenSeq(ss) \o << >> = FlattenSeq(ss)
    BY <2>2, ConcatEmptySeq
  <2> QED
    BY <2>1, <2>3, FlattenEmpty
<1>2. ASSUME NEW t \in Seq(Seq(S)), NEW e \in Seq(S), t \in T PROVE Append(t, e) \in T
  <2>1. /\ Append(t, e) \in Seq(Seq(S)) /\ ss \o t \in Seq(Seq(S))
        /\ FlattenSeq(ss) \in Seq(S) /\ FlattenSeq(t) \in Seq(S)
    BY AppendProperties, ConcatProperties, FlattenType
  <2>2. ss \o Append(t, e) = Append(ss \o t, e)
    BY ConcatOfAppend
  <2>3. FlattenSeq(Append(ss \o t, e)) = FlattenSeq(ss \o t) \o e
    BY <2>1, FlattenAppend
  <2>4. FlattenSeq(Append(t, e)) = FlattenSeq(t) \o e
    BY FlattenAppend
  <2>5. FlattenSeq(ss \o t) = FlattenSeq(ss) \o FlattenSeq(t)
    BY <1>2
  <2>6. (FlattenSeq(ss) \o FlattenSeq(t)) \o e = FlattenSeq(ss) \o (FlattenSeq(t) \o e)
    BY <1>0, <2>1, Zenon DEF Assoc
  <2>7. Good(Append(t, e))
    BY <2>2, <2>3, <2>4, <2>5, <2>6
  <2> QED
    BY <2>1, <2>7
<1> HIDE DEF T
<1>3. tt \in T
  BY <1>1, <1>2, SeqInduction
<1> QED
  BY <1>3 DEF T

(* What a concatenation holds.                                             *)
LEMMA HeldConcat ==
  ASSUME NEW S, NEW s \in Seq(S), NEW t \in Seq(S)
  PROVE  Held(s \o t) = Held(s) \cup Held(t)
<1> DEFINE u == s \o t
<1>1. /\ \A i \in DOMAIN s : i \in DOMAIN u /\ u[i] = s[i]
      /\ \A i \in DOMAIN t : i + Len(s) \in DOMAIN u /\ u[i + Len(s)] = t[i]
      /\ \A i \in DOMAIN u : \/ i \in DOMAIN s /\ u[i] = s[i]
                             \/ \E j \in DOMAIN t : i = j + Len(s) /\ u[i] = t[j]
  BY ConcatHolds
<1> HIDE DEF u
<1>2. Held(s) \cup Held(t) \subseteq Held(u)
  BY <1>1 DEF Held
<1>3. Held(u) \subseteq Held(s) \cup Held(t)
  BY <1>1 DEF Held
<1>4. Held(u) = Held(s) \cup Held(t)
  BY <1>2, <1>3
<1> QED
  BY <1>4 DEF u

(* What the concatenation holds is what one of them holds.                 *)
LEMMA FlattenHeld ==
  ASSUME NEW S, NEW ss \in Seq(Seq(S))
  PROVE  Held(FlattenSeq(ss)) = UNION {Held(ss[i]) : i \in DOMAIN ss}
<1> DEFINE All(t) == UNION {Held(t[i]) : i \in DOMAIN t}
           Good(t) == Held(FlattenSeq(t)) = All(t)
           T == {t \in Seq(Seq(S)) : Good(t)}
<1>1. << >> \in T
  <2>1. << >> \in Seq(Seq(S))
    BY EmptySeq
  <2>2. Held(<< >>) = {} /\ All(<< >>) = {}
    BY HeldAre, EmptySeq
  <2> QED
    BY <2>1, <2>2, FlattenEmpty
<1>2. ASSUME NEW t \in Seq(Seq(S)), NEW e \in Seq(S), t \in T PROVE Append(t, e) \in T
  <2>1. Append(t, e) \in Seq(Seq(S)) /\ FlattenSeq(t) \in Seq(S)
    BY AppendProperties, FlattenType
  <2>2. Held(FlattenSeq(Append(t, e))) = Held(FlattenSeq(t)) \cup Held(e)
    <3>1. FlattenSeq(Append(t, e)) = FlattenSeq(t) \o e
      BY FlattenAppend
    <3> QED
      BY <2>1, <3>1, HeldConcat
  <2>3. Held(FlattenSeq(t)) = All(t)
    BY <1>2
  <2> DEFINE u == Append(t, e)
  <2>4. /\ u[Len(t) + 1] = e /\ Len(t) + 1 \in DOMAIN u
        /\ \A i \in DOMAIN t : i \in DOMAIN u /\ u[i] = t[i]
        /\ \A i \in DOMAIN u : i = Len(t) + 1 \/ i \in DOMAIN t
    BY AppendHolds
  <2>5. All(u) = All(t) \cup Held(e)
    <3> HIDE DEF u
    <3>1. ASSUME NEW x \in All(u) PROVE x \in All(t) \cup Held(e)
      <4>1. PICK i \in DOMAIN u : x \in Held(u[i])
        OBVIOUS
      <4>2. CASE i = Len(t) + 1
        BY <2>4, <4>1, <4>2
      <4>3. CASE i \in DOMAIN t
        BY <2>4, <4>1, <4>3
      <4> QED
        BY <2>4, <4>2, <4>3
    <3>2. ASSUME NEW x \in All(t) \cup Held(e) PROVE x \in All(u)
      <4>1. CASE x \in Held(e)
        BY <2>4, <4>1
      <4>2. CASE x \in All(t)
        <5>1. PICK i \in DOMAIN t : x \in Held(t[i])
          BY <4>2
        <5> QED
          BY <2>4, <5>1
      <4> QED
        BY <4>1, <4>2
    <3> QED
      BY <3>1, <3>2
  <2> HIDE DEF All
  <2>6. Good(u)
    BY <2>2, <2>3, <2>5
  <2> QED
    BY <2>1, <2>6
<1> HIDE DEF T
<1>3. ss \in T
  BY <1>1, <1>2, SeqInduction
<1> QED
  BY <1>3 DEF T

(* What a flattened sequence holds.                                        *)
LEMMA FlattenAll ==
  ASSUME NEW S, NEW ss \in Seq(Seq(S)), NEW x
  PROVE  x \in Held(FlattenSeq(ss)) <=> \E i \in 1 .. Len(ss) : x \in Held(ss[i])
<1>1. Held(FlattenSeq(ss)) = UNION {Held(ss[i]) : i \in 1 .. Len(ss)}
  BY FlattenHeld, LenProperties
<1> QED
  BY <1>1

(* One of the sequences replaced by one that is longer by an element.      *)
Grown(ss, tt, b, e) ==
  /\ Len(tt) = Len(ss)
  /\ \A i \in 1 .. Len(ss) : tt[i] = IF i = b THEN Append(ss[b], e) ELSE ss[i]

(* One element more in one of the sequences: one more in all.              *)
LEMMA FlattenGrown ==
  ASSUME NEW S, NEW ss \in Seq(Seq(S)), NEW tt \in Seq(Seq(S)),
         NEW b \in 1 .. Len(ss), NEW e \in S, Grown(ss, tt, b, e)
  PROVE  /\ Len(FlattenSeq(tt)) = Len(FlattenSeq(ss)) + 1
         /\ Held(FlattenSeq(tt)) = Held(FlattenSeq(ss)) \cup {e}
<1> DEFINE n == Len(ss)
<1>1. n \in Nat /\ \A i \in 1 .. n : ss[i] \in Seq(S)
  BY LenProperties, ElementOfSeq
<1>2. /\ Append(ss[b], e) \in Seq(S) /\ Len(Append(ss[b], e)) = Len(ss[b]) + 1
      /\ Held(Append(ss[b], e)) = Held(ss[b]) \cup {e}
  BY <1>1, AppendProperties, HeldAre
<1>3. /\ Len(tt) = n
      /\ \A i \in 1 .. n : tt[i] = IF i = b THEN Append(ss[b], e) ELSE ss[i]
  BY DEF Grown
<1>4. Held(FlattenSeq(tt)) = Held(FlattenSeq(ss)) \cup {e}
  <2>1. \A x : x \in Held(FlattenSeq(tt)) <=> \E i \in 1 .. n : x \in Held(tt[i])
    BY <1>3, FlattenAll
  <2>2. \A x : x \in Held(FlattenSeq(ss)) <=> \E i \in 1 .. n : x \in Held(ss[i])
    BY FlattenAll
  <2>3. ASSUME NEW x PROVE x \in Held(FlattenSeq(tt)) <=> x \in Held(FlattenSeq(ss)) \cup {e}
    <3>1. ASSUME NEW i \in 1 .. n
          PROVE  x \in Held(tt[i]) <=> x \in Held(ss[i]) \/ (i = b /\ x = e)
      BY <1>2, <1>3
    <3> QED
      BY <2>1, <2>2, <3>1
  <2> QED
    BY <2>3
<1>5. Len(FlattenSeq(tt)) = Len(FlattenSeq(ss)) + 1
  <2>1. PICK f \in [0 .. n -> Seq(S)] :
           /\ f[0] = << >> /\ FlattenSeq(ss) = f[n]
           /\ \A m \in 1 .. n : f[m] = f[m - 1] \o ss[m]
    BY FlattenIs
  <2>2. PICK g \in [0 .. n -> Seq(S)] :
           /\ g[0] = << >> /\ FlattenSeq(tt) = g[n]
           /\ \A m \in 1 .. n : g[m] = g[m - 1] \o tt[m]
    <3>1. \E g \in [0 .. Len(tt) -> Seq(S)] :
             /\ g[0] = << >> /\ FlattenSeq(tt) = g[Len(tt)]
             /\ \A m \in 1 .. Len(tt) : g[m] = g[m - 1] \o tt[m]
      BY FlattenIs
    <3> QED
      BY <1>3, <3>1
  <2> DEFINE k == [m \in 0 .. n |-> Len(g[m])]
             h == [m \in 0 .. n |-> Len(f[m]) + (IF m >= b THEN 1 ELSE 0)]
  <2>3. k[0] = h[0]
    BY <1>1, <2>1, <2>2, EmptySeq
  <2>4. ASSUME NEW m \in 1 .. n, k[m - 1] = h[m - 1] PROVE k[m] = h[m]
    <3>1. /\ f[m - 1] \in Seq(S) /\ g[m - 1] \in Seq(S)
          /\ f[m] = f[m - 1] \o ss[m] /\ g[m] = g[m - 1] \o tt[m]
          /\ m \in 0 .. n /\ m - 1 \in 0 .. n
      <4>1. m \in 0 .. n /\ m - 1 \in 0 .. n
        BY <1>1
      <4>2. f[m - 1] \in Seq(S) /\ g[m - 1] \in Seq(S)
        BY <4>1
      <4>3. f[m] = f[m - 1] \o ss[m] /\ g[m] = g[m - 1] \o tt[m]
        BY <2>1, <2>2, Zenon
      <4> QED
        BY <4>1, <4>2, <4>3
    <3>2. ss[m] \in Seq(S) /\ tt[m] \in Seq(S)
      BY <1>1, <1>2, <1>3
    <3>3. Len(f[m]) = Len(f[m - 1]) + Len(ss[m]) /\ Len(f[m - 1]) \in Nat /\ Len(ss[m]) \in Nat
      BY <3>1, <3>2, ConcatProperties, LenProperties
    <3>4. Len(g[m]) = Len(g[m - 1]) + Len(tt[m]) /\ Len(g[m - 1]) \in Nat /\ Len(tt[m]) \in Nat
      BY <3>1, <3>2, ConcatProperties, LenProperties
    <3>5. Len(tt[m]) = IF m = b THEN Len(ss[m]) + 1 ELSE Len(ss[m])
      BY <1>2, <1>3
    <3>6. k[m - 1] = Len(g[m - 1]) /\ k[m] = Len(g[m])
      BY <3>1
    <3>7. h[m - 1] = Len(f[m - 1]) + (IF m - 1 >= b THEN 1 ELSE 0)
      BY <3>1
    <3>8. h[m] = Len(f[m]) + (IF m >= b THEN 1 ELSE 0)
      BY <3>1
    <3>9. b \in Nat /\ m \in Nat
      BY <1>1
    <3> DEFINE x == Len(f[m - 1])
               y == Len(ss[m])
    <3>10. /\ x \in Nat /\ y \in Nat
           /\ Len(g[m - 1]) = x + (IF m - 1 >= b THEN 1 ELSE 0)
           /\ Len(f[m]) = x + y
           /\ Len(g[m]) = Len(g[m - 1]) + (IF m = b THEN y + 1 ELSE y)
      BY <2>4, <3>3, <3>4, <3>5, <3>6, <3>7
    <3> HIDE DEF h, k, x, y
    <3>11. CASE m < b
      BY <3>6, <3>8, <3>9, <3>10, <3>11
    <3>12. CASE m = b
      BY <3>6, <3>8, <3>9, <3>10, <3>12
    <3>13. CASE m > b
      BY <3>6, <3>8, <3>9, <3>10, <3>13
    <3> QED
      BY <3>9, <3>11, <3>12, <3>13
  <2>5. k[n] = h[n]
    <3>1. \A m \in 1 .. n : k[m - 1] = h[m - 1] => k[m] = h[m]
      BY <2>4
    <3> HIDE DEF k, h, n
    <3> QED
      BY <1>1, <2>3, <3>1, Agree
  <2>6. k[n] = Len(g[n]) /\ h[n] = Len(f[n]) + 1
    BY <1>1
  <2> QED
    BY <2>1, <2>2, <2>5, <2>6
<1> QED
  BY <1>4, <1>5

-----------------------------------------------------------------------------
(* Pieces, samples and loads                                               *)

(* The pieces of a job's samples.                                          *)
PieceOf(j) == {p \in Nat \X Nat : /\ p[1] \in DOMAIN j.stream
                                  /\ p[2] \in DOMAIN j.stream[p[1]].lengths}

(* What PackingAssumption says of a job.                                   *)
LEMMA JobType ==
  ASSUME NEW j \in Jobs
  PROVE  /\ j.stream \in Seq([lengths : Seq(Nat), trouble : Troubles])
         /\ Len(j.stream) \in Nat /\ DOMAIN j.stream = 1 .. Len(j.stream)
         /\ j.batchSize \in Nat \ {0} /\ j.skip \in Nat /\ Interval \in Nat \ {0}
         /\ NumRanks \in Nat \ {0} /\ PackingLength \in Nat
<1>1. j.stream \in Seq([lengths : Seq(Nat), trouble : Troubles])
  BY PackingAssumption
<1>2. Len(j.stream) \in Nat /\ DOMAIN j.stream = 1 .. Len(j.stream)
  <2> DEFINE s == j.stream
             X == [lengths : Seq(Nat), trouble : Troubles]
  <2>1. s \in Seq(X)
    BY <1>1
  <2> HIDE DEF s, X
  <2>2. Len(s) \in Nat /\ DOMAIN s = 1 .. Len(s)
    BY <2>1, LenProperties
  <2> QED
    BY <2>2 DEF s
<1>3. Prefetch \in Nat /\ j.batchSize \in 1 .. Prefetch /\ j.skip \in Nat
  BY PackingAssumption
<1> QED
  BY <1>1, <1>2, <1>3, PackingAssumption

LEMMA SampleType ==
  ASSUME NEW j \in Jobs, NEW s \in 1 .. Len(j.stream)
  PROVE  j.stream[s].lengths \in Seq(Nat)
<1>1. j.stream \in Seq([lengths : Seq(Nat), trouble : Troubles])
  BY JobType
<1>2. j.stream[s] \in [lengths : Seq(Nat), trouble : Troubles]
  BY <1>1, ElementOfSeq
<1> QED
  BY <1>2

LEMMA WeightType ==
  ASSUME NEW j \in Jobs, NEW p \in PieceOf(j)
  PROVE  Weight(j, p) \in Nat
<1>1. p[1] \in 1 .. Len(j.stream) /\ p[2] \in DOMAIN j.stream[p[1]].lengths
  BY JobType DEF PieceOf
<1>2. j.stream[p[1]].lengths \in Seq(Nat)
  BY <1>1, SampleType
<1>3. j.stream[p[1]].lengths[p[2]] \in Nat
  BY <1>1, <1>2, SMTT(60)
<1> QED
  BY <1>3 DEF Weight

(* Encoding yields pieces of the job.                                      *)
LEMMA EncodedType ==
  ASSUME NEW j \in Jobs, NEW s \in 1 .. Len(j.stream)
  PROVE  Encoded(j, s) \in Seq(PieceOf(j))
<1>1. j.stream[s].lengths \in Seq(Nat)
  BY SampleType
<1> DEFINE l == j.stream[s].lengths
<1>2. Len(l) \in Nat /\ DOMAIN l = 1 .. Len(l)
  BY <1>1, LenProperties
<1>3. CASE j.stream[s].trouble # "none"
  BY <1>3, EmptySeq DEF Encoded
<1>4. CASE j.stream[s].trouble = "none"
  <2>1. Encoded(j, s) = [k \in 1 .. Len(l) |-> <<s, k>>]
    BY <1>2, <1>4 DEF Encoded
  <2>2. s \in Nat /\ s \in DOMAIN j.stream
    BY JobType
  <2>3. ASSUME NEW k \in 1 .. Len(l) PROVE <<s, k>> \in PieceOf(j)
    <3>1. k \in Nat /\ k \in DOMAIN l
      BY <1>2
    <3> QED
      BY <2>2, <3>1 DEF PieceOf
  <2> DEFINE n == Len(l)
             P == PieceOf(j)
  <2>4. n \in Nat /\ \A k \in 1 .. n : <<s, k>> \in P
    BY <1>2, <2>3
  <2> HIDE DEF l, n, P
  <2>5. [k \in 1 .. n |-> <<s, k>>] \in Seq(P)
    BY <2>4
  <2> QED
    BY <2>1, <2>5 DEF n, P
<1> QED
  BY <1>3, <1>4

(* The value that Fold binds is the one it computes.                       *)
LEMMA Only == \A x : (CHOOSE v \in {x} : TRUE) = x
OBVIOUS

(* Load adds the weights up, from the first piece to the last.             *)
LEMMA LoadIs ==
  ASSUME NEW j \in Jobs, NEW pack \in Seq(PieceOf(j))
  PROVE  \E f \in [0 .. Len(pack) -> Nat] :
           /\ f[0] = 0 /\ Load(j, pack) = f[Len(pack)]
           /\ \A m \in 1 .. Len(pack) : f[m] = f[m - 1] + Weight(j, pack[m])
<1> DEFINE n == Len(pack)
           step == [m \in 1 .. n |-> [x \in Nat |-> x + Weight(j, pack[m])]]
           Is(h) == h = [m \in 0 .. n |->
                           IF m = 0 THEN 0
                           ELSE CHOOSE v \in {s + Weight(j, pack[m]) : s \in {h[m - 1]}} : TRUE]
           g == CHOOSE h : Is(h)
<1>0. Load(j, pack) = g[n]
  BY DEF Load, Fold
<1>1. n \in Nat /\ \A m \in 1 .. n : pack[m] \in PieceOf(j)
  BY LenProperties, ElementOfSeq
<1>2. \A m \in 1 .. n : Weight(j, pack[m]) \in Nat
  BY <1>1, WeightType
<1>3. step \in [1 .. n -> [Nat -> Nat]]
  BY <1>2
<1>4. PICK f : Run(f, n, Nat, 0, step)
  <2> HIDE DEF step, n
  <2> QED
    BY <1>1, <1>3, Recursion
<1>5. f \in [0 .. n -> Nat] /\ f[0] = 0
  BY <1>4 DEF Run
<1>6. ASSUME NEW m \in 1 .. n PROVE f[m] = f[m - 1] + Weight(j, pack[m])
  <2>1. m - 1 \in 0 .. n
    BY <1>1
  <2>2. f[m - 1] \in Nat
    BY <1>5, <2>1
  <2> QED
    BY <1>4, <2>2 DEF Run
<1>7. ASSUME NEW h, NEW m \in 1 .. n
      PROVE  (CHOOSE v \in {s + Weight(j, pack[m]) : s \in {h[m - 1]}} : TRUE)
               = h[m - 1] + Weight(j, pack[m])
  <2>1. {s + Weight(j, pack[m]) : s \in {h[m - 1]}} = {h[m - 1] + Weight(j, pack[m])}
    OBVIOUS
  <2> QED
    BY <2>1, Only, Zenon
<1>8. Is(f)
  <2>1. ASSUME NEW m \in 0 .. n
        PROVE  f[m] = IF m = 0 THEN 0
                      ELSE CHOOSE v \in {s + Weight(j, pack[m]) : s \in {f[m - 1]}} : TRUE
    <3>1. CASE m = 0
      BY <1>5, <3>1
    <3>2. CASE m # 0
      <4>1. m \in 1 .. n
        BY <1>1, <3>2
      <4> QED
        BY <1>6, <1>7, <3>2, <4>1, Zenon
    <3> QED
      BY <3>1, <3>2
  <2>2. f = [m \in 0 .. n |-> f[m]]
    BY <1>5
  <2> QED
    BY <2>1, <2>2, Zenon
<1>9. Is(g)
  <2> HIDE DEF Is
  <2> QED
    BY <1>8
<1> HIDE DEF g
<1>10. g[0] = f[0]
  BY <1>1, <1>5, <1>9
<1>11. ASSUME NEW m \in 1 .. n, g[m - 1] = f[m - 1] PROVE g[m] = f[m]
  <2>1. m \in 0 .. n /\ m # 0
    BY <1>1
  <2>2. g[m] = CHOOSE v \in {s + Weight(j, pack[m]) : s \in {g[m - 1]}} : TRUE
    BY <1>9, <2>1, Zenon
  <2> QED
    BY <1>6, <1>7, <1>11, <2>2, Zenon
<1>12. g[n] = f[n]
  <2>1. \A m \in 1 .. n : g[m - 1] = f[m - 1] => g[m] = f[m]
    BY <1>11
  <2> HIDE DEF n
  <2> QED
    BY <1>1, <1>10, <2>1, Agree
<1> QED
  BY <1>0, <1>5, <1>6, <1>12, Zenon

-----------------------------------------------------------------------------
(* Next-fit (the sequential strategy)                                      *)

(* A piece more weighs its weight more.                                    *)
LEMMA LoadOfPieces ==
  ASSUME NEW j \in Jobs
  PROVE  /\ Load(j, << >>) = 0
         /\ \A pack \in Seq(PieceOf(j)) : Load(j, pack) \in Nat
         /\ \A pack \in Seq(PieceOf(j)), p \in PieceOf(j) :
              Load(j, Append(pack, p)) = Load(j, pack) + Weight(j, p)
<1>1. Load(j, << >>) = 0
  <2>1. << >> \in Seq(PieceOf(j)) /\ Len(<< >>) = 0
    BY EmptySeq
  <2>2. \E f \in [0 .. Len(<< >>) -> Nat] : f[0] = 0 /\ Load(j, << >>) = f[Len(<< >>)]
    BY <2>1, LoadIs
  <2> QED
    BY <2>1, <2>2
<1>2. ASSUME NEW pack \in Seq(PieceOf(j)) PROVE Load(j, pack) \in Nat
  <2>1. PICK f \in [0 .. Len(pack) -> Nat] : Load(j, pack) = f[Len(pack)]
    BY LoadIs
  <2>2. Len(pack) \in 0 .. Len(pack)
    BY LenProperties
  <2> QED
    BY <2>1, <2>2
<1>3. ASSUME NEW pack \in Seq(PieceOf(j)), NEW p \in PieceOf(j)
      PROVE  Load(j, Append(pack, p)) = Load(j, pack) + Weight(j, p)
  <2> DEFINE n == Len(pack)
             t == Append(pack, p)
  <2>1. /\ t \in Seq(PieceOf(j)) /\ Len(t) = n + 1 /\ t[n + 1] = p /\ n \in Nat
        /\ \A m \in 1 .. n : t[m] = pack[m]
    BY AppendProperties, LenProperties
  <2> HIDE DEF t
  <2>2. PICK f \in [0 .. n -> Nat] :
             /\ f[0] = 0 /\ Load(j, pack) = f[n]
             /\ \A m \in 1 .. n : f[m] = f[m - 1] + Weight(j, pack[m])
    BY LoadIs
  <2>3. PICK g \in [0 .. Len(t) -> Nat] :
             /\ g[0] = 0 /\ Load(j, t) = g[Len(t)]
             /\ \A m \in 1 .. Len(t) : g[m] = g[m - 1] + Weight(j, t[m])
    BY <2>1, LoadIs
  <2>4. ASSUME NEW m \in 1 .. n, g[m - 1] = f[m - 1] PROVE g[m] = f[m]
    <3>1. m \in 1 .. Len(t)
      BY <2>1
    <3> QED
      BY <2>1, <2>2, <2>3, <2>4, <3>1, Zenon
  <2>5. g[n] = f[n]
    <3>1. \A m \in 1 .. n : g[m - 1] = f[m - 1] => g[m] = f[m]
      BY <2>4
    <3>2. n \in Nat /\ g[0] = f[0]
      BY <2>1, <2>2, <2>3
    <3> HIDE DEF n
    <3> QED
      BY <3>1, <3>2, Agree
  <2>6. n + 1 \in 1 .. Len(t) /\ (n + 1) - 1 = n
    BY <2>1
  <2>7. g[n + 1] = g[(n + 1) - 1] + Weight(j, t[n + 1])
    BY <2>3, <2>6, Zenon
  <2>8. Load(j, t) = Load(j, pack) + Weight(j, p)
    BY <2>1, <2>2, <2>3, <2>5, <2>6, <2>7
  <2> QED
    BY <2>8 DEF t
<1> QED
  BY <1>1, <1>2, <1>3

(* What one step of NextFit does to the packs and the open pack.           *)
Sized(j) == [packs : Seq(Seq(PieceOf(j))), cur : Seq(PieceOf(j))]

Closes(j, s, p) == s.cur # << >> /\ ~Fits(Load(j, s.cur) + Weight(j, p))
Closing(s) == [packs |-> Append(s.packs, s.cur), cur |-> << >>]
Putting(j, s, p) ==
  IF Load(j, s.cur) + Weight(j, p) >= PackingLength
    THEN [packs |-> Append(s.packs, Append(s.cur, p)), cur |-> << >>]
    ELSE [s EXCEPT !.cur = Append(@, p)]
NextFitStep(j, s, p) ==
  IF Closes(j, s, p) THEN Putting(j, Closing(s), p) ELSE Putting(j, s, p)

(* A step of next-fit keeps the types.                                     *)
LEMMA NextFitStepType ==
  ASSUME NEW j \in Jobs, NEW s \in Sized(j), NEW p \in PieceOf(j)
  PROVE  NextFitStep(j, s, p) \in Sized(j)
<1>1. ASSUME NEW t \in Sized(j) PROVE Closing(t) \in Sized(j) /\ Putting(j, t, p) \in Sized(j)
  <2>1. /\ t.packs \in Seq(Seq(PieceOf(j))) /\ t.cur \in Seq(PieceOf(j))
        /\ t = [packs |-> t.packs, cur |-> t.cur]
    BY DEF Sized
  <2>2. Append(t.cur, p) \in Seq(PieceOf(j))
    BY <2>1, AppendProperties
  <2>3. /\ Append(t.packs, t.cur) \in Seq(Seq(PieceOf(j)))
        /\ Append(t.packs, Append(t.cur, p)) \in Seq(Seq(PieceOf(j)))
        /\ << >> \in Seq(PieceOf(j))
    BY <2>1, <2>2, AppendProperties, EmptySeq
  <2>4. Closing(t) \in Sized(j)
    BY <2>3 DEF Closing, Sized
  <2>5. Putting(j, t, p) \in Sized(j)
    BY <2>1, <2>2, <2>3 DEF Putting, Sized
  <2> QED
    BY <2>4, <2>5
<1> QED
  BY <1>1 DEF NextFitStep

(* NextFit takes the pieces one by one.                                    *)
LEMMA NextFitIs ==
  ASSUME NEW j \in Jobs, NEW pieces \in Seq(PieceOf(j))
  PROVE  \E f \in [0 .. Len(pieces) -> Sized(j)] :
           /\ f[0] = [packs |-> << >>, cur |-> << >>] /\ NextFit(j, pieces) = f[Len(pieces)]
           /\ \A m \in 1 .. Len(pieces) : f[m] = NextFitStep(j, f[m - 1], pieces[m])
<1> DEFINE n == Len(pieces)
           X == Sized(j)
           base == [packs |-> << >>, cur |-> << >>]
           step == [m \in 1 .. n |-> [x \in X |-> NextFitStep(j, x, pieces[m])]]
           Is(h) == h = [m \in 0 .. n |->
                           IF m = 0 THEN base
                           ELSE CHOOSE v \in {NextFitStep(j, s, pieces[m]) : s \in {h[m - 1]}} : TRUE]
           g == CHOOSE h : Is(h)
<1>0. NextFit(j, pieces) = g[n]
  BY DEF NextFit, Fold, NextFitStep, Closes, Closing, Putting
<1>1. n \in Nat /\ \A m \in 1 .. n : pieces[m] \in PieceOf(j)
  BY LenProperties, ElementOfSeq
<1>2. base \in X
  BY EmptySeq DEF Sized
<1> HIDE DEF base
<1>3. step \in [1 .. n -> [X -> X]]
  <2>1. \A m \in 1 .. n : \A x \in X : NextFitStep(j, x, pieces[m]) \in X
    BY <1>1, NextFitStepType
  <2> HIDE DEF X
  <2> QED
    BY <2>1
<1> HIDE DEF X
<1>4. PICK f : Run(f, n, X, base, step)
  <2> HIDE DEF step, n
  <2> QED
    BY <1>1, <1>2, <1>3, Recursion
<1>5. f \in [0 .. n -> X] /\ f[0] = base
  BY <1>4 DEF Run
<1>6. ASSUME NEW m \in 1 .. n PROVE f[m] = NextFitStep(j, f[m - 1], pieces[m])
  <2>1. m - 1 \in 0 .. n
    BY <1>1
  <2>2. f[m - 1] \in X
    BY <1>5, <2>1
  <2> QED
    BY <1>4, <2>2 DEF Run
<1>7. ASSUME NEW h, NEW m \in 1 .. n
      PROVE  (CHOOSE v \in {NextFitStep(j, s, pieces[m]) : s \in {h[m - 1]}} : TRUE)
               = NextFitStep(j, h[m - 1], pieces[m])
  <2>1. {NextFitStep(j, s, pieces[m]) : s \in {h[m - 1]}} = {NextFitStep(j, h[m - 1], pieces[m])}
    OBVIOUS
  <2> QED
    BY <2>1, Only, Zenon
<1>8. Is(f)
  <2>1. ASSUME NEW m \in 0 .. n
        PROVE  f[m] = IF m = 0 THEN base
                      ELSE CHOOSE v \in {NextFitStep(j, s, pieces[m]) : s \in {f[m - 1]}} : TRUE
    <3>1. CASE m = 0
      BY <1>5, <3>1
    <3>2. CASE m # 0
      <4>1. m \in 1 .. n
        BY <1>1, <3>2
      <4> QED
        BY <1>6, <1>7, <3>2, <4>1, Zenon
    <3> QED
      BY <3>1, <3>2
  <2>2. f = [m \in 0 .. n |-> f[m]]
    BY <1>5
  <2> QED
    BY <2>1, <2>2, Zenon
<1>9. Is(g)
  <2> HIDE DEF Is
  <2> QED
    BY <1>8
<1> HIDE DEF g
<1>10. g[0] = f[0]
  BY <1>1, <1>5, <1>9
<1>11. ASSUME NEW m \in 1 .. n, g[m - 1] = f[m - 1] PROVE g[m] = f[m]
  <2>1. m \in 0 .. n /\ m # 0
    BY <1>1
  <2>2. g[m] = CHOOSE v \in {NextFitStep(j, s, pieces[m]) : s \in {g[m - 1]}} : TRUE
    BY <1>9, <2>1, Zenon
  <2> QED
    BY <1>6, <1>7, <1>11, <2>2, Zenon
<1>12. g[n] = f[n]
  <2>1. \A m \in 1 .. n : g[m - 1] = f[m - 1] => g[m] = f[m]
    BY <1>11
  <2> HIDE DEF n
  <2> QED
    BY <1>1, <1>10, <2>1, Agree
<1> QED
  BY <1>0, <1>5, <1>6, <1>12, Zenon DEF X, base

(* A pack is longer than packing_length only for one piece that is.        *)
Fitting(j, pack) == Load(j, pack) <= PackingLength \/ Len(pack) = 1
FitAll(j, packs) == \A i \in DOMAIN packs : Fitting(j, packs[i])

(* Packs that fit, and one more.                                           *)
LEMMA FitAllAppend ==
  ASSUME NEW j, NEW S, NEW packs \in Seq(S), NEW pack \in S
  PROVE  FitAll(j, Append(packs, pack)) <=> FitAll(j, packs) /\ Fitting(j, pack)
<1> DEFINE u == Append(packs, pack)
<1>1. /\ u[Len(packs) + 1] = pack /\ Len(packs) + 1 \in DOMAIN u
      /\ \A i \in DOMAIN packs : i \in DOMAIN u /\ u[i] = packs[i]
      /\ \A i \in DOMAIN u : i = Len(packs) + 1 \/ i \in DOMAIN packs
  BY AppendHolds
<1> HIDE DEF u
<1>2. FitAll(j, u) <=> FitAll(j, packs) /\ Fitting(j, pack)
  BY <1>1, Zenon DEF FitAll
<1> QED
  BY <1>2 DEF u

LEMMA FitAllConcat ==
  ASSUME NEW j, NEW S, NEW packs \in Seq(S), NEW more \in Seq(S), FitAll(j, packs), FitAll(j, more)
  PROVE  FitAll(j, packs \o more)
<1> DEFINE u == packs \o more
<1>1. \A i \in DOMAIN u : \/ i \in DOMAIN packs /\ u[i] = packs[i]
                          \/ \E k \in DOMAIN more : i = k + Len(packs) /\ u[i] = more[k]
  BY ConcatHolds
<1> HIDE DEF u
<1>2. FitAll(j, u)
  BY <1>1, Zenon DEF FitAll
<1> QED
  BY <1>2 DEF u

(* Next-fit so far: the pieces in their order, the open pack not full.     *)
InOrder(j, s, done) ==
  /\ s \in Sized(j)
  /\ FlattenSeq(s.packs) \o s.cur = done
  /\ s.cur = << >> \/ Load(j, s.cur) < PackingLength
  /\ FitAll(j, s.packs)

LEMMA SizedParts ==
  ASSUME NEW j, NEW s \in Sized(j)
  PROVE  /\ s.packs \in Seq(Seq(PieceOf(j))) /\ s.cur \in Seq(PieceOf(j))
         /\ FlattenSeq(s.packs) \in Seq(PieceOf(j))
<1>1. s.packs \in Seq(Seq(PieceOf(j))) /\ s.cur \in Seq(PieceOf(j))
  BY DEF Sized
<1> QED
  BY <1>1, FlattenType

(* Closing a pack keeps the order and the bound.                           *)
LEMMA ClosingInOrder ==
  ASSUME NEW j \in Jobs, NEW s, NEW done, InOrder(j, s, done), s.cur # << >>
  PROVE  InOrder(j, Closing(s), done) /\ Closing(s).cur = << >>
<1>1. /\ s \in Sized(j) /\ s.packs \in Seq(Seq(PieceOf(j))) /\ s.cur \in Seq(PieceOf(j))
      /\ FlattenSeq(s.packs) \in Seq(PieceOf(j))
  BY SizedParts DEF InOrder
<1>2. /\ Closing(s).packs = Append(s.packs, s.cur) /\ Closing(s).cur = << >>
      /\ Closing(s) \in Sized(j)
  <2>1. Append(s.packs, s.cur) \in Seq(Seq(PieceOf(j))) /\ << >> \in Seq(PieceOf(j))
    BY <1>1, AppendProperties, EmptySeq
  <2> QED
    BY <2>1 DEF Closing, Sized
<1>3. Fitting(j, s.cur)
  BY <1>1, LoadOfPieces, PackingAssumption DEF InOrder, Fitting
<1>4. FitAll(j, Append(s.packs, s.cur))
  BY <1>1, <1>3, FitAllAppend DEF InOrder
<1>5. FlattenSeq(Append(s.packs, s.cur)) \o << >> = done
  <2>1. FlattenSeq(Append(s.packs, s.cur)) = FlattenSeq(s.packs) \o s.cur
    BY <1>1, FlattenAppend
  <2>2. FlattenSeq(s.packs) \o s.cur \in Seq(PieceOf(j))
    BY <1>1, ConcatProperties
  <2> DEFINE a == FlattenSeq(s.packs) \o s.cur
  <2>3. a \in Seq(PieceOf(j)) /\ a = done
    BY <2>2 DEF InOrder
  <2> HIDE DEF a
  <2>4. a \o << >> = a
    BY <2>3, ConcatEmptySeq
  <2> QED
    BY <2>1, <2>3, <2>4 DEF a
<1> QED
  BY <1>2, <1>4, <1>5 DEF InOrder

(* So does putting the next piece into the open one.                       *)
LEMMA PuttingInOrder ==
  ASSUME NEW j \in Jobs, NEW s, NEW done, NEW p \in PieceOf(j), InOrder(j, s, done),
         s.cur = << >> \/ Load(j, s.cur) + Weight(j, p) <= PackingLength
  PROVE  InOrder(j, Putting(j, s, p), Append(done, p))
<1>1. /\ s \in Sized(j) /\ s.packs \in Seq(Seq(PieceOf(j))) /\ s.cur \in Seq(PieceOf(j))
      /\ FlattenSeq(s.packs) \in Seq(PieceOf(j))
  BY SizedParts DEF InOrder
<1> DEFINE c == Append(s.cur, p)
<1>2. /\ c \in Seq(PieceOf(j)) /\ Load(j, c) = Load(j, s.cur) + Weight(j, p)
      /\ Load(j, s.cur) \in Nat /\ Weight(j, p) \in Nat /\ PackingLength \in Nat
      /\ (s.cur = << >> => Len(c) = 1)
  <2>1. c \in Seq(PieceOf(j)) /\ Len(c) = Len(s.cur) + 1
    BY <1>1, AppendProperties
  <2>2. s.cur = << >> => Len(s.cur) = 0
    BY EmptySeq
  <2> QED
    BY <1>1, <2>1, <2>2, LoadOfPieces, WeightType, PackingAssumption
<1>3. FlattenSeq(s.packs) \o c = Append(done, p)
  <2>1. FlattenSeq(s.packs) \o Append(s.cur, p) = Append(FlattenSeq(s.packs) \o s.cur, p)
    <3> DEFINE a == FlattenSeq(s.packs)
               b == s.cur
               P == PieceOf(j)
    <3>1. a \in Seq(P) /\ b \in Seq(P) /\ p \in P
      BY <1>1
    <3> HIDE DEF a, b, P
    <3>2. a \o Append(b, p) = Append(a \o b, p)
      BY <3>1, ConcatOfAppend
    <3> QED
      BY <3>2 DEF a, b
  <2> QED
    BY <2>1 DEF InOrder
<1> HIDE DEF c
<1>4. CASE Load(j, s.cur) + Weight(j, p) >= PackingLength
  <2> DEFINE t == [packs |-> Append(s.packs, c), cur |-> << >>]
  <2>1. Putting(j, s, p) = t
    BY <1>4 DEF Putting, c
  <2>2. t \in Sized(j) /\ t.packs = Append(s.packs, c) /\ t.cur = << >>
    <3>1. Append(s.packs, c) \in Seq(Seq(PieceOf(j))) /\ << >> \in Seq(PieceOf(j))
      BY <1>1, <1>2, AppendProperties, EmptySeq
    <3> QED
      BY <3>1 DEF Sized
  <2>3. FitAll(j, t.packs)
    <3>1. Fitting(j, c)
      BY <1>2 DEF Fitting
    <3> QED
      BY <1>1, <1>2, <2>2, <3>1, FitAllAppend DEF InOrder
  <2>4. FlattenSeq(t.packs) \o t.cur = Append(done, p)
    <3>1. FlattenSeq(Append(s.packs, c)) = FlattenSeq(s.packs) \o c
      BY <1>1, <1>2, FlattenAppend
    <3> DEFINE a == FlattenSeq(s.packs) \o c
    <3>2. a \in Seq(PieceOf(j))
      BY <1>1, <1>2, ConcatProperties
    <3> HIDE DEF a
    <3>3. a \o << >> = a
      BY <3>2, ConcatEmptySeq
    <3> HIDE DEF t
    <3> QED
      BY <1>3, <2>2, <3>1, <3>3 DEF a
  <2> HIDE DEF t
  <2> QED
    BY <2>1, <2>2, <2>3, <2>4 DEF InOrder
<1>5. CASE ~ (Load(j, s.cur) + Weight(j, p) >= PackingLength)
  <2> DEFINE t == [s EXCEPT !.cur = Append(@, p)]
  <2>1. Putting(j, s, p) = t
    BY <1>5 DEF Putting
  <2>2. t \in Sized(j) /\ t.packs = s.packs /\ t.cur = c
    BY <1>1, <1>2 DEF Sized, c
  <2>3. Load(j, c) < PackingLength
    BY <1>2, <1>5
  <2> HIDE DEF t
  <2> QED
    BY <1>3, <2>1, <2>2, <2>3 DEF InOrder
<1> QED
  BY <1>4, <1>5

(* Next-fit keeps every piece, in order, in packs that fit.                *)
LEMMA NextFitInOrder ==
  ASSUME NEW j \in Jobs, NEW pieces \in Seq(PieceOf(j))
  PROVE  InOrder(j, NextFit(j, pieces), pieces)
<1> DEFINE n == Len(pieces)
<1>1. n \in Nat /\ \A m \in 1 .. n : pieces[m] \in PieceOf(j)
  BY LenProperties, ElementOfSeq
<1>2. PICK f \in [0 .. n -> Sized(j)] :
           /\ f[0] = [packs |-> << >>, cur |-> << >>] /\ NextFit(j, pieces) = f[n]
           /\ \A m \in 1 .. n : f[m] = NextFitStep(j, f[m - 1], pieces[m])
  BY NextFitIs
<1> DEFINE T == {m \in Nat : m <= n => InOrder(j, f[m], SubSeq(pieces, 1, m))}
<1>3. 0 \in T
  <2>1. SubSeq(pieces, 1, 0) = << >>
    BY SubSeqEmpty
  <2>2. f[0] \in Sized(j) /\ f[0].packs = << >> /\ f[0].cur = << >>
    BY <1>1, <1>2
  <2>3. << >> \o << >> = << >>
    OBVIOUS
  <2>4. FitAll(j, << >>)
    BY EmptySeq DEF FitAll
  <2>5. InOrder(j, f[0], SubSeq(pieces, 1, 0))
    BY <2>1, <2>2, <2>3, <2>4, FlattenEmpty DEF InOrder
  <2> QED
    BY <2>5
<1>4. ASSUME NEW m \in Nat, m \in T PROVE m + 1 \in T
  <2> SUFFICES ASSUME m + 1 <= n PROVE InOrder(j, f[m + 1], SubSeq(pieces, 1, m + 1))
    OBVIOUS
  <2> DEFINE s == f[m]
             p == pieces[m + 1]
             done == SubSeq(pieces, 1, m)
  <2>1. m + 1 \in 1 .. n /\ (m + 1) - 1 = m /\ InOrder(j, s, done)
    BY <1>1, <1>4
  <2>2. f[m + 1] = NextFitStep(j, s, p)
    BY <1>2, <2>1
  <2>3. p \in PieceOf(j)
    BY <1>1, <2>1
  <2>4. SubSeq(pieces, 1, m + 1) = Append(done, p)
    <3>1. 1 \in 1 .. Len(pieces) /\ m + 1 \in 1 .. Len(pieces)
      BY <1>1, <2>1
    <3>2. SubSeq(pieces, 1, m + 1) = SubSeq(pieces, 1, (m + 1) - 1) \o <<pieces[m + 1]>>
      BY <3>1, SubSeqRecursiveSecond
    <3>3. done \in Seq(PieceOf(j))
      <4>1. \A i \in 1 .. m : pieces[i] \in PieceOf(j)
        BY <1>1, <2>1
      <4> QED
        BY <4>1, SubSeqProperties
    <3>4. Append(done, p) = done \o <<p>>
      <4> HIDE DEF done, p
      <4> QED
        BY <2>3, <3>3, AppendIsConcat
    <3> QED
      BY <2>1, <3>2, <3>4
  <2> HIDE DEF s, p, done
  <2>5. InOrder(j, NextFitStep(j, s, p), Append(done, p))
    <3>1. CASE Closes(j, s, p)
      <4>1. InOrder(j, Closing(s), done) /\ Closing(s).cur = << >>
        BY <2>1, <3>1, ClosingInOrder DEF Closes
      <4>2. InOrder(j, Putting(j, Closing(s), p), Append(done, p))
        BY <2>3, <4>1, PuttingInOrder
      <4> QED
        BY <3>1, <4>2 DEF NextFitStep
    <3>2. CASE ~ Closes(j, s, p)
      <4>1. s.cur = << >> \/ Load(j, s.cur) + Weight(j, p) <= PackingLength
        BY <3>2 DEF Closes, Fits
      <4>2. InOrder(j, Putting(j, s, p), Append(done, p))
        BY <2>1, <2>3, <4>1, PuttingInOrder
      <4> QED
        BY <3>2, <4>2 DEF NextFitStep
    <3> QED
      BY <3>1, <3>2
  <2> QED
    BY <2>2, <2>4, <2>5
<1> HIDE DEF T
<1>5. n \in T
  BY <1>1, <1>3, <1>4, Induction
<1>6. InOrder(j, f[n], SubSeq(pieces, 1, n))
  BY <1>1, <1>5 DEF T
<1>7. SubSeq(pieces, 1, n) = pieces
  BY SubSeqFull
<1> QED
  BY <1>2, <1>6, <1>7

-----------------------------------------------------------------------------
(* Heaviest first, into the fullest bin (the binpack strategy)             *)

(* What a concatenation counts and holds.                                  *)
LEMMA ConcatCounts ==
  ASSUME NEW S, NEW s \in Seq(S), NEW t \in Seq(S)
  PROVE  /\ s \o t \in Seq(S) /\ Len(s \o t) = Len(s) + Len(t) /\ Len(s) \in Nat /\ Len(t) \in Nat
         /\ Held(s \o t) = Held(s) \cup Held(t)
BY ConcatProperties, HeldConcat, LenProperties

(* What one step of HeaviestFirst does.                                    *)
Before(j, s, p) == {i \in DOMAIN s : Weight(j, s[i]) >= Weight(j, p)}
Inserted(j, s, p) == InsertAt(s, Cardinality(Before(j, s, p)) + 1, p)

(* Inserting adds the piece, wherever it goes.                             *)
LEMMA InsertedIs ==
  ASSUME NEW j, NEW P, NEW s \in Seq(P), NEW p \in P
  PROVE  /\ Inserted(j, s, p) \in Seq(P) /\ Len(Inserted(j, s, p)) = Len(s) + 1
         /\ Held(Inserted(j, s, p)) = Held(s) \cup {p}
<1> DEFINE n == Len(s)
           k == Cardinality(Before(j, s, p))
           a == SubSeq(s, 1, k)
           c == SubSeq(s, k + 1, n)
<1>1. n \in Nat /\ DOMAIN s = 1 .. n /\ \A i \in 1 .. n : s[i] \in P
  BY LenProperties, ElementOfSeq
<1>2. k \in 0 .. n
  <2>1. Before(j, s, p) \subseteq 1 .. n
    BY <1>1 DEF Before
  <2>2. IsFiniteSet(1 .. n) /\ Cardinality(1 .. n) = n
    <3>1. n \in Nat
      BY <1>1
    <3> HIDE DEF n, k, a, c
    <3> QED
      BY <3>1, FS_Interval
  <2> DEFINE B == Before(j, s, p)
  <2> HIDE DEF B, n
  <2>3. B \subseteq 1 .. n
    BY <2>1 DEF B
  <2>4. IsFiniteSet(B) /\ Cardinality(B) <= n
    BY <2>2, <2>3, FS_Subset
  <2>5. Cardinality(B) \in Nat
    BY <2>4, FS_CardinalityType
  <2> QED
    BY <1>1, <2>4, <2>5 DEF B
<1>3. Inserted(j, s, p) = (a \o <<p>>) \o c
  <2>1. (k + 1) - 1 = k
    BY <1>2
  <2> QED
    BY <2>1 DEF Inserted, InsertAt
<1> HIDE DEF k
<1>4. a \in Seq(P) /\ c \in Seq(P) /\ a \o c = s
  <2>1. a \in Seq(P) /\ c \in Seq(P)
    BY <1>1, <1>2, SubSeqProperties
  <2>2. a \o c = SubSeq(s, 1, n)
    <3>1. 1 \in 1 .. Len(s) + 1 /\ k \in 1 - 1 .. Len(s) /\ n \in k .. Len(s)
      BY <1>1, <1>2
    <3>2. SubSeq(s, 1, k) \o SubSeq(s, k + 1, n) = SubSeq(s, 1, n)
      <4> HIDE DEF n
      <4> QED
        BY <3>1, ConcatAdjacentSubSeq
    <3> QED
      BY <3>2
  <2>3. SubSeq(s, 1, n) = s
    BY SubSeqFull
  <2> QED
    BY <2>1, <2>2, <2>3
<1> HIDE DEF a, c
<1>5. n = Len(a) + Len(c) /\ Held(s) = Held(a) \cup Held(c) /\ Len(a) \in Nat /\ Len(c) \in Nat
  <2>1. /\ Len(a \o c) = Len(a) + Len(c) /\ Held(a \o c) = Held(a) \cup Held(c)
        /\ Len(a) \in Nat /\ Len(c) \in Nat
    BY <1>4, ConcatCounts, ZenonT(60)
  <2> QED
    BY <1>4, <2>1
<1>6. <<p>> \in Seq(P) /\ Len(<<p>>) = 1 /\ Held(<<p>>) = {p}
  BY DEF Held
<1>7. a \o <<p>> \in Seq(P) /\ Len(a \o <<p>>) = Len(a) + 1 /\ Held(a \o <<p>>) = Held(a) \cup {p}
  <2> DEFINE q == <<p>>
  <2>1. q \in Seq(P) /\ Len(q) = 1 /\ Held(q) = {p}
    BY <1>6
  <2> HIDE DEF q
  <2>2. /\ a \o q \in Seq(P) /\ Len(a \o q) = Len(a) + Len(q)
        /\ Held(a \o q) = Held(a) \cup Held(q)
    BY <1>4, <2>1, ConcatCounts, ZenonT(60)
  <2> QED
    BY <2>1, <2>2 DEF q
<1> DEFINE d == a \o <<p>>
<1>8. d \in Seq(P) /\ Len(d) = Len(a) + 1 /\ Held(d) = Held(a) \cup {p}
  BY <1>7
<1> HIDE DEF d
<1>9. d \o c \in Seq(P) /\ Len(d \o c) = Len(d) + Len(c) /\ Held(d \o c) = Held(d) \cup Held(c)
  BY <1>4, <1>8, ConcatCounts, ZenonT(60)
<1>10. Inserted(j, s, p) = d \o c
  BY <1>3 DEF d
<1> QED
  BY <1>5, <1>8, <1>9, <1>10

(* HeaviestFirst inserts the pieces one by one.                            *)
LEMMA HeaviestFirstIs ==
  ASSUME NEW j \in Jobs, NEW pieces \in Seq(PieceOf(j))
  PROVE  \E f \in [0 .. Len(pieces) -> Seq(PieceOf(j))] :
           /\ f[0] = << >> /\ HeaviestFirst(j, pieces) = f[Len(pieces)]
           /\ \A m \in 1 .. Len(pieces) : f[m] = Inserted(j, f[m - 1], pieces[m])
<1> DEFINE n == Len(pieces)
           X == Seq(PieceOf(j))
           step == [m \in 1 .. n |-> [x \in X |-> Inserted(j, x, pieces[m])]]
           Is(h) == h = [m \in 0 .. n |->
                           IF m = 0 THEN << >>
                           ELSE CHOOSE v \in {Inserted(j, s, pieces[m]) : s \in {h[m - 1]}} : TRUE]
           g == CHOOSE h : Is(h)
<1>0. HeaviestFirst(j, pieces) = g[n]
  BY DEF HeaviestFirst, Fold, Inserted, Before
<1>1. n \in Nat /\ \A m \in 1 .. n : pieces[m] \in PieceOf(j)
  BY LenProperties, ElementOfSeq
<1>2. << >> \in X
  BY EmptySeq
<1>3. step \in [1 .. n -> [X -> X]]
  <2>1. \A m \in 1 .. n : \A x \in X : Inserted(j, x, pieces[m]) \in X
    BY <1>1, InsertedIs
  <2> HIDE DEF X
  <2> QED
    BY <2>1
<1> HIDE DEF X
<1>4. PICK f : Run(f, n, X, << >>, step)
  <2> HIDE DEF step, n
  <2> QED
    BY <1>1, <1>2, <1>3, Recursion
<1>5. f \in [0 .. n -> X] /\ f[0] = << >>
  BY <1>4 DEF Run
<1>6. ASSUME NEW m \in 1 .. n PROVE f[m] = Inserted(j, f[m - 1], pieces[m])
  <2>1. m - 1 \in 0 .. n
    BY <1>1
  <2>2. f[m - 1] \in X
    BY <1>5, <2>1
  <2> QED
    BY <1>4, <2>2 DEF Run
<1>7. ASSUME NEW h, NEW m \in 1 .. n
      PROVE  (CHOOSE v \in {Inserted(j, s, pieces[m]) : s \in {h[m - 1]}} : TRUE)
               = Inserted(j, h[m - 1], pieces[m])
  <2>1. {Inserted(j, s, pieces[m]) : s \in {h[m - 1]}} = {Inserted(j, h[m - 1], pieces[m])}
    OBVIOUS
  <2> QED
    BY <2>1, Only, Zenon
<1>8. Is(f)
  <2>1. ASSUME NEW m \in 0 .. n
        PROVE  f[m] = IF m = 0 THEN << >>
                      ELSE CHOOSE v \in {Inserted(j, s, pieces[m]) : s \in {f[m - 1]}} : TRUE
    <3>1. CASE m = 0
      BY <1>5, <3>1
    <3>2. CASE m # 0
      <4>1. m \in 1 .. n
        BY <1>1, <3>2
      <4> QED
        BY <1>6, <1>7, <3>2, <4>1, Zenon
    <3> QED
      BY <3>1, <3>2
  <2>2. f = [m \in 0 .. n |-> f[m]]
    BY <1>5
  <2> QED
    BY <2>1, <2>2, Zenon
<1>9. Is(g)
  <2> HIDE DEF Is
  <2> QED
    BY <1>8
<1> HIDE DEF g
<1>10. g[0] = f[0]
  BY <1>1, <1>5, <1>9
<1>11. ASSUME NEW m \in 1 .. n, g[m - 1] = f[m - 1] PROVE g[m] = f[m]
  <2>1. m \in 0 .. n /\ m # 0
    BY <1>1
  <2>2. g[m] = CHOOSE v \in {Inserted(j, s, pieces[m]) : s \in {g[m - 1]}} : TRUE
    BY <1>9, <2>1, Zenon
  <2> QED
    BY <1>6, <1>7, <1>11, <2>2, Zenon
<1>12. g[n] = f[n]
  <2>1. \A m \in 1 .. n : g[m - 1] = f[m - 1] => g[m] = f[m]
    BY <1>11
  <2> HIDE DEF n
  <2> QED
    BY <1>1, <1>10, <2>1, Agree
<1> QED
  BY <1>0, <1>5, <1>6, <1>12, Zenon DEF X

(* Sorted by weight, the pieces are still the pieces.                      *)
LEMMA HeaviestFirstHolds ==
  ASSUME NEW j \in Jobs, NEW pieces \in Seq(PieceOf(j))
  PROVE  /\ HeaviestFirst(j, pieces) \in Seq(PieceOf(j))
         /\ Len(HeaviestFirst(j, pieces)) = Len(pieces)
         /\ Held(HeaviestFirst(j, pieces)) = Held(pieces)
<1> DEFINE n == Len(pieces)
           P == PieceOf(j)
           First(m) == {pieces[i] : i \in 1 .. m}
<1>1. n \in Nat /\ DOMAIN pieces = 1 .. n /\ \A m \in 1 .. n : pieces[m] \in P
  BY LenProperties, ElementOfSeq
<1> HIDE DEF P
<1>2. PICK f \in [0 .. n -> Seq(P)] :
           /\ f[0] = << >> /\ HeaviestFirst(j, pieces) = f[n]
           /\ \A m \in 1 .. n : f[m] = Inserted(j, f[m - 1], pieces[m])
  BY HeaviestFirstIs DEF P
<1> DEFINE T == {m \in Nat : m <= n => Len(f[m]) = m /\ Held(f[m]) = First(m)}
<1>3. 0 \in T
  <2>1. Len(<< >>) = 0 /\ Held(<< >>) = {} /\ First(0) = {}
    BY EmptySeq, HeldAre
  <2> QED
    BY <1>2, <2>1
<1>4. ASSUME NEW m \in Nat, m \in T PROVE m + 1 \in T
  <2> SUFFICES ASSUME m + 1 <= n PROVE Len(f[m + 1]) = m + 1 /\ Held(f[m + 1]) = First(m + 1)
    OBVIOUS
  <2> DEFINE s == f[m]
             p == pieces[m + 1]
  <2>1. m + 1 \in 1 .. n /\ (m + 1) - 1 = m /\ m \in 0 .. n
    BY <1>1
  <2>2. Len(s) = m /\ Held(s) = First(m)
    BY <1>1, <1>4
  <2>3. s \in Seq(P) /\ p \in P /\ f[m + 1] = Inserted(j, s, p)
    BY <1>1, <1>2, <2>1
  <2>4. First(m + 1) = First(m) \cup {p}
    <3>1. 1 .. m + 1 = (1 .. m) \cup {m + 1}
      OBVIOUS
    <3> QED
      BY <3>1
  <2> HIDE DEF s, p, First
  <2>5. Len(Inserted(j, s, p)) = Len(s) + 1 /\ Held(Inserted(j, s, p)) = Held(s) \cup {p}
    BY <2>3, InsertedIs, SMTT(60)
  <2> QED
    BY <2>2, <2>3, <2>4, <2>5
<1> HIDE DEF T
<1>5. n \in T
  BY <1>1, <1>3, <1>4, Induction
<1>6. Len(f[n]) = n /\ Held(f[n]) = First(n) /\ f[n] \in Seq(P)
  BY <1>1, <1>5 DEF T
<1>7. First(n) = Held(pieces)
  BY <1>1 DEF Held
<1> QED
  BY <1>2, <1>6, <1>7 DEF P

(* What one step of BestFit does: the bins that the piece fits, the        *)
(* fullest of them, and where it goes.                                     *)
Room(j, bins, p) == {b \in DOMAIN bins : Fits(Load(j, bins[b]) + Weight(j, p))}
Fullest(j, bins, fitting, b) ==
  \A c \in fitting : \/ Load(j, bins[c]) < Load(j, bins[b])
                     \/ Load(j, bins[c]) = Load(j, bins[b]) /\ b <= c
BestFitStep(j, bins, p) ==
  IF Room(j, bins, p) = {} THEN Append(bins, <<p>>)
  ELSE LET b == CHOOSE b \in Room(j, bins, p) : Fullest(j, bins, Room(j, bins, p), b)
       IN  [bins EXCEPT ![b] = Append(@, p)]

(* Among the bins with room one is the fullest.                            *)
LEMMA FullestExists ==
  ASSUME NEW j \in Jobs, NEW bins \in Seq(Seq(PieceOf(j))), NEW p \in PieceOf(j),
         Room(j, bins, p) # {}
  PROVE  \E b \in Room(j, bins, p) : Fullest(j, bins, Room(j, bins, p), b)
<1> DEFINE R == Room(j, bins, p)
           L == {Load(j, bins[b]) : b \in R}
<1>1. /\ Len(bins) \in Nat /\ DOMAIN bins = 1 .. Len(bins)
      /\ \A b \in 1 .. Len(bins) : bins[b] \in Seq(PieceOf(j))
  BY LenProperties, ElementOfSeq
<1>2. R \subseteq 1 .. Len(bins)
  BY <1>1 DEF Room
<1>3. ASSUME NEW b \in R PROVE Load(j, bins[b]) \in 0 .. PackingLength
  <2>1. Load(j, bins[b]) \in Nat /\ Weight(j, p) \in Nat /\ PackingLength \in Nat
    BY <1>1, <1>2, LoadOfPieces, WeightType, PackingAssumption
  <2>2. Load(j, bins[b]) + Weight(j, p) <= PackingLength
    BY DEF Room, Fits
  <2> QED
    BY <2>1, <2>2
<1> HIDE DEF R
<1>4. PICK l \in L : \A k \in L : l >= k
  <2>1. L \in SUBSET (0 .. PackingLength) /\ L # {} /\ PackingLength \in Nat
    BY <1>3, PackingAssumption DEF R
  <2> HIDE DEF L
  <2> QED
    BY <2>1, GreatestNatural
<1> DEFINE M == {b \in R : Load(j, bins[b]) = l}
<1>5. PICK b \in M : \A c \in M : b <= c
  <2>1. M \in SUBSET Nat /\ M # {}
    BY <1>1, <1>2, <1>4
  <2> HIDE DEF M
  <2> QED
    BY <2>1, LeastNatural
<1>6. ASSUME NEW c \in R PROVE \/ Load(j, bins[c]) < Load(j, bins[b])
                               \/ Load(j, bins[c]) = Load(j, bins[b]) /\ b <= c
  <2>1. Load(j, bins[c]) \in L /\ Load(j, bins[c]) \in 0 .. PackingLength /\ l \in 0 .. PackingLength
    BY <1>3, <1>4
  <2>2. Load(j, bins[c]) <= l /\ Load(j, bins[b]) = l /\ PackingLength \in Nat
    BY <1>4, <1>5, <2>1, PackingAssumption
  <2>3. CASE Load(j, bins[c]) = l
    BY <1>5, <2>2, <2>3
  <2>4. CASE Load(j, bins[c]) # l
    BY <2>1, <2>2, <2>4
  <2> QED
    BY <2>3, <2>4
<1>7. b \in R /\ Fullest(j, bins, R, b)
  BY <1>5, <1>6 DEF Fullest
<1> QED
  BY <1>7 DEF R

(* A step of best-fit adds the piece to a bin that stays within its bound. *)
LEMMA BestFitStepIs ==
  ASSUME NEW j \in Jobs, NEW bins \in Seq(Seq(PieceOf(j))), NEW p \in PieceOf(j)
  PROVE  /\ BestFitStep(j, bins, p) \in Seq(Seq(PieceOf(j))) \ {<< >>}
         /\ Len(FlattenSeq(BestFitStep(j, bins, p))) = Len(FlattenSeq(bins)) + 1
         /\ Held(FlattenSeq(BestFitStep(j, bins, p))) = Held(FlattenSeq(bins)) \cup {p}
         /\ FitAll(j, bins) => FitAll(j, BestFitStep(j, bins, p))
<1> DEFINE P == PieceOf(j)
<1>1. /\ Len(bins) \in Nat /\ DOMAIN bins = 1 .. Len(bins)
      /\ \A b \in 1 .. Len(bins) : bins[b] \in Seq(P)
  BY LenProperties, ElementOfSeq
<1>2. CASE Room(j, bins, p) = {}
  <2> DEFINE q == <<p>>
  <2>1. q \in Seq(P) /\ Len(q) = 1 /\ Held(q) = {p}
    BY DEF Held
  <2>2. BestFitStep(j, bins, p) = Append(bins, q)
    BY <1>2 DEF BestFitStep
  <2> HIDE DEF q
  <2>3. /\ Append(bins, q) \in Seq(Seq(P)) /\ Append(bins, q) # << >>
        /\ FlattenSeq(Append(bins, q)) = FlattenSeq(bins) \o q /\ FlattenSeq(bins) \in Seq(P)
    <3>1. bins \in Seq(Seq(P))
      OBVIOUS
    <3> HIDE DEF P
    <3>2. Append(bins, q) \in Seq(Seq(P)) /\ Append(bins, q) # << >>
      BY <2>1, <3>1, AppendProperties
    <3>3. FlattenSeq(Append(bins, q)) = FlattenSeq(bins) \o q
      BY <2>1, <3>1, FlattenAppend
    <3>4. FlattenSeq(bins) \in Seq(P)
      BY <3>1, FlattenType
    <3> QED
      BY <3>2, <3>3, <3>4
  <2> DEFINE s == FlattenSeq(bins)
  <2>4. s \in Seq(P)
    BY <2>3
  <2> HIDE DEF s, P
  <2>5. Len(s \o q) = Len(s) + Len(q) /\ Held(s \o q) = Held(s) \cup Held(q)
    BY <2>1, <2>4, ConcatCounts, ZenonT(60)
  <2>6. FitAll(j, bins) => FitAll(j, Append(bins, q))
    <3>1. Fitting(j, q)
      BY <2>1 DEF Fitting
    <3>2. bins \in Seq(Seq(P))
      BY DEF P
    <3> QED
      BY <2>1, <3>1, <3>2, FitAllAppend
  <2> QED
    BY <2>1, <2>2, <2>3, <2>5, <2>6 DEF s, P
<1>3. CASE Room(j, bins, p) # {}
  <2> DEFINE b == CHOOSE b \in Room(j, bins, p) : Fullest(j, bins, Room(j, bins, p), b)
             t == [bins EXCEPT ![b] = Append(@, p)]
  <2>1. BestFitStep(j, bins, p) = t
    BY <1>3 DEF BestFitStep
  <2>2. b \in Room(j, bins, p)
    BY <1>3, FullestExists
  <2> HIDE DEF b
  <2>3. b \in 1 .. Len(bins)
    BY <1>1, <2>2 DEF Room
  <2>4. /\ t \in Seq(Seq(P)) /\ Len(t) = Len(bins)
        /\ \A i \in 1 .. Len(bins) : t[i] = IF i = b THEN Append(bins[b], p) ELSE bins[i]
        /\ Len(FlattenSeq(t)) = Len(FlattenSeq(bins)) + 1
        /\ Held(FlattenSeq(t)) = Held(FlattenSeq(bins)) \cup {p}
    <3> DEFINE a == Append(bins[b], p)
    <3>1. a \in Seq(P) /\ t = [bins EXCEPT ![b] = a]
      BY <1>1, <2>3, AppendProperties
    <3>2. bins \in Seq(Seq(P)) /\ p \in P
      OBVIOUS
    <3> HIDE DEF a, t, P
    <3>3. /\ [bins EXCEPT ![b] = a] \in Seq(Seq(P)) /\ Len([bins EXCEPT ![b] = a]) = Len(bins)
          /\ \A i \in 1 .. Len(bins) : [bins EXCEPT ![b] = a][i] = IF i = b THEN a ELSE bins[i]
      BY <2>3, <3>1, <3>2, ExceptSeq
    <3>4. /\ t \in Seq(Seq(P)) /\ Len(t) = Len(bins)
          /\ \A i \in 1 .. Len(bins) : t[i] = IF i = b THEN Append(bins[b], p) ELSE bins[i]
      BY <3>1, <3>3 DEF a
    <3>5. /\ Len(FlattenSeq(t)) = Len(FlattenSeq(bins)) + 1
          /\ Held(FlattenSeq(t)) = Held(FlattenSeq(bins)) \cup {p}
      <4>1. t \in Seq(Seq(P)) /\ Grown(bins, t, b, p)
        BY <3>4 DEF Grown
      <4> QED
        BY <2>3, <3>2, <4>1, FlattenGrown
    <3> QED
      BY <3>4, <3>5
  <2> HIDE DEF t
  <2>5. t # << >>
    BY <1>1, <2>3, <2>4, EmptySeq
  <2>6. Fitting(j, Append(bins[b], p))
    <3>1. Load(j, Append(bins[b], p)) = Load(j, bins[b]) + Weight(j, p)
      BY <1>1, <2>3, LoadOfPieces
    <3>2. Load(j, bins[b]) + Weight(j, p) <= PackingLength
      BY <2>2 DEF Room, Fits
    <3> QED
      BY <3>1, <3>2 DEF Fitting
  <2>7. ASSUME FitAll(j, bins) PROVE FitAll(j, t)
    <3>1. DOMAIN t = 1 .. Len(bins)
      BY <2>4, LenProperties
    <3>2. ASSUME NEW i \in 1 .. Len(bins) PROVE Fitting(j, t[i])
      <4>1. Fitting(j, bins[i])
        BY <1>1, <2>7 DEF FitAll
      <4> QED
        BY <2>4, <2>6, <4>1
    <3> QED
      BY <3>1, <3>2 DEF FitAll
  <2> QED
    BY <2>1, <2>4, <2>5, <2>7
<1> QED
  BY <1>2, <1>3

(* BestFit takes the pieces one by one.                                    *)
LEMMA BestFitIs ==
  ASSUME NEW j \in Jobs, NEW pieces \in Seq(PieceOf(j))
  PROVE  LET sorted == HeaviestFirst(j, pieces)
         IN  \E f \in [0 .. Len(sorted) -> Seq(Seq(PieceOf(j)))] :
               /\ f[0] = << >> /\ BestFit(j, pieces) = f[Len(sorted)]
               /\ \A m \in 1 .. Len(sorted) : f[m] = BestFitStep(j, f[m - 1], sorted[m])
<1> DEFINE sorted == HeaviestFirst(j, pieces)
           n == Len(sorted)
           X == Seq(Seq(PieceOf(j)))
           step == [m \in 1 .. n |-> [x \in X |-> BestFitStep(j, x, sorted[m])]]
           Is(h) == h = [m \in 0 .. n |->
                           IF m = 0 THEN << >>
                           ELSE CHOOSE v \in {BestFitStep(j, s, sorted[m]) : s \in {h[m - 1]}} : TRUE]
           g == CHOOSE h : Is(h)
<1>0. BestFit(j, pieces) = g[n]
  BY DEF BestFit, Fold, BestFitStep, Room, Fullest
<1>1. n \in Nat /\ \A m \in 1 .. n : sorted[m] \in PieceOf(j)
  <2>1. sorted \in Seq(PieceOf(j))
    BY HeaviestFirstHolds
  <2> HIDE DEF sorted
  <2> QED
    BY <2>1, LenProperties, ElementOfSeq
<1> HIDE DEF sorted
<1>2. << >> \in X
  BY EmptySeq
<1>3. step \in [1 .. n -> [X -> X]]
  <2>1. \A m \in 1 .. n : \A x \in X : BestFitStep(j, x, sorted[m]) \in X
    BY <1>1, BestFitStepIs
  <2> HIDE DEF X
  <2> QED
    BY <2>1
<1> HIDE DEF X
<1>4. PICK f : Run(f, n, X, << >>, step)
  <2> HIDE DEF step, n
  <2> QED
    BY <1>1, <1>2, <1>3, Recursion
<1>5. f \in [0 .. n -> X] /\ f[0] = << >>
  BY <1>4 DEF Run
<1>6. ASSUME NEW m \in 1 .. n PROVE f[m] = BestFitStep(j, f[m - 1], sorted[m])
  <2>1. m - 1 \in 0 .. n
    BY <1>1
  <2>2. f[m - 1] \in X
    BY <1>5, <2>1
  <2> QED
    BY <1>4, <2>2 DEF Run
<1>7. ASSUME NEW h, NEW m \in 1 .. n
      PROVE  (CHOOSE v \in {BestFitStep(j, s, sorted[m]) : s \in {h[m - 1]}} : TRUE)
               = BestFitStep(j, h[m - 1], sorted[m])
  <2>1. {BestFitStep(j, s, sorted[m]) : s \in {h[m - 1]}} = {BestFitStep(j, h[m - 1], sorted[m])}
    OBVIOUS
  <2> QED
    BY <2>1, Only, Zenon
<1>8. Is(f)
  <2>1. ASSUME NEW m \in 0 .. n
        PROVE  f[m] = IF m = 0 THEN << >>
                      ELSE CHOOSE v \in {BestFitStep(j, s, sorted[m]) : s \in {f[m - 1]}} : TRUE
    <3>1. CASE m = 0
      BY <1>5, <3>1
    <3>2. CASE m # 0
      <4>1. m \in 1 .. n
        BY <1>1, <3>2
      <4> QED
        BY <1>6, <1>7, <3>2, <4>1, Zenon
    <3> QED
      BY <3>1, <3>2
  <2>2. f = [m \in 0 .. n |-> f[m]]
    BY <1>5
  <2> QED
    BY <2>1, <2>2, Zenon
<1>9. Is(g)
  <2> HIDE DEF Is
  <2> QED
    BY <1>8
<1> HIDE DEF g
<1>10. g[0] = f[0]
  BY <1>1, <1>5, <1>9
<1>11. ASSUME NEW m \in 1 .. n, g[m - 1] = f[m - 1] PROVE g[m] = f[m]
  <2>1. m \in 0 .. n /\ m # 0
    BY <1>1
  <2>2. g[m] = CHOOSE v \in {BestFitStep(j, s, sorted[m]) : s \in {g[m - 1]}} : TRUE
    BY <1>9, <2>1, Zenon
  <2> QED
    BY <1>6, <1>7, <1>11, <2>2, Zenon
<1>12. g[n] = f[n]
  <2>1. \A m \in 1 .. n : g[m - 1] = f[m - 1] => g[m] = f[m]
    BY <1>11
  <2> HIDE DEF n
  <2> QED
    BY <1>1, <1>10, <2>1, Agree
<1> QED
  BY <1>0, <1>5, <1>6, <1>12, Zenon DEF X, sorted

(* Best-fit keeps every piece, in bins that fit.                           *)
LEMMA BestFitHolds ==
  ASSUME NEW j \in Jobs, NEW pieces \in Seq(PieceOf(j))
  PROVE  /\ BestFit(j, pieces) \in Seq(Seq(PieceOf(j)))
         /\ Len(FlattenSeq(BestFit(j, pieces))) = Len(pieces)
         /\ Held(FlattenSeq(BestFit(j, pieces))) = Held(pieces)
         /\ FitAll(j, BestFit(j, pieces))
         /\ pieces = << >> => BestFit(j, pieces) = << >>
<1> DEFINE P == PieceOf(j)
           sorted == HeaviestFirst(j, pieces)
           n == Len(sorted)
           First(m) == {sorted[i] : i \in 1 .. m}
<1>1. sorted \in Seq(P) /\ Len(sorted) = Len(pieces) /\ Held(sorted) = Held(pieces)
  BY HeaviestFirstHolds
<1>2. PICK f \in [0 .. n -> Seq(Seq(P))] :
           /\ f[0] = << >> /\ BestFit(j, pieces) = f[n]
           /\ \A m \in 1 .. n : f[m] = BestFitStep(j, f[m - 1], sorted[m])
  BY BestFitIs
<1> HIDE DEF sorted
<1>3. n \in Nat /\ DOMAIN sorted = 1 .. n /\ \A m \in 1 .. n : sorted[m] \in P
  BY <1>1, LenProperties, ElementOfSeq
<1> DEFINE Good(m) == /\ Len(FlattenSeq(f[m])) = m /\ Held(FlattenSeq(f[m])) = First(m)
                      /\ FitAll(j, f[m])
           T == {m \in Nat : m <= n => Good(m)}
<1>4. 0 \in T
  <2>1. Len(<< >>) = 0 /\ Held(<< >>) = {} /\ First(0) = {}
    BY EmptySeq, HeldAre
  <2>2. FitAll(j, << >>)
    BY EmptySeq DEF FitAll
  <2> QED
    BY <1>2, <2>1, <2>2, FlattenEmpty
<1>5. ASSUME NEW m \in Nat, m \in T PROVE m + 1 \in T
  <2> SUFFICES ASSUME m + 1 <= n PROVE Good(m + 1)
    OBVIOUS
  <2> DEFINE s == f[m]
             p == sorted[m + 1]
  <2>1. m + 1 \in 1 .. n /\ (m + 1) - 1 = m /\ m \in 0 .. n
    BY <1>3
  <2>2. Len(FlattenSeq(s)) = m /\ Held(FlattenSeq(s)) = First(m) /\ FitAll(j, s)
    BY <1>3, <1>5
  <2>3. s \in Seq(Seq(P)) /\ p \in P
    BY <1>2, <1>3, <2>1
  <2>6. f[m + 1] = BestFitStep(j, s, p)
    BY <1>2, <2>1
  <2>4. First(m + 1) = First(m) \cup {p}
    <3>1. 1 .. m + 1 = (1 .. m) \cup {m + 1}
      OBVIOUS
    <3> QED
      BY <3>1
  <2> HIDE DEF s, p, First
  <2>5. /\ Len(FlattenSeq(BestFitStep(j, s, p))) = Len(FlattenSeq(s)) + 1
        /\ Held(FlattenSeq(BestFitStep(j, s, p))) = Held(FlattenSeq(s)) \cup {p}
        /\ FitAll(j, BestFitStep(j, s, p))
    BY <2>2, <2>3, BestFitStepIs
  <2> QED
    BY <2>2, <2>4, <2>5, <2>6
<1> HIDE DEF T
<1>6. n \in T
  BY <1>3, <1>4, <1>5, Induction
<1>7. Good(n) /\ f[n] \in Seq(Seq(P))
  BY <1>3, <1>6 DEF T
<1>8. First(n) = Held(sorted)
  BY <1>3 DEF Held
<1>9. ASSUME pieces = << >> PROVE f[n] = << >>
  <2>1. n = 0
    BY <1>1, <1>9, EmptySeq
  <2> QED
    BY <1>2, <2>1
<1> QED
  BY <1>1, <1>2, <1>7, <1>8, <1>9

-----------------------------------------------------------------------------
(* One round of packing                                                    *)

(* All but the last element, and the last.                                 *)
LEMMA FrontAndLast ==
  ASSUME NEW S, NEW s \in Seq(S), s # << >>
  PROVE  /\ Front(s) \in Seq(S) /\ Last(s) \in S /\ s = Append(Front(s), Last(s))
<1>1. PICK t \in Seq(S), e \in S : s = Append(t, e)
  BY SequenceEmptyOrAppend
<1>2. /\ Len(s) = Len(t) + 1 /\ s[Len(t) + 1] = e /\ Len(t) \in Nat
      /\ \A i \in 1 .. Len(t) : s[i] = t[i] /\ t[i] \in S
  BY <1>1, AppendProperties, LenProperties, ElementOfSeq
<1>3. Front(s) = t
  <2>1. Front(s) = SubSeq(s, 1, Len(t))
    BY <1>2 DEF Front
  <2>2. /\ SubSeq(s, 1, Len(t)) \in Seq(S) /\ Len(SubSeq(s, 1, Len(t))) = Len(t)
        /\ \A i \in 1 .. Len(t) : SubSeq(s, 1, Len(t))[i] = t[i]
    <3>1. \A i \in 1 .. Len(t) : s[i] \in S
      BY <1>2
    <3>2. /\ SubSeq(s, 1, Len(t)) \in Seq(S)
          /\ Len(SubSeq(s, 1, Len(t))) = IF 1 <= Len(t) THEN Len(t) - 1 + 1 ELSE 0
          /\ \A i \in 1 .. Len(t) - 1 + 1 : SubSeq(s, 1, Len(t))[i] = s[1 + i - 1]
      BY <1>2, <3>1, SubSeqProperties
    <3> QED
      BY <1>2, <3>2
  <2> DEFINE u == SubSeq(s, 1, Len(t))
  <2> HIDE DEF u
  <2>3. u = t
    BY <2>2, SeqEqual DEF u
  <2> QED
    BY <2>1, <2>3 DEF u
<1>4. Last(s) = e
  BY <1>2 DEF Last
<1> QED
  BY <1>1, <1>3, <1>4

(* What a call of calculate_matched_group does with the pieces: they are   *)
(* all in the new packs or kept, each once.                                *)
Sorted(j, pieces, more, rest) ==
  LET all == FlattenSeq(more) \o rest
  IN  /\ Len(all) = Len(pieces) /\ Held(all) = Held(pieces)
      /\ j.strategy = "sequential" => all = pieces
      /\ FitAll(j, more)

(* What a round gives with the binpack strategy.                           *)
LEMMA BinpackGroup ==
  ASSUME NEW j \in Jobs, NEW pieces \in Seq(PieceOf(j)), NEW earlier, NEW finished,
         j.strategy = "binpack"
  PROVE  \E more \in Seq(Seq(PieceOf(j))), rest \in Seq(PieceOf(j)) :
           /\ MatchedGroup(j, earlier, pieces, finished) = Result(earlier \o more, rest)
           /\ Sorted(j, pieces, more, rest)
           /\ finished => rest = << >>
           /\ pieces = << >> => more = << >> /\ rest = << >>
<1> DEFINE P == PieceOf(j)
           bins == BestFit(j, pieces)
<1>1. /\ bins \in Seq(Seq(P)) /\ Len(FlattenSeq(bins)) = Len(pieces)
      /\ Held(FlattenSeq(bins)) = Held(pieces) /\ FitAll(j, bins)
      /\ pieces = << >> => bins = << >>
  BY BestFitHolds
<1>2. MatchedGroup(j, earlier, pieces, finished)
        = IF finished \/ bins = << >> THEN Result(earlier \o bins, << >>)
                                      ELSE Result(earlier \o Front(bins), Last(bins))
  BY DEF MatchedGroup
<1> HIDE DEF bins, P
<1>3. << >> \in Seq(P) /\ FlattenSeq(bins) \in Seq(P)
  BY <1>1, EmptySeq, FlattenType
<1>4. CASE finished \/ bins = << >>
  <2>1. FlattenSeq(bins) \o << >> = FlattenSeq(bins)
    <3> DEFINE a == FlattenSeq(bins)
    <3>1. a \in Seq(P)
      BY <1>3
    <3> HIDE DEF a
    <3>2. a \o << >> = a
      BY <3>1, ConcatEmptySeq
    <3> QED
      BY <3>2 DEF a
  <2>2. Sorted(j, pieces, bins, << >>)
    BY <1>1, <2>1 DEF Sorted
  <2> QED
    BY <1>1, <1>2, <1>3, <1>4, <2>2 DEF P
<1>5. CASE ~ (finished \/ bins = << >>)
  <2>1. /\ Front(bins) \in Seq(Seq(P)) /\ Last(bins) \in Seq(P)
        /\ bins = Append(Front(bins), Last(bins))
    BY <1>1, <1>5, FrontAndLast
  <2> DEFINE more == Front(bins)
             rest == Last(bins)
  <2>2. more \in Seq(Seq(P)) /\ rest \in Seq(P) /\ bins = Append(more, rest)
    BY <2>1
  <2>3. MatchedGroup(j, earlier, pieces, finished) = Result(earlier \o more, rest)
    BY <1>2, <1>5
  <2> HIDE DEF more, rest
  <2>4. FlattenSeq(bins) = FlattenSeq(more) \o rest
    BY <2>2, FlattenAppend
  <2>5. FitAll(j, more)
    BY <1>1, <2>2, FitAllAppend
  <2>6. Sorted(j, pieces, more, rest)
    BY <1>1, <2>4, <2>5 DEF Sorted
  <2> QED
    BY <1>1, <1>5, <2>2, <2>3, <2>6 DEF P
<1> QED
  BY <1>4, <1>5

(* What it gives with the sequential one.                                  *)
LEMMA SequentialGroup ==
  ASSUME NEW j \in Jobs, NEW pieces \in Seq(PieceOf(j)), NEW earlier, NEW finished,
         j.strategy # "binpack"
  PROVE  \E more \in Seq(Seq(PieceOf(j))), rest \in Seq(PieceOf(j)) :
           /\ MatchedGroup(j, earlier, pieces, finished) = Result(earlier \o more, rest)
           /\ Sorted(j, pieces, more, rest)
           /\ finished => rest = << >>
           /\ pieces = << >> => more = << >> /\ rest = << >>
<1> DEFINE P == PieceOf(j)
           s == NextFit(j, pieces)
<1>1. InOrder(j, s, pieces)
  BY NextFitInOrder
<1>2. MatchedGroup(j, earlier, pieces, finished)
        = IF finished /\ s.cur # << >> THEN Result(earlier \o Append(s.packs, s.cur), << >>)
                                       ELSE Result(earlier \o s.packs, s.cur)
  BY DEF MatchedGroup
<1>3. pieces = << >> => s = [packs |-> << >>, cur |-> << >>]
  <2> SUFFICES ASSUME pieces = << >> PROVE s = [packs |-> << >>, cur |-> << >>]
    OBVIOUS
  <2>1. PICK f : f[0] = [packs |-> << >>, cur |-> << >>] /\ s = f[Len(pieces)]
    BY NextFitIs
  <2>2. Len(pieces) = 0
    BY EmptySeq
  <2> QED
    BY <2>1, <2>2
<1> HIDE DEF s
<1>4. /\ s.packs \in Seq(Seq(P)) /\ s.cur \in Seq(P) /\ FlattenSeq(s.packs) \in Seq(P)
      /\ FlattenSeq(s.packs) \o s.cur = pieces
  BY <1>1, SizedParts DEF InOrder
<1>5. CASE ~ (finished /\ s.cur # << >>)
  <2>1. Sorted(j, pieces, s.packs, s.cur)
    BY <1>1, <1>4 DEF Sorted, InOrder
  <2>2. MatchedGroup(j, earlier, pieces, finished) = Result(earlier \o s.packs, s.cur)
    BY <1>2, <1>5
  <2>3. pieces = << >> => s.packs = << >> /\ s.cur = << >>
    BY <1>3
  <2> QED
    BY <1>4, <1>5, <2>1, <2>2, <2>3
<1>6. CASE finished /\ s.cur # << >>
  <2>1. InOrder(j, Closing(s), pieces) /\ Closing(s).cur = << >>
    BY <1>1, <1>6, ClosingInOrder
  <2> DEFINE more == Append(s.packs, s.cur)
  <2>2. Closing(s).packs = more
    BY DEF Closing
  <2>3. /\ more \in Seq(Seq(P)) /\ FlattenSeq(more) \o << >> = pieces /\ FitAll(j, more)
    BY <2>1, <2>2, SizedParts DEF InOrder
  <2>4. MatchedGroup(j, earlier, pieces, finished) = Result(earlier \o more, << >>)
    BY <1>2, <1>6
  <2>5. ~ (pieces = << >>)
    BY <1>3, <1>6
  <2> HIDE DEF more
  <2>6. Sorted(j, pieces, more, << >>)
    BY <2>3 DEF Sorted
  <2>7. << >> \in Seq(P)
    BY EmptySeq
  <2> QED
    BY <2>3, <2>4, <2>5, <2>6, <2>7
<1> QED
  BY <1>5, <1>6

(* What a round of packing gives.                                          *)
LEMMA MatchedGroupIs ==
  ASSUME NEW j \in Jobs, NEW pieces \in Seq(PieceOf(j)), NEW earlier, NEW finished
  PROVE  \E more \in Seq(Seq(PieceOf(j))), rest \in Seq(PieceOf(j)) :
           /\ MatchedGroup(j, earlier, pieces, finished) = Result(earlier \o more, rest)
           /\ Sorted(j, pieces, more, rest)
           /\ finished => rest = << >>
           /\ pieces = << >> => more = << >> /\ rest = << >>
<1>1. CASE j.strategy = "binpack"
  BY <1>1, BinpackGroup
<1>2. CASE j.strategy # "binpack"
  BY <1>2, SequentialGroup
<1> QED
  BY <1>1, <1>2

-----------------------------------------------------------------------------
(* The rounds of one process                                               *)

(* The rounds of one process: LastRound full ones and a last one; the      *)
(* samples that the first d of them read, and the pieces of round k.       *)
LastRound(j) == Len(j.stream) \div Interval
ReadBy(j, d) == IF d <= LastRound(j) THEN d * Interval ELSE Len(j.stream)
InRound(j, k) == IF k <= LastRound(j) THEN Interval ELSE Len(j.stream) % Interval
RoundOf(j, k) ==
  FlattenSeq([i \in 1 .. InRound(j, k) |-> Encoded(j, (k - 1) * Interval + i)])
PiecesOf(j, n) == FlattenSeq([s \in 1 .. n |-> Encoded(j, s)])

(* The rounds share out the samples of the stream.                         *)
LEMMA RoundsAre ==
  ASSUME NEW j \in Jobs
  PROVE  /\ LastRound(j) \in Nat /\ ReadBy(j, 0) = 0 /\ ReadBy(j, LastRound(j) + 1) = Len(j.stream)
         /\ \A d \in 0 .. LastRound(j) : /\ ReadBy(j, d) = d * Interval /\ d * Interval \in Nat
                                         /\ d * Interval <= Len(j.stream)
         /\ \A k \in 1 .. LastRound(j) + 1 :
              /\ (k - 1) * Interval \in Nat /\ InRound(j, k) \in 0 .. Interval
              /\ ReadBy(j, k) = (k - 1) * Interval + InRound(j, k)
              /\ ReadBy(j, k) \in 0 .. Len(j.stream)
              /\ InRound(j, k) = Interval <=> k <= LastRound(j)
<1> DEFINE n == Len(j.stream)
           K == LastRound(j)
           r == n % Interval
           x == K * Interval
<1>1. n \in Nat /\ Interval \in Nat \ {0}
  BY JobType
<1>2. K \in Nat /\ r \in 0 .. Interval - 1 /\ n = x + r
  <2> HIDE DEF n
  <2>1. n \div Interval \in Nat /\ n % Interval \in 0 .. Interval - 1
        /\ n = (n \div Interval) * Interval + (n % Interval)
    BY <1>1, Quotients, Division
  <2> QED
    BY <2>1 DEF LastRound, n
<1>3. K * Interval \in Nat
  <2> HIDE DEF K
  <2> QED
    BY <1>1, <1>2, Products
<1> HIDE DEF K, n, r, x
<1>4. x \in Nat /\ x <= n
  BY <1>1, <1>2, <1>3 DEF x
<1>5. ASSUME NEW d \in 0 .. K
      PROVE  ReadBy(j, d) = d * Interval /\ d * Interval \in Nat /\ d * Interval <= n
  <2>1. d \in Nat /\ d <= K
    BY <1>2
  <2>2. d * Interval <= K * Interval /\ d * Interval \in Nat
    BY <1>1, <1>2, <2>1, ProductMonotone, Products
  <2> DEFINE y == d * Interval
  <2>3. y \in Nat /\ y <= x
    BY <2>2 DEF x
  <2> HIDE DEF y
  <2>4. y <= n
    BY <1>1, <1>4, <2>3
  <2>5. ReadBy(j, d) = d * Interval
    BY <2>1 DEF ReadBy, K
  <2> QED
    BY <2>3, <2>4, <2>5 DEF y
<1>6. ASSUME NEW k \in 1 .. K + 1
      PROVE  /\ (k - 1) * Interval \in Nat /\ InRound(j, k) \in 0 .. Interval
             /\ ReadBy(j, k) = (k - 1) * Interval + InRound(j, k)
             /\ ReadBy(j, k) \in 0 .. n
             /\ InRound(j, k) = Interval <=> k <= K
  <2>1. k - 1 \in Nat /\ k \in Nat /\ (k - 1) * Interval \in Nat /\ k - 1 \in 0 .. K
    BY <1>1, <1>2, Products
  <2>2. CASE k <= K
    <3>1. ReadBy(j, k) = k * Interval /\ k * Interval \in Nat /\ k * Interval <= n
      BY <1>2, <1>5, <2>2
    <3>2. InRound(j, k) = Interval
      BY <2>2 DEF InRound, K
    <3>3. k * Interval = (k - 1) * Interval + Interval
      BY <1>1, <2>1
    <3> DEFINE y == k * Interval
    <3> HIDE DEF y
    <3>4. ReadBy(j, k) = y /\ y \in Nat /\ y <= n
      BY <3>1 DEF y
    <3> QED
      BY <1>1, <2>1, <2>2, <3>2, <3>3, <3>4 DEF y
  <2>3. CASE ~ (k <= K)
    <3>1. k = K + 1
      BY <1>2, <2>3
    <3>2. ReadBy(j, k) = n /\ InRound(j, k) = r
      BY <2>3 DEF ReadBy, InRound, K, n, r
    <3>3. (k - 1) * Interval = x
      BY <1>2, <3>1 DEF x
    <3> QED
      BY <1>1, <1>2, <1>4, <2>3, <3>2, <3>3
  <2> QED
    BY <2>2, <2>3
<1>7. ReadBy(j, 0) = 0
  <2>1. 0 \in 0 .. K /\ 0 * Interval = 0
    BY <1>1, <1>2
  <2> QED
    BY <1>5, <2>1
<1>8. ReadBy(j, K + 1) = n
  <2>1. ~ (K + 1 <= K)
    BY <1>2
  <2> QED
    BY <2>1 DEF ReadBy, K, n
<1> QED
  BY <1>2, <1>5, <1>6, <1>7, <1>8 DEF K, n

(* Samples of the stream encode to pieces.                                 *)
LEMMA EncodingsType ==
  ASSUME NEW j \in Jobs, NEW b \in Nat, NEW n \in Nat, b + n <= Len(j.stream)
  PROVE  /\ [i \in 1 .. n |-> Encoded(j, b + i)] \in Seq(Seq(PieceOf(j)))
         /\ Len([i \in 1 .. n |-> Encoded(j, b + i)]) = n
<1>1. \A i \in 1 .. n : b + i \in 1 .. Len(j.stream)
  BY JobType
<1>2. \A i \in 1 .. n : Encoded(j, b + i) \in Seq(PieceOf(j))
  BY <1>1, EncodedType
<1> DEFINE P == Seq(PieceOf(j))
<1> HIDE DEF P
<1>3. [i \in 1 .. n |-> Encoded(j, b + i)] \in Seq(P)
  BY <1>2 DEF P
<1>4. Len([i \in 1 .. n |-> Encoded(j, b + i)]) = n
  OBVIOUS
<1> QED
  BY <1>3, <1>4 DEF P

LEMMA PiecesType ==
  ASSUME NEW j \in Jobs, NEW n \in 0 .. Len(j.stream)
  PROVE  /\ [s \in 1 .. n |-> Encoded(j, s)] \in Seq(Seq(PieceOf(j)))
         /\ Len([s \in 1 .. n |-> Encoded(j, s)]) = n
         /\ PiecesOf(j, n) \in Seq(PieceOf(j))
<1>1. n \in Nat /\ 0 + n <= Len(j.stream)
  BY JobType
<1> DEFINE s == [i \in 1 .. n |-> Encoded(j, 0 + i)]
           t == [i \in 1 .. n |-> Encoded(j, i)]
<1>2. s \in Seq(Seq(PieceOf(j))) /\ Len(s) = n
  BY <1>1, EncodingsType
<1>3. s = t
  <2>1. \A i \in 1 .. n : 0 + i = i
    BY <1>1
  <2> QED
    BY <2>1
<1>4. FlattenSeq(t) \in Seq(PieceOf(j))
  <2> HIDE DEF s, t
  <2> QED
    BY <1>2, <1>3, FlattenType
<1> QED
  BY <1>2, <1>3, <1>4 DEF PiecesOf

LEMMA RoundType ==
  ASSUME NEW j \in Jobs, NEW k \in 1 .. LastRound(j) + 1
  PROVE  RoundOf(j, k) \in Seq(PieceOf(j))
<1> DEFINE b == (k - 1) * Interval
           n == InRound(j, k)
           s == [i \in 1 .. n |-> Encoded(j, b + i)]
<1>1. b \in Nat /\ n \in Nat /\ b + n <= Len(j.stream)
  <2>1. /\ b \in Nat /\ n \in 0 .. Interval /\ Interval \in Nat
        /\ ReadBy(j, k) = b + n /\ ReadBy(j, k) \in 0 .. Len(j.stream)
    BY RoundsAre, JobType
  <2> QED
    BY <2>1
<1> HIDE DEF b, n
<1>2. s \in Seq(Seq(PieceOf(j)))
  BY <1>1, EncodingsType
<1> HIDE DEF s
<1>3. FlattenSeq(s) \in Seq(PieceOf(j))
  BY <1>2, FlattenType
<1> QED
  BY <1>3 DEF RoundOf, s, b, n

(* The pieces of the samples read by round k: those of the rounds before   *)
(* it, then its own.                                                       *)
LEMMA PiecesByRound ==
  ASSUME NEW j \in Jobs, NEW k \in 1 .. LastRound(j) + 1
  PROVE  PiecesOf(j, ReadBy(j, k)) = PiecesOf(j, ReadBy(j, k - 1)) \o RoundOf(j, k)
<1> DEFINE b == (k - 1) * Interval
           n == InRound(j, k)
           P == Seq(PieceOf(j))
           s == [i \in 1 .. b |-> Encoded(j, i)]
           t == [i \in 1 .. n |-> Encoded(j, b + i)]
           u == [i \in 1 .. b + n |-> Encoded(j, i)]
<1>1. /\ b \in Nat /\ n \in Nat /\ b + n <= Len(j.stream) /\ b \in 0 .. Len(j.stream)
      /\ b + n \in 0 .. Len(j.stream)
      /\ ReadBy(j, k) = b + n /\ ReadBy(j, k - 1) = b
  <2>1. /\ b \in Nat /\ n \in 0 .. Interval /\ Interval \in Nat /\ LastRound(j) \in Nat
        /\ ReadBy(j, k) = b + n /\ ReadBy(j, k) \in 0 .. Len(j.stream) /\ Len(j.stream) \in Nat
    BY RoundsAre, JobType
  <2>2. k - 1 \in 0 .. LastRound(j)
    BY <2>1
  <2>3. ReadBy(j, k - 1) = b
    BY <2>2, RoundsAre
  <2> HIDE DEF b, n
  <2> QED
    BY <2>1, <2>3
<1>2. PiecesOf(j, b) = FlattenSeq(s) /\ PiecesOf(j, b + n) = FlattenSeq(u) /\ RoundOf(j, k) = FlattenSeq(t)
  BY DEF PiecesOf, RoundOf
<1> HIDE DEF b, n
<1>3. s \in Seq(P) /\ Len(s) = b /\ t \in Seq(P) /\ Len(t) = n /\ u \in Seq(P) /\ Len(u) = b + n
  BY <1>1, PiecesType, EncodingsType
<1>4. u = s \o t
  <2>1. \A i \in 1 .. b : u[i] = s[i]
    BY <1>1
  <2>2. ASSUME NEW i \in 1 .. b + n, ~ (i <= b) PROVE u[i] = t[i - b]
    <3>1. i - b \in 1 .. n /\ b + (i - b) = i
      BY <1>1, <2>2
    <3> QED
      BY <3>1
  <2> HIDE DEF s, t, u, P
  <2>3. /\ s \o t \in Seq(P) /\ Len(s \o t) = b + n
        /\ \A i \in 1 .. b + n : (s \o t)[i] = IF i <= b THEN s[i] ELSE t[i - b]
    BY <1>3, ConcatProperties
  <2> DEFINE v == s \o t
  <2>4. \A i \in 1 .. b + n : u[i] = v[i]
    BY <1>1, <2>1, <2>2, <2>3
  <2>5. v \in Seq(P) /\ Len(v) = b + n
    BY <2>3
  <2> HIDE DEF v
  <2>6. u = v
    BY <1>3, <2>4, <2>5, SeqEqual
  <2> QED
    BY <2>6 DEF v
<1>5. FlattenSeq(s \o t) = FlattenSeq(s) \o FlattenSeq(t)
  <2> HIDE DEF s, t
  <2> QED
    BY <1>3, FlattenConcat DEF P
<1> QED
  BY <1>1, <1>2, <1>4, <1>5

(* One process by itself, round by round.                                  *)
Grouped(j) == [packs : Seq(Seq(PieceOf(j))), rest : Seq(PieceOf(j))]
LoneStep(j, s, k) == MatchedGroup(j, s.packs, s.rest \o RoundOf(j, k), k > LastRound(j))
LoneRun(j, f) ==
  /\ f \in [0 .. LastRound(j) + 1 -> Grouped(j)]
  /\ f[0] = Result(<< >>, << >>) /\ LonePacks(j) = f[LastRound(j) + 1].packs
  /\ \A k \in 1 .. LastRound(j) + 1 : f[k] = LoneStep(j, f[k - 1], k)

(* A round adds packs to those there are, and keeps a rest.                *)
LEMMA LoneStepIs ==
  ASSUME NEW j \in Jobs, NEW s \in Grouped(j), NEW k \in 1 .. LastRound(j) + 1
  PROVE  \E more \in Seq(Seq(PieceOf(j))), rest \in Seq(PieceOf(j)) :
           /\ LoneStep(j, s, k) = Result(s.packs \o more, rest)
           /\ Sorted(j, s.rest \o RoundOf(j, k), more, rest)
           /\ k > LastRound(j) => rest = << >>
           /\ s.rest \o RoundOf(j, k) = << >> => more = << >> /\ rest = << >>
<1> DEFINE P == PieceOf(j)
           a == s.rest
           c == RoundOf(j, k)
<1>1. a \in Seq(P) /\ c \in Seq(P)
  BY RoundType DEF Grouped
<1> HIDE DEF a, c
<1>2. a \o c \in Seq(P)
  <2> HIDE DEF P
  <2> QED
    BY <1>1, ConcatProperties
<1> DEFINE d == a \o c
           fin == k > LastRound(j)
<1>3. d \in Seq(P) /\ LoneStep(j, s, k) = MatchedGroup(j, s.packs, d, fin)
  BY <1>2 DEF LoneStep, a, c
<1> HIDE DEF d, fin, P
<1>4. \E more \in Seq(Seq(P)), rest \in Seq(P) :
           /\ MatchedGroup(j, s.packs, d, fin) = Result(s.packs \o more, rest)
           /\ Sorted(j, d, more, rest)
           /\ fin => rest = << >>
           /\ d = << >> => more = << >> /\ rest = << >>
  BY <1>3, MatchedGroupIs DEF P
<1> QED
  BY <1>3, <1>4, Zenon DEF d, fin, P, a, c

LEMMA LoneStepType ==
  ASSUME NEW j \in Jobs, NEW s \in Grouped(j), NEW k \in 1 .. LastRound(j) + 1
  PROVE  LoneStep(j, s, k) \in Grouped(j)
<1>1. PICK more \in Seq(Seq(PieceOf(j))), rest \in Seq(PieceOf(j)) :
           LoneStep(j, s, k) = Result(s.packs \o more, rest)
  BY LoneStepIs
<1> DEFINE Q == Seq(PieceOf(j))
           a == s.packs
<1>2. a \in Seq(Q) /\ more \in Seq(Q)
  BY DEF Grouped
<1> HIDE DEF a, Q
<1>3. a \o more \in Seq(Q)
  BY <1>2, ConcatProperties
<1> QED
  BY <1>1, <1>3 DEF Result, Grouped, a, Q

(* LonePacks is computed round by round.                                   *)
LEMMA LoneExists ==
  ASSUME NEW j \in Jobs
  PROVE  \E f : LoneRun(j, f)
<1> DEFINE K == LastRound(j)
           ks == [k \in 1 .. K + 1 |-> k]
           n == Len(ks)
           X == Grouped(j)
           base == Result(<< >>, << >>)
           step == [m \in 1 .. n |-> [x \in X |-> LoneStep(j, x, ks[m])]]
           Is(h) == h = [m \in 0 .. n |->
                           IF m = 0 THEN base
                           ELSE CHOOSE v \in {LoneStep(j, s, ks[m]) : s \in {h[m - 1]}} : TRUE]
           g == CHOOSE h : Is(h)
<1>0. LonePacks(j) = g[n].packs
  BY DEF LonePacks, Fold, LoneStep, RoundOf, InRound, LastRound
<1>a. K \in Nat /\ K + 1 \in Nat
  BY RoundsAre
<1>b. n = K + 1 /\ \A m \in 1 .. K + 1 : ks[m] = m
  <2> HIDE DEF K
  <2> QED
    BY <1>a
<1> HIDE DEF ks
<1>1. n \in Nat
  BY <1>a, <1>b
<1>2. base \in X
  BY EmptySeq DEF Grouped, Result
<1> HIDE DEF base
<1>3. step \in [1 .. n -> [X -> X]]
  <2>1. \A m \in 1 .. n : \A x \in X : LoneStep(j, x, ks[m]) \in X
    BY <1>b, LoneStepType
  <2> HIDE DEF X
  <2> QED
    BY <2>1
<1> HIDE DEF X
<1>4. PICK f : Run(f, n, X, base, step)
  <2> HIDE DEF step, n
  <2> QED
    BY <1>1, <1>2, <1>3, Recursion
<1>5. f \in [0 .. n -> X] /\ f[0] = base
  BY <1>4 DEF Run
<1>6. ASSUME NEW m \in 1 .. n PROVE f[m] = LoneStep(j, f[m - 1], ks[m])
  <2>1. m - 1 \in 0 .. n
    BY <1>1
  <2>2. f[m - 1] \in X
    BY <1>5, <2>1
  <2> QED
    BY <1>4, <2>2 DEF Run
<1>7. ASSUME NEW h, NEW m \in 1 .. n
      PROVE  (CHOOSE v \in {LoneStep(j, s, ks[m]) : s \in {h[m - 1]}} : TRUE)
               = LoneStep(j, h[m - 1], ks[m])
  <2>1. {LoneStep(j, s, ks[m]) : s \in {h[m - 1]}} = {LoneStep(j, h[m - 1], ks[m])}
    OBVIOUS
  <2> QED
    BY <2>1, Only, Zenon
<1>8. Is(f)
  <2>1. ASSUME NEW m \in 0 .. n
        PROVE  f[m] = IF m = 0 THEN base
                      ELSE CHOOSE v \in {LoneStep(j, s, ks[m]) : s \in {f[m - 1]}} : TRUE
    <3>1. CASE m = 0
      BY <1>5, <3>1
    <3>2. CASE m # 0
      <4>1. m \in 1 .. n
        BY <1>1, <3>2
      <4> QED
        BY <1>6, <1>7, <3>2, <4>1, Zenon
    <3> QED
      BY <3>1, <3>2
  <2>2. f = [m \in 0 .. n |-> f[m]]
    BY <1>5
  <2> QED
    BY <2>1, <2>2, Zenon
<1>9. Is(g)
  <2> HIDE DEF Is
  <2> QED
    BY <1>8
<1> HIDE DEF g
<1>10. g[0] = f[0]
  BY <1>1, <1>5, <1>9
<1>11. ASSUME NEW m \in 1 .. n, g[m - 1] = f[m - 1] PROVE g[m] = f[m]
  <2>1. m \in 0 .. n /\ m # 0
    BY <1>1
  <2>2. g[m] = CHOOSE v \in {LoneStep(j, s, ks[m]) : s \in {g[m - 1]}} : TRUE
    BY <1>9, <2>1, Zenon
  <2> QED
    BY <1>6, <1>7, <1>11, <2>2, Zenon
<1>12. g[n] = f[n]
  <2>1. \A m \in 1 .. n : g[m - 1] = f[m - 1] => g[m] = f[m]
    BY <1>11
  <2> HIDE DEF n
  <2> QED
    BY <1>1, <1>10, <2>1, Agree
<1>13. LoneRun(j, f)
  <2>1. \A k \in 1 .. K + 1 : f[k] = LoneStep(j, f[k - 1], k)
    BY <1>6, <1>b, Zenon
  <2> QED
    BY <1>0, <1>5, <1>12, <1>b, <2>1, Zenon DEF LoneRun, X, base, K
<1> QED
  BY <1>13

Lone(j) == CHOOSE f : LoneRun(j, f)

LEMMA LoneIs ==
  ASSUME NEW j \in Jobs
  PROVE  LoneRun(j, Lone(j))
BY LoneExists DEF Lone

(* What is due is packed or kept.                                          *)
Whole(j, packs, rest, due) ==
  LET packed == FlattenSeq(packs) \o rest
  IN  /\ Len(packed) = Len(due) /\ Held(packed) = Held(due)
      /\ j.strategy = "sequential" => packed = due
      /\ FitAll(j, packs)

(* Another round keeps it so.                                              *)
LEMMA WholeStep ==
  ASSUME NEW j \in Jobs, NEW P, NEW packs \in Seq(Seq(P)), NEW rest \in Seq(P), NEW due \in Seq(P),
         NEW more \in Seq(Seq(P)), NEW left \in Seq(P), NEW r \in Seq(P),
         Whole(j, packs, rest, due), Sorted(j, rest \o r, more, left)
  PROVE  Whole(j, packs \o more, left, due \o r)
<1> DEFINE a == FlattenSeq(packs)
           c == FlattenSeq(more)
<1>1. a \in Seq(P) /\ c \in Seq(P) /\ FlattenSeq(packs \o more) = a \o c
  <2>1. a \in Seq(P) /\ c \in Seq(P)
    BY FlattenType
  <2>2. FlattenSeq(packs \o more) = a \o c
    BY FlattenConcat
  <2> QED
    BY <2>1, <2>2
<1>2. /\ Len(a \o rest) = Len(due) /\ Held(a \o rest) = Held(due) /\ FitAll(j, packs)
      /\ j.strategy = "sequential" => a \o rest = due
  BY DEF Whole
<1>3. /\ Len(c \o left) = Len(rest \o r) /\ Held(c \o left) = Held(rest \o r) /\ FitAll(j, more)
      /\ j.strategy = "sequential" => c \o left = rest \o r
  BY DEF Sorted
<1>4. FitAll(j, packs \o more)
  <2> DEFINE Q == Seq(P)
  <2>1. packs \in Seq(Q) /\ more \in Seq(Q)
    OBVIOUS
  <2> HIDE DEF Q
  <2> QED
    BY <1>2, <1>3, <2>1, FitAllConcat
<1> HIDE DEF a, c
<1>5. Assoc(P)
  BY ConcatAssoc
<1>6. (a \o c) \o left = a \o (c \o left) /\ a \o (rest \o r) = (a \o rest) \o r
  <2>1. (a \o c) \o left = a \o (c \o left)
    BY <1>1, <1>5, ZenonT(60) DEF Assoc
  <2>2. (a \o rest) \o r = a \o (rest \o r)
    BY <1>1, <1>5, ZenonT(60) DEF Assoc
  <2> QED
    BY <2>1, <2>2, Zenon
<1>7. \A s, t \in Seq(P) : /\ s \o t \in Seq(P) /\ Len(s \o t) = Len(s) + Len(t) /\ Len(s) \in Nat
                           /\ Held(s \o t) = Held(s) \cup Held(t)
  BY ConcatCounts
<1>8. /\ c \o left \in Seq(P) /\ rest \o r \in Seq(P) /\ a \o rest \in Seq(P)
  BY <1>1, <1>7, Zenon
<1>9. Len(a \o (c \o left)) = Len(a) + Len(c \o left) /\ Len(rest \o r) = Len(rest) + Len(r)
      /\ Len(a \o rest) = Len(a) + Len(rest) /\ Len(due \o r) = Len(due) + Len(r)
  BY <1>1, <1>7, <1>8, Zenon
<1>10. Len(a) \in Nat /\ Len(rest) \in Nat /\ Len(r) \in Nat /\ Len(due) \in Nat
  BY <1>1, <1>7, Zenon
<1>11. Len((a \o c) \o left) = Len(due \o r)
  BY <1>2, <1>3, <1>6, <1>9, <1>10
<1>12. /\ Held(a \o (c \o left)) = Held(a) \cup Held(c \o left) /\ Held(rest \o r) = Held(rest) \cup Held(r)
       /\ Held(a \o rest) = Held(a) \cup Held(rest) /\ Held(due \o r) = Held(due) \cup Held(r)
  BY <1>1, <1>7, <1>8, Zenon
<1>13. Held((a \o c) \o left) = Held(due \o r)
  BY <1>2, <1>3, <1>6, <1>12
<1>14. j.strategy = "sequential" => (a \o c) \o left = due \o r
  BY <1>2, <1>3, <1>6, Zenon
<1> QED
  BY <1>1, <1>4, <1>11, <1>13, <1>14, Zenon DEF Whole

LEMMA LoneParts ==
  ASSUME NEW j \in Jobs, NEW d \in 0 .. LastRound(j) + 1
  PROVE  Lone(j)[d].packs \in Seq(Seq(PieceOf(j))) /\ Lone(j)[d].rest \in Seq(PieceOf(j))
<1>1. Lone(j)[d] \in Grouped(j)
  BY LoneIs DEF LoneRun
<1> QED
  BY <1>1 DEF Grouped

(* From one round of one process to the next.                              *)
LEMMA LoneNext ==
  ASSUME NEW j \in Jobs, NEW k \in 1 .. LastRound(j) + 1
  PROVE  /\ Lone(j)[k] = LoneStep(j, Lone(j)[k - 1], k)
         /\ \E more \in Seq(Seq(PieceOf(j))), rest \in Seq(PieceOf(j)) :
              /\ Lone(j)[k].packs = Lone(j)[k - 1].packs \o more /\ Lone(j)[k].rest = rest
              /\ Sorted(j, Lone(j)[k - 1].rest \o RoundOf(j, k), more, rest)
              /\ k > LastRound(j) => rest = << >>
              /\ Lone(j)[k - 1].rest \o RoundOf(j, k) = << >> => more = << >> /\ rest = << >>
<1> DEFINE s == Lone(j)[k - 1]
<1>1. Lone(j)[k] = LoneStep(j, s, k)
  BY LoneIs DEF LoneRun
<1>2. s \in Grouped(j)
  <2>1. k - 1 \in 0 .. LastRound(j) + 1
    BY RoundsAre
  <2> QED
    BY <2>1, LoneIs DEF LoneRun
<1> HIDE DEF s
<1>3. PICK more \in Seq(Seq(PieceOf(j))), rest \in Seq(PieceOf(j)) :
           /\ LoneStep(j, s, k) = Result(s.packs \o more, rest)
           /\ Sorted(j, s.rest \o RoundOf(j, k), more, rest)
           /\ k > LastRound(j) => rest = << >>
           /\ s.rest \o RoundOf(j, k) = << >> => more = << >> /\ rest = << >>
  BY <1>2, LoneStepIs
<1>4. Lone(j)[k].packs = s.packs \o more /\ Lone(j)[k].rest = rest
  BY <1>1, <1>3 DEF Result
<1> QED
  BY <1>1, <1>3, <1>4, Zenon DEF s

(* Before the first round nothing is packed.                               *)
LEMMA LoneBegins ==
  ASSUME NEW j \in Jobs
  PROVE  Lone(j)[0].packs = << >> /\ Lone(j)[0].rest = << >>
BY LoneIs DEF LoneRun, Result

(* After the last round all is packed and nothing is left over.            *)
LEMMA LoneEnds ==
  ASSUME NEW j \in Jobs
  PROVE  Lone(j)[LastRound(j) + 1].packs = LonePacks(j) /\ Lone(j)[LastRound(j) + 1].rest = << >>
<1> DEFINE k == LastRound(j) + 1
<1>1. k \in 1 .. LastRound(j) + 1 /\ k > LastRound(j)
  BY RoundsAre
<1>2. Lone(j)[k].rest = << >>
  <2> HIDE DEF k
  <2> QED
    BY <1>1, LoneNext
<1>3. Lone(j)[k].packs = LonePacks(j)
  BY LoneIs DEF LoneRun
<1> QED
  BY <1>2, <1>3

(* An empty stream has no packs.                                           *)
LEMMA LoneOfNothing ==
  ASSUME NEW j \in Jobs, j.stream = << >>
  PROVE  LonePacks(j) = << >> /\ LastRound(j) = 0 /\ ReadBy(j, 1) = 0
<1>1. Len(j.stream) = 0
  BY EmptySeq
<1>2. LastRound(j) = 0
  <2>1. 0 \div Interval = 0
    BY PackingAssumption
  <2> QED
    BY <1>1, <2>1 DEF LastRound
<1>3. RoundOf(j, 1) = << >>
  <2>1. 0 % Interval = 0
    BY PackingAssumption
  <2>2. InRound(j, 1) = 0
    BY <1>1, <1>2, <2>1 DEF InRound
  <2>3. [i \in 1 .. InRound(j, 1) |-> Encoded(j, (1 - 1) * Interval + i)] = << >>
    BY <2>2
  <2> QED
    BY <2>3, FlattenEmpty DEF RoundOf
<1>4. Lone(j)[1 - 1].rest \o RoundOf(j, 1) = << >>
  <2>1. << >> \o << >> = << >>
    OBVIOUS
  <2> QED
    BY <1>3, <2>1, LoneBegins
<1>5. Lone(j)[1].packs = << >>
  <2>1. 1 \in 1 .. LastRound(j) + 1
    BY <1>2
  <2>2. Lone(j)[1].packs = Lone(j)[1 - 1].packs \o << >>
    BY <1>4, <2>1, LoneNext, ZenonT(60)
  <2>3. << >> \o << >> = << >>
    OBVIOUS
  <2> QED
    BY <2>2, <2>3, LoneBegins
<1>6. ReadBy(j, 1) = 0
  BY <1>1, <1>2 DEF ReadBy
<1> QED
  BY <1>2, <1>5, <1>6, LoneEnds

(* Round after round, every piece read is packed or kept.                  *)
LEMMA LoneWhole ==
  ASSUME NEW j \in Jobs, NEW d \in 0 .. LastRound(j) + 1
  PROVE  Whole(j, Lone(j)[d].packs, Lone(j)[d].rest, PiecesOf(j, ReadBy(j, d)))
<1> DEFINE K == LastRound(j)
           Good(m) == Whole(j, Lone(j)[m].packs, Lone(j)[m].rest, PiecesOf(j, ReadBy(j, m)))
           T == {m \in Nat : m <= K + 1 => Good(m)}
<1>1. K \in Nat
  BY RoundsAre
<1>2. 0 \in T
  <2>1. PiecesOf(j, ReadBy(j, 0)) = << >>
    <3>1. ReadBy(j, 0) = 0
      BY RoundsAre
    <3>2. [s \in 1 .. 0 |-> Encoded(j, s)] = << >>
      OBVIOUS
    <3> QED
      BY <3>1, <3>2, FlattenEmpty DEF PiecesOf
  <2>2. FlattenSeq(<< >>) \o << >> = << >>
    <3>1. << >> \o << >> = << >>
      OBVIOUS
    <3> QED
      BY <3>1, FlattenEmpty
  <2>3. FitAll(j, << >>)
    BY EmptySeq DEF FitAll
  <2>4. Good(0)
    BY <2>1, <2>2, <2>3, LoneBegins DEF Whole
  <2> QED
    BY <2>4
<1>3. ASSUME NEW m \in Nat, m \in T PROVE m + 1 \in T
  <2> SUFFICES ASSUME m + 1 <= K + 1 PROVE Good(m + 1)
    OBVIOUS
  <2>1. m + 1 \in 1 .. K + 1 /\ (m + 1) - 1 = m /\ m \in 0 .. K + 1
    BY <1>1
  <2>2. Good(m)
    BY <1>1, <1>3
  <2> DEFINE k == m + 1
             P == PieceOf(j)
             s == Lone(j)[m]
             due == PiecesOf(j, ReadBy(j, m))
  <2>3. PICK more \in Seq(Seq(P)), rest \in Seq(P) :
           /\ Lone(j)[k].packs = Lone(j)[k - 1].packs \o more /\ Lone(j)[k].rest = rest
           /\ Sorted(j, Lone(j)[k - 1].rest \o RoundOf(j, k), more, rest)
    <3> HIDE DEF k
    <3>1. k \in 1 .. LastRound(j) + 1
      BY <2>1 DEF k
    <3> QED
      BY <3>1, LoneNext
  <2>4. s.packs \in Seq(Seq(P)) /\ s.rest \in Seq(P) /\ RoundOf(j, k) \in Seq(P)
    BY <2>1, LoneParts, RoundType
  <2>5. due \in Seq(P) /\ PiecesOf(j, ReadBy(j, k)) = due \o RoundOf(j, k)
    <3>1. ReadBy(j, m) \in 0 .. Len(j.stream)
      <4>1. CASE m = 0
        <5>1. ReadBy(j, 0) = 0
          BY RoundsAre
        <5>2. Len(j.stream) \in Nat
          BY JobType
        <5> QED
          BY <4>1, <5>1, <5>2
      <4>2. CASE m # 0
        <5>1. m \in 1 .. K + 1
          BY <2>1, <4>2
        <5> QED
          BY <5>1, RoundsAre
      <4> QED
        BY <4>1, <4>2
    <3>2. due \in Seq(P)
      BY <3>1, PiecesType
    <3>3. PiecesOf(j, ReadBy(j, k)) = PiecesOf(j, ReadBy(j, k - 1)) \o RoundOf(j, k)
      <4> HIDE DEF k
      <4>1. k \in 1 .. LastRound(j) + 1
        BY <2>1 DEF k
      <4> QED
        BY <4>1, PiecesByRound
    <3> QED
      BY <2>1, <3>2, <3>3
  <2> DEFINE r == RoundOf(j, k)
  <2>6. /\ Whole(j, s.packs, s.rest, due) /\ Sorted(j, s.rest \o r, more, rest)
        /\ Lone(j)[k].packs = s.packs \o more /\ Lone(j)[k].rest = rest /\ r \in Seq(P)
    BY <2>1, <2>2, <2>3, <2>4
  <2> DEFINE sp == s.packs
             sr == s.rest
  <2>7. Whole(j, sp \o more, rest, due \o r)
    <3>1. sp \in Seq(Seq(P)) /\ sr \in Seq(P) /\ Whole(j, sp, sr, due) /\ Sorted(j, sr \o r, more, rest)
      BY <2>4, <2>6
    <3>2. due \in Seq(P) /\ r \in Seq(P)
      BY <2>5, <2>6
    <3> HIDE DEF sp, sr, due, r, P
    <3> QED
      BY <3>1, <3>2, WholeStep
  <2> QED
    BY <2>5, <2>6, <2>7
<1> HIDE DEF T
<1>4. d \in T
  BY <1>1, <1>2, <1>3, Induction
<1> QED
  BY <1>4 DEF T

(* One sequence begins with the other.                                     *)
Begins(a, b) == Len(a) <= Len(b) /\ \A i \in 1 .. Len(a) : b[i] = a[i]

(* A concatenation begins with its first part.                             *)
LEMMA BeginsConcat ==
  ASSUME NEW S, NEW a \in Seq(S), NEW b \in Seq(S)
  PROVE  Begins(a, a \o b)
<1>1. /\ Len(a) \in Nat /\ Len(b) \in Nat /\ Len(a \o b) = Len(a) + Len(b)
      /\ \A i \in 1 .. Len(a) + Len(b) : (a \o b)[i] = IF i <= Len(a) THEN a[i] ELSE b[i - Len(a)]
  BY ConcatProperties, LenProperties
<1> DEFINE c == a \o b
<1> HIDE DEF c
<1>2. Begins(a, c)
  BY <1>1 DEF Begins, c
<1> QED
  BY <1>2 DEF c

(* What is packed after a round begins what is packed in the end.          *)
LEMMA LoneBeginsFinal ==
  ASSUME NEW j \in Jobs, NEW d \in 0 .. LastRound(j) + 1
  PROVE  Begins(Lone(j)[d].packs, LonePacks(j))
<1> DEFINE K == LastRound(j)
           a == Lone(j)[d].packs
           T == {m \in Nat : d + m <= K + 1 => Begins(a, Lone(j)[d + m].packs)}
<1>1. K \in Nat /\ d \in Nat /\ d <= K + 1
  BY RoundsAre
<1>2. 0 \in T
  <2>1. a \in Seq(Seq(PieceOf(j)))
    BY LoneParts
  <2>2. Len(a) \in Nat
    BY <2>1, LenProperties
  <2>3. d + 0 = d
    BY <1>1
  <2> QED
    BY <2>2, <2>3 DEF Begins
<1>3. ASSUME NEW m \in Nat, m \in T PROVE m + 1 \in T
  <2> SUFFICES ASSUME d + (m + 1) <= K + 1 PROVE Begins(a, Lone(j)[d + (m + 1)].packs)
    OBVIOUS
  <2> DEFINE k == d + (m + 1)
             Q == Seq(PieceOf(j))
             b == Lone(j)[d + m].packs
             c == Lone(j)[k].packs
  <2>1. k \in 1 .. K + 1 /\ k - 1 = d + m /\ d + m \in 0 .. K + 1 /\ d + m <= K + 1
    BY <1>1
  <2>2. PICK more \in Seq(Q) : c = Lone(j)[k - 1].packs \o more
    <3> HIDE DEF k
    <3> QED
      BY <2>1, LoneNext
  <2>3. b \in Seq(Q) /\ a \in Seq(Q)
    BY <2>1, LoneParts
  <2>4. Begins(a, b)
    BY <1>3, <2>1
  <2>5. c = b \o more
    BY <2>1, <2>2
  <2> HIDE DEF a, b, c, Q
  <2>6. Begins(b, c)
    BY <2>3, <2>5, BeginsConcat
  <2>7. Len(a) \in Nat /\ Len(b) \in Nat
    BY <2>3, LenProperties
  <2>8. c \in Seq(Q)
    BY <2>3, <2>5, ConcatProperties
  <2>9. Len(c) \in Nat
    BY <2>8, LenProperties
  <2>10. Begins(a, c)
    BY <2>4, <2>6, <2>7, <2>9 DEF Begins
  <2> QED
    BY <2>10 DEF c
<1> HIDE DEF T
<1>4. Nat \subseteq T
  BY <1>2, <1>3, Induction
<1>5. K + 1 - d \in Nat /\ d + (K + 1 - d) = K + 1
  BY <1>1
<1>6. K + 1 - d \in T
  BY <1>4, <1>5
<1>7. Begins(a, Lone(j)[d + (K + 1 - d)].packs)
  BY <1>1, <1>5, <1>6 DEF T
<1>8. Begins(a, Lone(j)[K + 1].packs)
  BY <1>5, <1>7
<1> QED
  BY <1>8, LoneEnds

-----------------------------------------------------------------------------
(* The generator and the encoding processes                                *)

Steps  == {"over", "put", "fetch", "yield", "failed"}
Phases == {"start", "collect", "scatter", "train", "done"}
Pack   == Seq(PieceOf(job))

(* The generator is where one process would be after d rounds.             *)
AfterRounds(d) ==
  /\ made = Lone(job)[d].packs /\ open = Lone(job)[d].rest
  /\ read = ReadBy(job, d) + num
  /\ at \in {"put", "fetch", "yield"} => d <= LastRound(job)
  /\ at = "over" => d = LastRound(job) + 1 \/ (d = 0 /\ epoch[1] = 0)

Generating ==
  /\ job \in Jobs /\ at \in Steps
  /\ num \in 0 .. Interval /\ read \in 0 .. Len(job.stream)
  /\ at \in {"over", "yield"} => num = 0
  /\ at = "fetch" => num = Interval \/ read = Len(job.stream)
  /\ \E d \in 0 .. LastRound(job) + 1 : AfterRounds(d)

(* Rank 0 starts and ends an epoch while the generator is at its end.      *)
Ended == \/ phase[1] \in {"start", "done"}
         \/ phase[1] = "scatter" /\ group = << >>
Control ==
  /\ phase \in [Ranks -> Phases] /\ epoch \in [Ranks -> Nat] /\ taken \in Nat
  /\ group \in Seq(Seq(Pack))
  /\ Ended => at = "over"

(* The samples of the round: a number is given out, waits in inq, is       *)
(* encoded by one process, waits in outq, and is in Back once fetched; or  *)
(* the process has died with it.                                           *)
Ticket(i) == <<i, read - num + i>>
Answer(i) == <<i, Encoded(job, read - num + i)>>
Issued    == 1 .. num - Len(inq)

Waiting       == \A k \in 1 .. Len(inq) : inq[k] = Ticket(num - Len(inq) + k)
Working(Back) == \A w \in Workers :
                   busy[w] = Nobody \/ \E i \in Issued \ Back : busy[w] = Ticket(i)
Sent(Back)    == \A k \in 1 .. Len(outq) : \E i \in Issued \ Back : outq[k] = Answer(i)
Apart ==
  /\ \A v, w \in Workers : busy[v] # Nobody /\ busy[v] = busy[w] => v = w
  /\ \A k, l \in 1 .. Len(outq) : outq[k][1] = outq[l][1] => k = l
  /\ \A w \in Workers, k \in 1 .. Len(outq) : busy[w] # Nobody => busy[w][1] # outq[k][1]
Fetched(Back) ==
  /\ at # "fetch" => Back = {}
  /\ at = "fetch" => /\ fetched = Cardinality(Back)
                     /\ res \in Seq(Pack) /\ Len(res) = num
                     /\ \A i \in Back : res[i] = Encoded(job, read - num + i)

Encoding ==
  /\ inq \in Seq(Nat \X Nat) /\ outq \in Seq(Nat \X Pack)
  /\ busy \in [Workers -> (Nat \X Nat) \cup {Nobody}]
  /\ Len(inq) <= num
  /\ Waiting /\ Apart
  /\ \E Back \in SUBSET Issued : Working(Back) /\ Sent(Back) /\ Fetched(Back)

Feeding ==
  /\ Generating /\ Control
  /\ at # "failed" => Encoding

(* A round ends after Interval samples, or with the stream.                *)
LEMMA RoundCloses ==
  ASSUME NEW j \in Jobs, NEW d \in 0 .. LastRound(j), NEW m \in 0 .. Interval,
         ReadBy(j, d) + m <= Len(j.stream),
         m = Interval \/ ReadBy(j, d) + m = Len(j.stream)
  PROVE  /\ d + 1 \in 1 .. LastRound(j) + 1 /\ ReadBy(j, d) = d * Interval /\ d * Interval \in Nat
         /\ m = InRound(j, d + 1) /\ ReadBy(j, d + 1) = ReadBy(j, d) + m
         /\ m # Interval <=> d + 1 > LastRound(j)
<1> DEFINE K == LastRound(j)
           n == Len(j.stream)
           x == d * Interval
           k == d + 1
           l == K + 1
           y == K * Interval
<1>1. K \in Nat /\ d \in Nat /\ k \in 1 .. K + 1 /\ k - 1 = d /\ d <= K
  BY RoundsAre
<1>2. l \in 1 .. K + 1 /\ l - 1 = K
  BY <1>1
<1>3. n \in Nat /\ Interval \in Nat \ {0} /\ m \in Nat /\ m <= Interval
  BY JobType
<1>4. ReadBy(j, d) = x /\ x \in Nat /\ x <= n /\ ReadBy(j, K + 1) = n
  BY RoundsAre
<1>5. /\ (k - 1) * Interval \in Nat /\ InRound(j, k) \in 0 .. Interval
      /\ ReadBy(j, k) = (k - 1) * Interval + InRound(j, k)
      /\ ReadBy(j, k) \in 0 .. n
      /\ InRound(j, k) = Interval <=> k <= K
  <2> HIDE DEF k
  <2> QED
    BY <1>1, RoundsAre
<1>6. ReadBy(j, k) = x + InRound(j, k)
  BY <1>1, <1>5
<1>7. /\ InRound(j, l) \in 0 .. Interval
      /\ ReadBy(j, l) = (l - 1) * Interval + InRound(j, l)
      /\ InRound(j, l) = Interval <=> l <= K
  <2> HIDE DEF l
  <2> QED
    BY <1>2, RoundsAre
<1>8. n = y + InRound(j, l) /\ InRound(j, l) \in 0 .. Interval /\ InRound(j, l) # Interval
  <2>1. ~ (l <= K)
    BY <1>1
  <2> QED
    BY <1>2, <1>4, <1>7, <2>1
<1> DEFINE a == InRound(j, k)
           b == InRound(j, l)
<1>9. a \in 0 .. Interval /\ b \in 0 .. Interval /\ b # Interval /\ n = y + b
      /\ ReadBy(j, k) = x + a /\ x + a <= n /\ (a = Interval <=> k <= K)
  BY <1>5, <1>6, <1>8
<1>10. d = K => x = y /\ a = b
  OBVIOUS
<1>11. d # K => k <= K /\ ~ (k > K)
  BY <1>1
<1>12. d = K => ~ (k <= K) /\ k > K
  BY <1>1
<1>13. x + m <= n /\ (m = Interval \/ x + m = n)
  BY <1>4
<1>14. y \in Nat
  BY <1>1, <1>3, Products
<1> HIDE DEF a, b, x, y, n, K
<1>15. m = a /\ (m # Interval <=> k > K)
  <2>1. CASE d = K
    <3>1. x = y /\ a = b /\ k > K
      BY <2>1, <1>10, <1>12
    <3>2. m # Interval
      BY <1>3, <1>9, <1>13, <1>14, <3>1
    <3>3. x + m = n
      BY <1>13, <3>2
    <3> QED
      BY <1>3, <1>9, <1>14, <3>1, <3>2, <3>3
  <2>2. CASE d # K
    <3>1. a = Interval /\ ~ (k > K)
      BY <2>2, <1>9, <1>11
    <3>2. m = Interval
      BY <1>3, <1>4, <1>9, <1>13, <3>1
    <3> QED
      BY <3>1, <3>2
  <2> QED
    BY <2>1, <2>2
<1> QED
  BY <1>1, <1>4, <1>9, <1>15 DEF a, x, K

(* A round is matched as one process would match it.                       *)
LEMMA MatchIsLone ==
  ASSUME Generating, NEW d \in 0 .. LastRound(job), AfterRounds(d), at = "fetch",
         res \in Seq(Pack), Len(res) = num,
         \A i \in 1 .. num : res[i] = Encoded(job, read - num + i)
  PROVE  /\ d + 1 \in 1 .. LastRound(job) + 1
         /\ MatchedGroup(job, made, open \o FlattenSeq(res), num # Interval) = Lone(job)[d + 1]
         /\ ReadBy(job, d + 1) = read
         /\ num # Interval <=> d + 1 > LastRound(job)
<1>1. /\ job \in Jobs /\ num \in 0 .. Interval /\ read \in 0 .. Len(job.stream)
      /\ num = Interval \/ read = Len(job.stream)
      /\ read = ReadBy(job, d) + num
      /\ made = Lone(job)[d].packs /\ open = Lone(job)[d].rest
  BY DEF Generating, AfterRounds
<1>2. read <= Len(job.stream)
  BY <1>1, JobType
<1> DEFINE k == d + 1
<1>3. /\ k \in 1 .. LastRound(job) + 1 /\ ReadBy(job, d) = d * Interval /\ d * Interval \in Nat
      /\ num = InRound(job, k) /\ ReadBy(job, k) = ReadBy(job, d) + num
      /\ num # Interval <=> k > LastRound(job)
  BY <1>1, <1>2, RoundCloses
<1>4. k - 1 = d
  BY RoundsAre, <1>1
<1> HIDE DEF k
<1>5. RoundOf(job, k) = FlattenSeq(res)
  <2> DEFINE b == d * Interval
             t == [i \in 1 .. num |-> Encoded(job, b + i)]
  <2>1. RoundOf(job, k) = FlattenSeq(t)
    BY <1>3, <1>4 DEF RoundOf
  <2>2. num \in Nat /\ b \in Nat /\ read \in Nat /\ read = b + num
    BY <1>1, <1>3, JobType
  <2>3. \A i \in 1 .. num : res[i] = t[i]
    <3> HIDE DEF b
    <3>1. \A i \in 1 .. num : read - num + i = b + i
      BY <2>2
    <3> QED
      BY <3>1
  <2>4. res = t
    <3> HIDE DEF t
    <3>1. res \in [1 .. num -> Pack]
      BY LenProperties
    <3>2. t = [i \in 1 .. num |-> t[i]]
      BY DEF t
    <3> QED
      BY <2>3, <3>1, <3>2
  <2> QED
    BY <2>1, <2>4
<1>6. Lone(job)[k] = LoneStep(job, Lone(job)[d], k)
  <2>1. Lone(job)[k] = LoneStep(job, Lone(job)[k - 1], k)
    BY <1>1, <1>3, LoneNext
  <2> QED
    BY <1>4, <2>1
<1>7. LoneStep(job, Lone(job)[d], k) = MatchedGroup(job, made, open \o FlattenSeq(res), k > LastRound(job))
  BY <1>1, <1>5 DEF LoneStep
<1>8. (num # Interval) = (k > LastRound(job))
  <2>1. (k > LastRound(job)) \in BOOLEAN
    BY RoundsAre, <1>1, <1>3
  <2> QED
    BY <1>3, <2>1
<1>9. MatchedGroup(job, made, open \o FlattenSeq(res), num # Interval) = Lone(job)[k]
  BY <1>6, <1>7, <1>8
<1> QED
  BY <1>1, <1>3, <1>9 DEF k

(* Once as many results have come back as samples were put in, every       *)
(* result is there and the queues and processes are empty.                 *)
LEMMA AllBack ==
  ASSUME Generating, Encoding, at = "fetch", fetched = num
  PROVE  /\ inq = << >> /\ outq = << >> /\ \A w \in Workers : busy[w] = Nobody
         /\ res \in Seq(Pack) /\ Len(res) = num
         /\ \A i \in 1 .. num : res[i] = Encoded(job, read - num + i)
<1>1. PICK Back \in SUBSET Issued : Working(Back) /\ Sent(Back) /\ Fetched(Back)
  BY DEF Encoding
<1>2. num \in Nat /\ Len(inq) \in Nat /\ Len(inq) <= num /\ inq \in Seq(Nat \X Nat)
      /\ outq \in Seq(Nat \X Pack) /\ Len(outq) \in Nat
  BY JobType, LenProperties DEF Generating, Encoding
<1> DEFINE l == Len(inq)
<1>3. num - l \in Int /\ 1 \in Int /\ num - l >= 0
  BY <1>2
<1>4. IsFiniteSet(Issued) /\ Cardinality(Issued) = num - l
  <2> HIDE DEF l
  <2> DEFINE m == num - l
  <2>1. IsFiniteSet(1 .. m) /\ Cardinality(1 .. m) = IF 1 > m THEN 0 ELSE m - 1 + 1
    <3>1. m \in Int
      BY <1>3
    <3> HIDE DEF m
    <3> QED
      BY <3>1, FS_Interval
  <2>2. (IF 1 > m THEN 0 ELSE m - 1 + 1) = m
    BY <1>3
  <2> QED
    BY <2>1, <2>2 DEF Issued, l
<1>5. Cardinality(Back) = num
  BY <1>1 DEF Fetched
<1>6. Cardinality(Back) <= Cardinality(Issued) /\ (Cardinality(Issued) = Cardinality(Back) => Issued = Back)
  BY <1>4, FS_Subset
<1>7. l = 0
  BY <1>2, <1>4, <1>5, <1>6
<1>8. Issued = Back /\ Issued = 1 .. num
  <2>1. num - l = num
    BY <1>2, <1>7
  <2> QED
    BY <1>4, <1>5, <1>6, <2>1 DEF Issued
<1>9. Issued \ Back = {}
  BY <1>8
<1>10. inq = << >>
  BY <1>2, <1>7, EmptySeq
<1>11. \A w \in Workers : busy[w] = Nobody
  BY <1>1, <1>9 DEF Working
<1>12. outq = << >>
  <2>1. \A k \in 1 .. Len(outq) : FALSE
    BY <1>1, <1>9 DEF Sent
  <2>2. Len(outq) = 0
    BY <1>2, <2>1
  <2> QED
    BY <1>2, <2>2, EmptySeq
<1> QED
  BY <1>1, <1>8, <1>10, <1>11, <1>12 DEF Fetched

(* The invariant holds at the start.                                       *)
LEMMA FeedingInit == Init => Feeding
<1> SUFFICES ASSUME Init PROVE Feeding
  OBVIOUS
<1>1. job \in Jobs /\ 1 \in Ranks
  BY JobType DEF Init, Ranks
<1>2. LastRound(job) \in Nat /\ ReadBy(job, 0) = 0 /\ Len(job.stream) \in Nat /\ Interval \in Nat
  BY <1>1, RoundsAre, JobType
<1>3. AfterRounds(0)
  <2>1. epoch[1] = 0
    BY <1>1 DEF Init
  <2>2. made = << >> /\ open = << >> /\ read = 0 /\ num = 0 /\ at = "over"
    BY DEF Init
  <2> QED
    BY <1>1, <1>2, <2>1, <2>2, LoneBegins DEF AfterRounds
<1>4. Generating
  <2>1. 0 \in 0 .. LastRound(job) + 1
    BY <1>2
  <2> QED
    BY <1>1, <1>2, <1>3, <2>1 DEF Generating, Init, Steps
<1>5. Control
  BY EmptySeq DEF Control, Init, Ended, Phases
<1>6. Encoding
  <2>1. inq = << >> /\ outq = << >> /\ num = 0 /\ busy = [w \in Workers |-> Nobody] /\ at = "over"
    BY DEF Init
  <2>2. Len(<< >>) = 0
    OBVIOUS
  <2>3. Working({}) /\ Sent({}) /\ Fetched({})
    BY <2>1, <2>2 DEF Working, Sent, Fetched
  <2>4. Waiting /\ Apart
    BY <2>1, <2>2 DEF Waiting, Apart
  <2> QED
    BY <2>1, <2>2, <2>3, <2>4, EmptySeq DEF Encoding
<1> QED
  BY <1>4, <1>5, <1>6 DEF Feeding

(* ---- Generating ---- *)

(* The steps that leave the generator alone, then the others.              *)
LEMMA GeneratingKept ==
  ASSUME Generating, at' = at, UNCHANGED <<job, read, num, open, made>>, epoch'[1] = epoch[1]
  PROVE  Generating'
<1>1. \A d : AfterRounds(d) => AfterRounds(d)'
  BY DEF AfterRounds
<1> QED
  BY <1>1 DEF Generating

LEMMA GeneratingPut ==
  ASSUME Generating, PutSample PROVE Generating'
<1>1. /\ job \in Jobs /\ num \in Nat /\ read \in Nat /\ Interval \in Nat /\ Len(job.stream) \in Nat
      /\ num < Interval /\ read < Len(job.stream)
  BY JobType DEF Generating, PutSample
<1>2. num' = num + 1 /\ read' = read + 1 /\ UNCHANGED <<job, at, open, made, epoch>> /\ at = "put"
  BY DEF PutSample, rankVars
<1>3. num' \in 0 .. Interval /\ read' \in 0 .. Len(job'.stream)
  BY <1>1, <1>2
<1>4. PICK d \in 0 .. LastRound(job) + 1 : AfterRounds(d)
  BY DEF Generating
<1>5. ReadBy(job, d) \in Nat
  BY <1>1, <1>4, RoundsAre DEF ReadBy
<1>6. AfterRounds(d)'
  <2>1. read' = ReadBy(job', d) + num'
    BY <1>1, <1>2, <1>4, <1>5 DEF AfterRounds
  <2> QED
    BY <1>2, <1>4, <2>1 DEF AfterRounds
<1> QED
  BY <1>1, <1>2, <1>3, <1>4, <1>6 DEF Generating

LEMMA GeneratingPutEnd ==
  ASSUME Generating, PutEnd PROVE Generating'
<1>1. /\ at = "put" /\ (num = Interval \/ read = Len(job.stream)) /\ at' = "fetch"
      /\ UNCHANGED <<job, read, num, open, made, epoch>>
  BY DEF PutEnd, rankVars
<1>2. PICK d \in 0 .. LastRound(job) + 1 : AfterRounds(d)
  BY DEF Generating
<1>3. AfterRounds(d)'
  BY <1>1, <1>2 DEF AfterRounds
<1> QED
  BY <1>1, <1>2, <1>3 DEF Generating, Steps

LEMMA GeneratingFails ==
  ASSUME Generating, at' = "failed", UNCHANGED <<job, read, num, open, made, epoch>>
  PROVE  Generating'
<1>1. \A d : AfterRounds(d) => AfterRounds(d)'
  BY DEF AfterRounds
<1> QED
  BY <1>1 DEF Generating, Steps

LEMMA GeneratingResumes ==
  ASSUME Generating, Resume PROVE Generating'
<1>1. at = "yield" /\ at' = "put" /\ UNCHANGED <<job, read, num, open, made, epoch>>
  BY DEF Resume, rankVars
<1>2. \A d : AfterRounds(d) => AfterRounds(d)'
  BY <1>1 DEF AfterRounds
<1> QED
  BY <1>1, <1>2 DEF Generating, Steps

(* The round is matched as one process would: one round further.           *)
LEMMA GeneratingMatch ==
  ASSUME Generating, Encoding, Match PROVE Generating'
<1>1. /\ at = "fetch" /\ fetched = num /\ num' = 0 /\ UNCHANGED <<job, read, epoch>>
      /\ at' = IF num # Interval THEN "over" ELSE "yield"
      /\ made' = MatchedGroup(job, made, open \o FlattenSeq(res), num # Interval).packs
      /\ open' = MatchedGroup(job, made, open \o FlattenSeq(res), num # Interval).rest
  BY DEF Match, rankVars
<1>2. PICK d \in 0 .. LastRound(job) + 1 : AfterRounds(d)
  BY DEF Generating
<1>3. job \in Jobs /\ LastRound(job) \in Nat /\ d \in 0 .. LastRound(job)
  <2>1. d <= LastRound(job)
    BY <1>1, <1>2 DEF AfterRounds
  <2>2. job \in Jobs /\ LastRound(job) \in Nat
    BY RoundsAre DEF Generating
  <2> QED
    BY <1>2, <2>1, <2>2
<1>4. /\ res \in Seq(Pack) /\ Len(res) = num
      /\ \A i \in 1 .. num : res[i] = Encoded(job, read - num + i)
  BY <1>1, AllBack
<1>5. /\ d + 1 \in 1 .. LastRound(job) + 1
      /\ MatchedGroup(job, made, open \o FlattenSeq(res), num # Interval) = Lone(job)[d + 1]
      /\ ReadBy(job, d + 1) = read
      /\ num # Interval <=> d + 1 > LastRound(job)
  BY <1>1, <1>2, <1>3, <1>4, MatchIsLone
<1> DEFINE k == d + 1
<1>6. made' = Lone(job)[k].packs /\ open' = Lone(job)[k].rest
  BY <1>1, <1>5
<1>7. at' = "yield" => k <= LastRound(job)
  BY <1>1, <1>3, <1>5
<1>8. at' = "over" => k = LastRound(job) + 1
  BY <1>1, <1>3, <1>5
<1>9. read \in Nat /\ read + 0 = read /\ read \in 0 .. Len(job.stream)
  BY JobType DEF Generating
<1>10. AfterRounds(k)'
  <2>1. read' = ReadBy(job', k) + num'
    BY <1>1, <1>5, <1>9
  <2> HIDE DEF k
  <2> QED
    BY <1>1, <1>6, <1>7, <1>8, <2>1 DEF AfterRounds
<1>11. k \in 0 .. LastRound(job) + 1 /\ 0 \in 0 .. Interval
  BY <1>3, <1>5, JobType
<1>12. at' \in {"over", "yield"}
  BY <1>1
<1> HIDE DEF k
<1> QED
  BY <1>1, <1>3, <1>9, <1>10, <1>11, <1>12 DEF Generating, Steps

(* A new epoch begins before the first round; that of an empty stream ends *)
(* there.                                                                  *)
LEMMA GeneratingStart ==
  ASSUME Generating, StartEpoch(1) PROVE Generating'
<1>1. /\ at' = IF job.stream = << >> THEN "over" ELSE "put"
      /\ read' = 0 /\ num' = 0 /\ open' = << >> /\ made' = << >> /\ job' = job
  BY DEF StartEpoch
<1>2. job \in Jobs /\ Len(job.stream) \in Nat /\ Interval \in Nat \ {0}
      /\ LastRound(job) \in Nat /\ ReadBy(job, 0) = 0
  BY RoundsAre, JobType DEF Generating
<1>3. \E d \in 0 .. LastRound(job) + 1 : AfterRounds(d)'
  <2>1. CASE job.stream = << >>
    <3>1. LonePacks(job) = << >> /\ LastRound(job) = 0 /\ ReadBy(job, 1) = 0
      BY <1>2, <2>1, LoneOfNothing
    <3>2. LastRound(job) + 1 = 1 /\ 1 \in 0 .. LastRound(job) + 1
      BY <3>1
    <3>3. Lone(job)[1].packs = << >> /\ Lone(job)[1].rest = << >>
      BY <1>2, <3>1, <3>2, LoneEnds
    <3>4. AfterRounds(1)'
      BY <1>1, <1>2, <2>1, <3>1, <3>2, <3>3 DEF AfterRounds
    <3> QED
      BY <3>2, <3>4
  <2>2. CASE job.stream # << >>
    <3>1. Lone(job)[0].packs = << >> /\ Lone(job)[0].rest = << >>
      BY <1>2, LoneBegins
    <3>2. AfterRounds(0)'
      BY <1>1, <1>2, <2>2, <3>1 DEF AfterRounds
    <3>3. 0 \in 0 .. LastRound(job) + 1
      BY <1>2
    <3> QED
      BY <3>2, <3>3
  <2> QED
    BY <2>1, <2>2
<1>4. at' \in {"over", "put"} /\ 0 \in 0 .. Interval /\ 0 \in 0 .. Len(job.stream)
  BY <1>1, <1>2
<1> QED
  BY <1>1, <1>2, <1>3, <1>4 DEF Generating, Steps

(* ---- Encoding ---- *)

(* The steps that leave the queues alone, then the others.                 *)
LEMMA EncodingKept ==
  ASSUME Encoding, UNCHANGED <<job, read, num, fetched, res, inq, outq, busy>>,
         at' = "fetch" <=> at = "fetch"
  PROVE  Encoding'
<1>1. \A B : /\ Working(B) => Working(B)'
             /\ Sent(B) => Sent(B)'
             /\ Fetched(B) => Fetched(B)'
  BY DEF Working, Sent, Fetched, Ticket, Answer, Issued, Pack
<1>2. Waiting' /\ Apart'
  BY DEF Waiting, Apart, Ticket, Encoding
<1>3. PICK B \in SUBSET Issued : Working(B) /\ Sent(B) /\ Fetched(B)
  BY DEF Encoding
<1>4. B \in SUBSET Issued' /\ Pack' = Pack
  BY <1>3 DEF Issued, Pack
<1>5. /\ inq' \in Seq(Nat \X Nat) /\ outq' \in Seq(Nat \X Pack')
      /\ busy' \in [Workers -> (Nat \X Nat) \cup {Nobody}]
      /\ Len(inq') <= num'
  BY <1>4 DEF Encoding
<1>6. Working(B)' /\ Sent(B)' /\ Fetched(B)'
  BY <1>1, <1>3
<1> QED
  BY <1>2, <1>4, <1>5, <1>6 DEF Encoding

(* Before any result is fetched nothing is back.                           *)
LEMMA NoneBack ==
  ASSUME Encoding, at # "fetch"
  PROVE  Working({}) /\ Sent({})
BY DEF Encoding, Fetched

(* With no sample in the round the queues are empty and no process is at   *)
(* work.                                                                   *)
LEMMA AllIdle ==
  ASSUME Encoding, num = 0
  PROVE  inq = << >> /\ outq = << >> /\ \A w \in Workers : busy[w] = Nobody
<1>1. Len(inq) \in Nat /\ Len(outq) \in Nat /\ Len(inq) <= num
      /\ inq \in Seq(Nat \X Nat) /\ outq \in Seq(Nat \X Pack)
  BY LenProperties DEF Encoding
<1>2. Len(inq) = 0
  BY <1>1
<1>3. Issued = {}
  BY <1>2 DEF Issued
<1>4. PICK B : Working(B) /\ Sent(B)
  BY DEF Encoding
<1>5. \A w \in Workers : busy[w] = Nobody
  BY <1>3, <1>4 DEF Working
<1>6. \A k \in 1 .. Len(outq) : FALSE
  BY <1>3, <1>4 DEF Sent
<1>7. Len(outq) = 0
  BY <1>1, <1>6
<1> QED
  BY <1>1, <1>2, <1>5, <1>7, EmptySeq

(* Nothing in the queues, nobody at work, and no round being fetched.      *)
LEMMA EncodingEmpty ==
  ASSUME inq' = << >>, outq' = << >>, busy' \in [Workers -> (Nat \X Nat) \cup {Nobody}],
         \A w \in Workers : busy'[w] = Nobody, num' = 0, at' # "fetch"
  PROVE  Encoding'
<1>1. Len(inq') = 0 /\ Len(outq') = 0
  <2>1. Len(<< >>) = 0
    OBVIOUS
  <2> QED
    BY <2>1
<1>2. Working({})' /\ Sent({})' /\ Fetched({})'
  BY <1>1 DEF Working, Sent, Fetched
<1>3. Waiting' /\ Apart'
  BY <1>1 DEF Waiting, Apart
<1>4. inq' \in Seq(Nat \X Nat) /\ outq' \in Seq(Nat \X Pack')
  BY EmptySeq
<1> QED
  BY <1>1, <1>2, <1>3, <1>4 DEF Encoding

(* A sample is put in: its number waits last.                              *)
LEMMA EncodingPut ==
  ASSUME Generating, Encoding, PutSample PROVE Encoding'
<1>1. /\ at = "put" /\ at' = at /\ num' = num + 1 /\ read' = read + 1
      /\ inq' = Append(inq, <<num + 1, read + 1>>)
      /\ UNCHANGED <<job, fetched, res, outq, busy>>
  BY DEF PutSample
<1>2. num \in Nat /\ read \in Nat /\ inq \in Seq(Nat \X Nat) /\ Len(inq) \in Nat /\ Len(inq) <= num
  BY JobType, LenProperties DEF Generating, Encoding
<1> DEFINE S == Nat \X Nat
           e == <<num + 1, read + 1>>
           l == Len(inq)
<1>3. e \in S
  BY <1>2
<1>4. /\ inq' \in Seq(S) /\ Len(inq') = l + 1 /\ inq'[l + 1] = e
      /\ \A k \in 1 .. l : inq'[k] = inq[k]
  <2> HIDE DEF e, S
  <2>1. inq \in Seq(S)
    BY <1>2 DEF S
  <2>2. inq' = Append(inq, e)
    BY <1>1 DEF e
  <2> QED
    BY <1>3, <2>1, <2>2, AppendProperties
<1>5. l \in Nat /\ l <= num
  BY <1>2
<1>6. read' - num' = read - num /\ num' - Len(inq') = num - l
  <2> HIDE DEF l
  <2> QED
    BY <1>1, <1>2, <1>4, <1>5
<1>7. Issued' = Issued /\ \A i : Ticket(i)' = Ticket(i) /\ Answer(i)' = Answer(i)
  BY <1>1, <1>6 DEF Issued, Ticket, Answer, l
<1>8. Waiting'
  <2> SUFFICES ASSUME NEW k \in 1 .. l + 1 PROVE inq'[k] = Ticket(num - l + k)
    BY <1>4, <1>6, <1>7 DEF Waiting
  <2>1. CASE k = l + 1
    <3>1. num - l + k = num + 1 /\ read - num + (num + 1) = read + 1
      BY <1>2, <1>5, <2>1
    <3> QED
      BY <1>4, <2>1, <3>1 DEF Ticket, e
  <2>2. CASE k # l + 1
    <3>1. k \in 1 .. l
      BY <1>5, <2>2
    <3>2. inq[k] = Ticket(num - l + k)
      BY <3>1 DEF Encoding, Waiting, l
    <3> QED
      BY <1>4, <3>1, <3>2
  <2> QED
    BY <2>1, <2>2
<1>9. Apart'
  BY <1>1 DEF Encoding, Apart
<1>10. Working({})' /\ Sent({})' /\ Fetched({})'
  <2>1. Working({}) /\ Sent({})
    BY <1>1, NoneBack
  <2> QED
    BY <1>1, <1>7, <2>1 DEF Working, Sent, Fetched
<1>11. Len(inq') <= num'
  <2> HIDE DEF l
  <2> QED
    BY <1>1, <1>2, <1>4, <1>5
<1>12. Pack' = Pack
  BY <1>1 DEF Pack
<1> QED
  BY <1>1, <1>4, <1>8, <1>9, <1>10, <1>11, <1>12 DEF Encoding

(* The results of the round are awaited; none is back yet.                 *)
LEMMA EncodingPutEnd ==
  ASSUME Generating, Encoding, PutEnd PROVE Encoding'
<1>1. /\ at = "put" /\ at' = "fetch" /\ fetched' = 0 /\ res' = [i \in 1 .. num |-> << >>]
      /\ UNCHANGED <<job, read, num, inq, outq, busy>>
  BY DEF PutEnd, workerVars
<1>2. num \in Nat
  BY JobType DEF Generating
<1>3. res' \in Seq(Pack) /\ Len(res') = num
  <2>1. << >> \in Pack
    BY EmptySeq DEF Pack
  <2>2. res' \in [1 .. num -> Pack]
    BY <1>1, <2>1
  <2> QED
    BY <1>1, <1>2, <2>2, SeqDef
<1>4. Issued' = Issued /\ Pack' = Pack /\ \A i : Ticket(i)' = Ticket(i) /\ Answer(i)' = Answer(i)
  BY <1>1 DEF Issued, Ticket, Answer, Pack
<1>5. Waiting' /\ Apart'
  BY <1>1, <1>4 DEF Encoding, Waiting, Apart
<1>6. Working({})' /\ Sent({})'
  <2>1. Working({}) /\ Sent({})
    BY <1>1, NoneBack
  <2> QED
    BY <1>1, <1>4, <2>1 DEF Working, Sent
<1>7. Fetched({})'
  BY <1>1, <1>3, <1>4, FS_EmptySet DEF Fetched
<1> QED
  BY <1>1, <1>4, <1>5, <1>6, <1>7 DEF Encoding

(* What a ticket and an answer name.                                       *)
LEMMA Numbers ==
  /\ \A i : Ticket(i)[1] = i /\ Ticket(i)[2] = read - num + i /\ Ticket(i) # Nobody
  /\ \A i : Answer(i)[1] = i /\ Answer(i)[2] = Encoded(job, read - num + i)
BY DEF Ticket, Answer, Nobody

(* A result comes back, whichever it is.                                   *)
LEMMA EncodingFetch ==
  ASSUME Generating, Encoding, Fetch PROVE Encoding'
<1>1. /\ at = "fetch" /\ at' = at /\ outq # << >> /\ outq' = Tail(outq) /\ fetched' = fetched + 1
      /\ res' = [res EXCEPT ![Head(outq)[1]] = Head(outq)[2]]
      /\ UNCHANGED <<job, read, num, inq, busy>>
  BY DEF Fetch, Place
<1>2. PICK B \in SUBSET Issued : Working(B) /\ Sent(B) /\ Fetched(B)
  BY DEF Encoding
<1>3. num \in Nat /\ Len(inq) \in Nat /\ outq \in Seq(Nat \X Pack)
  BY JobType, LenProperties DEF Generating, Encoding
<1> DEFINE S == Nat \X Pack
<1>4. /\ Len(outq) \in Nat \ {0} /\ outq' \in Seq(S) /\ Len(outq') = Len(outq) - 1 /\ Head(outq) = outq[1]
      /\ \A k \in 1 .. Len(outq') : outq'[k] = outq[k + 1]
      /\ outq[1] \in S
  <2> HIDE DEF S
  <2>1. outq \in Seq(S) /\ outq # << >>
    BY <1>1, <1>3 DEF S
  <2>2. Len(outq) \in Nat /\ Len(outq) # 0
    BY <2>1, LenProperties, EmptySeq
  <2>3. Head(outq) = outq[1]
    BY <2>1
  <2> QED
    BY <1>1, <2>1, <2>2, <2>3, HeadTailProperties
<1>5. 1 \in 1 .. Len(outq)
  BY <1>4
<1>6. PICK i \in Issued \ B : outq[1] = Answer(i)
  BY <1>2, <1>5 DEF Sent
<1>7. outq[1][1] = i /\ outq[1][2] = Encoded(job, read - num + i) /\ Encoded(job, read - num + i) \in Pack
  <2>1. outq[1][2] \in Pack
    BY <1>4
  <2> QED
    BY <1>6, <2>1, Numbers
<1> DEFINE C == B \cup {i}
<1>8. i \in 1 .. num /\ IsFiniteSet(Issued)
  <2>1. num - Len(inq) \in Int /\ 1 \in Int /\ num - Len(inq) <= num
    BY <1>3
  <2>2. IsFiniteSet(1 .. num - Len(inq))
    BY <2>1, FS_Interval
  <2> QED
    BY <1>3, <1>6, <2>1, <2>2 DEF Issued
<1>9. Cardinality(C) = Cardinality(B) + 1
  <2>1. IsFiniteSet(B)
    BY <1>8, FS_Subset
  <2> QED
    BY <1>6, <2>1, FS_AddElement
<1>10. /\ res \in Seq(Pack) /\ Len(res) = num /\ fetched = Cardinality(B)
       /\ \A m \in B : res[m] = Encoded(job, read - num + m)
  BY <1>1, <1>2 DEF Fetched
<1>11. res' = [res EXCEPT ![i] = Encoded(job, read - num + i)]
  BY <1>1, <1>4, <1>7
<1>12. /\ res' \in Seq(Pack) /\ Len(res') = num /\ res'[i] = Encoded(job, read - num + i)
       /\ \A m \in 1 .. num : m # i => res'[m] = res[m]
  <2> DEFINE e == Encoded(job, read - num + i)
             P == Pack
  <2>1. e \in P /\ res' = [res EXCEPT ![i] = e] /\ i \in 1 .. Len(res) /\ res \in Seq(P) /\ Len(res) = num
    BY <1>7, <1>8, <1>10, <1>11
  <2> HIDE DEF e, P
  <2>2. res \in [1 .. num -> P]
    BY <2>1, LenProperties
  <2>3. /\ res' \in [1 .. num -> P] /\ res'[i] = e
        /\ \A m \in 1 .. num : m # i => res'[m] = res[m]
    BY <2>1, <2>2
  <2>4. res' \in Seq(P) /\ Len(res') = num
    BY <1>3, <2>3, SeqDef
  <2> QED
    BY <2>3, <2>4 DEF e, P
<1>13. /\ Issued' = Issued /\ Pack' = Pack
       /\ \A m : Ticket(m)' = Ticket(m) /\ Answer(m)' = Answer(m)
  BY <1>1 DEF Issued, Ticket, Answer, Pack
<1>14. C \in SUBSET Issued' /\ \A m \in C : m \in 1 .. num
  <2>1. \A m \in Issued : m \in 1 .. num
    BY <1>3 DEF Issued
  <2> QED
    BY <1>6, <1>13, <2>1
<1>15. Fetched(C)'
  <2>1. \A m \in C : res'[m] = Encoded(job', read' - num' + m)
    BY <1>1, <1>10, <1>12, <1>14
  <2>2. fetched' = Cardinality(C)
    BY <1>1, <1>9, <1>10
  <2> HIDE DEF C
  <2> QED
    BY <1>1, <1>12, <1>13, <2>1, <2>2 DEF Fetched
<1>16. Working(C)'
  <2> SUFFICES ASSUME NEW w \in Workers, busy[w] # Nobody PROVE \E m \in Issued \ C : busy[w] = Ticket(m)
    BY <1>1, <1>13 DEF Working
  <2>1. PICK m \in Issued \ B : busy[w] = Ticket(m)
    BY <1>2 DEF Working
  <2>2. busy[w][1] # outq[1][1]
    BY <1>5 DEF Encoding, Apart
  <2>3. m # i
    BY <1>7, <2>1, <2>2, Numbers
  <2> QED
    BY <2>1, <2>3
<1>17. Sent(C)'
  <2> SUFFICES ASSUME NEW k \in 1 .. Len(outq') PROVE \E m \in Issued \ C : outq'[k] = Answer(m)
    BY <1>13 DEF Sent
  <2>1. outq'[k] = outq[k + 1] /\ k + 1 \in 1 .. Len(outq) /\ k + 1 # 1
    BY <1>4
  <2>2. PICK m \in Issued \ B : outq[k + 1] = Answer(m)
    BY <1>2, <2>1 DEF Sent
  <2>3. outq[k + 1][1] # outq[1][1]
    BY <1>5, <2>1 DEF Encoding, Apart
  <2>4. m # i
    BY <1>7, <2>2, <2>3, Numbers
  <2> QED
    BY <2>1, <2>2, <2>4
<1>18. Apart'
  <2>0. Apart
    BY DEF Encoding
  <2>1. \A k \in 1 .. Len(outq') : k + 1 \in 1 .. Len(outq) /\ outq'[k] = outq[k + 1]
    BY <1>4
  <2>2. \A k, l \in 1 .. Len(outq') : outq'[k][1] = outq'[l][1] => k = l
    <3> SUFFICES ASSUME NEW k \in 1 .. Len(outq'), NEW l \in 1 .. Len(outq'), outq'[k][1] = outq'[l][1]
                 PROVE  k = l
      OBVIOUS
    <3> DEFINE a == k + 1
               b == l + 1
    <3>1. a \in 1 .. Len(outq) /\ b \in 1 .. Len(outq) /\ outq[a][1] = outq[b][1]
      BY <2>1
    <3> HIDE DEF a, b
    <3>2. a = b
      BY <3>1, <2>0 DEF Apart
    <3> QED
      BY <1>4, <3>2 DEF a, b
  <2>3. ASSUME NEW w \in Workers, NEW k \in 1 .. Len(outq'), busy[w] # Nobody
        PROVE  busy[w][1] # outq'[k][1]
    <3> DEFINE a == k + 1
    <3>1. a \in 1 .. Len(outq) /\ outq'[k] = outq[a]
      BY <2>1
    <3> HIDE DEF a
    <3>2. busy[w][1] # outq[a][1]
      BY <2>0, <2>3, <3>1 DEF Apart
    <3> QED
      BY <3>1, <3>2
  <2> QED
    BY <1>1, <2>2, <2>3 DEF Encoding, Apart
<1>19. Waiting'
  BY <1>1, <1>13 DEF Encoding, Waiting
<1>20. /\ inq' \in Seq(Nat \X Nat) /\ outq' \in Seq(Nat \X Pack') /\ Len(inq') <= num'
       /\ busy' \in [Workers -> (Nat \X Nat) \cup {Nobody}]
  BY <1>1, <1>4, <1>13 DEF Encoding
<1> HIDE DEF C, S
<1> QED
  BY <1>14, <1>15, <1>16, <1>17, <1>18, <1>19, <1>20 DEF Encoding

(* A process takes the first sample that waits.                            *)
LEMMA EncodingTake ==
  ASSUME Generating, Encoding, NEW w \in Workers, Take(w) PROVE Encoding'
<1>1. /\ busy[w] = Nobody /\ inq # << >> /\ busy' = [busy EXCEPT ![w] = Head(inq)] /\ inq' = Tail(inq)
      /\ UNCHANGED <<job, at, read, num, fetched, res, outq>>
  BY DEF Take, generatorVars
<1>2. PICK B \in SUBSET Issued : Working(B) /\ Sent(B) /\ Fetched(B)
  BY DEF Encoding
<1>3. num \in Nat /\ inq \in Seq(Nat \X Nat) /\ Len(inq) <= num
  BY JobType DEF Generating, Encoding
<1> DEFINE S == Nat \X Nat
           l == Len(inq)
<1>4. /\ l \in Nat \ {0} /\ inq' \in Seq(S) /\ Len(inq') = l - 1 /\ Head(inq) = inq[1]
      /\ \A k \in 1 .. Len(inq') : inq'[k] = inq[k + 1]
      /\ inq[1] \in S
  <2> HIDE DEF S
  <2>1. inq \in Seq(S) /\ inq # << >>
    BY <1>1, <1>3 DEF S
  <2>2. Len(inq) \in Nat /\ Len(inq) # 0
    BY <2>1, LenProperties, EmptySeq
  <2>3. Head(inq) = inq[1]
    BY <2>1
  <2> QED
    BY <1>1, <2>1, <2>2, <2>3, HeadTailProperties
<1> DEFINE n == num - l + 1
<1>5. l <= num /\ n \in Nat /\ Issued = 1 .. n - 1 /\ Issued' = 1 .. n
  <2>1. l <= num
    BY <1>3
  <2>2. Len(inq') = l - 1
    BY <1>4
  <2>3. num - l = n - 1 /\ num - (l - 1) = n /\ n \in Nat
    <3> HIDE DEF l
    <3> QED
      BY <1>3, <1>4, <2>1
  <2> QED
    BY <1>1, <2>1, <2>2, <2>3 DEF Issued
<1>6. inq[1] = Ticket(n)
  <2>1. 1 \in 1 .. l
    <3> HIDE DEF l
    <3> QED
      BY <1>4
  <2> QED
    BY <2>1 DEF Encoding, Waiting
<1>7. Pack' = Pack /\ \A m : Ticket(m)' = Ticket(m) /\ Answer(m)' = Answer(m)
  BY <1>1 DEF Ticket, Answer, Pack
<1>8. n \in Issued' /\ n \notin Issued /\ \A m \in Issued : m \in Issued' /\ m # n
  <2>1. n \in Nat \ {0}
    <3> HIDE DEF l
    <3> QED
      BY <1>3, <1>4, <1>5
  <2> HIDE DEF n
  <2> QED
    BY <1>5, <2>1
<1>9. /\ busy' \in [Workers -> S \cup {Nobody}] /\ busy'[w] = Ticket(n)
      /\ \A v \in Workers : v # w => busy'[v] = busy[v]
  <2> HIDE DEF S, n
  <2>1. busy \in [Workers -> S \cup {Nobody}] /\ Ticket(n) \in S
    BY <1>4, <1>6 DEF Encoding, S
  <2>2. busy' = [busy EXCEPT ![w] = Ticket(n)]
    BY <1>1, <1>4, <1>6
  <2> QED
    BY <2>1, <2>2
<1> HIDE DEF n
<1>10. Working(B)'
  <2> SUFFICES ASSUME NEW v \in Workers, busy'[v] # Nobody PROVE \E m \in Issued' \ B : busy'[v] = Ticket(m)
    BY <1>7 DEF Working
  <2>1. CASE v = w
    <3>1. n \in Issued' \ B
      BY <1>8
    <3> QED
      BY <1>9, <2>1, <3>1
  <2>2. CASE v # w
    <3>1. PICK m \in Issued \ B : busy[v] = Ticket(m)
      BY <1>2, <1>9, <2>2 DEF Working
    <3> QED
      BY <1>8, <1>9, <2>2, <3>1
  <2> QED
    BY <2>1, <2>2
<1>11. Sent(B)'
  <2> SUFFICES ASSUME NEW k \in 1 .. Len(outq) PROVE \E m \in Issued' \ B : outq[k] = Answer(m)
    BY <1>1, <1>7 DEF Sent
  <2>1. PICK m \in Issued \ B : outq[k] = Answer(m)
    BY <1>2 DEF Sent
  <2> QED
    BY <1>8, <2>1
<1>12. Fetched(B)'
  BY <1>1, <1>2, <1>7 DEF Fetched
<1>13. \A v \in Workers : v # w /\ busy[v] # Nobody => busy[v][1] # n
  <2> SUFFICES ASSUME NEW v \in Workers, busy[v] # Nobody PROVE busy[v][1] # n
    OBVIOUS
  <2>1. PICK m \in Issued \ B : busy[v] = Ticket(m)
    BY <1>2 DEF Working
  <2> QED
    BY <1>8, <2>1, Numbers
<1>14. \A k \in 1 .. Len(outq) : outq[k][1] # n
  <2> SUFFICES ASSUME NEW k \in 1 .. Len(outq) PROVE outq[k][1] # n
    OBVIOUS
  <2>1. PICK m \in Issued \ B : outq[k] = Answer(m)
    BY <1>2 DEF Sent
  <2> QED
    BY <1>8, <2>1, Numbers
<1>15. Apart'
  <2>0. busy'[w][1] = n
    BY <1>9, Numbers
  <2>1. \A v, u \in Workers : busy'[v] # Nobody /\ busy'[v] = busy'[u] => v = u
    <3> SUFFICES ASSUME NEW v \in Workers, NEW u \in Workers, busy'[v] # Nobody, busy'[v] = busy'[u], v # u
                 PROVE  FALSE
      OBVIOUS
    <3>1. CASE v = w
      BY <1>9, <1>13, <2>0, <3>1
    <3>2. CASE u = w
      BY <1>9, <1>13, <2>0, <3>2
    <3>3. CASE v # w /\ u # w
      BY <1>9, <3>3 DEF Encoding, Apart
    <3> QED
      BY <3>1, <3>2, <3>3
  <2>2. \A v \in Workers, k \in 1 .. Len(outq) : busy'[v] # Nobody => busy'[v][1] # outq[k][1]
    <3> SUFFICES ASSUME NEW v \in Workers, NEW k \in 1 .. Len(outq), busy'[v] # Nobody
                 PROVE  busy'[v][1] # outq[k][1]
      OBVIOUS
    <3>1. CASE v = w
      BY <1>14, <2>0, <3>1
    <3>2. CASE v # w
      BY <1>9, <3>2 DEF Encoding, Apart
    <3> QED
      BY <3>1, <3>2
  <2> QED
    BY <1>1, <2>1, <2>2 DEF Encoding, Apart
<1>16. Waiting'
  <2> SUFFICES ASSUME NEW k \in 1 .. Len(inq') PROVE inq'[k] = Ticket(num - Len(inq') + k)
    BY <1>1, <1>7 DEF Waiting
  <2>1. inq'[k] = inq[k + 1] /\ k + 1 \in 1 .. l /\ num - Len(inq') + k = num - l + (k + 1)
    <3> DEFINE m == Len(inq')
    <3>0. inq'[k] = inq[k + 1] /\ num \in Nat
      BY <1>3, <1>4
    <3>1. l \in Nat \ {0} /\ m = l - 1 /\ k \in 1 .. m
      BY <1>4
    <3> HIDE DEF l, m
    <3>2. k + 1 \in 1 .. l
      BY <3>1
    <3>3. num - m + k = num - l + (k + 1)
      BY <3>0, <3>1
    <3> QED
      BY <3>0, <3>2, <3>3 DEF m
  <2>2. inq[k + 1] = Ticket(num - l + (k + 1))
    BY <2>1 DEF Encoding, Waiting
  <2> QED
    BY <2>1, <2>2
<1>17. B \in SUBSET Issued'
  BY <1>8
<1>18. Len(inq') <= num'
  <2> HIDE DEF l
  <2> QED
    BY <1>1, <1>3, <1>4, <1>5
<1>19. /\ inq' \in Seq(Nat \X Nat) /\ outq' \in Seq(Nat \X Pack')
       /\ busy' \in [Workers -> (Nat \X Nat) \cup {Nobody}]
  BY <1>1, <1>4, <1>7, <1>9 DEF Encoding
<1> QED
  BY <1>10, <1>11, <1>12, <1>15, <1>16, <1>17, <1>18, <1>19 DEF Encoding

(* The samples of the round are samples of the stream.                     *)
LEMMA AnswerType ==
  ASSUME Generating, NEW i \in 1 .. num
  PROVE  i \in Nat /\ Encoded(job, read - num + i) \in Pack
<1>1. PICK d \in 0 .. LastRound(job) + 1 : AfterRounds(d)
  BY DEF Generating
<1>2. job \in Jobs /\ num \in Nat /\ read \in Nat /\ read <= Len(job.stream) /\ Len(job.stream) \in Nat
  BY JobType DEF Generating
<1>3. ReadBy(job, d) \in Nat
  BY <1>1, <1>2, RoundsAre DEF ReadBy
<1>4. read = ReadBy(job, d) + num
  BY <1>1 DEF AfterRounds
<1>5. read - num + i \in 1 .. Len(job.stream)
  BY <1>2, <1>3, <1>4
<1> DEFINE s == read - num + i
<1> HIDE DEF s
<1>6. Encoded(job, s) \in Pack
  <2>1. s \in 1 .. Len(job.stream)
    BY <1>5 DEF s
  <2> QED
    BY <1>2, <2>1, EncodedType DEF Pack
<1> QED
  BY <1>6 DEF s

(* It encodes the sample, or dies of it.                                   *)
LEMMA EncodingEncode ==
  ASSUME Generating, Encoding, NEW w \in Workers, Encode(w) PROVE Encoding'
<1>1. /\ busy[w] # Nobody /\ busy' = [busy EXCEPT ![w] = Nobody]
      /\ UNCHANGED <<job, at, read, num, fetched, res, inq>>
      /\ outq' = outq \/ outq' = Append(outq, <<busy[w][1], Encoded(job, busy[w][2])>>)
  BY DEF Encode, generatorVars
<1>2. PICK B \in SUBSET Issued : Working(B) /\ Sent(B) /\ Fetched(B)
  BY DEF Encoding
<1>3. num \in Nat /\ inq \in Seq(Nat \X Nat) /\ Len(inq) \in Nat /\ outq \in Seq(Nat \X Pack)
  BY JobType, LenProperties DEF Generating, Encoding
<1>4. /\ Issued' = Issued /\ Pack' = Pack
      /\ \A m : Ticket(m)' = Ticket(m) /\ Answer(m)' = Answer(m)
  BY <1>1 DEF Issued, Ticket, Answer, Pack
<1>5. PICK i \in Issued \ B : busy[w] = Ticket(i)
  BY <1>1, <1>2 DEF Working
<1>6. i \in 1 .. num
  BY <1>3 DEF Issued
<1>7. /\ busy' \in [Workers -> (Nat \X Nat) \cup {Nobody}] /\ busy'[w] = Nobody
      /\ \A v \in Workers : v # w => busy'[v] = busy[v]
  <2> DEFINE T == (Nat \X Nat) \cup {Nobody}
  <2>1. busy \in [Workers -> T] /\ Nobody \in T
    BY DEF Encoding
  <2> HIDE DEF T
  <2>2. busy' \in [Workers -> T] /\ busy'[w] = Nobody /\ \A v \in Workers : v # w => busy'[v] = busy[v]
    BY <1>1, <2>1
  <2> QED
    BY <2>2 DEF T
<1>8. Waiting' /\ Fetched(B)'
  BY <1>1, <1>2, <1>4 DEF Encoding, Waiting, Fetched
<1>9. Working(B)'
  <2> SUFFICES ASSUME NEW v \in Workers, busy'[v] # Nobody PROVE \E m \in Issued \ B : busy'[v] = Ticket(m)
    BY <1>4 DEF Working
  <2>1. v # w /\ busy'[v] = busy[v]
    BY <1>7
  <2> QED
    BY <1>2, <2>1 DEF Working
<1>0. /\ inq' \in Seq(Nat \X Nat) /\ Len(inq') <= num' /\ B \in SUBSET Issued'
  BY <1>1, <1>4 DEF Encoding
<1>10. Apart
  BY DEF Encoding
<1>11. \A v, u \in Workers : busy'[v] # Nobody /\ busy'[v] = busy'[u] => v = u
  <2> SUFFICES ASSUME NEW v \in Workers, NEW u \in Workers, busy'[v] # Nobody, busy'[v] = busy'[u]
               PROVE  v = u
    OBVIOUS
  <2>1. v # w /\ u # w
    BY <1>7
  <2>2. busy[v] # Nobody /\ busy[v] = busy[u]
    BY <1>7, <2>1
  <2> QED
    BY <1>10, <2>2 DEF Apart
<1>12. CASE outq' = outq
  <2>1. Sent(B)'
    BY <1>2, <1>4, <1>12 DEF Sent
  <2>2. \A v \in Workers, k \in 1 .. Len(outq) : busy'[v] # Nobody => busy'[v][1] # outq[k][1]
    BY <1>7, <1>10 DEF Apart
  <2>3. Apart'
    BY <1>10, <1>11, <1>12, <2>2 DEF Apart
  <2>4. outq' \in Seq(Nat \X Pack')
    BY <1>3, <1>4, <1>12
  <2> QED
    BY <1>0, <1>7, <1>8, <1>9, <2>1, <2>3, <2>4 DEF Encoding
<1>13. CASE outq' = Append(outq, <<busy[w][1], Encoded(job, busy[w][2])>>)
  <2> DEFINE S == Nat \X Pack
             l == Len(outq)
             e == Answer(i)
             last == l + 1
  <2>1. <<busy[w][1], Encoded(job, busy[w][2])>> = e
    BY <1>5, Numbers DEF Answer
  <2>2. e \in S /\ outq \in Seq(S)
    BY <1>3, <1>6, AnswerType DEF Answer
  <2>3. outq' = Append(outq, e)
    BY <1>13, <2>1
  <2>4. l \in Nat /\ outq' \in Seq(S) /\ Len(outq') = l + 1 /\ outq'[l + 1] = e
        /\ \A k \in 1 .. l : outq'[k] = outq[k]
    <3> HIDE DEF S, e
    <3> QED
      BY <2>2, <2>3, AppendProperties, LenProperties
  <2>5. e[1] = i
    BY Numbers
  <2>6. \A k \in 1 .. l + 1 : k = last \/ k \in 1 .. l
    <3> HIDE DEF l
    <3> QED
      BY <2>4
  <2>7. Len(outq') = last /\ outq'[last] = e
    BY <2>4
  <2> HIDE DEF last, e
  <2>8. ASSUME NEW k \in 1 .. l PROVE outq[k][1] # i
    <3>1. outq[k][1] # busy[w][1]
      BY <1>1, <1>10 DEF Apart
    <3> QED
      BY <1>5, <3>1, Numbers
  <2>9. Sent(B)'
    <3> SUFFICES ASSUME NEW k \in 1 .. last PROVE \E m \in Issued \ B : outq'[k] = Answer(m)
      BY <1>4, <2>7 DEF Sent
    <3>1. CASE k = last
      BY <2>7, <3>1 DEF e
    <3>2. CASE k # last
      <4>1. k \in 1 .. l
        BY <2>6, <3>2 DEF last
      <4> QED
        BY <1>2, <2>4, <4>1 DEF Sent
    <3> QED
      BY <3>1, <3>2
  <2>10. \A k, m \in 1 .. Len(outq') : outq'[k][1] = outq'[m][1] => k = m
    <3> SUFFICES ASSUME NEW k \in 1 .. last, NEW m \in 1 .. last, outq'[k][1] = outq'[m][1]
                 PROVE  k = m
      BY <2>7
    <3>0. (k = last \/ k \in 1 .. l) /\ (m = last \/ m \in 1 .. l)
      BY <2>6 DEF last
    <3>1. CASE k \in 1 .. l /\ m \in 1 .. l
      BY <1>10, <2>4, <3>1 DEF Apart
    <3>2. CASE k \in 1 .. l /\ m = last
      BY <2>4, <2>5, <2>7, <2>8, <3>2
    <3>3. CASE m \in 1 .. l /\ k = last
      BY <2>4, <2>5, <2>7, <2>8, <3>3
    <3> QED
      BY <3>0, <3>1, <3>2, <3>3
  <2>11. ASSUME NEW v \in Workers, NEW k \in 1 .. Len(outq'), busy'[v] # Nobody
         PROVE  busy'[v][1] # outq'[k][1]
    <3>0. k = last \/ k \in 1 .. l
      BY <2>6, <2>7 DEF last
    <3>1. v # w /\ busy'[v] = busy[v]
      BY <1>7, <2>11
    <3>2. CASE k \in 1 .. l
      BY <1>10, <2>4, <2>11, <3>1, <3>2 DEF Apart
    <3>3. CASE k = last
      <4>1. busy[v] # busy[w]
        BY <1>1, <1>10, <3>1 DEF Apart
      <4>2. PICK m \in Issued \ B : busy[v] = Ticket(m)
        BY <1>2, <2>11, <3>1 DEF Working
      <4>3. m # i
        BY <1>5, <4>1, <4>2
      <4> QED
        BY <2>5, <2>7, <3>1, <3>3, <4>2, <4>3, Numbers
    <3> QED
      BY <3>0, <3>2, <3>3
  <2>12. Apart'
    BY <1>11, <2>10, <2>11 DEF Apart
  <2>13. outq' \in Seq(Nat \X Pack')
    BY <1>4, <2>4
  <2> QED
    BY <1>0, <1>7, <1>8, <1>9, <2>9, <2>12, <2>13 DEF Encoding
<1> QED
  BY <1>1, <1>12, <1>13

(* With every result back nothing is left in the queues.                   *)
LEMMA EncodingMatch ==
  ASSUME Generating, Encoding, Match PROVE Encoding'
<1>1. at = "fetch" /\ fetched = num /\ num' = 0 /\ at' # "fetch" /\ UNCHANGED <<inq, outq, busy>>
  BY DEF Match, workerVars
<1>2. inq = << >> /\ outq = << >> /\ \A w \in Workers : busy[w] = Nobody
  BY <1>1, AllBack
<1>3. busy \in [Workers -> (Nat \X Nat) \cup {Nobody}]
  BY DEF Encoding
<1> QED
  BY <1>1, <1>2, <1>3, EncodingEmpty

(* Nor is there when an epoch starts.                                      *)
LEMMA EncodingStart ==
  ASSUME Generating, Encoding, at = "over", StartEpoch(1) PROVE Encoding'
<1>1. num = 0 /\ num' = 0 /\ at' # "fetch" /\ UNCHANGED <<inq, outq, busy>>
  BY DEF StartEpoch, workerVars, Generating
<1>2. inq = << >> /\ outq = << >> /\ \A w \in Workers : busy[w] = Nobody
  BY <1>1, AllIdle
<1>3. busy \in [Workers -> (Nat \X Nat) \cup {Nobody}]
  BY DEF Encoding
<1> QED
  BY <1>1, <1>2, <1>3, EncodingEmpty

(* The packs so far, and the batch that is cut from them.                  *)
LEMMA MadeType ==
  ASSUME Generating
  PROVE  made \in Seq(Pack) /\ open \in Pack /\ Len(made) \in Nat
         /\ job \in Jobs /\ job.batchSize \in Nat \ {0} /\ NumRanks \in Nat \ {0} /\ 1 \in Ranks
<1>1. PICK d \in 0 .. LastRound(job) + 1 : AfterRounds(d)
  BY DEF Generating
<1>2. job \in Jobs
  BY DEF Generating
<1>3. made \in Seq(Pack) /\ open \in Pack
  BY <1>1, <1>2, LoneParts DEF AfterRounds, Pack
<1> DEFINE P == Pack
<1>4. made \in Seq(P)
  BY <1>3
<1> HIDE DEF P
<1>5. Len(made) \in Nat
  BY <1>4, LenProperties
<1> QED
  BY <1>2, <1>3, <1>5, JobType DEF Ranks

(* A batch is not empty, and is full but for the last.                     *)
LEMMA NextBatchIs ==
  ASSUME Generating, taken \in Nat, HasBatch
  PROVE  /\ NextBatch \in Seq(Pack) /\ taken < Len(made)
         /\ Len(NextBatch) = (IF taken + job.batchSize <= Len(made) THEN job.batchSize ELSE Len(made) - taken)
         /\ Len(NextBatch) \in Nat \ {0} /\ taken + Len(NextBatch) <= Len(made)
<1> DEFINE P == Pack
           b == job.batchSize
           L == Len(made)
           n == Upto(taken + b, made)
           m == taken + 1
<1>1. made \in Seq(P) /\ L \in Nat /\ b \in Nat \ {0}
  BY MadeType
<1>2. L - taken >= b \/ taken < L
  BY DEF HasBatch
<1>3. n = IF taken + b > L THEN L ELSE taken + b
  BY DEF Upto
<1> HIDE DEF P, b, L, n
<1>4. taken < L
  BY <1>1, <1>2
<1>5. m \in 1 .. L + 1 /\ n \in m - 1 .. L /\ n - m + 1 = (IF taken + b <= L THEN b ELSE L - taken)
  BY <1>1, <1>3, <1>4
<1> HIDE DEF m
<1>6. SubSeq(made, m, n) \in Seq(P) /\ Len(SubSeq(made, m, n)) = n - m + 1
  BY <1>1, <1>5, SubSeqProperties DEF L
<1>7. NextBatch = SubSeq(made, m, n)
  BY DEF NextBatch, m, n, b
<1> DEFINE l == Len(NextBatch)
<1>8. l = IF taken + b <= L THEN b ELSE L - taken
  BY <1>5, <1>6, <1>7
<1> HIDE DEF l
<1>9. l \in Nat \ {0} /\ taken + l <= L
  BY <1>1, <1>4, <1>8
<1> QED
  BY <1>4, <1>6, <1>7, <1>8, <1>9 DEF P, L, b, l

(* The steps that leave the ranks alone, then the others.                  *)
LEMMA ControlKept ==
  ASSUME Control, UNCHANGED <<job, phase, epoch, group, taken>>, at' = at \/ at # "over"
  PROVE  Control'
<1>1. Pack' = Pack /\ Ended' = Ended
  BY DEF Pack, Ended
<1> QED
  BY <1>1 DEF Control

LEMMA ControlCollect ==
  ASSUME Generating, Control, Collect PROVE Control'
<1> USE DEF Control
<1>1. /\ phase[1] = "collect" /\ HasBatch /\ taken' = taken + Len(NextBatch)
      /\ UNCHANGED <<job, at, epoch>>
      /\ \/ UNCHANGED <<group, phase>>
         \/ /\ group' = Append(group, NextBatch)
            /\ phase' = [phase EXCEPT ![1] = IF Len(group') = NumRanks THEN "scatter" ELSE @]
  BY DEF Collect, generatorVars
<1>2. NextBatch \in Seq(Pack) /\ Len(NextBatch) \in Nat /\ NumRanks \in Nat \ {0} /\ 1 \in Ranks
  BY <1>1, NextBatchIs, MadeType
<1>3. taken' \in Nat
  BY <1>1, <1>2
<1>4. group \in Seq(Seq(Pack)) /\ Pack' = Pack
  BY <1>1 DEF Pack
<1>5. CASE UNCHANGED <<group, phase>>
  BY <1>1, <1>3, <1>4, <1>5 DEF Ended
<1>6. CASE /\ group' = Append(group, NextBatch)
           /\ phase' = [phase EXCEPT ![1] = IF Len(group') = NumRanks THEN "scatter" ELSE @]
  <2> DEFINE S == Seq(Pack)
  <2>1. NextBatch \in S /\ group \in Seq(S)
    BY <1>2, <1>4
  <2>2. group' \in Seq(S) /\ group' # << >>
    <3> HIDE DEF S
    <3> QED
      BY <1>6, <2>1, AppendProperties
  <2>3. phase' \in [Ranks -> Phases] /\ phase'[1] \in {"collect", "scatter"}
    BY <1>1, <1>2, <1>6 DEF Phases
  <2> QED
    BY <1>1, <1>3, <1>4, <2>2, <2>3 DEF Ended
<1> QED
  BY <1>1, <1>5, <1>6

LEMMA ControlStep ==
  ASSUME Generating, Control, [Next]_vars PROVE Control'
<1>1. 1 \in Ranks
  BY MadeType
<1>2. CASE UNCHANGED vars
  BY <1>2, ControlKept DEF vars, rankVars, generatorVars
<1>3. CASE PutSample \/ PutEnd \/ Fetch \/ FetchFails \/ Match \/ Resume
  <2>1. UNCHANGED <<job, phase, epoch, group, taken>> /\ at # "over"
    BY <1>3 DEF PutSample, PutEnd, Fetch, FetchFails, Match, Resume, rankVars
  <2> QED
    BY <2>1, ControlKept
<1>4. CASE Collect
  BY <1>4, ControlCollect
<1>5. CASE Exhausted
  <2>1. /\ phase[1] = "collect" /\ at = "over" /\ UNCHANGED <<job, epoch, taken>>
        /\ \/ UNCHANGED <<group, phase>>
           \/ group' = << >> /\ phase' = [phase EXCEPT ![1] = "scatter"] /\ at' = at
    BY <1>5 DEF Exhausted
  <2>2. CASE UNCHANGED <<group, phase>>
    BY <2>1, <2>2 DEF Control, Ended, Pack
  <2>3. CASE group' = << >> /\ phase' = [phase EXCEPT ![1] = "scatter"] /\ at' = at
    BY <2>1, <2>3, EmptySeq DEF Control, Ended, Phases
  <2> QED
    BY <2>1, <2>2, <2>3
<1>6. CASE Scatter
  <2>1. /\ \A r \in Ranks : phase[r] = "scatter"
        /\ phase' = [r \in Ranks |-> IF group = << >> THEN "start" ELSE "train"]
        /\ group' = << >> /\ UNCHANGED <<job, at, epoch, taken>>
    BY <1>6 DEF Scatter, generatorVars
  <2>2. phase' \in [Ranks -> Phases] /\ phase'[1] = IF group = << >> THEN "start" ELSE "train"
    BY <1>1, <2>1 DEF Phases
  <2>3. Ended' => Ended
    BY <1>1, <2>1, <2>2 DEF Ended
  <2> QED
    BY <2>1, <2>2, <2>3, EmptySeq DEF Control
<1>7. ASSUME NEW w \in Workers, Take(w) \/ Encode(w) PROVE Control'
  BY <1>7, ControlKept DEF Take, Encode, rankVars, generatorVars
<1>8. ASSUME NEW r \in Ranks, StartEpoch(r) PROVE Control'
  <2>1. /\ phase[r] = "start" /\ UNCHANGED <<job, group>>
        /\ epoch' = [epoch EXCEPT ![r] = @ + 1]
        /\ phase' = [phase EXCEPT ![r] = IF r = 1 THEN "collect" ELSE "scatter"]
        /\ r # 1 => UNCHANGED <<at, taken>>
        /\ r = 1 => taken' = 0
    BY <1>8 DEF StartEpoch
  <2>2. phase' \in [Ranks -> Phases] /\ epoch' \in [Ranks -> Nat] /\ taken' \in Nat
    BY <2>1 DEF Control, Phases
  <2>3. Ended' => r # 1 /\ Ended
    BY <1>1, <2>1 DEF Ended, Control
  <2> QED
    BY <2>1, <2>2, <2>3 DEF Control, Pack
<1>9. ASSUME NEW r \in Ranks, Finish(r) \/ Train(r) PROVE Control'
  <2>1. /\ UNCHANGED <<job, at, epoch, group, taken>>
        /\ \/ phase[r] = "start" /\ phase' = [phase EXCEPT ![r] = "done"]
           \/ /\ phase[r] = "train"
              /\ phase' = [phase EXCEPT ![r] = IF r = 1 THEN "collect" ELSE "scatter"]
    BY <1>9 DEF Finish, Train, generatorVars
  <2>2. phase' \in [Ranks -> Phases]
    BY <2>1 DEF Control, Phases
  <2>3. Ended' => Ended
    BY <1>1, <2>1 DEF Ended, Control
  <2> QED
    BY <2>1, <2>2, <2>3 DEF Control, Pack
<1> QED
  BY <1>2, <1>3, <1>4, <1>5, <1>6, <1>7, <1>8, <1>9 DEF Next

(* Every step keeps the invariant.                                         *)
LEMMA FeedingStep ==
  ASSUME Feeding, [Next]_vars PROVE Feeding'
<1>0. Generating /\ Control /\ (at # "failed" => Encoding) /\ 1 \in Ranks
  BY MadeType DEF Feeding
<1>1. Control'
  BY <1>0, ControlStep
<1>2. SUFFICES Generating' /\ (at' # "failed" => Encoding')
  BY <1>1 DEF Feeding
<1>3. CASE UNCHANGED vars
  BY <1>0, <1>3, GeneratingKept, EncodingKept DEF vars, rankVars, generatorVars, workerVars
<1>4. CASE PutSample
  BY <1>0, <1>4, GeneratingPut, EncodingPut DEF PutSample
<1>5. CASE PutEnd
  BY <1>0, <1>5, GeneratingPutEnd, EncodingPutEnd DEF PutEnd
<1>6. CASE Fetch
  <2>1. Generating'
    BY <1>0, <1>6, GeneratingKept DEF Fetch, rankVars
  <2> QED
    BY <1>0, <1>6, <2>1, EncodingFetch DEF Fetch
<1>7. CASE FetchFails
  BY <1>0, <1>7, GeneratingFails DEF FetchFails, rankVars
<1>8. CASE Match
  BY <1>0, <1>8, GeneratingMatch, EncodingMatch DEF Match
<1>9. CASE Resume
  <2>1. /\ at = "yield" /\ at' = "put"
        /\ UNCHANGED <<job, read, num, fetched, res, inq, outq, busy>>
    BY <1>9 DEF Resume, workerVars
  <2>2. Encoding'
    BY <1>0, <2>1, EncodingKept
  <2> QED
    BY <1>0, <1>9, <2>2, GeneratingResumes
<1>10. CASE Collect
  <2>1. UNCHANGED <<job, at, read, num, fetched, res, open, made, inq, outq, busy, epoch>>
    BY <1>10 DEF Collect, generatorVars, workerVars
  <2> QED
    BY <1>0, <2>1, GeneratingKept, EncodingKept
<1>11. CASE Exhausted
  <2>1. /\ UNCHANGED <<job, read, num, fetched, res, open, made, inq, outq, busy, epoch>>
        /\ at' = "failed" \/ at' = at
    BY <1>11 DEF Exhausted, workerVars
  <2>2. CASE at' = "failed"
    BY <1>0, <2>1, <2>2, GeneratingFails
  <2>3. CASE at' = at
    BY <1>0, <2>1, <2>3, GeneratingKept, EncodingKept
  <2> QED
    BY <2>1, <2>2, <2>3
<1>12. CASE Scatter
  <2>1. UNCHANGED <<job, at, read, num, fetched, res, open, made, inq, outq, busy, epoch>>
    BY <1>12 DEF Scatter, generatorVars, workerVars
  <2> QED
    BY <1>0, <2>1, GeneratingKept, EncodingKept
<1>13. ASSUME NEW w \in Workers, Take(w) \/ Encode(w) PROVE Generating' /\ (at' # "failed" => Encoding')
  <2>1. UNCHANGED <<job, at, read, num, open, made, epoch>>
    BY <1>13 DEF Take, Encode, rankVars, generatorVars
  <2> QED
    BY <1>0, <1>13, <2>1, GeneratingKept, EncodingTake, EncodingEncode
<1>14. ASSUME NEW r \in Ranks, StartEpoch(r) PROVE Generating' /\ (at' # "failed" => Encoding')
  <2>1. CASE r = 1
    <3>1. at = "over"
      BY <1>0, <1>14, <2>1 DEF StartEpoch, Control, Ended
    <3> QED
      BY <1>0, <1>14, <2>1, <3>1, GeneratingStart, EncodingStart
  <2>2. CASE r # 1
    <3>1. /\ UNCHANGED <<job, at, read, num, fetched, res, open, made, inq, outq, busy>>
          /\ epoch' = [epoch EXCEPT ![r] = @ + 1]
      BY <1>14, <2>2 DEF StartEpoch, workerVars
    <3>2. epoch'[1] = epoch[1]
      BY <1>0, <2>2, <3>1 DEF Control
    <3> QED
      BY <1>0, <3>1, <3>2, GeneratingKept, EncodingKept
  <2> QED
    BY <2>1, <2>2
<1>15. ASSUME NEW r \in Ranks, Finish(r) \/ Train(r) PROVE Generating' /\ (at' # "failed" => Encoding')
  <2>1. UNCHANGED <<job, at, read, num, fetched, res, open, made, inq, outq, busy, epoch>>
    BY <1>15 DEF Finish, Train, generatorVars, workerVars
  <2> QED
    BY <1>0, <2>1, GeneratingKept, EncodingKept
<1> QED
  BY <1>3, <1>4, <1>5, <1>6, <1>7, <1>8, <1>9, <1>10, <1>11, <1>12, <1>13, <1>14, <1>15 DEF Next

(* The generator and the encoding processes: the packs are those that one  *)
(* process has made after as many rounds, and every sample of the round is *)
(* in one place (packing.py, __iter__ and _processor).                     *)
THEOREM FeedingInvariant == Spec => []Feeding
<1>1. Init => Feeding
  BY FeedingInit
<1>2. Feeding /\ [Next]_vars => Feeding'
  BY FeedingStep
<1> QED
  BY <1>1, <1>2, PTL DEF Spec

(* Packing loses and repeats nothing, keeps the order with the sequential  *)
(* strategy, and a pack is longer than packing_length only for one piece   *)
(* that is (calculate_matched_group, over all rounds of an epoch).         *)
THEOREM PackingWhole == Spec => []PacksWhole
<1>1. Feeding => PacksWhole
  <2> SUFFICES ASSUME Feeding PROVE PacksWhole
    OBVIOUS
  <2>1. Generating /\ job \in Jobs
    BY DEF Feeding, Generating
  <2>2. PICK d \in 0 .. LastRound(job) + 1 : AfterRounds(d)
    BY <2>1 DEF Generating
  <2> DEFINE due == PiecesOf(job, ReadBy(job, d))
             packed == FlattenSeq(made) \o open
  <2>3. Whole(job, made, open, due)
    BY <2>1, <2>2, LoneWhole DEF AfterRounds
  <2>4. Pieces(read - num) = due
    <3>1. ReadBy(job, d) \in Nat
      BY <2>1, <2>2, RoundsAre, JobType DEF ReadBy
    <3>2. num \in Nat /\ read = ReadBy(job, d) + num
      BY <2>1, <2>2, JobType DEF Generating, AfterRounds
    <3>3. read - num = ReadBy(job, d)
      BY <3>1, <3>2
    <3> QED
      BY <3>3 DEF Pieces, PiecesOf
  <2>5. /\ Len(packed) = Len(due) /\ Held(packed) = Held(due)
        /\ job.strategy = "sequential" => packed = due
        /\ FitAll(job, made)
    BY <2>3 DEF Whole
  <2>6. ToSet(packed) = ToSet(due)
    <3> HIDE DEF packed, due
    <3> QED
      BY <2>5 DEF ToSet, Held
  <2>7. \A i \in DOMAIN made : Load(job, made[i]) <= PackingLength \/ Len(made[i]) = 1
    BY <2>5 DEF FitAll, Fitting, Fits
  <2>8. at = "over" => open = << >>
    <3> SUFFICES ASSUME at = "over" PROVE open = << >>
      OBVIOUS
    <3>1. d = LastRound(job) + 1 \/ d = 0
      BY <2>2 DEF AfterRounds
    <3>2. open = Lone(job)[d].rest
      BY <2>2 DEF AfterRounds
    <3> QED
      BY <2>1, <3>1, <3>2, LoneBegins, LoneEnds
  <2> HIDE DEF packed, due
  <2>9. PacksWhole <=> /\ Len(packed) = Len(due) /\ ToSet(packed) = ToSet(due)
                       /\ job.strategy = "sequential" => packed = due
                       /\ \A i \in DOMAIN made : Load(job, made[i]) <= PackingLength \/ Len(made[i]) = 1
                       /\ at = "over" => open = << >>
    BY <2>4 DEF PacksWhole, packed
  <2> QED
    BY <2>5, <2>6, <2>7, <2>8, <2>9
<1> QED
  BY <1>1, FeedingInvariant, PTL

-----------------------------------------------------------------------------
(* Batches, and what each rank trains on                                   *)

(* The batches of an epoch; those that rank r gets; those it skips in      *)
(* epoch e; and what it has trained on after E epochs.                     *)
Batches(j)    == (Len(LonePacks(j)) + j.batchSize - 1) \div j.batchSize
Batch(j, q)   == SubSeq(LonePacks(j), q * j.batchSize + 1,
                        Upto(q * j.batchSize + j.batchSize, LonePacks(j)))
Shared(j)     == Batches(j) \div NumRanks
Part(j, r)    == Share(r, LonePacks(j), j.batchSize)
Skips(j, e)   == IF e = 1 THEN j.skip ELSE 0
InEpoch(j, r, e)  == SubSeq(Part(j, r), Skips(j, e) + 1, Len(Part(j, r)))
InEpochs(j, r, E) == FlattenSeq([e \in 1 .. E |-> InEpoch(j, r, e)])

(* E epochs are finished.  In the current one c batches are taken, and g   *)
(* given to each rank.                                                     *)
Idle(r) == phase[r] \in {"start", "done"}
Finished(E) ==
  \A r \in Ranks : /\ epoch[r] = IF Idle(r) THEN E ELSE E + 1
                   /\ epoch[r] <= Epochs /\ (phase[r] = "done" => E = Epochs)

Given(E, g) == Skips(job, E + 1) + g
Taking(E, c, g) ==
  /\ taken = IF c * job.batchSize <= Len(LonePacks(job)) THEN c * job.batchSize
                                                         ELSE Len(LonePacks(job))
  /\ c <= Batches(job)
  /\ c + toSkip = Given(E, g) * NumRanks + Len(group)
  /\ toSkip > 0 => g = 0 /\ phase[1] = "collect" /\ group = << >>

Grouping(E, g) ==
  /\ Idle(1) => g = 0 /\ group = << >>
  /\ \A i \in 1 .. Len(group) : group[i] = Batch(job, Given(E, g) * NumRanks + i - 1)
  /\ phase[1] = "collect" => Len(group) < NumRanks
  /\ phase[1] = "scatter" => Len(group) = NumRanks \/ (group = << >> /\ Given(E, g) = Shared(job))
  /\ phase[1] = "train" => group = << >>
  /\ g > 0 => Given(E, g) <= Shared(job)

Delivered(E, g) ==
  \A r \in Ranks :
    got[r] = InEpochs(job, r, E) \o SubSeq(Part(job, r), Skips(job, E + 1) + 1, Given(E, g))

InProgress(E, c, g) ==
  /\ Finished(E) /\ Grouping(E, g) /\ Delivered(E, g)
  /\ ~ Ended => Taking(E, c, g)

Training == toSkip \in Nat /\ \E E, c, g \in Nat : InProgress(E, c, g)

(* ---- Slices of a sequence ---- *)

(* An empty slice.                                                         *)
LEMMA NoSlice ==
  ASSUME NEW s, NEW m \in Nat
  PROVE  SubSeq(s, m + 1, m) = << >>
<1>1. m + 1 \in Int /\ m \in Int /\ m < m + 1
  OBVIOUS
<1> QED
  BY <1>1, SubSeqEmpty

(* A slice: its length and its elements.                                   *)
LEMMA SliceIs ==
  ASSUME NEW S, NEW s \in Seq(S), NEW m \in Nat, NEW n \in Nat, n <= Len(s)
  PROVE  /\ SubSeq(s, m + 1, n) \in Seq(S)
         /\ Len(SubSeq(s, m + 1, n)) = IF m <= n THEN n - m ELSE 0
         /\ \A i \in 1 .. n - m : SubSeq(s, m + 1, n)[i] = s[m + i]
<1> DEFINE a == m + 1
<1>1. a \in Int /\ n \in Int /\ Len(s) \in Nat
  BY LenProperties
<1>2. \A i \in a .. n : s[i] \in S
  <2>1. \A i \in a .. n : i \in 1 .. Len(s)
    BY <1>1
  <2> QED
    BY <2>1, ElementOfSeq
<1>3. /\ SubSeq(s, a, n) \in Seq(S)
      /\ Len(SubSeq(s, a, n)) = IF a <= n THEN n - a + 1 ELSE 0
      /\ \A i \in 1 .. n - a + 1 : SubSeq(s, a, n)[i] = s[a + i - 1]
  <2> HIDE DEF a
  <2> QED
    BY <1>1, <1>2, SubSeqProperties
<1>4. (IF a <= n THEN n - a + 1 ELSE 0) = (IF m <= n THEN n - m ELSE 0)
  OBVIOUS
<1>5. n - a + 1 = n - m /\ \A i \in 1 .. n - m : a + i - 1 = m + i
  OBVIOUS
<1> QED
  BY <1>3, <1>4, <1>5

(* A slice that takes in one element more.                                 *)
LEMMA SliceGrows ==
  ASSUME NEW S, NEW s \in Seq(S), NEW m \in Nat, NEW n \in Nat, m <= n, n + 1 <= Len(s)
  PROVE  SubSeq(s, m + 1, n + 1) = Append(SubSeq(s, m + 1, n), s[n + 1])
<1> DEFINE a == SubSeq(s, m + 1, n)
           k == n + 1
           b == SubSeq(s, m + 1, k)
           e == s[k]
           c == Append(a, e)
           l == n - m
<1>1. Len(s) \in Nat /\ k \in Nat /\ k <= Len(s) /\ n <= Len(s) /\ k \in 1 .. Len(s)
  BY LenProperties
<1>2. e \in S
  BY <1>1, ElementOfSeq
<1>3. /\ a \in Seq(S) /\ Len(a) = n - m /\ \A i \in 1 .. n - m : a[i] = s[m + i]
  <2>1. /\ a \in Seq(S) /\ Len(a) = IF m <= n THEN n - m ELSE 0
        /\ \A i \in 1 .. n - m : a[i] = s[m + i]
    BY <1>1, SliceIs
  <2> QED
    BY <2>1
<1>4. /\ b \in Seq(S) /\ Len(b) = k - m /\ \A i \in 1 .. k - m : b[i] = s[m + i]
  <2>0. m <= k
    OBVIOUS
  <2> HIDE DEF k
  <2>1. /\ b \in Seq(S) /\ Len(b) = IF m <= k THEN k - m ELSE 0
        /\ \A i \in 1 .. k - m : b[i] = s[m + i]
    BY <1>1, SliceIs
  <2> QED
    BY <2>0, <2>1
<1>5. /\ c \in Seq(S) /\ Len(c) = Len(a) + 1 /\ c[Len(a) + 1] = e
      /\ \A i \in 1 .. Len(a) : c[i] = a[i]
  <2>1. a \in Seq(S)
    BY <1>3
  <2> HIDE DEF a, e
  <2> QED
    BY <1>2, <2>1, AppendProperties
<1>6. l \in Nat /\ k - m = l + 1 /\ m + (l + 1) = k
  OBVIOUS
<1>7. Len(a) = l /\ Len(b) = l + 1
  BY <1>3, <1>4, <1>6
<1>8. \A i \in 1 .. l + 1 : b[i] = s[m + i]
  BY <1>4, <1>6
<1>9. \A i \in 1 .. l : a[i] = s[m + i]
  BY <1>3
<1> HIDE DEF a, b, c, k, l
<1>10. ASSUME NEW i \in 1 .. l + 1 PROVE b[i] = c[i]
  <2>1. CASE i = l + 1
    <3>1. b[l + 1] = s[m + (l + 1)]
      BY <1>6, <1>8
    <3> QED
      BY <1>5, <1>6, <1>7, <2>1, <3>1
  <2>2. CASE i # l + 1
    <3>1. i \in 1 .. l
      BY <1>6, <2>2
    <3> QED
      BY <1>5, <1>7, <1>8, <1>9, <3>1
  <2> QED
    BY <2>1, <2>2
<1>11. b \in Seq(S) /\ c \in Seq(S) /\ Len(b) = l + 1 /\ Len(c) = l + 1
  BY <1>4, <1>5, <1>7
<1>12. b = c
  BY <1>10, <1>11, SeqEqual
<1> QED
  BY <1>12 DEF b, c, a, k

(* A slice of the beginning is a slice of the whole.                       *)
LEMMA SameSlice ==
  ASSUME NEW S, NEW s \in Seq(S), NEW t \in Seq(S), Begins(s, t),
         NEW m \in Nat, NEW n \in Nat, n <= Len(s)
  PROVE  SubSeq(s, m + 1, n) = SubSeq(t, m + 1, n)
<1> DEFINE a == SubSeq(s, m + 1, n)
           b == SubSeq(t, m + 1, n)
           l == IF m <= n THEN n - m ELSE 0
<1>1. Len(s) \in Nat /\ Len(t) \in Nat /\ n <= Len(t)
  <2>1. Len(s) \in Nat /\ Len(t) \in Nat
    BY LenProperties
  <2> QED
    BY <2>1 DEF Begins
<1>2. a \in Seq(S) /\ Len(a) = l /\ \A i \in 1 .. n - m : a[i] = s[m + i]
  BY SliceIs
<1>3. b \in Seq(S) /\ Len(b) = l /\ \A i \in 1 .. n - m : b[i] = t[m + i]
  BY <1>1, SliceIs
<1>4. ASSUME NEW i \in 1 .. l PROVE i \in 1 .. n - m /\ m + i \in 1 .. Len(s)
  BY <1>1
<1>5. \A i \in 1 .. l : a[i] = b[i]
  <2> HIDE DEF a, b, l
  <2> QED
    BY <1>2, <1>3, <1>4 DEF Begins
<1> HIDE DEF a, b, l
<1>6. a = b
  BY <1>2, <1>3, <1>5, SeqEqual
<1> QED
  BY <1>6 DEF a, b

(* ---- One sequence begins with another ---- *)

(* Beginnings of beginnings.                                               *)
LEMMA BeginsTransitive ==
  ASSUME NEW S, NEW a \in Seq(S), NEW b \in Seq(S), NEW c \in Seq(S), Begins(a, b), Begins(b, c)
  PROVE  Begins(a, c)
<1>1. Len(a) \in Nat /\ Len(b) \in Nat /\ Len(c) \in Nat
  BY LenProperties
<1> QED
  BY <1>1 DEF Begins

(* Beginnings after a common part.                                         *)
LEMMA ConcatBegins ==
  ASSUME NEW S, NEW a \in Seq(S), NEW b \in Seq(S), NEW c \in Seq(S), Begins(b, c)
  PROVE  Begins(a \o b, a \o c)
<1> DEFINE p == a \o b
           q == a \o c
<1>1. /\ Len(a) \in Nat /\ Len(b) \in Nat /\ Len(c) \in Nat
      /\ Len(p) = Len(a) + Len(b) /\ Len(q) = Len(a) + Len(c)
      /\ \A i \in 1 .. Len(a) + Len(b) : p[i] = IF i <= Len(a) THEN a[i] ELSE b[i - Len(a)]
      /\ \A i \in 1 .. Len(a) + Len(c) : q[i] = IF i <= Len(a) THEN a[i] ELSE c[i - Len(a)]
  BY ConcatProperties, LenProperties
<1>2. Len(b) <= Len(c) /\ \A i \in 1 .. Len(b) : c[i] = b[i]
  BY DEF Begins
<1> HIDE DEF p, q
<1>3. ASSUME NEW i \in 1 .. Len(p) PROVE q[i] = p[i]
  <2>1. i \in 1 .. Len(a) + Len(b) /\ i \in 1 .. Len(a) + Len(c)
    BY <1>1, <1>2
  <2>2. CASE i <= Len(a)
    BY <1>1, <2>1, <2>2
  <2>3. CASE ~ (i <= Len(a))
    <3>1. i - Len(a) \in 1 .. Len(b)
      BY <1>1, <2>1, <2>3
    <3> QED
      BY <1>1, <1>2, <2>1, <2>3, <3>1
  <2> QED
    BY <2>2, <2>3
<1>4. Len(p) <= Len(q)
  BY <1>1, <1>2
<1>5. Begins(p, q)
  BY <1>3, <1>4 DEF Begins
<1> QED
  BY <1>5 DEF p, q

(* A slice begins the slice up to the end.                                 *)
LEMMA SliceBegins ==
  ASSUME NEW S, NEW s \in Seq(S), NEW m \in Nat, NEW n \in Nat, n <= Len(s)
  PROVE  Begins(SubSeq(s, m + 1, n), SubSeq(s, m + 1, Len(s)))
<1> DEFINE L == Len(s)
           a == SubSeq(s, m + 1, n)
           b == SubSeq(s, m + 1, L)
<1>1. L \in Nat /\ L <= Len(s) /\ n <= L
  BY LenProperties
<1>2. Len(a) = (IF m <= n THEN n - m ELSE 0) /\ \A i \in 1 .. n - m : a[i] = s[m + i]
  BY SliceIs
<1>3. Len(b) = (IF m <= L THEN L - m ELSE 0) /\ \A i \in 1 .. L - m : b[i] = s[m + i]
  <2> HIDE DEF L
  <2> QED
    BY <1>1, SliceIs
<1> HIDE DEF a, b, L
<1>4. Len(a) <= Len(b)
  BY <1>1, <1>2, <1>3
<1>5. ASSUME NEW i \in 1 .. Len(a) PROVE b[i] = a[i]
  <2>1. i \in 1 .. n - m /\ i \in 1 .. L - m
    BY <1>1, <1>2
  <2> QED
    BY <1>2, <1>3, <2>1
<1>6. Begins(a, b)
  BY <1>4, <1>5 DEF Begins
<1> QED
  BY <1>6 DEF a, b, L

LEMMA BeginsIsPrefix ==
  ASSUME NEW S, NEW a \in Seq(S), NEW b \in Seq(S), Begins(a, b)
  PROVE  IsPrefix(a, b)
<1>1. Len(a) \in Nat /\ 0 \in Nat /\ 0 + 1 = 1
  BY LenProperties
<1>2. SubSeq(a, 0 + 1, Len(a)) = SubSeq(b, 0 + 1, Len(a))
  <2> DEFINE n == Len(a)
  <2>1. n \in Nat /\ n <= Len(a)
    BY <1>1
  <2> HIDE DEF n
  <2>2. SubSeq(a, 0 + 1, n) = SubSeq(b, 0 + 1, n)
    BY <1>1, <2>1, SameSlice, ZenonT(60)
  <2> QED
    BY <2>2 DEF n
<1> QED
  BY <1>1, <1>2 DEF IsPrefix, Begins

(* The packs of one process.                                               *)
LEMMA LoneType ==
  ASSUME NEW j \in Jobs
  PROVE  LonePacks(j) \in Seq(Seq(PieceOf(j))) /\ Len(LonePacks(j)) \in Nat
<1> DEFINE K == LastRound(j) + 1
           P == Seq(PieceOf(j))
<1>1. K \in 0 .. LastRound(j) + 1
  BY RoundsAre
<1>2. LonePacks(j) \in Seq(P)
  BY <1>1, LoneParts, LoneEnds
<1> HIDE DEF P
<1>3. Len(LonePacks(j)) \in Nat
  BY <1>2, LenProperties
<1> QED
  BY <1>2, <1>3 DEF P

(* How many batches there are, and how many of them each rank gets.        *)
LEMMA BatchesAre ==
  ASSUME NEW j \in Jobs
  PROVE  /\ Batches(j) \in Nat /\ Shared(j) \in Nat
         /\ \A c \in Nat : c * j.batchSize < Len(LonePacks(j)) => c + 1 <= Batches(j)
         /\ \A c \in Nat : c <= Batches(j) /\ Len(LonePacks(j)) <= c * j.batchSize => c = Batches(j)
         /\ \A g, l \in Nat : Batches(j) = g * NumRanks + l /\ l < NumRanks => Shared(j) = g
         /\ \A g \in Nat : (g + 1) * NumRanks <= Batches(j) => g + 1 <= Shared(j)
<1> DEFINE L == Len(LonePacks(j))
           b == j.batchSize
           a == L + b - 1
           B == Batches(j)
<1>1. L \in Nat /\ b \in Nat \ {0} /\ NumRanks \in Nat \ {0}
  BY LoneType, JobType
<1>2. B = a \div b
  BY DEF Batches
<1> HIDE DEF L, b, B
<1>3. a \in Nat
  BY <1>1
<1>4. B \in Nat
  <2> HIDE DEF a
  <2> QED
    BY <1>1, <1>2, <1>3, Quotients
<1>5. ASSUME NEW c \in Nat PROVE c + 1 <= B <=> c * b + b <= a
  <2> DEFINE n == c + 1
  <2>1. n \in Nat /\ n * b = c * b + b
    BY <1>1
  <2> HIDE DEF n, a
  <2>2. n <= a \div b <=> n * b <= a
    BY <1>1, <1>3, <2>1, QuotientBound
  <2> QED
    BY <1>2, <2>1, <2>2 DEF n
<1>6. ASSUME NEW c \in Nat, c * b < L PROVE c + 1 <= B
  <2> DEFINE x == c * b
  <2>1. x \in Nat
    BY <1>1, Products
  <2>2. x < L
    BY <1>6
  <2>3. x + b <= a <=> c + 1 <= B
    BY <1>5
  <2> HIDE DEF x
  <2> QED
    BY <1>1, <2>1, <2>2, <2>3
<1>7. ASSUME NEW c \in Nat, c <= B, L <= c * b PROVE c = B
  <2> DEFINE x == c * b
  <2>1. x \in Nat
    BY <1>1, Products
  <2>2. L <= x
    BY <1>7
  <2>3. x + b <= a <=> c + 1 <= B
    BY <1>5
  <2> HIDE DEF x
  <2>4. ~ (c + 1 <= B)
    BY <1>1, <2>1, <2>2, <2>3
  <2> QED
    BY <1>4, <1>7, <2>4
<1>8. Shared(j) = B \div NumRanks
  BY DEF Shared, B
<1>9. Shared(j) \in Nat
  BY <1>1, <1>4, <1>8, Quotients
<1>10. ASSUME NEW g \in Nat, NEW l \in Nat, B = g * NumRanks + l, l < NumRanks PROVE Shared(j) = g
  <2>1. l \in 0 .. NumRanks - 1
    BY <1>1, <1>10
  <2>2. (g * NumRanks + l) \div NumRanks = g
    BY <1>1, <2>1, QuotientIs
  <2> QED
    BY <1>8, <1>10, <2>2
<1>11. ASSUME NEW g \in Nat, (g + 1) * NumRanks <= B PROVE g + 1 <= Shared(j)
  <2> DEFINE n == g + 1
  <2>1. n \in Nat /\ n * NumRanks <= B
    BY <1>11
  <2> HIDE DEF n
  <2>2. n <= B \div NumRanks
    BY <1>1, <1>4, <2>1, QuotientBound
  <2> QED
    BY <1>8, <2>2 DEF n
<1> QED
  BY <1>4, <1>6, <1>7, <1>9, <1>10, <1>11 DEF L, b, B

(* A batch is a sequence of packs.                                         *)
LEMMA BatchType ==
  ASSUME NEW j \in Jobs, NEW q \in Nat
  PROVE  Batch(j, q) \in Seq(Seq(PieceOf(j)))
<1> DEFINE s == LonePacks(j)
           P == Seq(PieceOf(j))
           m == q * j.batchSize
           n == Upto(q * j.batchSize + j.batchSize, s)
<1>1. s \in Seq(P) /\ Len(s) \in Nat /\ j.batchSize \in Nat
  BY LoneType, JobType
<1>2. m \in Nat
  BY <1>1, Products
<1>3. n \in Nat /\ n <= Len(s)
  <2>1. n = IF m + j.batchSize > Len(s) THEN Len(s) ELSE m + j.batchSize
    BY DEF Upto
  <2> HIDE DEF m, n, s
  <2> QED
    BY <1>1, <1>2, <2>1
<1>4. Batch(j, q) = SubSeq(s, m + 1, n)
  BY DEF Batch
<1> HIDE DEF m, n, s, P
<1>5. SubSeq(s, m + 1, n) \in Seq(P)
  BY <1>1, <1>2, <1>3, SliceIs
<1> QED
  BY <1>4, <1>5 DEF P

BatchOf(j) == Seq(Seq(PieceOf(j)))

(* The batches of a rank are those of its turn.                            *)
LEMMA PartIs ==
  ASSUME NEW j \in Jobs, NEW r \in Ranks
  PROVE  /\ Part(j, r) \in Seq(BatchOf(j)) /\ Len(Part(j, r)) = Shared(j)
         /\ \A k \in 1 .. Shared(j) : Part(j, r)[k] = Batch(j, (k - 1) * NumRanks + r - 1)
<1> DEFINE n == Shared(j)
           s == Part(j, r)
<1>1. n \in Nat /\ NumRanks \in Nat \ {0} /\ r \in Nat \ {0}
  BY BatchesAre, JobType DEF Ranks
<1>2. s = [k \in 1 .. n |-> Batch(j, (k - 1) * NumRanks + r - 1)]
  BY DEF Part, Share, Shared, Batches, Batch
<1> HIDE DEF n, s
<1>3. ASSUME NEW k \in 1 .. n PROVE Batch(j, (k - 1) * NumRanks + r - 1) \in BatchOf(j)
  <2> DEFINE x == (k - 1) * NumRanks
             q == x + r - 1
  <2>1. k - 1 \in Nat
    BY <1>1
  <2>2. x \in Nat
    BY <1>1, <2>1, Products
  <2> HIDE DEF x
  <2>3. q \in Nat
    BY <1>1, <2>2
  <2> HIDE DEF q
  <2>4. Batch(j, q) \in BatchOf(j)
    BY <2>3, BatchType DEF BatchOf
  <2> QED
    BY <2>4 DEF q, x
<1>4. s \in [1 .. n -> BatchOf(j)]
  BY <1>2, <1>3
<1>5. s \in Seq(BatchOf(j)) /\ Len(s) = n
  BY <1>1, <1>4, SeqDef
<1>6. \A k \in 1 .. n : s[k] = Batch(j, (k - 1) * NumRanks + r - 1)
  BY <1>2
<1> QED
  BY <1>5, <1>6 DEF n, s

LEMMA InEpochType ==
  ASSUME NEW j \in Jobs, NEW r \in Ranks, NEW e \in Nat
  PROVE  InEpoch(j, r, e) \in Seq(BatchOf(j)) /\ Skips(j, e) \in Nat
<1> DEFINE B == BatchOf(j)
           s == Part(j, r)
           m == Skips(j, e)
           n == Shared(j)
<1>1. s \in Seq(B) /\ Len(s) = n /\ n \in Nat
  BY PartIs, BatchesAre
<1>2. m \in Nat
  BY JobType DEF Skips
<1>3. InEpoch(j, r, e) = SubSeq(s, m + 1, n)
  BY <1>1 DEF InEpoch
<1> HIDE DEF B, s, m, n
<1>4. SubSeq(s, m + 1, n) \in Seq(B)
  BY <1>1, <1>2, SliceIs
<1> QED
  BY <1>2, <1>3, <1>4 DEF B, m

(* One epoch more.                                                         *)
LEMMA InEpochsNext ==
  ASSUME NEW j \in Jobs, NEW r \in Ranks, NEW E \in Nat
  PROVE  /\ InEpochs(j, r, E) \in Seq(BatchOf(j))
         /\ InEpochs(j, r, E + 1) = InEpochs(j, r, E) \o InEpoch(j, r, E + 1)
<1> DEFINE B == BatchOf(j)
           X == Seq(B)
           n == E + 1
           s == [e \in 1 .. E |-> InEpoch(j, r, e)]
           t == [e \in 1 .. n |-> InEpoch(j, r, e)]
           x == InEpoch(j, r, n)
<1>1. n \in Nat /\ \A e \in Nat : InEpoch(j, r, e) \in X
  BY InEpochType
<1> HIDE DEF X
<1>2. s \in Seq(X) /\ Len(s) = E
  <2>1. s \in [1 .. E -> X]
    BY <1>1
  <2> HIDE DEF s
  <2> QED
    BY <2>1, SeqDef
<1>3. t \in Seq(X) /\ Len(t) = n
  <2>1. t \in [1 .. n -> X]
    BY <1>1
  <2> HIDE DEF t, n
  <2> QED
    BY <1>1, <2>1, SeqDef
<1>4. x \in X
  BY <1>1
<1>5. t = Append(s, x)
  <2> DEFINE u == Append(s, x)
  <2>1. \A e \in 1 .. E : s[e] = InEpoch(j, r, e)
    OBVIOUS
  <2>2. \A e \in 1 .. n : t[e] = InEpoch(j, r, e)
    OBVIOUS
  <2> HIDE DEF s, t, x
  <2>3. u \in Seq(X) /\ Len(u) = E + 1 /\ u[E + 1] = x /\ \A e \in 1 .. E : u[e] = s[e]
    BY <1>2, <1>4, AppendProperties
  <2> HIDE DEF u
  <2>4. ASSUME NEW e \in 1 .. n PROVE t[e] = u[e]
    <3>1. CASE e = E + 1
      BY <2>2, <2>3, <3>1 DEF x
    <3>2. CASE e # E + 1
      <4>1. e \in 1 .. E
        BY <3>2
      <4> QED
        BY <2>1, <2>2, <2>3, <4>1
    <3> QED
      BY <3>1, <3>2
  <2>5. t = u
    BY <1>3, <2>3, <2>4, SeqEqual
  <2> QED
    BY <2>5 DEF u
<1>6. InEpochs(j, r, E) = FlattenSeq(s) /\ InEpochs(j, r, n) = FlattenSeq(t)
  BY DEF InEpochs
<1> HIDE DEF s, t, x, n
<1>7. FlattenSeq(s) \in Seq(B)
  BY <1>2, FlattenType DEF X
<1>8. FlattenSeq(Append(s, x)) = FlattenSeq(s) \o x
  BY <1>2, <1>4, FlattenAppend DEF X
<1> QED
  BY <1>5, <1>6, <1>7, <1>8 DEF x, n

LEMMA InNoEpoch == \A j, r : InEpochs(j, r, 0) = << >>
<1> SUFFICES ASSUME NEW j, NEW r PROVE InEpochs(j, r, 0) = << >>
  OBVIOUS
<1>1. [e \in 1 .. 0 |-> InEpoch(j, r, e)] = << >>
  OBVIOUS
<1> QED
  BY <1>1, FlattenEmpty DEF InEpochs

(* The first epochs begin all of them.                                     *)
LEMMA InEpochsBegin ==
  ASSUME NEW j \in Jobs, NEW r \in Ranks, NEW E \in Nat, NEW F \in Nat, E <= F
  PROVE  Begins(InEpochs(j, r, E), InEpochs(j, r, F))
<1> DEFINE B == BatchOf(j)
           a == InEpochs(j, r, E)
           T == {m \in Nat : Begins(a, InEpochs(j, r, E + m))}
<1>1. a \in Seq(B)
  BY InEpochsNext
<1>2. 0 \in T
  <2>1. E + 0 = E
    OBVIOUS
  <2>2. Len(a) \in Nat
    <3> HIDE DEF a, B
    <3> QED
      BY <1>1, LenProperties
  <2>3. Begins(a, a)
    <3> HIDE DEF a
    <3> QED
      BY <2>2 DEF Begins
  <2> QED
    BY <2>1, <2>3
<1>3. ASSUME NEW m \in Nat, m \in T PROVE m + 1 \in T
  <2> DEFINE n == E + m
             b == InEpochs(j, r, n)
             x == InEpoch(j, r, n + 1)
             c == b \o x
  <2>1. n \in Nat /\ n + 1 \in Nat /\ E + (m + 1) = n + 1
    OBVIOUS
  <2>2. Begins(a, b)
    BY <1>3
  <2> HIDE DEF n
  <2>3. b \in Seq(B) /\ x \in Seq(B) /\ InEpochs(j, r, n + 1) = c
    BY <2>1, InEpochsNext, InEpochType
  <2> HIDE DEF a, b, x, B
  <2>4. Begins(b, c) /\ c \in Seq(B)
    BY <2>3, BeginsConcat, ConcatProperties
  <2> HIDE DEF c
  <2>5. Begins(a, c)
    BY <1>1, <2>2, <2>3, <2>4, BeginsTransitive
  <2> QED
    BY <2>1, <2>3, <2>5 DEF a
<1> HIDE DEF T
<1>4. Nat \subseteq T
  BY <1>2, <1>3, Induction
<1>5. F - E \in Nat /\ E + (F - E) = F
  OBVIOUS
<1>6. F - E \in T
  BY <1>4, <1>5
<1>7. Begins(a, InEpochs(j, r, E + (F - E)))
  BY <1>6 DEF T
<1> QED
  BY <1>5, <1>7

LEMMA JobIs ==
  ASSUME Feeding
  PROVE  /\ Generating /\ Control /\ job \in Jobs /\ 1 \in Ranks /\ NumRanks \in Nat \ {0}
         /\ job.batchSize \in Nat \ {0} /\ job.skip \in Nat /\ Epochs \in Nat
BY MadeType, JobType, PackingAssumption DEF Feeding

(* The invariant of the ranks holds at the start.                          *)
LEMMA TrainingInit == Init => Training
<1> SUFFICES ASSUME Init PROVE Training
  OBVIOUS
<1>1. Feeding
  BY FeedingInit
<1>2. job \in Jobs /\ 1 \in Ranks /\ job.skip \in Nat /\ Epochs \in Nat
  BY <1>1, JobIs
<1>3. \A r \in Ranks : phase[r] = "start" /\ epoch[r] = 0 /\ got[r] = << >>
  BY DEF Init
<1>4. Finished(0)
  BY <1>2, <1>3 DEF Finished, Idle
<1>5. group = << >> /\ toSkip = 0 /\ phase[1] = "start" /\ Len(<< >>) = 0
  BY <1>2 DEF Init
<1>6. Grouping(0, 0)
  BY <1>5 DEF Grouping
<1>7. Skips(job, 0 + 1) \in Nat /\ Given(0, 0) = Skips(job, 0 + 1)
  <2>1. Skips(job, 0 + 1) \in Nat
    BY <1>2 DEF Skips
  <2> QED
    BY <2>1 DEF Given
<1>8. Delivered(0, 0)
  <2> SUFFICES ASSUME NEW r \in Ranks
               PROVE  InEpochs(job, r, 0) \o SubSeq(Part(job, r), Skips(job, 0 + 1) + 1, Given(0, 0)) = << >>
    BY <1>3 DEF Delivered
  <2>1. SubSeq(Part(job, r), Skips(job, 0 + 1) + 1, Given(0, 0)) = << >>
    BY <1>7, NoSlice
  <2>2. << >> \o << >> = << >>
    OBVIOUS
  <2> QED
    BY <2>1, <2>2, InNoEpoch
<1>9. Ended
  BY <1>5 DEF Ended
<1>10. InProgress(0, 0, 0)
  BY <1>4, <1>6, <1>8, <1>9 DEF InProgress
<1> QED
  BY <1>5, <1>10 DEF Training

LEMMA DeliveredKept ==
  ASSUME NEW E, NEW g, Delivered(E, g), UNCHANGED <<job, got>>
  PROVE  Delivered(E, g)'
BY DEF Delivered, Given

(* The steps that leave the ranks alone, then the others.                  *)
LEMMA TrainingKept ==
  ASSUME Training, UNCHANGED <<job, phase, epoch, toSkip, group, got, taken>>
  PROVE  Training'
<1>1. PICK E \in Nat, c \in Nat, g \in Nat : InProgress(E, c, g)
  BY DEF Training
<1>2. Finished(E)'
  BY <1>1 DEF InProgress, Finished, Idle
<1>3. Grouping(E, g)'
  BY <1>1 DEF InProgress, Grouping, Idle, Given
<1>4. Delivered(E, g)'
  BY <1>1, DeliveredKept DEF InProgress
<1>5. ~ Ended' => Taking(E, c, g)'
  BY <1>1 DEF InProgress, Ended, Taking, Given
<1> QED
  BY <1>2, <1>3, <1>4, <1>5 DEF Training, InProgress

(* An epoch starts: of rank 0, or of another one.                          *)
LEMMA TrainingStart ==
  ASSUME Feeding, Training, NEW r \in Ranks, StartEpoch(r)
  PROVE  Training'
<1>1. PICK E \in Nat, c \in Nat, g \in Nat : InProgress(E, c, g)
  BY DEF Training
<1>2. /\ phase[r] = "start" /\ epoch[r] < Epochs /\ epoch' = [epoch EXCEPT ![r] = @ + 1]
      /\ phase' = [phase EXCEPT ![r] = IF r = 1 THEN "collect" ELSE "scatter"]
      /\ UNCHANGED <<job, group, got>>
      /\ IF r = 1 THEN taken' = 0 /\ toSkip' = (IF epoch[r] = 0 THEN job.skip * NumRanks ELSE 0)
                  ELSE UNCHANGED <<taken, toSkip>>
  BY DEF StartEpoch
<1>3. /\ job \in Jobs /\ 1 \in Ranks /\ NumRanks \in Nat \ {0} /\ job.batchSize \in Nat \ {0}
      /\ job.skip \in Nat /\ Epochs \in Nat
      /\ phase \in [Ranks -> Phases] /\ epoch \in [Ranks -> Nat]
  BY JobIs DEF Control
<1>4. /\ \A q \in Ranks : q # r => phase'[q] = phase[q] /\ epoch'[q] = epoch[q]
      /\ phase'[r] = (IF r = 1 THEN "collect" ELSE "scatter") /\ epoch'[r] = epoch[r] + 1
  BY <1>2, <1>3
<1>5. epoch[r] = E /\ E < Epochs
  BY <1>1, <1>2 DEF InProgress, Finished, Idle
<1>6. Finished(E)'
  <2> SUFFICES ASSUME NEW q \in Ranks
               PROVE  /\ epoch'[q] = IF Idle(q)' THEN E ELSE E + 1
                      /\ epoch'[q] <= Epochs /\ (phase'[q] = "done" => E = Epochs)
    BY DEF Finished
  <2>1. CASE q = r
    <3>1. ~ Idle(r)' /\ phase'[r] # "done"
      BY <1>4 DEF Idle
    <3> QED
      BY <1>3, <1>4, <1>5, <2>1, <3>1
  <2>2. CASE q # r
    <3>1. Idle(q)' = Idle(q)
      BY <1>4, <2>2 DEF Idle
    <3> QED
      BY <1>1, <1>4, <2>2, <3>1 DEF InProgress, Finished
  <2> QED
    BY <2>1, <2>2
<1>7. Delivered(E, g)'
  BY <1>1, <1>2, DeliveredKept DEF InProgress
<1>8. CASE r # 1
  <2>1. phase'[1] = phase[1] /\ UNCHANGED <<taken, toSkip>>
    BY <1>2, <1>3, <1>4, <1>8
  <2>2. Grouping(E, g)'
    BY <1>1, <1>2, <2>1 DEF InProgress, Grouping, Idle, Given
  <2>3. ~ Ended' => Taking(E, c, g)'
    BY <1>1, <1>2, <2>1 DEF InProgress, Ended, Taking, Given
  <2>4. InProgress(E, c, g)'
    BY <1>6, <1>7, <2>2, <2>3 DEF InProgress
  <2> QED
    BY <2>1, <2>4 DEF Training
<1>9. CASE r = 1
  <2>1. /\ phase'[1] = "collect" /\ taken' = 0
        /\ toSkip' = IF E = 0 THEN job.skip * NumRanks ELSE 0
    BY <1>2, <1>4, <1>5, <1>9
  <2>2. g = 0 /\ group = << >> /\ group' = << >> /\ Len(<< >>) = 0
    BY <1>1, <1>2, <1>9 DEF InProgress, Grouping, Idle
  <2>3. Grouping(E, g)'
    BY <1>3, <2>1, <2>2 DEF Grouping, Idle
  <2> DEFINE x == job.skip * NumRanks
  <2>4. x \in Nat /\ 0 * NumRanks = 0 /\ 0 * job.batchSize = 0
    BY <1>3, Products
  <2>5. toSkip' \in Nat
    <3> HIDE DEF x
    <3> QED
      BY <2>1, <2>4 DEF x
  <2>6. toSkip' = Given(E, 0) * NumRanks
    <3>1. CASE E = 0
      <4>1. Given(E, 0) = job.skip
        BY <1>3, <3>1 DEF Given, Skips
      <4> QED
        BY <2>1, <3>1, <4>1
    <3>2. CASE E # 0
      <4>1. E + 1 # 1
        BY <3>2
      <4>2. Given(E, 0) = 0
        BY <4>1 DEF Given, Skips
      <4> QED
        BY <2>1, <2>4, <3>2, <4>2
    <3> QED
      BY <3>1, <3>2
  <2>7. Taking(E, 0, 0)'
    <3>1. Given(E, 0)' = Given(E, 0) /\ Len(group') = 0
      BY <1>2, <2>2 DEF Given
    <3>2. 0 <= Len(LonePacks(job)) /\ 0 <= Batches(job)
      BY <1>3, LoneType, BatchesAre
    <3>3. 0 + toSkip' = Given(E, 0)' * NumRanks + Len(group')
      <4> DEFINE y == Given(E, 0) * NumRanks
      <4>1. y \in Nat /\ toSkip' = y
        BY <2>5, <2>6
      <4> HIDE DEF y
      <4>2. 0 + toSkip' = y + 0
        BY <4>1
      <4> QED
        BY <3>1, <4>2 DEF y
    <3>4. taken' = IF 0 * job'.batchSize <= Len(LonePacks(job')) THEN 0 * job'.batchSize
                                                                 ELSE Len(LonePacks(job'))
      BY <1>2, <2>1, <2>4, <3>2
    <3> QED
      BY <1>2, <2>1, <2>2, <3>2, <3>3, <3>4 DEF Taking
  <2>8. InProgress(E, 0, 0)'
    BY <1>6, <1>7, <2>2, <2>3, <2>7 DEF InProgress
  <2> QED
    BY <2>5, <2>8 DEF Training
<1> QED
  BY <1>8, <1>9

(* A rank ends its training step, or the training.                         *)
LEMMA TrainingTrain ==
  ASSUME Feeding, Training, NEW r \in Ranks, Finish(r) \/ Train(r)
  PROVE  Training'
<1>1. PICK E \in Nat, c \in Nat, g \in Nat : InProgress(E, c, g)
  BY DEF Training
<1>2. /\ UNCHANGED <<job, epoch, taken, toSkip, group, got>>
      /\ \/ phase[r] = "start" /\ epoch[r] = Epochs /\ phase' = [phase EXCEPT ![r] = "done"]
         \/ /\ phase[r] = "train"
            /\ phase' = [phase EXCEPT ![r] = IF r = 1 THEN "collect" ELSE "scatter"]
  BY DEF Finish, Train
<1>3. /\ 1 \in Ranks /\ NumRanks \in Nat \ {0} /\ phase \in [Ranks -> Phases]
  BY JobIs DEF Control
<1>4. /\ \A q \in Ranks : q # r => phase'[q] = phase[q]
      /\ \/ phase[r] = "start" /\ epoch[r] = Epochs /\ phase'[r] = "done"
         \/ phase[r] = "train" /\ phase'[r] = IF r = 1 THEN "collect" ELSE "scatter"
  BY <1>2, <1>3
<1>5. \A q \in Ranks : Idle(q)' = Idle(q)
  BY <1>4 DEF Idle
<1>6. Finished(E)'
  <2> SUFFICES ASSUME NEW q \in Ranks
               PROVE  /\ epoch[q] = IF Idle(q) THEN E ELSE E + 1
                      /\ epoch[q] <= Epochs /\ (phase'[q] = "done" => E = Epochs)
    BY <1>2, <1>5 DEF Finished
  <2>1. /\ epoch[q] = IF Idle(q) THEN E ELSE E + 1
        /\ epoch[q] <= Epochs /\ (phase[q] = "done" => E = Epochs)
    BY <1>1 DEF InProgress, Finished
  <2>2. q = r /\ phase[r] = "start" => epoch[q] = E
    BY <2>1 DEF Idle
  <2> QED
    BY <1>4, <2>1, <2>2
<1>7. Delivered(E, g)'
  BY <1>1, <1>2, DeliveredKept DEF InProgress
<1>8. Grouping(E, g) /\ (~ Ended => Taking(E, c, g))
  BY <1>1 DEF InProgress
<1>9. CASE r # 1 \/ phase[r] = "start"
  <2>1. /\ phase'[1] = phase[1] \/ (phase[1] = "start" /\ phase'[1] = "done")
    BY <1>3, <1>4, <1>9
  <2>2. Grouping(E, g)'
    BY <1>2, <1>8, <2>1 DEF Grouping, Idle, Given
  <2>3. ~ Ended' => Taking(E, c, g)'
    BY <1>2, <1>8, <2>1 DEF Ended, Taking, Given
  <2> QED
    BY <1>2, <1>6, <1>7, <2>2, <2>3 DEF InProgress, Training
<1>10. CASE r = 1 /\ phase[r] = "train"
  <2>1. phase[1] = "train" /\ phase'[1] = "collect" /\ ~ Ended
    BY <1>4, <1>10 DEF Ended
  <2>2. group = << >> /\ Len(<< >>) = 0
    BY <1>8, <2>1 DEF Grouping
  <2>3. Grouping(E, g)'
    BY <1>2, <1>3, <1>8, <2>1, <2>2 DEF Grouping, Idle, Given
  <2>4. Taking(E, c, g)'
    BY <1>2, <1>8, <2>1 DEF Taking, Given
  <2> QED
    BY <1>2, <1>6, <1>7, <2>3, <2>4 DEF InProgress, Training
<1> QED
  BY <1>4, <1>9, <1>10

(* What is packed so far is what one process packs first; at the end of    *)
(* the epoch it is all of it.                                              *)
LEMMA MadeIs ==
  ASSUME Generating
  PROVE  /\ Begins(made, LonePacks(job))
         /\ at = "over" => made = LonePacks(job) \/ (made = << >> /\ epoch[1] = 0)
<1>1. PICK d \in 0 .. LastRound(job) + 1 : AfterRounds(d)
  BY DEF Generating
<1>2. job \in Jobs /\ made = Lone(job)[d].packs
  BY <1>1 DEF Generating, AfterRounds
<1>3. Begins(made, LonePacks(job))
  BY <1>2, LoneBeginsFinal
<1>4. at = "over" => made = LonePacks(job) \/ (made = << >> /\ epoch[1] = 0)
  <2> SUFFICES ASSUME at = "over" PROVE made = LonePacks(job) \/ (made = << >> /\ epoch[1] = 0)
    OBVIOUS
  <2>1. d = LastRound(job) + 1 \/ (d = 0 /\ epoch[1] = 0)
    BY <1>1 DEF AfterRounds
  <2> QED
    BY <1>2, <2>1, LoneEnds, LoneBegins
<1> QED
  BY <1>3, <1>4

(* The next batch is the one that one process would cut.                   *)
LEMMA NextBatchIsLone ==
  ASSUME Feeding, NEW c \in Nat, HasBatch,
         taken = IF c * job.batchSize <= Len(LonePacks(job)) THEN c * job.batchSize
                                                             ELSE Len(LonePacks(job))
  PROVE  /\ NextBatch = Batch(job, c) /\ c + 1 <= Batches(job)
         /\ taken + Len(NextBatch) =
              IF (c + 1) * job.batchSize <= Len(LonePacks(job)) THEN (c + 1) * job.batchSize
                                                                ELSE Len(LonePacks(job))
<1> DEFINE P == Pack
           s == LonePacks(job)
           L == Len(s)
           M == Len(made)
           b == job.batchSize
           x == c * b
           n == Upto(x + b, made)
           m == Upto(x + b, s)
           l == Len(NextBatch)
<1>1. Generating /\ taken \in Nat /\ job \in Jobs
  BY JobIs DEF Control
<1>2. made \in Seq(P) /\ M \in Nat /\ b \in Nat \ {0}
  BY <1>1, MadeType
<1>3. s \in Seq(P) /\ L \in Nat
  BY <1>1, LoneType DEF Pack
<1>4. x \in Nat
  BY <1>2, Products
<1>5. Begins(made, s) /\ M <= L
  BY <1>1, MadeIs DEF Begins
<1>6. taken < M /\ l = IF taken + b <= M THEN b ELSE M - taken
  BY <1>1, NextBatchIs
<1>7. taken = IF x <= L THEN x ELSE L
  OBVIOUS
<1>8. NextBatch = SubSeq(made, taken + 1, Upto(taken + b, made))
  BY DEF NextBatch
<1>9. n = (IF x + b > M THEN M ELSE x + b) /\ m = (IF x + b > L THEN L ELSE x + b)
  BY DEF Upto
<1>10. M - taken >= b \/ M = L
  <2>1. M - taken >= b \/ (at = "over" /\ taken < M)
    BY DEF HasBatch
  <2>2. at = "over" => made = s \/ made = << >>
    BY <1>1, MadeIs
  <2>3. made = << >> => M = 0
    OBVIOUS
  <2> HIDE DEF M, b, s, L
  <2>4. ~ (taken < 0)
    BY <1>1
  <2>5. made = s => M = L
    BY DEF M, L
  <2> QED
    BY <1>6, <2>1, <2>2, <2>3, <2>4, <2>5
<1>11. Batch(job, c) = SubSeq(s, x + 1, m)
  BY DEF Batch
<1>12. (c + 1) * b = x + b
  <2> HIDE DEF b
  <2> QED
    BY <1>2
<1>13. x < L => c + 1 <= Batches(job)
  BY <1>1, BatchesAre
<1> HIDE DEF P, s, L, M, b, x, n, m, l
<1>14. taken = x /\ x < L
  BY <1>1, <1>2, <1>3, <1>4, <1>5, <1>6, <1>7
<1>15. n = m /\ n \in Nat /\ n <= M
  BY <1>2, <1>3, <1>4, <1>5, <1>9, <1>10, <1>14
<1>16. SubSeq(made, x + 1, n) = SubSeq(s, x + 1, n)
  <2>1. /\ made \in Seq(P) /\ s \in Seq(P) /\ Begins(made, s)
        /\ x \in Nat /\ n \in Nat /\ n <= Len(made)
    BY <1>2, <1>3, <1>4, <1>5, <1>15 DEF M
  <2> QED
    BY <2>1, SameSlice, ZenonT(60)
<1>17. NextBatch = Batch(job, c)
  BY <1>8, <1>11, <1>14, <1>15, <1>16 DEF n
<1>18. taken + l = IF x + b <= L THEN x + b ELSE L
  BY <1>2, <1>3, <1>4, <1>5, <1>6, <1>10, <1>14
<1>19. taken + l = IF (c + 1) * b <= L THEN (c + 1) * b ELSE L
  BY <1>12, <1>18
<1> QED
  BY <1>13, <1>14, <1>17, <1>19 DEF s, L, b, l

(* Rank 0 collects a batch, or skips it.                                   *)
LEMMA TrainingCollect ==
  ASSUME Feeding, Training, Collect
  PROVE  Training'
<1>1. PICK E \in Nat, c \in Nat, g \in Nat : InProgress(E, c, g)
  BY DEF Training
<1>2. /\ phase[1] = "collect" /\ HasBatch /\ taken' = taken + Len(NextBatch)
      /\ UNCHANGED <<job, epoch, got>>
      /\ IF toSkip > 0
           THEN toSkip' = toSkip - 1 /\ UNCHANGED <<group, phase>>
           ELSE /\ group' = Append(group, NextBatch)
                /\ phase' = [phase EXCEPT ![1] = IF Len(group') = NumRanks THEN "scatter" ELSE @]
                /\ UNCHANGED toSkip
  BY DEF Collect
<1>3. /\ job \in Jobs /\ 1 \in Ranks /\ NumRanks \in Nat \ {0} /\ phase \in [Ranks -> Phases]
      /\ group \in Seq(Seq(Pack))
  BY JobIs DEF Control
<1>4. Finished(E) /\ Grouping(E, g) /\ Delivered(E, g)
  BY <1>1 DEF InProgress
<1>5. Taking(E, c, g)
  BY <1>1, <1>2 DEF InProgress, Ended
<1>6. /\ NextBatch = Batch(job, c) /\ c + 1 <= Batches(job)
      /\ taken + Len(NextBatch) =
              IF (c + 1) * job.batchSize <= Len(LonePacks(job)) THEN (c + 1) * job.batchSize
                                                                ELSE Len(LonePacks(job))
  BY <1>2, <1>5, NextBatchIsLone DEF Taking
<1>7. Delivered(E, g)'
  BY <1>2, <1>4, DeliveredKept
<1>8. toSkip \in Nat
  BY DEF Training
<1> DEFINE x == Given(E, g) * NumRanks
           l == Len(group)
<1>9. c + toSkip = x + l
  BY <1>5 DEF Taking
<1>10. Given(E, g) \in Nat
  <2>1. Skips(job, E + 1) \in Nat
    BY <1>3, JobType DEF Skips
  <2> QED
    BY <2>1 DEF Given
<1>11. x \in Nat
  BY <1>3, <1>10, Products
<1>12. l \in Nat
  <2> DEFINE S == Seq(Pack)
  <2>1. group \in Seq(S)
    BY <1>3
  <2> HIDE DEF S
  <2> QED
    BY <2>1, LenProperties
<1>13. l < NumRanks
  BY <1>2, <1>4 DEF Grouping
<1>14. CASE toSkip > 0
  <2>1. toSkip' = toSkip - 1 /\ UNCHANGED <<group, phase>>
    BY <1>2, <1>14
  <2>2. Finished(E)'
    BY <1>2, <1>4, <2>1 DEF Finished, Idle
  <2>3. Grouping(E, g)'
    BY <1>2, <1>4, <2>1 DEF Grouping, Idle, Given
  <2>4. g = 0 /\ group = << >> /\ phase'[1] = "collect" /\ group' = << >>
    BY <1>2, <1>5, <1>14, <2>1 DEF Taking
  <2>5. (c + 1) + toSkip' = x + l /\ toSkip' \in Nat
    <3> HIDE DEF x, l
    <3> QED
      BY <1>8, <1>9, <1>11, <1>12, <1>14, <2>1
  <2>6. (c + 1) + toSkip' = Given(E, g)' * NumRanks + Len(group')
    BY <1>2, <2>1, <2>5 DEF Given
  <2> DEFINE k == c + 1
  <2>7. k \in Nat
    OBVIOUS
  <2>8. /\ k + toSkip' = Given(E, g)' * NumRanks + Len(group') /\ k <= Batches(job)
        /\ taken' = IF k * job.batchSize <= Len(LonePacks(job)) THEN k * job.batchSize
                                                                ELSE Len(LonePacks(job))
    BY <1>2, <1>6, <2>6
  <2> HIDE DEF k
  <2>9. Taking(E, k, g)'
    BY <1>2, <2>4, <2>8 DEF Taking
  <2>10. InProgress(E, k, g)'
    BY <1>7, <2>2, <2>3, <2>9 DEF InProgress
  <2> QED
    BY <2>5, <2>7, <2>10 DEF Training
<1>15. CASE ~ (toSkip > 0)
  <2>1. /\ group' = Append(group, NextBatch) /\ toSkip' = toSkip /\ toSkip = 0
        /\ phase' = [phase EXCEPT ![1] = IF Len(group') = NumRanks THEN "scatter" ELSE @]
    BY <1>2, <1>8, <1>15
  <2> DEFINE S == Seq(Pack)
             e == Batch(job, c)
  <2>2. e \in S /\ group \in Seq(S) /\ group' = Append(group, e)
    BY <1>3, <1>6, <2>1, BatchType DEF Pack
  <2>3. Len(group') = l + 1 /\ group'[l + 1] = e /\ \A i \in 1 .. l : group'[i] = group[i]
    <3> HIDE DEF S, e
    <3> QED
      BY <2>2, AppendProperties
  <2>4. c = x + l
    <3> HIDE DEF x, l
    <3> QED
      BY <1>9, <1>11, <1>12, <2>1
  <2>5. phase'[1] = (IF l + 1 = NumRanks THEN "scatter" ELSE "collect")
        /\ \A q \in Ranks : q # 1 => phase'[q] = phase[q]
    BY <1>2, <1>3, <2>1, <2>3
  <2>6. \A q \in Ranks : Idle(q)' = Idle(q) /\ (phase'[q] = "done" => phase[q] = "done")
    BY <1>2, <2>5 DEF Idle
  <2>7. Finished(E)'
    BY <1>2, <1>4, <2>6 DEF Finished
  <2>8. ASSUME NEW i \in 1 .. l + 1 PROVE group'[i] = Batch(job, x + i - 1)
    <3>1. CASE i = l + 1
      <4>1. x + i - 1 = c
        <5> HIDE DEF x, l
        <5> QED
          BY <1>11, <1>12, <2>4, <3>1
      <4> QED
        BY <2>3, <3>1, <4>1
    <3>2. CASE i # l + 1
      <4>1. i \in 1 .. l
        <5> HIDE DEF l
        <5> QED
          BY <1>12, <3>2
      <4> QED
        BY <1>4, <2>3, <4>1 DEF Grouping
    <3> QED
      BY <3>1, <3>2
  <2>9. Grouping(E, g)'
    <3>1. ~ Idle(1)' /\ phase'[1] # "train"
      BY <2>5 DEF Idle
    <3>2. \A i \in 1 .. Len(group') : group'[i] = Batch(job', Given(E, g)' * NumRanks + i - 1)
      BY <1>2, <2>3, <2>8 DEF Given
    <3>3. phase'[1] = "collect" => Len(group') < NumRanks
      <4>1. l + 1 # NumRanks => l + 1 < NumRanks
        <5> HIDE DEF l
        <5> QED
          BY <1>3, <1>12, <1>13
      <4> QED
        BY <2>3, <2>5, <4>1
    <3>4. phase'[1] = "scatter" => Len(group') = NumRanks
      BY <2>3, <2>5
    <3>5. g > 0 => Given(E, g)' <= Shared(job')
      BY <1>2, <1>4 DEF Grouping, Given
    <3> QED
      BY <3>1, <3>2, <3>3, <3>4, <3>5 DEF Grouping
  <2> DEFINE k == c + 1
  <2>10. k + toSkip' = x + Len(group') /\ ~ (toSkip' > 0)
    <3> HIDE DEF x, l
    <3> QED
      BY <1>11, <1>12, <2>1, <2>3, <2>4
  <2>11. /\ k + toSkip' = Given(E, g)' * NumRanks + Len(group') /\ k <= Batches(job') /\ k \in Nat
         /\ taken' = IF k * job'.batchSize <= Len(LonePacks(job')) THEN k * job'.batchSize
                                                                   ELSE Len(LonePacks(job'))
    BY <1>2, <1>6, <2>10 DEF Given
  <2> HIDE DEF k
  <2>12. Taking(E, k, g)'
    BY <2>10, <2>11 DEF Taking
  <2>13. InProgress(E, k, g)'
    BY <1>7, <2>7, <2>9, <2>12 DEF InProgress
  <2> QED
    BY <1>8, <2>1, <2>11, <2>13 DEF Training
<1> QED
  BY <1>14, <1>15

(* The epoch ends when the batches that are left are too few for all       *)
(* ranks.                                                                  *)
LEMMA TrainingExhausted ==
  ASSUME Feeding, Training, Exhausted
  PROVE  Training'
<1>1. PICK E \in Nat, c \in Nat, g \in Nat : InProgress(E, c, g)
  BY DEF Training
<1>2. /\ phase[1] = "collect" /\ at = "over" /\ taken = Len(made)
      /\ UNCHANGED <<job, epoch, toSkip, got, taken>>
      /\ IF toSkip > 0 THEN UNCHANGED <<group, phase>>
                       ELSE group' = << >> /\ phase' = [phase EXCEPT ![1] = "scatter"]
  BY DEF Exhausted
<1>3. CASE toSkip > 0
  BY <1>2, <1>3, TrainingKept
<1>4. CASE ~ (toSkip > 0)
  <2>1. group' = << >> /\ phase' = [phase EXCEPT ![1] = "scatter"]
    BY <1>2, <1>4
  <2>2. /\ Generating /\ job \in Jobs /\ 1 \in Ranks /\ NumRanks \in Nat \ {0}
        /\ phase \in [Ranks -> Phases] /\ group \in Seq(Seq(Pack)) /\ job.batchSize \in Nat \ {0}
    BY JobIs DEF Control
  <2>3. phase'[1] = "scatter" /\ \A q \in Ranks : q # 1 => phase'[q] = phase[q]
    BY <2>1, <2>2
  <2>4. Finished(E) /\ Grouping(E, g) /\ Delivered(E, g) /\ Taking(E, c, g)
    BY <1>1, <1>2 DEF InProgress, Ended
  <2>5. \A q \in Ranks : Idle(q)' = Idle(q) /\ (phase'[q] = "done" => phase[q] = "done")
    BY <1>2, <2>3 DEF Idle
  <2>6. Finished(E)'
    BY <1>2, <2>4, <2>5 DEF Finished
  <2>7. Delivered(E, g)'
    BY <1>2, <2>4, DeliveredKept
  <2>8. made = LonePacks(job)
    <3>1. epoch[1] = E + 1
      BY <1>2, <2>2, <2>4 DEF Finished, Idle
    <3>2. epoch[1] # 0
      BY <3>1
    <3> QED
      BY <1>2, <2>2, <3>2, MadeIs
  <2>9. c = Batches(job)
    <3> DEFINE L == Len(LonePacks(job))
               x == c * job.batchSize
    <3>1. L \in Nat /\ x \in Nat
      BY <2>2, LoneType, Products
    <3>2. L = IF x <= L THEN x ELSE L
      BY <1>2, <2>4, <2>8 DEF Taking
    <3>3. L <= x
      <4> HIDE DEF L, x
      <4> QED
        BY <3>1, <3>2
    <3>4. c <= Batches(job)
      BY <2>4 DEF Taking
    <3> QED
      BY <2>2, <3>3, <3>4, BatchesAre
  <2>10. Given(E, g) = Shared(job)
    <3> DEFINE q == Given(E, g)
               l == Len(group)
    <3>1. toSkip = 0
      BY <1>4 DEF Training
    <3>2. c + toSkip = q * NumRanks + l /\ l < NumRanks
      BY <1>2, <2>4 DEF Taking, Grouping
    <3>3. q \in Nat
      <4>1. Skips(job, E + 1) \in Nat
        BY <2>2, JobType DEF Skips
      <4> QED
        BY <4>1 DEF Given
    <3>4. l \in Nat
      <4> DEFINE S == Seq(Pack)
      <4>1. group \in Seq(S)
        BY <2>2
      <4> HIDE DEF S
      <4> QED
        BY <4>1, LenProperties
    <3> HIDE DEF q, l
    <3>5. Batches(job) = q * NumRanks + l
      BY <2>9, <3>1, <3>2
    <3>6. Shared(job) = q
      BY <2>2, <3>2, <3>3, <3>4, <3>5, BatchesAre
    <3> QED
      BY <3>6 DEF q
  <2>11. Grouping(E, g)'
    <3>1. Len(group') = 0 /\ ~ Idle(1)'
      BY <2>1, <2>3 DEF Idle
    <3>2. Given(E, g)' = Shared(job')
      BY <1>2, <2>10 DEF Given
    <3>3. g > 0 => Given(E, g)' <= Shared(job')
      BY <1>2, <2>4 DEF Grouping, Given
    <3> QED
      BY <2>1, <2>3, <3>1, <3>2, <3>3 DEF Grouping
  <2>12. Ended'
    BY <2>1, <2>3 DEF Ended
  <2>13. InProgress(E, c, g)'
    BY <2>6, <2>7, <2>11, <2>12 DEF InProgress
  <2> QED
    BY <1>2, <2>13 DEF Training
<1> QED
  BY <1>3, <1>4

(* Every rank is sent the batch of its turn.                               *)
LEMMA TrainingScatter ==
  ASSUME Feeding, Training, Scatter
  PROVE  Training'
<1>1. PICK E \in Nat, c \in Nat, g \in Nat : InProgress(E, c, g)
  BY DEF Training
<1>2. /\ \A r \in Ranks : phase[r] = "scatter"
      /\ phase' = [r \in Ranks |-> IF group = << >> THEN "start" ELSE "train"]
      /\ got' = [r \in Ranks |-> IF group = << >> THEN got[r] ELSE Append(got[r], group[r])]
      /\ group' = << >> /\ UNCHANGED <<job, epoch, toSkip, taken>>
  BY DEF Scatter
<1>3. /\ job \in Jobs /\ 1 \in Ranks /\ NumRanks \in Nat \ {0} /\ phase[1] = "scatter"
  BY <1>2, JobIs
<1>4. Finished(E) /\ Grouping(E, g) /\ Delivered(E, g)
  BY <1>1 DEF InProgress
<1>5. \A r \in Ranks : epoch[r] = E + 1 /\ epoch[r] <= Epochs /\ ~ Idle(r)
  BY <1>2, <1>4 DEF Finished, Idle
<1> DEFINE B == BatchOf(job)
           q == Given(E, g)
           skip == Skips(job, E + 1)
<1>6. skip \in Nat /\ q = skip + g /\ q \in Nat
  <2>1. skip \in Nat
    BY <1>3, JobType DEF Skips
  <2> QED
    BY <2>1 DEF Given
<1>7. \A r \in Ranks : /\ InEpochs(job, r, E) \in Seq(B) /\ Part(job, r) \in Seq(B)
                       /\ Len(Part(job, r)) = Shared(job)
                       /\ got[r] = InEpochs(job, r, E) \o SubSeq(Part(job, r), skip + 1, q)
  BY <1>3, <1>4, InEpochsNext, PartIs DEF Delivered
<1>8. Len(group') = 0 /\ toSkip \in Nat
  BY <1>2 DEF Training
<1>9. CASE group = << >>
  <2>1. \A r \in Ranks : phase'[r] = "start" /\ got'[r] = got[r]
    BY <1>2, <1>9
  <2> DEFINE F == E + 1
  <2>2. F \in Nat
    OBVIOUS
  <2>3. Finished(F)'
    BY <1>2, <1>5, <2>1 DEF Finished, Idle
  <2>4. Grouping(F, 0)'
    BY <1>2, <1>3, <1>8, <2>1 DEF Grouping
  <2>5. q = Shared(job)
    <3>1. Len(group) # NumRanks
      BY <1>2, <1>3, <1>8, <1>9
    <3> QED
      BY <1>3, <1>4, <3>1 DEF Grouping
  <2>6. Delivered(F, 0)'
    <3> SUFFICES ASSUME NEW r \in Ranks
                 PROVE  got[r] = InEpochs(job, r, F)
                                   \o SubSeq(Part(job, r), Skips(job, F + 1) + 1, Given(F, 0))
      BY <1>2, <2>1 DEF Delivered, Given
    <3> DEFINE a == InEpochs(job, r, F)
               k == Skips(job, F + 1)
    <3>1. k \in Nat /\ Given(F, 0) = k
      <4>1. k \in Nat
        BY <1>3, JobType DEF Skips
      <4> QED
        BY <4>1 DEF Given
    <3>2. SubSeq(Part(job, r), k + 1, Given(F, 0)) = << >>
      <4> HIDE DEF k
      <4> QED
        BY <3>1, NoSlice
    <3>3. InEpoch(job, r, F) = SubSeq(Part(job, r), skip + 1, q)
      BY <1>7, <2>5 DEF InEpoch
    <3>4. a = InEpochs(job, r, E) \o InEpoch(job, r, F)
      BY <1>3, InEpochsNext
    <3>5. got[r] = a
      BY <1>7, <3>3, <3>4
    <3>6. a \in Seq(B)
      <4> HIDE DEF F, B
      <4> QED
        BY <1>3, <2>2, InEpochsNext DEF B
    <3> HIDE DEF a, B
    <3>7. a \o << >> = a
      BY <3>6, ConcatEmptySeq
    <3> QED
      BY <3>2, <3>5, <3>7 DEF a
  <2>7. Ended'
    BY <1>3, <2>1 DEF Ended
  <2> HIDE DEF F
  <2>8. InProgress(F, c, 0)'
    BY <2>3, <2>4, <2>6, <2>7 DEF InProgress
  <2> QED
    BY <1>2, <1>8, <2>2, <2>8 DEF Training
<1>10. CASE group # << >>
  <2>1. \A r \in Ranks : phase'[r] = "train" /\ got'[r] = Append(got[r], group[r])
    BY <1>2, <1>10
  <2>2. Taking(E, c, g)
    BY <1>1, <1>3, <1>10 DEF InProgress, Ended
  <2>3. Len(group) = NumRanks
    BY <1>3, <1>4, <1>10 DEF Grouping
  <2>4. toSkip = 0
    <3>1. ~ (toSkip > 0)
      BY <1>3, <2>2 DEF Taking
    <3> QED
      BY <1>8, <3>1
  <2> DEFINE h == g + 1
             k == q + 1
             x == q * NumRanks
  <2>5. h \in Nat /\ Given(E, h) = k /\ k = q + 1 /\ k \in Nat
    <3>1. skip + (g + 1) = q + 1
      BY <1>6
    <3> QED
      BY <1>6, <3>1 DEF Given
  <2>6. c = x + NumRanks /\ x \in Nat
    <3>1. x \in Nat
      BY <1>3, <1>6, Products
    <3>2. c + toSkip = x + NumRanks
      BY <2>2, <2>3 DEF Taking
    <3> HIDE DEF x
    <3> QED
      BY <1>3, <2>4, <3>1, <3>2
  <2>7. k * NumRanks = x + NumRanks
    <3> HIDE DEF q
    <3> QED
      BY <1>3, <1>6
  <2>8. k <= Shared(job)
    <3>1. c <= Batches(job)
      BY <2>2 DEF Taking
    <3>2. (q + 1) * NumRanks <= Batches(job)
      BY <2>6, <2>7, <3>1
    <3> HIDE DEF q
    <3> QED
      BY <1>3, <1>6, <3>2, BatchesAre
  <2>9. Finished(E)'
    BY <1>2, <1>5, <2>1 DEF Finished, Idle
  <2>10. Grouping(E, h)'
    <3>1. ~ Idle(1)' /\ phase'[1] = "train"
      BY <1>3, <2>1 DEF Idle
    <3>2. Given(E, h)' = k
      BY <1>2, <2>5 DEF Given
    <3>3. Given(E, h)' <= Shared(job')
      BY <1>2, <2>8, <3>2
    <3> QED
      BY <1>2, <1>8, <3>1, <3>3 DEF Grouping
  <2>11. Taking(E, c, h)'
    <3>1. c + toSkip' = Given(E, h)' * NumRanks + Len(group')
      <4>1. Given(E, h)' = k
        BY <1>2, <2>5 DEF Given
      <4>2. c + 0 = (x + NumRanks) + 0
        BY <2>6
      <4> QED
        BY <1>2, <1>8, <2>4, <2>7, <4>1, <4>2
    <3>2. /\ ~ (toSkip' > 0) /\ c <= Batches(job')
          /\ taken' = IF c * job'.batchSize <= Len(LonePacks(job')) THEN c * job'.batchSize
                                                                    ELSE Len(LonePacks(job'))
      BY <1>2, <2>2, <2>4 DEF Taking
    <3> QED
      BY <3>1, <3>2 DEF Taking
  <2>12. Delivered(E, h)'
    <3> SUFFICES ASSUME NEW r \in Ranks
                 PROVE  Append(got[r], group[r]) = InEpochs(job, r, E) \o SubSeq(Part(job, r), skip + 1, k)
      BY <1>2, <2>1, <2>5 DEF Delivered, Given
    <3> DEFINE a == InEpochs(job, r, E)
               s == Part(job, r)
               b == SubSeq(s, skip + 1, q)
               e == s[k]
    <3>1. group[r] = Batch(job, x + r - 1)
      <4>1. r \in 1 .. Len(group)
        BY <2>3 DEF Ranks
      <4> QED
        BY <1>4, <4>1 DEF Grouping
    <3>2. k \in 1 .. Shared(job) /\ k - 1 = q
      <4>1. Shared(job) \in Nat
        BY <1>3, BatchesAre
      <4> HIDE DEF q
      <4> QED
        BY <1>6, <2>8, <4>1
    <3>3. e = Batch(job, x + r - 1)
      <4>1. e = Batch(job, (k - 1) * NumRanks + r - 1)
        <5> HIDE DEF k
        <5> QED
          BY <1>3, <3>2, PartIs
      <4> QED
        BY <3>2, <4>1
    <3>4. a \in Seq(B) /\ s \in Seq(B) /\ Len(s) = Shared(job) /\ got[r] = a \o b
      BY <1>7
    <3>5. skip <= q /\ q + 1 <= Len(s) /\ q <= Len(s)
      <4>1. Shared(job) \in Nat
        BY <1>3, BatchesAre
      <4> HIDE DEF q, skip
      <4> QED
        BY <1>6, <2>8, <3>4, <4>1
    <3>6. e \in B
      <4> HIDE DEF k, s, B
      <4> QED
        BY <3>2, <3>4, ElementOfSeq
    <3> HIDE DEF a, s, q, skip, B
    <3>7. SubSeq(s, skip + 1, q + 1) = Append(b, s[q + 1])
      BY <1>6, <3>4, <3>5, SliceGrows
    <3>8. b \in Seq(B)
      BY <1>6, <3>4, <3>5, SliceIs
    <3> HIDE DEF b, e
    <3>9. a \o Append(b, e) = Append(a \o b, e)
      BY <3>4, <3>6, <3>8, ConcatOfAppend
    <3> QED
      BY <3>1, <3>3, <3>4, <3>7, <3>9 DEF a, s, e, b, skip
  <2> HIDE DEF h
  <2>13. InProgress(E, c, h)'
    BY <2>9, <2>10, <2>11, <2>12 DEF InProgress
  <2> QED
    BY <1>2, <1>8, <2>5, <2>13 DEF Training
<1> QED
  BY <1>9, <1>10

(* Every step keeps it.                                                    *)
LEMMA TrainingStep ==
  ASSUME Feeding, Training, [Next]_vars
  PROVE  Training'
<1>1. CASE UNCHANGED vars
  BY <1>1, TrainingKept DEF vars, rankVars
<1>2. CASE PutSample \/ PutEnd \/ Fetch \/ FetchFails \/ Match \/ Resume
  <2>1. UNCHANGED <<job, phase, epoch, toSkip, group, got, taken>>
    BY <1>2 DEF PutSample, PutEnd, Fetch, FetchFails, Match, Resume, rankVars
  <2> QED
    BY <2>1, TrainingKept
<1>3. ASSUME NEW w \in Workers, Take(w) \/ Encode(w) PROVE Training'
  <2>1. UNCHANGED <<job, phase, epoch, toSkip, group, got, taken>>
    BY <1>3 DEF Take, Encode, rankVars
  <2> QED
    BY <2>1, TrainingKept
<1> QED
  BY <1>1, <1>2, <1>3, TrainingCollect, TrainingExhausted, TrainingScatter,
     TrainingStart, TrainingTrain DEF Next

(* The batches taken, skipped, collected and scattered add up, epoch by    *)
(* epoch (DataLoaderDispatcher.__iter__).                                  *)
THEOREM TrainingInvariant == Spec => []Training
<1>1. Init => Training
  BY TrainingInit
<1>2. Feeding /\ Training /\ [Next]_vars => Training'
  BY TrainingStep
<1> QED
  BY <1>1, <1>2, FeedingInvariant, PTL DEF Spec

(* What a rank has trained on begins what it is to train on, and is all of *)
(* it when it is done.                                                     *)
LEMMA GotIs ==
  ASSUME Feeding, Training, NEW r \in Ranks
  PROVE  /\ IsPrefix(got[r], InEpochs(job, r, Epochs))
         /\ phase[r] = "done" => got[r] = InEpochs(job, r, Epochs)
<1>1. PICK E \in Nat, c \in Nat, g \in Nat : InProgress(E, c, g)
  BY DEF Training
<1>2. Finished(E) /\ Grouping(E, g) /\ Delivered(E, g)
  BY <1>1 DEF InProgress
<1>3. job \in Jobs /\ 1 \in Ranks /\ Epochs \in Nat /\ job.skip \in Nat /\ epoch \in [Ranks -> Nat]
  BY JobIs DEF Control
<1> DEFINE B == BatchOf(job)
           s == Part(job, r)
           skip == Skips(job, E + 1)
           q == Given(E, g)
           a == InEpochs(job, r, E)
           b == SubSeq(s, skip + 1, q)
           all == InEpochs(job, r, Epochs)
<1>4. /\ skip \in Nat /\ q = skip + g /\ q \in Nat
  <2>1. skip \in Nat
    BY <1>3, JobType DEF Skips
  <2> QED
    BY <2>1 DEF Given
<1>5. /\ a \in Seq(B) /\ all \in Seq(B) /\ s \in Seq(B) /\ Len(s) = Shared(job) /\ Shared(job) \in Nat
      /\ got[r] = a \o b
  BY <1>2, <1>3, InEpochsNext, PartIs, BatchesAre DEF Delivered
<1>6. E <= Epochs
  <2>1. epoch[1] = E \/ epoch[1] = E + 1
    BY <1>2, <1>3 DEF Finished
  <2>2. epoch[1] <= Epochs
    BY <1>2, <1>3 DEF Finished
  <2> QED
    BY <1>3, <2>1, <2>2
<1>7. CASE g = 0
  <2>1. q = skip
    BY <1>4, <1>7
  <2>2. b = << >>
    <3> HIDE DEF s, skip, q
    <3> QED
      BY <1>4, <2>1, NoSlice
  <2>3. got[r] = a
    <3> HIDE DEF a, b, B
    <3> QED
      BY <1>5, <2>2, ConcatEmptySeq
  <2>4. Begins(a, all)
    BY <1>3, <1>6, InEpochsBegin
  <2>5. IsPrefix(a, all)
    <3> HIDE DEF a, all, B
    <3> QED
      BY <1>5, <2>4, BeginsIsPrefix
  <2>6. phase[r] = "done" => a = all
    BY <1>2 DEF Finished
  <2> QED
    BY <2>3, <2>5, <2>6
<1>8. CASE g # 0
  <2> DEFINE F == E + 1
             x == InEpoch(job, r, F)
  <2>1. ~ Idle(1)
    BY <1>2, <1>8 DEF Grouping
  <2>2. F \in Nat /\ F <= Epochs
    BY <1>2, <1>3, <2>1 DEF Finished
  <2>3. phase[r] # "done"
    <3>1. E # Epochs
      BY <1>3, <2>2
    <3> QED
      BY <1>2, <3>1 DEF Finished
  <2>4. q <= Len(s)
    BY <1>2, <1>5, <1>8 DEF Grouping
  <2>5. x = SubSeq(s, skip + 1, Len(s))
    BY DEF InEpoch
  <2>6. Begins(b, x) /\ b \in Seq(B) /\ x \in Seq(B)
    <3>1. Begins(b, SubSeq(s, skip + 1, Len(s))) /\ b \in Seq(B)
      <4> HIDE DEF s, skip, q, B
      <4> QED
        BY <1>4, <1>5, <2>4, SliceBegins, SliceIs
    <3>2. x \in Seq(B)
      BY <1>3, <2>2, InEpochType
    <3> QED
      BY <2>5, <3>1, <3>2
  <2> DEFINE y == InEpochs(job, r, F)
  <2>7. y = a \o x
    BY <1>3, InEpochsNext
  <2>8. y \in Seq(B) /\ Begins(y, all)
    <3> HIDE DEF F
    <3> QED
      BY <1>3, <2>2, InEpochsNext, InEpochsBegin
  <2> HIDE DEF a, b, x, y, all, B
  <2> DEFINE p == a \o b
             o == a \o x
  <2>9. p \in Seq(B) /\ Begins(p, o)
    BY <1>5, <2>6, ConcatBegins, ConcatProperties
  <2>10. o \in Seq(B) /\ Begins(o, all)
    BY <2>7, <2>8
  <2> HIDE DEF p, o
  <2>11. Begins(p, all)
    BY <1>5, <2>9, <2>10, BeginsTransitive
  <2>12. IsPrefix(p, all)
    BY <1>5, <2>9, <2>11, BeginsIsPrefix
  <2> QED
    BY <1>5, <2>3, <2>12 DEF p, all
<1> QED
  BY <1>7, <1>8

(* However the encoding processes interleave, every rank trains on the     *)
(* batches that one process would have given it, in order, epoch after     *)
(* epoch, after those it skips.                                            *)
THEOREM BatchesInOrder == Spec => []DeliveredInOrder
<1>1. Feeding /\ Training => DeliveredInOrder
  <2> SUFFICES ASSUME Feeding, Training PROVE DeliveredInOrder
    OBVIOUS
  <2> SUFFICES ASSUME NEW r \in Ranks
               PROVE  LET share == Share(r, LonePacks(job), job.batchSize)
                          all   == FlattenSeq([e \in 1 .. Epochs |->
                                     SubSeq(share, (IF e = 1 THEN job.skip ELSE 0) + 1, Len(share))])
                      IN  /\ IsPrefix(got[r], all)
                          /\ phase[r] = "done" => got[r] = all
    BY DEF DeliveredInOrder
  <2>1. InEpochs(job, r, Epochs) =
          FlattenSeq([e \in 1 .. Epochs |->
            SubSeq(Share(r, LonePacks(job), job.batchSize),
                   (IF e = 1 THEN job.skip ELSE 0) + 1,
                   Len(Share(r, LonePacks(job), job.batchSize)))])
    BY DEF InEpochs, InEpoch, Skips, Part
  <2> QED
    BY <2>1, GotIs
<1> QED
  BY <1>1, FeedingInvariant, TrainingInvariant, PTL
=============================================================================
