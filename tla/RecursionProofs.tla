-------------------------- MODULE RecursionProofs --------------------------
(* Definitions that recurse over what they are made of: that they have a     *)
(* solution, and induction to find out what it is.                           *)
EXTENDS Integers, Sequences, SequencesExt, SequenceTheorems, WellFoundedInduction,
        TLAPS

(* Induction over the depth, and what is defined by recursion over it.       *)
LEMMA LeastExists ==
    ASSUME NEW S \in SUBSET Nat, S # {}
    PROVE  \E n \in S : \A m \in S : n <= m
<1> DEFINE R == OpToRel(<, Nat)
<1>1. IsWellFoundedOn(R, Nat)
  BY NatLessThanWellFounded
<1>2. PICK n \in S : \A m \in S : ~(<<m, n>> \in R)
  <2> HIDE DEF R
  <2> QED
    BY <1>1, WFMin
<1>3. ASSUME NEW m \in S PROVE n <= m
  <2>1. m \in Nat /\ n \in Nat
    OBVIOUS
  <2>2. ~(m < n)
    BY <1>2, <2>1 DEF OpToRel
  <2> QED
    BY <2>1, <2>2
<1> QED
  BY <1>3

LEMMA DepthInduction ==
    ASSUME NEW T, NEW D \in [T -> Nat], NEW S,
           \A x \in T : (\A y \in T : D[y] < D[x] => y \in S) => x \in S
    PROVE  \A x \in T : x \in S
<1> DEFINE Bad == {D[x] : x \in T \ S}
<1>1. SUFFICES ASSUME Bad # {} PROVE FALSE
  OBVIOUS
<1>2. Bad \in SUBSET Nat
  OBVIOUS
<1>3. PICK n \in Bad : \A m \in Bad : n <= m
  <2> HIDE DEF Bad
  <2> QED
    BY <1>1, <1>2, LeastExists
<1>4. PICK x \in T \ S : n = D[x]
  OBVIOUS
<1>5. \A y \in T : D[y] < D[x] => y \in S
  <2>1. SUFFICES ASSUME NEW y \in T, D[y] < D[x], y \notin S PROVE FALSE
    OBVIOUS
  <2>2. D[y] \in Bad
    BY <2>1
  <2>3. D[x] <= D[y] /\ D[x] \in Nat /\ D[y] \in Nat
    BY <1>3, <1>4, <2>2
  <2> QED
    BY <2>1, <2>3
<1> QED
  BY <1>4, <1>5

(* Induction over the numbers up to n.                                       *)
LEMMA UpToInduction ==
    ASSUME NEW n \in Nat, NEW S, 0 \in S, \A i \in 1..n : i - 1 \in S => i \in S
    PROVE  \A i \in 0..n : i \in S
<1> DEFINE
      T == 0..n
      D == [i \in T |-> i]
<1>1. ASSUME NEW i \in T, \A j \in T : D[j] < D[i] => j \in S PROVE i \in S
  <2>1. CASE i = 0
    BY <2>1
  <2>2. CASE i # 0
    <3>1. i \in 1..n /\ i - 1 \in T
      BY <2>2
    <3>2. D[i - 1] < D[i]
      BY <3>1
    <3> QED
      BY <1>1, <3>1, <3>2
  <2> QED
    BY <2>1, <2>2
<1>2. D \in [T -> Nat]
  OBVIOUS
<1> HIDE DEF D, T
<1>3. \A i \in T : i \in S
  BY <1>1, <1>2, DepthInduction
<1> QED
  BY <1>3 DEF T

(* A recursive definition over T whose body, F, looks only at what is less   *)
(* deep, and whose values are in V.  It has a solution.                      *)
Descends(T, D, U, V, F) ==
    /\ D \in [T -> Nat]
    /\ \A x \in T : V[x] # {} /\ V[x] \subseteq U
    /\ \A x \in T : \A g \in [T -> U] : (\A y \in T : g[y] \in V[y]) => F[x][g] \in V[x]
    /\ \A x \in T : \A g, h \in [T -> U] :
         (\A y \in T : D[y] < D[x] => g[y] = h[y]) => F[x][g] = F[x][h]

LEMMA Recursion ==
    ASSUME NEW T, NEW D, NEW U, NEW V, NEW F, Descends(T, D, U, V, F)
    PROVE  \E f \in [T -> U] : \A x \in T : f[x] \in V[x] /\ f[x] = F[x][f]
<1> USE DEF Descends
<1> DEFINE G == {g \in [T -> U] : \A x \in T : g[x] \in V[x]}
<1> DEFINE Good(n, g) == \A x \in T : D[x] < n => g[x] = F[x][g]
<1>0. /\ \A x \in T : \A g \in G : F[x][g] \in V[x]
      /\ \A x \in T : \A g, h \in G :
             (\A y \in T : D[y] < D[x] => g[y] = h[y]) => F[x][g] = F[x][h]
  OBVIOUS
<1>1. ASSUME NEW g, DOMAIN g = T, g = [x \in T |-> g[x]], \A x \in T : g[x] \in V[x]
      PROVE  g \in G
  <2>1. g \in [T -> U]
    BY <1>1
  <2> QED
    BY <1>1, <2>1
<1>a. \A g \in G : \A x \in T : g[x] \in V[x]
  OBVIOUS
<1> HIDE DEF G
<1>2. ASSUME NEW n \in Nat PROVE \E g \in G : Good(n, g)
  <2> DEFINE S == {m \in 0..n : \E g \in G : Good(m, g)}
  <2>1. 0 \in S
    <3> DEFINE g == [x \in T |-> CHOOSE v \in V[x] : TRUE]
    <3>1. \A x \in T : g[x] \in V[x]
      OBVIOUS
    <3>2. g \in G
      <4> HIDE DEF g
      <4>1. DOMAIN g = T /\ g = [x \in T |-> g[x]]
        BY DEF g
      <4> QED
        BY <1>1, <3>1, <4>1
    <3>3. Good(0, g)
      OBVIOUS
    <3> HIDE DEF Good, g
    <3> QED
      BY <3>2, <3>3
  <2>2. ASSUME NEW m \in 1..n, m - 1 \in S PROVE m \in S
    <3>1. PICK g \in G : Good(m - 1, g)
      BY <2>2
    <3> DEFINE h == [x \in T |-> F[x][g]]
    <3>2. h \in G
      <4>1. \A x \in T : h[x] \in V[x]
        BY <1>0
      <4>2. DOMAIN h = T /\ h = [x \in T |-> h[x]]
        OBVIOUS
      <4> HIDE DEF h
      <4> QED
        BY <1>1, <4>1, <4>2
    <3>3. ASSUME NEW x \in T, D[x] < m PROVE h[x] = F[x][h]
      <4>1. ASSUME NEW y \in T, D[y] < D[x] PROVE g[y] = h[y]
        <5>1. D[y] < m - 1
          BY <3>3, <4>1
        <5> QED
          BY <3>1, <5>1
      <4>2. F[x][g] = F[x][h]
        <5> HIDE DEF h
        <5> QED
          BY <1>0, <3>2, <4>1
      <4> QED
        BY <4>2
    <3>4. Good(m, h)
      BY <3>3
    <3>5. m \in 0..n
      BY <2>2
    <3> HIDE DEF Good, h
    <3> QED
      BY <3>2, <3>4, <3>5
  <2> HIDE DEF S
  <2>3. \A m \in 0..n : m \in S
    BY <2>1, <2>2, UpToInduction
  <2>4. n \in S
    BY <2>3
  <2> HIDE DEF Good
  <2> QED
    BY <2>4 DEF S
<1>3. ASSUME NEW m \in Nat, NEW n \in Nat, NEW g \in G, NEW h \in G, Good(m, g), Good(n, h)
      PROVE  \A x \in T : D[x] < m /\ D[x] < n => g[x] = h[x]
  <2> DEFINE S == {x \in T : D[x] < m /\ D[x] < n => g[x] = h[x]}
  <2>1. ASSUME NEW x \in T, \A y \in T : D[y] < D[x] => y \in S PROVE x \in S
    <3>1. SUFFICES ASSUME D[x] < m, D[x] < n PROVE g[x] = h[x]
      OBVIOUS
    <3>2. \A y \in T : D[y] < D[x] => D[y] < m /\ D[y] < n
      <4>1. \A y \in T : D[y] \in Nat
        OBVIOUS
      <4> QED
        BY ONLY <3>1, <4>1, m \in Nat, n \in Nat, x \in T
    <3>3. F[x][g] = F[x][h]
      BY <1>0, <2>1, <3>2
    <3> QED
      BY <1>3, <3>1, <3>3
  <2> HIDE DEF S
  <2>2. \A x \in T : x \in S
    BY <2>1, DepthInduction
  <2> QED
    BY <2>2 DEF S
<1> DEFINE
      best(x) == CHOOSE g \in G : Good(D[x] + 1, g)
      f == [x \in T |-> best(x)[x]]
<1>4. ASSUME NEW x \in T PROVE best(x) \in G /\ Good(D[x] + 1, best(x))
  <2>1. D[x] + 1 \in Nat
    OBVIOUS
  <2> HIDE DEF Good
  <2>2. \E g \in G : Good(D[x] + 1, g)
    BY <1>2, <2>1
  <2> QED
    BY <2>2
<1> HIDE DEF best
<1>5. f \in G
  <2>1. \A x \in T : f[x] \in V[x]
    BY <1>4, <1>a
  <2>2. DOMAIN f = T /\ f = [x \in T |-> f[x]]
    OBVIOUS
  <2> HIDE DEF f
  <2> QED
    BY <1>1, <2>1, <2>2
<1>6. ASSUME NEW x \in T PROVE f[x] = F[x][f]
  <2>1. best(x)[x] = F[x][best(x)]
    <3>1. D[x] < D[x] + 1
      OBVIOUS
    <3> QED
      BY <1>4, <3>1
  <2>2. ASSUME NEW y \in T, D[y] < D[x] PROVE best(x)[y] = f[y]
    <3>1. D[x] + 1 \in Nat /\ D[y] + 1 \in Nat /\ D[y] < D[x] + 1 /\ D[y] < D[y] + 1
      BY <2>2
    <3>2. /\ best(x) \in G /\ Good(D[x] + 1, best(x))
          /\ best(y) \in G /\ Good(D[y] + 1, best(y))
      BY <1>4
    <3> HIDE DEF Good
    <3>3. \A z \in T : D[z] < D[x] + 1 /\ D[z] < D[y] + 1 => best(x)[z] = best(y)[z]
      BY ONLY <1>3, <3>1, <3>2
    <3>4. best(x)[y] = best(y)[y]
      BY <3>1, <3>3
    <3> QED
      BY <3>4
  <2>3. F[x][best(x)] = F[x][f]
    <3> HIDE DEF f
    <3> QED
      BY <1>0, <1>4, <1>5, <2>2
  <2> QED
    BY <2>1, <2>3
<1> HIDE DEF f
<1>7. f \in [T -> U] /\ \A x \in T : f[x] \in V[x]
  BY <1>5 DEF G
<1> QED
  BY <1>6, <1>7

(* The usual case: each value from the one before.                           *)
Steps(n, V, base, Step) ==
    n \in Nat /\ base \in V /\ \A i \in 1..n : \A v \in V : Step[i][v] \in V

LEMMA UpToRecursion ==
    ASSUME NEW n, NEW V, NEW base, NEW Step, Steps(n, V, base, Step)
    PROVE  \E f \in [0..n -> V] : f[0] = base /\ \A i \in 1..n : f[i] = Step[i][f[i - 1]]
<1>0. n \in Nat /\ base \in V /\ \A i \in 1..n : \A v \in V : Step[i][v] \in V
  BY DEF Steps
<1> DEFINE
      T == 0..n
      D == [i \in T |-> i]
      W == [i \in T |-> V]
      F == [i \in T |-> [g \in [T -> V] |-> IF i = 0 THEN base ELSE Step[i][g[i - 1]]]]
<1>1. \A i \in T : i # 0 => i \in 1..n /\ i - 1 \in T /\ D[i - 1] < D[i]
  <2>1. \A i \in T : i # 0 => i \in 1..n /\ i - 1 \in T
    BY <1>0
  <2>2. \A i \in T : D[i] = i
    OBVIOUS
  <2> HIDE DEF D
  <2> QED
    BY <2>1, <2>2
<1>2. D \in [T -> Nat] /\ \A i \in T : W[i] = V
  BY <1>0
<1>3. \A i \in T : \A g \in [T -> V] : F[i][g] = IF i = 0 THEN base ELSE Step[i][g[i - 1]]
  OBVIOUS
<1> HIDE DEF D, W, F
<1>4. ASSUME NEW i \in T, NEW g \in [T -> V] PROVE F[i][g] \in W[i]
  <2> HIDE DEF T
  <2> QED
    BY <1>0, <1>1, <1>2, <1>3, <1>4
<1>5. ASSUME NEW i \in T, NEW g \in [T -> V], NEW h \in [T -> V],
             \A j \in T : D[j] < D[i] => g[j] = h[j]
      PROVE  F[i][g] = F[i][h]
  <2> HIDE DEF T
  <2> QED
    BY <1>1, <1>3, <1>5
<1>6. PICK f \in [T -> V] : \A i \in T : f[i] \in W[i] /\ f[i] = F[i][f]
  <2> HIDE DEF T
  <2>1. \A i \in T : W[i] # {} /\ W[i] \subseteq V
    BY <1>0, <1>2
  <2>2. \A i \in T : \A g \in [T -> V] : (\A j \in T : g[j] \in W[j]) => F[i][g] \in W[i]
    BY <1>4
  <2>3. \A i \in T : \A g, h \in [T -> V] :
            (\A j \in T : D[j] < D[i] => g[j] = h[j]) => F[i][g] = F[i][h]
    BY <1>5
  <2>4. D \in [T -> Nat]
    BY <1>2
  <2> QED
    <3>1. Descends(T, D, V, W, F)
      BY ONLY <2>1, <2>2, <2>3, <2>4 DEF Descends
    <3> QED
      BY ONLY <3>1, Recursion
<1>7. 0 \in T /\ \A i \in 1..n : i \in T /\ i # 0
  BY <1>0
<1>8. f[0] = base /\ \A i \in 1..n : f[i] = Step[i][f[i - 1]]
  BY <1>3, <1>6, <1>7
<1> QED
  BY <1>6, <1>8

(* A sequence of sequences, one after the other.                             *)
LEMMA FlattenIs ==
    ASSUME NEW S, NEW t \in Seq(Seq(S)), NEW f \in [0..Len(t) -> Seq(S)], f[0] = <<>>,
           \A i \in 1..Len(t) : f[i] = f[i - 1] \o t[i]
    PROVE  FlattenSeq(t) = f[Len(t)]
<1>1. CASE t = <<>>
  BY <1>1 DEF FlattenSeq
<1>2. CASE t # <<>>
  <2> DEFINE
        n == Len(t)
        Eq(g) == g = [i \in 1..n |-> IF i = 1 THEN t[i] ELSE g[i - 1] \o t[i]]
        g0 == [i \in 1..n |-> f[i]]
  <2>1. n \in Nat /\ n # 0 /\ 1 \in 1..n /\ n \in 1..n
    BY <1>2
  <2>2. f[1] = t[1]
    <3>1. t[1] \in Seq(S)
      BY <2>1, ElementOfSeq
    <3>2. f[1] = f[1 - 1] \o t[1]
      BY <2>1
    <3>3. f[1] = <<>> \o t[1]
      BY <3>2
    <3> QED
      BY <3>1, <3>3, ConcatEmptySeq
  <2>3. Eq(g0)
    <3>1. ASSUME NEW i \in 1..n PROVE g0[i] = IF i = 1 THEN t[i] ELSE g0[i - 1] \o t[i]
      <4>1. CASE i = 1
        BY <2>2, <4>1
      <4>2. CASE i # 1
        <5>1. i - 1 \in 1..n
          BY <4>2
        <5> QED
          BY <4>2, <5>1
      <4> QED
        BY <4>1, <4>2
    <3>2. DOMAIN g0 = 1..n /\ g0 = [i \in 1..n |-> g0[i]]
      OBVIOUS
    <3> HIDE DEF g0
    <3> QED
      BY <3>1, <3>2
  <2> DEFINE g == CHOOSE h : Eq(h)
  <2>4. Eq(g)
    <3> HIDE DEF Eq, g0
    <3> QED
      BY <2>3 DEF g
  <2>5. FlattenSeq(t) = g[n]
    BY <2>1 DEF FlattenSeq
  <2> HIDE DEF g
  <2> DEFINE Right == {i \in 0..n : i # 0 => g[i] = f[i]}
  <2>6. 0 \in Right
    BY <2>1
  <2>7. ASSUME NEW i \in 1..n, i - 1 \in Right PROVE i \in Right
    <3>1. g[i] = IF i = 1 THEN t[i] ELSE g[i - 1] \o t[i]
      BY <2>4
    <3>2. i # 1 => g[i - 1] = f[i - 1]
      BY <2>7
    <3>3. f[i] = f[i - 1] \o t[i]
      OBVIOUS
    <3>4. g[i] = f[i]
      BY <2>2, <3>1, <3>2, <3>3
    <3> QED
      BY <3>4
  <2>8. \A i \in 0..n : i \in Right
    <3> HIDE DEF Right, n
    <3> QED
      BY <2>1, <2>6, <2>7, UpToInduction
  <2> QED
    BY <2>1, <2>5, <2>8
<1> QED
  BY <1>1, <1>2

(* f[i] is the first i of them.                                              *)
PrefixesAre(S, t, f) ==
    /\ t \in Seq(Seq(S)) /\ f \in [0..Len(t) -> Seq(S)]
    /\ f[0] = <<>> /\ \A i \in 1..Len(t) : f[i] = f[i - 1] \o t[i]
    /\ FlattenSeq(t) = f[Len(t)]
    /\ \A n \in 0..Len(t) : FlattenSeq(SubSeq(t, 1, n)) = f[n]

LEMMA FlattenPrefixes ==
    ASSUME NEW S, NEW t \in Seq(Seq(S))
    PROVE  \E f : PrefixesAre(S, t, f)
<1> DEFINE Step == [i \in 1..Len(t) |-> [s \in Seq(S) |-> s \o t[i]]]
<1>1. Len(t) \in Nat /\ <<>> \in Seq(S) /\ \A i \in 1..Len(t) : t[i] \in Seq(S)
  OBVIOUS
<1>2. \A i \in 1..Len(t) : \A s \in Seq(S) : Step[i][s] = s \o t[i] /\ Step[i][s] \in Seq(S)
  BY <1>1, ConcatProperties
<1>3. PICK f \in [0..Len(t) -> Seq(S)] :
          f[0] = <<>> /\ \A i \in 1..Len(t) : f[i] = Step[i][f[i - 1]]
  <2> HIDE DEF Step
  <2>1. \A i \in 1..Len(t) : \A s \in Seq(S) : Step[i][s] \in Seq(S)
    BY <1>2
  <2>2. Len(t) \in Nat /\ <<>> \in Seq(S)
    BY <1>1
  <2>3. Steps(Len(t), Seq(S), <<>>, Step)
    BY <2>1, <2>2 DEF Steps
  <2> QED
    BY ONLY <2>3, UpToRecursion
<1>4. f[0] = <<>>
  BY <1>3
<1>5. ASSUME NEW i \in 1..Len(t) PROVE f[i] = f[i - 1] \o t[i]
  <2>1. i - 1 \in 0..Len(t)
    BY <1>1
  <2>2. f[i - 1] \in Seq(S)
    BY <2>1
  <2> HIDE DEF Step
  <2> QED
    BY <1>2, <1>3, <2>2
<1>6. FlattenSeq(t) = f[Len(t)]
  BY <1>4, <1>5, FlattenIs
<1>7. ASSUME NEW n \in 0..Len(t) PROVE FlattenSeq(SubSeq(t, 1, n)) = f[n]
  <2> DEFINE
        u == SubSeq(t, 1, n)
        h == [i \in 0..n |-> f[i]]
  <2>1. n \in Nat /\ \A i \in 1..n : i \in 1..Len(t)
    BY <1>1
  <2>2. u \in Seq(Seq(S)) /\ Len(u) = n /\ \A i \in 1..n : u[i] = t[i]
    <3>1. \A i \in 1..n : t[i] \in Seq(S)
      BY <1>1, <2>1
    <3>2. /\ u \in Seq(Seq(S)) /\ Len(u) = IF 1 <= n THEN n - 1 + 1 ELSE 0
          /\ \A i \in 1..n - 1 + 1 : u[i] = t[1 + i - 1]
      BY ONLY <2>1, <3>1, SubSeqProperties, 1 \in Int, n \in Int
    <3> HIDE DEF u
    <3> QED
      BY <2>1, <3>2
  <2>3. h \in [0..n -> Seq(S)] /\ h[0] = <<>> /\ h[n] = f[n]
    <3>1. 0 \in 0..n /\ n \in 0..n /\ \A i \in 0..n : i \in 0..Len(t)
      BY <1>1, <2>1
    <3> QED
      BY <1>4, <3>1
  <2>4. ASSUME NEW i \in 1..n PROVE h[i] = h[i - 1] \o u[i]
    <3>1. i \in 0..n /\ i - 1 \in 0..n
      BY <2>1
    <3> QED
      BY <1>5, <2>1, <2>2, <3>1
  <2> HIDE DEF u, h
  <2> QED
    BY <2>2, <2>3, <2>4, FlattenIs DEF u
<1>8. PrefixesAre(S, t, f)
  BY <1>4, <1>5, <1>6, <1>7 DEF PrefixesAre
<1> QED
  BY <1>8

LEMMA FlattenType ==
    ASSUME NEW S, NEW t \in Seq(Seq(S))
    PROVE  FlattenSeq(t) \in Seq(S)
<1>1. PICK f : f \in [0..Len(t) -> Seq(S)] /\ FlattenSeq(t) = f[Len(t)]
  BY FlattenPrefixes DEF PrefixesAre
<1>2. Len(t) \in 0..Len(t)
  OBVIOUS
<1> QED
  BY <1>1, <1>2

LEMMA FlattenOne ==
    ASSUME NEW S, NEW t \in Seq(Seq(S)), Len(t) = 1
    PROVE  FlattenSeq(t) = t[1]
<1>1. PICK f : PrefixesAre(S, t, f)
  BY FlattenPrefixes
<1>2. f[0] = <<>> /\ f[1] = f[1 - 1] \o t[1] /\ FlattenSeq(t) = f[1]
  <2>1. 1 \in 1..Len(t)
    OBVIOUS
  <2> QED
    BY <1>1, <2>1 DEF PrefixesAre
<1>3. t[1] \in Seq(S)
  OBVIOUS
<1>4. f[1] = <<>> \o t[1]
  <2>1. 1 - 1 = 0
    OBVIOUS
  <2> QED
    BY <1>2, <2>1
<1> QED
  BY <1>2, <1>3, <1>4, ConcatEmptySeq
=============================================================================
