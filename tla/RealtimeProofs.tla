---------------------------- MODULE RealtimeProofs ----------------------------
(* Realtime mode for every chain, batch size, channel and set of faults:     *)
(* what the signature checkpoint can be trusted for, and the order in which  *)
(* signatures reach the database.                                            *)
EXTENDS RealtimeProperties, ProcessorProofs

LEMMA ChainFacts ==
    /\ MaxSlot \in Nat /\ Chain \in Seq(Sig)
    /\ Len(Chain) \in Nat /\ DOMAIN Chain = 1..Len(Chain)
    /\ \A i \in 1..Len(Chain) : Chain[i] \in Sig
    /\ \A n \in 0..MaxSlot : UpTo[n] \in 0..Len(Chain)
<1>1. Chain \in Seq(Sig) /\ MaxSlot \in Nat /\ UpTo \in [0..MaxSlot -> 0..Len(Chain)]
  BY LedgerIsConsistent DEF LedgerAssumption
<1>2. Len(Chain) \in Nat /\ Chain \in [1..Len(Chain) -> Sig] /\ DOMAIN Chain = 1..Len(Chain)
  BY <1>1, LenProperties
<1> QED BY <1>1, <1>2

(* Pos is the inverse of Chain.                                              *)
LEMMA PosFacts ==
    /\ \A s \in Sig : Pos(s) \in 1..Len(Chain) /\ Chain[Pos(s)] = s
    /\ \A i \in 1..Len(Chain) : Pos(Chain[i]) = i
<1>1. ASSUME NEW s \in Sig PROVE Pos(s) \in DOMAIN Chain /\ Chain[Pos(s)] = s
  <2>1. \E i \in DOMAIN Chain : Chain[i] = s
    BY LedgerIsConsistent DEF LedgerAssumption
  <2> QED BY <2>1 DEF Pos
<1>2. ASSUME NEW i \in 1..Len(Chain) PROVE Pos(Chain[i]) = i
  <2>1. Pos(Chain[i]) \in DOMAIN Chain /\ Chain[Pos(Chain[i])] = Chain[i]
    BY <1>1, ChainFacts
  <2>2. \A j, k \in DOMAIN Chain : Chain[j] = Chain[k] => j = k
    BY LedgerIsConsistent DEF LedgerAssumption
  <2> QED BY <2>1, <2>2, ChainFacts
<1> QED BY <1>1, <1>2, ChainFacts

(* The confirmed transactions are the first UpTo[now] of the chain.          *)
LEMMA OnChainFacts ==
    ASSUME now \in 0..MaxSlot, NEW s \in Sig
    PROVE  OnChain(s) <=> Pos(s) <= UpTo[now]
<1> DEFINE n == SlotOf[s]
           i == Pos(s)
<1>1. /\ n \in 1..MaxSlot /\ n \in 0..MaxSlot /\ n - 1 \in 0..MaxSlot /\ MaxSlot \in Nat
      /\ i \in 1..Len(Chain) /\ Chain[i] = s /\ Len(Chain) \in Nat
  <2>1. SlotOf \in [Sig -> 1..MaxSlot] /\ MaxSlot \in Nat
    BY LedgerIsConsistent DEF LedgerAssumption, Slot
  <2> QED BY <2>1, PosFacts, ChainFacts
<1>2. UpTo[n - 1] < i /\ i <= UpTo[n]
  <2>1. \A m \in Slot, k \in DOMAIN Chain :
            SlotOf[Chain[k]] = m <=> UpTo[m - 1] < k /\ k <= UpTo[m]
    BY LedgerIsConsistent DEF LedgerAssumption
  <2> QED BY <1>1, <2>1, ChainFacts DEF Slot
<1>3. UpTo[n] \in Nat /\ UpTo[n - 1] \in Nat /\ UpTo[now] \in Nat
  BY <1>1, ChainFacts
<1>4. \A m, k \in 0..MaxSlot : m <= k => UpTo[m] <= UpTo[k]
  BY LedgerIsConsistent DEF LedgerAssumption
<1>5. CASE n <= now
  <2>1. UpTo[n] <= UpTo[now]
    BY <1>1, <1>4, <1>5
  <2> HIDE DEF n, i
  <2>2. i <= UpTo[now]
    BY <1>1, <1>2, <1>3, <2>1
  <2> QED BY <1>5, <2>2 DEF OnChain, n, i
<1>6. CASE ~(n <= now)
  <2>1. now <= n - 1
    BY <1>1, <1>6
  <2>2. UpTo[now] <= UpTo[n - 1]
    BY <1>1, <1>4, <2>1
  <2> HIDE DEF n, i
  <2>3. ~(i <= UpTo[now])
    BY <1>1, <1>2, <1>3, <2>2
  <2> QED BY <1>6, <2>3 DEF OnChain, n, i
<1> QED BY <1>5, <1>6

(* A stretch of the chain is in order and holds what lies between its ends.  *)
LEMMA Segment ==
    ASSUME NEW lo \in 0..Len(Chain), NEW hi \in 0..Len(Chain)
    PROVE  LET seg == SubSeq(Chain, lo + 1, hi)
           IN  /\ seg \in Seq(Sig) /\ Ordered(seg)
               /\ Range(seg) = {s \in Sig : lo < Pos(s) /\ Pos(s) <= hi}
<1> DEFINE seg == SubSeq(Chain, lo + 1, hi)
<1>1. lo \in Int /\ lo + 1 \in Int /\ hi \in Int /\ Len(Chain) \in Nat
  BY ChainFacts
<1>2. \A i \in (lo + 1)..hi : i \in 1..Len(Chain) /\ Chain[i] \in Sig
  BY ChainFacts
<1>3. /\ seg \in Seq(Sig)
      /\ Len(seg) = IF lo + 1 <= hi THEN hi - (lo + 1) + 1 ELSE 0
      /\ \A i \in 1..(hi - (lo + 1) + 1) : seg[i] = Chain[lo + 1 + i - 1]
  BY <1>1, <1>2, SubSeqProperties
<1>4. DOMAIN seg = 1..Len(seg)
  BY <1>3, LenProperties
<1> HIDE DEF seg
<1>5. ASSUME NEW i \in DOMAIN seg
      PROVE  lo + i \in 1..Len(Chain) /\ lo + i <= hi /\ lo < lo + i /\ seg[i] = Chain[lo + i]
  <2>0. i \in Nat \ {0} /\ i <= hi - (lo + 1) + 1
    BY <1>1, <1>3, <1>4
  <2>1. i \in 1..(hi - (lo + 1) + 1) /\ lo + 1 + i - 1 = lo + i
    BY <1>1, <2>0
  <2> QED BY <1>1, <1>2, <1>3, <2>1
<1>6. \A i \in DOMAIN seg : seg[i] \in Sig /\ Pos(seg[i]) = lo + i
  BY <1>5, PosFacts, ChainFacts
<1>7. Ordered(seg)
  BY <1>1, <1>4, <1>6 DEF Ordered
<1>8. ASSUME NEW s \in Range(seg) PROVE s \in Sig /\ lo < Pos(s) /\ Pos(s) <= hi
  <2>1. PICK i \in DOMAIN seg : s = seg[i]
    BY DEF Range
  <2> QED BY <2>1, <1>5, <1>6
<1>9. ASSUME NEW s \in Sig, lo < Pos(s), Pos(s) <= hi PROVE s \in Range(seg)
  <2>1. Pos(s) \in 1..Len(Chain) /\ Chain[Pos(s)] = s
    BY PosFacts
  <2>2. Pos(s) - lo \in 1..Len(seg) /\ lo + (Pos(s) - lo) = Pos(s)
    BY <1>1, <1>3, <1>9, <2>1
  <2>3. seg[Pos(s) - lo] = s
    BY <1>4, <1>5, <2>1, <2>2
  <2> QED BY <1>4, <2>2, <2>3 DEF Range
<1>10. Range(seg) = {s \in Sig : lo < Pos(s) /\ Pos(s) <= hi}
  BY <1>8, <1>9
<1> QED BY <1>3, <1>7, <1>10 DEF seg
-----------------------------------------------------------------------------
(* Lists in ledger order.                                                    *)
LEMMA RangeConcat ==
    ASSUME NEW p \in Seq(Sig), NEW q \in Seq(Sig)
    PROVE  p \o q \in Seq(Sig) /\ Range(p \o q) = Range(p) \cup Range(q)
<1>1. /\ p \o q \in Seq(Sig) /\ Len(p \o q) = Len(p) + Len(q)
      /\ \A i \in 1..(Len(p) + Len(q)) :
            (p \o q)[i] = IF i <= Len(p) THEN p[i] ELSE q[i - Len(p)]
  BY ConcatProperties
<1>2. /\ DOMAIN p = 1..Len(p) /\ DOMAIN q = 1..Len(q) /\ Len(p) \in Nat /\ Len(q) \in Nat
      /\ DOMAIN (p \o q) = 1..(Len(p) + Len(q))
  BY <1>1, LenProperties
<1>3. ASSUME NEW x \in Range(p \o q) PROVE x \in Range(p) \cup Range(q)
  <2>1. PICK i \in 1..(Len(p) + Len(q)) : x = (p \o q)[i]
    BY <1>2 DEF Range
  <2>2. \/ i \in DOMAIN p /\ x = p[i]
        \/ i - Len(p) \in DOMAIN q /\ x = q[i - Len(p)]
    BY <1>1, <1>2, <2>1
  <2> QED BY <2>2 DEF Range
<1>4. ASSUME NEW x \in Range(p) PROVE x \in Range(p \o q)
  <2>1. PICK i \in 1..Len(p) : x = p[i]
    BY <1>2 DEF Range
  <2>2. i \in 1..(Len(p) + Len(q)) /\ (p \o q)[i] = x
    BY <1>1, <1>2, <2>1
  <2> QED BY <1>2, <2>2 DEF Range
<1>5. ASSUME NEW x \in Range(q) PROVE x \in Range(p \o q)
  <2>1. PICK i \in 1..Len(q) : x = q[i]
    BY <1>2 DEF Range
  <2>2. Len(p) + i \in 1..(Len(p) + Len(q)) /\ (p \o q)[Len(p) + i] = x
    BY <1>1, <1>2, <2>1
  <2> QED BY <1>2, <2>2 DEF Range
<1> QED BY <1>1, <1>3, <1>4, <1>5

LEMMA OrderedConcat ==
    ASSUME NEW p \in Seq(Sig), NEW q \in Seq(Sig)
    PROVE  Ordered(p \o q) <=>
             /\ Ordered(p) /\ Ordered(q)
             /\ \A x \in Range(p), y \in Range(q) : Pos(x) < Pos(y)
<1>1. /\ p \o q \in Seq(Sig)
      /\ \A i \in 1..(Len(p) + Len(q)) :
            (p \o q)[i] = IF i <= Len(p) THEN p[i] ELSE q[i - Len(p)]
  BY ConcatProperties
<1>2. /\ DOMAIN p = 1..Len(p) /\ DOMAIN q = 1..Len(q) /\ Len(p) \in Nat /\ Len(q) \in Nat
      /\ DOMAIN (p \o q) = 1..(Len(p) + Len(q))
  BY <1>1, LenProperties, ConcatProperties
<1>3. /\ \A i \in DOMAIN p : i \in DOMAIN (p \o q) /\ (p \o q)[i] = p[i]
      /\ \A i \in DOMAIN q : Len(p) + i \in DOMAIN (p \o q) /\ (p \o q)[Len(p) + i] = q[i]
  BY <1>1, <1>2
<1>4. ASSUME Ordered(p \o q)
      PROVE  /\ Ordered(p) /\ Ordered(q)
             /\ \A x \in Range(p), y \in Range(q) : Pos(x) < Pos(y)
  <2>1. Ordered(p)
    BY <1>3, <1>4 DEF Ordered
  <2>2. \A i, j \in DOMAIN q : i < j => Len(p) + i < Len(p) + j
    BY <1>2
  <2>3. Ordered(q)
    BY <1>3, <1>4, <2>2 DEF Ordered
  <2>4. \A i \in DOMAIN p, j \in DOMAIN q : i < Len(p) + j
    BY <1>2
  <2>5. \A x \in Range(p), y \in Range(q) : Pos(x) < Pos(y)
    BY <1>3, <1>4, <2>4 DEF Ordered, Range
  <2> QED BY <2>1, <2>3, <2>5
<1>5. ASSUME Ordered(p), Ordered(q), \A x \in Range(p), y \in Range(q) : Pos(x) < Pos(y)
      PROVE  Ordered(p \o q)
  <2> SUFFICES ASSUME NEW i \in DOMAIN (p \o q), NEW j \in DOMAIN (p \o q), i < j
               PROVE  Pos((p \o q)[i]) < Pos((p \o q)[j])
    BY DEF Ordered
  <2>1. CASE j <= Len(p)
    BY <1>1, <1>2, <1>5, <2>1 DEF Ordered
  <2>2. CASE i > Len(p)
    <3>1. i - Len(p) \in DOMAIN q /\ j - Len(p) \in DOMAIN q /\ i - Len(p) < j - Len(p)
      BY <1>2, <2>2
    <3>2. (p \o q)[i] = q[i - Len(p)] /\ (p \o q)[j] = q[j - Len(p)]
      BY <1>1, <1>2, <2>2
    <3> QED BY <1>5, <3>1, <3>2 DEF Ordered
  <2>3. CASE i <= Len(p) /\ j > Len(p)
    <3>1. i \in DOMAIN p /\ j - Len(p) \in DOMAIN q
      BY <1>2, <2>3
    <3>2. (p \o q)[i] = p[i] /\ (p \o q)[j] = q[j - Len(p)]
      BY <1>1, <1>2, <2>3
    <3> QED BY <1>5, <3>1, <3>2 DEF Range
  <2> QED BY <1>2, <2>1, <2>2, <2>3
<1> QED BY <1>4, <1>5

(* Taking the first element of a list in order.                              *)
LEMMA OrderedTail ==
    ASSUME NEW q \in Seq(Sig), q # <<>>, Ordered(q)
    PROVE  /\ Ordered(Tail(q))
           /\ \A x \in Range(Tail(q)) : Pos(Head(q)) < Pos(x)
<1>1. /\ Tail(q) \in Seq(Sig) /\ Len(q) \in Nat \ {0} /\ Len(Tail(q)) = Len(q) - 1
      /\ Head(q) = q[1] /\ \A i \in 1..(Len(q) - 1) : Tail(q)[i] = q[i + 1]
  BY TakeFirst
<1>2. DOMAIN q = 1..Len(q) /\ DOMAIN Tail(q) = 1..(Len(q) - 1)
  BY <1>1, LenProperties
<1>3. \A i \in DOMAIN Tail(q) : i + 1 \in DOMAIN q /\ 1 \in DOMAIN q /\ 1 < i + 1
  BY <1>1, <1>2
<1>4. \A i, j \in DOMAIN Tail(q) : i < j => i + 1 < j + 1
  BY <1>2
<1>5. Ordered(Tail(q))
  BY <1>1, <1>2, <1>3, <1>4 DEF Ordered
<1>6. \A x \in Range(Tail(q)) : Pos(Head(q)) < Pos(x)
  BY <1>1, <1>2, <1>3 DEF Ordered, Range
<1> QED BY <1>5, <1>6

(* Passing the head of one list to the end of the list before it.            *)
LEMMA PassOn ==
    ASSUME NEW p \in Seq(Sig), NEW q \in Seq(Sig), q # <<>>
    PROVE  /\ Append(p, Head(q)) \in Seq(Sig) /\ Tail(q) \in Seq(Sig)
           /\ Append(p, Head(q)) \o Tail(q) = p \o q
<1>1. /\ Tail(q) \in Seq(Sig) /\ Len(q) \in Nat \ {0} /\ Len(Tail(q)) = Len(q) - 1
      /\ Head(q) = q[1] /\ Head(q) \in Sig
      /\ \A i \in 1..(Len(q) - 1) : Tail(q)[i] = q[i + 1]
  BY TakeFirst
<1> DEFINE a == Append(p, Head(q))
<1>2. /\ a \in Seq(Sig) /\ Len(a) = Len(p) + 1 /\ Len(p) \in Nat
      /\ \A i \in 1..Len(p) : a[i] = p[i]
      /\ a[Len(p) + 1] = Head(q)
  BY <1>1, AppendProperties, LenProperties
<1> HIDE DEF a
<1>3. /\ a \o Tail(q) \in Seq(Sig) /\ p \o q \in Seq(Sig)
      /\ Len(a \o Tail(q)) = Len(p) + Len(q) /\ Len(p \o q) = Len(p) + Len(q)
      /\ \A i \in 1..(Len(p) + Len(q)) :
           /\ (p \o q)[i] = IF i <= Len(p) THEN p[i] ELSE q[i - Len(p)]
           /\ (a \o Tail(q))[i] = IF i <= Len(p) + 1 THEN a[i] ELSE Tail(q)[i - (Len(p) + 1)]
  <2>1. /\ a \o Tail(q) \in Seq(Sig)
        /\ Len(a \o Tail(q)) = Len(a) + Len(Tail(q))
        /\ \A i \in 1..(Len(a) + Len(Tail(q))) :
             (a \o Tail(q))[i] = IF i <= Len(a) THEN a[i] ELSE Tail(q)[i - Len(a)]
    BY <1>1, <1>2, ConcatProperties
  <2>2. Len(a) + Len(Tail(q)) = Len(p) + Len(q)
    BY <1>1, <1>2
  <2>3. /\ p \o q \in Seq(Sig) /\ Len(p \o q) = Len(p) + Len(q)
        /\ \A i \in 1..(Len(p) + Len(q)) :
             (p \o q)[i] = IF i <= Len(p) THEN p[i] ELSE q[i - Len(p)]
    BY ConcatProperties
  <2> QED BY <1>2, <2>1, <2>2, <2>3
<1>4. ASSUME NEW i \in 1..(Len(p) + Len(q)) PROVE (a \o Tail(q))[i] = (p \o q)[i]
  <2>1. CASE i <= Len(p)
    BY <1>1, <1>2, <1>3, <2>1
  <2>2. CASE i = Len(p) + 1
    BY <1>1, <1>2, <1>3, <2>2
  <2>3. CASE i > Len(p) + 1
    <3>1. /\ i - (Len(p) + 1) \in 1..(Len(q) - 1)
          /\ i - (Len(p) + 1) + 1 = i - Len(p)
      BY <1>1, <1>2, <2>3
    <3> QED BY <1>1, <1>2, <1>3, <2>3, <3>1
  <2> QED BY <1>1, <1>2, <2>1, <2>2, <2>3
<1>5. a \o Tail(q) = p \o q
  BY <1>3, <1>4, SeqEqual
<1> QED BY <1>1, <1>2, <1>5 DEF a

LEMMA Assoc ==
    ASSUME NEW p \in Seq(Sig), NEW q \in Seq(Sig), NEW r \in Seq(Sig)
    PROVE  (p \o q) \o r = p \o (q \o r)
<1> DEFINE a == (p \o q) \o r
           b == p \o (q \o r)
<1>1. Len(p) \in Nat /\ Len(q) \in Nat /\ Len(r) \in Nat
  BY LenProperties
<1>2. /\ p \o q \in Seq(Sig) /\ Len(p \o q) = Len(p) + Len(q)
      /\ \A i \in 1..(Len(p) + Len(q)) :
            (p \o q)[i] = IF i <= Len(p) THEN p[i] ELSE q[i - Len(p)]
  BY ConcatProperties
<1>3. /\ q \o r \in Seq(Sig) /\ Len(q \o r) = Len(q) + Len(r)
      /\ \A i \in 1..(Len(q) + Len(r)) :
            (q \o r)[i] = IF i <= Len(q) THEN q[i] ELSE r[i - Len(q)]
  BY ConcatProperties
<1>4. /\ a \in Seq(Sig) /\ Len(a) = Len(p \o q) + Len(r)
      /\ \A i \in 1..(Len(p \o q) + Len(r)) :
            a[i] = IF i <= Len(p \o q) THEN (p \o q)[i] ELSE r[i - Len(p \o q)]
  BY <1>2, ConcatProperties
<1>5. /\ b \in Seq(Sig) /\ Len(b) = Len(p) + Len(q \o r)
      /\ \A i \in 1..(Len(p) + Len(q \o r)) :
            b[i] = IF i <= Len(p) THEN p[i] ELSE (q \o r)[i - Len(p)]
  BY <1>3, ConcatProperties
<1> HIDE DEF a, b
<1>6. Len(a) = Len(p) + Len(q) + Len(r) /\ Len(b) = Len(a)
  BY <1>1, <1>2, <1>3, <1>4, <1>5
<1>7. ASSUME NEW i \in 1..Len(a) PROVE a[i] = b[i]
  <2>1. CASE i <= Len(p)
    BY <1>1, <1>2, <1>3, <1>4, <1>5, <1>6, <2>1
  <2>2. CASE Len(p) < i /\ i <= Len(p) + Len(q)
    <3>1. /\ i - Len(p) \in 1..(Len(q) + Len(r)) /\ i - Len(p) <= Len(q)
          /\ i \in 1..(Len(p) + Len(q))
      BY <1>1, <1>6, <2>2
    <3> QED BY <1>1, <1>2, <1>3, <1>4, <1>5, <1>6, <2>2, <3>1
  <2>3. CASE Len(p) + Len(q) < i
    <3>1. /\ i - Len(p) \in 1..(Len(q) + Len(r)) /\ ~(i - Len(p) <= Len(q))
          /\ i - Len(p) - Len(q) = i - (Len(p) + Len(q)) /\ ~(i <= Len(p))
      BY <1>1, <1>6, <2>3
    <3>2. a[i] = r[i - (Len(p) + Len(q))]
      BY <1>1, <1>2, <1>4, <1>6, <2>3
    <3>3. b[i] = r[i - Len(p) - Len(q)]
      BY <1>1, <1>3, <1>5, <1>6, <3>1
    <3> QED BY <3>1, <3>2, <3>3
  <2> QED BY <1>1, <1>6, <2>1, <2>2, <2>3
<1>8. a = b
  BY <1>4, <1>5, <1>6, <1>7, SeqEqual
<1> QED BY <1>8 DEF a, b

LEMMA PassOnBehind ==
    ASSUME NEW o \in Seq(Sig), NEW p \in Seq(Sig), NEW q \in Seq(Sig), q # <<>>
    PROVE  /\ o \o Append(p, Head(q)) \o Tail(q) = o \o p \o q
           /\ Append(p, Head(q)) \o (Tail(q) \o o) = p \o q \o o
<1> DEFINE a == Append(p, Head(q))
           b == Tail(q)
<1>1. a \in Seq(Sig) /\ b \in Seq(Sig) /\ a \o b = p \o q
  BY PassOn
<1> HIDE DEF a, b
<1>2. (o \o a) \o b = o \o (a \o b)
  BY <1>1, Assoc
<1>3. (o \o p) \o q = o \o (p \o q)
  BY Assoc
<1>4. a \o (b \o o) = (a \o b) \o o
  BY <1>1, Assoc
<1>5. (o \o a) \o b = (o \o p) \o q
  BY <1>1, <1>2, <1>3
<1>6. a \o (b \o o) = (p \o q) \o o
  BY <1>1, <1>4
<1> QED BY <1>5, <1>6 DEF a, b

(* p comes before q in the ledger.                                           *)
Before(p, q) == \A x \in Range(p), y \in Range(q) : Pos(x) < Pos(y)

LEMMA EmptyList ==
    <<>> \in Seq(Sig) /\ Range(<<>>) = {} /\ Ordered(<<>>)
BY DEF Range, Ordered

(* The shape of Pipeline: four lists one behind the other.                   *)
LEMMA FourLists ==
    ASSUME NEW a \in Seq(Sig), NEW b \in Seq(Sig), NEW c \in Seq(Sig), NEW d \in Seq(Sig)
    PROVE  /\ b \o c \o d \in Seq(Sig)
           /\ Range(b \o c \o d) = Range(b) \cup Range(c) \cup Range(d)
           /\ Range(a \o (b \o c \o d)) = Range(a) \cup Range(b) \cup Range(c) \cup Range(d)
           /\ Ordered(a \o (b \o c \o d)) <=>
                /\ Ordered(a) /\ Ordered(b) /\ Ordered(c) /\ Ordered(d)
                /\ Before(a, b) /\ Before(a, c) /\ Before(a, d)
                /\ Before(b, c) /\ Before(b, d) /\ Before(c, d)
<1>1. b \o c \in Seq(Sig) /\ Range(b \o c) = Range(b) \cup Range(c)
  BY RangeConcat
<1>2. /\ b \o c \o d \in Seq(Sig)
      /\ Range(b \o c \o d) = Range(b) \cup Range(c) \cup Range(d)
  BY <1>1, RangeConcat
<1>3. Range(a \o (b \o c \o d)) = Range(a) \cup Range(b) \cup Range(c) \cup Range(d)
  <2>1. Range(a \o (b \o c \o d)) = Range(a) \cup Range(b \o c \o d)
    BY <1>2, RangeConcat
  <2> QED BY <1>2, <2>1
<1>4. Ordered(b \o c) <=> Ordered(b) /\ Ordered(c) /\ Before(b, c)
  BY OrderedConcat DEF Before
<1>5. Ordered(b \o c \o d) <=> Ordered(b \o c) /\ Ordered(d) /\ Before(b, d) /\ Before(c, d)
  <2>1. Ordered(b \o c \o d) <=> Ordered(b \o c) /\ Ordered(d) /\ Before(b \o c, d)
    BY <1>1, OrderedConcat DEF Before
  <2>2. Before(b \o c, d) <=> Before(b, d) /\ Before(c, d)
    BY <1>1 DEF Before
  <2> QED BY <2>1, <2>2
<1>6. /\ Ordered(a \o (b \o c \o d)) <=>
           Ordered(a) /\ Ordered(b \o c \o d) /\ Before(a, b \o c \o d)
      /\ Before(a, b \o c \o d) <=> Before(a, b) /\ Before(a, c) /\ Before(a, d)
  <2>1. Ordered(a \o (b \o c \o d)) <=>
           Ordered(a) /\ Ordered(b \o c \o d) /\ Before(a, b \o c \o d)
    BY <1>2, OrderedConcat DEF Before
  <2>2. Before(a, b \o c \o d) <=> Before(a, b) /\ Before(a, c) /\ Before(a, d)
    BY <1>2 DEF Before
  <2> QED BY <2>1, <2>2
<1> QED BY <1>2, <1>3, <1>4, <1>5, <1>6
-----------------------------------------------------------------------------
(* The Processor's part of the invariant.                                    *)
(* A block is the next stretch of the chain.                                 *)
LEMMA BlockFacts ==
    ASSUME NEW n \in Slot
    PROVE  /\ Ordered(Block(n))
           /\ Range(Block(n)) = {s \in Sig : UpTo[n - 1] < Pos(s) /\ Pos(s) <= UpTo[n]}
<1> DEFINE lo == UpTo[n - 1]
           hi == UpTo[n]
<1>1. lo \in 0..Len(Chain) /\ hi \in 0..Len(Chain)
  BY ChainFacts DEF Slot
<1>2. LET seg == SubSeq(Chain, lo + 1, hi)
      IN  Ordered(seg) /\ Range(seg) = {s \in Sig : lo < Pos(s) /\ Pos(s) <= hi}
  <2> HIDE DEF lo, hi
  <2> QED BY <1>1, Segment
<1> QED BY ONLY <1>2 DEF Block

LEMMA BlockType ==
    ASSUME ProcTypeOK, SlotConfirmed
    PROVE  /\ now + 1 \in Slot /\ now' = now + 1
           /\ now \in 0..MaxSlot /\ now + 1 \in 0..MaxSlot
           /\ Block(now + 1) \in Seq(Sig) /\ Ordered(Block(now + 1))
           /\ Range(Block(now + 1)) =
                 {s \in Sig : UpTo[now] < Pos(s) /\ Pos(s) <= UpTo[now + 1]}
<1>1. /\ now + 1 \in Slot /\ now' = now + 1 /\ now + 1 - 1 = now
      /\ now \in 0..MaxSlot /\ now + 1 \in 0..MaxSlot
  BY ChainFacts DEF ProcTypeOK, SlotConfirmed, Slot
<1>2. /\ Ordered(Block(now + 1))
      /\ Range(Block(now + 1)) =
            {s \in Sig : UpTo[now + 1 - 1] < Pos(s) /\ Pos(s) <= UpTo[now + 1]}
  BY <1>1, BlockFacts
<1> QED BY <1>1, <1>2, BlockContents

LEMMA AfterFacts ==
    ASSUME ProcTypeOK, lastSig # None
    PROVE  /\ After(lastSig) \in Seq(Sig) /\ Ordered(After(lastSig))
           /\ Range(After(lastSig)) =
                 {s \in Sig : Pos(lastSig) < Pos(s) /\ Pos(s) <= UpTo[now]}
<1>1. Pos(lastSig) \in 0..Len(Chain) /\ UpTo[now] \in 0..Len(Chain)
  <2>1. lastSig \in Sig /\ now \in 0..MaxSlot
    BY DEF ProcTypeOK
  <2>2. Pos(lastSig) \in 1..Len(Chain)
    BY <2>1, PosFacts
  <2> QED BY <2>1, <2>2, ChainFacts
<1> QED BY <1>1, Segment DEF After

(* The task is dropped in the middle of a call.                              *)
LEMMA AbandonInv ==
    ASSUME ProcInv, pc' = "idle", todo' = <<>>, left' = 0, work' = NoWork, handed' = {},
           UNCHANGED <<dbVars, shutdown, skipped, now>>
    PROVE  ProcInv'
<1>1. <<>> \in Seq(Sig) /\ Len(<<>>) = 0
  BY EmptySeq
<1>2. NoWork \in WorkType
  BY DEF NoWork, WorkType
<1>3. todo' \in Seq(Sig) /\ left' \in 0..Len(todo') /\ work' \in WorkType
  BY <1>1, <1>2
<1>4. ProcTypeOK'
  BY <1>3 DEF ProcInv, ProcTypeOK, dbVars
<1> QED
  BY <1>4 DEF ProcInv, dbVars, WorkExtends, CallsConsistent, HandedKept,
     SigMarkBacked, StoredTxHasItsCalls, InChunk

LEMMA ListTypes ==
    ASSUME TypeOK
    PROVE  /\ pending \in Seq(Sig) /\ chan \in Seq(Sig) /\ feed \in Seq(Sig)
           /\ todo \in Seq(Sig) /\ Remaining \in Seq(Sig)
           /\ Len(pending) \in Nat /\ Len(chan) \in Nat
           /\ BatchSize \in Nat \ {0} /\ ChanSize \in Nat \ {0} /\ MaxRuns \in Nat \ {0}
BY EmptyList, LenProperties, ProcessorParameters, RealtimeParameters
   DEF TypeOK, ProcTypeOK, Remaining, ProcessorAssumption, RealtimeAssumption

LEMMA ProcPart ==
    ASSUME TypeOK, ProcInv, [Next]_vars
    PROVE  ProcInv'
<1>1. CASE NoCheckpoint \/ NothingMissed \/ BootFails \/ Subscribe \/ Forward \/ WsDrops
           \/ Drained \/ ThreadEnds \/ Receive \/ NothingToFlush \/ Restart
  BY <1>1, StutterInv DEF NoCheckpoint, NothingMissed, BootFails, Subscribe, Forward,
     WsDrops, Drained, ThreadEnds, Receive, NothingToFlush, Restart
<1>2. CASE Backfill
  BY <1>2, CallInv, AfterFacts DEF Backfill, ProcInv
<1>3. CASE BackfillReturns \/ BatchReturns \/ FlushReturns
  BY <1>3, ReturnInv DEF BackfillReturns, BatchReturns, FlushReturns
<1>4. CASE ReceiveLast
  <2>1. Append(pending, Head(chan)) \in Seq(Sig)
    BY <1>4, ListTypes, PassOn DEF ReceiveLast
  <2> QED BY <1>4, <2>1, CallInv DEF ReceiveLast
<1>5. CASE Tick \/ FinalFlush
  BY <1>5, ListTypes, CallInv DEF Tick, FinalFlush
<1>6. CASE Process
  BY <1>6, StepInv DEF Process
<1>7. CASE Shutdown
  BY <1>7, ShutdownInv DEF Shutdown
<1>8. CASE ApiStops
  BY <1>8, AbandonInv DEF ApiStops
<1>9. CASE Exit \/ Crash
  BY <1>9, LostInv DEF Exit, Crash, ProcessGone
<1>10. CASE Confirm
  BY <1>10, ConfirmInv DEF Confirm
<1>11. CASE UNCHANGED vars
  BY <1>11, StutterInv DEF vars
<1> QED
  BY <1>1, <1>2, <1>3, <1>4, <1>5, <1>6, <1>7, <1>8, <1>9, <1>10, <1>11
     DEF Next, IndexerStep, ThreadStep

(* The types of run_realtime's own variables.                                *)
LocalType ==
    /\ runs \in 1..MaxRuns
    /\ stage \in {"boot", "backfill", "loop", "batch", "flush", "ended", "down"}
    /\ ws \in {"off", "first", "subscribed", "draining", "retry", "dead"}
    /\ feed \in Seq(Sig) /\ chan \in Seq(Sig) /\ pending \in Seq(Sig)
    /\ Len(chan) <= ChanSize /\ Len(pending) < BatchSize
    /\ unheard \subseteq Sig /\ gap \subseteq Sig /\ dropped \subseteq Sig

LEMMA LocalTypePart ==
    ASSUME TypeOK, [Next]_vars
    PROVE  LocalType'
<1> USE ListTypes DEF LocalType, pipeVars, losses
<1>1. LocalType
  BY DEF TypeOK
<1>2. <<>> \in Seq(Sig) /\ Len(<<>>) = 0 /\ 0 < BatchSize /\ 0 <= ChanSize
  BY EmptySeq
<1>3. CASE NoCheckpoint
  BY <1>1, <1>3 DEF NoCheckpoint
<1>4. CASE NothingMissed \/ BootFails \/ Subscribe \/ WsDrops \/ Drained
  BY <1>1, <1>4 DEF NothingMissed, BootFails, Subscribe, WsDrops, Drained
<1>5. CASE Backfill
  BY <1>1, <1>5 DEF Backfill
<1>6. CASE BackfillReturns
  BY <1>1, <1>6 DEF BackfillReturns
<1>7. CASE Forward
  <2>1. /\ Append(chan, Head(feed)) \in Seq(Sig) /\ Tail(feed) \in Seq(Sig)
        /\ Head(feed) \in Sig
    BY <1>7, PassOn, TakeFirst DEF Forward
  <2>2. Len(Append(chan, Head(feed))) = Len(chan) + 1
    BY <2>1, AppendProperties
  <2>3. Len(chan') <= ChanSize
    BY <1>7, <2>2 DEF Forward
  <2> QED BY <1>1, <1>7, <2>1, <2>3 DEF Forward
<1>8. CASE ThreadEnds
  BY <1>1, <1>2, <1>8 DEF ThreadEnds
<1>9. CASE Receive
  <2>1. /\ Append(pending, Head(chan)) \in Seq(Sig) /\ Tail(chan) \in Seq(Sig)
        /\ Head(chan) \in Sig /\ Len(Tail(chan)) = Len(chan) - 1
    BY <1>9, PassOn, TakeFirst DEF Receive
  <2>2. Len(Append(pending, Head(chan))) = Len(pending) + 1
    BY <2>1, AppendProperties
  <2>3. Len(chan') <= ChanSize /\ Len(pending') < BatchSize
    BY <1>1, <1>9, <2>1, <2>2 DEF Receive
  <2> QED BY <1>1, <1>9, <2>1, <2>3 DEF Receive
<1>10. CASE ReceiveLast
  <2>1. Tail(chan) \in Seq(Sig) /\ Len(Tail(chan)) = Len(chan) - 1
    BY <1>10, TakeFirst DEF ReceiveLast
  <2>2. Len(chan') <= ChanSize
    BY <1>1, <1>10, <2>1 DEF ReceiveLast
  <2> QED BY <1>1, <1>2, <1>10, <2>1, <2>2 DEF ReceiveLast
<1>11. CASE Tick \/ FinalFlush
  BY <1>1, <1>2, <1>11 DEF Tick, FinalFlush
<1>12. CASE BatchReturns
  BY <1>1, <1>12 DEF BatchReturns, TypeOK, ProcTypeOK
<1>13. CASE FlushReturns \/ NothingToFlush
  BY <1>1, <1>2, <1>13 DEF FlushReturns, NothingToFlush
<1>14. CASE Process \/ Shutdown
  BY <1>1, <1>14 DEF Process, Shutdown, realVars
<1>15. CASE ApiStops \/ Exit \/ Crash
  BY <1>1, <1>2, <1>15 DEF ApiStops, Exit, Crash, ProcessGone
<1>16. CASE Restart
  BY <1>1, <1>16 DEF Restart
<1>17. CASE Confirm
  <2> DEFINE new == Block(now + 1)
  <2>1. new \in Seq(Sig)
    BY <1>17, BlockType DEF Confirm, TypeOK
  <2>2. Range(new) \subseteq Sig
    BY <2>1, LenProperties DEF Range
  <2>3. feed \o new \in Seq(Sig)
    BY <2>1, RangeConcat
  <2> HIDE DEF new
  <2>4. /\ feed' \in {feed, feed \o new}
        /\ gap' \in {gap, gap \cup Range(new)}
        /\ unheard' \in {unheard, unheard \cup Range(new)}
        /\ UNCHANGED <<stage, ws, chan, pending, runs, dropped>>
    BY <1>17 DEF Confirm, new
  <2> QED BY <1>1, <2>2, <2>3, <2>4
<1>18. CASE UNCHANGED vars
  BY <1>1, <1>18 DEF vars, realVars
<1> QED
  BY <1>3, <1>4, <1>5, <1>6, <1>7, <1>8, <1>9, <1>10, <1>11, <1>12, <1>13, <1>14, <1>15,
     <1>16, <1>17, <1>18 DEF Next, IndexerStep, ThreadStep

LEMMA TypePart ==
    ASSUME TypeOK, ProcInv, [Next]_vars
    PROVE  TypeOK'
BY ProcPart, LocalTypePart DEF TypeOK, LocalType, ProcInv

(* A step inside a call: what it takes from the list and what it notes.      *)
LEMMA StepShape ==
    ASSUME ProcTypeOK, WorkExtends, ProcStep
    PROVE  /\ pc # "idle" /\ pc' # "idle"
           /\ UNCHANGED <<handed, shutdown>>
           /\ InChunk' => InChunk \/ ~shutdown
           /\ \/ /\ todo' = todo
                 /\ work'.last # None => /\ work'.last = work.last
                                         /\ work'.txs = work.txs
                                         /\ work'.skipped = work.skipped
              \/ /\ TakeSig /\ UNCHANGED <<dbVars, skipped>>
                 /\ work'.last = work.last /\ work'.txs = work.txs
                 /\ work'.skipped = work.skipped \cup {Head(todo)}
              \/ /\ TakeSig /\ UNCHANGED <<dbVars, skipped>>
                 /\ OnChain(Head(todo))
                 /\ work'.last = Head(todo)
                 /\ work'.txs = work.txs \cup {Head(todo)}
                 /\ work'.skipped = work.skipped
<1> USE DEF InChunk, dbVars
<1>1. CASE LeaveLoop \/ BeginFails \/ StoreTxFails \/ CheckpointFails \/ Commit \/ CommitFails
  <2>1. work'.last = None
    BY <1>1 DEF LeaveLoop, BeginFails, StoreTxFails, CheckpointFails, Commit, CommitFails,
       Return, NoWork
  <2> QED
    BY <1>1, <2>1 DEF LeaveLoop, BeginFails, StoreTxFails, CheckpointFails, Commit,
       CommitFails, Return
<1>2. CASE BeginChunk
  <2>1. work'.last = None
    BY <1>2 DEF BeginChunk, NoWork
  <2> QED BY <1>2, <2>1 DEF BeginChunk
<1>3. CASE SkipTx
  <2>1. /\ work'.last = work.last /\ work'.txs = work.txs
        /\ work'.skipped = work.skipped \cup {Head(todo)}
    BY <1>3 DEF SkipTx, ProcTypeOK, WorkType
  <2> QED BY <1>3, <2>1 DEF SkipTx, TakeSig
<1>4. CASE IndexTx
  <2>1. /\ work'.last = Head(todo) /\ work'.txs = work.txs \cup {Head(todo)}
        /\ work'.skipped = work.skipped
    BY <1>4 DEF IndexTx, ProcTypeOK, WorkType
  <2> QED BY <1>4, <2>1 DEF IndexTx, TakeSig
<1>5. CASE StoreAccounts \/ StoreAccountsFails
  <2>1. /\ work'.last = work.last /\ work'.txs = work.txs
        /\ work'.skipped = work.skipped
    BY <1>5 DEF StoreAccounts, StoreAccountsFails, ProcTypeOK, WorkType
  <2> QED BY <1>5, <2>1 DEF StoreAccounts, StoreAccountsFails
<1> QED BY <1>1, <1>2, <1>3, <1>4, <1>5 DEF ProcStep

LEMMA StagePart ==
    ASSUME RealtimeInv, [Next]_vars
    PROVE  StageConsistent'
<1> USE DEF StageConsistent, pipeVars
<1>1. StageConsistent
  BY DEF RealtimeInv
<1>2. CASE NoCheckpoint \/ NothingMissed \/ BootFails \/ Subscribe \/ WsDrops \/ Drained
           \/ ThreadEnds \/ Receive \/ NothingToFlush \/ Restart
  BY <1>1, <1>2 DEF NoCheckpoint, NothingMissed, BootFails, Subscribe, WsDrops, Drained,
     ThreadEnds, Receive, NothingToFlush, Restart, procVars, callVars
<1>3. CASE Forward
  BY <1>1, <1>3 DEF Forward, Listening, procVars, callVars
<1>4. CASE Backfill \/ ReceiveLast \/ Tick \/ FinalFlush
  BY <1>1, <1>4 DEF Backfill, ReceiveLast, Tick, FinalFlush, CallProcess
<1>5. CASE BackfillReturns \/ BatchReturns \/ FlushReturns
  BY <1>1, <1>5 DEF BackfillReturns, BatchReturns, FlushReturns, CallReturns
<1>6. CASE Process
  <2>1. pc # "idle" /\ pc' # "idle"
    BY <1>6, StepShape DEF Process, RealtimeInv, ProcInv
  <2> QED BY <1>1, <1>6, <2>1 DEF Process, realVars
<1>7. CASE Shutdown
  BY <1>1, <1>7 DEF Shutdown, RequestShutdown, realVars, callVars
<1>8. CASE ApiStops \/ Exit \/ Crash
  BY <1>1, <1>8 DEF ApiStops, Exit, Crash, ProcessGone, ProcessLost
<1>9. CASE Confirm
  BY <1>1, <1>9 DEF Confirm, procVars, callVars
<1>10. CASE UNCHANGED vars
  BY <1>1, <1>10 DEF vars, realVars, procVars, callVars
<1> QED
  BY <1>2, <1>3, <1>4, <1>5, <1>6, <1>7, <1>8, <1>9, <1>10 DEF Next, IndexerStep, ThreadStep
-----------------------------------------------------------------------------
(* The order of the pipeline.                                                *)
LEMMA PipelineFacts ==
    ASSUME TypeOK
    PROVE  /\ Heard \in Seq(Sig)
           /\ Range(Heard) = Range(pending) \cup Range(chan) \cup Range(feed)
           /\ Range(Pipeline) = Range(Remaining) \cup Range(Heard)
           /\ Range(Pipeline) \subseteq Sig
           /\ Ordered(Pipeline) <=>
                /\ Ordered(Remaining)
                /\ Ordered(pending) /\ Ordered(chan) /\ Ordered(feed)
                /\ Before(Remaining, pending) /\ Before(Remaining, chan)
                /\ Before(Remaining, feed)
                /\ Before(pending, chan) /\ Before(pending, feed) /\ Before(chan, feed)
<1>1. /\ pending \in Seq(Sig) /\ chan \in Seq(Sig) /\ feed \in Seq(Sig)
      /\ Remaining \in Seq(Sig)
  BY ListTypes
<1>2. \A q \in Seq(Sig) : Range(q) \subseteq Sig
  BY LenProperties DEF Range
<1>3. /\ Heard \in Seq(Sig)
      /\ Range(Heard) = Range(pending) \cup Range(chan) \cup Range(feed)
  BY <1>1, FourLists DEF Heard
<1>4. Range(Pipeline) = Range(Remaining) \cup Range(Heard)
  BY <1>1, <1>3, RangeConcat DEF Pipeline
<1>5. Range(Pipeline) \subseteq Sig
  BY <1>1, <1>2, <1>3, <1>4
<1> QED BY <1>1, <1>3, <1>4, <1>5, FourLists DEF Pipeline, Heard

(* The primed form of PipelineFacts.                                         *)
LEMMA PipelineFactsNext ==
    ASSUME TypeOK'
    PROVE  /\ Heard' \in Seq(Sig)
           /\ Range(Heard') = Range(pending') \cup Range(chan') \cup Range(feed')
           /\ Range(Pipeline') = Range(Remaining') \cup Range(Heard')
           /\ Ordered(Pipeline)' <=>
                /\ Ordered(Remaining')
                /\ Ordered(pending') /\ Ordered(chan') /\ Ordered(feed')
                /\ Before(Remaining', pending') /\ Before(Remaining', chan')
                /\ Before(Remaining', feed')
                /\ Before(pending', chan') /\ Before(pending', feed') /\ Before(chan', feed')
<1>1. /\ pending' \in Seq(Sig) /\ chan' \in Seq(Sig) /\ feed' \in Seq(Sig)
      /\ todo' \in Seq(Sig)
  BY DEF TypeOK, ProcTypeOK
<1>2. Remaining' \in Seq(Sig)
  BY <1>1, EmptyList DEF Remaining
<1>3. /\ Heard' \in Seq(Sig)
      /\ Range(Heard') = Range(pending') \cup Range(chan') \cup Range(feed')
  BY <1>1, FourLists DEF Heard
<1>4. Range(Pipeline') = Range(Remaining') \cup Range(Heard')
  BY <1>2, <1>3, RangeConcat DEF Pipeline
<1>5. Ordered(Pipeline)' <=> Ordered(Pipeline')
  BY DEF Ordered
<1> QED BY <1>1, <1>2, <1>3, <1>4, <1>5, FourLists DEF Pipeline, Heard

(* A step that only takes signatures out of the pipeline.                    *)
LEMMA PipelineShrinks ==
    ASSUME PipelineAhead, MarksOrdered, Ordered(Pipeline)',
           Range(Pipeline') \subseteq Range(Pipeline),
           UNCHANGED <<lastSig, now>>, work'.last # None => work'.last = work.last
    PROVE  PipelineAhead' /\ MarksOrdered'
BY DEF PipelineAhead, MarksOrdered, Ahead

(* Handing signatures on changes nothing in the pipeline as a whole.         *)
LEMMA HandOn ==
    ASSUME TypeOK, StageConsistent, Next,
           Forward \/ Receive \/ ReceiveLast \/ Tick \/ FinalFlush
    PROVE  Pipeline' = Pipeline
<1> USE ListTypes
<1>1. CASE Forward
  <2>1. pending \o Append(chan, Head(feed)) \o Tail(feed) = pending \o chan \o feed
    <3>1. pending \in Seq(Sig) /\ chan \in Seq(Sig) /\ feed \in Seq(Sig) /\ feed # <<>>
      BY <1>1 DEF Forward
    <3> QED BY ONLY <3>1, PassOnBehind
  <2>2. Heard' = Heard
    BY <1>1, <2>1 DEF Forward, Heard
  <2> QED BY <1>1, <2>2 DEF Forward, Pipeline, Remaining, procVars, callVars
<1>2. CASE Receive
  <2>1. Append(pending, Head(chan)) \o Tail(chan) = pending \o chan
    BY <1>2, PassOn DEF Receive
  <2>2. Heard' = Heard
    BY <1>2, <2>1 DEF Receive, Heard
  <2> QED BY <1>2, <2>2 DEF Receive, Pipeline, Remaining, procVars, callVars
<1>3. CASE ReceiveLast
  <2>1. /\ Append(pending, Head(chan)) \o (Tail(chan) \o feed) = pending \o chan \o feed
        /\ Tail(chan) \in Seq(Sig)
    <3>1. pending \in Seq(Sig) /\ chan \in Seq(Sig) /\ feed \in Seq(Sig) /\ chan # <<>>
      BY <1>3 DEF ReceiveLast
    <3> QED BY ONLY <3>1, PassOn, PassOnBehind
  <2>2. /\ Remaining' = Append(pending, Head(chan)) /\ Remaining = <<>>
        /\ Heard' = <<>> \o Tail(chan) \o feed
    BY <1>3 DEF ReceiveLast, CallProcess, Remaining, Heard
  <2>3. <<>> \o Tail(chan) = Tail(chan)
    BY <2>1, ConcatEmptySeq
  <2>4. <<>> \o Heard = Heard
    BY PipelineFacts, ConcatEmptySeq
  <2> QED BY <2>1, <2>2, <2>3, <2>4 DEF Pipeline, Heard
<1>4. CASE Tick \/ FinalFlush
  <2>1. /\ Remaining' = pending /\ Remaining = <<>>
        /\ Heard' = <<>> \o chan \o feed
    BY <1>4 DEF Tick, FinalFlush, CallProcess, Remaining, Heard
  <2>2. <<>> \o chan = chan
    BY ConcatEmptySeq
  <2>3. pending \o (chan \o feed) = (pending \o chan) \o feed
    <3>1. pending \in Seq(Sig) /\ chan \in Seq(Sig) /\ feed \in Seq(Sig)
      BY ListTypes
    <3> QED BY ONLY <3>1, Assoc
  <2>4. <<>> \o Heard = Heard
    BY PipelineFacts, ConcatEmptySeq
  <2> QED BY <2>1, <2>2, <2>3, <2>4 DEF Pipeline, Heard
<1> QED BY <1>1, <1>2, <1>3, <1>4

LEMMA PipelinePart ==
    ASSUME RealtimeInv, TypeOK', [Next]_vars
    PROVE  PipelineAhead' /\ MarksOrdered'
<1>1. TypeOK /\ ProcInv /\ StageConsistent /\ PipelineAhead /\ MarksOrdered
  BY DEF RealtimeInv
<1>2. /\ ~InChunk => work = NoWork
      /\ NoWork.last = None
  BY <1>1 DEF ProcInv, WorkExtends, NoWork
<1>3. CASE NoCheckpoint \/ NothingMissed \/ BootFails \/ Subscribe \/ WsDrops \/ Drained
           \/ Shutdown \/ Restart \/ UNCHANGED vars
  <2>1. UNCHANGED <<pc, todo, work, lastSig, pending, chan, feed, now>>
    BY <1>3 DEF NoCheckpoint, NothingMissed, BootFails, Subscribe, WsDrops, Drained,
       Shutdown, RequestShutdown, Restart, vars, realVars, pipeVars, procVars, dbVars,
       callVars
  <2>2. Pipeline' = Pipeline
    BY <2>1 DEF Pipeline, Remaining, Heard
  <2>3. Ordered(Pipeline)'
    BY <1>1, <2>2 DEF PipelineAhead, Ordered
  <2> QED BY <1>1, <2>1, <2>2, <2>3, PipelineShrinks
<1>4. CASE Forward \/ Receive \/ ReceiveLast \/ Tick \/ FinalFlush
  <2>1. UNCHANGED <<work, lastSig, now>>
    BY <1>4 DEF Forward, Receive, ReceiveLast, Tick, FinalFlush, CallProcess, procVars,
       dbVars, callVars
  <2>2. Pipeline' = Pipeline
    BY <1>1, <1>4, HandOn DEF Next, IndexerStep, ThreadStep
  <2>3. Ordered(Pipeline)'
    BY <1>1, <2>2 DEF PipelineAhead, Ordered
  <2> QED BY <1>1, <2>1, <2>2, <2>3, PipelineShrinks
<1>5. CASE Backfill
  <2>1. /\ Remaining' = After(lastSig) /\ pending' = <<>> /\ chan' = <<>> /\ feed' = <<>>
        /\ UNCHANGED <<work, lastSig, now>> /\ pc = "idle" /\ lastSig # None
    BY <1>1, <1>5 DEF Backfill, CallProcess, Remaining, StageConsistent, dbVars, pipeVars
  <2>2. Range(Pipeline') = Range(After(lastSig)) /\ Ordered(Pipeline)'
    <3>1. Ordered(After(lastSig)) /\ Range(<<>>) = {} /\ Ordered(<<>>)
      BY <1>1, <2>1, AfterFacts, EmptyList DEF TypeOK
    <3> QED BY <2>1, <3>1, PipelineFactsNext DEF Before
  <2>3. work.last = None
    BY <1>2, <2>1 DEF InChunk
  <2>4. \A s \in Range(Pipeline') : Pos(lastSig) < Pos(s) /\ Pos(s) <= UpTo[now]
    BY <1>1, <2>1, <2>2, AfterFacts DEF TypeOK
  <2>5. PipelineAhead'
    BY <2>1, <2>2, <2>3, <2>4 DEF PipelineAhead, Ahead
  <2> QED BY <1>1, <2>1, <2>3, <2>5 DEF MarksOrdered
<1>6. CASE BackfillReturns \/ BatchReturns \/ FlushReturns \/ NothingToFlush \/ ThreadEnds
           \/ ApiStops \/ Exit \/ Crash
  <2>1. /\ Remaining' = <<>> \/ Remaining' = Remaining
        /\ pending' = pending \/ pending' = <<>>
        /\ chan' = chan \/ chan' = <<>>
        /\ feed' = feed \/ feed' = <<>>
        /\ UNCHANGED <<lastSig, now>>
        /\ work' = work \/ work' = NoWork
    BY <1>6 DEF BackfillReturns, BatchReturns, FlushReturns, NothingToFlush, ThreadEnds,
       ApiStops, Exit, Crash, ProcessGone, ProcessLost, CallReturns, Remaining, pipeVars,
       procVars, dbVars, callVars
  <2>2. Range(<<>>) = {} /\ Ordered(<<>>) /\ Ordered(Pipeline)
    BY <1>1, EmptyList DEF PipelineAhead
  <2>3. /\ Ordered(Remaining') /\ Ordered(pending') /\ Ordered(chan') /\ Ordered(feed')
        /\ Range(Remaining') \subseteq Range(Remaining)
        /\ Range(pending') \subseteq Range(pending)
        /\ Range(chan') \subseteq Range(chan)
        /\ Range(feed') \subseteq Range(feed)
    BY <1>1, <2>1, <2>2, PipelineFacts
  <2>4. Ordered(Pipeline)' /\ Range(Pipeline') \subseteq Range(Pipeline)
    BY <1>1, <2>2, <2>3, PipelineFacts, PipelineFactsNext DEF Before
  <2>5. work'.last # None => work'.last = work.last
    BY <1>2, <2>1
  <2> QED BY <1>1, <2>1, <2>4, <2>5, PipelineShrinks
<1>7. CASE Process
  <2>1. ProcStep /\ UNCHANGED <<pending, chan, feed, now>> /\ pc # "idle" /\ pc' # "idle"
    BY <1>1, <1>7, StepShape DEF Process, realVars, pipeVars, ProcInv
  <2>2. Remaining = todo /\ Remaining' = todo' /\ Heard' = Heard
    BY <2>1 DEF Remaining, Heard
  <2>3. Ordered(Pipeline)' /\ Range(Pipeline') \subseteq Range(Pipeline)
    <3>1. CASE todo' = todo
      <4>1. Pipeline' = Pipeline
        BY <2>2, <3>1 DEF Pipeline
      <4> QED BY <1>1, <4>1 DEF PipelineAhead, Ordered
    <3>2. CASE TakeSig
      <4>1. /\ todo' = Tail(todo) /\ todo # <<>> /\ todo \in Seq(Sig)
            /\ Range(todo) = {Head(todo)} \cup Range(todo')
        BY <1>1, <3>2, TakeSigFacts, EmptySeq DEF TakeSig, TypeOK, ProcTypeOK
      <4>2. Ordered(todo)
        BY <1>1, <2>2, PipelineFacts DEF PipelineAhead
      <4>3. Ordered(todo')
        BY <4>1, <4>2, OrderedTail
      <4> QED
        BY <1>1, <2>1, <2>2, <4>1, <4>3, PipelineFacts, PipelineFactsNext
           DEF PipelineAhead, Before
    <3> QED BY <1>1, <2>1, <3>1, <3>2, StepShape DEF ProcInv
  <2>4. CASE UNCHANGED dbVars /\ (work'.last # None => work'.last = work.last)
    BY <1>1, <2>1, <2>3, <2>4, PipelineShrinks DEF dbVars
  <2>5. CASE UNCHANGED dbVars /\ TakeSig /\ OnChain(Head(todo)) /\ work'.last = Head(todo)
    <3> DEFINE s == Head(todo)
    <3>1. /\ s \in Sig /\ todo # <<>> /\ todo \in Seq(Sig) /\ todo' = Tail(todo)
          /\ Range(todo) = {s} \cup Range(todo') /\ now \in 0..MaxSlot
      BY <1>1, <2>5, TakeSigFacts, EmptySeq DEF TakeSig, TypeOK, ProcTypeOK
    <3>2. Pos(s) <= UpTo[now]
      BY <2>5, <3>1, OnChainFacts
    <3>3. s \in Range(Pipeline)
      BY <1>1, <2>2, <3>1, PipelineFacts
    <3>4. Ahead(s)
      BY <1>1, <3>3 DEF PipelineAhead
    <3>5. Ordered(todo) /\ Before(todo, pending) /\ Before(todo, chan) /\ Before(todo, feed)
      BY <1>1, <2>2, PipelineFacts DEF PipelineAhead
    <3>6. \A x \in Range(Pipeline') : Pos(s) < Pos(x)
      <4>1. \A x \in Range(todo') : Pos(s) < Pos(x)
        BY <3>1, <3>5, OrderedTail
      <4>2. \A x \in Range(Heard) : Pos(s) < Pos(x)
        BY <1>1, <3>1, <3>5, PipelineFacts DEF Before
      <4> QED BY <2>2, <4>1, <4>2, PipelineFactsNext
    <3>7. lastSig' = lastSig /\ now' = now /\ work'.last = s
      BY <2>1, <2>5 DEF dbVars
    <3>8. PipelineAhead'
      BY <1>1, <2>3, <3>6, <3>7 DEF PipelineAhead, Ahead
    <3>9. MarksOrdered'
      BY <1>1, <3>2, <3>4, <3>7 DEF MarksOrdered, Ahead
    <3> QED BY <3>8, <3>9
  <2>6. CASE ApplyWork /\ pc = "checkpoint" /\ (work'.last # None => work'.last = work.last)
    <3>1. lastSig' = IF work.last = None THEN lastSig ELSE work.last
      BY <2>6 DEF ApplyWork
    <3>2. work'.last = None
      <4>1. CASE Commit \/ CommitFails
        BY <1>2, <4>1 DEF Commit, CommitFails, Return
      <4>2. CASE ~(Commit \/ CommitFails)
        BY <1>2, <2>1, <2>6, <4>2 DEF ProcStep, LeaveLoop, BeginChunk, BeginFails, SkipTx,
           IndexTx, StoreTxFails, StoreAccounts, StoreAccountsFails, CheckpointFails,
           TakeSig, Return
      <4> QED BY <4>1, <4>2
    <3>3. PipelineAhead'
      BY <1>1, <2>1, <2>3, <3>1, <3>2 DEF PipelineAhead, Ahead
    <3>4. MarksOrdered'
      BY <1>1, <2>1, <3>1, <3>2 DEF MarksOrdered
    <3> QED BY <3>3, <3>4
  <2> QED
    <3>1. \/ UNCHANGED <<dbVars, skipped>>
          \/ pc = "checkpoint" /\ ~work.aborted /\ ApplyWork
      BY <1>1, <2>1, StepCommits DEF ProcInv
    <3>2. \/ work'.last # None => work'.last = work.last
          \/ TakeSig /\ UNCHANGED <<dbVars, skipped>> /\ OnChain(Head(todo))
             /\ work'.last = Head(todo)
      BY <1>1, <2>1, StepShape DEF ProcInv
    <3> QED BY <2>4, <2>5, <2>6, <3>1, <3>2
<1>8. CASE Confirm
  <2> DEFINE new == Block(now + 1)
  <2>1. /\ now' = now + 1 /\ now \in 0..MaxSlot /\ now + 1 \in 0..MaxSlot
        /\ new \in Seq(Sig)
    BY <1>1, <1>8, BlockType DEF Confirm, TypeOK
  <2>2. UpTo[now] \in 0..Len(Chain) /\ UpTo[now + 1] \in 0..Len(Chain)
        /\ UpTo[now] <= UpTo[now + 1]
    BY <2>1, ChainFacts, LedgerIsConsistent DEF LedgerAssumption
  <2>3. /\ Ordered(new)
        /\ Range(new) = {s \in Sig : UpTo[now] < Pos(s) /\ Pos(s) <= UpTo[now + 1]}
    BY <1>1, <1>8, BlockType DEF Confirm, TypeOK
  <2> HIDE DEF new
  <2>4. UNCHANGED <<pc, todo, work, lastSig, pending, chan>> /\ feed' \in {feed, feed \o new}
    BY <1>8 DEF Confirm, new, procVars, dbVars, callVars
  <2>5. /\ \A s \in Sig : Pos(s) \in Nat
        /\ UpTo[now] \in Nat /\ UpTo[now'] \in Nat /\ UpTo[now] <= UpTo[now']
    BY <2>1, <2>2, PosFacts, ChainFacts
  <2>6. \A s \in Range(Pipeline) : s \in Sig /\ Pos(s) <= UpTo[now]
    BY <1>1, PipelineFacts DEF PipelineAhead, Ahead
  <2>7. \A s \in Range(Pipeline), x \in Range(new) : Pos(s) < Pos(x)
    BY <2>3, <2>5, <2>6
  <2>8. /\ Remaining' = Remaining
        /\ Ordered(feed) /\ feed \in Seq(Sig)
        /\ Range(feed) \subseteq Range(Pipeline)
    BY <1>1, <2>4, PipelineFacts DEF Remaining, PipelineAhead, TypeOK
  <2>9. Ordered(feed') /\ Range(feed') \subseteq Range(feed) \cup Range(new)
    <3>1. CASE feed' = feed
      BY <2>8, <3>1
    <3>2. CASE feed' = feed \o new
      <4>1. \A x \in Range(feed), y \in Range(new) : Pos(x) < Pos(y)
        BY <2>7, <2>8
      <4> QED BY <2>1, <2>3, <2>8, <3>2, <4>1, OrderedConcat, RangeConcat
    <3> QED BY <2>4, <3>1, <3>2
  <2>10. Ordered(Pipeline)' /\ Range(Pipeline') \subseteq Range(Pipeline) \cup Range(new)
    BY <1>1, <2>4, <2>7, <2>8, <2>9, PipelineFacts, PipelineFactsNext
       DEF PipelineAhead, Before
  <2>11. /\ lastSig # None => lastSig \in Sig /\ Pos(lastSig) <= UpTo[now]
         /\ work.last # None => work.last \in Sig /\ Pos(work.last) <= UpTo[now]
    BY <1>1 DEF MarksOrdered, ProcInv, ProcTypeOK, WorkType
  <2>12. \A s \in Range(new) : Ahead(s)'
    BY <2>1, <2>3, <2>4, <2>5, <2>11 DEF Ahead
  <2>13. \A s \in Range(Pipeline) : Ahead(s)'
    BY <1>1, <2>4, <2>5, <2>6 DEF PipelineAhead, Ahead
  <2>14. PipelineAhead'
    BY <2>10, <2>12, <2>13 DEF PipelineAhead
  <2>15. MarksOrdered'
    BY <1>1, <2>4, <2>5, <2>11 DEF MarksOrdered
  <2> QED BY <2>14, <2>15
<1> QED
  BY <1>3, <1>4, <1>5, <1>6, <1>7, <1>8 DEF Next, IndexerStep, ThreadStep
-----------------------------------------------------------------------------
(* What is accounted for, and by whom.                                       *)
LEMMA PassOnRange ==
    ASSUME NEW p \in Seq(Sig), NEW q \in Seq(Sig), q # <<>>
    PROVE  Range(Append(p, Head(q))) \cup Range(Tail(q)) = Range(p) \cup Range(q)
<1> DEFINE a == Append(p, Head(q))
           b == Tail(q)
<1>1. a \in Seq(Sig) /\ b \in Seq(Sig) /\ a \o b = p \o q
  BY PassOn
<1> HIDE DEF a, b
<1>2. Range(a \o b) = Range(a) \cup Range(b) /\ Range(p \o q) = Range(p) \cup Range(q)
  BY <1>1, RangeConcat
<1> QED BY <1>1, <1>2 DEF a, b

(* Only the Processor moves the tables, and only a commit.                   *)
LEMMA OtherSteps ==
    ASSUME [Next]_vars, ~Process
    PROVE  /\ UNCHANGED dbVars /\ UNCHANGED skipped
           /\ work' = work \/ work' = NoWork
<1>1. CASE NoCheckpoint \/ NothingMissed \/ BootFails \/ Subscribe \/ Forward \/ WsDrops
           \/ Drained \/ ThreadEnds \/ Receive \/ NothingToFlush \/ Restart \/ Confirm
  BY <1>1 DEF NoCheckpoint, NothingMissed, BootFails, Subscribe, Forward, WsDrops, Drained,
     ThreadEnds, Receive, NothingToFlush, Restart, Confirm, procVars, callVars
<1>2. CASE Backfill \/ ReceiveLast \/ Tick \/ FinalFlush
  BY <1>2 DEF Backfill, ReceiveLast, Tick, FinalFlush, CallProcess
<1>3. CASE BackfillReturns \/ BatchReturns \/ FlushReturns
  BY <1>3 DEF BackfillReturns, BatchReturns, FlushReturns, CallReturns
<1>4. CASE Shutdown \/ ApiStops \/ Exit \/ Crash
  BY <1>4 DEF Shutdown, RequestShutdown, ApiStops, Exit, Crash, ProcessGone, ProcessLost,
     callVars
<1>5. CASE UNCHANGED vars
  BY <1>5 DEF vars, procVars, callVars
<1> QED BY <1>1, <1>2, <1>3, <1>4, <1>5 DEF Next, IndexerStep, ThreadStep

(* A loss is forgotten only when the backfill lists it again, or when there  *)
(* is no checkpoint and everything counts as a loss.                         *)
LEMMA AccountedGrows ==
    ASSUME RealtimeInv, [Next]_vars
    PROVE  \/ Accounted \subseteq Accounted'
           \/ NoCheckpoint
           \/ Backfill /\ Accounted \ Range(After(lastSig)) \subseteq Accounted'
<1> USE DEF Accounted
<1>1. CASE Process
  <2>1. UNCHANGED losses /\ ProcStep
    BY <1>1 DEF Process, realVars
  <2>2. txs \subseteq txs' /\ skipped \subseteq skipped'
    <3>1. ProcTypeOK /\ WorkExtends
      BY DEF RealtimeInv, ProcInv
    <3>2. CASE UNCHANGED <<dbVars, skipped>>
      BY <3>2 DEF dbVars
    <3>3. CASE pc = "checkpoint" /\ ApplyWork
      BY <3>1, <3>3 DEF ApplyWork, WorkExtends, InChunk
    <3> QED BY <2>1, <3>1, <3>2, <3>3, StepCommits
  <2> QED BY <2>1, <2>2 DEF losses
<1>2. CASE ~Process
  <2>1. UNCHANGED <<txs, skipped>>
    BY <1>2, OtherSteps DEF dbVars
  <2>2. CASE NoCheckpoint
    BY <2>2
  <2>3. CASE Backfill
    BY <2>1, <2>3 DEF Backfill
  <2>4. CASE BatchReturns
    BY <2>1, <2>4 DEF BatchReturns
  <2>5. CASE Confirm
    BY <2>1, <2>5 DEF Confirm
  <2>6. CASE ~(NoCheckpoint \/ Backfill \/ BatchReturns \/ Confirm)
    <3>1. UNCHANGED losses
      BY <1>2, <2>6 DEF Next, IndexerStep, ThreadStep, NothingMissed, BootFails, Subscribe,
         Forward, WsDrops, Drained, ThreadEnds, Receive, NothingToFlush, Restart,
         ReceiveLast, Tick, FinalFlush, BackfillReturns, FlushReturns, Shutdown, ApiStops,
         Exit, Crash, ProcessGone, vars, realVars
    <3> QED BY <2>1, <3>1 DEF losses
  <2> QED BY <2>2, <2>3, <2>4, <2>5, <2>6
<1> QED BY <1>1, <1>2

LEMMA AnchorPart ==
    ASSUME RealtimeInv, TypeOK', [Next]_vars
    PROVE  AnchorAccounted'
<1>1. TypeOK /\ ProcTypeOK /\ WorkExtends /\ AnchorAccounted /\ WorkCovered
  BY DEF RealtimeInv, TypeOK, ProcInv
<1>2. SUFFICES ASSUME lastSig' # None, NEW s \in Sig, Pos(s) <= Pos(lastSig')
               PROVE  s \in Accounted'
  BY DEF AnchorAccounted
<1>3. CASE lastSig' = lastSig
  <2>1. s \in Accounted
    BY <1>1, <1>2, <1>3 DEF AnchorAccounted
  <2>2. CASE Accounted \subseteq Accounted'
    BY <2>1, <2>2
  <2>3. CASE NoCheckpoint
    BY <1>2, <1>3, <2>3 DEF NoCheckpoint
  <2>4. CASE Accounted \ Range(After(lastSig)) \subseteq Accounted'
    <3>1. /\ Pos(s) \in Nat /\ Pos(lastSig) \in Nat
          /\ \A x \in Range(After(lastSig)) : Pos(lastSig) < Pos(x)
      BY <1>1, <1>2, <1>3, PosFacts, AfterFacts, ChainFacts DEF ProcTypeOK
    <3>2. s \notin Range(After(lastSig))
      BY <1>2, <1>3, <3>1
    <3> QED BY <2>1, <2>4, <3>2
  <2> QED BY <2>2, <2>3, <2>4, AccountedGrows
<1>4. CASE lastSig' # lastSig
  <2>1. Process /\ pc = "checkpoint" /\ ApplyWork
    BY <1>1, <1>4, OtherSteps, StepCommits DEF Process, dbVars
  <2>2. work.last # None /\ lastSig' = work.last
    BY <1>4, <2>1 DEF ApplyWork
  <2>3. s \in Accounted \cup work.txs \cup work.skipped
    BY <1>1, <1>2, <2>2 DEF WorkCovered
  <2>4. txs' = work.txs /\ skipped' = skipped \cup work.skipped /\ txs \subseteq work.txs
        /\ UNCHANGED losses
    BY <1>1, <2>1 DEF ApplyWork, WorkExtends, InChunk, Process, realVars
  <2> QED BY <2>3, <2>4 DEF Accounted, losses
<1> QED BY <1>3, <1>4

LEMMA WorkPart ==
    ASSUME RealtimeInv, TypeOK', [Next]_vars
    PROVE  WorkCovered'
<1>1. /\ TypeOK /\ ProcTypeOK /\ ProcInv /\ WorkExtends /\ HandedKept /\ StageConsistent
      /\ WorkCovered /\ TipCovered /\ PipelineAhead
  BY DEF RealtimeInv, TypeOK, ProcInv
<1>2. NoWork.last = None
  BY DEF NoWork
<1>3. SUFFICES ASSUME work'.last # None, NEW s \in Sig, Pos(s) <= Pos(work'.last)
               PROVE  s \in Accounted' \cup work'.txs \cup work'.skipped
  BY DEF WorkCovered
<1>4. CASE ~Process
  <2>1. work' = work /\ work.last # None
    BY <1>2, <1>3, <1>4, OtherSteps
  <2>2. s \in Accounted \cup work.txs \cup work.skipped
    BY <1>1, <1>3, <2>1 DEF WorkCovered
  <2>3. pc # "idle" /\ stage # "boot"
    BY <1>1, <1>2, <2>1 DEF WorkExtends, InChunk, StageConsistent
  <2>4. Accounted \subseteq Accounted'
    BY <2>3, AccountedGrows DEF NoCheckpoint, Backfill
  <2> QED BY <2>1, <2>2, <2>4
<1>5. CASE Process
  <2>1. ProcStep /\ pc # "idle" /\ stage \in {"backfill", "batch", "flush"}
    BY <1>1, <1>5, StepShape DEF Process, StageConsistent
  <2>2. Accounted \subseteq Accounted'
    BY <2>1, AccountedGrows DEF NoCheckpoint, Backfill
  <2>3. CASE work'.last = work.last /\ work'.txs = work.txs
             /\ work.skipped \subseteq work'.skipped
    BY <1>1, <1>3, <2>2, <2>3 DEF WorkCovered
  <2>4. CASE /\ TakeSig /\ OnChain(Head(todo)) /\ work'.last = Head(todo)
             /\ work'.txs = work.txs \cup {Head(todo)} /\ work'.skipped = work.skipped
    <3> DEFINE h == Head(todo)
    <3>1. /\ h \in Sig /\ todo # <<>> /\ todo \in Seq(Sig)
          /\ Range(todo) = {h} \cup Range(Tail(todo)) /\ now \in 0..MaxSlot
      BY <1>1, <2>4, TakeSigFacts, EmptySeq DEF TakeSig, ProcTypeOK
    <3>2. Pos(h) <= UpTo[now]
      BY <2>4, <3>1, OnChainFacts
    <3>3. Pos(s) \in Nat /\ Pos(h) \in Nat /\ UpTo[now] \in Nat
      BY <3>1, PosFacts, ChainFacts
    <3>4. Pos(s) <= UpTo[now]
      BY <1>3, <2>4, <3>2, <3>3
    <3>5. InChunk
      BY <2>4 DEF TakeSig, InChunk
    <3>6. s \in Accounted \/ s \in handed \/ s \in Range(Heard)
      BY <1>1, <2>1, <3>4, <3>5 DEF TipCovered
    <3>7. Ordered(todo) /\ Before(todo, pending) /\ Before(todo, chan) /\ Before(todo, feed)
      BY <1>1, <2>1, PipelineFacts DEF PipelineAhead, Remaining
    <3>8. \A x \in Range(Heard) \cup Range(Tail(todo)) : Pos(h) < Pos(x)
      BY <1>1, <3>1, <3>7, PipelineFacts, OrderedTail DEF Before
    <3>9. s \notin Range(Heard) \cup Range(Tail(todo))
      <4> HIDE DEF h
      <4> QED BY <1>3, <2>4, <3>3, <3>8 DEF h
    <3>10. s \in Accounted \/ s \in handed
      BY <3>6, <3>9
    <3>11. handed \subseteq work.txs \cup work.skipped \cup skipped \cup Range(todo)
      BY <1>1, <3>5 DEF HandedKept
    <3>12. skipped \subseteq Accounted
      BY DEF Accounted
    <3> QED BY <2>2, <2>4, <3>1, <3>9, <3>10, <3>11, <3>12
  <2> QED BY <1>1, <1>3, <2>1, <2>3, <2>4, StepShape
<1> QED BY <1>4, <1>5

(* A call that says Ok while no shutdown is requested has dealt with its     *)
(* whole list.                                                               *)
LEMMA OkFacts ==
    ASSUME HandedKept, ~shutdown, pc = "ok"
    PROVE  handed \subseteq txs \cup skipped
BY DEF HandedKept, Range

LEMMA TipPart ==
    ASSUME RealtimeInv, TypeOK', [Next]_vars
    PROVE  TipCovered'
<1>1. /\ TypeOK /\ ProcTypeOK /\ ProcInv /\ WorkExtends /\ HandedKept /\ StageConsistent
      /\ TipCovered /\ AnchorAccounted /\ now \in 0..MaxSlot
  BY DEF RealtimeInv, TypeOK, ProcInv, ProcTypeOK
<1>2. SUFFICES ASSUME stage' \in {"backfill", "loop", "batch", "flush"},
                      ~shutdown' \/ InChunk', NEW s \in Sig, Pos(s) <= UpTo[now']
               PROVE  \/ s \in Accounted'
                      \/ pc' # "idle" /\ s \in handed'
                      \/ s \in Range(Heard')
  BY DEF TipCovered, Range
<1>3. CASE NoCheckpoint
  BY <1>1, <1>2, <1>3, OnChainFacts DEF NoCheckpoint, Accounted
<1>4. CASE NothingMissed \/ Backfill
  <2>1. now' = now /\ lastSig # None /\ lastSig \in Sig
    BY <1>1, <1>4 DEF NothingMissed, Backfill, ProcTypeOK
  <2>2. CASE Pos(s) <= Pos(lastSig)
    <3>1. s \in Accounted
      BY <1>1, <2>1, <2>2 DEF AnchorAccounted
    <3>2. s \notin Range(After(lastSig))
      <4>1. Pos(s) \in Nat /\ Pos(lastSig) \in Nat
        BY <2>1, PosFacts, ChainFacts
      <4>2. \A x \in Range(After(lastSig)) : Pos(lastSig) < Pos(x)
        BY <1>1, <2>1, AfterFacts
      <4> QED BY <2>2, <4>1, <4>2
    <3>3. ~NoCheckpoint
      BY <2>1 DEF NoCheckpoint
    <3> QED BY <3>1, <3>2, <3>3, AccountedGrows
  <2>3. CASE ~(Pos(s) <= Pos(lastSig))
    <3>1. s \in Range(After(lastSig))
      <4>1. Pos(s) \in Nat /\ Pos(lastSig) \in Nat
        BY <2>1, PosFacts, ChainFacts
      <4>2. Pos(lastSig) < Pos(s)
        BY <2>3, <4>1
      <4> QED BY <1>1, <1>2, <2>1, <4>2, AfterFacts
    <3>2. After(lastSig) # <<>>
      BY <3>1, EmptyList
    <3>3. Backfill /\ pc' = "loop" /\ handed' = Range(After(lastSig))
      BY <1>4, <3>2 DEF NothingMissed, Backfill, CallProcess
    <3> QED BY <3>1, <3>3
  <2> QED BY <2>2, <2>3
<1>5. CASE BackfillReturns \/ BatchReturns
  <2>1. /\ pc' = "idle" /\ UNCHANGED <<now, shutdown, txs, skipped, handed, pending, chan, feed>>
        /\ stage \in {"backfill", "batch"} /\ pc \in {"ok", "err"}
    BY <1>5 DEF BackfillReturns, BatchReturns, CallReturns, pipeVars, dbVars
  <2>2. ~shutdown
    BY <1>2, <2>1 DEF InChunk
  <2>3. s \in Accounted \/ s \in handed \/ s \in Range(Heard)
    BY <1>1, <1>2, <2>1, <2>2 DEF TipCovered
  <2>4. Heard' = Heard
    BY <2>1 DEF Heard
  <2>5. Accounted \subseteq Accounted'
    BY <1>5, <2>1, AccountedGrows DEF NoCheckpoint, Backfill
  <2>6. CASE pc = "ok"
    BY <1>1, <2>2, <2>3, <2>4, <2>5, <2>6, OkFacts DEF Accounted
  <2>7. CASE pc = "err"
    <3>1. dropped' = dropped \cup (handed \ (txs \cup skipped))
      BY <1>2, <1>5, <2>7 DEF BackfillReturns, BatchReturns, CallReturns
    <3> QED BY <2>1, <2>3, <2>4, <2>5, <3>1 DEF Accounted
  <2> QED BY <2>1, <2>6, <2>7
<1>6. CASE Forward \/ Receive
  <2>1. UNCHANGED <<now, shutdown, pc, handed, stage>>
    BY <1>6 DEF Forward, Receive, procVars, callVars
  <2>2. s \in Accounted \/ (pc # "idle" /\ s \in handed) \/ s \in Range(Heard)
    BY <1>1, <1>2, <2>1 DEF TipCovered, InChunk
  <2>3. Range(Heard') = Range(Heard)
    <3>1. /\ Range(Heard) = Range(pending) \cup Range(chan) \cup Range(feed)
          /\ Range(Heard') = Range(pending') \cup Range(chan') \cup Range(feed')
      BY <1>1, PipelineFacts, PipelineFactsNext
    <3>2. CASE Forward
      BY <1>1, <3>1, <3>2, ListTypes, PassOnRange DEF Forward
    <3>3. CASE Receive
      BY <1>1, <3>1, <3>3, ListTypes, PassOnRange DEF Receive
    <3> QED BY <1>6, <3>2, <3>3
  <2>4. Accounted \subseteq Accounted'
    <3>1. UNCHANGED <<txs, skipped, losses>>
      BY <1>6 DEF Forward, Receive, procVars, dbVars
    <3> QED BY <3>1 DEF Accounted, losses
  <2> QED BY <2>1, <2>2, <2>3, <2>4
<1>7. CASE ReceiveLast \/ Tick
  <2>1. /\ UNCHANGED <<now, shutdown>> /\ stage = "loop" /\ pc = "idle" /\ pc' = "loop"
    BY <1>7 DEF ReceiveLast, Tick, CallProcess
  <2>2. ~shutdown
    BY <1>2, <2>1 DEF InChunk
  <2>3. s \in Accounted \/ s \in Range(Heard)
    BY <1>1, <1>2, <2>1, <2>2 DEF TipCovered
  <2>4. Range(Heard) \subseteq handed' \cup Range(Heard')
    <3>1. /\ Range(Heard) = Range(pending) \cup Range(chan) \cup Range(feed)
          /\ Range(Heard') = Range(pending') \cup Range(chan') \cup Range(feed')
      BY <1>1, PipelineFacts, PipelineFactsNext
    <3>2. CASE ReceiveLast
      <4>1. handed' = Range(Append(pending, Head(chan))) /\ chan' = Tail(chan) /\ feed' = feed
            /\ chan # <<>>
        BY <3>2 DEF ReceiveLast, CallProcess
      <4>2. handed' \cup Range(chan') = Range(pending) \cup Range(chan)
        BY <1>1, <4>1, ListTypes, PassOnRange
      <4> QED BY <3>1, <4>1, <4>2
    <3>3. CASE Tick
      <4>1. handed' = Range(pending) /\ UNCHANGED <<chan, feed>>
        BY <3>3 DEF Tick, CallProcess
      <4> QED BY <3>1, <4>1
    <3> QED BY <1>7, <3>2, <3>3
  <2>5. Accounted \subseteq Accounted'
    BY <2>1, AccountedGrows DEF NoCheckpoint, Backfill
  <2> QED BY <2>1, <2>3, <2>4, <2>5
<1>8. CASE Process
  <2>1. /\ ProcStep /\ UNCHANGED <<stage, now, pending, chan, feed>>
    BY <1>8 DEF Process, realVars, pipeVars
  <2>2. /\ pc # "idle" /\ pc' # "idle" /\ UNCHANGED <<handed, shutdown>>
        /\ InChunk' => InChunk \/ ~shutdown
    BY <1>1, <2>1, StepShape
  <2>3. s \in Accounted \/ s \in handed \/ s \in Range(Heard)
    BY <1>1, <1>2, <2>1, <2>2 DEF TipCovered
  <2>4. Heard' = Heard
    BY <2>1 DEF Heard
  <2>5. Accounted \subseteq Accounted'
    BY <1>1, <1>2, <2>1, AccountedGrows DEF NoCheckpoint, Backfill
  <2> QED BY <2>2, <2>3, <2>4, <2>5
<1>9. CASE Shutdown \/ Subscribe \/ WsDrops \/ Drained \/ UNCHANGED vars
  <2>1. /\ UNCHANGED <<stage, now, pending, chan, feed, pc, handed, txs, skipped, losses>>
        /\ shutdown => shutdown'
    BY <1>9 DEF Shutdown, RequestShutdown, Subscribe, WsDrops, Drained, vars, realVars,
       procVars, dbVars, callVars, pipeVars
  <2>2. ~shutdown \/ InChunk
    BY <1>2, <2>1 DEF InChunk
  <2>3. s \in Accounted \/ (pc # "idle" /\ s \in handed) \/ s \in Range(Heard)
    BY <1>1, <1>2, <2>1, <2>2 DEF TipCovered
  <2>4. Heard' = Heard /\ Accounted' = Accounted
    BY <2>1 DEF Heard, Accounted, losses
  <2> QED BY <2>1, <2>3, <2>4
<1>10. CASE BootFails \/ ThreadEnds \/ FlushReturns \/ NothingToFlush \/ FinalFlush
            \/ ApiStops \/ Exit \/ Crash \/ Restart
  <2>1. stage' \in {"ended", "down", "boot"} \/ (shutdown' /\ pc' = "loop")
    BY <1>10 DEF BootFails, ThreadEnds, FlushReturns, NothingToFlush, FinalFlush, CallProcess,
       ApiStops, Exit, Crash, ProcessGone, Restart
  <2> QED BY <1>2, <2>1 DEF InChunk
<1>11. CASE Confirm
  <2> DEFINE new == Block(now + 1)
  <2>1. /\ now' = now + 1
        /\ Range(new) = {x \in Sig : UpTo[now] < Pos(x) /\ Pos(x) <= UpTo[now + 1]}
        /\ new \in Seq(Sig)
    BY <1>1, <1>11, BlockType DEF Confirm
  <2> HIDE DEF new
  <2>2. /\ UNCHANGED <<stage, pc, shutdown, handed, pending, chan, txs, skipped, dropped>>
        /\ feed' = IF ws = "subscribed" THEN feed \o new ELSE feed
        /\ gap' = IF ws \in {"draining", "retry"} THEN gap \cup Range(new) ELSE gap
        /\ unheard' = IF stage = "backfill" \/ ws = "first" THEN unheard \cup Range(new)
                                                            ELSE unheard
    BY <1>11 DEF Confirm, new, procVars, dbVars, callVars
  <2>3. /\ Range(Heard) = Range(pending) \cup Range(chan) \cup Range(feed)
        /\ Range(Heard') = Range(pending) \cup Range(chan) \cup Range(feed')
    BY <1>1, <2>2, PipelineFacts, PipelineFactsNext
  <2>4. Range(feed \o new) = Range(feed) \cup Range(new)
    BY <1>1, <2>1, ListTypes, RangeConcat
  <2>5. CASE Pos(s) <= UpTo[now]
    <3>1. s \in Accounted \/ (pc # "idle" /\ s \in handed) \/ s \in Range(Heard)
      BY <1>1, <1>2, <2>2, <2>5 DEF TipCovered, InChunk
    <3>2. Accounted \subseteq Accounted' /\ Range(Heard) \subseteq Range(Heard')
      BY <2>2, <2>3, <2>4 DEF Accounted
    <3> QED BY <2>2, <3>1, <3>2
  <2>6. CASE ~(Pos(s) <= UpTo[now])
    <3>1. s \in Range(new)
      <4>1. Pos(s) \in Nat /\ UpTo[now] \in Nat
        BY <1>1, PosFacts, ChainFacts
      <4>2. UpTo[now] < Pos(s)
        BY <2>6, <4>1
      <4> QED BY <1>2, <2>1, <4>2
    <3>2. CASE stage = "backfill" \/ ws = "first"
      BY <2>2, <3>1, <3>2 DEF Accounted
    <3>3. CASE stage \in {"loop", "batch", "flush"} /\ ws # "first"
      <4>1. ws \in {"subscribed", "draining", "retry"}
        BY <1>1, <3>3 DEF TypeOK, StageConsistent
      <4> QED BY <2>2, <2>3, <2>4, <3>1, <4>1 DEF Accounted
    <3> QED BY <1>2, <2>2, <3>2, <3>3
  <2> QED BY <2>5, <2>6
<1> QED
  BY <1>3, <1>4, <1>5, <1>6, <1>7, <1>8, <1>9, <1>10, <1>11 DEF Next, IndexerStep, ThreadStep

LEMMA InitRealtime ==
    ASSUME Init
    PROVE  RealtimeInv
<1>1. ProcInv
  BY InitInv DEF Init
<1>2. <<>> \in Seq(Sig) /\ Range(<<>>) = {} /\ Ordered(<<>>) /\ Len(<<>>) = 0
  BY EmptyList, EmptySeq
<1>3. TypeOK
  BY <1>1, <1>2, ProcessorParameters, RealtimeParameters
     DEF Init, TypeOK, ProcInv, ProcessorAssumption, RealtimeAssumption
<1>4. pc = "idle" /\ work.last = None /\ lastSig = None
  BY DEF Init, ProcInit, NoWork
<1>5. Remaining = <<>> /\ pending = <<>> /\ chan = <<>> /\ feed = <<>>
  BY <1>4 DEF Init, Remaining
<1>6. PipelineAhead
  <2>1. Range(Pipeline) = {}
    BY <1>2, <1>3, <1>5, PipelineFacts
  <2>2. Ordered(Pipeline)
    BY <1>2, <1>3, <1>5, PipelineFacts DEF Before
  <2> QED BY <2>1, <2>2 DEF PipelineAhead
<1> QED
  BY <1>1, <1>3, <1>4, <1>6 DEF Init, RealtimeInv, StageConsistent, MarksOrdered, TipCovered,
     WorkCovered, AnchorAccounted

LEMMA RealtimeInvStep ==
    ASSUME RealtimeInv, [Next]_vars
    PROVE  RealtimeInv'
<1>1. TypeOK /\ ProcInv
  BY DEF RealtimeInv
<1>2. TypeOK' /\ ProcInv'
  BY <1>1, TypePart, ProcPart
<1> QED
  BY <1>2, StagePart, PipelinePart, TipPart, WorkPart, AnchorPart DEF RealtimeInv
-----------------------------------------------------------------------------
(* The inductive invariant of realtime mode: what was confirmed while the    *)
(* indexer works is stored, on record as a loss, or still under way.         *)
THEOREM RealtimeInvariant == Spec => []RealtimeInv
<1>1. Init => RealtimeInv
  BY InitRealtime
<1>2. RealtimeInv /\ [Next]_vars => RealtimeInv'
  BY RealtimeInvStep
<1> QED BY <1>1, <1>2, PTL DEF Spec

(* The variables of run_realtime and of the Processor keep their types, the  *)
(* channel its capacity, and no full batch is left waiting.                  *)
THEOREM RealtimeTypeCorrect == Spec => []TypeOK
<1>1. RealtimeInv => TypeOK
  BY DEF RealtimeInv
<1> QED BY <1>1, RealtimeInvariant, PTL

(* Whatever the chain, the batch size, the channel and the faults, the       *)
(* signature checkpoint hides no loss but the four of Accounted              *)
(* (processor.rs:111, realtime.rs:80, realtime.rs:109, realtime.rs:128).     *)
THEOREM AnchorLossesAccounted == Spec => []AnchorAccounted
<1>1. RealtimeInv => AnchorAccounted
  BY DEF RealtimeInv
<1> QED BY <1>1, RealtimeInvariant, PTL

(* From the subscription to the database, signatures stay in ledger order,   *)
(* and a commit never moves the checkpoint past one that is under way.       *)
THEOREM PipelineKeepsOrder == Spec => []PipelineInOrder
<1>1. RealtimeInv => PipelineInOrder
  BY DEF RealtimeInv, PipelineAhead, Ahead, PipelineInOrder
<1> QED BY <1>1, RealtimeInvariant, PTL

(* No commit and no restart takes the signature checkpoint back.             *)
THEOREM AnchorAdvances == Spec => AnchorOnlyAdvances
<1>1. ASSUME RealtimeInv, [Next]_vars
      PROVE  [lastSig # None => lastSig' # None /\ Pos(lastSig) <= Pos(lastSig')]_vars
  <2>1. SUFFICES ASSUME lastSig # None
                 PROVE  lastSig' # None /\ Pos(lastSig) <= Pos(lastSig')
    OBVIOUS
  <2>2. Pos(lastSig) \in Nat
    BY <1>1, <2>1, PosFacts, ChainFacts DEF RealtimeInv, TypeOK, ProcTypeOK
  <2>3. CASE lastSig' = lastSig
    BY <2>1, <2>2, <2>3
  <2>4. CASE lastSig' # lastSig
    <3>1. Process /\ ApplyWork
      BY <1>1, <2>4, OtherSteps, StepCommits DEF Process, dbVars, RealtimeInv, ProcInv
    <3>2. work.last # None /\ lastSig' = work.last
      BY <2>4, <3>1 DEF ApplyWork
    <3>3. Pos(lastSig) < Pos(work.last) /\ Pos(work.last) \in Nat
      BY <1>1, <2>1, <3>2, PosFacts, ChainFacts
         DEF RealtimeInv, MarksOrdered, ProcInv, ProcTypeOK, WorkType
    <3> QED BY <2>2, <3>2, <3>3
  <2> QED BY <2>3, <2>4
<1> QED BY <1>1, RealtimeInvariant, PTL DEF Spec, AnchorOnlyAdvances

(* Realtime mode implements the abstract store: what readers see changes by  *)
(* whole committed chunks only.                                              *)
THEOREM RealtimeImplementsStore == Spec => ImplementsStore
<1>1. Init => Store!StoreInit
  BY DEF Init, ProcInit, Store!StoreInit, CallRows
<1>2. ASSUME RealtimeInv, [Next]_vars
      PROVE  [Store!StoreNext]_(Store!storeVars)
  <2>1. CASE Process
    BY <1>2, <2>1, StepRefines DEF Process, RealtimeInv
  <2>2. CASE ~Process
    <3>1. UNCHANGED dbVars
      BY <1>2, <2>2, OtherSteps
    <3> QED BY <3>1 DEF dbVars, Store!storeVars, CallRows
  <2> QED BY <2>1, <2>2
<1> QED BY <1>1, <1>2, RealtimeInvariant, PTL DEF Spec, ImplementsStore, Store!StoreSpec
=============================================================================
