-------------------------- MODULE ApiReadsProofs ---------------------------
(* For every chain, schema and number of commits: what the answers of the    *)
(* API can be trusted for while the indexer goes on.                         *)
EXTENDS ApiReads, FiniteSetTheorems, TLAPS

USE ApiParameters

(* A set of naturals that is not empty has a least element.                  *)
LEMMA LeastExists ==
    ASSUME NEW S \in SUBSET Nat, S # {}
    PROVE  \E n \in S : \A m \in S : n <= m
<1> DEFINE R == OpToRel(<, Nat)
<1>1. IsWellFoundedOn(R, Nat)
  BY NatLessThanWellFounded
<1>2. PICK n \in S : \A m \in S : ~(<<m, n>> \in R)
  <2> HIDE DEF R
  <2> QED
    BY <1>1, WFMin
<1>3. ASSUME NEW m \in S PROVE n <= m
  <2>1. m \in Nat /\ n \in Nat
    OBVIOUS
  <2>2. ~(m < n)
    BY <1>2, <2>1 DEF OpToRel
  <2> QED
    BY <2>1, <2>2
<1> QED
  BY <1>3

(* A finite one has a greatest: that with the fewest above it.               *)
LEMMA GreatestExists ==
    ASSUME NEW S \in SUBSET Nat, S # {}, IsFiniteSet(S)
    PROVE  \E n \in S : \A m \in S : m <= n
<1> DEFINE Above(n) == {m \in S : m > n}
           C == {Cardinality(Above(n)) : n \in S}
<1>1. \A n \in S : IsFiniteSet(Above(n)) /\ Cardinality(Above(n)) \in Nat
  BY FS_Subset, FS_CardinalityType
<1>2. C \in SUBSET Nat /\ C # {}
  BY <1>1
<1>3. PICK c \in C : \A d \in C : c <= d
  <2> HIDE DEF C
  <2> QED
    BY <1>2, LeastExists
<1>4. PICK n \in S : c = Cardinality(Above(n))
  OBVIOUS
<1>5. ASSUME NEW m \in S, m > n PROVE FALSE
  <2>1. Above(m) \subseteq Above(n) /\ m \in Above(n) /\ m \notin Above(m)
    <3> HIDE DEF C
    <3>1. m \in Nat /\ n \in Nat
      OBVIOUS
    <3>2. \A k \in Above(m) : k \in S /\ k \in Nat /\ k > m
      OBVIOUS
    <3>3. \A k \in Above(m) : k \in Above(n)
      <4>1. SUFFICES ASSUME NEW k \in Above(m) PROVE k > n
        BY <3>2
      <4> QED
        BY ONLY <1>5, <3>1, <3>2, k \in Above(m)
    <3>4. m \in Above(n)
      BY <1>5
    <3>5. m \notin Above(m)
      BY <3>1
    <3> QED
      BY ONLY <3>3, <3>4, <3>5
  <2>2. Cardinality(Above(m)) # Cardinality(Above(n))
    <3> HIDE DEF Above
    <3> QED
      BY <1>1, <2>1, FS_Subset
  <2>3. Cardinality(Above(m)) <= Cardinality(Above(n))
    <3> HIDE DEF Above
    <3> QED
      BY <1>1, <2>1, FS_Subset
  <2>4. Cardinality(Above(n)) <= Cardinality(Above(m))
    BY <1>3, <1>4
  <2>5. Cardinality(Above(m)) \in Nat /\ Cardinality(Above(n)) \in Nat
    <3> HIDE DEF Above
    <3> QED
      BY <1>1
  <2> HIDE DEF Above, C
  <2> QED
    BY <2>2, <2>3, <2>4, <2>5
<1>6. ASSUME NEW m \in S PROVE m <= n
  BY <1>5
<1> QED
  BY <1>6

(* What the queries for the least and the greatest give.                     *)
LEMMA LeastIsLeast ==
    ASSUME NEW S \in SUBSET Nat, S # {}
    PROVE  LeastOf(S) \in S /\ \A m \in S : LeastOf(S) <= m
  BY LeastExists DEF LeastOf

LEMMA GreatestIsGreatest ==
    ASSUME NEW S \in SUBSET Nat, S # {}, IsFiniteSet(S)
    PROVE  GreatestOf(S) \in S /\ \A m \in S : m <= GreatestOf(S)
  BY GreatestExists DEF GreatestOf

(* The slots of signatures are finitely many.                                *)
LEMMA FiniteSlots ==
    ASSUME NEW S, S \subseteq {SlotOf[s] : s \in Sig}
    PROVE  IsFiniteSet(S) /\ S \in SUBSET Nat
<1> DEFINE T == {SlotOf[s] : s \in Sig}
<1>1. SlotOf \in Surjection(Sig, T)
  BY DEF Surjection, ApiAssumption
<1>2. IsFiniteSet(T)
  BY <1>1, FS_Surjection DEF ApiAssumption
<1>3. T \subseteq Nat
  BY DEF ApiAssumption
<1> QED
  BY <1>2, <1>3, FS_Subset

(* Every transaction with a call in a table has a row there.                 *)
LEMMA CallsHaveRows ==
    ASSUME NEW S, NEW P, S \subseteq P, P \subseteq Sig, NEW t \in Table,
           NEW Q, Q = {r \in RowsOf(P) : r[2] = t}
    PROVE  /\ Cardinality(CallsIn(S, t)) \in Nat /\ Cardinality(Q) \in Nat
           /\ Cardinality(CallsIn(S, t)) <= Cardinality(Q)
<1>1. RowsOf(P) \subseteq Sig \X Table
  BY DEF RowsOf, ApiAssumption
<1>2. IsFiniteSet(Sig \X Table)
  BY FS_Product DEF ApiAssumption
<1>3. IsFiniteSet(Q) /\ Cardinality(Q) \in Nat
  BY <1>1, <1>2, FS_Subset, FS_CardinalityType
<1>4. IsFiniteSet(CallsIn(S, t)) /\ Cardinality(CallsIn(S, t)) \in Nat
  BY FS_Subset, FS_CardinalityType DEF CallsIn, ApiAssumption
<1> DEFINE f == [s \in CallsIn(S, t) |-> <<s, t>>]
<1>5. f \in Injection(CallsIn(S, t), Q)
  <2>1. \A s \in CallsIn(S, t) : <<s, t>> \in Q
    BY DEF CallsIn, RowsOf
  <2> QED
    BY <2>1 DEF Injection, IsInjective
<1> QED
  <2> HIDE DEF f
  <2> QED
    BY <1>3, <1>4, <1>5, FS_Injection
-----------------------------------------------------------------------------
(* What a SELECT of the invariant's states can give.                         *)
LEMMA SlotsFound ==
    ASSUME stored \subseteq Sig
    PROVE  /\ LeastOf(Slots) \in Nat \cup {None}
           /\ GreatestOf(Slots) \in Nat \cup {None}
           /\ \A s \in stored : /\ LeastOf(Slots) # None /\ LeastOf(Slots) <= SlotOf[s]
                                /\ GreatestOf(Slots) # None /\ SlotOf[s] <= GreatestOf(Slots)
<1>1. IsFiniteSet(Slots) /\ Slots \in SUBSET Nat
  BY FiniteSlots DEF Slots
<1>2. CASE Slots = {}
  BY <1>2 DEF LeastOf, GreatestOf, Slots
<1>3. CASE Slots # {}
  <2>1. LeastOf(Slots) \in Slots /\ \A m \in Slots : LeastOf(Slots) <= m
    BY <1>1, <1>3, LeastIsLeast
  <2>2. GreatestOf(Slots) \in Slots /\ \A m \in Slots : m <= GreatestOf(Slots)
    BY <1>1, <1>3, GreatestIsGreatest
  <2>3. \A s \in stored : SlotOf[s] \in Slots
    BY DEF Slots
  <2> QED
    BY <1>1, <2>1, <2>2, <2>3 DEF ApiAssumption
<1> QED
  BY <1>2, <1>3

LEMMA LatestFound ==
    ASSUME accs \subseteq Addr \X {SlotOf[s] : s \in Sig}, NEW a
    PROVE  /\ LatestSlot(a) \in Nat \cup {None}
           /\ LatestSlot(a) # None => <<a, LatestSlot(a)>> \in accs
           /\ \A n : <<a, n>> \in accs =>
                        n \in Nat /\ LatestSlot(a) # None /\ n <= LatestSlot(a)
<1> DEFINE S == {r[2] : r \in {q \in accs : q[1] = a}}
<1>1. S \subseteq {SlotOf[s] : s \in Sig}
  OBVIOUS
<1>2. IsFiniteSet(S) /\ S \in SUBSET Nat
  <2> HIDE DEF S
  <2> QED
    BY <1>1, FiniteSlots
<1>3. \A n : <<a, n>> \in accs <=> n \in S
  <2>1. \A r \in accs : r = <<r[1], r[2]>>
    OBVIOUS
  <2> QED
    BY <2>1
<1>4. LatestSlot(a) = GreatestOf(S)
  BY DEF LatestSlot
<1> HIDE DEF S
<1>5. CASE S = {}
  BY <1>3, <1>4, <1>5 DEF GreatestOf
<1>6. CASE S # {}
  <2>1. GreatestOf(S) \in S /\ \A m \in S : m <= GreatestOf(S)
    BY <1>2, <1>6, GreatestIsGreatest
  <2> QED
    BY <1>2, <1>3, <1>4, <2>1 DEF ApiAssumption
<1> QED
  BY <1>5, <1>6

LEMMA RowsCounted ==
    ASSUME stored \subseteq Sig, rows = RowsOf(stored), NEW t \in Table
    PROVE  /\ Cardinality(RowsIn(t)) \in Nat
           /\ \A S \in SUBSET stored : /\ Cardinality(CallsIn(S, t)) \in Nat
                                       /\ Cardinality(CallsIn(S, t)) <= Cardinality(RowsIn(t))
<1>1. RowsIn(t) = {r \in RowsOf(stored) : r[2] = t}
  BY DEF RowsIn
<1> QED
  BY <1>1, CallsHaveRows
-----------------------------------------------------------------------------
(* Nothing is asked of the empty database.                                   *)
LEMMA InitHolds == Init => ApiInv
<1> SUFFICES ASSUME Init PROVE ApiInv
  OBVIOUS
<1> USE DEF Init, StoreInit, Nothing, Places
<1>1. TypeOK
  BY DEF TypeOK
<1>2. StoreConsistent
  BY DEF StoreConsistent, RowsOf
<1>3. GotShape
  BY DEF GotShape
<1>4. StatsSoFar /\ FollowedSoFar /\ AccountSoFar
  BY DEF StatsSoFar, FollowedSoFar, AccountSoFar
<1> QED
  BY <1>1, <1>2, <1>3, <1>4 DEF ApiInv

(* A commit adds to what a request has read, and takes nothing away.         *)
LEMMA IndexerKeeps ==
    ASSUME ApiInv,
           stored \subseteq stored', stored' \subseteq Sig, rows' = RowsOf(stored'),
           rows \subseteq rows', sigMark' \in Sig \cup {None},
           sigMark' # None => sigMark' \in stored', stored' # {} => sigMark' # None,
           accs \subseteq accs', accs' \subseteq Addr \X {SlotOf[s] : s \in Sig},
           clock' \in Nat, stamp' \in [rows' -> 0..(clock' - 1)],
           UNCHANGED client
    PROVE  ApiInv'
<1> USE DEF client
<1>1. TypeOK'
  <2>1. rows' \subseteq Sig \X Table
    BY DEF RowsOf, ApiAssumption
  <2>2. accs' \subseteq Addr \X Nat
    BY DEF ApiAssumption
  <2>3. (before \subseteq stored /\ got.listed \subseteq rows)'
    BY DEF ApiInv, TypeOK
  <2> QED
    BY <2>1, <2>2, <2>3 DEF ApiInv, TypeOK
<1>2. StoreConsistent'
  BY DEF StoreConsistent
<1>3. GotShape'
  BY DEF ApiInv, GotShape
<1>4. StatsSoFar'
  BY DEF ApiInv, StatsSoFar, CallsIn
<1>5. FollowedSoFar'
  BY DEF ApiInv, FollowedSoFar, RowsOf
<1>6. AccountSoFar'
  BY DEF ApiInv, AccountSoFar
<1> QED
  BY <1>1, <1>2, <1>3, <1>4, <1>5, <1>6 DEF ApiInv

(* A SELECT reads only.                                                      *)
LEMMA ClientKeeps ==
    ASSUME ApiInv, UNCHANGED indexer,
           before' \subseteq stored, got'.listed \subseteq rows,
           at' \in Places, GotShape', StatsSoFar', FollowedSoFar', AccountSoFar'
    PROVE  ApiInv'
<1>1. TypeOK'
  BY DEF ApiInv, TypeOK, GotShape, indexer, storeVars
<1>2. StoreConsistent'
  BY DEF ApiInv, StoreConsistent, indexer, storeVars
<1> QED
  BY <1>1, <1>2 DEF ApiInv
-----------------------------------------------------------------------------
LEMMA StoreKeeps ==
    ASSUME ApiInv, Chunk \/ Mark
    PROVE  ApiInv'
<1>1. CASE Chunk
  <2>1. PICK S \in SUBSET Sig, last \in Sig :
           /\ last \in S
           /\ CommitBatch(S, last)
           /\ accs' = accs \cup UNION {Touches[s] \X {SlotOf[s]} : s \in S}
    BY <1>1 DEF Chunk
  <2>2. stored' = stored \cup S /\ sigMark' = last /\ rows' = rows \cup RowsOf(S)
    BY <2>1 DEF CommitBatch
  <2>3. rows' = RowsOf(stored')
    BY <2>2 DEF RowsOf, ApiInv, StoreConsistent
  <2>4. accs' \subseteq Addr \X {SlotOf[s] : s \in Sig}
    BY <2>1 DEF ApiInv, StoreConsistent, ApiAssumption
  <2>5. clock' = clock + 1 /\ clock' \in Nat
    BY <1>1 DEF Chunk, ApiInv, TypeOK
  <2>6. stamp' \in [rows' -> 0..(clock' - 1)]
    <3>1. stamp' = [r \in rows' |-> IF r \in rows THEN stamp[r] ELSE clock]
      BY <1>1 DEF Chunk
    <3>2. \A r \in rows : stamp[r] \in 0..(clock' - 1)
      BY <2>5 DEF ApiInv, TypeOK
    <3>3. clock \in 0..(clock' - 1)
      BY <2>5 DEF ApiInv, TypeOK
    <3> QED
      BY <3>1, <3>2, <3>3
  <2>7. UNCHANGED client
    BY <1>1 DEF Chunk
  <2>8. /\ stored' \subseteq Sig /\ sigMark' \in Sig \cup {None} /\ sigMark' \in stored'
        /\ stored \subseteq stored' /\ rows \subseteq rows'
    BY <2>1, <2>2 DEF ApiInv, TypeOK
  <2>9. accs \subseteq accs' /\ sigMark' # None
    BY <2>1, <2>2 DEF ApiAssumption
  <2> QED
    BY <2>3, <2>4, <2>5, <2>6, <2>7, <2>8, <2>9, IndexerKeeps
<1>2. CASE Mark
  <2>1. UNCHANGED <<stored, rows, sigMark, clock, stamp, accs>> /\ UNCHANGED client
    BY <1>2 DEF Mark, SaveSlot
  <2>2. stored' \subseteq Sig /\ rows' = RowsOf(stored') /\ sigMark' \in Sig \cup {None}
    BY <2>1 DEF ApiInv, TypeOK, StoreConsistent
  <2>3. /\ sigMark' # None => sigMark' \in stored'
        /\ stored' # {} => sigMark' # None
        /\ accs' \subseteq Addr \X {SlotOf[s] : s \in Sig}
    BY <2>1 DEF ApiInv, StoreConsistent
  <2>4. clock' \in Nat /\ stamp' \in [rows' -> 0..(clock' - 1)]
    BY <2>1 DEF ApiInv, TypeOK
  <2> QED
    BY <2>1, <2>2, <2>3, <2>4, IndexerKeeps
<1> QED
  BY <1>1, <1>2

LEMMA RespondKeeps ==
    ASSUME ApiInv, Respond
    PROVE  ApiInv'
<1> USE DEF Respond, Nothing
<1>1. at' \in Places /\ GotShape'
  BY DEF Places, GotShape
<1>2. StatsSoFar' /\ FollowedSoFar' /\ AccountSoFar'
  BY DEF StatsSoFar, FollowedSoFar, AccountSoFar
<1> QED
  BY <1>1, <1>2, ClientKeeps
-----------------------------------------------------------------------------
(* GET /stats.                                                               *)
LEMMA StatsKeep ==
    ASSUME ApiInv, CountTxs \/ FirstSlot \/ LastSlot \/ Checkpoint
    PROVE  ApiInv'
<1> USE DEF Ask, Select, Nothing
<1>1. CASE CountTxs
  <2>1. IsFiniteSet(stored) /\ Cardinality(stored) \in Nat
    BY FS_Subset, FS_CardinalityType DEF ApiInv, TypeOK, ApiAssumption
  <2>2. at' \in Places /\ GotShape'
    BY <1>1, <2>1 DEF CountTxs, Places, GotShape
  <2>3. StatsSoFar' /\ FollowedSoFar' /\ AccountSoFar'
    BY <1>1 DEF CountTxs, StatsSoFar, FollowedSoFar, AccountSoFar
  <2>4. before' \subseteq stored /\ got'.listed \subseteq rows /\ UNCHANGED indexer
    BY <1>1 DEF CountTxs
  <2> QED
    BY <2>2, <2>3, <2>4, ClientKeeps
<1>2. CASE FirstSlot
  <2>1. /\ LeastOf(Slots) \in Nat \cup {None}
        /\ \A s \in before : LeastOf(Slots) # None /\ LeastOf(Slots) <= SlotOf[s]
    BY SlotsFound DEF ApiInv, TypeOK
  <2>2. at' \in Places /\ GotShape'
    BY <1>2, <2>1 DEF FirstSlot, Places, ApiInv, GotShape
  <2>3. StatsSoFar' /\ FollowedSoFar' /\ AccountSoFar'
    BY <1>2, <2>1 DEF FirstSlot, ApiInv, GotShape, StatsSoFar, FollowedSoFar, AccountSoFar
  <2>4. before' \subseteq stored /\ got'.listed \subseteq rows /\ UNCHANGED indexer
    BY <1>2 DEF FirstSlot, ApiInv, TypeOK, GotShape
  <2> QED
    BY <2>2, <2>3, <2>4, ClientKeeps
<1>3. CASE LastSlot
  <2>1. /\ GreatestOf(Slots) \in Nat \cup {None}
        /\ \A s \in before : GreatestOf(Slots) # None /\ SlotOf[s] <= GreatestOf(Slots)
    BY SlotsFound DEF ApiInv, TypeOK
  <2>2. at' \in Places /\ GotShape'
    BY <1>3, <2>1 DEF LastSlot, Places, ApiInv, GotShape
  <2>3. StatsSoFar' /\ FollowedSoFar' /\ AccountSoFar'
    BY <1>3, <2>1 DEF LastSlot, ApiInv, GotShape, StatsSoFar, FollowedSoFar, AccountSoFar
  <2>4. before' \subseteq stored /\ got'.listed \subseteq rows /\ UNCHANGED indexer
    BY <1>3 DEF LastSlot, ApiInv, TypeOK, GotShape
  <2> QED
    BY <2>2, <2>3, <2>4, ClientKeeps
<1>4. CASE Checkpoint
  <2>1. sigMark \in Sig \cup {None} /\ (before # {} => sigMark # None)
    BY DEF ApiInv, TypeOK, StoreConsistent
  <2>2. at' \in Places /\ GotShape'
    BY <1>4, <2>1 DEF Checkpoint, Places, ApiInv, GotShape
  <2>3. StatsSoFar' /\ FollowedSoFar' /\ AccountSoFar'
    BY <1>4, <2>1 DEF Checkpoint, ApiInv, GotShape, StatsSoFar, FollowedSoFar, AccountSoFar
  <2>4. before' \subseteq stored /\ got'.listed \subseteq rows /\ UNCHANGED indexer
    BY <1>4 DEF Checkpoint, ApiInv, TypeOK, GotShape
  <2> QED
    BY <2>2, <2>3, <2>4, ClientKeeps
<1> QED
  BY <1>1, <1>2, <1>3, <1>4

LEMMA CountsKeep ==
    ASSUME ApiInv, CountCalls
    PROVE  ApiInv'
<1>1. PICK t \in got.left :
        Select("counts",
               [got EXCEPT !.counts[t] = Cardinality(RowsIn(t)), !.left = @ \ {t}],
               IF got.left = {t} THEN "stats" ELSE "counts")
  BY DEF CountCalls
<1>2. t \in Table
  BY DEF ApiInv, GotShape
<1>3. /\ Cardinality(RowsIn(t)) \in Nat
      /\ Cardinality(CallsIn(before, t)) <= Cardinality(RowsIn(t))
  BY <1>2, RowsCounted DEF ApiInv, TypeOK, StoreConsistent
<1>4. /\ got'.total = got.total /\ got'.first = got.first /\ got'.last = got.last
      /\ got'.mark = got.mark /\ got'.listed = got.listed
      /\ got'.left = got.left \ {t}
      /\ got'.counts = [got.counts EXCEPT ![t] = Cardinality(RowsIn(t))]
  BY <1>1 DEF Select, ApiInv, GotShape
<1>5. at' \in Places /\ GotShape'
  BY <1>1, <1>2, <1>3 DEF Select, Places, ApiInv, GotShape
<1>6. before' \subseteq stored /\ got'.listed \subseteq rows /\ UNCHANGED indexer
  BY <1>1, <1>4 DEF Select, ApiInv, TypeOK
<1>7. /\ at = "counts" /\ before' = before /\ at' \in {"counts", "stats"}
      /\ at' = "stats" => got'.left = {}
  BY <1>1, <1>4 DEF Select
<1>8. \A u \in Table \ got'.left : Cardinality(CallsIn(before, u)) <= got'.counts[u]
  <2> SUFFICES ASSUME NEW u \in Table \ got'.left
               PROVE  Cardinality(CallsIn(before, u)) <= got'.counts[u]
    OBVIOUS
  <2>1. got.counts \in [Table -> Nat]
    BY DEF ApiInv, GotShape
  <2>2. CASE u = t
    BY <1>2, <1>3, <1>4, <2>1, <2>2
  <2>3. CASE u # t
    <3>1. u \in Table \ got.left
      BY <1>4, <2>3
    <3>2. got'.counts[u] = got.counts[u]
      BY <1>4, <2>1, <2>3
    <3> QED
      BY <1>7, <3>1, <3>2 DEF ApiInv, StatsSoFar
  <2> QED
    BY <2>2, <2>3
<1>9. StatsSoFar'
  <2>1. /\ got.total = Cardinality(before)
        /\ \A s \in before : got.first # None /\ got.first <= SlotOf[s]
        /\ \A s \in before : got.last # None /\ SlotOf[s] <= got.last
        /\ before # {} => got.mark # None
    BY <1>7 DEF ApiInv, StatsSoFar
  <2> QED
    BY <1>4, <1>7, <1>8, <2>1 DEF StatsSoFar
<1>10. FollowedSoFar' /\ AccountSoFar'
  BY <1>7 DEF FollowedSoFar, AccountSoFar
<1> QED
  BY <1>5, <1>6, <1>9, <1>10, ClientKeeps

(* The checkpoint of GET /health, its transaction and its calls.             *)
LEMMA FollowKeeps ==
    ASSUME ApiInv, Health \/ GetTx \/ ListIxOfTx
    PROVE  ApiInv'
<1> USE DEF Ask, Select, Nothing
<1>1. CASE Health
  <2>1. sigMark \in stored /\ sigMark \in Sig
    BY <1>1 DEF Health, ApiInv, TypeOK, StoreConsistent
  <2>2. at' \in Places /\ GotShape'
    BY <1>1, <2>1 DEF Health, Places, GotShape
  <2>3. UNCHANGED <<stored, rows, sigMark, slotMark, clock, stamp, accs>>
    BY <1>1 DEF Health, indexer, storeVars
  <2>4. StatsSoFar' /\ FollowedSoFar' /\ AccountSoFar'
    BY <1>1, <2>1, <2>3 DEF Health, StatsSoFar, FollowedSoFar, AccountSoFar
  <2>5. before' \subseteq stored /\ got'.listed \subseteq rows /\ UNCHANGED indexer
    BY <1>1 DEF Health
  <2> QED
    BY <2>2, <2>4, <2>5, ClientKeeps
<1>2. CASE GetTx
  <2>1. about \in stored
    BY <1>2 DEF GetTx, ApiInv, FollowedSoFar
  <2>2. Cardinality(stored \cap {about}) = 1
    <3>1. stored \cap {about} = {about}
      BY <2>1
    <3> QED
      BY <3>1, FS_Singleton
  <2>3. at' \in Places /\ GotShape'
    BY <1>2, <2>2 DEF GetTx, Places, ApiInv, GotShape
  <2>4. UNCHANGED <<stored, rows, sigMark, slotMark, clock, stamp, accs>>
    BY <1>2 DEF GetTx, indexer, storeVars
  <2>5. got'.total = 1
    BY <1>2, <2>2 DEF GetTx, ApiInv, GotShape
  <2>6. StatsSoFar' /\ FollowedSoFar' /\ AccountSoFar'
    BY <1>2, <2>1, <2>4, <2>5 DEF GetTx, StatsSoFar, FollowedSoFar, AccountSoFar
  <2>7. before' \subseteq stored /\ got'.listed \subseteq rows /\ UNCHANGED indexer
    BY <1>2 DEF GetTx, ApiInv, TypeOK, GotShape
  <2> QED
    BY <2>3, <2>6, <2>7, ClientKeeps
<1>3. CASE ListIxOfTx
  <2> DEFINE R == {r \in rows : r[1] = about}
  <2>1. about \in stored /\ got.total = 1
    BY <1>3 DEF ListIxOfTx, ApiInv, FollowedSoFar
  <2>2. R \subseteq rows /\ R \in SUBSET (Sig \X Table)
    BY DEF ApiInv, TypeOK
  <2>3. R = RowsOf({about})
    BY <2>1 DEF ApiInv, StoreConsistent, RowsOf
  <2>4. /\ at = "calls" /\ at' = "followed" /\ got' = [got EXCEPT !.listed = R]
        /\ UNCHANGED <<indexer, about, before>>
    BY <1>3 DEF ListIxOfTx
  <2> HIDE DEF R
  <2>5. at' \in Places /\ GotShape'
    BY <2>2, <2>4 DEF Places, ApiInv, GotShape
  <2>6. got'.total = 1 /\ got'.listed = R
    BY <2>1, <2>4 DEF ApiInv, GotShape
  <2>7. UNCHANGED <<stored, about>>
    BY <2>4 DEF indexer, storeVars
  <2>8. RowsOf({about})' = RowsOf({about})
    BY <2>7 DEF RowsOf
  <2>9. StatsSoFar' /\ AccountSoFar'
    BY <2>4 DEF StatsSoFar, AccountSoFar
  <2>10. FollowedSoFar'
    BY <2>1, <2>3, <2>4, <2>6, <2>7, <2>8 DEF FollowedSoFar
  <2>11. before' \subseteq stored /\ got'.listed \subseteq rows /\ UNCHANGED indexer
    BY <2>2, <2>4, <2>6 DEF ApiInv, TypeOK
  <2> QED
    BY <2>5, <2>9, <2>10, <2>11, ClientKeeps
<1> QED
  BY <1>1, <1>2, <1>3

(* GET /accounts, twice.                                                     *)
LEMMA AccountKeeps ==
    ASSUME ApiInv, GetAccount \/ GetAccountAgain
    PROVE  ApiInv'
<1> USE DEF Ask, Select, Nothing
<1>1. CASE GetAccount
  <2>1. PICK a \in Addr : Ask(a, [Nothing EXCEPT !.first = LatestSlot(a)], "again")
    BY <1>1 DEF GetAccount
  <2>2. /\ LatestSlot(a) \in Nat \cup {None}
        /\ LatestSlot(a) # None => <<a, LatestSlot(a)>> \in accs
    BY LatestFound DEF ApiInv, StoreConsistent
  <2>3. at' \in Places /\ GotShape'
    BY <2>1, <2>2 DEF Places, GotShape
  <2>4. accs' = accs
    BY <2>1 DEF indexer, storeVars
  <2>5. StatsSoFar' /\ FollowedSoFar' /\ AccountSoFar'
    BY <2>1, <2>2, <2>4 DEF StatsSoFar, FollowedSoFar, AccountSoFar
  <2>6. before' \subseteq stored /\ got'.listed \subseteq rows /\ UNCHANGED indexer
    BY <2>1
  <2> QED
    BY <2>3, <2>5, <2>6, ClientKeeps
<1>2. CASE GetAccountAgain
  <2>1. /\ LatestSlot(about) \in Nat \cup {None}
        /\ \A n : <<about, n>> \in accs =>
                     n \in Nat /\ LatestSlot(about) # None /\ n <= LatestSlot(about)
    BY LatestFound DEF ApiInv, StoreConsistent
  <2>2. /\ at = "again" /\ at' = "compared"
        /\ got' = [got EXCEPT !.last = LatestSlot(about)]
        /\ UNCHANGED <<indexer, about, before>>
    BY <1>2 DEF GetAccountAgain
  <2>3. at' \in Places /\ GotShape'
    BY <2>1, <2>2 DEF Places, ApiInv, GotShape
  <2>4. got'.first = got.first /\ got'.last = LatestSlot(about) /\ got'.listed = got.listed
    BY <2>2 DEF ApiInv, GotShape
  <2>5. UNCHANGED <<accs, about>>
    BY <2>2 DEF indexer, storeVars
  <2>6. got.first # None => <<about, got.first>> \in accs
    BY <2>2 DEF ApiInv, AccountSoFar
  <2>7. StatsSoFar' /\ FollowedSoFar'
    BY <2>2 DEF StatsSoFar, FollowedSoFar
  <2>8. AccountSoFar'
    BY <2>1, <2>2, <2>4, <2>5, <2>6 DEF AccountSoFar
  <2>9. before' \subseteq stored /\ got'.listed \subseteq rows /\ UNCHANGED indexer
    BY <2>2, <2>4 DEF ApiInv, TypeOK
  <2> QED
    BY <2>3, <2>7, <2>8, <2>9, ClientKeeps
<1> QED
  BY <1>1, <1>2

(* GET /ix/{name}/stats.                                                     *)
LEMMA SeriesKeep ==
    ASSUME ApiInv, IxCallCount \/ IxTimeSeries
    PROVE  ApiInv'
<1> USE DEF Ask, Select, Nothing
<1>1. CASE IxCallCount
  <2>1. PICK t \in Table :
           Ask(t, [Nothing EXCEPT !.total = Cardinality(RowsIn(t))], "periods")
    BY <1>1 DEF IxCallCount
  <2>2. Cardinality(RowsIn(t)) \in Nat
    BY RowsCounted DEF ApiInv, TypeOK, StoreConsistent
  <2>3. at' \in Places /\ GotShape'
    BY <2>1, <2>2 DEF Places, GotShape
  <2>4. StatsSoFar' /\ FollowedSoFar' /\ AccountSoFar'
    BY <2>1 DEF StatsSoFar, FollowedSoFar, AccountSoFar
  <2>5. before' \subseteq stored /\ got'.listed \subseteq rows /\ UNCHANGED indexer
    BY <2>1
  <2> QED
    BY <2>3, <2>4, <2>5, ClientKeeps
<1>2. CASE IxTimeSeries
  <2>1. PICK from \in 0..clock, to \in 0..clock :
           Select("periods",
                  [got EXCEPT !.series = Series(Within(about, from, to)),
                              !.first = from, !.last = to],
                  "series")
    BY <1>2 DEF IxTimeSeries
  <2>2. from \in Nat /\ to \in Nat
    BY DEF ApiInv, TypeOK
  <2> DEFINE periods == Series(Within(about, from, to))
  <2>3. /\ at' = "series" /\ got' = [got EXCEPT !.series = periods, !.first = from, !.last = to]
        /\ UNCHANGED <<indexer, about, before>>
    BY <2>1
  <2> HIDE DEF periods
  <2>4. at' \in Places /\ GotShape' /\ got'.listed = got.listed
    BY <2>2, <2>3 DEF Places, ApiInv, GotShape
  <2>5. StatsSoFar' /\ FollowedSoFar' /\ AccountSoFar'
    BY <2>3 DEF StatsSoFar, FollowedSoFar, AccountSoFar
  <2>6. before' \subseteq stored /\ got'.listed \subseteq rows /\ UNCHANGED indexer
    BY <2>3, <2>4 DEF ApiInv, TypeOK
  <2> QED
    BY <2>4, <2>5, <2>6, ClientKeeps
<1> QED
  BY <1>1, <1>2

(* Paging through GET /ix/{name}.                                            *)
LEMMA PagingKeeps ==
    ASSUME ApiInv, FirstPage \/ NextPage
    PROVE  ApiInv'
<1> USE DEF Ask, Select, Nothing
<1>1. \A t, offset : \A page \in Page(t, offset) : page \subseteq rows
  BY DEF Page, Newest, RowsIn
<1>2. \A page : After(page) \in {"listed", "page"}
  BY DEF After
<1>3. rows \subseteq Sig \X Table
  BY DEF ApiInv, TypeOK
<1>4. PageSize \in Nat
  BY DEF ApiAssumption
<1>5. CASE FirstPage
  <2>1. PICK t \in Table : \E page \in Page(t, 0) :
           Ask(t, [Nothing EXCEPT !.total = PageSize, !.listed = page], After(page))
    BY <1>5 DEF FirstPage
  <2>2. PICK page \in Page(t, 0) :
           Ask(t, [Nothing EXCEPT !.total = PageSize, !.listed = page], After(page))
    BY <2>1
  <2>3. page \subseteq rows /\ at' \in {"listed", "page"}
    BY <1>1, <1>2, <2>2
  <2>4. at' \in Places /\ GotShape'
    <3>1. page \in SUBSET (Sig \X Table)
      BY <1>3, <2>3
    <3>2. got' = [Nothing EXCEPT !.total = PageSize, !.listed = page]
      BY <2>2
    <3>3. GotShape'
      BY <1>4, <3>1, <3>2 DEF GotShape
    <3> QED
      BY <2>3, <3>3 DEF Places
  <2>5. StatsSoFar' /\ FollowedSoFar' /\ AccountSoFar'
    BY <2>3 DEF StatsSoFar, FollowedSoFar, AccountSoFar
  <2>6. before' \subseteq stored /\ got'.listed \subseteq rows /\ UNCHANGED indexer
    BY <2>2, <2>3
  <2> QED
    BY <2>4, <2>5, <2>6, ClientKeeps
<1>6. CASE NextPage
  <2>1. PICK page \in Page(about, got.total) :
           Select("page",
                  [got EXCEPT !.total = @ + PageSize, !.listed = @ \cup page],
                  After(page))
    BY <1>6 DEF NextPage
  <2>2. page \subseteq rows /\ at' \in {"listed", "page"}
    BY <1>1, <1>2, <2>1
  <2>3. /\ got' = [got EXCEPT !.total = @ + PageSize, !.listed = @ \cup page]
        /\ UNCHANGED <<indexer, about, before>>
    BY <2>1
  <2>4. at' \in Places /\ GotShape' /\ got'.listed = got.listed \cup page
    <3>1. page \in SUBSET (Sig \X Table)
      BY <1>3, <2>2
    <3>2. GotShape
      BY DEF ApiInv
    <3>3. got.total + PageSize \in Nat /\ got.listed \cup page \in SUBSET (Sig \X Table)
      BY ONLY <1>4, <3>1, <3>2 DEF GotShape
    <3>4. got' = [got EXCEPT !.total = got.total + PageSize,
                             !.listed = got.listed \cup page]
      BY <2>3
    <3>5. GotShape' /\ got'.listed = got.listed \cup page
      BY ONLY <3>2, <3>3, <3>4 DEF GotShape
    <3> QED
      BY <2>2, <3>5 DEF Places
  <2>5. StatsSoFar' /\ FollowedSoFar' /\ AccountSoFar'
    BY <2>2 DEF StatsSoFar, FollowedSoFar, AccountSoFar
  <2>6. before' \subseteq stored /\ got'.listed \subseteq rows /\ UNCHANGED indexer
    BY <2>2, <2>3, <2>4 DEF ApiInv, TypeOK
  <2> QED
    BY <2>4, <2>5, <2>6, ClientKeeps
<1> QED
  BY <1>5, <1>6
-----------------------------------------------------------------------------
LEMMA StutterKeeps ==
    ASSUME ApiInv, UNCHANGED vars
    PROVE  ApiInv'
  BY DEF vars, indexer, client, storeVars, ApiInv, TypeOK, StoreConsistent, GotShape,
         StatsSoFar, FollowedSoFar, AccountSoFar, CallsIn, RowsOf

(* What a request has read so far is consistent with the store, with no      *)
(* transaction around its SELECTs, because the store only grows.             *)
THEOREM ApiInvariant == Spec => []ApiInv
<1>1. Init => ApiInv
  BY InitHolds
<1>2. ApiInv /\ [Next]_vars => ApiInv'
  BY StoreKeeps, RespondKeeps, StatsKeep, CountsKeep, FollowKeeps, AccountKeeps,
     SeriesKeep, PagingKeeps, StutterKeeps
     DEF Next
<1> QED
  BY <1>1, <1>2, PTL DEF Spec

(* The store, the times of its rows and the client's rows are well typed.    *)
THEOREM ApiTypeCorrect == Spec => []TypeOK
<1>1. ApiInv => TypeOK
  BY DEF ApiInv
<1> QED
  BY <1>1, ApiInvariant, PTL

(* GET /stats adds up (queries.rs:489), whatever is committed between its    *)
(* SELECTs: the total comes first, and everything after it has grown since.  *)
THEOREM StatsTrustworthy == Spec => []StatsAddUp
<1>1. ApiInv => StatsAddUp
  <2> SUFFICES ASSUME ApiInv, at = "stats" PROVE StatsAddUp
    BY DEF StatsAddUp
  <2>1. /\ got.total = Cardinality(before)
        /\ before # {} => got.mark # None
        /\ \A s \in before : /\ got.first # None /\ got.first <= SlotOf[s]
                             /\ got.last # None /\ SlotOf[s] <= got.last
        /\ \A t \in Table : Cardinality(CallsIn(before, t)) <= got.counts[t]
    BY DEF ApiInv, StatsSoFar
  <2> QED
    BY <2>1 DEF StatsAddUp
<1> QED
  BY <1>1, ApiInvariant, PTL

(* The checkpoint GET /health names leads to its transaction and its calls.  *)
THEOREM CheckpointFollowed == Spec => []CheckpointCanBeFollowed
<1>1. ApiInv => CheckpointCanBeFollowed
  BY DEF ApiInv, FollowedSoFar, CheckpointCanBeFollowed
<1> QED
  BY <1>1, ApiInvariant, PTL

(* The latest state of an account is never followed by an earlier one.       *)
THEOREM LatestAdvances == Spec => []LatestNeverGoesBack
<1>1. ApiInv => LatestNeverGoesBack
  BY DEF ApiInv, AccountSoFar, LatestNeverGoesBack
<1> QED
  BY <1>1, ApiInvariant, PTL
-----------------------------------------------------------------------------
(* The answers that count rows: GET /ix/{name}/stats and the pages of        *)
(* GET /ix/{name}.                                                           *)

(* Min of two numbers, as LIMIT uses it.                                     *)
LEMMA MinOfTwo ==
    ASSUME NEW k \in Nat, NEW n \in Nat
    PROVE  Min({k, n}) = IF k <= n THEN k ELSE n
<1> DEFINE m == IF k <= n THEN k ELSE n
<1>1. m \in {k, n} /\ \A y \in {k, n} : m <= y
  OBVIOUS
<1>2. ASSUME NEW x \in {k, n}, \A y \in {k, n} : x <= y PROVE x = m
  BY <1>2
<1> HIDE DEF m
<1>3. Min({k, n}) \in {k, n} /\ \A y \in {k, n} : Min({k, n}) <= y
  BY <1>1 DEF Min
<1>4. Min({k, n}) = m
  BY <1>2, <1>3
<1> QED
  BY <1>4 DEF m

(* There are finitely many rows, and the more rows the larger their number.  *)
LEMMA RowsAreFinite ==
    ASSUME NEW R \in SUBSET (Sig \X Table)
    PROVE  /\ IsFiniteSet(R) /\ Cardinality(R) \in Nat
           /\ \A Q \in SUBSET R : /\ IsFiniteSet(Q) /\ Cardinality(Q) \in Nat
                                 /\ Cardinality(Q) <= Cardinality(R)
<1>1. IsFiniteSet(Sig \X Table)
  BY FS_Product DEF ApiAssumption
<1>2. IsFiniteSet(R) /\ Cardinality(R) \in Nat
  BY <1>1, FS_Subset, FS_CardinalityType
<1> QED
  BY <1>2, FS_Subset, FS_CardinalityType

LEMMA DisjointCount ==
    ASSUME NEW S, NEW T, IsFiniteSet(S), IsFiniteSet(T), S \cap T = {}
    PROVE  Cardinality(S \cup T) = Cardinality(S) + Cardinality(T)
<1>1. /\ Cardinality(S) \in Nat /\ Cardinality(T) \in Nat
      /\ Cardinality(S \cup T) = Cardinality(S) + Cardinality(T) - Cardinality(S \cap T)
  BY FS_Union, FS_CardinalityType
<1>2. Cardinality(S \cap T) = 0
  BY FS_EmptySet
<1> QED
  BY <1>1, <1>2

(* A commit adds rows; those stored before keep their created_at.            *)
LEMMA RowsOnlyGrow ==
    ASSUME ApiInv, Chunk \/ Mark
    PROVE  /\ rows \subseteq rows' /\ \A r \in rows : stamp'[r] = stamp[r]
           /\ UNCHANGED client
<1>1. CASE Chunk
  <2>1. rows \subseteq rows'
    BY <1>1 DEF Chunk, CommitBatch
  <2>2. stamp' = [r \in rows' |-> IF r \in rows THEN stamp[r] ELSE clock]
    BY <1>1 DEF Chunk
  <2>3. UNCHANGED client
    BY <1>1 DEF Chunk
  <2> QED
    BY <2>1, <2>2, <2>3
<1>2. CASE Mark
  BY <1>2 DEF Mark, SaveSlot
<1> QED
  BY <1>1, <1>2
-----------------------------------------------------------------------------
(* The time series.  Its sum is a fold over the periods: the fold is the     *)
(* number of rows in the periods taken so far.                               *)
LEMMA SeriesSums ==
    ASSUME NEW R, IsFiniteSet(R), \A r \in R : stamp[r] \in Nat
    PROVE  SumOf(Series(R)) = Cardinality(R)
<1> DEFINE
      period(r) == stamp[r] \div BucketSize
      D == {period(r) : r \in R}
      In(P) == {r \in R : period(r) \in P}
      count == [P \in SUBSET D |-> Cardinality(In(P))]
      first(P) == CHOOSE p \in P : TRUE
      Eq(f) == f = [P \in SUBSET D |->
                      IF P = {} THEN 0 ELSE Series(R)[first(P)] + f[P \ {first(P)}]]
<1>1. DOMAIN Series(R) = D
  BY DEF Series
<1>2. \A P \in SUBSET D : IsFiniteSet(In(P)) /\ Cardinality(In(P)) \in Nat
  BY FS_Subset, FS_CardinalityType
<1>3. ASSUME NEW P \in SUBSET D, NEW p \in P
      PROVE  Cardinality(In(P)) = Series(R)[p] + Cardinality(In(P \ {p}))
  <2>1. Series(R)[p] = Cardinality(In({p}))
    <3>1. Series(R)[p] = Cardinality({r \in R : period(r) = p})
      BY DEF Series
    <3>2. {r \in R : period(r) = p} = In({p})
      OBVIOUS
    <3> QED
      BY <3>1, <3>2
  <2>2. In(P) = In({p}) \cup In(P \ {p}) /\ In({p}) \cap In(P \ {p}) = {}
    OBVIOUS
  <2>3. {p} \in SUBSET D /\ P \ {p} \in SUBSET D
    OBVIOUS
  <2> HIDE DEF In, D
  <2>4. /\ IsFiniteSet(In({p})) /\ Cardinality(In({p})) \in Nat
        /\ IsFiniteSet(In(P \ {p})) /\ Cardinality(In(P \ {p})) \in Nat
    BY <1>2, <2>3
  <2>5. Cardinality(In({p}) \cup In(P \ {p}))
          = Cardinality(In({p})) + Cardinality(In(P \ {p}))
    BY ONLY <2>2, <2>4, DisjointCount
  <2>6. Cardinality(In(P)) = Cardinality(In({p}) \cup In(P \ {p}))
    BY <2>2
  <2> QED
    BY ONLY <2>1, <2>5, <2>6
<1>4. Eq(count)
  <2>1. In({}) = {}
    OBVIOUS
  <2>2. ASSUME NEW P \in SUBSET D
        PROVE  count[P] = IF P = {} THEN 0
                          ELSE Series(R)[first(P)] + count[P \ {first(P)}]
    <3>1. CASE P = {}
      BY <2>1, <3>1, FS_EmptySet
    <3>2. CASE P # {}
      <4>1. first(P) \in P
        BY <3>2
      <4>2. P \ {first(P)} \in SUBSET D
        OBVIOUS
      <4>3. count[P] = Cardinality(In(P))
               /\ count[P \ {first(P)}] = Cardinality(In(P \ {first(P)}))
        BY <4>2
      <4> HIDE DEF In, D, first, count
      <4> QED
        BY <1>3, <3>2, <4>1, <4>3
    <3> QED
      BY <3>1, <3>2
  <2>3. count = [P \in SUBSET D |-> count[P]]
    OBVIOUS
  <2> HIDE DEF count, first, In, D
  <2> QED
    BY <2>2, <2>3
(* Any other solution would differ first at some smallest set of periods.    *)
<1>5. ASSUME NEW f, Eq(f) PROVE f[D] = count[D]
  <2> DEFINE Bad == {n \in Nat : \E P \in SUBSET D : Cardinality(P) = n /\ f[P] # count[P]}
  <2>1. IsFiniteSet(D) /\ \A P \in SUBSET D : IsFiniteSet(P) /\ Cardinality(P) \in Nat
    <3>1. [r \in R |-> period(r)] \in Surjection(R, D)
      BY DEF Surjection
    <3>2. IsFiniteSet(D)
      <4> HIDE DEF D
      <4> QED
        BY <3>1, FS_Surjection
    <3> QED
      BY <3>2, FS_Subset, FS_CardinalityType
  <2> HIDE DEF D, count, first, In
  <2>2. ASSUME NEW n \in Bad, \A m \in Bad : n <= m PROVE FALSE
    <3>1. PICK P \in SUBSET D : Cardinality(P) = n /\ f[P] # count[P]
      BY <2>2
    <3>2. CASE P = {}
      <4>1. f[P] = 0 /\ count[P] = 0
        BY <1>4, <1>5, <3>2
      <4> QED
        BY <3>1, <4>1
    <3>3. CASE P # {}
      <4>1. first(P) \in P
        BY <3>3 DEF first
      <4>2. P \ {first(P)} \in SUBSET D
        OBVIOUS
      <4>3. Cardinality(P \ {first(P)}) = n - 1 /\ n \in Nat /\ Cardinality(P \ {first(P)}) \in Nat
        BY <2>1, <3>1, <4>1, <4>2, FS_RemoveElement
      <4>4. n - 1 \notin Bad
        BY <2>2, <4>3
      <4>5. f[P \ {first(P)}] = count[P \ {first(P)}]
        BY <4>2, <4>3, <4>4
      <4>6. /\ f[P] = Series(R)[first(P)] + f[P \ {first(P)}]
            /\ count[P] = Series(R)[first(P)] + count[P \ {first(P)}]
        BY <1>4, <1>5, <3>3
      <4> QED
        BY <3>1, <4>5, <4>6
    <3> QED
      BY <3>2, <3>3
  <2>3. Bad = {}
    <3>1. Bad \in SUBSET Nat
      OBVIOUS
    <3> HIDE DEF Bad
    <3> QED
      BY <2>2, <3>1, LeastExists
  <2>4. D \in SUBSET D
    OBVIOUS
  <2> QED
    BY <2>1, <2>3, <2>4
<1>6. SumOf(Series(R)) = (CHOOSE f : Eq(f))[D]
  <2>1. SumOf(Series(R)) = MapThenSumSet(LAMBDA p : Series(R)[p], D)
    BY <1>1 DEF SumOf
  <2> QED
    BY <2>1 DEF MapThenSumSet, MapThenFoldSet
<1>7. Eq(CHOOSE f : Eq(f))
  <2> HIDE DEF Eq
  <2> QED
    BY <1>4
<1>8. In(D) = R
  OBVIOUS
<1> HIDE DEF Eq
<1> QED
  BY <1>1, <1>5, <1>6, <1>7, <1>8

(* The rows within a range and those outside it are all of the table's.      *)
Outside(t, from, to) == {r \in RowsIn(t) : ~(from <= stamp[r] /\ stamp[r] <= to)}

LEMMA InAndOutside ==
    ASSUME ApiInv, NEW t, NEW from, NEW to
    PROVE  Cardinality(RowsIn(t)) = Cardinality(Within(t, from, to))
                                    + Cardinality(Outside(t, from, to))
<1> DEFINE new == Within(t, from, to)
           old == Outside(t, from, to)
<1>1. RowsIn(t) = new \cup old /\ new \cap old = {}
  BY DEF Within, Outside
<1>2. new \in SUBSET (Sig \X Table) /\ old \in SUBSET (Sig \X Table)
  BY DEF RowsIn, ApiInv, TypeOK, Within, Outside
<1>3. IsFiniteSet(new) /\ IsFiniteSet(old)
  <2> HIDE DEF new, old
  <2> QED
    BY <1>2, RowsAreFinite
<1>4. Cardinality(new \cup old) = Cardinality(new) + Cardinality(old)
  <2> HIDE DEF new, old
  <2> QED
    BY <1>1, <1>3, DisjointCount
<1> QED
  BY <1>1, <1>4

(* A count read before a commit is not more than one read after it.          *)
LEMMA SeriesSurvivesCommits ==
    ASSUME ApiInv, ApiInv', SeriesSoFar, Chunk \/ Mark
    PROVE  SeriesSoFar'
<1>1. rows \subseteq rows' /\ (\A r \in rows : stamp'[r] = stamp[r]) /\ UNCHANGED client
  BY RowsOnlyGrow
<1>2. at' = at /\ about' = about /\ got' = got
  BY <1>1 DEF client
<1>3. rows' \in SUBSET (Sig \X Table)
  BY DEF ApiInv, TypeOK
<1>4. CASE at = "periods"
  <2>1. RowsIn(about) \subseteq RowsIn(about)' /\ RowsIn(about)' \in SUBSET (Sig \X Table)
    BY <1>1, <1>2, <1>3 DEF RowsIn
  <2>2. /\ Cardinality(RowsIn(about)) \in Nat /\ Cardinality(RowsIn(about)') \in Nat
        /\ Cardinality(RowsIn(about)) <= Cardinality(RowsIn(about)')
    BY <2>1, RowsAreFinite
  <2>3. about \in Table /\ got.total \in Nat /\ got.total <= Cardinality(RowsIn(about))
    BY <1>4 DEF SeriesSoFar, ApiInv, GotShape
  <2>4. got'.total <= Cardinality(RowsIn(about)')
    BY <1>2, <2>2, <2>3
  <2> QED
    BY <1>2, <1>4, <2>3, <2>4 DEF SeriesSoFar
<1>5. CASE at = "series"
  <2> DEFINE old == Outside(about, got.first, got.last)
  <2>1. /\ about \in Table /\ SumOf(got.series) \in Nat
        /\ got.first \in Nat /\ got.last \in Nat
    BY <1>5 DEF SeriesSoFar
  <2>2. got.total \in Nat /\ got.total <= SumOf(got.series) + Cardinality(old)
    BY <1>5 DEF SeriesSoFar, SeriesCoversTotal, ApiInv, GotShape, Outside
  <2>3. old \subseteq old' /\ old' \in SUBSET (Sig \X Table)
    BY <1>1, <1>2, <1>3 DEF RowsIn, Outside
  <2>4. /\ Cardinality(old) \in Nat /\ Cardinality(old') \in Nat
        /\ Cardinality(old) <= Cardinality(old')
    <3> HIDE DEF old
    <3> QED
      BY <2>3, RowsAreFinite
  <2>5. got'.total <= SumOf(got.series)' + Cardinality(old')
    <3>1. SumOf(got.series)' = SumOf(got.series)
      BY <1>2
    <3> HIDE DEF old
    <3> QED
      BY <1>2, <2>1, <2>2, <2>4, <3>1
  <2>6. SeriesCoversTotal'
    BY <2>5 DEF SeriesCoversTotal, Outside
  <2> QED
    BY <1>2, <1>5, <2>1, <2>6 DEF SeriesSoFar
<1> QED
  BY <1>2, <1>4, <1>5 DEF SeriesSoFar

(* GET /ix/{name}/stats.                                                     *)
LEMMA SeriesSelects ==
    ASSUME ApiInv, ApiInv', SeriesSoFar, IxCallCount \/ IxTimeSeries
    PROVE  SeriesSoFar'
<1>1. rows \in SUBSET (Sig \X Table) /\ \A r \in rows : stamp[r] \in Nat
  BY DEF ApiInv, TypeOK
<1>2. UNCHANGED <<rows, stamp>>
  BY DEF IxCallCount, IxTimeSeries, Ask, Select, indexer, storeVars
<1>3. \A t : RowsIn(t) \in SUBSET (Sig \X Table) /\ RowsIn(t)' = RowsIn(t)
  BY <1>1, <1>2 DEF RowsIn
<1>4. CASE IxCallCount
  <2>1. PICK t \in Table :
           Ask(t, [Nothing EXCEPT !.total = Cardinality(RowsIn(t))], "periods")
    BY <1>4 DEF IxCallCount
  <2>2. /\ at' = "periods" /\ about' = t
        /\ got'.total = Cardinality(RowsIn(t))
    BY <2>1 DEF Ask, Nothing
  <2>3. Cardinality(RowsIn(t)) \in Nat /\ Cardinality(RowsIn(about)') = Cardinality(RowsIn(t))
    BY <1>2, <1>3, <2>2, RowsAreFinite DEF RowsIn
  <2> QED
    BY <2>2, <2>3 DEF SeriesSoFar
<1>5. CASE IxTimeSeries
  <2>1. PICK from \in 0..clock, to \in 0..clock :
           Select("periods",
                  [got EXCEPT !.series = Series(Within(about, from, to)),
                              !.first = from, !.last = to],
                  "series")
    BY <1>5 DEF IxTimeSeries
  <2> DEFINE new == Within(about, from, to)
             old == Outside(about, from, to)
  <2>2. from \in Nat /\ to \in Nat
    BY DEF ApiInv, TypeOK
  <2>3. /\ at = "periods" /\ at' = "series" /\ about' = about
        /\ got'.total = got.total /\ got'.series = Series(new)
        /\ got'.first = from /\ got'.last = to
    BY <2>1 DEF Select, ApiInv, GotShape
  <2>4. /\ about \in Table /\ got.total \in Nat /\ got.total <= Cardinality(RowsIn(about))
    BY <2>3 DEF SeriesSoFar, ApiInv, GotShape
  <2>5. Cardinality(RowsIn(about)) = Cardinality(new) + Cardinality(old)
    BY InAndOutside
  <2>6. /\ IsFiniteSet(new) /\ Cardinality(new) \in Nat /\ Cardinality(old) \in Nat
        /\ \A r \in new : stamp[r] \in Nat
    <3>1. new \in SUBSET (Sig \X Table) /\ old \in SUBSET (Sig \X Table)
      BY <1>3 DEF Within, Outside
    <3>2. \A r \in new : stamp[r] \in Nat
      BY <1>1 DEF RowsIn, Within
    <3> HIDE DEF new, old
    <3> QED
      BY <3>1, <3>2, RowsAreFinite
  <2>7. SumOf(Series(new)) = Cardinality(new)
    <3> HIDE DEF new
    <3> QED
      BY <2>6, SeriesSums
  <2>8. got'.total <= SumOf(got'.series)
                      + Cardinality(Outside(about, got.first, got.last)')
    <3>1. Outside(about, got.first, got.last)' = old
      BY <1>2, <2>3 DEF RowsIn, Outside
    <3>2. SumOf(got'.series) = Cardinality(new)
      BY <2>3, <2>7
    <3> HIDE DEF new, old
    <3> QED
      BY <2>3, <2>4, <2>5, <2>6, <3>1, <3>2
  <2>9. SumOf(got'.series) \in Nat
    <3> HIDE DEF new
    <3> QED
      BY <2>3, <2>6, <2>7
  <2>10. SeriesCoversTotal'
    BY <2>8 DEF SeriesCoversTotal, Outside
  <2> QED
    BY <2>2, <2>3, <2>4, <2>9, <2>10 DEF SeriesSoFar
<1> QED
  BY <1>4, <1>5

(* In every other step no time series is under way.                          *)
LEMMA SeriesElsewhere ==
    ASSUME SeriesSoFar, UNCHANGED indexer, at' \notin {"periods", "series"}
    PROVE  SeriesSoFar'
  BY DEF SeriesSoFar, SeriesCoversTotal
-----------------------------------------------------------------------------
(* A page.  ORDER BY created_at DESC puts the rows of one commit behind the  *)
(* newer ones, in any order: as many rows as there are newer ones are newer, *)
(* and the row behind them is one of the commit.                             *)
LEMMA FirstRows ==
    ASSUME ApiInv, NEW t, NEW k \in Nat, NEW F \in Newest(RowsIn(t), k),
           NEW r \in RowsIn(t)
    PROVE  /\ k <= Cardinality(Newer(r)) => F \subseteq Newer(r)
           /\ Cardinality(Newer(r)) < k => \E q \in F : stamp[q] = stamp[r]
<1> DEFINE R == RowsIn(t)
<1>1. R \in SUBSET (Sig \X Table) /\ r[2] = t /\ \A q \in R : stamp[q] \in Nat
  BY DEF RowsIn, ApiInv, TypeOK
<1>2. /\ F \in SUBSET R /\ Cardinality(F) = Min({k, Cardinality(R)})
      /\ \A p \in F, q \in R \ F : stamp[p] >= stamp[q]
  BY DEF Newest
<1>3. Newer(r) = {q \in R : stamp[q] > stamp[r]}
  BY <1>1 DEF Newer
<1> HIDE DEF R
<1>4. r \in R /\ Newer(r) \in SUBSET R /\ r \notin Newer(r)
  BY <1>1, <1>3 DEF R
<1>5. /\ IsFiniteSet(R) /\ Cardinality(R) \in Nat
      /\ IsFiniteSet(F) /\ Cardinality(F) \in Nat
      /\ IsFiniteSet(Newer(r)) /\ Cardinality(Newer(r)) \in Nat
  BY <1>1, <1>2, <1>4, RowsAreFinite
<1>6. Cardinality(F) = IF k <= Cardinality(R) THEN k ELSE Cardinality(R)
  BY <1>2, <1>5, MinOfTwo
<1>7. ASSUME NEW q \in F, q \notin Newer(r)
      PROVE  Cardinality(Newer(r)) < k
  <2>1. Newer(r) \subseteq F
    BY <1>1, <1>2, <1>3, <1>4, <1>7
  <2>2. Newer(r) \cup {q} \in SUBSET F
    BY <1>7, <2>1
  <2>3. Cardinality(Newer(r) \cup {q}) = Cardinality(Newer(r)) + 1
    BY <1>5, <1>7, FS_AddElement
  <2>4. Cardinality(Newer(r) \cup {q}) <= Cardinality(F)
    BY <1>5, <2>2, FS_Subset
  <2> QED
    BY <1>5, <1>6, <2>3, <2>4
<1>8. ASSUME Cardinality(Newer(r)) < k
      PROVE  \E q \in F : stamp[q] = stamp[r]
  <2>1. CASE r \in F
    BY <2>1
  <2>2. CASE r \notin F
    <3>1. Cardinality(F) # Cardinality(R)
      BY <1>2, <1>4, <1>5, <2>2, FS_Subset
    <3>2. ~(F \subseteq Newer(r))
      <4>1. SUFFICES ASSUME F \in SUBSET Newer(r) PROVE FALSE
        OBVIOUS
      <4>2. Cardinality(F) <= Cardinality(Newer(r))
        BY <1>5, <4>1, FS_Subset
      <4> QED
        BY <1>5, <1>6, <1>8, <3>1, <4>2
    <3>3. PICK q \in F : q \notin Newer(r)
      BY <3>2
    <3>4. stamp[q] >= stamp[r] /\ ~(stamp[q] > stamp[r])
      BY <1>2, <1>3, <1>4, <2>2, <3>3
    <3>5. stamp[q] \in Nat /\ stamp[r] \in Nat
      BY <1>1, <1>2, <1>4, <3>3
    <3> QED
      BY <3>3, <3>4, <3>5
  <2> QED
    BY <2>1, <2>2
<1>9. ASSUME k <= Cardinality(Newer(r))
      PROVE  F \subseteq Newer(r)
  BY <1>5, <1>7, <1>9
<1> QED
  BY <1>8, <1>9

(* So the page that reaches behind the newer rows has one of the commit.     *)
LEMMA PageFinds ==
    ASSUME ApiInv, NEW t, NEW offset \in Nat, NEW page \in Page(t, offset),
           NEW r \in RowsIn(t), offset <= Cardinality(Newer(r))
    PROVE  \/ \E q \in page : q[2] = t /\ stamp[q] = stamp[r]
           \/ /\ offset + PageSize <= Cardinality(Newer(r))
              /\ After(page) = "page"
<1>1. PICK p \in Newest(RowsIn(t), offset) \X Newest(RowsIn(t), offset + PageSize) :
         p[1] \subseteq p[2] /\ page = p[2] \ p[1]
  BY DEF Page
<1> DEFINE F == p[1]
           G == p[2]
<1>2. /\ F \in Newest(RowsIn(t), offset) /\ G \in Newest(RowsIn(t), offset + PageSize)
      /\ F \subseteq G /\ page = G \ F
  BY <1>1
<1> HIDE DEF F, G
<1>3. PageSize \in Nat /\ PageSize > 0 /\ offset + PageSize \in Nat
  BY DEF ApiAssumption
<1>4. Newer(r) \in SUBSET (Sig \X Table) /\ RowsIn(t) \in SUBSET (Sig \X Table)
  BY DEF Newer, RowsIn, ApiInv, TypeOK
<1>5. Cardinality(Newer(r)) \in Nat
  BY <1>4, RowsAreFinite
<1>6. F \subseteq Newer(r)
  BY <1>2, FirstRows
<1>7. CASE Cardinality(Newer(r)) < offset + PageSize
  <2>1. PICK q \in G : stamp[q] = stamp[r]
    BY <1>2, <1>3, <1>7, FirstRows
  <2>2. q[2] = t /\ stamp[q] \in Nat
    BY <1>2 DEF Newest, RowsIn, ApiInv, TypeOK
  <2>3. q \notin Newer(r)
    BY <2>1, <2>2 DEF Newer
  <2> QED
    BY <1>2, <1>6, <2>1, <2>2, <2>3
<1>8. CASE offset + PageSize <= Cardinality(Newer(r))
  <2>1. /\ F \in SUBSET RowsIn(t) /\ Cardinality(F) = Min({offset, Cardinality(RowsIn(t))})
        /\ G \in SUBSET RowsIn(t)
        /\ Cardinality(G) = Min({offset + PageSize, Cardinality(RowsIn(t))})
    BY <1>2 DEF Newest
  <2>2. /\ Cardinality(RowsIn(t)) \in Nat /\ Cardinality(Newer(r)) <= Cardinality(RowsIn(t))
        /\ IsFiniteSet(F) /\ IsFiniteSet(page) /\ Cardinality(page) \in Nat
    <3>1. Newer(r) \in SUBSET RowsIn(t) /\ page \in SUBSET RowsIn(t)
      BY <1>2, <2>1 DEF Newer, RowsIn
    <3> QED
      BY <1>4, <2>1, <3>1, RowsAreFinite
  <2>3. Cardinality(F) = offset /\ Cardinality(G) = offset + PageSize
    <3>1. Cardinality(F) = offset
      BY <1>3, <1>5, <1>8, <2>1, <2>2, MinOfTwo
    <3>2. Cardinality(G) = offset + PageSize
      BY <1>3, <1>5, <1>8, <2>1, <2>2, MinOfTwo
    <3> QED
      BY <3>1, <3>2
  <2>4. G = page \cup F /\ page \cap F = {}
    BY <1>2
  <2>5. Cardinality(page \cup F) = Cardinality(page) + Cardinality(F)
    BY <2>2, <2>4, DisjointCount
  <2>6. Cardinality(page) = PageSize
    BY <1>3, <2>2, <2>3, <2>4, <2>5
  <2> QED
    BY <1>3, <1>8, <2>6 DEF After
<1> QED
  BY <1>3, <1>5, <1>7, <1>8

(* A commit puts its rows in front of those stored, whose times stay.        *)
LEMMA PagesSurviveCommits ==
    ASSUME ApiInv, ApiInv', PagesSoFar, Chunk \/ Mark
    PROVE  PagesSoFar'
<1>1. rows \subseteq rows' /\ (\A r \in rows : stamp'[r] = stamp[r]) /\ UNCHANGED client
  BY RowsOnlyGrow
<1>2. at' = at /\ about' = about /\ got' = got /\ before' = before
  BY <1>1 DEF client
<1>3. rows' \in SUBSET (Sig \X Table)
  BY DEF ApiInv, TypeOK
<1>4. RowsOf(before) \subseteq rows /\ RowsOf(before)' = RowsOf(before)
  BY <1>2 DEF ApiInv, TypeOK, StoreConsistent, RowsOf
<1>5. ASSUME NEW r \in RowsOf(before)
      PROVE  /\ Cut(r) => Cut(r)'
             /\ Newer(r) \subseteq Newer(r)' /\ Newer(r)' \in SUBSET (Sig \X Table)
  <2>1. got.listed \subseteq rows /\ r \in rows
    BY <1>4 DEF ApiInv, TypeOK
  <2> QED
    BY <1>1, <1>2, <1>3, <2>1 DEF Cut, Newer, RowsIn
<1>6. ASSUME NEW r \in RowsOf(before)
      PROVE  /\ Cardinality(Newer(r)) \in Nat /\ Cardinality(Newer(r)') \in Nat
             /\ Cardinality(Newer(r)) <= Cardinality(Newer(r)')
  BY <1>5, RowsAreFinite
<1>7. ASSUME at' = "page", NEW r \in RowsOf(before)'
      PROVE  \/ r[2] # about' \/ r \in got'.listed
             \/ Cut(r)' \/ got'.total <= Cardinality(Newer(r))'
  <2>1. \/ r[2] # about \/ r \in got.listed
        \/ Cut(r) \/ got.total <= Cardinality(Newer(r))
    BY <1>2, <1>4, <1>7 DEF PagesSoFar
  <2>2. got.total \in Nat
    BY DEF ApiInv, GotShape
  <2> QED
    BY <1>2, <1>4, <1>5, <1>6, <2>1, <2>2
<1>8. PagesMissOnlyTies'
  <2> SUFFICES ASSUME at' = "listed", NEW r \in RowsOf(before)', r[2] = about', r \notin got'.listed
               PROVE  \E q \in got'.listed : q[2] = about' /\ stamp'[q] = stamp'[r]
    BY DEF PagesMissOnlyTies
  <2>1. PICK q \in got.listed : q[2] = about /\ stamp[q] = stamp[r]
    BY <1>2, <1>4 DEF PagesSoFar, PagesMissOnlyTies
  <2>2. q \in rows /\ r \in rows
    BY <1>4 DEF ApiInv, TypeOK
  <2> QED
    BY <1>1, <1>2, <2>1, <2>2
<1> QED
  BY <1>7, <1>8 DEF PagesSoFar

(* A page, the first or the next, that ends a listing or leaves rows behind. *)
LEMMA PagesSelects ==
    ASSUME ApiInv, PagesSoFar, FirstPage \/ NextPage
    PROVE  PagesSoFar'
<1>1. /\ UNCHANGED <<stored, rows, stamp>> /\ before' \subseteq stored
  BY DEF FirstPage, NextPage, Ask, Select, indexer, storeVars, ApiInv, TypeOK
<1>2. RowsOf(before') \subseteq rows /\ RowsOf(before)' = RowsOf(before')
  BY <1>1 DEF ApiInv, StoreConsistent, RowsOf
<1>3. \A r : Newer(r)' = Newer(r)
  BY <1>1 DEF Newer, RowsIn
<1> DEFINE Served(t, offset, page) ==
              /\ about' = t /\ page \subseteq got'.listed
              /\ got'.total = offset + PageSize /\ at' = After(page)
              /\ \A r \in RowsOf(before') :
                   \/ r[2] # t \/ r \in got'.listed \/ Cut(r)'
                   \/ offset <= Cardinality(Newer(r))
<1>4. \E t : \E offset \in Nat : \E page \in Page(t, offset) : Served(t, offset, page)
  <2>1. CASE FirstPage
    <3>1. PICK t \in Table : \E page \in Page(t, 0) :
             Ask(t, [Nothing EXCEPT !.total = PageSize, !.listed = page], After(page))
      BY <2>1 DEF FirstPage
    <3>2. PICK page \in Page(t, 0) :
             Ask(t, [Nothing EXCEPT !.total = PageSize, !.listed = page], After(page))
      BY <3>1
    <3>3. /\ about' = t /\ got'.listed = page /\ got'.total = PageSize /\ at' = After(page)
      BY <3>2 DEF Ask, Nothing
    <3>4. \A r \in RowsOf(before') : 0 <= Cardinality(Newer(r))
      <4>1. \A r : Newer(r) \in SUBSET (Sig \X Table)
        BY DEF Newer, RowsIn, ApiInv, TypeOK
      <4> QED
        BY <4>1, RowsAreFinite
    <3>5. got'.total = 0 + PageSize /\ 0 \in Nat
      BY <3>3 DEF ApiAssumption
    <3> QED
      BY <3>2, <3>3, <3>4, <3>5
  <2>2. CASE NextPage
    <3>1. PICK page \in Page(about, got.total) :
             Select("page",
                    [got EXCEPT !.total = @ + PageSize, !.listed = @ \cup page],
                    After(page))
      BY <2>2 DEF NextPage
    <3>2. /\ at = "page" /\ about' = about /\ before' = before /\ at' = After(page)
          /\ got' = [got EXCEPT !.total = @ + PageSize, !.listed = @ \cup page]
      BY <3>1 DEF Select
    <3>3. /\ got'.listed = got.listed \cup page /\ got'.total = got.total + PageSize
          /\ got.total \in Nat
      BY <3>2 DEF ApiInv, GotShape
    <3>4. \A r \in RowsOf(before) :
             \/ r[2] # about \/ r \in got.listed \/ Cut(r)
             \/ got.total <= Cardinality(Newer(r))
      BY <3>2 DEF PagesSoFar
    <3>5. \A r : Cut(r) => Cut(r)'
      BY <1>1, <3>3 DEF Cut
    <3> QED
      BY <3>1, <3>2, <3>3, <3>4, <3>5
  <2> QED
    BY <2>1, <2>2
<1>5. PICK t : \E offset \in Nat : \E page \in Page(t, offset) : Served(t, offset, page)
  BY <1>4
<1>6. PICK offset \in Nat : \E page \in Page(t, offset) : Served(t, offset, page)
  BY <1>5
<1>7. PICK page \in Page(t, offset) : Served(t, offset, page)
  BY <1>6
<1>8. ASSUME NEW r \in RowsOf(before')
      PROVE  \/ r[2] # about' \/ r \in got'.listed \/ Cut(r)'
             \/ got'.total <= Cardinality(Newer(r)) /\ at' = "page"
  <2>1. CASE r[2] = t /\ offset <= Cardinality(Newer(r))
    <3>1. r \in RowsIn(t)
      BY <1>2, <2>1 DEF RowsIn
    <3>2. \/ \E q \in page : q[2] = t /\ stamp[q] = stamp[r]
          \/ offset + PageSize <= Cardinality(Newer(r)) /\ After(page) = "page"
      BY <2>1, <3>1, PageFinds
    <3> QED
      BY <1>1, <1>7, <2>1, <3>2 DEF Cut
  <2> QED
    BY <1>7, <2>1
<1>9. at' = "page" => \A r \in RowsOf(before)' :
         \/ r[2] # about' \/ r \in got'.listed
         \/ Cut(r)' \/ got'.total <= Cardinality(Newer(r))'
  BY <1>2, <1>3, <1>8
<1>10. PagesMissOnlyTies'
  <2> SUFFICES ASSUME at' = "listed", NEW r \in RowsOf(before)', r[2] = about', r \notin got'.listed
               PROVE  \E q \in got'.listed : q[2] = about' /\ stamp'[q] = stamp'[r]
    BY DEF PagesMissOnlyTies
  <2>1. Cut(r)'
    BY <1>2, <1>8
  <2> QED
    BY <2>1 DEF Cut
<1> QED
  BY <1>9, <1>10 DEF PagesSoFar

(* In every other step no listing is under way.                              *)
LEMMA PagesElsewhere ==
    ASSUME PagesSoFar, UNCHANGED indexer, at' \notin {"page", "listed"}
    PROVE  PagesSoFar'
  BY DEF PagesSoFar, PagesMissOnlyTies
-----------------------------------------------------------------------------
LEMMA CountsInit == Init => CountsInv
  BY DEF Init, CountsInv, SeriesSoFar, PagesSoFar, PagesMissOnlyTies

LEMMA CountsStep ==
    ASSUME ApiInv, ApiInv', CountsInv, Next
    PROVE  CountsInv'
<1> USE DEF CountsInv
<1>1. CASE Chunk \/ Mark
  BY <1>1, SeriesSurvivesCommits, PagesSurviveCommits
<1>2. CASE IxCallCount \/ IxTimeSeries
  <2>1. UNCHANGED indexer /\ at' \in {"periods", "series"}
    BY <1>2 DEF IxCallCount, IxTimeSeries, Ask, Select
  <2> QED
    BY <1>2, <2>1, SeriesSelects, PagesElsewhere
<1>3. CASE FirstPage \/ NextPage
  <2>1. UNCHANGED indexer /\ at' \in {"page", "listed"}
    BY <1>3 DEF FirstPage, NextPage, Ask, Select, After
  <2> QED
    BY <1>3, <2>1, PagesSelects, SeriesElsewhere
<1>4. CASE Respond \/ CountTxs \/ FirstSlot \/ LastSlot \/ Checkpoint \/ CountCalls
           \/ Health \/ GetTx \/ ListIxOfTx \/ GetAccount \/ GetAccountAgain
  <2>1. UNCHANGED indexer /\ at' \notin {"periods", "series", "page", "listed"}
    BY <1>4 DEF Respond, CountTxs, FirstSlot, LastSlot, Checkpoint, CountCalls, Health,
                GetTx, ListIxOfTx, GetAccount, GetAccountAgain, Ask, Select
  <2> QED
    BY <2>1, SeriesElsewhere, PagesElsewhere
<1> QED
  BY <1>1, <1>2, <1>3, <1>4 DEF Next

LEMMA CountsStutter ==
    ASSUME CountsInv, UNCHANGED vars
    PROVE  CountsInv'
  BY DEF vars, client, indexer, storeVars, CountsInv, SeriesSoFar, SeriesCoversTotal,
         PagesSoFar, PagesMissOnlyTies, RowsIn, RowsOf, Cut, Newer

(* What a request has counted is still there, and what a client has yet to   *)
(* list is not in front of its next page.                                    *)
THEOREM CountsInvariant == Spec => []CountsInv
<1>1. Init => CountsInv
  BY CountsInit
<1>2. ApiInv /\ ApiInv' /\ CountsInv /\ [Next]_vars => CountsInv'
  BY CountsStep, CountsStutter
<1> QED
  BY <1>1, <1>2, ApiInvariant, PTL DEF Spec

(* The total of GET /ix/{name}/stats is covered by its time series together  *)
(* with the rows outside its range, whatever the range and whatever is       *)
(* committed between the two SELECTs: the total is read first, and a row of  *)
(* the range has one period.                                                 *)
THEOREM SeriesTrustworthy == Spec => []SeriesCoversTotal
<1>1. CountsInv => SeriesCoversTotal
  BY DEF CountsInv, SeriesSoFar, SeriesCoversTotal
<1> QED
  BY <1>1, CountsInvariant, PTL

(* Paging with LIMIT and OFFSET while chunks are committed may list a row    *)
(* twice, and passes over no commit: it misses a row that was there only     *)
(* where the edge of a page cut through the rows of one commit.              *)
THEOREM PagesComplete == Spec => []PagesMissOnlyTies
<1>1. CountsInv => PagesMissOnlyTies
  BY DEF CountsInv, PagesSoFar
<1> QED
  BY <1>1, CountsInvariant, PTL
=============================================================================
