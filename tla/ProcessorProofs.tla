--------------------------- MODULE ProcessorProofs ---------------------------
(* Lemmas about the ledger and about the steps of the Processor, for every   *)
(* caller and all constants.  The proofs of the specifications that contain  *)
(* the Processor rest on them.                                               *)
EXTENDS Processor, SequenceTheorems, WellFoundedInduction, TLAPS

(* A block lists exactly the transactions of its slot.                       *)
LEMMA BlockContents ==
    ASSUME NEW n \in Slot
    PROVE  /\ Block(n) \in Seq(Sig)
           /\ Range(Block(n)) = {s \in Sig : SlotOf[s] = n}
<1> DEFINE lo == UpTo[n - 1]
           hi == UpTo[n]
<1>1. /\ n - 1 \in 0..MaxSlot /\ n \in 0..MaxSlot
      /\ lo \in 0..Len(Chain) /\ hi \in 0..Len(Chain)
      /\ Chain \in Seq(Sig) /\ Len(Chain) \in Nat
      /\ DOMAIN Chain = 1..Len(Chain)
      /\ \A i \in 1..Len(Chain) : Chain[i] \in Sig
  <2>1. Chain \in Seq(Sig) /\ MaxSlot \in Nat /\ UpTo \in [0..MaxSlot -> 0..Len(Chain)]
    BY LedgerIsConsistent DEF LedgerAssumption
  <2>2. Len(Chain) \in Nat /\ Chain \in [1..Len(Chain) -> Sig] /\ DOMAIN Chain = 1..Len(Chain)
    BY <2>1, LenProperties
  <2>3. n - 1 \in 0..MaxSlot /\ n \in 0..MaxSlot
    BY <2>1 DEF Slot
  <2> QED BY <2>1, <2>2, <2>3
<1>2. \A i \in (lo + 1)..hi : Chain[i] \in Sig
  BY <1>1
<1>3. /\ Block(n) \in Seq(Sig)
      /\ Len(Block(n)) = IF lo + 1 <= hi THEN hi - lo ELSE 0
      /\ \A i \in 1..(hi - lo) : Block(n)[i] = Chain[lo + i]
  <2>1. lo \in Int /\ lo + 1 \in Int /\ hi \in Int
    BY <1>1
  <2>2. /\ SubSeq(Chain, lo + 1, hi) \in Seq(Sig)
        /\ Len(SubSeq(Chain, lo + 1, hi)) =
              IF lo + 1 <= hi THEN hi - (lo + 1) + 1 ELSE 0
        /\ \A i \in 1..(hi - (lo + 1) + 1) :
              SubSeq(Chain, lo + 1, hi)[i] = Chain[lo + 1 + i - 1]
    BY ONLY <1>2, <2>1, SubSeqProperties
  <2>3. /\ hi - (lo + 1) + 1 = hi - lo
        /\ \A i \in 1..(hi - lo) : lo + 1 + i - 1 = lo + i
    <3> HIDE DEF lo, hi
    <3> QED BY <2>1
  <2> QED BY <2>2, <2>3 DEF Block
<1>4. DOMAIN Block(n) = 1..Len(Block(n))
  BY <1>3, LenProperties
<1>5. ASSUME NEW s \in Range(Block(n)) PROVE s \in Sig /\ SlotOf[s] = n
  <2>1. PICK i \in DOMAIN Block(n) : s = Block(n)[i]
    BY <1>5 DEF Range
  <2>2. i \in 1..(hi - lo) /\ s = Chain[lo + i] /\ lo + i \in DOMAIN Chain
    BY <1>1, <1>3, <1>4, <2>1
  <2>3. UpTo[n - 1] < lo + i /\ lo + i <= UpTo[n]
    BY <1>1, <2>2
  <2> QED
    BY <1>1, <2>2, <2>3, LedgerIsConsistent DEF LedgerAssumption
<1>6. ASSUME NEW s \in Sig, SlotOf[s] = n PROVE s \in Range(Block(n))
  <2>1. PICK i \in DOMAIN Chain : Chain[i] = s
    BY LedgerIsConsistent DEF LedgerAssumption
  <2>2. lo < i /\ i <= hi
    BY <1>6, <2>1, LedgerIsConsistent DEF LedgerAssumption
  <2>3. /\ i - lo \in 1..(hi - lo) /\ i - lo \in 1..Len(Block(n))
        /\ lo + (i - lo) = i
    BY <1>1, <1>3, <2>1, <2>2
  <2>4. Block(n)[i - lo] = s
    BY <1>3, <2>1, <2>3
  <2> QED BY <1>4, <2>3, <2>4 DEF Range
<1> QED BY <1>3, <1>5, <1>6

(* Taking the first element of a non-empty list.                             *)
LEMMA TakeFirst ==
    ASSUME NEW S, NEW q \in Seq(S), q # <<>>
    PROVE  /\ Head(q) \in S /\ Tail(q) \in Seq(S)
           /\ Len(q) \in Nat \ {0} /\ Len(Tail(q)) = Len(q) - 1
           /\ Head(q) = q[1]
           /\ \A i \in 1..(Len(q) - 1) : Tail(q)[i] = q[i + 1]
           /\ Range(q) = {Head(q)} \cup Range(Tail(q))
<1>1. /\ Head(q) \in S /\ Tail(q) \in Seq(S)
      /\ Len(Tail(q)) = Len(q) - 1
      /\ \A i \in 1..Len(Tail(q)) : Tail(q)[i] = q[i + 1]
  BY HeadTailProperties
<1>2. Len(q) \in Nat \ {0}
  BY EmptySeq
<1>3. DOMAIN q = 1..Len(q) /\ DOMAIN Tail(q) = 1..Len(Tail(q))
  BY <1>1, LenProperties
<1>4. Head(q) = q[1]
  BY <1>2
<1>5. ASSUME NEW x \in Range(q) PROVE x \in {Head(q)} \cup Range(Tail(q))
  <2>1. PICK i \in 1..Len(q) : x = q[i]
    BY <1>3 DEF Range
  <2>2. CASE i = 1
    BY <2>1, <2>2, <1>4
  <2>3. CASE i # 1
    <3>1. i - 1 \in DOMAIN Tail(q) /\ Tail(q)[i - 1] = q[i]
      BY <2>1, <2>3, <1>1, <1>2, <1>3
    <3> QED BY <3>1, <2>1 DEF Range
  <2> QED BY <2>2, <2>3
<1>6. ASSUME NEW x \in {Head(q)} \cup Range(Tail(q)) PROVE x \in Range(q)
  <2>1. CASE x = Head(q)
    BY <2>1, <1>2, <1>3, <1>4 DEF Range
  <2>2. CASE x \in Range(Tail(q))
    <3>1. PICK i \in 1..Len(Tail(q)) : x = Tail(q)[i]
      BY <2>2, <1>3 DEF Range
    <3>2. i + 1 \in 1..Len(q) /\ x = q[i + 1]
      BY <3>1, <1>1, <1>2
    <3> QED BY <3>2, <1>3 DEF Range
  <2> QED BY <1>6, <2>1, <2>2
<1> QED BY <1>1, <1>2, <1>4, <1>5, <1>6

(* TakeFirst for the list of the call in progress.                           *)
LEMMA TakeSigFacts ==
    ASSUME ProcTypeOK, left > 0
    PROVE  /\ Head(todo) \in Sig /\ Tail(todo) \in Seq(Sig)
           /\ Len(Tail(todo)) = Len(todo) - 1
           /\ Range(todo) = {Head(todo)} \cup Range(Tail(todo))
           /\ left - 1 \in 0..(Len(todo) - 1)
<1>1. todo \in Seq(Sig) /\ left \in 0..Len(todo) /\ Len(todo) \in Nat
  BY LenProperties DEF ProcTypeOK
<1>2. todo # <<>>
  BY <1>1, EmptySeq
<1> QED BY <1>1, <1>2, TakeFirst

LEMMA NewCallRowsFacts ==
    ASSUME NEW s \in Sig, NEW rows
    PROVE  NewCallRows(s, rows) \subseteq {s} \X DOMAIN Calls[s]
BY DEF NewCallRows

LEMMA CallsFacts ==
    ASSUME NEW s \in Sig
    PROVE  /\ Calls[s] \in Seq([table : Table, accounts : SUBSET Addr])
           /\ DOMAIN Calls[s] \subseteq Nat
           /\ DOMAIN Calls[s] = 1..Len(Calls[s]) /\ Len(Calls[s]) \in Nat
<1>1. Calls[s] \in Seq([table : Table, accounts : SUBSET Addr])
  BY ProcessorParameters DEF ProcessorAssumption
<1> QED BY <1>1, LenProperties

(* Every step of the Processor keeps the types.                              *)
LEMMA StepType ==
    ASSUME ProcTypeOK, ProcStep, UNCHANGED now
    PROVE  ProcTypeOK'
<1> USE DEF ProcTypeOK, dbVars, WorkType
<1>0. /\ Len(todo) \in Nat /\ BatchSize \in Nat \ {0}
      /\ SlotOf \in [Sig -> Slot] /\ MaxSlot \in Nat
      /\ NoWork \in WorkType
  BY LenProperties, ProcessorParameters, LedgerIsConsistent
     DEF ProcessorAssumption, LedgerAssumption, NoWork
<1>1. CASE LeaveLoop
  BY <1>0, <1>1 DEF LeaveLoop, Return
<1>2. CASE BeginChunk
  <2>1. work' \in WorkType
    BY <1>2, <1>0 DEF BeginChunk, NoWork
  <2>2. left' \in 0..Len(todo')
    BY <1>2, <1>0 DEF BeginChunk
  <2> QED BY <1>2, <2>1, <2>2 DEF BeginChunk
<1>3. CASE BeginFails
  BY <1>0, <1>3 DEF BeginFails, Return
<1>4. CASE SkipTx
  <2>1. Head(todo) \in Sig /\ todo' \in Seq(Sig) /\ left' \in 0..Len(todo')
    BY <1>4, TakeSigFacts DEF SkipTx, TakeSig
  <2>2. work' \in WorkType
    BY <1>4, <2>1 DEF SkipTx
  <2> QED BY <1>4, <2>1, <2>2 DEF SkipTx
<1>5. CASE IndexTx
  <2> DEFINE s == Head(todo)
  <2>1. s \in Sig /\ todo' \in Seq(Sig) /\ left' \in 0..Len(todo')
    BY <1>5, TakeSigFacts DEF IndexTx, TakeSig
  <2>2. PICK refused \in BOOLEAN :
          work' = [work EXCEPT
                        !.txs = @ \cup {s},
                        !.calls = @ \cup IF refused THEN {} ELSE NewCallRows(s, @),
                        !.touched = @ \cup NewAddrs(s, @),
                        !.last = s,
                        !.aborted = refused]
    BY <1>5 DEF IndexTx
  <2>3. NewCallRows(s, work.calls) \subseteq Sig \X Nat
    BY <2>1, NewCallRowsFacts, CallsFacts
  <2>4. NewAddrs(s, work.touched) \subseteq [addr : Addr, slot : Slot]
    BY <2>1, <1>0 DEF NewAddrs
  <2>5. work' \in WorkType
    BY <2>1, <2>2, <2>3, <2>4
  <2> QED BY <1>5, <2>1, <2>5 DEF IndexTx
<1>6. CASE StoreTxFails
  BY <1>0, <1>6 DEF StoreTxFails, Return
<1>7. CASE StoreAccounts
  <2>1. PICK found \in SUBSET work.touched, at \in 0..now :
          work' = IF work.aborted THEN work
                  ELSE [work EXCEPT !.accs = UpsertAccounts(@, found, at)]
    BY <1>7 DEF StoreAccounts
  <2>2. UpsertAccounts(work.accs, found, at) \subseteq AccRow
    <3>1. at \in 0..MaxSlot
      BY <1>0, LedgerIsConsistent DEF LedgerAssumption
    <3> QED BY <2>1, <3>1 DEF UpsertAccounts, AccRow
  <2>3. work' \in WorkType
    BY <2>1, <2>2
  <2> QED BY <1>7, <2>3 DEF StoreAccounts
<1>8. CASE StoreAccountsFails
  <2>1. work' \in WorkType
    BY <1>8 DEF StoreAccountsFails
  <2> QED BY <1>8, <2>1 DEF StoreAccountsFails
<1>9. CASE Commit
  BY <1>0, <1>9 DEF Commit, ApplyWork
<1>10. CASE CheckpointFails
  BY <1>0, <1>10 DEF CheckpointFails, Return
<1>11. CASE CommitFails
  BY <1>0, <1>11 DEF CommitFails, ApplyWork, Return
<1> QED
  BY <1>1, <1>2, <1>3, <1>4, <1>5, <1>6, <1>7, <1>8, <1>9, <1>10, <1>11 DEF ProcStep
-----------------------------------------------------------------------------
(* Where the two transactions of the state come from: a step of ProcStep     *)
(* that changes committed data applies the open transaction whole, and every *)
(* step that continues a chunk only adds to it.                              *)
LEMMA StepWork ==
    ASSUME ProcTypeOK, WorkExtends, ProcStep
    PROVE  WorkExtends'
<1> USE DEF WorkExtends, InChunk, dbVars
<1>0. NoWork.last = None /\ NoWork.txs = {} /\ NoWork.calls = {}
  BY DEF NoWork
<1>1. CASE LeaveLoop
  BY <1>1 DEF LeaveLoop, Return
<1>2. CASE BeginChunk
  BY <1>2, <1>0 DEF BeginChunk, NoWork
<1>3. CASE BeginFails
  BY <1>3 DEF BeginFails, Return
<1>4. CASE SkipTx
  BY <1>4 DEF SkipTx, TakeSig, ProcTypeOK, WorkType
<1>5. CASE IndexTx
  <2>1. Head(todo) \in Sig /\ Head(todo) # None
    BY <1>5, TakeSigFacts, ProcessorParameters DEF IndexTx, TakeSig, ProcessorAssumption
  <2>2. /\ work'.txs = work.txs \cup {Head(todo)}
        /\ work.calls \subseteq work'.calls
        /\ work'.last = Head(todo)
    BY <1>5 DEF IndexTx, ProcTypeOK, WorkType
  <2> QED BY <1>5, <2>1, <2>2 DEF IndexTx, TakeSig
<1>6. CASE StoreTxFails
  BY <1>6 DEF StoreTxFails, Return
<1>7. CASE StoreAccounts
  <2>1. work'.txs = work.txs /\ work'.calls = work.calls /\ work'.last = work.last
    BY <1>7 DEF StoreAccounts, ProcTypeOK, WorkType
  <2> QED BY <1>7, <2>1 DEF StoreAccounts
<1>8. CASE StoreAccountsFails
  <2>1. work'.txs = work.txs /\ work'.calls = work.calls /\ work'.last = work.last
    BY <1>8 DEF StoreAccountsFails, ProcTypeOK, WorkType
  <2> QED BY <1>8, <2>1 DEF StoreAccountsFails
<1>9. CASE Commit
  BY <1>9 DEF Commit
<1>10. CASE CheckpointFails
  BY <1>10 DEF CheckpointFails, Return
<1>11. CASE CommitFails
  BY <1>11 DEF CommitFails, Return
<1> QED
  BY <1>1, <1>2, <1>3, <1>4, <1>5, <1>6, <1>7, <1>8, <1>9, <1>10, <1>11 DEF ProcStep

(* The least-number principle, from the well-foundedness of < on Nat.        *)
LEMMA LeastNatural ==
    ASSUME NEW T \in SUBSET Nat, T # {}
    PROVE  \E k \in T : \A m \in T : k <= m
<1> DEFINE R == {p \in Nat \X Nat : p[1] < p[2]}
<1>1. OpToRel(<, Nat) = R
  BY DEF OpToRel
<1>2. IsWellFoundedOn(R, Nat)
  BY <1>1, NatLessThanWellFounded
<1> HIDE DEF R
<1>3. PICK k \in T : \A m \in T : ~(<<m, k>> \in R)
  BY <1>2, WFMin
<1>4. \A m \in T : ~(m < k)
  BY <1>3 DEF R
<1> QED BY <1>3, <1>4

(* The rows upsert_ix_typed adds complete the tables for s.                  *)
LEMMA NewCallRowsComplete ==
    ASSUME NEW s \in Sig, NEW S \in SUBSET Sig, NEW rows \in SUBSET (Sig \X Nat),
           CallsOf(S, rows), Complete(S, rows)
    PROVE  /\ CallsOf(S \cup {s}, rows \cup NewCallRows(s, rows))
           /\ Complete(S \cup {s}, rows \cup NewCallRows(s, rows))
<1> DEFINE all == rows \cup NewCallRows(s, rows)
<1>1. CallsOf(S \cup {s}, all)
  BY NewCallRowsFacts DEF CallsOf
<1>2. ASSUME NEW x \in S \cup {s}, NEW i \in DOMAIN Calls[x]
      PROVE  \E j \in DOMAIN Calls[x] : /\ Calls[x][j].table = Calls[x][i].table
                                       /\ <<x, j>> \in all
  <2>1. CASE x \in S
    BY <2>1 DEF Complete
  <2>2. CASE x = s
    <3> DEFINE T == Calls[s][i].table
               Same == {k \in DOMAIN Calls[s] : Calls[s][k].table = T}
    <3>1. CASE \E r \in rows : r[1] = s /\ Calls[s][r[2]].table = T
      <4>1. PICK r \in rows : r[1] = s /\ Calls[s][r[2]].table = T
        BY <3>1
      <4>2. r = <<s, r[2]>> /\ r[2] \in DOMAIN Calls[s]
        BY <4>1 DEF CallsOf
      <4> QED BY <2>2, <4>1, <4>2
    <3>2. CASE \A r \in rows : r[1] = s => Calls[s][r[2]].table # T
      <4>1. Same \subseteq Nat /\ i \in Same
        BY <1>2, <2>2, CallsFacts
      <4>2. PICK k \in Same : \A m \in Same : k <= m
        BY <4>1, LeastNatural
      <4>3. <<s, k>> \in NewCallRows(s, rows)
        BY <3>2, <4>1, <4>2, CallsFacts DEF NewCallRows
      <4> QED BY <2>2, <4>2, <4>3
    <3> QED BY <3>1, <3>2
  <2> QED BY <2>1, <2>2
<1> QED BY <1>1, <1>2 DEF Complete

(* A visible transaction keeps all its call rows: the invariant behind       *)
(* StoredTxHasItsCalls.                                                      *)
LEMMA StepCalls ==
    ASSUME ProcTypeOK, WorkExtends, CallsConsistent, ProcStep
    PROVE  CallsConsistent'
<1> USE DEF CallsConsistent, StoredTxHasItsCalls, InChunk, dbVars
<1>1. CASE LeaveLoop
  BY <1>1 DEF LeaveLoop, Return
<1>2. CASE BeginChunk
  <2>1. work'.txs = txs /\ work'.calls = calls
    BY <1>2 DEF BeginChunk, NoWork
  <2> QED BY <1>2, <2>1 DEF BeginChunk
<1>3. CASE BeginFails
  BY <1>3 DEF BeginFails, Return
<1>4. CASE SkipTx
  <2>1. work'.txs = work.txs /\ work'.calls = work.calls /\ work'.aborted = work.aborted
    BY <1>4 DEF SkipTx, ProcTypeOK, WorkType
  <2> QED BY <1>4, <2>1 DEF SkipTx
<1>5. CASE IndexTx
  <2> DEFINE s == Head(todo)
  <2>1. s \in Sig
    BY <1>5, TakeSigFacts DEF IndexTx, TakeSig
  <2>2. /\ work.txs \in SUBSET Sig /\ work.calls \in SUBSET (Sig \X Nat)
        /\ ~work.aborted /\ InChunk
    BY <1>5 DEF IndexTx, TakeSig, ProcTypeOK, WorkType
  <2>3. /\ work'.txs = work.txs \cup {s}
        /\ ~work'.aborted => work'.calls = work.calls \cup NewCallRows(s, work.calls)
    BY <1>5 DEF IndexTx, ProcTypeOK, WorkType
  <2>4. ~work'.aborted => CallsOf(work'.txs, work'.calls) /\ Complete(work'.txs, work'.calls)
    BY <2>1, <2>2, <2>3, NewCallRowsComplete
  <2> QED BY <1>5, <2>4 DEF IndexTx
<1>6. CASE StoreTxFails
  BY <1>6 DEF StoreTxFails, Return
<1>7. CASE StoreAccounts
  <2>1. work'.txs = work.txs /\ work'.calls = work.calls /\ work'.aborted = work.aborted
    BY <1>7 DEF StoreAccounts, ProcTypeOK, WorkType
  <2> QED BY <1>7, <2>1 DEF StoreAccounts
<1>8. CASE StoreAccountsFails
  <2>1. /\ work'.txs = work.txs /\ work'.calls = work.calls
        /\ ~work'.aborted => ~work.aborted
    BY <1>8 DEF StoreAccountsFails, ProcTypeOK, WorkType
  <2> QED BY <1>8, <2>1 DEF StoreAccountsFails
<1>9. CASE Commit
  BY <1>9 DEF Commit, ApplyWork
<1>10. CASE CheckpointFails
  BY <1>10 DEF CheckpointFails, Return
<1>11. CASE CommitFails
  BY <1>11 DEF CommitFails, ApplyWork, Return
<1> QED
  BY <1>1, <1>2, <1>3, <1>4, <1>5, <1>6, <1>7, <1>8, <1>9, <1>10, <1>11 DEF ProcStep

(* The signatures of a call are stored, skipped or still to be taken.        *)
LEMMA StepHanded ==
    ASSUME ProcTypeOK, WorkExtends, HandedKept, ProcStep
    PROVE  HandedKept'
<1> USE DEF HandedKept, InChunk, dbVars
<1>1. CASE LeaveLoop
  BY <1>1 DEF LeaveLoop, Return
<1>2. CASE BeginChunk
  <2>1. work'.txs = txs
    BY <1>2 DEF BeginChunk, NoWork
  <2> QED BY <1>2, <2>1 DEF BeginChunk
<1>3. CASE BeginFails
  BY <1>3 DEF BeginFails, Return
<1>4. CASE SkipTx
  <2>1. Range(todo) = {Head(todo)} \cup Range(todo')
    BY <1>4, TakeSigFacts DEF SkipTx, TakeSig
  <2>2. work'.txs = work.txs /\ work'.skipped = work.skipped \cup {Head(todo)}
    BY <1>4 DEF SkipTx, ProcTypeOK, WorkType
  <2>3. pc = "sigs" /\ pc' = "sigs" /\ handed' = handed /\ skipped' = skipped
    BY <1>4 DEF SkipTx, TakeSig
  <2> QED BY <2>1, <2>2, <2>3
<1>5. CASE IndexTx
  <2>1. Range(todo) = {Head(todo)} \cup Range(todo')
    BY <1>5, TakeSigFacts DEF IndexTx, TakeSig
  <2>2. work'.txs = work.txs \cup {Head(todo)} /\ work'.skipped = work.skipped
    BY <1>5 DEF IndexTx, ProcTypeOK, WorkType
  <2>3. pc = "sigs" /\ pc' = "sigs" /\ handed' = handed /\ skipped' = skipped
    BY <1>5 DEF IndexTx, TakeSig
  <2> QED BY <2>1, <2>2, <2>3
<1>6. CASE StoreTxFails
  BY <1>6 DEF StoreTxFails, Return
<1>7. CASE StoreAccounts
  <2>1. work'.txs = work.txs /\ work'.skipped = work.skipped
    BY <1>7 DEF StoreAccounts, ProcTypeOK, WorkType
  <2> QED BY <1>7, <2>1 DEF StoreAccounts
<1>8. CASE StoreAccountsFails
  <2>1. work'.txs = work.txs /\ work'.skipped = work.skipped
    BY <1>8 DEF StoreAccountsFails, ProcTypeOK, WorkType
  <2> QED BY <1>8, <2>1 DEF StoreAccountsFails
<1>9. CASE Commit
  BY <1>9 DEF Commit, ApplyWork
<1>10. CASE CheckpointFails
  BY <1>10 DEF CheckpointFails, Return
<1>11. CASE CommitFails
  BY <1>11 DEF CommitFails, Return
<1> QED
  BY <1>1, <1>2, <1>3, <1>4, <1>5, <1>6, <1>7, <1>8, <1>9, <1>10, <1>11 DEF ProcStep

(* The committed tables change only by applying the open transaction; then   *)
(* the checkpoint moves to the last signature it handled, unless it handled  *)
(* none.                                                                     *)
LEMMA StepCommits ==
    ASSUME ProcTypeOK, ProcStep
    PROVE  \/ UNCHANGED <<dbVars, skipped>>
           \/ pc = "checkpoint" /\ ~work.aborted /\ ApplyWork
<1> USE DEF dbVars
<1>1. CASE Commit
  BY <1>1 DEF Commit
<1>2. CASE CommitFails
  BY <1>2 DEF CommitFails
<1>3. CASE ~Commit /\ ~CommitFails
  BY <1>3 DEF ProcStep, LeaveLoop, BeginChunk, BeginFails, SkipTx, IndexTx,
              StoreTxFails, StoreAccounts, StoreAccountsFails, CheckpointFails
<1> QED BY <1>1, <1>2, <1>3

LEMMA StepSigMark ==
    ASSUME ProcTypeOK, WorkExtends, SigMarkBacked, ProcStep
    PROVE  SigMarkBacked'
<1>1. CASE UNCHANGED <<dbVars, skipped>>
  BY <1>1 DEF SigMarkBacked, dbVars
<1>2. CASE pc = "checkpoint" /\ ~work.aborted /\ ApplyWork
  BY <1>2 DEF SigMarkBacked, ApplyWork, WorkExtends, InChunk
<1> QED BY <1>1, <1>2, StepCommits

(* All of it at once.                                                        *)
LEMMA StepInv ==
    ASSUME ProcInv, ProcStep, UNCHANGED now
    PROVE  ProcInv'
BY StepType, StepWork, StepCalls, StepHanded, StepSigMark DEF ProcInv
-----------------------------------------------------------------------------
(* The steps of callers and of the environment.                              *)
LEMMA InitInv ==
    ASSUME ProcInit, now = InitialSlot
    PROVE  ProcInv
<1>1. /\ InitialSlot \in 0..MaxSlot
      /\ <<>> \in Seq(Sig) /\ Len(<<>>) = 0
  BY LedgerIsConsistent, EmptySeq DEF LedgerAssumption
<1>2. NoWork \in WorkType
  BY DEF NoWork, WorkType
<1>3. ProcTypeOK
  <2>1. todo \in Seq(Sig) /\ left \in 0..Len(todo)
    BY <1>1 DEF ProcInit
  <2>2. now \in 0..MaxSlot /\ work \in WorkType
    BY <1>1, <1>2 DEF ProcInit
  <2> QED BY <2>1, <2>2 DEF ProcInit, ProcTypeOK
<1>4. Range(<<>>) = {}
  BY DEF Range
<1> QED
  BY <1>3, <1>4 DEF ProcInit, ProcInv, WorkExtends, CallsConsistent, HandedKept,
     SigMarkBacked, StoredTxHasItsCalls, Complete, CallsOf, InChunk

LEMMA CallInv ==
    ASSUME ProcInv, NEW q \in Seq(Sig), CallProcess(q), UNCHANGED now
    PROVE  ProcInv'
<1>1. Range(q) \subseteq Sig
  BY LenProperties DEF Range
<1>2. pc = "idle" /\ left = 0 /\ Len(q) \in Nat
  BY LenProperties DEF CallProcess, ProcInv, WorkExtends
<1>3. ProcTypeOK'
  BY <1>1, <1>2 DEF ProcInv, ProcTypeOK, CallProcess, dbVars
<1>4. HandedKept'
  BY <1>2 DEF HandedKept, CallProcess, InChunk
<1> QED
  BY <1>2, <1>3, <1>4 DEF ProcInv, CallProcess, dbVars, WorkExtends, CallsConsistent,
     SigMarkBacked, StoredTxHasItsCalls, InChunk

LEMMA ReturnInv ==
    ASSUME ProcInv, NEW o \in {"ok", "err"}, CallReturns(o), UNCHANGED now
    PROVE  ProcInv'
<1>1. pc' = "idle" /\ ~InChunk /\ UNCHANGED <<dbVars, shutdown, todo, left, work, handed, skipped>>
  BY DEF CallReturns, InChunk
<1>2. ProcTypeOK'
  BY <1>1 DEF ProcInv, ProcTypeOK, dbVars
<1> QED
  BY <1>1, <1>2 DEF ProcInv, dbVars, WorkExtends, CallsConsistent, HandedKept,
     SigMarkBacked, StoredTxHasItsCalls, InChunk

LEMMA ShutdownInv ==
    ASSUME ProcInv, RequestShutdown, UNCHANGED now
    PROVE  ProcInv'
<1>1. shutdown' = TRUE /\ UNCHANGED <<dbVars, callVars, handed, skipped>>
  BY DEF RequestShutdown
<1>2. ProcTypeOK'
  BY <1>1 DEF ProcInv, ProcTypeOK, dbVars, callVars
<1> QED
  BY <1>1, <1>2 DEF ProcInv, dbVars, callVars, WorkExtends, CallsConsistent,
     HandedKept, SigMarkBacked, StoredTxHasItsCalls, InChunk

LEMMA LostInv ==
    ASSUME ProcInv, ProcessLost, UNCHANGED now
    PROVE  ProcInv'
<1>1. <<>> \in Seq(Sig) /\ Len(<<>>) = 0
  BY EmptySeq
<1>2. NoWork \in WorkType
  BY DEF NoWork, WorkType
<1>3. ProcTypeOK'
  <2>1. todo' \in Seq(Sig) /\ left' \in 0..Len(todo')
    BY <1>1 DEF ProcessLost
  <2>2. work' \in WorkType
    BY <1>2 DEF ProcessLost
  <2> QED BY <2>1, <2>2 DEF ProcessLost, ProcInv, ProcTypeOK, dbVars
<1> QED
  BY <1>3 DEF ProcessLost, ProcInv, dbVars, WorkExtends, CallsConsistent, HandedKept,
     SigMarkBacked, StoredTxHasItsCalls, InChunk

LEMMA ConfirmInv ==
    ASSUME ProcInv, SlotConfirmed, UNCHANGED procVars
    PROVE  ProcInv'
<1>1. now' \in 0..MaxSlot
  BY LedgerIsConsistent DEF SlotConfirmed, ProcInv, ProcTypeOK, LedgerAssumption
<1>2. UNCHANGED <<txs, calls, accs, lastSig, lastSlot, shutdown, pc, todo, left,
                  work, handed, skipped>>
  BY DEF procVars, dbVars, callVars
<1>3. ProcTypeOK'
  BY <1>1, <1>2 DEF ProcInv, ProcTypeOK
<1> QED
  BY <1>2, <1>3 DEF ProcInv, WorkExtends, CallsConsistent, HandedKept, SigMarkBacked,
     StoredTxHasItsCalls, InChunk

LEMMA StutterInv ==
    ASSUME ProcInv, UNCHANGED procVars, UNCHANGED now
    PROVE  ProcInv'
<1>1. UNCHANGED <<txs, calls, accs, lastSig, lastSlot, shutdown, pc, todo, left,
                  work, handed, skipped, now>>
  BY DEF procVars, dbVars, callVars
<1>2. ProcTypeOK'
  BY <1>1 DEF ProcInv, ProcTypeOK
<1> QED
  BY <1>1, <1>2 DEF ProcInv, WorkExtends, CallsConsistent, HandedKept, SigMarkBacked,
     StoredTxHasItsCalls, InChunk
-----------------------------------------------------------------------------
(* A complete set of call rows is what the abstract store calls RowsOf.      *)
LEMMA RowsOfComplete ==
    ASSUME NEW S \in SUBSET Sig, NEW rows \in SUBSET (Sig \X Nat),
           CallsOf(S, rows), Complete(S, rows)
    PROVE  {<<r[1], Calls[r[1]][r[2]].table>> : r \in rows} = Store!RowsOf(S)
<1> DEFINE Seen == {<<r[1], Calls[r[1]][r[2]].table>> : r \in rows}
<1>1. ASSUME NEW p \in Seen PROVE p \in Store!RowsOf(S)
  <2>1. PICK r \in rows : p = <<r[1], Calls[r[1]][r[2]].table>>
    OBVIOUS
  <2>2. r[1] \in S /\ r[2] \in DOMAIN Calls[r[1]]
    BY DEF CallsOf
  <2>3. Calls[r[1]][r[2]].table \in TablesOf[r[1]]
    BY <2>2 DEF TablesOf
  <2> QED BY <2>1, <2>2, <2>3 DEF Store!RowsOf
<1>2. ASSUME NEW p \in Store!RowsOf(S) PROVE p \in Seen
  <2>1. PICK s \in S : p \in {s} \X TablesOf[s]
    BY <1>2 DEF Store!RowsOf
  <2>2. PICK i \in DOMAIN Calls[s] : p = <<s, Calls[s][i].table>>
    BY <2>1 DEF TablesOf
  <2>3. PICK j \in DOMAIN Calls[s] : Calls[s][j].table = Calls[s][i].table /\ <<s, j>> \in rows
    BY DEF Complete
  <2> QED BY <2>2, <2>3
<1> QED BY <1>1, <1>2

(* Each step of the Processor is one CommitBatch of the store, or invisible. *)
LEMMA StepRefines ==
    ASSUME ProcInv, ProcStep
    PROVE  [Store!StoreNext]_(Store!storeVars)
<1>1. CASE UNCHANGED <<dbVars, skipped>>
  BY <1>1 DEF dbVars, Store!storeVars, CallRows
<1>2. CASE pc = "checkpoint" /\ ~work.aborted /\ ApplyWork
  <2>1. InChunk
    BY <1>2 DEF InChunk
  <2>2. CASE work.last = None
    <3>1. txs' = txs /\ calls' = calls /\ lastSig' = lastSig /\ lastSlot' = lastSlot
      BY <1>2, <2>1, <2>2 DEF ApplyWork, ProcInv, WorkExtends
    <3> QED BY <3>1 DEF Store!storeVars, CallRows
  <2>3. CASE work.last # None
    <3>1. /\ work.txs \in SUBSET Sig /\ work.calls \in SUBSET (Sig \X Nat)
          /\ work.last \in work.txs
          /\ txs \subseteq work.txs /\ calls \subseteq work.calls
      BY <2>1, <2>3 DEF ProcInv, ProcTypeOK, WorkType, WorkExtends
    <3>2. CallRows' = Store!RowsOf(work.txs)
      BY <1>2, <2>1, <3>1, RowsOfComplete DEF ProcInv, CallsConsistent, ApplyWork, CallRows
    <3>3. CallRows \subseteq CallRows'
      BY <1>2, <3>1 DEF CallRows, ApplyWork
    <3>4. Store!CommitBatch(work.txs, work.last)
      BY <1>2, <2>3, <3>1, <3>2, <3>3 DEF ApplyWork, Store!CommitBatch
    <3> QED BY <3>1, <3>4 DEF Store!StoreNext
  <2> QED BY <2>2, <2>3
<1> QED BY <1>1, <1>2, StepCommits DEF ProcInv
=============================================================================
