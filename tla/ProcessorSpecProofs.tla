------------------------- MODULE ProcessorSpecProofs -------------------------
(* The theorems about the Processor under any caller.                        *)
EXTENDS ProcessorSpec, ProcessorProofs

(* ProcInv is inductive.                                                     *)
LEMMA ProcInvStep ==
    ASSUME ProcInv, [Next]_vars
    PROVE  ProcInv'
<1>1. CASE Call
  <2>1. PICK q \in Workloads : CallProcess(q) /\ UNCHANGED now
    BY <1>1 DEF Call
  <2>2. q \in Seq(Sig)
    BY WorkloadsAreLists
  <2> QED BY <2>1, <2>2, CallInv
<1>2. CASE Step
  BY <1>2, StepInv DEF Step
<1>3. CASE TakeResult
  BY <1>3, ReturnInv DEF TakeResult
<1>4. CASE Shutdown
  BY <1>4, ShutdownInv DEF Shutdown
<1>5. CASE Crash
  BY <1>5, LostInv DEF Crash
<1>6. CASE Exit
  BY <1>6, LostInv DEF Exit
<1>7. CASE Confirm
  BY <1>7, ConfirmInv DEF Confirm
<1>8. CASE UNCHANGED vars
  BY <1>8, StutterInv DEF vars
<1> QED
  BY <1>1, <1>2, <1>3, <1>4, <1>5, <1>6, <1>7, <1>8 DEF Next

THEOREM ProcInvariant == Spec => []ProcInv
<1>1. Init => ProcInv
  BY InitInv DEF Init
<1>2. ProcInv /\ [Next]_vars => ProcInv'
  BY ProcInvStep
<1> QED BY <1>1, <1>2, PTL DEF Spec

(* The type invariant.                                                       *)
THEOREM TypeCorrect == Spec => []TypeOK
<1>1. ProcInv => TypeOK
  BY DEF ProcInv, TypeOK
<1> QED BY <1>1, ProcInvariant, PTL

(* A swallowed insert error never leaves a visible transaction without its   *)
(* instruction rows.                                                         *)
THEOREM StoredTxsAreComplete == Spec => []StoredTxHasItsCalls
<1>1. ProcInv => StoredTxHasItsCalls
  BY DEF ProcInv, CallsConsistent
<1> QED BY <1>1, ProcInvariant, PTL

(* Ok from process_signatures means that nothing of the list was forgotten.  *)
THEOREM OkIsTrustworthy == Spec => []OkMeansIndexed
<1>1. ProcInv => OkMeansIndexed
  BY DEF ProcInv, HandedKept, OkMeansIndexed
<1> QED BY <1>1, ProcInvariant, PTL

(* The two checkpoint rows are written together or not at all.               *)
THEOREM CheckpointIsBacked == Spec => []CheckpointBacked
<1>1. Init => CheckpointBacked
  BY DEF Init, ProcInit, CheckpointBacked, SigMarkBacked
<1>2. ASSUME ProcInv, ProcInv', CheckpointBacked, [Next]_vars
      PROVE  CheckpointBacked'
  <2>1. SigMarkBacked'
    BY <1>2 DEF ProcInv
  <2>2. CASE UNCHANGED <<lastSig, lastSlot>>
    BY <1>2, <2>1, <2>2 DEF CheckpointBacked
  <2>3. CASE pc = "checkpoint" /\ ~work.aborted /\ ApplyWork
    BY <1>2, <2>1, <2>3 DEF CheckpointBacked, ApplyWork
  <2>4. CASE Step
    BY <1>2, <2>2, <2>3, <2>4, StepCommits DEF Step, ProcInv, dbVars
  <2>5. CASE ~Step
    BY <1>2, <2>2, <2>5 DEF Next, vars, procVars, dbVars, Call, CallProcess, TakeResult,
       CallReturns, Shutdown, RequestShutdown, Crash, Exit, ProcessLost, Confirm
  <2> QED BY <2>4, <2>5
<1> QED BY <1>1, <1>2, ProcInvariant, PTL DEF Spec

(* The Processor implements the abstract store.                              *)
THEOREM ProcessorImplementsStore == Spec => ImplementsStore
<1>1. Init => Store!StoreInit
  BY DEF Init, ProcInit, Store!StoreInit, CallRows
<1>2. ASSUME ProcInv, [Next]_vars
      PROVE  [Store!StoreNext]_(Store!storeVars)
  <2>1. CASE Step
    BY <1>2, <2>1, StepRefines DEF Step
  <2>2. CASE ~Step
    <3>1. UNCHANGED dbVars
      BY <1>2, <2>2 DEF Next, vars, procVars, dbVars, Call, CallProcess, TakeResult,
         CallReturns, Shutdown, RequestShutdown, Crash, Exit, ProcessLost, Confirm
    <3> QED BY <3>1 DEF dbVars, Store!storeVars, CallRows
  <2> QED BY <2>1, <2>2
<1> QED BY <1>1, <1>2, ProcInvariant, PTL DEF Spec, ImplementsStore, Store!StoreSpec
-----------------------------------------------------------------------------
(* The rows upsert_ix_typed adds leave one row per table and transaction.    *)
LEMMA NewCallRowsAreNew ==
    ASSUME NEW s \in Sig, NEW rows \in SUBSET (Sig \X Nat), OneRow(rows)
    PROVE  OneRow(rows \cup NewCallRows(s, rows))
<1> SUFFICES ASSUME NEW r \in rows \cup NewCallRows(s, rows),
                    NEW q \in rows \cup NewCallRows(s, rows),
                    r[1] = q[1], Calls[r[1]][r[2]].table = Calls[q[1]][q[2]].table
             PROVE  r = q
  BY DEF OneRow
<1>1. \A p \in NewCallRows(s, rows) :
          /\ p = <<s, p[2]>> /\ p[2] \in DOMAIN Calls[s] /\ p[2] \in Nat
          /\ \A j \in 1..(p[2] - 1) : Calls[s][j].table # Calls[s][p[2]].table
          /\ \A x \in rows : x[1] = s => Calls[s][x[2]].table # Calls[s][p[2]].table
  BY CallsFacts DEF NewCallRows
<1>2. CASE r \in rows /\ q \in rows
  BY <1>2 DEF OneRow
<1>3. CASE r \in NewCallRows(s, rows) /\ q \in NewCallRows(s, rows)
  <2>1. /\ r = <<s, r[2]>> /\ q = <<s, q[2]>> /\ r[2] \in Nat /\ q[2] \in Nat
        /\ r[2] \in 1..Len(Calls[s]) /\ q[2] \in 1..Len(Calls[s]) /\ Len(Calls[s]) \in Nat
    BY <1>1, <1>3, CallsFacts
  <2>2. ~(r[2] < q[2]) /\ ~(q[2] < r[2])
    BY <1>1, <1>3, <2>1
  <2> QED BY <2>1, <2>2
<1>4. CASE r \in rows /\ q \in NewCallRows(s, rows)
  BY <1>1, <1>4
<1>5. CASE q \in rows /\ r \in NewCallRows(s, rows)
  BY <1>1, <1>5
<1> QED BY <1>2, <1>3, <1>4, <1>5

(* upsert_account_typed leaves one row per account and slot.                 *)
LEMMA UpsertKeepsOne ==
    ASSUME NEW rows, OnePerSlot(rows), NEW found, NEW at
    PROVE  OnePerSlot(UpsertAccounts(rows, found, at))
  BY DEF OnePerSlot, UpsertAccounts

LEMMA UpsertTouched ==
    ASSUME NEW S, NEW rows, TouchedBy(S, rows),
           NEW found, TouchedBy(S, found), NEW at
    PROVE  TouchedBy(S, UpsertAccounts(rows, found, at))
  BY DEF TouchedBy, UpsertAccounts

LEMMA RowsStep ==
    ASSUME ProcInv, RowsInv, ProcStep
    PROVE  RowsInv'
<1> USE DEF RowsInv, OneRowPerTable, AccountRowsBacked, InChunk
<1>0. ProcTypeOK /\ WorkExtends
  BY DEF ProcInv
<1>1. CASE Commit \/ CommitFails
  <2>1. OneRow(calls)' /\ OnePerSlot(accs)' /\ TouchedBy(txs, accs)'
    BY <1>1 DEF Commit, CommitFails, ApplyWork, dbVars, OneRow, OnePerSlot, TouchedBy
  <2>2. ~InChunk'
    BY <1>1 DEF Commit, CommitFails, Return
  <2> QED BY <2>1, <2>2
<1>2. ASSUME UNCHANGED dbVars
      PROVE  (OneRow(calls) /\ OnePerSlot(accs) /\ TouchedBy(txs, accs))'
  BY <1>2 DEF dbVars, OneRow, OnePerSlot, TouchedBy
<1>3. CASE LeaveLoop \/ BeginFails \/ StoreTxFails \/ CheckpointFails
  <2>1. UNCHANGED dbVars /\ ~InChunk'
    BY <1>3 DEF LeaveLoop, BeginFails, StoreTxFails, CheckpointFails, Return
  <2> QED BY <1>2, <2>1
<1>4. CASE BeginChunk
  <2>1. UNCHANGED dbVars
    BY <1>4 DEF BeginChunk
  <2>2. /\ work'.txs = txs /\ work'.calls = calls /\ work'.accs = accs
        /\ work'.touched = {}
    BY <1>4 DEF BeginChunk, NoWork
  <2>3. OneRow(work'.calls) /\ OnePerSlot(work'.accs)
    BY <2>2 DEF OneRow, OnePerSlot
  <2>4. TouchedBy(work'.txs, work'.accs) /\ TouchedBy(work'.txs, work'.touched)
    BY <2>2 DEF TouchedBy
  <2> QED BY <1>2, <2>1, <2>3, <2>4
<1>5. CASE SkipTx \/ StoreAccountsFails
  <2>1. UNCHANGED dbVars /\ InChunk
    BY <1>5 DEF SkipTx, TakeSig, StoreAccountsFails
  <2>2. /\ work'.txs = work.txs /\ work'.calls = work.calls /\ work'.accs = work.accs
        /\ work'.touched = work.touched
    BY <1>0, <1>5 DEF SkipTx, StoreAccountsFails, ProcTypeOK, WorkType
  <2> QED BY <1>2, <2>1, <2>2
<1>6. CASE IndexTx
  <2> DEFINE s == Head(todo)
  <2>1. s \in Sig /\ InChunk /\ UNCHANGED dbVars
    BY <1>0, <1>6, TakeSigFacts DEF IndexTx, TakeSig
  <2>2. PICK refused \in BOOLEAN :
          work' = [work EXCEPT
                        !.txs = @ \cup {s},
                        !.calls = @ \cup IF refused THEN {} ELSE NewCallRows(s, @),
                        !.touched = @ \cup NewAddrs(s, @),
                        !.last = s,
                        !.aborted = refused]
    BY <1>6 DEF IndexTx
  <2> HIDE DEF s
  <2>3. /\ work'.txs = work.txs \cup {s} /\ work'.accs = work.accs
        /\ \/ work'.calls = work.calls
           \/ work'.calls = work.calls \cup NewCallRows(s, work.calls)
        /\ work'.touched = work.touched \cup NewAddrs(s, work.touched)
    BY <1>0, <2>2 DEF ProcTypeOK, WorkType
  <2>4. OneRow(work'.calls)
    BY <1>0, <2>1, <2>3, NewCallRowsAreNew DEF ProcTypeOK, WorkType
  <2>5. OnePerSlot(work'.accs) /\ TouchedBy(work'.txs, work'.accs)
    BY <2>1, <2>3 DEF TouchedBy
  <2>6. TouchedBy({s}, NewAddrs(s, work.touched))
    BY DEF TouchedBy, NewAddrs
  <2>7. TouchedBy(work'.txs, work'.touched)
    BY <2>1, <2>3, <2>6 DEF TouchedBy
  <2> QED BY <1>2, <2>1, <2>4, <2>5, <2>7
<1>7. CASE StoreAccounts
  <2>1. PICK found \in SUBSET work.touched, at \in 0..now :
          work' = IF work.aborted THEN work
                  ELSE [work EXCEPT !.accs = UpsertAccounts(@, found, at)]
    BY <1>7 DEF StoreAccounts
  <2>2. UNCHANGED dbVars /\ InChunk
    BY <1>7 DEF StoreAccounts
  <2>3. /\ work'.txs = work.txs /\ work'.calls = work.calls
        /\ work'.touched = work.touched
        /\ work'.accs \in {work.accs, UpsertAccounts(work.accs, found, at)}
    BY <1>0, <2>1 DEF ProcTypeOK, WorkType
  <2>4. TouchedBy(work.txs, found)
    BY <2>1, <2>2 DEF TouchedBy
  <2>5. OnePerSlot(work'.accs) /\ TouchedBy(work'.txs, work'.accs)
    BY <2>2, <2>3, <2>4, UpsertKeepsOne, UpsertTouched
  <2> QED BY <1>2, <2>2, <2>3, <2>5
<1> QED
  BY <1>1, <1>3, <1>4, <1>5, <1>6, <1>7 DEF ProcStep

(* RowsInv holds throughout.                                                 *)
LEMMA RowsInvariant == Spec => []RowsInv
<1>1. Init => RowsInv
  BY DEF Init, ProcInit, RowsInv, OneRowPerTable, AccountRowsBacked, InChunk,
         OneRow, OnePerSlot, TouchedBy
<1>2. ASSUME ProcInv, RowsInv, [Next]_vars
      PROVE  RowsInv'
  <2>1. CASE Step
    BY <1>2, <2>1, RowsStep DEF Step
  <2>2. CASE ~Step
    <3>1. UNCHANGED dbVars /\ (~InChunk' \/ (InChunk /\ work' = work))
      BY <1>2, <2>2 DEF Next, vars, procVars, dbVars, callVars, InChunk, Call,
         CallProcess, TakeResult, CallReturns, Shutdown, RequestShutdown, Crash, Exit,
         ProcessLost, Confirm
    <3>2. /\ OneRow(calls)' <=> OneRow(calls)
          /\ OnePerSlot(accs)' <=> OnePerSlot(accs)
          /\ TouchedBy(txs, accs)' <=> TouchedBy(txs, accs)
      BY <3>1 DEF dbVars, OneRow, OnePerSlot, TouchedBy
    <3> QED BY <1>2, <3>1, <3>2 DEF RowsInv, OneRowPerTable, AccountRowsBacked
  <2> QED BY <2>1, <2>2
<1> QED BY <1>1, <1>2, ProcInvariant, PTL DEF Spec

(* However often a transaction is handed in again, no ix_* table holds two   *)
(* rows of it.                                                               *)
THEOREM CallRowsAreUnique == Spec => []OneRowPerTable
<1>1. RowsInv => OneRowPerTable
  BY DEF RowsInv
<1> QED BY <1>1, RowsInvariant, PTL

(* Every acc_* row is the only one of its account and slot, and that slot is *)
(* of a stored transaction that touched the account.                         *)
THEOREM AccountRowsAreBacked == Spec => []AccountRowsBacked
<1>1. RowsInv => AccountRowsBacked
  BY DEF RowsInv
<1> QED BY <1>1, RowsInvariant, PTL
=============================================================================
