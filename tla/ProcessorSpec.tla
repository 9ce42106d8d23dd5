---------------------------- MODULE ProcessorSpec ----------------------------
(* The Processor alone, driven by any caller: it is called with any of       *)
(* Workloads, again and again, by processes that crash and restart.  What    *)
(* holds here does not depend on which signatures the jobs choose.           *)
EXTENDS Processor

CONSTANT Workloads    \* the lists a caller may pass, repetitions included

ASSUME WorkloadsAreLists == Workloads \subseteq Seq(Sig)

vars == <<procVars, now>>

Init == ProcInit /\ now = InitialSlot

Call == \E q \in Workloads : CallProcess(q) /\ UNCHANGED now
Step == ProcStep /\ UNCHANGED now
TakeResult == \E o \in {"ok", "err"} : CallReturns(o) /\ UNCHANGED now
Shutdown == RequestShutdown /\ UNCHANGED now
Crash == Fault("crash") /\ ProcessLost /\ UNCHANGED now
Confirm == SlotConfirmed /\ UNCHANGED procVars

(* After the shutdown signal the process ends: a new one may be started.     *)
Exit == shutdown /\ pc = "idle" /\ ProcessLost /\ UNCHANGED now

Next == Call \/ Step \/ TakeResult \/ Shutdown \/ Crash \/ Exit \/ Confirm

(* The async task that runs process_signatures is scheduled, its RPC and     *)
(* database calls return; nothing is assumed of callers, signals or crashes. *)
Spec == Init /\ [][Next]_vars /\ WF_vars(Step)
-----------------------------------------------------------------------------
(* Every variable has its type.                                              *)
TypeOK == ProcTypeOK

(* README "last indexed signature and slot are stored atomically": the two   *)
(* checkpoint rows always name a stored transaction and its slot, however    *)
(* commits, lost commit answers and crashes interleave.                      *)
CheckpointBacked ==
    /\ SigMarkBacked
    /\ lastSlot = IF lastSig = None THEN None ELSE SlotOf[lastSig]

(* The accounts `rows' names, each with its slot, are those of calls of S.   *)
TouchedBy(S, rows) ==
    \A r \in rows : \E s \in S :
        /\ SlotOf[s] = r.slot
        /\ \E i \in DOMAIN Calls[s] : r.addr \in Calls[s][i].accounts

OnePerSlot(rows) ==
    \A r, q \in rows : r.addr = q.addr /\ r.slot = q.slot => r = q

(* An account has one acc_* row per slot, however often it is fetched again, *)
(* and the slot is that of a stored transaction that touched the account     *)
(* (not the slot the data is from: that is the node's finalized one).        *)
AccountRowsBacked == OnePerSlot(accs) /\ TouchedBy(txs, accs)

(* A call of process_signatures comes to an end, even with every fault.      *)
CallEnds == (pc = "loop") ~> (pc \in {"ok", "err", "idle"})

(* What readers of the database see are atomic batches: every step of the    *)
(* Processor is one CommitBatch of the abstract store, or changes nothing.   *)
ImplementsStore == Store!StoreSpec
-----------------------------------------------------------------------------
(* Why OneRowPerTable and AccountRowsBacked hold: the open transaction keeps *)
(* them too, also when it is aborted.                                        *)
RowsInv ==
    /\ OneRowPerTable /\ AccountRowsBacked
    /\ InChunk =>
         /\ OneRow(work.calls)
         /\ OnePerSlot(work.accs)
         /\ TouchedBy(work.txs, work.accs) /\ TouchedBy(work.txs, work.touched)
=============================================================================
