----------------------------- MODULE BatchProofs -----------------------------
(* Batch mode for every chain, range, chunk size and set of faults: what the *)
(* slot checkpoint can be trusted for.                                       *)
EXTENDS BatchProperties, ProcessorProofs

LEMMA JobFacts ==
    ASSUME TypeOK, IsRange
    PROVE  job.start \in Slot /\ job.end \in Slot
BY BatchParameters, ProcessorParameters
   DEF TypeOK, IsRange, BatchAssumption, Job, ProcessorAssumption, Slot

(* A chunk ends inside the range, at or after its first slot.                *)
LEMMA ChunkEndFacts ==
    ASSUME TypeOK, IsRange, job.start <= cursor, cursor <= job.end
    PROVE  /\ ChunkEnd \in Slot
           /\ cursor <= ChunkEnd /\ ChunkEnd <= job.end
           /\ cursor \in Slot
<1>1. job.start \in 1..MaxSlot /\ job.end \in 1..MaxSlot /\ MaxSlot \in Nat
  BY JobFacts, LedgerIsConsistent DEF Slot, LedgerAssumption
<1>2. BatchSize \in Nat \ {0} /\ cursor \in 0..(MaxSlot + 1)
  BY ProcessorParameters DEF ProcessorAssumption, TypeOK
<1> QED BY <1>1, <1>2 DEF ChunkEnd, Slot

LEMMA NewestFirstType ==
    ASSUME TypeOK
    PROVE  NewestFirst(BatchSize) \in Seq(Sig)
<1> DEFINE n == UpTo[now]
           m == IF BatchSize < n THEN BatchSize ELSE n
<1>1. /\ n \in 0..Len(Chain) /\ Len(Chain) \in Nat /\ BatchSize \in Nat
      /\ \A i \in 1..Len(Chain) : Chain[i] \in Sig
  <2>1. Chain \in Seq(Sig) /\ UpTo \in [0..MaxSlot -> 0..Len(Chain)]
    BY LedgerIsConsistent DEF LedgerAssumption
  <2>2. Len(Chain) \in Nat /\ Chain \in [1..Len(Chain) -> Sig]
    BY <2>1, LenProperties
  <2> QED
    BY <2>1, <2>2, ProcessorParameters DEF TypeOK, ProcTypeOK, ProcessorAssumption
<1>2. m \in Nat /\ \A i \in 1..m : n - i + 1 \in 1..Len(Chain)
  BY <1>1
<1>3. [i \in 1..m |-> Chain[n - i + 1]] \in Seq(Sig)
  <2> HIDE DEF n, m
  <2>1. \A i \in 1..m : Chain[n - i + 1] \in Sig
    BY <1>1, <1>2
  <2> QED BY <1>2, <2>1
<1> QED BY <1>3 DEF NewestFirst

(* The only action of batch mode that writes a table of the Processor.       *)
LEMMA MarkInv ==
    ASSUME ProcInv, MarkChunk, ChunkEnd \in Slot, UNCHANGED now
    PROVE  ProcInv'
<1>1. /\ lastSlot' \in Slot
      /\ UNCHANGED <<txs, calls, accs, lastSig, shutdown, pc, todo, left, work,
                     handed, skipped, now>>
  BY DEF MarkChunk, callVars
<1>2. ProcTypeOK'
  BY <1>1 DEF ProcInv, ProcTypeOK
<1> QED
  BY <1>1, <1>2 DEF ProcInv, WorkExtends, CallsConsistent, HandedKept, SigMarkBacked,
     StoredTxHasItsCalls, InChunk
-----------------------------------------------------------------------------
LEMMA ProcPart ==
    ASSUME BatchInv, [Next]_vars
    PROVE  ProcInv'
<1> USE DEF BatchInv
<1>1. CASE StartList
  <2>1. job.sigs \in Seq(Sig)
    BY BatchParameters DEF TypeOK, BatchAssumption, Job
  <2> QED BY <1>1, <2>1, CallInv DEF StartList
<1>2. CASE StartLatest
  BY <1>2, CallInv, NewestFirstType DEF StartLatest
<1>3. CASE NoLatest \/ PageFails \/ SkipRange \/ ResumeRange \/ StartRange \/ StartChunk
           \/ RangeDone \/ ScanBlock \/ PassOver \/ NothingFound \/ StopAfterChunk
           \/ NextChunk \/ Restart
  BY <1>3, StutterInv DEF NoLatest, PageFails, SkipRange, ResumeRange, StartRange,
     StartChunk, RangeDone, ScanBlock, PassOver, NothingFound, StopAfterChunk, NextChunk,
     Restart
<1>4. CASE WholeReturns \/ IndexReturns
  BY <1>4, ReturnInv DEF WholeReturns, IndexReturns
<1>5. CASE IndexChunk
  BY <1>5, CallInv DEF IndexChunk, TypeOK
<1>6. CASE SaveCheckpoint \/ SaveFails
  <2>1. ChunkEnd \in Slot
    BY <1>6, ChunkEndFacts DEF SaveCheckpoint, SaveFails, StageConsistent
  <2> QED BY <1>6, <2>1, MarkInv, StutterInv DEF SaveCheckpoint, SaveFails
<1>7. CASE Process
  BY <1>7, StepInv DEF Process
<1>8. CASE Shutdown
  BY <1>8, ShutdownInv DEF Shutdown
<1>9. CASE Exit \/ Crash
  BY <1>9, LostInv DEF Exit, Crash, ProcessGone
<1>10. CASE Confirm
  BY <1>10, ConfirmInv DEF Confirm
<1>11. CASE UNCHANGED vars
  BY <1>11, StutterInv DEF vars
<1> QED
  BY <1>1, <1>2, <1>3, <1>4, <1>5, <1>6, <1>7, <1>8, <1>9, <1>10, <1>11 DEF Next, BatchStep

(* The types of run_batch's own variables.                                   *)
LocalType ==
    /\ job \in Jobs /\ runs \in 1..MaxRuns
    /\ stage \in {"boot", "whole", "chunk", "scan", "index", "save", "saved",
                  "done", "failed", "down"}
    /\ cursor \in 0..(MaxSlot + 1) /\ scan \in 0..(MaxSlot + 1)
    /\ found \in Seq(Sig)
    /\ changed \in BOOLEAN /\ misread \in BOOLEAN
    /\ missed \subseteq Slot /\ stopped \subseteq Sig /\ split \subseteq Sig

LEMMA LocalTypePart ==
    ASSUME BatchInv, [Next]_vars
    PROVE  LocalType'
<1> USE DEF BatchInv
<1>0. /\ LocalType /\ MaxRuns \in Nat /\ MaxSlot \in Nat
      /\ todo \in Seq(Sig) /\ lastSlot \in Slot \cup {None} /\ None \notin Int
      /\ <<>> \in Seq(Sig)
  BY BatchParameters, LedgerIsConsistent, ProcessorParameters, EmptySeq
     DEF TypeOK, LocalType, BatchAssumption, LedgerAssumption, ProcTypeOK,
         ProcessorAssumption
<1> USE <1>0 DEF LocalType, history
<1>1. CASE StartList \/ StartLatest \/ NoLatest \/ PageFails \/ WholeReturns \/ RangeDone
           \/ IndexChunk \/ NothingFound \/ IndexReturns \/ StopAfterChunk
  BY <1>1 DEF StartList, StartLatest, NoLatest, PageFails, WholeReturns, RangeDone,
     IndexChunk, NothingFound, IndexReturns, StopAfterChunk
<1>2. CASE SkipRange
  BY <1>2 DEF SkipRange, LeftBehind
<1>3. CASE ResumeRange
  <2>1. PICK saved \in Readable :
          /\ saved # None /\ saved < job.end
          /\ cursor' = saved + 1
          /\ split' = split \cup LeftBehind(saved)
    BY <1>3 DEF ResumeRange
  <2>2. saved \in Slot
    BY <2>1 DEF Readable
  <2>3. cursor' \in 0..(MaxSlot + 1)
    BY <2>1, <2>2 DEF Slot
  <2> QED BY <1>3, <2>1, <2>3 DEF ResumeRange, LeftBehind
<1>4. CASE StartRange
  <2>1. cursor' = job.start /\ job.start \in Slot
    BY <1>4, JobFacts DEF StartRange
  <2>2. misread' \in BOOLEAN
    BY <1>4 DEF StartRange
  <2> QED BY <1>4, <2>1, <2>2 DEF StartRange, Slot
<1>5. CASE StartChunk
  BY <1>5 DEF StartChunk
<1>6. CASE ScanBlock \/ PassOver
  <2>1. ChunkEnd \in Slot /\ scan <= ChunkEnd /\ cursor <= scan /\ cursor \in Slot
    BY <1>6, ChunkEndFacts DEF ScanBlock, PassOver, StageConsistent
  <2>2. scan \in Slot /\ scan' \in 0..(MaxSlot + 1)
    BY <1>6, <2>1 DEF ScanBlock, PassOver, Slot
  <2>3. found' \in Seq(Sig)
    <3>1. Block(scan) \in Seq(Sig)
      BY <2>2, BlockContents
    <3>2. found \o Block(scan) \in Seq(Sig)
      BY <3>1, ConcatProperties
    <3>3. found' = found \/ found' = found \o Block(scan)
      BY <1>6 DEF ScanBlock, PassOver
    <3> QED BY <3>2, <3>3
  <2> QED BY <1>6, <2>2, <2>3 DEF ScanBlock, PassOver
<1>7. CASE SaveCheckpoint \/ SaveFails
  <2>1. Range(todo) \subseteq Sig
    BY LenProperties DEF Range
  <2> QED BY <1>7, <2>1 DEF SaveCheckpoint, SaveFails, MarkChunk
<1>8. CASE NextChunk
  <2>1. ChunkEnd \in Slot
    BY <1>8, ChunkEndFacts DEF NextChunk, StageConsistent
  <2> QED BY <1>8, <2>1 DEF NextChunk, Slot
<1>9. CASE Process \/ Shutdown \/ Confirm \/ UNCHANGED vars
  BY <1>9 DEF Process, Shutdown, Confirm, vars, batchVars, localVars
<1>10. CASE Exit \/ Crash
  <2>1. found' \in Seq(Sig)
    BY <1>0, <1>10 DEF Exit, Crash, ProcessGone
  <2> QED BY <1>10, <2>1 DEF Exit, Crash, ProcessGone
<1>11. CASE Restart
  <2>1. runs' \in 1..MaxRuns
    BY <1>11 DEF Restart
  <2>2. changed' \in BOOLEAN
    BY <1>11 DEF Restart
  <2> QED BY <1>11, <2>1, <2>2 DEF Restart
<1> QED
  BY <1>1, <1>2, <1>3, <1>4, <1>5, <1>6, <1>7, <1>8, <1>9, <1>10, <1>11 DEF Next, BatchStep

LEMMA TypePart ==
    ASSUME BatchInv, [Next]_vars
    PROVE  TypeOK'
BY ProcPart, LocalTypePart DEF ProcInv, TypeOK, LocalType

(* Where run_batch stands agrees with where process_signatures stands.       *)
LEMMA StagePart ==
    ASSUME BatchInv, [Next]_vars
    PROVE  StageConsistent'
<1> USE DEF BatchInv, history
<1>0. /\ IsRange => job.start \in Slot /\ job.end \in Slot
      /\ lastSlot \in Slot \cup {None} /\ None \notin Int
      /\ MaxSlot \in Nat /\ cursor \in 0..(MaxSlot + 1) /\ scan \in 0..(MaxSlot + 1)
  BY JobFacts, LedgerIsConsistent, ProcessorParameters
     DEF TypeOK, ProcTypeOK, LedgerAssumption, ProcessorAssumption
<1>1. IsRange /\ job.start <= cursor /\ cursor <= job.end =>
        ChunkEnd \in Slot /\ cursor <= ChunkEnd /\ ChunkEnd <= job.end
  BY ChunkEndFacts
<1>2. IsRange' = IsRange \/ job' # job
  BY DEF IsRange
<1> USE DEF StageConsistent, InCall
<1>3. CASE StartList \/ StartLatest \/ NoLatest \/ PageFails \/ WholeReturns
  BY <1>3 DEF StartList, StartLatest, NoLatest, PageFails, WholeReturns, CallProcess,
     CallReturns, procVars, callVars, IsList, IsLatest, IsRange
<1>4. CASE SkipRange
  BY <1>4 DEF SkipRange, procVars, callVars
<1>5. CASE ResumeRange
  <2>1. PICK saved \in Readable :
          /\ saved # None /\ saved >= job.start /\ saved < job.end
          /\ cursor' = saved + 1
    BY <1>5 DEF ResumeRange
  <2>2. saved \in Slot
    BY <1>0, <2>1 DEF Readable
  <2>3. job'.start <= cursor' /\ cursor' <= MaxSlot + 1
    BY <1>0, <1>5, <2>1, <2>2 DEF ResumeRange, Slot
  <2> QED BY <1>5, <2>3 DEF ResumeRange, procVars, callVars, IsRange
<1>6. CASE StartRange
  <2>1. job'.start <= cursor' /\ cursor' <= MaxSlot + 1
    BY <1>0, <1>6 DEF StartRange, Slot
  <2> QED BY <1>6, <2>1 DEF StartRange, procVars, callVars, IsRange
<1>7. CASE StartChunk
  <2>1. cursor' = cursor /\ job' = job /\ scan' = cursor /\ ChunkEnd' = ChunkEnd
    BY <1>7 DEF StartChunk, ChunkEnd
  <2>2. cursor \in Slot /\ cursor <= ChunkEnd /\ ChunkEnd \in Slot
    BY <1>7, ChunkEndFacts DEF StartChunk
  <2>3. cursor' <= scan' /\ scan' <= ChunkEnd' + 1
    BY <2>1, <2>2 DEF Slot
  <2>4. job'.start <= cursor' /\ cursor' <= job'.end /\ IsRange'
    BY <1>7, <2>1 DEF StartChunk, IsRange
  <2>5. stage' = "scan" /\ pc' = "idle"
    BY <1>7 DEF StartChunk, procVars, callVars
  <2> QED BY <2>3, <2>4, <2>5
<1>8. CASE RangeDone
  BY <1>8 DEF RangeDone, procVars, callVars
<1>9. CASE ScanBlock \/ PassOver
  <2>1. cursor' = cursor /\ job' = job /\ scan' = scan + 1 /\ ChunkEnd' = ChunkEnd
    BY <1>9 DEF ScanBlock, PassOver, ChunkEnd
  <2>2. scan <= ChunkEnd /\ ChunkEnd \in Slot /\ cursor <= scan
    BY <1>1, <1>9 DEF ScanBlock, PassOver
  <2>3. cursor <= scan + 1 /\ scan + 1 <= ChunkEnd + 1
    BY <1>0, <2>2 DEF Slot
  <2> QED
    BY <1>9, <2>1, <2>3 DEF ScanBlock, PassOver, procVars, callVars, IsRange
<1>10. CASE IndexChunk \/ NothingFound \/ IndexReturns
  BY <1>10 DEF IndexChunk, NothingFound, IndexReturns, CallProcess, CallReturns, procVars,
     callVars, IsRange
<1>11. CASE SaveCheckpoint \/ SaveFails \/ StopAfterChunk
  BY <1>11 DEF SaveCheckpoint, SaveFails, StopAfterChunk, MarkChunk, procVars, callVars,
     IsRange
<1>12. CASE NextChunk
  <2>1. cursor' = ChunkEnd + 1 /\ job' = job
    BY <1>12 DEF NextChunk
  <2>2. ChunkEnd \in Slot /\ cursor <= ChunkEnd /\ job.start <= cursor
    BY <1>1, <1>12 DEF NextChunk
  <2>3. job.start <= ChunkEnd + 1 /\ ChunkEnd + 1 <= MaxSlot + 1
    BY <1>0, <1>12, <2>2 DEF Slot, NextChunk
  <2> QED BY <1>12, <2>1, <2>3 DEF NextChunk, procVars, callVars, IsRange
<1>13. CASE Process
  <2>1. pc' # "idle" /\ pc # "idle"
    BY <1>13 DEF Process, ProcStep, LeaveLoop, BeginChunk, BeginFails, SkipTx, IndexTx,
       StoreTxFails, StoreAccounts, StoreAccountsFails, Commit, CheckpointFails,
       CommitFails, Return, TakeSig
  <2> QED
    BY <1>13, <2>1 DEF Process, batchVars, localVars, IsRange, ChunkEnd
<1>14. CASE Shutdown \/ Confirm \/ UNCHANGED vars
  BY <1>14 DEF Shutdown, RequestShutdown, Confirm, vars, batchVars, localVars, procVars,
     callVars, IsRange, ChunkEnd
<1>15. CASE Exit \/ Crash
  BY <1>15 DEF Exit, Crash, ProcessGone, ProcessLost
<1>16. CASE Restart
  BY <1>16 DEF Restart, procVars, callVars
<1> QED
  BY <1>3, <1>4, <1>5, <1>6, <1>7, <1>8, <1>9, <1>10, <1>11, <1>12, <1>13, <1>14, <1>15,
     <1>16 DEF Next, BatchStep
-----------------------------------------------------------------------------
(* What accounts for a transaction never goes away.                          *)
Grows ==
    /\ txs \subseteq txs' /\ skipped \subseteq skipped'
    /\ missed \subseteq missed' /\ stopped \subseteq stopped' /\ split \subseteq split'

LEMMA HistoryGrows ==
    ASSUME BatchInv, [Next]_vars
    PROVE  Grows
<1> USE DEF Grows, history
<1>1. CASE Process
  <2>1. \/ UNCHANGED <<dbVars, skipped>>
        \/ pc = "checkpoint" /\ ApplyWork
    BY <1>1, StepCommits DEF Process, BatchInv, ProcInv
  <2>2. txs \subseteq txs' /\ skipped \subseteq skipped'
    BY <2>1 DEF dbVars, ApplyWork, BatchInv, ProcInv, WorkExtends, InChunk
  <2> QED BY <1>1, <2>2 DEF Process, batchVars
<1>2. CASE StartList \/ StartLatest \/ NoLatest \/ PageFails \/ WholeReturns
  BY <1>2 DEF StartList, StartLatest, NoLatest, PageFails, WholeReturns, CallProcess,
     CallReturns, procVars, dbVars
<1>3. CASE SkipRange \/ ResumeRange \/ StartRange \/ StartChunk \/ RangeDone
  BY <1>3 DEF SkipRange, ResumeRange, StartRange, StartChunk, RangeDone, procVars, dbVars
<1>4. CASE ScanBlock \/ PassOver \/ IndexChunk \/ NothingFound \/ IndexReturns
  BY <1>4 DEF ScanBlock, PassOver, IndexChunk, NothingFound, IndexReturns, CallProcess,
     CallReturns, procVars, dbVars
<1>5. CASE SaveCheckpoint \/ SaveFails \/ StopAfterChunk \/ NextChunk
  BY <1>5 DEF SaveCheckpoint, SaveFails, StopAfterChunk, NextChunk, MarkChunk, procVars,
     dbVars
<1>6. CASE Shutdown \/ Exit \/ Crash \/ Restart \/ Confirm \/ UNCHANGED vars
  BY <1>6 DEF Shutdown, RequestShutdown, Exit, Crash, ProcessGone, ProcessLost, Restart,
     Confirm, vars, batchVars, procVars, dbVars
<1> QED
  BY <1>1, <1>2, <1>3, <1>4, <1>5, <1>6 DEF Next, BatchStep

(* So what was accounted for stays so, under one configuration.              *)
LEMMA AccountedStays ==
    ASSUME Grows, UNCHANGED job, NEW n, Past(n)
    PROVE  \A s \in Sig : job'.start <= SlotOf[s] /\ SlotOf[s] <= job'.end /\ SlotOf[s] < n
               => Accounted(s)'
BY DEF Grows, Past, InRange, Accounted

(* Steps that leave the checkpoint alone keep what it stands for.            *)
LEMMA MarkStays ==
    ASSUME Grows, UNCHANGED <<job, lastSlot>>
    PROVE  /\ MarkCovered => MarkCovered'
           /\ MarkShared => MarkShared'
BY DEF Grows, MarkCovered, MarkShared, Past, InRange, Accounted

(* Appending later transactions keeps a list in slot order.                  *)
LEMMA SortedConcat ==
    ASSUME NEW p \in Seq(Sig), NEW q \in Seq(Sig), Sorted(p), Sorted(q),
           \A x \in Range(p), y \in Range(q) : SlotOf[x] <= SlotOf[y]
    PROVE  Sorted(p \o q)
<1>1. /\ p \o q \in Seq(Sig) /\ Len(p \o q) = Len(p) + Len(q)
      /\ \A i \in 1..(Len(p) + Len(q)) :
            (p \o q)[i] = IF i <= Len(p) THEN p[i] ELSE q[i - Len(p)]
  BY ConcatProperties
<1>2. /\ DOMAIN p = 1..Len(p) /\ DOMAIN q = 1..Len(q) /\ Len(p) \in Nat /\ Len(q) \in Nat
      /\ DOMAIN (p \o q) = 1..(Len(p) + Len(q))
  BY <1>1, LenProperties
<1>3. ASSUME NEW i \in DOMAIN (p \o q), NEW j \in DOMAIN (p \o q), i < j
      PROVE  SlotOf[(p \o q)[i]] <= SlotOf[(p \o q)[j]]
  <2>1. CASE j <= Len(p)
    BY <1>1, <1>2, <1>3, <2>1 DEF Sorted
  <2>2. CASE i > Len(p)
    <3>1. i - Len(p) \in DOMAIN q /\ j - Len(p) \in DOMAIN q /\ i - Len(p) < j - Len(p)
      BY <1>2, <1>3, <2>2
    <3>2. (p \o q)[i] = q[i - Len(p)] /\ (p \o q)[j] = q[j - Len(p)]
      BY <1>1, <1>2, <1>3, <2>2
    <3> QED BY <3>1, <3>2 DEF Sorted
  <2>3. CASE i <= Len(p) /\ j > Len(p)
    <3>1. i \in DOMAIN p /\ j - Len(p) \in DOMAIN q
      BY <1>2, <1>3, <2>3
    <3>2. (p \o q)[i] = p[i] /\ (p \o q)[j] = q[j - Len(p)]
      BY <1>1, <1>2, <1>3, <2>3
    <3> QED BY <3>1, <3>2 DEF Range
  <2> QED BY <1>2, <1>3, <2>1, <2>2, <2>3
<1> QED BY <1>3 DEF Sorted

(* The transactions of one block all have its slot.                          *)
LEMMA SortedBlock ==
    ASSUME NEW n \in Slot
    PROVE  Sorted(Block(n))
<1>1. \A i \in DOMAIN Block(n) : SlotOf[Block(n)[i]] = n
  BY BlockContents DEF Range
<1>2. n <= n
  BY LedgerIsConsistent DEF Slot, LedgerAssumption
<1> QED BY <1>1, <1>2 DEF Sorted

(* Dropping the first element keeps a list in order, behind that element.    *)
LEMMA SortedTail ==
    ASSUME NEW q \in Seq(Sig), q # <<>>, Sorted(q)
    PROVE  /\ Sorted(Tail(q))
           /\ \A x \in Range(Tail(q)) : SlotOf[Head(q)] <= SlotOf[x]
<1>1. /\ Tail(q) \in Seq(Sig) /\ Len(q) \in Nat \ {0} /\ Len(Tail(q)) = Len(q) - 1
      /\ Head(q) = q[1] /\ \A i \in 1..(Len(q) - 1) : Tail(q)[i] = q[i + 1]
  BY TakeFirst
<1>2. DOMAIN q = 1..Len(q) /\ DOMAIN Tail(q) = 1..(Len(q) - 1)
  BY <1>1, LenProperties
<1>3. \A i \in DOMAIN Tail(q) : i + 1 \in DOMAIN q /\ 1 \in DOMAIN q /\ 1 < i + 1
  BY <1>1, <1>2
<1>4. Sorted(Tail(q))
  BY <1>1, <1>2, <1>3 DEF Sorted
<1>5. \A x \in Range(Tail(q)) : SlotOf[Head(q)] <= SlotOf[x]
  BY <1>1, <1>2, <1>3 DEF Sorted, Range
<1> QED BY <1>4, <1>5
-----------------------------------------------------------------------------
(* A signature is in the slots of the chunk or before it, or after it.       *)
LEMMA SlotFacts ==
    ASSUME TypeOK, IsRange
    PROVE  /\ \A s \in Sig : SlotOf[s] \in Nat /\ SlotOf[s] \in Slot
           /\ cursor \in Nat /\ scan \in Nat
           /\ job.start \in Nat /\ job.end \in Nat
           /\ job.start <= cursor /\ cursor <= job.end =>
                ChunkEnd \in Nat /\ cursor <= ChunkEnd /\ ChunkEnd <= job.end
           /\ lastSlot # None => lastSlot \in Nat
           /\ Range(todo) \subseteq Sig /\ Range(found) \subseteq Sig
<1>1. /\ SlotOf \in [Sig -> Slot] /\ MaxSlot \in Nat
      /\ cursor \in 0..(MaxSlot + 1) /\ scan \in 0..(MaxSlot + 1)
      /\ lastSlot \in Slot \cup {None}
      /\ todo \in Seq(Sig) /\ found \in Seq(Sig)
  BY LedgerIsConsistent DEF LedgerAssumption, TypeOK, ProcTypeOK
<1>2. job.start \in Slot /\ job.end \in Slot
  BY JobFacts
<1>3. job.start <= cursor /\ cursor <= job.end =>
        ChunkEnd \in Slot /\ cursor <= ChunkEnd /\ ChunkEnd <= job.end
  BY ChunkEndFacts
<1>4. Range(todo) \subseteq Sig /\ Range(found) \subseteq Sig
  BY <1>1, LenProperties DEF Range
<1> QED BY <1>1, <1>2, <1>3, <1>4 DEF Slot

(* The steps of process_signatures inside a chunk.                           *)
LEMMA ProcessCovered ==
    ASSUME BatchInv, IsRange, ~changed, Process, Grows
    PROVE  /\ MarkCovered' /\ MarkShared' /\ CursorCovered' /\ IndexCovered'
<1>1. /\ UNCHANGED <<job, stage, cursor, missed, stopped, split>> /\ ProcStep
      /\ stage = "index"
  BY DEF Process, batchVars, localVars, history, BatchInv, StageConsistent, InCall,
     ProcStep, LeaveLoop, BeginChunk, BeginFails, SkipTx, IndexTx, StoreTxFails,
     StoreAccounts, StoreAccountsFails, Commit, CheckpointFails, CommitFails, TakeSig
<1>2. /\ MarkCovered /\ MarkShared /\ CursorCovered /\ IndexCovered /\ ProcInv /\ TypeOK
      /\ job.start <= cursor /\ cursor <= job.end
  BY <1>1 DEF BatchInv, RangeCovered, StageConsistent
<1>3. CursorCovered'
  BY <1>1, <1>2 DEF CursorCovered, Past, InRange, Accounted, Grows
<1>4. MarkCovered' /\ MarkShared'
  <2>1. CASE UNCHANGED <<dbVars, skipped>>
    BY <1>1, <1>2, <2>1, MarkStays DEF dbVars
  <2>2. CASE pc = "checkpoint" /\ ~work.aborted /\ ApplyWork
    <3>1. CASE work.last = None
      BY <1>1, <1>2, <2>2, <3>1, MarkStays DEF ApplyWork
    <3>2. CASE work.last # None
      <4>1. /\ lastSlot' = SlotOf[work.last] /\ txs' = work.txs
            /\ skipped' = skipped \cup work.skipped
            /\ work.last \in txs' /\ work.last \in Sig
        BY <1>2, <2>2, <3>2 DEF ApplyWork, ProcInv, ProcTypeOK, WorkType, WorkExtends, InChunk
      <4>2. /\ \A s \in Range(todo) : SlotOf[work.last] <= SlotOf[s]
            /\ InChunkSlots(work.last)
            /\ \A s \in Sig : InChunkSlots(s) => Accounted(s) \/ s \in handed
        BY <1>1, <1>2, <3>2 DEF IndexCovered
      <4>3. handed \subseteq work.txs \cup work.skipped \cup skipped \cup Range(todo)
        BY <1>2, <2>2 DEF ProcInv, HandedKept, InChunk
      <4>4. ASSUME NEW s \in Sig, InRange(s), SlotOf[s] < SlotOf[work.last]
            PROVE  Accounted(s)'
        <5>1. CASE SlotOf[s] < cursor
          BY <1>1, <1>2, <4>4, <5>1 DEF CursorCovered, Past, Accounted, Grows
        <5>2. CASE ~(SlotOf[s] < cursor)
          <6>1. InChunkSlots(s)
            BY <1>2, <4>1, <4>2, <4>4, <5>2, SlotFacts DEF InChunkSlots
          <6>2. s \notin Range(todo)
            BY <1>2, <4>1, <4>2, <4>4, SlotFacts
          <6>3. Accounted(s) \/ s \in txs' \/ s \in skipped'
            BY <4>1, <4>2, <4>3, <6>1, <6>2
          <6> QED BY <6>3 DEF Accounted, Grows
        <5> QED BY <5>1, <5>2
      <4>5. MarkCovered'
        BY <1>1, <4>1, <4>4 DEF MarkCovered, Past, InRange
      <4>6. MarkShared'
        BY <4>1 DEF MarkShared
      <4> QED BY <4>5, <4>6
    <3> QED BY <3>1, <3>2
  <2> QED BY <1>1, <1>2, <2>1, <2>2, StepCommits DEF ProcInv
<1>5. IndexCovered'
  <2> USE <1>1
  <2>1. /\ handed' = handed /\ ChunkEnd' = ChunkEnd
        /\ \A s \in Sig : InChunkSlots(s)' = InChunkSlots(s)
    BY DEF ChunkEnd, InChunkSlots, ProcStep, LeaveLoop, BeginChunk, BeginFails, SkipTx,
       IndexTx, StoreTxFails, StoreAccounts, StoreAccountsFails, Commit, CheckpointFails,
       CommitFails
  <2>2. \A s \in Sig : InChunkSlots(s)' => Accounted(s)' \/ s \in handed'
    BY <1>2, <2>1 DEF IndexCovered, Accounted, Grows
  <2>3. CASE UNCHANGED todo /\ (work'.last = None \/ work'.last = work.last)
    <3>1. Sorted(todo)' /\ Range(todo)' = Range(todo)
      BY <1>2, <2>3 DEF IndexCovered, Sorted, Range
    <3>2. \A s \in Range(todo) : InChunkSlots(s)'
      BY <1>2, <2>1, SlotFacts DEF IndexCovered
    <3>3. work'.last # None =>
            InChunkSlots(work.last)' /\ \A s \in Range(todo) : SlotOf[work.last] <= SlotOf[s]
      BY <1>2, <2>1, <2>3 DEF IndexCovered, ProcInv, ProcTypeOK, WorkType
    <3> QED
      BY <1>2, <2>2, <2>3, <3>1, <3>2, <3>3 DEF IndexCovered, InChunkSlots, ChunkEnd
  <2>4. CASE TakeSig /\ (work'.last = work.last \/ work'.last = Head(todo))
    <3>1. /\ todo' = Tail(todo) /\ left > 0 /\ todo \in Seq(Sig) /\ todo # <<>>
          /\ Range(todo) = {Head(todo)} \cup Range(todo') /\ Head(todo) \in Sig
      <4>1. ProcTypeOK /\ left > 0 /\ todo' = Tail(todo)
        BY <1>2, <2>4 DEF TakeSig, ProcInv
      <4>2. todo \in Seq(Sig) /\ left \in 0..Len(todo)
        BY <4>1 DEF ProcTypeOK
      <4>3. todo # <<>>
        BY <4>1, <4>2, EmptySeq
      <4> QED BY <4>1, <4>2, <4>3, TakeSigFacts
    <3>2. Sorted(todo) /\ \A s \in Range(todo) : InChunkSlots(s)
      BY <1>2 DEF IndexCovered
    <3>3. /\ Sorted(todo)' /\ \A s \in Range(todo') : SlotOf[Head(todo)] <= SlotOf[s]
      BY <3>1, <3>2, SortedTail DEF Sorted
    <3>4. \A s \in Range(todo') : InChunkSlots(s)'
      BY <1>2, <2>1, <3>1, <3>2, SlotFacts
    <3>5. work'.last # None =>
            /\ InChunkSlots(work'.last)
            /\ \A s \in Range(todo') : SlotOf[work'.last] <= SlotOf[s]
      BY <1>2, <2>4, <3>1, <3>2, <3>3 DEF IndexCovered
    <3> QED
      BY <1>2, <2>2, <3>3, <3>4, <3>5 DEF IndexCovered, InChunkSlots, ChunkEnd
  <2>5. CASE SkipTx \/ IndexTx
    BY <1>2, <2>4, <2>5 DEF SkipTx, IndexTx, ProcInv, ProcTypeOK, WorkType
  <2>6. CASE ~SkipTx /\ ~IndexTx
    <3>1. UNCHANGED todo
      BY <2>6 DEF ProcStep, LeaveLoop, BeginChunk, BeginFails, StoreTxFails, StoreAccounts,
         StoreAccountsFails, Commit, CheckpointFails, CommitFails
    <3>2. work' = NoWork \/ work'.last = work.last \/ work'.last = None
      BY <1>2, <2>6 DEF ProcStep, LeaveLoop, BeginChunk, BeginFails, StoreTxFails,
         StoreAccounts, StoreAccountsFails, Commit, CheckpointFails, CommitFails, Return,
         ProcInv, ProcTypeOK, WorkType, NoWork
    <3> QED BY <2>3, <3>1, <3>2 DEF NoWork
  <2> QED BY <2>5, <2>6
<1> QED BY <1>3, <1>4, <1>5

(* The steps of run_batch, each with the stage it leads to.                  *)
LEMMA RangePart ==
    ASSUME BatchInv, [Next]_vars
    PROVE  RangeCovered'
<1> SUFFICES ASSUME IsRange', ~changed'
             PROVE  /\ MarkCovered' /\ CursorCovered' /\ ScanCovered' /\ IndexCovered'
                    /\ SaveCovered' /\ SavedCovered' /\ MarkShared'
  BY DEF RangeCovered
<1>1. UNCHANGED job /\ ~changed /\ IsRange
  <2>1. CASE Restart
    BY <2>1 DEF Restart, IsRange
  <2>2. CASE ~Restart
    BY <2>2 DEF Next, BatchStep, StartList, StartLatest, NoLatest, PageFails, WholeReturns,
       SkipRange, ResumeRange, StartRange, StartChunk, RangeDone, ScanBlock, PassOver,
       IndexChunk, NothingFound, IndexReturns, SaveCheckpoint, SaveFails, StopAfterChunk,
       NextChunk, Process, Shutdown, Exit, Crash, ProcessGone, Confirm, vars, batchVars,
       history, IsRange
  <2> QED BY <2>1, <2>2
<1>2. /\ MarkCovered /\ CursorCovered /\ ScanCovered /\ IndexCovered
      /\ SaveCovered /\ SavedCovered /\ MarkShared
      /\ TypeOK /\ ProcInv /\ StageConsistent
  BY <1>1 DEF BatchInv, RangeCovered
<1>3. Grows
  BY HistoryGrows
<1>4. /\ \A s \in Sig : SlotOf[s] \in Nat
      /\ cursor \in Nat /\ scan \in Nat /\ job.start \in Nat /\ job.end \in Nat
      /\ lastSlot # None => lastSlot \in Nat
      /\ Range(todo) \subseteq Sig /\ Range(found) \subseteq Sig
      /\ stage \in {"scan", "index", "save", "saved"} =>
           /\ job.start <= cursor /\ cursor <= job.end
           /\ ChunkEnd \in Nat /\ cursor <= ChunkEnd /\ ChunkEnd <= job.end
  BY <1>1, <1>2, SlotFacts DEF StageConsistent
<1> DEFINE MarkKept == lastSlot' = lastSlot
<1>5. MarkKept => MarkCovered' /\ MarkShared'
  BY <1>1, <1>2, <1>3, MarkStays
<1> DEFINE Quiet == stage' \in {"boot", "whole", "failed", "down"}
<1>6. Quiet => /\ CursorCovered' /\ ScanCovered' /\ IndexCovered' /\ SaveCovered'
               /\ SavedCovered'
  BY DEF CursorCovered, ScanCovered, IndexCovered, SaveCovered, SavedCovered
<1>7. CASE StartList \/ StartLatest \/ NoLatest \/ PageFails \/ WholeReturns
  BY <1>1, <1>2, <1>7 DEF StartList, StartLatest, NoLatest, PageFails, WholeReturns, IsList,
     IsLatest, IsRange, StageConsistent
<1>8. CASE SkipRange
  <2>1. /\ lastSlot # None /\ lastSlot >= job.end
        /\ split' = split \cup LeftBehind(lastSlot)
        /\ stage' = "done" /\ UNCHANGED procVars
    BY <1>8 DEF SkipRange, Readable
  <2>2. MarkKept
    BY <2>1 DEF procVars, dbVars
  <2>3. Past(job.end + 1)'
    <3>1. ASSUME NEW s \in Sig, InRange(s) PROVE Accounted(s)'
      <4>1. CASE SlotOf[s] < lastSlot
        BY <1>2, <1>3, <2>1, <3>1, <4>1 DEF MarkCovered, Past, Accounted, Grows
      <4>2. CASE SlotOf[s] = lastSlot
        BY <1>3, <2>1, <3>1, <4>2 DEF LeftBehind, Accounted, Grows
      <4>3. SlotOf[s] <= lastSlot
        BY <1>4, <2>1, <3>1 DEF InRange
      <4> QED BY <1>4, <2>1, <4>1, <4>2, <4>3
    <3> QED BY <1>1, <3>1 DEF Past, InRange
  <2> QED
    BY <1>5, <2>1, <2>2, <2>3 DEF CursorCovered, ScanCovered, IndexCovered, SaveCovered,
       SavedCovered
<1>9. CASE ResumeRange
  <2>1. /\ lastSlot # None /\ cursor' = lastSlot + 1
        /\ split' = split \cup LeftBehind(lastSlot)
        /\ stage' = "chunk" /\ UNCHANGED procVars
    BY <1>9 DEF ResumeRange, Readable
  <2>2. MarkKept
    BY <2>1 DEF procVars, dbVars
  <2>3. Past(lastSlot + 1)'
    <3>1. ASSUME NEW s \in Sig, InRange(s), SlotOf[s] < lastSlot + 1 PROVE Accounted(s)'
      <4>1. CASE SlotOf[s] < lastSlot
        BY <1>2, <1>3, <2>1, <3>1, <4>1 DEF MarkCovered, Past, Accounted, Grows
      <4>2. CASE SlotOf[s] = lastSlot
        BY <1>3, <2>1, <3>1, <4>2 DEF LeftBehind, Accounted, Grows
      <4> QED BY <1>4, <2>1, <3>1, <4>1, <4>2
    <3> QED BY <1>1, <2>2, <3>1 DEF Past, InRange
  <2> QED
    BY <1>5, <2>1, <2>2, <2>3 DEF CursorCovered, ScanCovered, IndexCovered, SaveCovered,
       SavedCovered, Past
<1>10. CASE StartRange
  <2>1. cursor' = job.start /\ stage' = "chunk" /\ UNCHANGED procVars
    BY <1>10 DEF StartRange
  <2>2. MarkKept
    BY <2>1 DEF procVars, dbVars
  <2>3. CursorCovered'
    BY <1>1, <1>4, <2>1 DEF CursorCovered, Past, InRange
  <2> QED
    BY <1>5, <2>1, <2>2, <2>3 DEF ScanCovered, IndexCovered, SaveCovered, SavedCovered
<1>11. CASE StartChunk
  <2>1. /\ scan' = cursor /\ found' = <<>> /\ stage' = "scan" /\ cursor' = cursor
        /\ stage = "chunk" /\ UNCHANGED procVars
    BY <1>11 DEF StartChunk
  <2>2. MarkKept
    BY <2>1 DEF procVars, dbVars
  <2>3. CursorCovered'
    BY <1>1, <1>2, <1>3, <2>1 DEF CursorCovered, Past, InRange, Accounted, Grows
  <2>4. DOMAIN <<>> = {}
    OBVIOUS
  <2>5. Sorted(found)' /\ Range(found)' = {}
    BY <2>1, <2>4 DEF Sorted, Range
  <2>6. ScanCovered'
    BY <1>4, <2>1, <2>5 DEF ScanCovered
  <2> QED
    BY <1>5, <2>1, <2>2, <2>3, <2>6 DEF IndexCovered, SaveCovered, SavedCovered
<1>12. CASE RangeDone
  <2>1. stage = "chunk" /\ stage' = "done" /\ cursor > job.end /\ UNCHANGED procVars
    BY <1>12 DEF RangeDone
  <2>2. MarkKept
    BY <2>1 DEF procVars, dbVars
  <2>3. Past(job.end + 1)'
    BY <1>1, <1>2, <1>3, <1>4, <2>1 DEF CursorCovered, Past, InRange, Accounted, Grows
  <2> QED
    BY <1>5, <2>1, <2>2, <2>3 DEF CursorCovered, ScanCovered, IndexCovered, SaveCovered,
       SavedCovered
<1>13. CASE ScanBlock \/ PassOver
  <2>1. /\ stage = "scan" /\ stage' = "scan" /\ cursor' = cursor /\ scan' = scan + 1
        /\ UNCHANGED procVars /\ scan <= ChunkEnd
        /\ \/ found' = found \o Block(scan)
           \/ found' = found /\ scan \in missed'
    BY <1>13 DEF ScanBlock, PassOver
  <2>2. MarkKept
    BY <2>1 DEF procVars, dbVars
  <2>3. CursorCovered'
    BY <1>1, <1>2, <1>3, <2>1 DEF CursorCovered, Past, InRange, Accounted, Grows
  <2>4. scan \in Slot /\ found \in Seq(Sig) /\ cursor <= scan
    <3>1. ChunkEnd \in Slot /\ cursor \in Slot
      BY <1>1, <1>2, <1>4, <2>1, ChunkEndFacts
    <3> QED
      <4>1. cursor <= scan /\ found \in Seq(Sig) /\ MaxSlot \in Nat
        BY <1>2, <2>1, LedgerIsConsistent DEF TypeOK, StageConsistent, LedgerAssumption
      <4> QED BY <1>4, <2>1, <3>1, <4>1 DEF Slot
  <2>5. /\ Sorted(found) /\ \A s \in Range(found) : cursor <= SlotOf[s] /\ SlotOf[s] < scan
        /\ \A s \in Sig : cursor <= SlotOf[s] /\ SlotOf[s] < scan =>
              Accounted(s) \/ s \in Range(found)
    BY <1>2, <2>1 DEF ScanCovered
  <2>6. \A s \in Sig : Accounted(s) => Accounted(s)'
    BY <1>3 DEF Accounted, Grows
  <2>7. ASSUME found' = found \o Block(scan) PROVE ScanCovered'
    <3>1. /\ Block(scan) \in Seq(Sig) /\ Range(Block(scan)) = {s \in Sig : SlotOf[s] = scan}
          /\ Sorted(Block(scan))
      BY <2>4, BlockContents, SortedBlock
    <3>2. Range(found') = Range(found) \cup Range(Block(scan))
      BY <2>4, <2>7, <3>1, RangeConcatenation
    <3>3. \A x \in Range(found), y \in Range(Block(scan)) : SlotOf[x] <= SlotOf[y]
      BY <1>4, <2>5, <3>1
    <3>4. Sorted(found')
      BY <2>4, <2>5, <2>7, <3>1, <3>3, SortedConcat
    <3>5. \A s \in Range(found') : cursor <= SlotOf[s] /\ SlotOf[s] < scan + 1
      BY <1>4, <2>4, <2>5, <3>1, <3>2
    <3>6. \A s \in Sig : cursor <= SlotOf[s] /\ SlotOf[s] < scan + 1 =>
            Accounted(s)' \/ s \in Range(found')
      BY <1>4, <2>5, <2>6, <3>1, <3>2
    <3>7. Sorted(found)'
      BY <3>4 DEF Sorted
    <3>8. ScanCovered'
      BY <2>1, <3>5, <3>6, <3>7 DEF ScanCovered
    <3> QED BY <3>8
  <2>8. ASSUME found' = found, scan \in missed' PROVE ScanCovered'
    <3>1. \A s \in Range(found) : cursor <= SlotOf[s] /\ SlotOf[s] < scan + 1
      BY <1>4, <2>5
    <3>2. \A s \in Sig : SlotOf[s] = scan => Accounted(s)'
      BY <2>8 DEF Accounted
    <3>3. \A s \in Sig : cursor <= SlotOf[s] /\ SlotOf[s] < scan + 1 =>
            Accounted(s)' \/ s \in Range(found)
      BY <1>4, <2>5, <2>6, <3>2
    <3>4. Sorted(found)' /\ Range(found)' = Range(found)
      BY <2>5, <2>8 DEF Sorted, Range
    <3>5. ScanCovered'
      BY <2>1, <3>1, <3>3, <3>4 DEF ScanCovered
    <3> QED BY <3>5
  <2> QED
    BY <1>5, <2>1, <2>2, <2>3, <2>7, <2>8 DEF IndexCovered, SaveCovered, SavedCovered
<1>14. CASE IndexChunk \/ NothingFound
  <2>1. /\ stage = "scan" /\ scan > ChunkEnd /\ UNCHANGED <<cursor, found>>
        /\ UNCHANGED <<lastSlot, shutdown>>
    BY <1>14 DEF IndexChunk, NothingFound, CallProcess, procVars, dbVars
  <2>2. CursorCovered'
    BY <1>1, <1>2, <1>3, <2>1 DEF CursorCovered, Past, InRange, Accounted, Grows
  <2>3. scan = ChunkEnd + 1
    BY <1>2, <1>4, <2>1 DEF StageConsistent
  <2>4. /\ \A s \in Range(found) : InChunkSlots(s)
        /\ \A s \in Sig : InChunkSlots(s) => Accounted(s) \/ s \in Range(found)
        /\ Sorted(found)
    BY <1>2, <1>4, <2>1, <2>3 DEF ScanCovered, InChunkSlots
  <2>5. /\ ChunkEnd' = ChunkEnd
        /\ \A s \in Sig : InChunkSlots(s)' = InChunkSlots(s) /\ (Accounted(s) => Accounted(s)')
    BY <1>1, <1>3, <2>1 DEF ChunkEnd, InChunkSlots, Accounted, Grows
  <2>6. CASE IndexChunk
    <3>1. /\ todo' = found /\ handed' = Range(found) /\ stage' = "index"
          /\ work' = work /\ pc = "idle"
      BY <2>6 DEF IndexChunk, CallProcess
    <3>2. work'.last = None
      BY <1>2, <3>1 DEF ProcInv, WorkExtends, InChunk, NoWork
    <3>3. IndexCovered'
      <4>1. Sorted(todo)' /\ Range(todo)' = Range(found)
        BY <2>4, <3>1 DEF Sorted, Range
      <4>2. \A s \in Range(found) : InChunkSlots(s)'
        BY <1>4, <2>4, <2>5
      <4>3. \A s \in Sig : InChunkSlots(s)' => Accounted(s)' \/ s \in handed'
        BY <2>4, <2>5, <3>1
      <4> QED BY <3>2, <4>1, <4>2, <4>3 DEF IndexCovered, InChunkSlots, ChunkEnd
    <3> QED
      BY <1>5, <2>1, <2>2, <3>1, <3>3 DEF ScanCovered, SaveCovered, SavedCovered
  <2>7. CASE NothingFound
    <3>1. stage' = "save" /\ Range(found) = {}
      BY <2>7 DEF NothingFound, Range
    <3>2. \A s \in Sig : InChunkSlots(s)' => Accounted(s)'
      BY <2>4, <2>5, <3>1
    <3> QED
      BY <1>5, <2>1, <2>2, <3>1, <3>2 DEF ScanCovered, IndexCovered, SaveCovered,
         SavedCovered, InChunkSlots, ChunkEnd
  <2> QED BY <1>14, <2>6, <2>7
<1>15. CASE IndexReturns
  <2>1. /\ stage = "index" /\ UNCHANGED <<cursor, lastSlot, todo, handed>>
        /\ \/ pc = "ok" /\ stage' = "save"
           \/ stage' = "failed"
    BY <1>15 DEF IndexReturns, CallReturns, dbVars
  <2>2. CASE stage' = "failed"
    BY <1>5, <1>6, <2>1, <2>2
  <2>3. CASE pc = "ok" /\ stage' = "save"
    <3>1. handed \subseteq txs \cup skipped \cup Range(todo)
      BY <1>2, <2>3 DEF ProcInv, HandedKept
    <3>2. \A s \in Sig : InChunkSlots(s) => Accounted(s) \/ s \in Range(todo)
      BY <1>2, <2>1, <3>1 DEF IndexCovered, Accounted
    <3>3. /\ ChunkEnd' = ChunkEnd /\ Range(todo)' = Range(todo)
          /\ \A s \in Sig : InChunkSlots(s)' = InChunkSlots(s) /\ (Accounted(s) => Accounted(s)')
      BY <1>1, <1>3, <2>1 DEF ChunkEnd, InChunkSlots, Accounted, Grows, Range
    <3>4. \A s \in Sig : InChunkSlots(s)' => Accounted(s)' \/ s \in Range(todo)'
      BY <3>2, <3>3
    <3>5. SaveCovered'
      BY <3>4 DEF SaveCovered, InChunkSlots, ChunkEnd
    <3>6. CursorCovered'
      BY <1>1, <1>2, <1>3, <2>1 DEF CursorCovered, Past, InRange, Accounted, Grows
    <3> QED
      BY <1>5, <2>1, <2>3, <3>5, <3>6 DEF ScanCovered, IndexCovered, SavedCovered
  <2> QED BY <2>1, <2>2, <2>3
<1>16. CASE (SaveCheckpoint \/ SaveFails) /\ MarkChunk
  <2>1. /\ stage = "save" /\ lastSlot' = ChunkEnd /\ stopped' = stopped \cup Range(todo)
        /\ stage' \in {"saved", "failed"} /\ cursor' = cursor /\ ChunkEnd' = ChunkEnd
    BY <1>1, <1>16 DEF SaveCheckpoint, SaveFails, MarkChunk, ChunkEnd
  <2>2. ASSUME NEW s \in Sig, InRange(s), SlotOf[s] <= ChunkEnd PROVE Accounted(s)'
    <3>1. CASE SlotOf[s] < cursor
      BY <1>2, <1>3, <2>1, <2>2, <3>1 DEF CursorCovered, Past, Accounted, Grows
    <3>2. CASE ~(SlotOf[s] < cursor)
      <4>1. InChunkSlots(s)
        BY <1>4, <2>2, <3>2 DEF InChunkSlots
      <4>2. Accounted(s) \/ s \in Range(todo)
        BY <1>2, <2>1, <4>1 DEF SaveCovered
      <4> QED BY <1>3, <2>1, <4>2 DEF Accounted, Grows
    <3> QED BY <3>1, <3>2
  <2>3. \A s \in Sig : InRange(s)' = InRange(s)
    BY <1>1 DEF InRange
  <2>4. MarkCovered'
    BY <1>4, <2>1, <2>2, <2>3 DEF MarkCovered, Past
  <2>5. MarkShared'
    BY <1>4, <2>1, <2>2, <2>3 DEF MarkShared
  <2>6. Past(cursor)' /\ Past(ChunkEnd + 1)'
    BY <1>4, <2>1, <2>2, <2>3 DEF Past
  <2> QED
    BY <2>1, <2>4, <2>5, <2>6 DEF CursorCovered, ScanCovered, IndexCovered, SaveCovered,
       SavedCovered
<1>17. CASE SaveFails /\ ~MarkChunk
  BY <1>5, <1>6, <1>17 DEF SaveFails, procVars, dbVars
<1>18. CASE StopAfterChunk
  BY <1>5, <1>18 DEF StopAfterChunk, procVars, dbVars, CursorCovered, ScanCovered,
     IndexCovered, SaveCovered, SavedCovered
<1>19. CASE NextChunk
  <2>1. stage = "saved" /\ stage' = "chunk" /\ cursor' = ChunkEnd + 1 /\ UNCHANGED procVars
    BY <1>19 DEF NextChunk
  <2>2. Past(ChunkEnd + 1)
    BY <1>2, <2>1 DEF SavedCovered
  <2>3. CursorCovered'
    BY <1>1, <1>3, <2>1, <2>2 DEF CursorCovered, Past, InRange, Accounted, Grows
  <2> QED
    BY <1>5, <2>1, <2>3 DEF procVars, dbVars, ScanCovered, IndexCovered, SaveCovered,
       SavedCovered
<1>20. CASE Process
  <2>1. stage = "index" /\ stage' = "index"
    BY <1>1, <1>2, <1>20 DEF Process, batchVars, localVars, StageConsistent, InCall,
       ProcStep, LeaveLoop, BeginChunk, BeginFails, SkipTx, IndexTx, StoreTxFails,
       StoreAccounts, StoreAccountsFails, Commit, CheckpointFails, CommitFails, TakeSig
  <2> QED
    BY <1>1, <1>3, <1>20, <2>1, ProcessCovered DEF ScanCovered, SaveCovered, SavedCovered
<1>21. CASE Shutdown \/ Confirm \/ UNCHANGED vars
  <2>1. /\ UNCHANGED <<stage, cursor, scan, found, todo, work, handed, txs, skipped, missed,
                       stopped, split, lastSlot>>
        /\ ~shutdown' => ~shutdown
    BY <1>21 DEF Shutdown, RequestShutdown, Confirm, vars, batchVars, localVars, history,
       procVars, dbVars, callVars
  <2>2. CursorCovered' /\ SaveCovered' /\ SavedCovered'
    BY <1>1, <1>2, <2>1 DEF CursorCovered, SaveCovered, SavedCovered, Past, InRange,
       Accounted, InChunkSlots, ChunkEnd, Range
  <2>3. ScanCovered' /\ IndexCovered'
    BY <1>1, <1>2, <2>1 DEF ScanCovered, IndexCovered, Sorted, Accounted, InChunkSlots,
       ChunkEnd, Range
  <2> QED BY <1>5, <2>1, <2>2, <2>3
<1>22. CASE Exit \/ Crash
  BY <1>5, <1>6, <1>22 DEF Exit, Crash, ProcessGone, ProcessLost, dbVars
<1>23. CASE Restart
  BY <1>5, <1>6, <1>23 DEF Restart, procVars, dbVars
<1> QED
  BY <1>7, <1>8, <1>9, <1>10, <1>11, <1>12, <1>13, <1>14, <1>15, <1>16, <1>17, <1>18,
     <1>19, <1>20, <1>21, <1>22, <1>23 DEF Next, BatchStep, SaveCheckpoint

(* A transaction left behind shares its slot with a stored one.              *)
LEMMA SplitPart ==
    ASSUME BatchInv, [Next]_vars
    PROVE  SplitNeedsSharedSlot'
<1> SUFFICES ASSUME ~changed', NEW s \in split'
             PROVE  \E t \in txs' : SlotOf[t] = SlotOf[s]
  BY DEF SplitNeedsSharedSlot
<1>1. txs \subseteq txs'
  BY HistoryGrows DEF Grows
<1>2. CASE SkipRange \/ ResumeRange
  <2>1. /\ IsRange /\ ~changed /\ lastSlot # None
        /\ split' = split \cup LeftBehind(lastSlot)
    BY <1>2 DEF SkipRange, ResumeRange, Readable
  <2>2. CASE s \in split
    BY <1>1, <2>1, <2>2 DEF BatchInv, SplitNeedsSharedSlot
  <2>3. CASE s \in LeftBehind(lastSlot)
    <3>1. s \in Sig /\ SlotOf[s] = lastSlot /\ InRange(s) /\ ~Accounted(s)
      BY <2>3 DEF LeftBehind
    <3>2. MarkShared
      BY <2>1 DEF BatchInv, RangeCovered
    <3> QED BY <1>1, <2>1, <3>1, <3>2 DEF MarkShared
  <2> QED BY <2>1, <2>2, <2>3
<1>3. CASE ~(SkipRange \/ ResumeRange)
  <2>1. split' = split /\ ~changed
    <3>1. CASE Restart
      BY <3>1 DEF Restart
    <3>2. CASE ~Restart
      BY <1>3, <3>2 DEF Next, BatchStep, StartList, StartLatest, NoLatest, PageFails,
         WholeReturns, StartRange, StartChunk, RangeDone, ScanBlock, PassOver, IndexChunk,
         NothingFound, IndexReturns, SaveCheckpoint, SaveFails, StopAfterChunk, NextChunk,
         Process, Shutdown, Exit, Crash, ProcessGone, Confirm, vars, batchVars, history
    <3> QED BY <3>1, <3>2
  <2> QED BY <1>1, <2>1 DEF BatchInv, SplitNeedsSharedSlot
<1> QED BY <1>2, <1>3

LEMMA InitBatch ==
    ASSUME Init
    PROVE  BatchInv
<1> USE DEF Init, ProcInit
<1>1. ProcInv
  BY InitInv
<1>2. TypeOK
  <2>1. 1 \in 1..MaxRuns /\ 0 \in 0..(MaxSlot + 1) /\ <<>> \in Seq(Sig)
    BY BatchParameters, LedgerIsConsistent, EmptySeq DEF BatchAssumption, LedgerAssumption
  <2> QED BY <1>1, <2>1 DEF TypeOK, ProcInv
<1>3. StageConsistent
  BY DEF StageConsistent, InCall
<1>4. RangeCovered
  BY DEF RangeCovered, MarkCovered, CursorCovered, ScanCovered, IndexCovered, SaveCovered,
     SavedCovered, MarkShared
<1>5. SplitNeedsSharedSlot
  BY DEF SplitNeedsSharedSlot
<1> QED BY <1>1, <1>2, <1>3, <1>4, <1>5 DEF BatchInv

LEMMA BatchInvStep ==
    ASSUME BatchInv, [Next]_vars
    PROVE  BatchInv'
BY ProcPart, TypePart, StagePart, RangePart, SplitPart DEF BatchInv
-----------------------------------------------------------------------------
(* The inductive invariant of batch mode: in every stage of run_batch, what  *)
(* lies before chunk_start and before the saved slot is accounted for.       *)
THEOREM BatchInvariant == Spec => []BatchInv
<1>1. Init => BatchInv
  BY InitBatch
<1>2. BatchInv /\ [Next]_vars => BatchInv'
  BY BatchInvStep
<1> QED BY <1>1, <1>2, PTL DEF Spec

(* The variables of run_batch and of the Processor keep their types.         *)
THEOREM BatchTypeCorrect == Spec => []TypeOK
<1>1. BatchInv => TypeOK
  BY DEF BatchInv
<1> QED BY <1>1, BatchInvariant, PTL

(* Whatever the chain, the range, the chunk size and the faults, a slot      *)
(* checkpoint or a finished range job hides no loss but the four of          *)
(* Accounted (processor.rs:111, rpc.rs:151, main.rs:254, main.rs:198).       *)
THEOREM CheckpointLossesAccounted == Spec => []LossAccounted
<1>1. BatchInv => LossAccounted
  <2> SUFFICES ASSUME BatchInv, IsRange, ~changed, NEW s \in Sig, InRange(s)
               PROVE  /\ lastSlot # None /\ SlotOf[s] < lastSlot => Accounted(s)
                      /\ stage = "done" /\ ~shutdown => Accounted(s)
    BY DEF LossAccounted
  <2>1. MarkCovered /\ SavedCovered
    BY DEF BatchInv, RangeCovered
  <2>2. lastSlot # None /\ SlotOf[s] < lastSlot => Accounted(s)
    BY <2>1 DEF MarkCovered, Past
  <2>3. ASSUME stage = "done", ~shutdown PROVE Accounted(s)
    <3>1. SlotOf[s] < job.end + 1
      BY SlotFacts DEF BatchInv, InRange
    <3> QED BY <2>1, <2>3, <3>1 DEF SavedCovered, Past
  <2> QED BY <2>2, <2>3
<1> QED BY <1>1, BatchInvariant, PTL

(* Resuming at last_indexed_slot + 1 loses something only where two program  *)
(* transactions share a slot.                                                *)
THEOREM SplitOnlyInSharedSlots == Spec => []SplitNeedsSharedSlot
<1>1. BatchInv => SplitNeedsSharedSlot
  BY DEF BatchInv
<1> QED BY <1>1, BatchInvariant, PTL

(* The signature checkpoint names a stored transaction, in every mode of     *)
(* run_batch and across crashes.                                             *)
THEOREM BatchSigMarkBacked == Spec => []SigMarkBacked
<1>1. BatchInv => SigMarkBacked
  BY DEF BatchInv, ProcInv
<1> QED BY <1>1, BatchInvariant, PTL

(* Batch mode implements the abstract store: what readers see changes by     *)
(* whole committed chunks and slot marks only.                               *)
THEOREM BatchImplementsStore == Spec => ImplementsStore
<1>1. Init => Store!StoreInit
  BY DEF Init, ProcInit, Store!StoreInit, CallRows
<1>2. ASSUME BatchInv, [Next]_vars
      PROVE  [Store!StoreNext]_(Store!storeVars)
  <2>1. CASE Process
    BY <1>2, <2>1, StepRefines DEF Process, BatchInv
  <2>2. CASE (SaveCheckpoint \/ SaveFails) /\ MarkChunk
    <3>1. ChunkEnd \in Slot
      BY <1>2, <2>2, ChunkEndFacts
         DEF SaveCheckpoint, SaveFails, BatchInv, StageConsistent
    <3>2. Store!SaveSlot(ChunkEnd)
      BY <2>2 DEF MarkChunk, Store!SaveSlot, CallRows
    <3> QED BY <3>1, <3>2 DEF Store!StoreNext
  <2>3. CASE ~Process /\ ~((SaveCheckpoint \/ SaveFails) /\ MarkChunk)
    <3>1. UNCHANGED dbVars
      <4>1. CASE SaveCheckpoint \/ SaveFails
        BY <2>3, <4>1 DEF SaveCheckpoint, SaveFails, procVars
      <4>2. CASE ~(SaveCheckpoint \/ SaveFails)
        BY <1>2, <2>3, <4>2 DEF Next, BatchStep, StartList, StartLatest, NoLatest,
           PageFails, WholeReturns, SkipRange, ResumeRange, StartRange, StartChunk,
           RangeDone, ScanBlock, PassOver, IndexChunk, NothingFound, IndexReturns,
           StopAfterChunk, NextChunk, CallProcess, CallReturns, Shutdown, RequestShutdown,
           Exit, Crash, ProcessGone, ProcessLost, Restart, Confirm, vars, procVars
      <4> QED BY <4>1, <4>2
    <3> QED BY <3>1 DEF dbVars, Store!storeVars, CallRows
  <2> QED BY <2>1, <2>2, <2>3
<1> QED BY <1>1, <1>2, BatchInvariant, PTL DEF Spec, ImplementsStore, Store!StoreSpec
-----------------------------------------------------------------------------
(* A list or latest job keeps account of what it was given.                  *)
LEMMA WholePart ==
    ASSUME BatchInv, WholeCovered, [Next]_vars
    PROVE  WholeCovered'
<1> USE DEF WholeCovered, WholeJobIndexed, BatchInv
<1>0. txs \subseteq txs' /\ skipped \subseteq skipped'
  BY HistoryGrows DEF Grows
<1>1. CASE StartList \/ StartLatest \/ PageFails \/ StartChunk \/ ScanBlock \/ PassOver
           \/ IndexChunk \/ NothingFound \/ ResumeRange \/ StartRange
           \/ SaveFails \/ NextChunk
  BY <1>1 DEF StartList, StartLatest, PageFails, StartChunk, ScanBlock, PassOver,
     IndexChunk, NothingFound, ResumeRange, StartRange, SaveFails, NextChunk
<1>2. CASE NoLatest
  BY <1>2 DEF NoLatest, procVars
<1>3. CASE WholeReturns
  <2>1. CASE stage' = "failed"
    BY <2>1
  <2>2. CASE stage' # "failed"
    <3>1. pc = "ok" /\ UNCHANGED <<txs, skipped, handed, todo, shutdown, job>>
      BY <1>3, <2>2 DEF WholeReturns, CallReturns, dbVars
    <3>2. /\ handed \subseteq txs \cup skipped \cup Range(todo)
          /\ todo # <<>> => shutdown
      BY <3>1 DEF ProcInv, HandedKept
    <3>3. Range(<<>>) = {}
      BY DEF Range
    <3> QED BY <1>3, <2>2, <3>1, <3>2, <3>3 DEF WholeReturns
  <2> QED BY <2>1, <2>2
<1>4. CASE SkipRange \/ RangeDone \/ StopAfterChunk
  <2>1. IsRange' /\ stage' = "done"
    BY <1>4 DEF SkipRange, RangeDone, StopAfterChunk, StageConsistent, IsRange
  <2> QED BY <2>1
<1>5. CASE IndexReturns \/ SaveCheckpoint
  <2>1. stage' \in {"save", "failed", "saved"}
    BY <1>5 DEF IndexReturns, SaveCheckpoint
  <2> QED BY <2>1
<1>6. CASE Process
  <2>1. UNCHANGED <<stage, job>> /\ ProcStep
    BY <1>6 DEF Process, batchVars, localVars
  <2>2. pc # "idle" /\ UNCHANGED <<handed, shutdown>>
    BY <2>1 DEF ProcStep, LeaveLoop, BeginChunk, BeginFails, SkipTx, IndexTx, StoreTxFails,
       StoreAccounts, StoreAccountsFails, Commit, CheckpointFails, CommitFails, TakeSig
  <2>3. stage \in {"index", "whole"}
    BY <2>2 DEF StageConsistent, InCall
  <2> QED BY <2>1, <2>3
<1>7. CASE Shutdown \/ Confirm \/ UNCHANGED vars
  <2>1. UNCHANGED <<stage, job, handed, txs, skipped>> /\ (shutdown => shutdown')
    BY <1>7 DEF Shutdown, RequestShutdown, Confirm, vars, batchVars, localVars, procVars,
       dbVars
  <2> QED BY <2>1 DEF IsRange, Shutdown, RequestShutdown
<1>8. CASE Exit \/ Crash
  BY <1>8 DEF Exit, Crash, ProcessGone, ProcessLost
<1>9. CASE Restart
  BY <1>9 DEF Restart, procVars
<1> QED
  BY <1>1, <1>2, <1>3, <1>4, <1>5, <1>6, <1>7, <1>8, <1>9 DEF Next, BatchStep

(* The slot checkpoint does not go back in a step.                           *)
Advances ==
    IsRange /\ ~changed /\ ~misread /\ lastSlot # None
        => lastSlot' # None /\ lastSlot' >= lastSlot

(* The saved slot stays behind what the range job is at.                     *)
LEMMA AheadPart ==
    ASSUME BatchInv, MarkAhead, [Next]_vars
    PROVE  MarkAhead' /\ Advances
<1> USE DEF BatchInv
<1>0. /\ lastSlot \in Slot \cup {None} /\ None \notin Int /\ Slot \subseteq Nat
      /\ MaxSlot \in Nat /\ cursor \in 0..(MaxSlot + 1)
  BY ProcessorParameters, LedgerIsConsistent
     DEF TypeOK, ProcTypeOK, ProcessorAssumption, LedgerAssumption, Slot
<1>s. UNCHANGED lastSlot => Advances
  BY <1>0 DEF Advances
<1>1. CASE StartList \/ StartLatest \/ NoLatest \/ WholeReturns
  <2>1. ~IsRange
    BY <1>1 DEF StartList, StartLatest, NoLatest, WholeReturns, IsList, IsLatest, IsRange,
       StageConsistent
  <2>2. UNCHANGED job
    BY <1>1 DEF StartList, StartLatest, NoLatest, WholeReturns
  <2> QED BY <2>1, <2>2 DEF MarkAhead, Advances, IsRange
<1>2. CASE PageFails \/ SkipRange \/ RangeDone \/ StopAfterChunk
  <2>1. UNCHANGED lastSlot /\ stage' \in {"failed", "done"}
    BY <1>2 DEF PageFails, SkipRange, RangeDone, StopAfterChunk, procVars, dbVars
  <2> QED BY <1>s, <2>1 DEF MarkAhead
<1>3. CASE ResumeRange
  <2>1. PICK saved \in Readable :
           saved # None /\ cursor' = saved + 1
    BY <1>3 DEF ResumeRange
  <2>2. saved = lastSlot /\ lastSlot < cursor' /\ UNCHANGED lastSlot /\ stage' = "chunk"
    BY <1>0, <1>3, <2>1 DEF Readable, ResumeRange, procVars, dbVars
  <2> QED BY <1>s, <2>2 DEF MarkAhead
<1>4. CASE StartRange
  <2>1. PICK saved \in Readable :
           /\ saved # None => saved < job.start /\ saved < job.end
           /\ misread' = (misread \/ saved # lastSlot)
    BY <1>4 DEF StartRange
  <2>2. /\ cursor' = job.start /\ UNCHANGED lastSlot /\ stage' = "chunk"
        /\ ~misread' => saved = lastSlot
    BY <1>4, <2>1 DEF StartRange, procVars, dbVars
  <2>3. ~misread' /\ lastSlot' # None => lastSlot' < cursor'
    BY <2>1, <2>2
  <2> QED BY <1>s, <2>2, <2>3 DEF MarkAhead
<1>5. CASE StartChunk \/ ScanBlock \/ PassOver
  <2>1. UNCHANGED <<lastSlot, cursor, job, changed, misread>> /\ stage' = "scan"
    BY <1>5 DEF StartChunk, ScanBlock, PassOver, procVars, dbVars, history
  <2>2. stage \in {"chunk", "scan"}
    BY <1>5 DEF StartChunk, ScanBlock, PassOver
  <2>3. MarkAhead'
    BY <2>1, <2>2 DEF MarkAhead, IsRange
  <2> QED BY <1>s, <2>1, <2>3
<1>6. CASE IndexChunk \/ NothingFound
  <2>1. /\ UNCHANGED <<lastSlot, cursor, job, changed, misread>> /\ stage = "scan"
        /\ stage' \in {"index", "save"}
    BY <1>6 DEF IndexChunk, NothingFound, CallProcess, procVars, dbVars, history
  <2> SUFFICES MarkAhead'
    BY <1>s, <2>1
  <2> SUFFICES ASSUME IsRange, ~changed, ~misread, lastSlot # None
               PROVE  MarkAhead'
    BY <2>1 DEF MarkAhead, IsRange
  <2>2. lastSlot < cursor /\ ChunkEnd' = ChunkEnd
    BY <2>1 DEF MarkAhead, ChunkEnd
  <2>3. cursor <= ChunkEnd /\ ChunkEnd \in Nat /\ cursor \in Nat /\ lastSlot \in Nat
    BY <1>0, <2>1, SlotFacts DEF StageConsistent
  <2>4. CASE IndexChunk
    <3>1. todo' = found /\ work' = NoWork
      <4>1. pc = "idle"
        BY <2>4 DEF IndexChunk, CallProcess
      <4>2. work = NoWork
        BY <4>1 DEF ProcInv, WorkExtends, InChunk
      <4> QED BY <2>4, <4>2 DEF IndexChunk, CallProcess
    <3>2. \A s \in Range(found) : cursor <= SlotOf[s] /\ s \in Sig /\ SlotOf[s] \in Nat
      BY <2>1, SlotFacts DEF RangeCovered, ScanCovered
    <3>3. \A s \in Range(found) : lastSlot <= SlotOf[s]
      BY <2>2, <2>3, <3>2
    <3>4. lastSlot <= ChunkEnd
      BY <2>2, <2>3
    <3> QED BY <2>1, <2>2, <3>1, <3>3, <3>4 DEF MarkAhead, NoWork
  <2>5. CASE NothingFound
    <3>1. stage' = "save" /\ lastSlot <= ChunkEnd
      BY <2>2, <2>3, <2>5 DEF NothingFound
    <3> QED BY <2>1, <2>2, <3>1 DEF MarkAhead
  <2> QED BY <1>6, <2>4, <2>5
<1>7. CASE IndexReturns
  <2>1. /\ UNCHANGED <<lastSlot, cursor, job, changed, misread>> /\ stage = "index"
        /\ stage' \in {"save", "failed"}
    BY <1>7 DEF IndexReturns, CallReturns, dbVars, history
  <2>2. ChunkEnd' = ChunkEnd
    BY <2>1 DEF ChunkEnd
  <2>3. MarkAhead'
    BY <2>1, <2>2 DEF MarkAhead, IsRange
  <2> QED BY <1>s, <2>1, <2>3
<1>8. CASE SaveCheckpoint \/ SaveFails
  <2>1. /\ UNCHANGED <<cursor, job, changed, misread>> /\ stage = "save"
        /\ stage' \in {"saved", "failed"}
    BY <1>8 DEF SaveCheckpoint, SaveFails
  <2>2. \/ lastSlot' = ChunkEnd
        \/ UNCHANGED lastSlot /\ stage' = "failed"
    BY <1>8 DEF SaveCheckpoint, SaveFails, MarkChunk, procVars, dbVars
  <2>3. ChunkEnd \in Nat /\ ChunkEnd' = ChunkEnd /\ ChunkEnd # None
    BY <1>0, <2>1, SlotFacts DEF StageConsistent, ChunkEnd
  <2>4. CASE UNCHANGED lastSlot /\ stage' = "failed"
    BY <1>s, <2>4 DEF MarkAhead
  <2>5. CASE lastSlot' = ChunkEnd
    <3>1. lastSlot' # None /\ lastSlot' <= ChunkEnd'
      BY <2>3, <2>5
    <3>2. MarkAhead'
      BY <2>1, <3>1 DEF MarkAhead
    <3>3. IsRange /\ ~changed /\ ~misread /\ lastSlot # None => lastSlot <= ChunkEnd
      BY <2>1 DEF MarkAhead
    <3>4. Advances
      BY <1>0, <2>3, <2>5, <3>1, <3>3 DEF Advances
    <3> QED BY <3>2, <3>4
  <2> QED BY <2>2, <2>4, <2>5
<1>9. CASE NextChunk
  <2>1. /\ UNCHANGED <<lastSlot, job, changed, misread>> /\ stage = "saved"
        /\ stage' = "chunk" /\ cursor' = ChunkEnd + 1
    BY <1>9 DEF NextChunk, procVars, dbVars, history
  <2>2. ChunkEnd \in Nat
    BY <2>1, SlotFacts DEF StageConsistent
  <2>3. IsRange /\ ~changed /\ ~misread /\ lastSlot # None => lastSlot < cursor'
    BY <1>0, <2>1, <2>2 DEF MarkAhead
  <2>4. MarkAhead'
    BY <2>1, <2>3 DEF MarkAhead, IsRange
  <2> QED BY <1>s, <2>1, <2>4
<1>10. CASE Process
  <2>0. UNCHANGED <<stage, cursor, job, changed, misread>> /\ ProcStep
    BY <1>10 DEF Process, batchVars, localVars, history
  <2>1. stage \in {"index", "whole"}
    BY <2>0 DEF StageConsistent, InCall, ProcStep, LeaveLoop, BeginChunk, BeginFails, SkipTx,
       IndexTx, StoreTxFails, StoreAccounts, StoreAccountsFails, Commit, CheckpointFails,
       CommitFails, TakeSig
  <2> SUFFICES ASSUME IsRange, ~changed, ~misread PROVE MarkAhead' /\ Advances
    BY <2>0 DEF MarkAhead, Advances, IsRange
  <2>2. stage = "index" /\ ChunkEnd' = ChunkEnd
    BY <2>0, <2>1 DEF StageConsistent, ChunkEnd
  <2>3. /\ IndexCovered /\ IndexCovered' /\ ProcInv /\ TypeOK
        /\ job.start <= cursor /\ cursor <= job.end
    BY <1>10, <2>2, HistoryGrows, ProcessCovered DEF RangeCovered, StageConsistent
  <2>4. /\ Range(todo') \subseteq Range(todo)
        /\ work'.last = None \/ work'.last = work.last \/ work'.last \in Range(todo)
    <3>1. CASE SkipTx \/ IndexTx
      <4>1. TakeSig /\ (work'.last = work.last \/ work'.last = Head(todo))
        BY <2>3, <3>1 DEF SkipTx, IndexTx, ProcInv, ProcTypeOK, WorkType
      <4>2. todo' = Tail(todo) /\ Range(todo) = {Head(todo)} \cup Range(Tail(todo))
        BY <2>3, <4>1, TakeSigFacts DEF TakeSig, ProcInv
      <4> QED BY <4>1, <4>2
    <3>2. CASE ~SkipTx /\ ~IndexTx
      <4>1. UNCHANGED todo
        BY <2>0, <3>2 DEF ProcStep, LeaveLoop, BeginChunk, BeginFails, StoreTxFails,
           StoreAccounts, StoreAccountsFails, Commit, CheckpointFails, CommitFails
      <4>2. work' = NoWork \/ work'.last = work.last \/ work'.last = None
        BY <2>0, <2>3, <3>2 DEF ProcStep, LeaveLoop, BeginChunk, BeginFails, StoreTxFails,
           StoreAccounts, StoreAccountsFails, Commit, CheckpointFails, CommitFails, Return,
           ProcInv, ProcTypeOK, WorkType, NoWork
      <4> QED BY <4>1, <4>2 DEF NoWork
    <3> QED BY <3>1, <3>2
  <2>5. /\ \A s \in Range(todo) : s \in Sig /\ SlotOf[s] \in Nat /\ SlotOf[s] <= ChunkEnd
        /\ ChunkEnd \in Nat
    BY <2>2, <2>3, SlotFacts DEF IndexCovered, InChunkSlots
  <2>6. CASE UNCHANGED dbVars
    <3>1. UNCHANGED lastSlot
      BY <2>6 DEF dbVars
    <3>2. MarkAhead'
      BY <2>0, <2>2, <2>4, <3>1 DEF MarkAhead, IsRange
    <3> QED BY <1>s, <3>1, <3>2
  <2>7. CASE pc = "checkpoint" /\ ~work.aborted /\ ApplyWork /\ work.last # None
    <3>1. /\ lastSlot' = SlotOf[work.last] /\ work.last \in Sig
          /\ SlotOf[work.last] \in Nat /\ lastSlot' # None
      BY <1>0, <2>3, <2>7, SlotFacts DEF ApplyWork, ProcInv, ProcTypeOK, WorkType
    <3>2. /\ SlotOf[work.last] <= ChunkEnd
          /\ \A s \in Range(todo) : SlotOf[work.last] <= SlotOf[s]
      BY <2>2, <2>3, <2>7 DEF IndexCovered, InChunkSlots
    <3>3. lastSlot # None => lastSlot' >= lastSlot
      BY <1>0, <2>2, <2>7, <3>1 DEF MarkAhead
    <3>4. work'.last # None => lastSlot' <= SlotOf[work'.last]
      BY <2>4, <3>1, <3>2
    <3>5. Advances
      BY <3>1, <3>3 DEF Advances
    <3>6. MarkAhead'
      BY <2>0, <2>2, <2>4, <3>1, <3>2, <3>4 DEF MarkAhead
    <3> QED BY <3>5, <3>6
  <2>8. CASE ApplyWork /\ work.last = None
    <3>1. UNCHANGED lastSlot
      BY <2>8 DEF ApplyWork
    <3>2. MarkAhead'
      BY <2>0, <2>2, <2>4, <3>1 DEF MarkAhead, IsRange
    <3> QED BY <1>s, <3>1, <3>2
  <2> QED BY <2>0, <2>3, <2>6, <2>7, <2>8, StepCommits DEF ProcInv
<1>11. CASE Shutdown \/ Confirm \/ UNCHANGED vars
  <2>1. UNCHANGED <<stage, cursor, job, changed, misread, lastSlot, todo, work>>
    BY <1>11 DEF Shutdown, RequestShutdown, Confirm, vars, batchVars, localVars, procVars,
       callVars, dbVars, history
  <2>2. MarkAhead'
    BY <2>1 DEF MarkAhead, IsRange, ChunkEnd
  <2> QED BY <1>s, <2>1, <2>2
<1>12. CASE Exit \/ Crash \/ Restart
  <2>1. UNCHANGED lastSlot /\ stage' \in {"down", "boot"}
    BY <1>12 DEF Exit, Crash, ProcessGone, ProcessLost, Restart, procVars, dbVars
  <2> QED BY <1>s, <2>1 DEF MarkAhead
<1> QED
  BY <1>1, <1>2, <1>3, <1>4, <1>5, <1>6, <1>7, <1>8, <1>9, <1>10, <1>11, <1>12
     DEF Next, BatchStep

(* A list or latest job that ends on its own has lost nothing it was given.  *)
THEOREM WholeJobsAreIndexed == Spec => []WholeJobIndexed
<1>1. Init => WholeCovered
  BY DEF Init, ProcInit, WholeCovered, WholeJobIndexed
<1>2. BatchInv /\ WholeCovered /\ [Next]_vars => WholeCovered'
  BY WholePart
<1>3. WholeCovered => WholeJobIndexed
  BY DEF WholeCovered
<1> QED BY <1>1, <1>2, <1>3, BatchInvariant, PTL DEF Spec

(* The slot checkpoint of a range job never goes back, unless a failed read  *)
(* of it made the job start anew (main.rs:178) or another job came between.  *)
THEOREM MarkNeverGoesBack == Spec => MarkOnlyAdvances
<1>1. Init => MarkAhead
  BY DEF Init, ProcInit, MarkAhead
<1>2. BatchInv /\ MarkAhead /\ [Next]_vars
        => /\ MarkAhead'
           /\ [IsRange /\ ~changed /\ ~misread /\ lastSlot # None
                 => lastSlot' # None /\ lastSlot' >= lastSlot]_vars
  BY AheadPart DEF Advances
<1> QED BY <1>1, <1>2, BatchInvariant, PTL DEF Spec, MarkOnlyAdvances
=============================================================================
