--------------------------- MODULE BatchProperties ---------------------------
(* What batch mode promises, and what the repository says of it.             *)
EXTENDS BatchIndexer

(* Every variable has its type.                                              *)
TypeOK ==
    /\ ProcTypeOK
    /\ job \in Jobs /\ runs \in 1..MaxRuns
    /\ stage \in {"boot", "whole", "chunk", "scan", "index", "save", "saved",
                  "done", "failed", "down"}
    /\ cursor \in 0..(MaxSlot + 1) /\ scan \in 0..(MaxSlot + 1)
    /\ found \in Seq(Sig)
    /\ changed \in BOOLEAN /\ misread \in BOOLEAN
    /\ missed \subseteq Slot /\ stopped \subseteq Sig /\ split \subseteq Sig
-----------------------------------------------------------------------------
(* The slot checkpoint can be trusted up to four named losses.  Under one    *)
(* configuration, however often it crashes, is stopped, fails and restarts:  *)
(* every transaction of the range in a slot below the checkpoint is stored,  *)
(* or could not be fetched (processor.rs:111), or is in a slot the scan      *)
(* passed over (rpc.rs:151, 167), or was cut off by a shutdown and marked    *)
(* anyway (main.rs:254), or was left behind in the slot of a mid-chunk       *)
(* checkpoint (main.rs:198).  A job that ends on its own accounts for all    *)
(* of its range.                                                             *)
LossAccounted ==
    IsRange /\ ~changed =>
        \A s \in Sig : InRange(s) =>
            /\ lastSlot # None /\ SlotOf[s] < lastSlot => Accounted(s)
            /\ stage = "done" /\ ~shutdown => Accounted(s)

(* Resuming after last_indexed_slot only ever leaves something behind in a   *)
(* slot that also has a stored transaction: with one program transaction per *)
(* slot a crash loses nothing.                                               *)
SplitNeedsSharedSlot ==
    ~changed => \A s \in split : \E t \in txs : SlotOf[t] = SlotOf[s]

(* While one range job runs, restarts included, the slot checkpoint goes     *)
(* back only after a failed read of it was taken for "no checkpoint"         *)
(* (main.rs:178).  List and latest jobs promise nothing of the kind: they    *)
(* save the slots of their signatures in the order these come.               *)
MarkOnlyAdvances ==
    [][IsRange /\ ~changed /\ ~misread /\ lastSlot # None
            => lastSlot' # None /\ lastSlot' >= lastSlot]_vars

(* A list or latest job that ended on its own has stored or skipped every    *)
(* signature it was given.                                                   *)
WholeJobIndexed ==
    stage = "done" /\ ~shutdown /\ ~IsRange => handed \subseteq txs \cup skipped

(* run_batch comes to an end in every life of the process: no chunk is       *)
(* scanned for ever.                                                         *)
JobSettles == <>[](stage \in {"done", "failed", "down"})

(* Batch mode, crashes included, implements the abstract store: readers see  *)
(* whole committed chunks and slot marks, and nothing in between.            *)
ImplementsStore == Store!StoreSpec
-----------------------------------------------------------------------------
(* Why LossAccounted holds: the inductive invariant of a range job, stage by *)
(* stage.                                                                    *)
InCall == stage \in {"index", "whole"}

(* Every transaction of the range in a slot before n is accounted for.       *)
Past(n) == \A s \in Sig : InRange(s) /\ SlotOf[s] < n => Accounted(s)

InChunkSlots(s) == cursor <= SlotOf[s] /\ SlotOf[s] <= ChunkEnd

Sorted(q) == \A i, j \in DOMAIN q : i < j => SlotOf[q[i]] <= SlotOf[q[j]]

StageConsistent ==
    /\ pc # "idle" => InCall
    /\ stage = "index" => pc # "idle"
    /\ stage = "whole" => ~IsRange
    /\ stage \in {"chunk", "scan", "index", "save", "saved"} => IsRange
    /\ stage \in {"scan", "index", "save", "saved"} =>
         job.start <= cursor /\ cursor <= job.end
    /\ stage = "chunk" => job.start <= cursor /\ cursor <= MaxSlot + 1
    /\ stage = "scan" => cursor <= scan /\ scan <= ChunkEnd + 1

MarkCovered == lastSlot # None => Past(lastSlot)

CursorCovered ==
    stage \in {"chunk", "scan", "index", "save", "saved"} => Past(cursor)

(* The scan has seen, in order, what is in the slots it went through.        *)
ScanCovered ==
    stage = "scan" =>
        /\ Sorted(found)
        /\ \A s \in Range(found) : cursor <= SlotOf[s] /\ SlotOf[s] < scan
        /\ \A s \in Sig : cursor <= SlotOf[s] /\ SlotOf[s] < scan =>
              Accounted(s) \/ s \in Range(found)

(* What is not yet taken is not before what was taken last: a commit never   *)
(* moves the checkpoint past a signature still to be taken.                  *)
IndexCovered ==
    stage = "index" =>
        /\ Sorted(todo)
        /\ \A s \in Range(todo) : InChunkSlots(s)
        /\ \A s \in Sig : InChunkSlots(s) => Accounted(s) \/ s \in handed
        /\ work.last # None =>
              /\ InChunkSlots(work.last)
              /\ \A s \in Range(todo) : SlotOf[work.last] <= SlotOf[s]

SaveCovered ==
    stage = "save" =>
        \A s \in Sig : InChunkSlots(s) => Accounted(s) \/ s \in Range(todo)

SavedCovered ==
    /\ stage = "saved" => Past(ChunkEnd + 1)
    /\ stage = "done" /\ ~shutdown => Past(job.end + 1)

(* A checkpoint slot that is not completely accounted for holds a stored     *)
(* transaction.                                                              *)
MarkShared ==
    lastSlot # None =>
        \/ \E t \in txs : SlotOf[t] = lastSlot
        \/ \A s \in Sig : InRange(s) /\ SlotOf[s] = lastSlot => Accounted(s)

RangeCovered ==
    IsRange /\ ~changed =>
        /\ MarkCovered /\ CursorCovered /\ ScanCovered
        /\ IndexCovered /\ SaveCovered /\ SavedCovered
        /\ MarkShared

(* Why MarkOnlyAdvances holds: the saved slot is not after anything that the *)
(* job is still to take or to save.                                          *)
MarkAhead ==
    IsRange /\ ~changed /\ ~misread /\ lastSlot # None =>
        /\ stage \in {"chunk", "scan"} => lastSlot < cursor
        /\ stage \in {"index", "save", "saved"} => lastSlot <= ChunkEnd
        /\ stage = "index" =>
             /\ work.last # None => lastSlot <= SlotOf[work.last]
             /\ \A s \in Range(todo) : lastSlot <= SlotOf[s]

(* Why WholeJobIndexed holds: nothing is handed over before the job starts.  *)
WholeCovered == (stage \in {"boot", "down"} => handed = {}) /\ WholeJobIndexed

BatchInv ==
    /\ TypeOK /\ ProcInv /\ StageConsistent
    /\ RangeCovered /\ SplitNeedsSharedSlot
-----------------------------------------------------------------------------
(* Statements of the repository that the code does not keep.                 *)

(* main.rs:252 "Save checkpoint after every chunk", of which main.rs:216     *)
(* says "the last completed chunk": a saved chunk is completely indexed.     *)
SavedChunkIsComplete ==
    stage = "saved" => Range(found) \subseteq txs \cup skipped

(* main.rs:187 "Range fully indexed, skipping": a range job that ends as     *)
(* done, no shutdown having cut a chunk off, has indexed the range.          *)
SkippedRangeIsIndexed ==
    stage = "done" /\ IsRange /\ stopped = {} => \A s \in Sig : InRange(s) => s \in txs
=============================================================================
