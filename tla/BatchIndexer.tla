---------------------------- MODULE BatchIndexer ----------------------------
(* Batch mode: run_batch of src/main.rs over the Processor, and the process  *)
(* around it, which is stopped, crashes and is started again, with the same  *)
(* configuration or another.  The slot-range job scans chunks of BatchSize   *)
(* slots with getBlock, indexes what it found and saves a slot checkpoint.   *)
EXTENDS Processor

CONSTANTS
    Jobs,     \* the configurations: [sigs, start, end] as in config.rs
    MaxRuns   \* bound: how often the process is started

Job == [sigs : Seq(Sig), start : Slot \cup {None}, end : Slot \cup {None}]

BatchAssumption ==
    /\ Jobs # {} /\ Jobs \subseteq Job
    /\ MaxRuns \in Nat \ {0}

ASSUME BatchParameters == BatchAssumption

VARIABLES
    job,      \* the configuration of the running process
    stage,    \* where run_batch stands
    cursor,   \* chunk_start
    scan,     \* the slot the chunk's scan looks at next
    found,    \* the signatures the scan has found
    runs,     \* how often the process was started
    \* history
    changed,  \* a later start used another configuration
    misread,  \* a failed checkpoint read was taken for "no checkpoint"
    missed,   \* slots the scan passed over without seeing their block
    stopped,  \* signatures of a chunk marked done although shutdown cut it off
    split     \* signatures left behind in the slot a restart resumed after

localVars == <<stage, cursor, scan, found>>
history   == <<changed, misread, missed, stopped, split>>
batchVars == <<job, localVars, runs, history>>
vars      == <<procVars, batchVars, now>>

(* run_batch looks at the configuration in this order.                       *)
IsList   == job.sigs # <<>>
IsRange  == job.sigs = <<>> /\ job.start # None /\ job.end # None
IsLatest == job.sigs = <<>> /\ (job.start = None \/ job.end = None)

ChunkEnd == IF cursor + BatchSize - 1 < job.end THEN cursor + BatchSize - 1
                                                ELSE job.end

(* s is in the range of the job.                                             *)
InRange(s) == job.start <= SlotOf[s] /\ SlotOf[s] <= job.end

(* s is indexed, or one of the events that can lose it is on record.         *)
Accounted(s) ==
    \/ s \in txs \cup skipped \cup stopped \cup split
    \/ SlotOf[s] \in missed

Init ==
    /\ ProcInit /\ now = InitialSlot
    /\ job \in Jobs /\ runs = 1
    /\ stage = "boot" /\ cursor = 0 /\ scan = 0 /\ found = <<>>
    /\ changed = FALSE /\ misread = FALSE
    /\ missed = {} /\ stopped = {} /\ split = {}
-----------------------------------------------------------------------------
(* Explicit signature list.                                                  *)
StartList ==
    /\ stage = "boot" /\ IsList
    /\ CallProcess(job.sigs)
    /\ stage' = "whole"
    /\ UNCHANGED <<job, cursor, scan, found, runs, history, now>>

(* No range: the newest BatchSize signatures, in the order the node gives    *)
(* them, newest first.                                                       *)
StartLatest ==
    /\ stage = "boot" /\ IsLatest
    /\ NewestFirst(BatchSize) # <<>>
    /\ CallProcess(NewestFirst(BatchSize))
    /\ stage' = "whole"
    /\ UNCHANGED <<job, cursor, scan, found, runs, history, now>>

NoLatest ==
    /\ stage = "boot" /\ IsLatest
    /\ NewestFirst(BatchSize) = <<>>
    /\ stage' = "done"
    /\ UNCHANGED <<procVars, job, cursor, scan, found, runs, history, now>>

PageFails ==
    /\ Fault("page")
    /\ stage = "boot" /\ IsLatest
    /\ stage' = "failed"
    /\ UNCHANGED <<procVars, job, cursor, scan, found, runs, history, now>>

(* Mutant of WholeReturns: the job is taken as done when it failed.          *)
WholeErrorIgnored ==
    /\ stage = "whole"
    /\ CallReturns("ok") \/ CallReturns("err")
    /\ stage' = "done"
    /\ UNCHANGED <<job, cursor, scan, found, runs, history, now>>

(* process_signatures returned to the list or latest job.                    *)
WholeReturns ==
    /\ stage = "whole"
    /\ \/ CallReturns("ok") /\ stage' = "done"
       \/ CallReturns("err") /\ stage' = "failed"
    /\ UNCHANGED <<job, cursor, scan, found, runs, history, now>>
-----------------------------------------------------------------------------
(* What the slot-range job reads as its checkpoint: an error is no           *)
(* checkpoint (unwrap_or).                                                   *)
Readable == {lastSlot} \cup (IF Fault("read") THEN {None} ELSE {})

(* What is left behind in slot n by whoever goes on after it.                *)
LeftBehind(n) == {s \in Sig : SlotOf[s] = n /\ InRange(s) /\ ~Accounted(s)}

(* "Range fully indexed, skipping".                                          *)
SkipRange ==
    /\ stage = "boot" /\ IsRange
    /\ \E saved \in Readable :
         /\ saved # None
         /\ saved >= job.end
         /\ split' = split \cup LeftBehind(saved)
    /\ stage' = "done"
    /\ UNCHANGED <<procVars, job, cursor, scan, found, runs, changed, misread,
                   missed, stopped, now>>

(* A checkpoint inside the range: continue after it.                         *)
ResumeRange ==
    /\ stage = "boot" /\ IsRange
    /\ \E saved \in Readable :
         /\ saved # None
         /\ saved >= job.start /\ saved < job.end
         /\ cursor' = saved + 1
         /\ split' = split \cup LeftBehind(saved)
    /\ stage' = "chunk"
    /\ UNCHANGED <<procVars, job, scan, found, runs, changed, misread,
                   missed, stopped, now>>

(* Mutant of StartRange: the checkpoint is not looked at.                    *)
StartRangeAnyway ==
    /\ stage = "boot" /\ IsRange
    /\ cursor' = job.start
    /\ stage' = "chunk"
    /\ UNCHANGED <<procVars, job, scan, found, runs, history, now>>

(* No checkpoint, or one before the range: start from its beginning.         *)
StartRange ==
    /\ stage = "boot" /\ IsRange
    /\ \E saved \in Readable :
         /\ saved # None => saved < job.start /\ saved < job.end
         /\ misread' = (misread \/ saved # lastSlot)
    /\ cursor' = job.start
    /\ stage' = "chunk"
    /\ UNCHANGED <<procVars, job, scan, found, runs, changed, missed, stopped,
                   split, now>>

(* while chunk_start <= end.                                                 *)
StartChunk ==
    /\ stage = "chunk" /\ cursor <= job.end
    /\ stage' = "scan" /\ scan' = cursor /\ found' = <<>>
    /\ UNCHANGED <<procVars, job, cursor, runs, history, now>>

RangeDone ==
    /\ stage = "chunk" /\ cursor > job.end
    /\ stage' = "done"
    /\ UNCHANGED <<procVars, job, cursor, scan, found, runs, history, now>>

(* get_signatures_for_slot_range, one slot: the block is there.              *)
ScanBlock ==
    /\ stage = "scan" /\ scan <= ChunkEnd
    /\ scan <= now
    /\ found' = found \o Block(scan)
    /\ scan' = scan + 1
    /\ UNCHANGED <<procVars, job, stage, cursor, runs, history, now>>

(* The node says "Block not available", as it does for a slot it has not     *)
(* reached, or every retry failed: the slot is passed over.                  *)
PassOver ==
    /\ stage = "scan" /\ scan <= ChunkEnd
    /\ scan > now \/ Fault("block")
    /\ missed' = missed \cup {scan}
    /\ scan' = scan + 1
    /\ UNCHANGED <<procVars, job, stage, cursor, found, runs, changed, misread,
                   stopped, split, now>>

IndexChunk ==
    /\ stage = "scan" /\ scan > ChunkEnd
    /\ found # <<>>
    /\ CallProcess(found)
    /\ stage' = "index"
    /\ UNCHANGED <<job, cursor, scan, found, runs, history, now>>

NothingFound ==
    /\ stage = "scan" /\ scan > ChunkEnd
    /\ found = <<>>
    /\ stage' = "save"
    /\ UNCHANGED <<procVars, job, cursor, scan, found, runs, history, now>>

(* Mutant of IndexReturns: a failed chunk is saved like any other.           *)
IndexErrorIgnored ==
    /\ stage = "index"
    /\ CallReturns("ok") \/ CallReturns("err")
    /\ stage' = "save"
    /\ UNCHANGED <<job, cursor, scan, found, runs, history, now>>

IndexReturns ==
    /\ stage = "index"
    /\ \/ CallReturns("ok") /\ stage' = "save"
       \/ CallReturns("err") /\ stage' = "failed"
    /\ UNCHANGED <<job, cursor, scan, found, runs, history, now>>

(* Mutant of MarkChunk: the next chunk's first slot is saved.                *)
MarkNextChunk ==
    /\ lastSlot' = ChunkEnd + 1
    /\ stopped' = stopped \cup Range(todo)
    /\ UNCHANGED <<txs, calls, accs, lastSig, shutdown, callVars, handed, skipped>>

(* Mutant of MarkChunk: both checkpoint rows are written, the signature      *)
(* empty.                                                                    *)
MarkBothRows ==
    /\ lastSlot' = ChunkEnd /\ lastSig' = None
    /\ stopped' = stopped \cup Range(todo)
    /\ UNCHANGED <<txs, calls, accs, shutdown, callVars, handed, skipped>>

(* save_slot_checkpoint(chunk_end), whether or not all of the chunk was      *)
(* taken.                                                                    *)
MarkChunk ==
    /\ lastSlot' = ChunkEnd
    /\ stopped' = stopped \cup Range(todo)
    /\ UNCHANGED <<txs, calls, accs, lastSig, shutdown, callVars, handed, skipped>>

SaveCheckpoint ==
    /\ stage = "save"
    /\ MarkChunk
    /\ stage' = "saved"
    /\ UNCHANGED <<job, cursor, scan, found, runs, changed, misread, missed,
                   split, now>>

(* The statement fails, or only its answer is lost.                          *)
SaveFails ==
    /\ stage = "save"
    /\ \/ Fault("db") /\ UNCHANGED <<procVars, stopped>>
       \/ Fault("commit") /\ MarkChunk
    /\ stage' = "failed"
    /\ UNCHANGED <<job, cursor, scan, found, runs, changed, misread, missed,
                   split, now>>

StopAfterChunk ==
    /\ stage = "saved" /\ shutdown
    /\ stage' = "done"
    /\ UNCHANGED <<procVars, job, cursor, scan, found, runs, history, now>>

(* Mutant of NextChunk: the next chunk begins with the last slot of this.    *)
NextChunkOverlaps ==
    /\ stage = "saved" /\ ~shutdown
    /\ cursor' = ChunkEnd
    /\ stage' = "chunk"
    /\ UNCHANGED <<procVars, job, scan, found, runs, history, now>>

(* Mutant of NextChunk: a slot is left out between two chunks.               *)
NextChunkSkipsSlot ==
    /\ stage = "saved" /\ ~shutdown
    /\ cursor' = ChunkEnd + 2
    /\ stage' = "chunk"
    /\ UNCHANGED <<procVars, job, scan, found, runs, history, now>>

NextChunk ==
    /\ stage = "saved" /\ ~shutdown
    /\ cursor' = ChunkEnd + 1
    /\ stage' = "chunk"
    /\ UNCHANGED <<procVars, job, scan, found, runs, history, now>>
-----------------------------------------------------------------------------
(* Any step inside process_signatures.                                       *)
Process == ProcStep /\ UNCHANGED <<batchVars, now>>

Shutdown ==
    /\ stage # "down"
    /\ RequestShutdown
    /\ UNCHANGED <<batchVars, now>>

ProcessGone ==
    /\ ProcessLost
    /\ stage' = "down" /\ cursor' = 0 /\ scan' = 0 /\ found' = <<>>
    /\ UNCHANGED <<job, runs, history, now>>

(* main: after the job the process lives on for the API, until the signal.   *)
Exit == stage \in {"done", "failed"} /\ shutdown /\ ProcessGone

Crash == Fault("crash") /\ stage # "down" /\ ProcessGone

Restart ==
    /\ stage = "down" /\ runs < MaxRuns
    /\ runs' = runs + 1
    /\ job' \in Jobs
    /\ changed' = (changed \/ job' # job)
    /\ stage' = "boot"
    /\ UNCHANGED <<procVars, cursor, scan, found, misread, missed, stopped,
                   split, now>>

Confirm == SlotConfirmed /\ UNCHANGED <<procVars, batchVars>>

BatchStep ==
    \/ StartList \/ StartLatest \/ NoLatest \/ PageFails \/ WholeReturns
    \/ SkipRange \/ ResumeRange \/ StartRange \/ StartChunk \/ RangeDone
    \/ ScanBlock \/ PassOver \/ IndexChunk \/ NothingFound \/ IndexReturns
    \/ SaveCheckpoint \/ SaveFails \/ StopAfterChunk \/ NextChunk
    \/ Process

Next == BatchStep \/ Shutdown \/ Exit \/ Crash \/ Restart \/ Confirm

(* The task runs and its calls return.  Signals, crashes, restarts and the   *)
(* chain are not forced to happen.                                           *)
Spec == Init /\ [][Next]_vars /\ WF_vars(BatchStep)
=============================================================================
