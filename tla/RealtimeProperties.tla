------------------------- MODULE RealtimeProperties -------------------------
(* What realtime mode promises, and what the repository says of it.          *)
EXTENDS RealtimeIndexer

(* Every variable has its type; the channel keeps its capacity and a full    *)
(* batch is never left waiting.                                              *)
TypeOK ==
    /\ ProcTypeOK
    /\ runs \in 1..MaxRuns
    /\ stage \in {"boot", "backfill", "loop", "batch", "flush", "ended", "down"}
    /\ ws \in {"off", "first", "subscribed", "draining", "retry", "dead"}
    /\ feed \in Seq(Sig) /\ chan \in Seq(Sig) /\ pending \in Seq(Sig)
    /\ Len(chan) <= ChanSize /\ Len(pending) < BatchSize
    /\ unheard \subseteq Sig /\ gap \subseteq Sig /\ dropped \subseteq Sig

(* Stored, or one of the events that lose a signature is on record.          *)
Accounted == txs \cup skipped \cup unheard \cup gap \cup dropped

(* last_indexed_sig can be trusted up to four named losses.  However often   *)
(* the process crashes, is stopped, loses its connection and restarts, every *)
(* transaction up to the checkpoint is stored, or could not be fetched       *)
(* (processor.rs:111), or came before the first subscription of a life       *)
(* (realtime.rs:80), or while the thread reconnected (realtime.rs:109), or   *)
(* was in a batch that failed (realtime.rs:128).                             *)
AnchorAccounted ==
    lastSig # None => \A s \in Sig : Pos(s) <= Pos(lastSig) => s \in Accounted

(* Everything on its way to the database, nearest first.                     *)
Remaining == IF pc = "idle" THEN <<>> ELSE todo
Heard     == pending \o chan \o feed
Pipeline  == Remaining \o Heard

Ordered(q) == \A i, j \in DOMAIN q : i < j => Pos(q[i]) < Pos(q[j])

(* The pipeline is in ledger order, without repetition, and all of it comes  *)
(* after the checkpoint: a commit never moves the checkpoint past a          *)
(* signature that is still under way, so a crash loses none of them.         *)
PipelineInOrder ==
    /\ Ordered(Pipeline)
    /\ lastSig # None => \A s \in Range(Pipeline) : Pos(lastSig) < Pos(s)

(* The signature checkpoint never goes back, in any life of the process: the *)
(* next backfill lists nothing it has listed before.                         *)
AnchorOnlyAdvances ==
    [][lastSig # None => lastSig' # None /\ Pos(lastSig) <= Pos(lastSig')]_vars

(* A signature the subscription received is stored, skipped or dropped with  *)
(* its batch, unless the process is stopped first: backpressure of the       *)
(* channel, slow batches and a broken connection hold it up, no more.        *)
HeardIsHandled ==
    \A s \in Sig :
        s \in Range(feed) ~> \/ s \in txs \cup skipped \cup dropped
                             \/ shutdown \/ stage \in {"ended", "down"}

(* After the signal the indexer task comes to its end, wherever the signal   *)
(* finds it.                                                                 *)
ShutdownStops == shutdown ~> stage \in {"ended", "down"}

(* Realtime mode, crashes included, implements the abstract store: readers   *)
(* see whole committed batches and nothing in between.                       *)
ImplementsStore == Store!StoreSpec
-----------------------------------------------------------------------------
(* Why AnchorAccounted and PipelineInOrder hold: the inductive invariant of  *)
(* realtime mode.                                                            *)
StageConsistent ==
    /\ pc # "idle" <=> stage \in {"backfill", "batch", "flush"}
    /\ stage \in {"boot", "backfill", "down"} =>
         ws = "off" /\ feed = <<>> /\ chan = <<>> /\ pending = <<>>
    /\ stage \in {"loop", "batch", "flush"} => ws \notin {"off", "dead"}

(* What is under way is confirmed, and later than what the checkpoint names  *)
(* or is about to name.                                                      *)
Ahead(s) ==
    /\ Pos(s) <= UpTo[now]
    /\ lastSig # None => Pos(lastSig) < Pos(s)
    /\ work.last # None => Pos(work.last) < Pos(s)

PipelineAhead == Ordered(Pipeline) /\ \A s \in Range(Pipeline) : Ahead(s)

(* The next checkpoint is confirmed too, and not before the last one.        *)
MarksOrdered ==
    /\ lastSig # None => Pos(lastSig) <= UpTo[now]
    /\ work.last # None =>
         /\ Pos(work.last) <= UpTo[now]
         /\ lastSig # None => Pos(lastSig) < Pos(work.last)

(* While the indexer works, everything confirmed is accounted for, in the    *)
(* batch being processed, or heard.  After a shutdown batches are given up   *)
(* without a trace, but then no further chunk is begun.                      *)
TipCovered ==
    stage \in {"backfill", "loop", "batch", "flush"} /\ (~shutdown \/ InChunk) =>
        \A s \in Sig : Pos(s) <= UpTo[now] =>
            \/ s \in Accounted
            \/ pc # "idle" /\ s \in handed
            \/ s \in Range(Heard)

(* AnchorAccounted for the checkpoint the open transaction will write.       *)
WorkCovered ==
    work.last # None =>
        \A s \in Sig : Pos(s) <= Pos(work.last) =>
            s \in Accounted \cup work.txs \cup work.skipped

RealtimeInv ==
    /\ TypeOK /\ ProcInv /\ StageConsistent
    /\ PipelineAhead /\ MarksOrdered
    /\ TipCovered /\ WorkCovered /\ AnchorAccounted
-----------------------------------------------------------------------------
(* Statements of the repository that the code does not keep.                 *)

(* README.md:278 "Signatures received during the gap are recovered via       *)
(* cold-start backfill on reconnect": no batch moves the checkpoint past a   *)
(* transaction of a reconnection gap that is not stored.                     *)
GapsAreRecovered ==
    lastSig # None => \A s \in gap : Pos(s) < Pos(lastSig) => s \in txs

(* main.rs:70 "Shutdown signal received, finishing current batch...",        *)
(* main.rs:152 "shut down cleanly": after the signal the process exits.      *)
SignalEndsProcess == shutdown ~> stage = "down"
=============================================================================
