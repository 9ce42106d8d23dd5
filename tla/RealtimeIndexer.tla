--------------------------- MODULE RealtimeIndexer ---------------------------
(* Realtime mode: run_realtime of src/indexer/realtime.rs over the           *)
(* Processor.  At start the signatures after the checkpoint are backfilled,  *)
(* once.  Then a thread subscribes to the program's logs and sends each      *)
(* signature it receives through a bounded channel to a select loop, which   *)
(* collects them in `pending' and hands them to the Processor.               *)
EXTENDS Processor

CONSTANTS
    ChanSize,  \* capacity of the channel (1024 in the code)
    MaxRuns    \* bound: how often the process is started

RealtimeAssumption ==
    /\ ChanSize \in Nat \ {0}
    /\ MaxRuns \in Nat \ {0}

ASSUME RealtimeParameters == RealtimeAssumption

VARIABLES
    stage,     \* where run_realtime stands
    ws,        \* the WebSocket thread
    feed,      \* received by the subscription, not yet by the thread
    chan,      \* the channel between the thread and the loop
    pending,   \* signatures the loop has collected
    runs,      \* how often the process was started
    \* history: what the next backfill will not find again, and why
    unheard,   \* confirmed before this life's first subscription
    gap,       \* confirmed while the thread was reconnecting
    dropped    \* in a batch that failed

pipeVars == <<feed, chan, pending>>
losses   == <<unheard, gap, dropped>>
realVars == <<stage, ws, pipeVars, runs, losses>>
vars     == <<procVars, realVars, now>>

Init ==
    /\ ProcInit /\ now = InitialSlot
    /\ stage = "boot" /\ runs = 1
    /\ ws = "off" /\ feed = <<>> /\ chan = <<>> /\ pending = <<>>
    /\ unheard = {} /\ gap = {} /\ dropped = {}

(* The select loop holds the receiving end of the channel.                   *)
Listening == stage \in {"loop", "batch", "flush"}
-----------------------------------------------------------------------------
(* Phase 1.  No checkpoint: start from the current tip.                      *)
NoCheckpoint ==
    /\ stage = "boot" /\ lastSig = None
    /\ stage' = "loop" /\ ws' = "first"
    /\ unheard' = {s \in Sig : OnChain(s)}
    /\ UNCHANGED <<procVars, pipeVars, runs, gap, dropped, now>>

(* Nothing is newer than the checkpoint.                                     *)
NothingMissed ==
    /\ stage = "boot" /\ lastSig # None /\ After(lastSig) = <<>>
    /\ stage' = "loop" /\ ws' = "first"
    /\ UNCHANGED <<procVars, pipeVars, runs, losses, now>>

(* Mutant of Backfill: the list of get_signatures_since is not reversed.     *)
BackfillNewestFirst ==
    LET missed == After(lastSig)
        n == Len(missed) IN
    /\ stage = "boot" /\ lastSig # None /\ missed # <<>>
    /\ CallProcess([i \in 1..n |-> missed[n - i + 1]])
    /\ stage' = "backfill"
    /\ unheard' = unheard \ Range(missed)
    /\ gap' = gap \ Range(missed)
    /\ dropped' = dropped \ Range(missed)
    /\ UNCHANGED <<ws, pipeVars, runs, now>>

(* The missed signatures are handed to the Processor, oldest first; earlier  *)
(* losses among them are made good.                                          *)
Backfill ==
    LET missed == After(lastSig) IN
    /\ stage = "boot" /\ lastSig # None /\ missed # <<>>
    /\ CallProcess(missed)
    /\ stage' = "backfill"
    /\ unheard' = unheard \ Range(missed)
    /\ gap' = gap \ Range(missed)
    /\ dropped' = dropped \ Range(missed)
    /\ UNCHANGED <<ws, pipeVars, runs, now>>

(* A checkpoint row cannot be read, or a page fails after its retries: `?'   *)
(* ends the task.                                                            *)
BootFails ==
    /\ stage = "boot"
    /\ Fault("read") \/ (Fault("page") /\ lastSig # None)
    /\ stage' = "ended"
    /\ UNCHANGED <<procVars, ws, pipeVars, runs, losses, now>>

BackfillReturns ==
    /\ stage = "backfill"
    /\ \/ CallReturns("ok") /\ stage' = "loop" /\ ws' = "first"
       \/ CallReturns("err") /\ stage' = "ended" /\ UNCHANGED ws
    /\ UNCHANGED <<pipeVars, runs, losses, now>>
-----------------------------------------------------------------------------
(* The WebSocket thread.  A refused connection is tried again after a delay  *)
(* and changes nothing here.                                                 *)
Subscribe ==
    /\ ws \in {"first", "retry"}
    /\ ws' = "subscribed"
    /\ UNCHANGED <<procVars, stage, pipeVars, runs, losses, now>>

(* Mutant of Forward: the channel is unbounded.                              *)
ForwardUnbounded ==
    /\ Listening
    /\ feed # <<>>
    /\ chan' = Append(chan, Head(feed))
    /\ feed' = Tail(feed)
    /\ UNCHANGED <<procVars, stage, ws, pending, runs, losses, now>>

(* blocking_send waits while the channel is full.                            *)
Forward ==
    /\ Listening
    /\ feed # <<>> /\ Len(chan) < ChanSize
    /\ chan' = Append(chan, Head(feed))
    /\ feed' = Tail(feed)
    /\ UNCHANGED <<procVars, stage, ws, pending, runs, losses, now>>

(* Mutant of WsDrops: what was received and not yet sent on is lost.         *)
WsDropsReceived ==
    /\ Fault("ws")
    /\ ws = "subscribed"
    /\ ws' = "draining" /\ feed' = <<>>
    /\ UNCHANGED <<procVars, stage, chan, pending, runs, losses, now>>

(* The connection breaks: what was received is still delivered, then recv    *)
(* fails and the thread goes to reconnect.                                   *)
WsDrops ==
    /\ Fault("ws")
    /\ ws = "subscribed"
    /\ ws' = "draining"
    /\ UNCHANGED <<procVars, stage, pipeVars, runs, losses, now>>

Drained ==
    /\ ws = "draining" /\ feed = <<>>
    /\ ws' = "retry"
    /\ UNCHANGED <<procVars, stage, pipeVars, runs, losses, now>>

(* The loop is gone: the thread notices when it has something to send.       *)
ThreadEnds ==
    /\ stage = "ended" /\ feed # <<>>
    /\ ws' = "dead" /\ feed' = <<>>
    /\ UNCHANGED <<procVars, stage, chan, pending, runs, losses, now>>
-----------------------------------------------------------------------------
(* The select loop: a signature comes and the batch is not full.             *)
Receive ==
    /\ stage = "loop" /\ chan # <<>>
    /\ Len(pending) + 1 < BatchSize
    /\ pending' = Append(pending, Head(chan))
    /\ chan' = Tail(chan)
    /\ UNCHANGED <<procVars, stage, ws, feed, runs, losses, now>>

(* Mutant of ReceiveLast: the signature that fills the batch is not in it.   *)
ReceiveLastLosesIt ==
    /\ stage = "loop" /\ chan # <<>>
    /\ Len(pending) + 1 >= BatchSize
    /\ CallProcess(pending)
    /\ pending' = <<>> /\ chan' = Tail(chan)
    /\ stage' = "batch"
    /\ UNCHANGED <<ws, feed, runs, losses, now>>

(* It comes and the batch is full.                                           *)
ReceiveLast ==
    /\ stage = "loop" /\ chan # <<>>
    /\ Len(pending) + 1 >= BatchSize
    /\ CallProcess(Append(pending, Head(chan)))
    /\ pending' = <<>> /\ chan' = Tail(chan)
    /\ stage' = "batch"
    /\ UNCHANGED <<ws, feed, runs, losses, now>>

(* Mutant of Tick: the batch is cloned, not taken.                           *)
TickKeepsPending ==
    /\ stage = "loop" /\ pending # <<>>
    /\ CallProcess(pending)
    /\ stage' = "batch"
    /\ UNCHANGED <<ws, feed, chan, pending, runs, losses, now>>

(* flush_interval.tick().                                                    *)
Tick ==
    /\ stage = "loop" /\ pending # <<>>
    /\ CallProcess(pending)
    /\ pending' = <<>>
    /\ stage' = "batch"
    /\ UNCHANGED <<ws, feed, chan, runs, losses, now>>

(* An error of the batch is logged and the batch forgotten.                  *)
BatchReturns ==
    /\ stage = "batch"
    /\ \/ CallReturns("ok") /\ UNCHANGED dropped
       \/ /\ CallReturns("err")
          /\ dropped' = dropped \cup (handed \ (txs \cup skipped))
    /\ stage' = "loop"
    /\ UNCHANGED <<ws, pipeVars, runs, unheard, gap, now>>

(* shutdown.changed(): a final flush, if there is something to flush, and    *)
(* the loop ends.                                                            *)
FinalFlush ==
    /\ stage = "loop" /\ shutdown /\ pending # <<>>
    /\ CallProcess(pending)
    /\ pending' = <<>>
    /\ stage' = "flush"
    /\ UNCHANGED <<ws, feed, chan, runs, losses, now>>

FlushReturns ==
    /\ stage = "flush"
    /\ \E outcome \in {"ok", "err"} : CallReturns(outcome)
    /\ stage' = "ended" /\ chan' = <<>>
    /\ UNCHANGED <<ws, feed, pending, runs, losses, now>>

(* Mutant of NothingToFlush: the loop is left only after a flush.            *)
NothingToFlushNoBreak ==
    /\ stage = "loop" /\ shutdown /\ pending = <<>>
    /\ UNCHANGED <<procVars, realVars, now>>

NothingToFlush ==
    /\ stage = "loop" /\ shutdown /\ pending = <<>>
    /\ stage' = "ended" /\ chan' = <<>>
    /\ UNCHANGED <<procVars, ws, feed, pending, runs, losses, now>>
-----------------------------------------------------------------------------
(* Any step inside process_signatures.                                       *)
Process == ProcStep /\ UNCHANGED <<realVars, now>>

Shutdown ==
    /\ stage # "down"
    /\ RequestShutdown
    /\ UNCHANGED <<realVars, now>>

(* Mutant of ApiStops: what the open transaction did stays.                  *)
ApiStopsLeavingWork ==
    /\ shutdown /\ stage \notin {"ended", "down"}
    /\ stage' = "ended"
    /\ IF pc = "sigs" THEN txs' = work.txs /\ calls' = work.calls
                      ELSE UNCHANGED <<txs, calls>>
    /\ pc' = "idle" /\ todo' = <<>> /\ left' = 0 /\ work' = NoWork /\ handed' = {}
    /\ chan' = <<>> /\ pending' = <<>>
    /\ UNCHANGED <<accs, lastSig, lastSlot, shutdown, skipped, ws, feed, runs,
                   losses, now>>

(* The API server has stopped: main returns, and the indexer task is dropped *)
(* where it stands, its open transaction rolled back.                        *)
ApiStops ==
    /\ shutdown /\ stage \notin {"ended", "down"}
    /\ stage' = "ended"
    /\ pc' = "idle" /\ todo' = <<>> /\ left' = 0 /\ work' = NoWork /\ handed' = {}
    /\ chan' = <<>> /\ pending' = <<>>
    /\ UNCHANGED <<dbVars, shutdown, skipped, ws, feed, runs, losses, now>>

ProcessGone ==
    /\ ProcessLost
    /\ stage' = "down" /\ ws' = "off"
    /\ feed' = <<>> /\ chan' = <<>> /\ pending' = <<>>
    /\ UNCHANGED <<runs, losses, now>>

(* main has returned; the runtime waits for the WebSocket thread.            *)
Exit == stage = "ended" /\ ws \in {"off", "dead"} /\ ProcessGone

Crash == Fault("crash") /\ stage # "down" /\ ProcessGone

Restart ==
    /\ stage = "down" /\ runs < MaxRuns
    /\ runs' = runs + 1
    /\ stage' = "boot"
    /\ UNCHANGED <<procVars, ws, pipeVars, losses, now>>

(* A block is confirmed; its signatures are announced to a subscription.     *)
(* What is confirmed before the process lists what it missed is in that list.*)
Confirm ==
    LET new == Block(now + 1) IN
    /\ SlotConfirmed
    /\ feed' = IF ws = "subscribed" THEN feed \o new ELSE feed
    /\ gap' = IF ws \in {"draining", "retry"} THEN gap \cup Range(new) ELSE gap
    /\ unheard' = IF stage = "backfill" \/ ws = "first" THEN unheard \cup Range(new)
                                                        ELSE unheard
    /\ UNCHANGED <<procVars, stage, ws, chan, pending, runs, dropped>>

IndexerStep ==
    \/ NoCheckpoint \/ NothingMissed \/ Backfill \/ BootFails \/ BackfillReturns
    \/ Receive \/ ReceiveLast \/ Tick \/ BatchReturns
    \/ FinalFlush \/ FlushReturns \/ NothingToFlush
    \/ Process

ThreadStep == Forward \/ Drained \/ ThreadEnds

Next ==
    \/ IndexerStep \/ ThreadStep \/ Subscribe \/ WsDrops
    \/ Shutdown \/ ApiStops \/ Exit \/ Crash \/ Restart \/ Confirm

(* The indexer task and the thread are scheduled and their calls return; a   *)
(* process that has nothing to wait for exits.  Whether a connection can be  *)
(* made, signals, crashes and the chain are the environment's.               *)
Spec ==
    /\ Init /\ [][Next]_vars
    /\ WF_vars(IndexerStep) /\ WF_vars(ThreadStep) /\ WF_vars(Exit)
=============================================================================
