------------------------------ MODULE Processor ------------------------------
(* Processor of src/indexer/processor.rs: process_signatures splits a list   *)
(* of signatures into chunks, process_and_commit turns one chunk into one    *)
(* database transaction over "transactions", the ix_* and acc_* tables and   *)
(* the two checkpoint rows of indexer_state.                                 *)
(*                                                                           *)
(* PostgreSQL is modelled by its committed tables and by `work', the effects *)
(* of the open transaction.  A statement that fails leaves the transaction   *)
(* aborted: every later statement fails, whatever the code did with the      *)
(* first error.                                                              *)
EXTENDS Ledger, FiniteSets, Functions

CONSTANTS
    BatchSize,    \* BATCH_SIZE
    Table,        \* the ix_* tables generated from the IDL
    Addr,         \* the program's accounts that have an acc_* table
    Calls,        \* Calls[s]: the decoded calls of s, [table, accounts]
    Faults,       \* the faults the environment may inject
    None          \* no checkpoint row

FaultNames == {"fetch",   \* a transaction cannot be read (Unreadable)
               "ix",      \* an ix_* row is refused by PostgreSQL
               "account", \* an acc_* row is refused, or its RPC fails
               "db",      \* begin or a statement fails
               "commit",  \* the connection breaks around COMMIT
               "block",   \* getBlock fails after its retries
               "page",    \* getSignaturesForAddress fails
               "read",    \* the checkpoint cannot be read
               "ws",      \* the WebSocket connection breaks
               "shutdown", "crash"}

ProcessorAssumption ==
    /\ BatchSize \in Nat \ {0}
    /\ Calls \in [Sig -> Seq([table : Table, accounts : SUBSET Addr])]
    /\ Faults \subseteq FaultNames
    /\ None \notin Sig /\ None \notin Int

ASSUME ProcessorParameters == ProcessorAssumption

VARIABLES
    \* committed in PostgreSQL
    txs,       \* signatures in "transactions"
    calls,     \* <<s, i>>: call i of s has the row of its ix_* table
    accs,      \* acc_* rows, [addr, slot, asOf]; asOf: the slot of the data
    lastSig,   \* indexer_state 'last_indexed_sig'
    lastSlot,  \* indexer_state 'last_indexed_slot'
    \* the process
    shutdown,  \* the watch channel of main.rs
    pc,        \* where the call of process_signatures stands
    todo,      \* signatures not yet taken by it, or by the call that ended
    left,      \* how many of them belong to the chunk being processed
    work,      \* the open database transaction and the chunk's local variables
    \* history
    handed,    \* the signatures of the call
    skipped    \* signatures a committed chunk left out: fetching them failed

dbVars   == <<txs, calls, accs, lastSig, lastSlot>>
callVars == <<pc, todo, left, work>>
procVars == <<dbVars, shutdown, callVars, handed, skipped>>

NoWork == [txs |-> {}, calls |-> {}, accs |-> {}, touched |-> {},
           skipped |-> {}, last |-> None, aborted |-> FALSE]

ProcInit ==
    /\ txs = {} /\ calls = {} /\ accs = {}
    /\ lastSig = None /\ lastSlot = None
    /\ shutdown = FALSE
    /\ pc = "idle" /\ todo = <<>> /\ left = 0 /\ work = NoWork
    /\ handed = {} /\ skipped = {}

Fault(name) == name \in Faults
-----------------------------------------------------------------------------
(* Mutant of NewCallRows: tx_sig is not UNIQUE.                              *)
NewCallRowsNotUnique(s, rows) == {<<s, i>> : i \in DOMAIN Calls[s]}

(* The rows of s that upsert_ix_typed adds to `rows': per table the first    *)
(* call only, and none when the table has a row of s already, because tx_sig *)
(* is UNIQUE and the insert says ON CONFLICT DO NOTHING.                     *)
NewCallRows(s, rows) ==
    LET Holds(i, t) == Calls[s][i].table = t
        Free(i) == /\ \A j \in 1..(i - 1) : ~Holds(j, Calls[s][i].table)
                   /\ \A r \in rows : r[1] = s => ~Holds(r[2], Calls[s][i].table)
    IN  {<<s, i>> : i \in {k \in DOMAIN Calls[s] : Free(k)}}

(* The addresses s adds for fetch_and_store_accounts, labelled with its      *)
(* slot; an address keeps the label it got first (HashMap::or_insert).       *)
NewAddrs(s, touched) ==
    {[addr |-> a, slot |-> SlotOf[s]] :
        a \in {x \in Addr : /\ \E i \in DOMAIN Calls[s] : x \in Calls[s][i].accounts
                            /\ \A t \in touched : t.addr # x}}

(* upsert_account_typed for every address: ON CONFLICT (address, slot)       *)
(* replaces the data, here by what the accounts were in slot `at'.           *)
UpsertAccounts(rows, found, at) ==
    {r \in rows : \A t \in found : ~(t.addr = r.addr /\ t.slot = r.slot)}
        \cup {[addr |-> t.addr, slot |-> t.slot, asOf |-> at] : t \in found}

Return(outcome) ==
    /\ pc' = outcome
    /\ left' = 0 /\ work' = NoWork
-----------------------------------------------------------------------------
(* A caller passes the signatures q.                                         *)
CallProcess(q) ==
    /\ pc = "idle"
    /\ pc' = "loop" /\ todo' = q /\ handed' = Range(q)
    /\ UNCHANGED <<dbVars, shutdown, left, work, skipped>>

(* The caller takes the result; what was not taken from the list is its      *)
(* loss.                                                                     *)
CallReturns(outcome) ==
    /\ pc = outcome
    /\ pc' = "idle"
    /\ UNCHANGED <<dbVars, shutdown, todo, left, work, handed, skipped>>

(* Mutant of LeaveLoop: chunks_exact in place of chunks.                     *)
LeaveLoopBeforeRest ==
    /\ pc = "loop"
    /\ Len(todo) < BatchSize \/ shutdown
    /\ Return("ok")
    /\ UNCHANGED <<dbVars, shutdown, todo, handed, skipped>>

(* The for loop of process_signatures ends, or breaks on shutdown: both      *)
(* return Ok.                                                                *)
LeaveLoop ==
    /\ pc = "loop"
    /\ todo = <<>> \/ shutdown
    /\ Return("ok")
    /\ UNCHANGED <<dbVars, shutdown, todo, handed, skipped>>

(* Mutant of BeginChunk: a chunk is always BatchSize long.                   *)
BeginFullChunk ==
    /\ pc = "loop" /\ todo # <<>> /\ ~shutdown
    /\ pc' = "sigs"
    /\ left' = BatchSize
    /\ work' = [NoWork EXCEPT !.txs = txs, !.calls = calls, !.accs = accs]
    /\ UNCHANGED <<dbVars, shutdown, todo, handed, skipped>>

(* process_and_commit: BEGIN.                                                *)
BeginChunk ==
    /\ pc = "loop" /\ todo # <<>> /\ ~shutdown
    /\ pc' = "sigs"
    /\ left' = IF BatchSize < Len(todo) THEN BatchSize ELSE Len(todo)
    /\ work' = [NoWork EXCEPT !.txs = txs, !.calls = calls, !.accs = accs]
    /\ UNCHANGED <<dbVars, shutdown, todo, handed, skipped>>

(* BEGIN fails: `?' returns the error.                                       *)
BeginFails ==
    /\ Fault("db")
    /\ pc = "loop" /\ todo # <<>> /\ ~shutdown
    /\ Return("err")
    /\ UNCHANGED <<dbVars, shutdown, todo, handed, skipped>>

TakeSig ==
    /\ pc = "sigs" /\ left > 0
    /\ todo' = Tail(todo) /\ left' = left - 1

(* get_transaction fails for good, or normalise_tx gives None: no meta, an   *)
(* encoding it does not take, bytes it cannot parse.                         *)
Unreadable(s) == Fault("fetch") \/ ~OnChain(s)

(* Mutant of SkipTx: a transaction that cannot be fetched is tried for ever. *)
SkipTxNever ==
    /\ pc = "sigs" /\ left > 0
    /\ Unreadable(Head(todo))
    /\ UNCHANGED <<dbVars, shutdown, callVars, handed, skipped>>

(* warn and `continue'.                                                      *)
SkipTx ==
    /\ TakeSig
    /\ Unreadable(Head(todo))
    /\ work' = [work EXCEPT !.skipped = @ \cup {Head(todo)}]
    /\ UNCHANGED <<dbVars, shutdown, pc, handed, skipped>>

(* Mutant of IndexTx: a refused call row leaves the rest of the chunk alone, *)
(* as with a savepoint around the insert.                                    *)
IndexTxWithoutAbort ==
    LET s == Head(todo) IN
    /\ TakeSig
    /\ OnChain(s)
    /\ \E refused \in BOOLEAN :
         /\ refused => Fault("ix") /\ Calls[s] # <<>>
         /\ work' = [work EXCEPT
                        !.txs = @ \cup {s},
                        !.calls = @ \cup IF refused THEN {} ELSE NewCallRows(s, @),
                        !.touched = @ \cup NewAddrs(s, @),
                        !.last = s]
    /\ UNCHANGED <<dbVars, shutdown, pc, handed, skipped>>

(* Mutant of IndexTx: upsert_transaction runs on the pool, outside the       *)
(* database transaction.                                                     *)
IndexTxOutsideChunk ==
    LET s == Head(todo) IN
    /\ TakeSig
    /\ OnChain(s)
    /\ txs' = txs \cup {s}
    /\ work' = [work EXCEPT !.txs = @ \cup {s},
                            !.calls = @ \cup NewCallRows(s, @),
                            !.touched = @ \cup NewAddrs(s, @),
                            !.last = s]
    /\ UNCHANGED <<calls, accs, lastSig, lastSlot, shutdown, pc, handed, skipped>>

(* The transaction is fetched and stored, each decoded call is inserted.     *)
(* `refused' says that PostgreSQL refused one of the call rows: the code     *)
(* warns and goes on, in an aborted transaction.                             *)
IndexTx ==
    LET s == Head(todo) IN
    /\ TakeSig
    /\ OnChain(s)
    /\ ~work.aborted
    /\ \E refused \in BOOLEAN :
         /\ refused => Fault("ix") /\ Calls[s] # <<>>
         /\ work' = [work EXCEPT
                        !.txs = @ \cup {s},
                        !.calls = @ \cup IF refused THEN {} ELSE NewCallRows(s, @),
                        !.touched = @ \cup NewAddrs(s, @),
                        !.last = s,
                        !.aborted = refused]
    /\ UNCHANGED <<dbVars, shutdown, pc, handed, skipped>>

(* upsert_transaction fails, as it must in an aborted transaction: `?'       *)
(* returns the error and the transaction is rolled back.                     *)
StoreTxFails ==
    /\ pc = "sigs" /\ left > 0
    /\ OnChain(Head(todo))
    /\ work.aborted \/ Fault("db")
    /\ Return("err")
    /\ UNCHANGED <<dbVars, shutdown, todo, handed, skipped>>

(* Mutant of StoreAccounts: the rows are written on the pool.                *)
StoreAccountsOutsideChunk ==
    /\ pc = "sigs" /\ left = 0
    /\ accs' = UpsertAccounts(accs, work.touched, now)
    /\ work' = [work EXCEPT !.accs = UpsertAccounts(@, work.touched, now)]
    /\ pc' = "checkpoint"
    /\ UNCHANGED <<txs, calls, lastSig, lastSlot, shutdown, todo, left, handed, skipped>>

(* fetch_and_store_accounts, once per chunk.  Every touched account that     *)
(* exists (`found') gets a row.  getMultipleAccounts is asked with the       *)
(* client's default commitment, so it answers for a finalized slot `at',     *)
(* anywhere behind the confirmed one.                                        *)
StoreAccounts ==
    /\ pc = "sigs" /\ left = 0
    /\ \E found \in SUBSET work.touched, at \in 0..now :
         work' = IF work.aborted THEN work
                 ELSE [work EXCEPT !.accs = UpsertAccounts(@, found, at)]
    /\ pc' = "checkpoint"
    /\ UNCHANGED <<dbVars, shutdown, todo, left, handed, skipped>>

(* It fails and the error is only logged: the RPC gave nothing, or           *)
(* PostgreSQL refused a row and the transaction is aborted.                  *)
StoreAccountsFails ==
    /\ Fault("account")
    /\ pc = "sigs" /\ left = 0
    /\ work.touched # {}
    /\ \E refused \in BOOLEAN : work' = [work EXCEPT !.aborted = @ \/ refused]
    /\ pc' = "checkpoint"
    /\ UNCHANGED <<dbVars, shutdown, todo, left, handed, skipped>>

(* What COMMIT makes visible: the checkpoint rows were upserted when the     *)
(* chunk handled at least one signature.                                     *)
ApplyWork ==
    /\ txs' = work.txs /\ calls' = work.calls /\ accs' = work.accs
    /\ lastSig' = IF work.last = None THEN lastSig ELSE work.last
    /\ lastSlot' = IF work.last = None THEN lastSlot ELSE SlotOf[work.last]
    /\ skipped' = skipped \cup work.skipped

Commit ==
    /\ pc = "checkpoint" /\ ~work.aborted
    /\ ApplyWork
    /\ pc' = "loop" /\ left' = 0 /\ work' = NoWork
    /\ UNCHANGED <<shutdown, todo, handed>>

(* upsert_checkpoint fails, as it must in an aborted transaction.            *)
CheckpointFails ==
    /\ pc = "checkpoint" /\ work.last # None
    /\ work.aborted \/ Fault("db")
    /\ Return("err")
    /\ UNCHANGED <<dbVars, shutdown, todo, handed, skipped>>

(* Mutant of CommitFails: the checkpoint rows are written on the pool, so    *)
(* they stay when the transaction is rolled back.                            *)
CommitFailsAfterCheckpoint ==
    /\ Fault("commit")
    /\ pc = "checkpoint" /\ ~work.aborted
    /\ work.last # None
    /\ lastSig' = work.last /\ lastSlot' = SlotOf[work.last]
    /\ Return("err")
    /\ UNCHANGED <<txs, calls, accs, shutdown, todo, handed, skipped>>

(* COMMIT fails: before the server applied it, or after, with only the       *)
(* answer lost.                                                              *)
CommitFails ==
    /\ Fault("commit")
    /\ pc = "checkpoint" /\ ~work.aborted
    /\ ApplyWork \/ UNCHANGED <<dbVars, skipped>>
    /\ Return("err")
    /\ UNCHANGED <<shutdown, todo, handed>>

ProcStep ==
    \/ LeaveLoop \/ BeginChunk \/ BeginFails
    \/ SkipTx \/ IndexTx \/ StoreTxFails
    \/ StoreAccounts \/ StoreAccountsFails
    \/ Commit \/ CheckpointFails \/ CommitFails
-----------------------------------------------------------------------------
(* The signal task of main.rs.                                               *)
RequestShutdown ==
    /\ Fault("shutdown") /\ ~shutdown
    /\ shutdown' = TRUE
    /\ UNCHANGED <<dbVars, callVars, handed, skipped>>

(* The process dies and a new one starts with the committed tables only.     *)
ProcessLost ==
    /\ shutdown' = FALSE
    /\ pc' = "idle" /\ todo' = <<>> /\ left' = 0 /\ work' = NoWork
    /\ handed' = {}
    /\ UNCHANGED <<dbVars, skipped>>
-----------------------------------------------------------------------------
(* What the Processor keeps true, whoever calls it.                          *)
AccRow == [addr : Addr, slot : Slot, asOf : 0..MaxSlot]

WorkType ==
    [txs : SUBSET Sig, calls : SUBSET (Sig \X Nat), accs : SUBSET AccRow,
     touched : SUBSET [addr : Addr, slot : Slot], skipped : SUBSET Sig,
     last : Sig \cup {None}, aborted : BOOLEAN]

(* The types of the variables; what remains of a chunk is a prefix of what   *)
(* remains of the list (chunks() never runs past the end).                   *)
ProcTypeOK ==
    /\ txs \subseteq Sig
    /\ calls \subseteq Sig \X Nat
    /\ accs \subseteq AccRow
    /\ lastSig \in Sig \cup {None}
    /\ lastSlot \in Slot \cup {None}
    /\ shutdown \in BOOLEAN
    /\ pc \in {"idle", "loop", "sigs", "checkpoint", "ok", "err"}
    /\ todo \in Seq(Sig)
    /\ left \in 0..Len(todo)
    /\ work \in WorkType
    /\ handed \subseteq Sig /\ skipped \subseteq Sig
    /\ now \in 0..MaxSlot

(* `rows' holds a row for every table that a transaction of S has a call for.*)
Complete(S, rows) ==
    \A s \in S : \A i \in DOMAIN Calls[s] :
        \E j \in DOMAIN Calls[s] : /\ Calls[s][j].table = Calls[s][i].table
                                  /\ <<s, j>> \in rows

(* Errors of upsert_ix_typed are swallowed (processor.rs:159), yet a visible *)
(* transaction has a row in every instruction table it has a call for: the   *)
(* failed statement dooms the whole chunk.                                   *)
StoredTxHasItsCalls == Complete(txs, calls)

OneRow(rows) ==
    \A r, q \in rows :
        r[1] = q[1] /\ Calls[r[1]][r[2]].table = Calls[q[1]][q[2]].table => r = q

(* An ix_* table never holds two rows of one transaction, however often the  *)
(* transaction is handed in again.                                           *)
OneRowPerTable == OneRow(calls)

(* The signature checkpoint names a stored transaction, however commits,     *)
(* lost commit answers, crashes and jobs interleave; without one nothing is  *)
(* stored.                                                                   *)
SigMarkBacked ==
    /\ lastSig # None => lastSig \in txs
    /\ lastSig = None => txs = {}

(* When process_signatures says Ok, every signature it was given is stored,  *)
(* was skipped because it could not be fetched, or is in the rest that a     *)
(* shutdown cut off.                                                         *)
OkMeansIndexed ==
    pc = "ok" =>
        /\ handed \subseteq txs \cup skipped \cup Range(todo)
        /\ todo # <<>> => shutdown

TablesOf == [s \in Sig |-> {Calls[s][i].table : i \in DOMAIN Calls[s]}]

(* The rows of the ix_* tables as a reader sees them.                        *)
CallRows == {<<r[1], Calls[r[1]][r[2]].table>> : r \in calls}

Store == INSTANCE IndexStore WITH
    stored   <- txs,
    rows     <- CallRows,
    sigMark  <- lastSig,
    slotMark <- lastSlot,
    SlotMark <- Slot
-----------------------------------------------------------------------------
(* The strengthening of the above that is inductive: what the open           *)
(* transaction holds at each point of a call.                                *)
InChunk == pc \in {"sigs", "checkpoint"}

(* The open transaction is the committed state and the chunk so far.         *)
WorkExtends ==
    /\ ~InChunk => work = NoWork
    /\ left # 0 => pc = "sigs"
    /\ InChunk =>
         /\ txs \subseteq work.txs /\ calls \subseteq work.calls
         /\ work.last = None => work.txs = txs /\ work.calls = calls
         /\ work.last # None => work.last \in work.txs

(* Call rows name stored transactions and calls they have.                   *)
CallsOf(S, rows) == \A r \in rows : r[1] \in S /\ r[2] \in DOMAIN Calls[r[1]]

CallsConsistent ==
    /\ CallsOf(txs, calls) /\ StoredTxHasItsCalls
    /\ InChunk /\ ~work.aborted =>
         CallsOf(work.txs, work.calls) /\ Complete(work.txs, work.calls)

(* No signature of the call is forgotten between two steps.                  *)
HandedKept ==
    /\ pc \in {"loop", "ok"} => handed \subseteq txs \cup skipped \cup Range(todo)
    /\ InChunk => handed \subseteq work.txs \cup work.skipped \cup skipped \cup Range(todo)
    /\ pc = "ok" /\ todo # <<>> => shutdown

ProcInv ==
    ProcTypeOK /\ WorkExtends /\ CallsConsistent /\ HandedKept /\ SigMarkBacked
=============================================================================
