----------------------------- MODULE IndexStore -----------------------------
(* What the database promises its readers, whatever the indexer does inside  *)
(* a batch: transactions become visible together with all their instruction  *)
(* rows and with a checkpoint that names one of them, or not at all.  The    *)
(* slot mark may besides be moved on its own, by the slot-range job.         *)
EXTENDS Integers, FiniteSets

CONSTANTS
    Sig,      \* signatures
    SlotOf,   \* the slot of a signature
    TablesOf, \* the instruction tables a transaction has calls for
    SlotMark, \* the slots a checkpoint may name
    None      \* no checkpoint

VARIABLES
    stored,   \* signatures with a row in "transactions"
    rows,     \* <<signature, table>> with a row in that ix_* table
    sigMark,  \* indexer_state 'last_indexed_sig'
    slotMark  \* indexer_state 'last_indexed_slot'

storeVars == <<stored, rows, sigMark, slotMark>>

RowsOf(S) == UNION {{s} \X TablesOf[s] : s \in S}

StoreInit ==
    /\ stored = {} /\ rows = {}
    /\ sigMark = None /\ slotMark = None

(* Mutant of CommitBatch: the call rows are left to another transaction.     *)
CommitWithoutRows(S, last) ==
    /\ stored' = stored \cup S
    /\ rows' \in {rows, rows \cup RowsOf(S)}
    /\ sigMark' = last
    /\ slotMark' = SlotOf[last]

(* Mutant of CommitBatch: the checkpoint is ahead of its transaction.        *)
CommitButLast(S, last) ==
    /\ stored' = stored \cup (S \ {last})
    /\ rows' = rows \cup RowsOf(S \ {last})
    /\ sigMark' = last
    /\ slotMark' = SlotOf[last]

(* One database transaction of process_and_commit: some signatures, possibly *)
(* stored before, with their rows, and the mark on one of them.              *)
CommitBatch(S, last) ==
    /\ stored' = stored \cup S
    /\ rows' = rows \cup RowsOf(S)
    /\ sigMark' = last
    /\ slotMark' = SlotOf[last]

(* save_slot_checkpoint_direct.                                              *)
SaveSlot(n) ==
    /\ slotMark' = n
    /\ UNCHANGED <<stored, rows, sigMark>>

StoreNext ==
    \/ \E S \in SUBSET Sig : \E last \in S : CommitBatch(S, last)
    \/ \E n \in SlotMark : SaveSlot(n)

StoreSpec == StoreInit /\ [][StoreNext]_storeVars
=============================================================================
