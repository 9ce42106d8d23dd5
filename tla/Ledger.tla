------------------------------- MODULE Ledger -------------------------------
(* The Solana chain as the indexer sees it through JSON-RPC: the sequence of *)
(* transactions that mention the indexed program, in ledger order, and the   *)
(* highest slot the RPC node serves.  External: nothing here is code of the  *)
(* repository; it is what rpc.rs assumes of getBlock, getTransaction and     *)
(* getSignaturesForAddress.                                                  *)
EXTENDS Integers, Sequences

CONSTANTS
    Sig,          \* signatures of the program's transactions
    MaxSlot,      \* bound: the last slot of the modelled chain
    InitialSlot,  \* the tip when the indexer is first started
    Chain,        \* all of Sig in ledger order
    SlotOf,       \* the slot of each signature
    UpTo          \* UpTo[n]: how many entries of Chain are in slots 1..n

Slot == 1..MaxSlot

LedgerAssumption ==
    /\ MaxSlot \in Nat \ {0}
    /\ InitialSlot \in 0..MaxSlot
    /\ Chain \in Seq(Sig)
    /\ \A s \in Sig : \E i \in DOMAIN Chain : Chain[i] = s
    /\ \A i, j \in DOMAIN Chain : Chain[i] = Chain[j] => i = j
    /\ SlotOf \in [Sig -> Slot]
    /\ UpTo \in [0..MaxSlot -> 0..Len(Chain)]
    /\ \A m, n \in 0..MaxSlot : m <= n => UpTo[m] <= UpTo[n]
    /\ \A n \in Slot, i \in DOMAIN Chain :
            SlotOf[Chain[i]] = n <=> UpTo[n - 1] < i /\ i <= UpTo[n]

ASSUME LedgerIsConsistent == LedgerAssumption

VARIABLE now      \* the highest slot whose block the node can return

(* The program's transactions of one block, in block order.                  *)
Block(n) == SubSeq(Chain, UpTo[n - 1] + 1, UpTo[n])

(* getTransaction finds a signature once its slot is confirmed.              *)
OnChain(s) == SlotOf[s] <= now

(* getSignaturesForAddress with a limit k: the newest k confirmed            *)
(* signatures, newest first.                                                 *)
NewestFirst(k) ==
    LET n == UpTo[now]
    IN  [i \in 1..(IF k < n THEN k ELSE n) |-> Chain[n - i + 1]]

Pos(s) == CHOOSE i \in DOMAIN Chain : Chain[i] = s

(* The confirmed signatures newer than s, oldest first: what paging back     *)
(* until s and reversing yields.                                             *)
After(s) == SubSeq(Chain, Pos(s) + 1, UpTo[now])

SlotConfirmed ==
    /\ now < MaxSlot
    /\ now' = now + 1
=============================================================================
