------------------------------- MODULE MCBatch -------------------------------
(* Batch mode over three slots: t1 alone in slot 1, t2 and t3 in slot 2, t4  *)
(* in slot 3, which is confirmed late.  With chunks of two the second slot   *)
(* is split over two commits.                                                *)
EXTENDS BatchProperties, TLC

CONSTANTS t1, t2, t3, t4, swap

MCChain == <<t1, t2, t3, t4>>
MCSlotOf == t1 :> 1 @@ t2 :> 2 @@ t3 :> 2 @@ t4 :> 3
MCUpTo == 0 :> 0 @@ 1 :> 1 @@ 2 :> 3 @@ 3 :> 4
MCCalls == [s \in Sig |-> IF s = t1 THEN <<[table |-> swap, accounts |-> {}]>>
                                    ELSE <<>>]

SlotRange(a, b) == [sigs |-> <<>>, start |-> a, end |-> b]
List(q) == [sigs |-> q, start |-> None, end |-> None]
Latest == List(<<>>)

MCJobs == {SlotRange(1, 3), List(<<t4, t2>>), Latest}
MCOneJob == {SlotRange(1, 3)}
MCTwoRanges == {SlotRange(1, 2), SlotRange(3, 3)}
=============================================================================
