----------------------------- MODULE MCApiReads -----------------------------
(* Four transactions, two of them in each slot; t1 and t3 call both          *)
(* instructions and touch the account.                                       *)
EXTENDS ApiReads, TLC

CONSTANTS t1, t2, t3, t4, swap, stake, acc

MCSlotOf == t1 :> 1 @@ t2 :> 1 @@ t3 :> 2 @@ t4 :> 2
MCTablesOf == t1 :> {swap, stake} @@ t2 :> {swap} @@ t3 :> {swap, stake} @@ t4 :> {swap}
MCTouches == t1 :> {acc} @@ t2 :> {} @@ t3 :> {acc} @@ t4 :> {}
=============================================================================
