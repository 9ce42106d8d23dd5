----------------------------- MODULE MCProcessor -----------------------------
(* A small chain for the Processor: two transactions share slot 1; t1 calls  *)
(* the same instruction twice, t2 has no decodable call, t3 uses both        *)
(* tables.                                                                   *)
EXTENDS ProcessorSpec, TLC

CONSTANTS t1, t2, t3, swap, stake, acc

MCChain == <<t1, t2, t3>>
MCSlotOf == t1 :> 1 @@ t2 :> 1 @@ t3 :> 2
MCUpTo == 0 :> 0 @@ 1 :> 2 @@ 2 :> 3

Call1(t, a) == [table |-> t, accounts |-> a]
MCCalls == t1 :> <<Call1(swap, {acc}), Call1(swap, {})>>
           @@ t2 :> <<>>
           @@ t3 :> <<Call1(stake, {acc}), Call1(swap, {})>>

MCWorkloads == {<<t1, t2, t3>>, <<t3, t1>>}
=============================================================================
