----------------------------- MODULE MCRealtime -----------------------------
(* Realtime mode over four slots: t1 is there before the first start, t2 and *)
(* t3 share a slot.  A batch holds two signatures, the channel one.          *)
EXTENDS RealtimeProperties, TLC

CONSTANTS t1, t2, t3, t4, t5

MCChain == <<t1, t2, t3, t4, t5>>
MCSlotOf == t1 :> 1 @@ t2 :> 2 @@ t3 :> 2 @@ t4 :> 3 @@ t5 :> 4
MCUpTo == 0 :> 0 @@ 1 :> 1 @@ 2 :> 3 @@ 3 :> 4 @@ 4 :> 5
MCCalls == [s \in Sig |-> <<>>]
=============================================================================
