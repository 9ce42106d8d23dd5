----------------------------- MODULE MCStartup -----------------------------
(* An IDL, the same with a changed type and a new field, one whose names     *)
(* clash with each other and with a column of every table, and deployments   *)
(* that cannot be loaded.  buyV2 and buy_v2 become one table.                *)
EXTENDS Startup, TLC

MCTableOf == [ix  |-> "buyV2" :> "ix_buy_v2" @@ "buy_v2" :> "ix_buy_v2"
                      @@ "Pool" :> "ix_pool",
              acc |-> "buyV2" :> "acc_buy_v2" @@ "buy_v2" :> "acc_buy_v2"
                      @@ "Pool" :> "acc_pool"]
MCTables == UNION {{MCTableOf[k][n] : n \in DOMAIN MCTableOf[k]} : k \in Kind}

MCColumnOf == "maxCost" :> "max_cost" @@ "max_cost" :> "max_cost"
              @@ "slot" :> "slot" @@ "data" :> "f_data"
MCColumns == {"max_cost", "slot", "f_data"}

MCTypeOf == "u64" :> "BIGINT" @@ "i64" :> "BIGINT" @@ "string" :> "TEXT"
(* A number can be put into either column, a text only into one of TEXT.     *)
MCTakenBy == "BIGINT" :> {"BIGINT", "TEXT"} @@ "TEXT" :> {"TEXT"}
MCOwnType == [ix |-> "slot" :> "BIGINT", acc |-> "slot" :> "BIGINT"]

F(name, type) == [name |-> name, type |-> type]
E(kind, name, fields) == [kind |-> kind, name |-> name, fields |-> fields]

Serve(entries) == [configured |-> TRUE, idl |-> TRUE, source |-> "onchain",
                   address |-> "none", entries |-> entries]

First == Serve(<<E("ix", "buyV2", <<F("maxCost", "u64")>>),
                 E("ix", "Pool", NoFields),
                 E("acc", "Pool", <<F("data", "u64")>>)>>)
Changed == Serve(<<E("ix", "buyV2", <<F("maxCost", "string"), F("data", "u64")>>),
                   E("acc", "Pool", <<>>)>>)
Clashing == Serve(<<E("ix", "buy_v2", <<F("max_cost", "i64"), F("maxCost", "u64")>>)>>)
OwnName == Serve(<<E("acc", "Pool", <<F("slot", "string")>>),
                   E("ix", "buyV2", <<>>), E("ix", "buy_v2", <<F("slot", "u64")>>)>>)
OtherProgram == [First EXCEPT !.address = "other"]
OtherFile == [OtherProgram EXCEPT !.source = "file"]
Unset == [First EXCEPT !.configured = FALSE]
Missing == [First EXCEPT !.idl = FALSE]

MCDeployments == {First, Changed, Clashing, OwnName, OtherProgram, OtherFile,
                  Unset, Missing}
MCUpgrade == {First, Changed}
=============================================================================
