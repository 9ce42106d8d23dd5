------------------------------ MODULE Startup ------------------------------
(* From the start of the process to the open API: main of src/main.rs reads  *)
(* the configuration (config.rs), the IDL (idl/loader.rs), derives the typed *)
(* tables (idl/schema.rs) and creates what is missing of them, statement by  *)
(* statement (db/mod.rs).  Each statement is a transaction of its own.  Any  *)
(* failure ends the process, and docker-compose starts it again; meanwhile   *)
(* the IDL and the configuration may be changed.                             *)
EXTENDS Integers, Sequences

CONSTANTS
    Deployments,  \* the configurations with their IDLs, see Deployment
    Table,        \* names of typed tables
    TableOf,      \* TableOf[kind][name]: prefix and to_snake_case of a name
    Column,       \* names of columns
    ColumnOf,     \* ColumnOf[name]: sanitize_col of a field's name
    Type,         \* types of columns
    TypeOf,       \* TypeOf[t]: idl_type_to_pg of a field's type
    TakenBy,      \* TakenBy[t]: types of columns that take what is bound for t
    OwnType,      \* OwnType[kind][c]: the type of the column c every table has
    NoFields,     \* an entry whose fields cannot be found
    MaxFailures,  \* bound: how often something fails that may work again
    MaxDeploys    \* bound: how often the deployment changes

Kind == {"ix", "acc"}

(* One instruction or account type of the IDL.                               *)
Entry == [kind : Kind, name : DOMAIN TableOf["ix"],
          fields : Seq([name : DOMAIN ColumnOf, type : DOMAIN TypeOf]) \cup {NoFields}]

(* `configured': the required variables are set; `idl': the file or account  *)
(* is there and parses; `source' with the address the IDL names.             *)
Deployment == [configured : BOOLEAN, idl : BOOLEAN, source : {"file", "onchain"},
               address : {"ours", "other", "none"}, entries : Seq(Entry)]

StartupAssumption ==
    /\ Deployments # {} /\ Deployments \subseteq Deployment
    /\ TableOf \in [Kind -> [DOMAIN TableOf["ix"] -> Table]]
    /\ ColumnOf \in [DOMAIN ColumnOf -> Column]
    /\ TypeOf \in [DOMAIN TypeOf -> Type]
    /\ \A k \in Kind : DOMAIN OwnType[k] \subseteq Column
    /\ \A k \in Kind, c \in Column : c \in DOMAIN OwnType[k] => OwnType[k][c] \in Type
    /\ \A k, l \in Kind : \A m, n \in DOMAIN TableOf["ix"] :
            TableOf[k][m] = TableOf[l][n] => k = l
    /\ TakenBy \in [Type -> SUBSET Type] /\ \A t \in Type : t \in TakenBy[t]
    /\ MaxFailures \in Nat /\ MaxDeploys \in Nat

ASSUME StartupParameters == StartupAssumption

VARIABLES
    deployed, \* the configuration and IDL a start would find
    at,       \* where main stands
    loaded,   \* the deployment this process has read
    left,     \* the entries whose statements are still to be executed
    step,     \* the next statement of the first of them
    columns,  \* <<table, column, type>> in the database
    unique,   \* tables with their unique index
    failures, deploys,
    served    \* history: the deployments whose statements were executed

proc == <<at, loaded, left, step>>
db   == <<columns, unique>>
vars == <<deployed, proc, db, failures, deploys, served>>
-----------------------------------------------------------------------------
(* IdlSchema::from_idl drops the entries whose fields it cannot find.        *)
Listed(d) == {i \in DOMAIN d.entries : d.entries[i].fields # NoFields}

TableName(e) == TableOf[e.kind][e.name]
OwnColumns(e) == DOMAIN OwnType[e.kind]
FieldColumn(e, j) == ColumnOf[e.fields[j].name]
FieldType(e, j) == TypeOf[e.fields[j].type]

Exists(t) == \E c \in columns : c[1] = t
HasColumn(t, c) == \E r \in columns : r[1] = t /\ r[2] = c

(* Two columns of the entry have one name, after sanitize_col.               *)
NamesClash(e) ==
    \E j \in DOMAIN e.fields :
        \/ FieldColumn(e, j) \in OwnColumns(e)
        \/ \E k \in DOMAIN e.fields : j # k /\ FieldColumn(e, j) = FieldColumn(e, k)

(* load_idl: only a file that names another program is turned down.          *)
Loadable(d) ==
    /\ d.configured /\ d.idl
    /\ d.source = "file" => d.address # "other"

Init ==
    /\ deployed \in Deployments
    /\ at = "down" /\ loaded = deployed /\ left = {} /\ step = 0
    /\ columns = {} /\ unique = {}
    /\ failures = 0 /\ deploys = 0 /\ served = {}
-----------------------------------------------------------------------------
(* The process ends, and what it held with it.                               *)
Exit ==
    /\ at' = "down"
    /\ left' = {} /\ step' = 0
    /\ UNCHANGED <<deployed, loaded, db, deploys, served>>

(* The container is started: Config::from_env.                               *)
Boot ==
    /\ at = "down"
    /\ deployed.configured
    /\ at' = "idl"
    /\ UNCHANGED <<deployed, loaded, left, step, db, failures, deploys, served>>

(* Mutant of LoadIdl: an IDL without an address is not accepted.             *)
LoadIdlNeedsAddress ==
    /\ at = "idl" /\ Loadable(deployed) /\ deployed.address = "ours"
    /\ loaded' = deployed
    /\ at' = "connect"
    /\ UNCHANGED <<deployed, left, step, db, failures, deploys, served>>

(* load_idl and from_idl.                                                    *)
LoadIdl ==
    /\ at = "idl" /\ Loadable(deployed)
    /\ loaded' = deployed
    /\ at' = "connect"
    /\ UNCHANGED <<deployed, left, step, db, failures, deploys, served>>

LoadIdlFails ==
    /\ at = "idl" /\ ~Loadable(deployed)
    /\ Exit /\ UNCHANGED failures

(* PgPool::connect and the base migrations.                                  *)
Connect ==
    /\ at = "connect"
    /\ at' = "ddl"
    /\ left' = Listed(loaded) /\ step' = 0
    /\ served' = served \cup {loaded}
    /\ UNCHANGED <<deployed, loaded, db, failures, deploys>>

(* The loop over generate_ddl is at step n of entry i.                       *)
Executes(i, n) ==
    /\ at = "ddl" /\ step = n
    /\ i \in left /\ \A j \in left : i <= j

(* Mutant of Advance: one statement too many.                                *)
AdvanceTooFar(i, n) ==
    /\ IF n <= Len(loaded.entries[i].fields) + 1
       THEN step' = n + 1 /\ left' = left
       ELSE step' = 0 /\ left' = left \ {i}
    /\ UNCHANGED <<deployed, at, loaded, failures, deploys, served>>

(* Step n of entry i is done.                                                *)
Advance(i, n) ==
    /\ IF n <= Len(loaded.entries[i].fields)
       THEN step' = n + 1 /\ left' = left
       ELSE step' = 0 /\ left' = left \ {i}
    /\ UNCHANGED <<deployed, at, loaded, failures, deploys, served>>

AllColumns(e) ==
    {<<TableName(e), c, OwnType[e.kind][c]>> : c \in OwnColumns(e)}
    \cup {<<TableName(e), FieldColumn(e, j), FieldType(e, j)>> : j \in DOMAIN e.fields}

(* Only the table of an account is created with its key.                     *)
PrimaryKey(e) == IF e.kind = "acc" THEN {TableName(e)} ELSE {}

(* Mutant of CreateTable: a table that exists is taken for complete.         *)
CreateTableSkipsRest ==
    \E i \in left :
        LET e == loaded.entries[i] IN
        /\ Executes(i, 0)
        /\ \/ /\ Exists(TableName(e))
              /\ left' = left \ {i}
              /\ UNCHANGED <<deployed, at, loaded, step, db, failures, deploys, served>>
           \/ /\ ~Exists(TableName(e)) /\ ~NamesClash(e)
              /\ columns' = columns \cup AllColumns(e)
              /\ unique' = unique \cup PrimaryKey(e)
              /\ Advance(i, 0)

(* CREATE TABLE IF NOT EXISTS: a table that exists is not looked at.         *)
CreateTable ==
    \E i \in left :
        LET e == loaded.entries[i] IN
        /\ Executes(i, 0)
        /\ \/ Exists(TableName(e)) /\ UNCHANGED db
           \/ /\ ~Exists(TableName(e)) /\ ~NamesClash(e)
              /\ columns' = columns \cup AllColumns(e)
              /\ unique' = unique \cup PrimaryKey(e)
        /\ Advance(i, 0)

(* A column is named twice: PostgreSQL refuses, main returns the error.      *)
CreateTableRefused ==
    \E i \in left :
        LET e == loaded.entries[i] IN
        /\ Executes(i, 0)
        /\ ~Exists(TableName(e)) /\ NamesClash(e)
        /\ Exit /\ UNCHANGED failures

(* The indexes, of which an instruction's table needs the one on tx_sig for  *)
(* its ON CONFLICT.                                                          *)
CreateIndex ==
    \E i \in left :
        LET e == loaded.entries[i] IN
        /\ Executes(i, 1)
        /\ unique' = unique \cup (IF e.kind = "ix" THEN {TableName(e)} ELSE {})
        /\ Advance(i, 1)
        /\ UNCHANGED columns

(* Mutant of AddColumn: every column gets the type of the first field.       *)
AddColumnFirstType ==
    \E i \in left :
        LET e == loaded.entries[i]
            j == step - 1 IN
        /\ Executes(i, step) /\ j \in DOMAIN e.fields
        /\ \/ HasColumn(TableName(e), FieldColumn(e, j)) /\ UNCHANGED columns
           \/ /\ ~HasColumn(TableName(e), FieldColumn(e, j))
              /\ columns' = columns
                    \cup {<<TableName(e), FieldColumn(e, j), FieldType(e, 1)>>}
        /\ Advance(i, step)
        /\ UNCHANGED unique

(* ALTER TABLE ... ADD COLUMN IF NOT EXISTS, field by field: a column that   *)
(* exists keeps its type.                                                    *)
AddColumn ==
    \E i \in left :
        LET e == loaded.entries[i]
            j == step - 1 IN
        /\ Executes(i, step) /\ j \in DOMAIN e.fields
        /\ \/ HasColumn(TableName(e), FieldColumn(e, j)) /\ UNCHANGED columns
           \/ /\ ~HasColumn(TableName(e), FieldColumn(e, j))
              /\ columns' = columns
                    \cup {<<TableName(e), FieldColumn(e, j), FieldType(e, j)>>}
        /\ Advance(i, step)
        /\ UNCHANGED unique

(* Processor::new, the API's listener, the indexer task.                     *)
Listen ==
    /\ at = "ddl" /\ left = {}
    /\ at' = "up"
    /\ UNCHANGED <<deployed, loaded, left, step, db, failures, deploys, served>>

(* The node, the database or the port fails, or the process dies.            *)
Fail ==
    /\ failures < MaxFailures
    /\ at # "down"
    /\ failures' = failures + 1
    /\ Exit

(* The program is upgraded or the configuration corrected.                   *)
Deploy ==
    /\ deploys < MaxDeploys
    /\ deploys' = deploys + 1
    /\ deployed' \in Deployments
    /\ UNCHANGED <<proc, db, failures, served>>

Start ==
    \/ Boot \/ LoadIdl \/ LoadIdlFails \/ Connect
    \/ CreateTable \/ CreateTableRefused \/ CreateIndex \/ AddColumn
    \/ Listen

Next == Start \/ Fail \/ Deploy

(* The process runs on, and docker-compose restarts it (unless-stopped).     *)
Spec == Init /\ [][Next]_vars /\ WF_vars(Start)
-----------------------------------------------------------------------------
(* Types; the loop stays within the statements of the entry.                 *)
TypeOK ==
    /\ deployed \in Deployments /\ loaded \in Deployments
    /\ at \in {"down", "idl", "connect", "ddl", "up"}
    /\ left \subseteq Listed(loaded)
    /\ step \in Nat
    /\ \A i \in left : Executes(i, step) => step <= Len(loaded.entries[i].fields) + 1
    /\ columns \subseteq Table \X Column \X Type
    /\ unique \subseteq Table
    /\ served \subseteq Deployments

(* When the API opens, every entry of the IDL has its table with all its     *)
(* columns and the unique index that ON CONFLICT needs, wherever the start,  *)
(* or an earlier one with another IDL, was cut off.                          *)
UpFitsSchema ==
    at = "up" => \A i \in Listed(loaded) :
        LET e == loaded.entries[i] IN
        /\ TableName(e) \in unique
        /\ \A c \in OwnColumns(e) : <<TableName(e), c, OwnType[e.kind][c]>> \in columns
        /\ \A j \in DOMAIN e.fields : HasColumn(TableName(e), FieldColumn(e, j))

(* The column of field j has the type the IDL gives it.                      *)
TypeFits(e, j) == <<TableName(e), FieldColumn(e, j), FieldType(e, j)>> \in columns

(* An IDL that was served gave that column of the table another type.        *)
OnceOtherType(e, j) ==
    \E d \in served : \E i \in Listed(d) :
        LET f == d.entries[i] IN
        /\ TableName(f) = TableName(e)
        /\ \E k \in DOMAIN f.fields : /\ FieldColumn(f, k) = FieldColumn(e, j)
                                     /\ FieldType(f, k) # FieldType(e, j)

(* While the indexer works, the INSERT of an entry's rows fits its table,    *)
(* but for two reasons: two of its columns have one name, or a column has    *)
(* the type of another entry or of an earlier IDL (schema.rs:138).           *)
RowsFitOrCause ==
    at = "up" => \A i \in Listed(loaded) :
        LET e == loaded.entries[i] IN
        \/ NamesClash(e)
        \/ \A j \in DOMAIN e.fields : TypeFits(e, j) \/ OnceOtherType(e, j)

(* What is deployed can be served: its table is there, or the first entry    *)
(* that needs the table can create it.                                       *)
Startable(d) ==
    /\ Loadable(d)
    /\ \A i \in Listed(d) :
         LET e == d.entries[i] IN
         \/ Exists(TableName(e)) \/ ~NamesClash(e)
         \/ \E j \in Listed(d) : j < i /\ TableName(d.entries[j]) = TableName(e)

(* Once nothing fails and nothing is deployed any more, the process comes up *)
(* and stays, or what is deployed cannot be served: no start, cut off        *)
(* anywhere, leaves behind what a later start cannot complete.               *)
ComesUp == <>[](at = "up" \/ ~Startable(deployed))
-----------------------------------------------------------------------------
(* Why UpFitsSchema and RowsFitOrCause hold: the inductive invariant.        *)

(* The table of e, or what a CREATE TABLE of its kind gives every table.     *)
Created(e) ==
    /\ \A c \in OwnColumns(e) : <<TableName(e), c, OwnType[e.kind][c]>> \in columns
    /\ e.kind = "acc" => TableName(e) \in unique

(* The statements of e before step n have had their effect.                  *)
DoneTill(e, n) ==
    /\ n >= 1 => Created(e)
    /\ n >= 2 => TableName(e) \in unique
    /\ \A j \in DOMAIN e.fields : j + 1 < n => HasColumn(TableName(e), FieldColumn(e, j))

(* A table, whichever IDL it comes from, is never without what every table   *)
(* of its kind has.                                                          *)
TablesWhole ==
    \A k \in Kind, n \in DOMAIN TableOf["ix"] : Exists(TableOf[k][n]) =>
        /\ \A c \in DOMAIN OwnType[k] : <<TableOf[k][n], c, OwnType[k][c]>> \in columns
        /\ k = "acc" => TableOf[k][n] \in unique

(* The loop over the statements leaves nothing undone behind it.             *)
LoopDone ==
    at \in {"ddl", "up"} => \A i \in Listed(loaded) :
        LET e == loaded.entries[i] IN
        /\ i \notin left => DoneTill(e, Len(e.fields) + 2)
        /\ i \in left /\ (\A j \in left : i <= j) => DoneTill(e, step)

(* A column is one that every table of the kind has, or a field of an IDL    *)
(* that was served.                                                          *)
OwnSource(r) ==
    \E k \in Kind, n \in DOMAIN TableOf["ix"] :
        r[1] = TableOf[k][n] /\ r[2] \in DOMAIN OwnType[k] /\ r[3] = OwnType[k][r[2]]

FieldSource(r) ==
    \E d \in served : \E i \in Listed(d) : \E j \in DOMAIN d.entries[i].fields :
        LET f == d.entries[i] IN
        r[1] = TableName(f) /\ r[2] = FieldColumn(f, j) /\ r[3] = FieldType(f, j)

ColumnsSourced == \A r \in columns : OwnSource(r) \/ FieldSource(r)

StageConsistent ==
    /\ at # "ddl" => left = {}
    /\ at \in {"ddl", "up"} => loaded \in served

StartupInv == TypeOK /\ StageConsistent /\ TablesWhole /\ LoopDone /\ ColumnsSourced
-----------------------------------------------------------------------------
(* README.md:258 "no SQL migrations are needed when the IDL changes": the    *)
(* columns, of whatever type, take what bind_value binds for the fields of   *)
(* the IDL that is served.                                                   *)
ChangedIdlFits ==
    at = "up" => \A i \in Listed(loaded) :
        LET e == loaded.entries[i] IN
        \A j \in DOMAIN e.fields : \E type \in TakenBy[FieldType(e, j)] :
            <<TableName(e), FieldColumn(e, j), type>> \in columns
=============================================================================
