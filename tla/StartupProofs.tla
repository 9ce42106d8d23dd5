--------------------------- MODULE StartupProofs ---------------------------
(* For every set of deployments, every mapping of names and types, and every *)
(* interruption: the tables fit the IDL that is served, or for a named cause *)
(* they do not.                                                              *)
EXTENDS Startup, TLAPS

USE StartupParameters

(* What from_idl keeps is a well-typed entry.                                *)
LEMMA ListedEntries ==
    ASSUME NEW d \in Deployments, NEW i \in Listed(d)
    PROVE  /\ i \in Nat
           /\ d.entries[i].kind \in Kind
           /\ d.entries[i].name \in DOMAIN TableOf["ix"]
           /\ d.entries[i].fields \in
                 Seq([name : DOMAIN ColumnOf, type : DOMAIN TypeOf])
<1>1. d.entries \in Seq(Entry)
  BY DEF StartupAssumption, Deployment
<1>2. i \in DOMAIN d.entries /\ d.entries[i].fields # NoFields
  BY DEF Listed
<1>3. i \in Nat /\ d.entries[i] \in Entry
  BY <1>1, <1>2
<1> QED
  BY <1>2, <1>3 DEF Entry

(* ... whose columns and types are those of the database.                    *)
LEMMA EntryColumns ==
    ASSUME NEW d \in Deployments, NEW i \in Listed(d)
    PROVE  LET e == d.entries[i] IN
           /\ TableName(e) \in Table
           /\ OwnColumns(e) \subseteq Column
           /\ \A c \in OwnColumns(e) : OwnType[e.kind][c] \in Type
           /\ Len(e.fields) \in Nat /\ DOMAIN e.fields = 1..Len(e.fields)
           /\ \A j \in DOMAIN e.fields :
                 FieldColumn(e, j) \in Column /\ FieldType(e, j) \in Type
<1> DEFINE e == d.entries[i]
<1>1. /\ e.kind \in Kind
      /\ e.name \in DOMAIN TableOf["ix"]
      /\ e.fields \in Seq([name : DOMAIN ColumnOf, type : DOMAIN TypeOf])
  BY ListedEntries
<1>2. /\ TableOf[e.kind] \in [DOMAIN TableOf["ix"] -> Table]
      /\ ColumnOf \in [DOMAIN ColumnOf -> Column]
      /\ TypeOf \in [DOMAIN TypeOf -> Type]
  BY <1>1 DEF StartupAssumption
<1>3. TableName(e) \in Table
  BY <1>1, <1>2 DEF TableName
<1>4. OwnColumns(e) \subseteq Column
  BY <1>1 DEF StartupAssumption, OwnColumns
<1>5. \A c \in OwnColumns(e) : OwnType[e.kind][c] \in Type
  BY <1>1, <1>4 DEF StartupAssumption, OwnColumns
<1>6. Len(e.fields) \in Nat /\ DOMAIN e.fields = 1..Len(e.fields)
  BY <1>1
<1>7. ASSUME NEW j \in DOMAIN e.fields
      PROVE  FieldColumn(e, j) \in Column /\ FieldType(e, j) \in Type
  <2> DEFINE Field == [name : DOMAIN ColumnOf, type : DOMAIN TypeOf]
  <2>1. e.fields \in Seq(Field)
    BY <1>1
  <2>2. e.fields[j] \in Field
    <3> HIDE DEF Field, e
    <3> QED
      BY <1>7, <2>1
  <2>3. e.fields[j].name \in DOMAIN ColumnOf /\ e.fields[j].type \in DOMAIN TypeOf
    BY <2>2
  <2> QED
    BY <1>2, <2>3 DEF FieldColumn, FieldType
<1> QED
  BY <1>3, <1>4, <1>5, <1>6, <1>7
-----------------------------------------------------------------------------
(* Statements only add.                                                      *)
Grows == columns \subseteq columns' /\ unique \subseteq unique'

(* What a statement has done stays done.                                     *)
LEMMA DoneStays ==
    ASSUME Grows, NEW e, NEW n, DoneTill(e, n)
    PROVE  DoneTill(e, n)'
  BY DEF Grows, DoneTill, Created, HasColumn

(* Before the first statement nothing needs to be done.                      *)
LEMMA NothingDone ==
    ASSUME NEW d \in Deployments, NEW i \in Listed(d)
    PROVE  DoneTill(d.entries[i], 0) /\ DoneTill(d.entries[i], 0)'
<1> DEFINE e == d.entries[i]
<1>1. DOMAIN e.fields = 1..Len(e.fields) /\ Len(e.fields) \in Nat
  BY EntryColumns
<1>2. \A j \in DOMAIN e.fields : ~(j + 1 < 0)
  BY <1>1
<1> QED
  BY <1>2 DEF DoneTill

(* The entry whose statement is executed.                                    *)
LEMMA Executing ==
    ASSUME StartupInv, NEW i \in left, Executes(i, step)
    PROVE  /\ loaded \in Deployments /\ loaded \in served
           /\ i \in Listed(loaded)
           /\ step \in Nat /\ step <= Len(loaded.entries[i].fields) + 1
           /\ DoneTill(loaded.entries[i], step)
<1>1. /\ loaded \in Deployments /\ i \in Listed(loaded)
      /\ step \in Nat /\ step <= Len(loaded.entries[i].fields) + 1
  BY DEF StartupInv, TypeOK
<1>2. loaded \in served
  BY DEF StartupInv, StageConsistent, Executes
<1>3. DoneTill(loaded.entries[i], step)
  BY <1>1 DEF StartupInv, LoopDone, Executes
<1> QED
  BY <1>1, <1>2, <1>3

(* When the statement has had its effect the loop goes on.                   *)
LEMMA LoopGoesOn ==
    ASSUME StartupInv, NEW i \in left, Executes(i, step), Advance(i, step), Grows,
           NEW d \in Deployments, d = loaded, NEW n, n = step,
           DoneTill(d.entries[i], n + 1)'
    PROVE  /\ LoopDone' /\ StageConsistent'
           /\ left' \subseteq Listed(loaded') /\ step' \in Nat
           /\ \A j \in left' : Executes(j, step)' =>
                 step' <= Len(loaded'.entries[j].fields) + 1
<1> DEFINE e == d.entries[i]
<1>0. /\ i \in Listed(d) /\ left \subseteq Listed(d)
      /\ step \in Nat /\ step <= Len(e.fields) + 1
      /\ Len(e.fields) \in Nat
  BY Executing, EntryColumns DEF StartupInv, TypeOK
<1>1. at = "ddl" /\ \A j \in left : i <= j
  BY DEF Executes
<1>2. at' = "ddl" /\ loaded' = d /\ served' = served
  BY <1>1 DEF Advance
<1>3. \A j \in Listed(d) : j \in Nat /\ Len(d.entries[j].fields) \in Nat
  BY ListedEntries, EntryColumns
<1>4. ASSUME NEW j \in Listed(d), j \notin left
      PROVE  DoneTill(d.entries[j], Len(d.entries[j].fields) + 2)'
  BY <1>1, <1>4, DoneStays DEF StartupInv, LoopDone
<1>5. CASE step <= Len(e.fields)
  <2>1. step' = n + 1 /\ left' = left
    BY <1>5 DEF Advance
  <2>2. \A j \in left : (\A k \in left : j <= k) => j = i
    BY <1>0, <1>1, <1>3
  <2>3. LoopDone'
    BY <1>2, <1>4, <2>1, <2>2 DEF LoopDone
  <2>4. StageConsistent'
    BY <1>1, <1>2 DEF StageConsistent, StartupInv
  <2>5. \A j \in left' : Executes(j, step)' => step' <= Len(d.entries[j].fields) + 1
    <3>1. \A j \in left' : Executes(j, step)' => j = i
      BY <2>1, <2>2 DEF Executes
    <3> QED
      BY <1>0, <1>5, <2>1, <3>1
  <2> QED
    BY <1>0, <1>2, <2>1, <2>3, <2>4, <2>5
<1>6. CASE ~(step <= Len(e.fields))
  <2>1. step' = 0 /\ left' = left \ {i}
    BY <1>6 DEF Advance
  <2>2. n + 1 = Len(e.fields) + 2
    BY <1>0, <1>6
  <2>3. \A j \in Listed(d) : j \notin left' =>
            DoneTill(d.entries[j], Len(d.entries[j].fields) + 2)'
    BY <1>4, <2>1, <2>2
  <2>4. LoopDone'
    BY <1>2, <2>1, <2>3, NothingDone DEF LoopDone
  <2>5. StageConsistent'
    BY <1>1, <1>2 DEF StageConsistent, StartupInv
  <2>6. \A j \in left' : step' <= Len(d.entries[j].fields) + 1
    BY <1>0, <1>3, <2>1
  <2> QED
    BY <1>0, <1>2, <2>1, <2>4, <2>5, <2>6
<1> QED
  BY <1>5, <1>6
-----------------------------------------------------------------------------
(* The columns of an entry belong to its table, are typed, and have a        *)
(* source once it is served.                                                 *)
LEMMA ColumnsOfEntry ==
    ASSUME NEW d \in Deployments, NEW i \in Listed(d), NEW r \in AllColumns(d.entries[i])
    PROVE  /\ r \in Table \X Column \X Type
           /\ r[1] = TableName(d.entries[i])
           /\ d \in served => OwnSource(r) \/ FieldSource(r)
<1> DEFINE e == d.entries[i]
<1>1. /\ e.kind \in Kind /\ e.name \in DOMAIN TableOf["ix"]
      /\ TableName(e) \in Table /\ OwnColumns(e) \subseteq Column
      /\ \A c \in OwnColumns(e) : OwnType[e.kind][c] \in Type
      /\ \A j \in DOMAIN e.fields :
            FieldColumn(e, j) \in Column /\ FieldType(e, j) \in Type
  BY ListedEntries, EntryColumns
<1>2. CASE \E c \in OwnColumns(e) : r = <<TableName(e), c, OwnType[e.kind][c]>>
  <2>1. PICK c \in OwnColumns(e) : r = <<TableName(e), c, OwnType[e.kind][c]>>
    BY <1>2
  <2>2. OwnSource(r)
    BY <1>1, <2>1 DEF OwnSource, TableName, OwnColumns
  <2> QED
    BY <1>1, <2>1, <2>2
<1>3. CASE \E j \in DOMAIN e.fields : r = <<TableName(e), FieldColumn(e, j), FieldType(e, j)>>
  <2>1. PICK j \in DOMAIN e.fields : r = <<TableName(e), FieldColumn(e, j), FieldType(e, j)>>
    BY <1>3
  <2>2. d \in served => FieldSource(r)
    BY <2>1 DEF FieldSource
  <2> QED
    BY <1>1, <2>1, <2>2
<1> QED
  BY <1>2, <1>3 DEF AllColumns

(* A statement that only adds columns of its entry, and leaves it done up to *)
(* itself, keeps the invariant.                                              *)
LEMMA StatementKeeps ==
    ASSUME StartupInv, NEW i \in left, Executes(i, step), Advance(i, step),
           NEW d \in Deployments, d = loaded, NEW n, n = step, Grows,
           columns' \subseteq columns \cup AllColumns(d.entries[i]),
           unique' \subseteq unique \cup {TableName(d.entries[i])},
           DoneTill(d.entries[i], n + 1)'
    PROVE  StartupInv'
<1> DEFINE e == d.entries[i]
<1>0. /\ i \in Listed(d) /\ d \in served /\ n \in Nat
      /\ e.kind \in Kind /\ e.name \in DOMAIN TableOf["ix"]
  BY Executing, ListedEntries
<1>1. /\ LoopDone' /\ StageConsistent'
      /\ left' \subseteq Listed(loaded') /\ step' \in Nat
      /\ \A j \in left' : Executes(j, step)' =>
            step' <= Len(loaded'.entries[j].fields) + 1
  BY LoopGoesOn
<1>2. UNCHANGED <<deployed, at, loaded, served>>
  BY DEF Advance
<1>3. TypeOK'
  <2>1. columns' \subseteq Table \X Column \X Type
    BY <1>0, ColumnsOfEntry DEF StartupInv, TypeOK
  <2>2. unique' \subseteq Table
    BY <1>0, EntryColumns DEF StartupInv, TypeOK
  <2> QED
    BY <1>1, <1>2, <2>1, <2>2 DEF TypeOK, StartupInv
<1>4. TablesWhole'
  <2>1. Created(e)'
    BY <1>0 DEF DoneTill
  <2> SUFFICES ASSUME NEW k \in Kind, NEW m \in DOMAIN TableOf["ix"],
                      Exists(TableOf[k][m])'
               PROVE  /\ \A c \in DOMAIN OwnType[k] :
                            <<TableOf[k][m], c, OwnType[k][c]>> \in columns'
                      /\ k = "acc" => TableOf[k][m] \in unique'
    BY DEF TablesWhole
  <2>2. CASE Exists(TableOf[k][m])
    BY <2>2 DEF StartupInv, TablesWhole, Grows
  <2>3. CASE ~Exists(TableOf[k][m])
    <3>1. TableOf[k][m] = TableName(e)
      BY <1>0, <2>3, ColumnsOfEntry DEF Exists
    <3>2. k = e.kind
      BY <1>0, <3>1 DEF TableName, StartupAssumption
    <3> QED
      BY <2>1, <3>1, <3>2 DEF Created, OwnColumns
  <2> QED
    BY <2>2, <2>3
<1>5. ColumnsSourced'
  <2> SUFFICES ASSUME NEW r \in columns' PROVE OwnSource(r) \/ FieldSource(r)
    BY <1>2 DEF ColumnsSourced, OwnSource, FieldSource
  <2> QED
    BY <1>0, ColumnsOfEntry DEF StartupInv, ColumnsSourced
<1> QED
  BY <1>1, <1>3, <1>4, <1>5 DEF StartupInv
-----------------------------------------------------------------------------
LEMMA CreateTableKeeps == StartupInv /\ CreateTable => StartupInv'
<1> SUFFICES ASSUME StartupInv, CreateTable PROVE StartupInv'
  OBVIOUS
<1>1. PICK i \in left : LET e == loaded.entries[i] IN
        /\ Executes(i, 0)
        /\ \/ Exists(TableName(e)) /\ UNCHANGED db
           \/ /\ columns' = columns \cup AllColumns(e)
              /\ unique' = unique \cup PrimaryKey(e)
        /\ Advance(i, 0)
  BY DEF CreateTable
<1>2. step = 0 /\ Executes(i, step) /\ Advance(i, step)
  BY <1>1 DEF Executes, Advance
<1>3. PICK d \in Deployments : d = loaded
  BY DEF StartupInv, TypeOK
<1> DEFINE e == d.entries[i]
<1>4. /\ i \in Listed(d) /\ e.kind \in Kind /\ e.name \in DOMAIN TableOf["ix"]
      /\ DOMAIN e.fields = 1..Len(e.fields) /\ Len(e.fields) \in Nat
  BY <1>2, <1>3, Executing, ListedEntries, EntryColumns
<1>5. /\ Grows /\ columns' \subseteq columns \cup AllColumns(e)
      /\ unique' \subseteq unique \cup {TableName(e)}
  BY <1>1, <1>3 DEF Grows, PrimaryKey, db
<1>6. Created(e)'
  <2>1. CASE Exists(TableName(e))
    <3>1. Created(e)
      BY <1>4, <2>1 DEF StartupInv, TablesWhole, Created, TableName, OwnColumns
    <3> QED
      BY <1>5, <3>1 DEF Created, Grows
  <2>2. CASE ~Exists(TableName(e))
    BY <1>1, <1>3, <2>2 DEF Created, AllColumns, PrimaryKey
  <2> QED
    BY <2>1, <2>2
<1>7. DoneTill(e, 0 + 1)'
  BY <1>4, <1>6 DEF DoneTill
<1> QED
  BY <1>2, <1>3, <1>5, <1>7, StatementKeeps

LEMMA CreateIndexKeeps == StartupInv /\ CreateIndex => StartupInv'
<1> SUFFICES ASSUME StartupInv, CreateIndex PROVE StartupInv'
  OBVIOUS
<1>1. PICK i \in left : LET e == loaded.entries[i] IN
        /\ Executes(i, 1)
        /\ unique' = unique \cup (IF e.kind = "ix" THEN {TableName(e)} ELSE {})
        /\ Advance(i, 1)
        /\ UNCHANGED columns
  BY DEF CreateIndex
<1>2. step = 1 /\ Executes(i, step) /\ Advance(i, step)
  BY <1>1 DEF Executes, Advance
<1>3. PICK d \in Deployments : d = loaded
  BY DEF StartupInv, TypeOK
<1> DEFINE e == d.entries[i]
<1>4. /\ i \in Listed(d) /\ e.kind \in Kind
      /\ DOMAIN e.fields = 1..Len(e.fields) /\ Len(e.fields) \in Nat
      /\ DoneTill(e, 1)
  BY <1>2, <1>3, Executing, ListedEntries, EntryColumns
<1>5. /\ Grows /\ columns' \subseteq columns \cup AllColumns(e)
      /\ unique' \subseteq unique \cup {TableName(e)}
  BY <1>1, <1>3 DEF Grows
<1>6. Created(e)
  BY <1>4 DEF DoneTill
<1>7. Created(e)' /\ TableName(e) \in unique'
  BY <1>1, <1>3, <1>4, <1>5, <1>6 DEF Created, Grows, Kind
<1>8. DoneTill(e, 1 + 1)'
  BY <1>4, <1>7 DEF DoneTill
<1> QED
  BY <1>2, <1>3, <1>5, <1>8, StatementKeeps

LEMMA AddColumnKeeps == StartupInv /\ AddColumn => StartupInv'
<1> SUFFICES ASSUME StartupInv, AddColumn PROVE StartupInv'
  OBVIOUS
<1>1. PICK i \in left : LET e == loaded.entries[i]
                            j == step - 1 IN
        /\ Executes(i, step) /\ j \in DOMAIN e.fields
        /\ \/ HasColumn(TableName(e), FieldColumn(e, j)) /\ UNCHANGED columns
           \/ /\ ~HasColumn(TableName(e), FieldColumn(e, j))
              /\ columns' = columns
                    \cup {<<TableName(e), FieldColumn(e, j), FieldType(e, j)>>}
        /\ Advance(i, step)
        /\ UNCHANGED unique
  BY DEF AddColumn
<1>2. PICK d \in Deployments : d = loaded
  BY DEF StartupInv, TypeOK
<1>3. PICK n \in Nat : n = step
  BY DEF StartupInv, TypeOK
<1> DEFINE e == d.entries[i]
           j == n - 1
<1>4. /\ i \in Listed(d) /\ DoneTill(e, n)
      /\ DOMAIN e.fields = 1..Len(e.fields) /\ Len(e.fields) \in Nat
      /\ j \in DOMAIN e.fields /\ j + 1 = n
  BY <1>1, <1>2, <1>3, Executing, EntryColumns
<1>5. /\ Grows /\ columns' \subseteq columns \cup AllColumns(e)
      /\ unique' \subseteq unique \cup {TableName(e)}
  BY <1>1, <1>2, <1>3, <1>4 DEF Grows, AllColumns
<1>6. HasColumn(TableName(e), FieldColumn(e, j))'
  <2>1. CASE HasColumn(TableName(e), FieldColumn(e, j))
    BY <1>5, <2>1 DEF HasColumn, Grows
  <2>2. CASE ~HasColumn(TableName(e), FieldColumn(e, j))
    <3>1. <<TableName(e), FieldColumn(e, j), FieldType(e, j)>> \in columns'
      BY <1>1, <1>2, <1>3, <2>2
    <3> QED
      BY <3>1 DEF HasColumn
  <2> QED
    BY <2>1, <2>2
<1>7. DoneTill(e, n)'
  BY <1>4, <1>5, DoneStays
<1>8. n >= 2
  BY <1>4
<1>9. \A k \in DOMAIN e.fields : k + 1 < n + 1 => k = j \/ k + 1 < n
  BY <1>4
<1>10. DoneTill(e, n + 1)'
  BY <1>6, <1>7, <1>8, <1>9 DEF DoneTill
<1> QED
  BY <1>1, <1>2, <1>3, <1>5, <1>10, StatementKeeps
-----------------------------------------------------------------------------
LEMMA InitHolds == Init => StartupInv
<1> SUFFICES ASSUME Init PROVE StartupInv
  OBVIOUS
<1>1. TypeOK
  BY DEF Init, TypeOK
<1>2. StageConsistent /\ LoopDone
  BY DEF Init, StageConsistent, LoopDone
<1>3. TablesWhole /\ ColumnsSourced
  BY DEF Init, TablesWhole, ColumnsSourced, Exists
<1> QED
  BY <1>1, <1>2, <1>3 DEF StartupInv

(* The process ends: what it held is gone, the tables are as they were.      *)
LEMMA ExitKeeps == StartupInv /\ Exit => StartupInv'
<1> SUFFICES ASSUME StartupInv, Exit PROVE StartupInv'
  OBVIOUS
<1>1. /\ at' = "down" /\ left' = {} /\ step' = 0
      /\ UNCHANGED <<deployed, loaded, columns, unique, served>>
  BY DEF Exit, db
<1>2. TypeOK'
  BY <1>1 DEF StartupInv, TypeOK
<1>3. StageConsistent' /\ LoopDone'
  BY <1>1 DEF StageConsistent, LoopDone
<1>4. TablesWhole' /\ ColumnsSourced'
  BY <1>1 DEF StartupInv, TablesWhole, ColumnsSourced, Exists, OwnSource, FieldSource
<1> QED
  BY <1>2, <1>3, <1>4 DEF StartupInv

(* Before the loop over the statements nothing is asked of the tables.       *)
LEMMA BeforeLoopKeeps == StartupInv /\ (Boot \/ LoadIdl) => StartupInv'
<1> SUFFICES ASSUME StartupInv, Boot \/ LoadIdl PROVE StartupInv'
  OBVIOUS
<1>1. /\ at' \in {"idl", "connect"} /\ left = {} /\ left' = {} /\ step' = step
      /\ loaded' \in Deployments
      /\ UNCHANGED <<deployed, columns, unique, served>>
  BY DEF Boot, LoadIdl, db, StartupInv, StageConsistent, TypeOK
<1>2. TypeOK'
  BY <1>1 DEF StartupInv, TypeOK
<1>3. StageConsistent' /\ LoopDone'
  BY <1>1 DEF StageConsistent, LoopDone
<1>4. TablesWhole' /\ ColumnsSourced'
  BY <1>1 DEF StartupInv, TablesWhole, ColumnsSourced, Exists, OwnSource, FieldSource
<1> QED
  BY <1>2, <1>3, <1>4 DEF StartupInv

LEMMA ConnectKeeps == StartupInv /\ Connect => StartupInv'
<1> SUFFICES ASSUME StartupInv, Connect PROVE StartupInv'
  OBVIOUS
<1>1. PICK d \in Deployments : d = loaded
  BY DEF StartupInv, TypeOK
<1>2. /\ at' = "ddl" /\ loaded' = d /\ left' = Listed(d) /\ step' = 0
      /\ served' = served \cup {d} /\ deployed' = deployed
      /\ UNCHANGED <<columns, unique>>
  BY <1>1 DEF Connect, db
<1>3. TypeOK'
  <2>1. \A i \in Listed(d) : 0 <= Len(d.entries[i].fields) + 1
    BY EntryColumns
  <2> QED
    BY <1>2, <2>1 DEF StartupInv, TypeOK
<1>4. LoopDone'
  BY <1>2, NothingDone DEF LoopDone
<1>5. StageConsistent'
  BY <1>2 DEF StageConsistent
<1>6. TablesWhole'
  BY <1>2 DEF StartupInv, TablesWhole, Exists
<1>7. ColumnsSourced'
  BY <1>2 DEF StartupInv, ColumnsSourced, OwnSource, FieldSource
<1> QED
  BY <1>3, <1>4, <1>5, <1>6, <1>7 DEF StartupInv

LEMMA ListenKeeps == StartupInv /\ Listen => StartupInv'
<1> SUFFICES ASSUME StartupInv, Listen PROVE StartupInv'
  OBVIOUS
<1>1. /\ at = "ddl" /\ left = {} /\ at' = "up"
      /\ UNCHANGED <<deployed, loaded, left, step, columns, unique, served>>
  BY DEF Listen, db
<1>2. TypeOK'
  BY <1>1 DEF StartupInv, TypeOK
<1>3. StageConsistent'
  BY <1>1 DEF StartupInv, StageConsistent
<1>4. LoopDone'
  BY <1>1 DEF StartupInv, LoopDone, DoneTill, Created, HasColumn
<1>5. TablesWhole' /\ ColumnsSourced'
  BY <1>1 DEF StartupInv, TablesWhole, ColumnsSourced, Exists, OwnSource, FieldSource
<1> QED
  BY <1>2, <1>3, <1>4, <1>5 DEF StartupInv

LEMMA UnchangedKeeps ==
    ASSUME StartupInv, deployed' \in Deployments,
           UNCHANGED <<at, loaded, left, step, columns, unique, served>>
    PROVE  StartupInv'
<1>1. TypeOK'
  BY DEF StartupInv, TypeOK, Executes
<1>2. StageConsistent'
  BY DEF StartupInv, StageConsistent
<1>3. LoopDone'
  BY DEF StartupInv, LoopDone, DoneTill, Created, HasColumn
<1>4. TablesWhole' /\ ColumnsSourced'
  BY DEF StartupInv, TablesWhole, ColumnsSourced, Exists, OwnSource, FieldSource
<1> QED
  BY <1>1, <1>2, <1>3, <1>4 DEF StartupInv

(* The inductive invariant of the start.                                     *)
THEOREM StartupInvariant == Spec => []StartupInv
<1>1. Init => StartupInv
  BY InitHolds
<1>2. StartupInv /\ [Next]_vars => StartupInv'
  <2> SUFFICES ASSUME StartupInv, [Next]_vars PROVE StartupInv'
    OBVIOUS
  <2>1. CASE Boot \/ LoadIdl
    BY <2>1, BeforeLoopKeeps
  <2>2. CASE LoadIdlFails \/ CreateTableRefused \/ Fail
    BY <2>2, ExitKeeps DEF LoadIdlFails, CreateTableRefused, Fail
  <2>3. CASE Connect
    BY <2>3, ConnectKeeps
  <2>4. CASE CreateTable
    BY <2>4, CreateTableKeeps
  <2>5. CASE CreateIndex
    BY <2>5, CreateIndexKeeps
  <2>6. CASE AddColumn
    BY <2>6, AddColumnKeeps
  <2>7. CASE Listen
    BY <2>7, ListenKeeps
  <2>8. CASE Deploy \/ UNCHANGED vars
    <3>1. /\ deployed' \in Deployments
          /\ UNCHANGED <<at, loaded, left, step, columns, unique, served>>
      BY <2>8 DEF Deploy, vars, proc, db, StartupInv, TypeOK
    <3> QED
      BY <3>1, UnchangedKeeps
  <2> QED
    BY <2>1, <2>2, <2>3, <2>4, <2>5, <2>6, <2>7, <2>8 DEF Next, Start
<1> QED
  BY <1>1, <1>2, PTL DEF Spec

(* Types; the loop over the statements stays within those of an entry.       *)
THEOREM StartupTypeCorrect == Spec => []TypeOK
<1>1. StartupInv => TypeOK
  BY DEF StartupInv
<1> QED
  BY <1>1, StartupInvariant, PTL

(* When the API opens, every entry served has its table, whole.              *)
LEMMA UpIsWhole == StartupInv => UpFitsSchema
<1> SUFFICES ASSUME StartupInv, at = "up", NEW i \in Listed(loaded)
             PROVE  LET e == loaded.entries[i] IN
                    /\ TableName(e) \in unique
                    /\ \A c \in OwnColumns(e) :
                          <<TableName(e), c, OwnType[e.kind][c]>> \in columns
                    /\ \A j \in DOMAIN e.fields : HasColumn(TableName(e), FieldColumn(e, j))
  BY DEF UpFitsSchema
<1> DEFINE e == loaded.entries[i]
           n == Len(e.fields) + 2
<1>1. DoneTill(e, n)
  BY DEF StartupInv, StageConsistent, LoopDone
<1>2. /\ n >= 1 /\ n >= 2
      /\ \A j \in DOMAIN e.fields : j + 1 < n
  BY EntryColumns DEF StartupInv, TypeOK
<1>3. Created(e) /\ TableName(e) \in unique
      /\ \A j \in DOMAIN e.fields : HasColumn(TableName(e), FieldColumn(e, j))
  <2> HIDE DEF e, n
  <2> QED
    BY <1>1, <1>2 DEF DoneTill
<1> QED
  BY <1>3 DEF Created

(* While the API is open the tables fit the IDL that is served, whatever     *)
(* interrupted this start or an earlier one.                                 *)
THEOREM OpenMeansWhole == Spec => []UpFitsSchema
  BY UpIsWhole, StartupInvariant, PTL

(* A row that does not fit has one of the two causes.                        *)
LEMMA MisfitHasCause == StartupInv => RowsFitOrCause
<1> SUFFICES ASSUME StartupInv, at = "up",
                    NEW d \in Deployments, d = loaded, NEW i \in Listed(d),
                    ~NamesClash(d.entries[i]), NEW j \in DOMAIN d.entries[i].fields
             PROVE  TypeFits(d.entries[i], j) \/ OnceOtherType(d.entries[i], j)
  BY DEF RowsFitOrCause, StartupInv, TypeOK
<1> DEFINE e == d.entries[i]
<1>1. HasColumn(TableName(e), FieldColumn(e, j))
  BY UpIsWhole DEF UpFitsSchema
<1>2. PICK r \in columns : r[1] = TableName(e) /\ r[2] = FieldColumn(e, j)
  BY <1>1 DEF HasColumn
<1>3. r = <<TableName(e), FieldColumn(e, j), r[3]>>
  BY <1>2 DEF StartupInv, TypeOK
<1>4. CASE r[3] = FieldType(e, j)
  BY <1>3, <1>4 DEF TypeFits
<1>5. CASE r[3] # FieldType(e, j)
  <2>1. ~OwnSource(r)
    <3> SUFFICES ASSUME OwnSource(r) PROVE FALSE
      OBVIOUS
    <3>1. PICK k \in Kind, n \in DOMAIN TableOf["ix"] :
             r[1] = TableOf[k][n] /\ r[2] \in DOMAIN OwnType[k]
      BY DEF OwnSource
    <3>2. /\ e.kind \in Kind /\ e.name \in DOMAIN TableOf["ix"]
          /\ TableOf[k][n] = TableOf[e.kind][e.name]
      BY <1>2, <3>1, ListedEntries DEF TableName
    <3>3. k = e.kind
      <4> HIDE DEF e
      <4> QED
        BY <3>2 DEF StartupAssumption
    <3> QED
      BY <1>2, <3>1, <3>3 DEF NamesClash, OwnColumns
  <2>2. FieldSource(r)
    BY <2>1 DEF StartupInv, ColumnsSourced
  <2>3. PICK f \in served : \E m \in Listed(f) : \E k \in DOMAIN f.entries[m].fields :
          /\ r[1] = TableName(f.entries[m])
          /\ r[2] = FieldColumn(f.entries[m], k)
          /\ r[3] = FieldType(f.entries[m], k)
    BY <2>2 DEF FieldSource
  <2> QED
    BY <1>2, <1>5, <2>3 DEF OnceOtherType
<1> QED
  BY <1>4, <1>5

(* While the API is open, a field's column has the type the IDL gives it, or *)
(* a named cause: names that clash, or the type of another or earlier entry. *)
THEOREM MisfitsHaveCauses == Spec => []RowsFitOrCause
  BY MisfitHasCause, StartupInvariant, PTL
=============================================================================
