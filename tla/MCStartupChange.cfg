CONSTANTS
    NoFields = NoFields
    Deployments <- MCUpgrade
    Table <- MCTables
    TableOf <- MCTableOf
    Column <- MCColumns
    ColumnOf <- MCColumnOf
    Type = {"BIGINT", "TEXT"}
    TypeOf <- MCTypeOf
    TakenBy <- MCTakenBy
    OwnType <- MCOwnType
    MaxFailures = 1
    MaxDeploys = 1
SPECIFICATION Spec
CHECK_DEADLOCK FALSE
INVARIANT ChangedIdlFits
