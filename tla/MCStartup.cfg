CONSTANTS
    NoFields = NoFields
    Deployments <- MCDeployments
    Table <- MCTables
    TableOf <- MCTableOf
    Column <- MCColumns
    ColumnOf <- MCColumnOf
    Type = {"BIGINT", "TEXT"}
    TypeOf <- MCTypeOf
    TakenBy <- MCTakenBy
    OwnType <- MCOwnType
    MaxFailures = 2
    MaxDeploys = 3
SPECIFICATION Spec
CHECK_DEADLOCK FALSE
INVARIANTS
    TypeOK
    UpFitsSchema
    RowsFitOrCause
PROPERTY ComesUp
