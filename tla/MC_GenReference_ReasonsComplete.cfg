CONSTANTS
    Values <- MCValues
    HttpPrefix = 3
    GrpcPrefix = 4
    ConstNames <- MCConstNames
    ReasonNamed <- MCReasonNamed
    LimitNames <- MCLimitNames
    ScanDirs <- MCScanDirs
    DirChoices <- MCDirChoicesForwarded
    ConstFileChoices <- MCConstFileChoices
    FuncFileChoices <- MCFuncFileChoices
    NodeFileChoices <- MCNodeFileChoices
    SchemaFileChoices <- MCSchemaFileChoices
SPECIFICATION Spec
INVARIANT ReasonsComplete
CHECK_DEADLOCK FALSE
