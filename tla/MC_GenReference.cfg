CONSTANTS
    Values <- MCValues
    HttpPrefix = 3
    GrpcPrefix = 4
    ConstNames <- MCConstNames
    ReasonNamed <- MCReasonNamed
    LimitNames <- MCLimitNames
    ScanDirs <- MCScanDirs
    DirChoices <- MCDirChoices
    ConstFileChoices <- MCConstFileChoices
    FuncFileChoices <- MCFuncFileChoices
    NodeFileChoices <- MCNodeFileChoices
    SchemaFileChoices <- MCSchemaFileChoices
SPECIFICATION Spec
INVARIANT ReasonsPageFaithful
INVARIANT ExitStatusHonest
INVARIANT DefaultsComplete
CHECK_DEADLOCK FALSE
