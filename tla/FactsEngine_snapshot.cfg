\* Admin commits land between loadResolvers and loadMappings.
CONSTANTS
    ResolverNames = {"r1"}
    MappingNames = {"m1", "m2"}
    ByName <- MCByName
    InputValue <- MCInputValue
    ResolverBodies <- MCResolverBodies
    MappingBodies <- MCMappingBodies
    NumberText <- MCNumberText
    TimeText <- MCTimeText
    BlankText = {"", " "}
    PredText <- MCPredText
    Omitted = Omitted
    NoRow = NoRow
    MaxCommitsPerRead = 2
SPECIFICATION Spec
INVARIANT ResolveReadsOneSnapshot
