\* Two mappings write the same fact key; loadMappings has no ORDER BY.
CONSTANTS
    ResolverNames = {"r1"}
    MappingNames = {"m1", "m2"}
    ByName <- MCByName
    InputValue <- MCInputValue
    ResolverBodies <- MCResolverBodies
    MappingBodies <- MCSharedKeyBodies
    NumberText <- MCNumberText
    TimeText <- MCTimeText
    BlankText = {"", " "}
    PredText <- MCPredText
    Omitted = Omitted
    NoRow = NoRow
    MaxCommitsPerRead = 0
SPECIFICATION Spec
INVARIANT FactsMatchSpec
