\* days_between of two dates two days apart, clock read twice.
CONSTANTS
    ResolverNames = {"r1"}
    MappingNames = {"m1", "m2"}
    ByName <- MCByName
    InputValue <- MCInputValue
    ResolverBodies <- MCResolverBodies
    MappingBodies <- MCDaysBodies
    NumberText <- MCNumberText
    TimeText <- MCTimeText
    BlankText = {"", " "}
    PredText <- MCPredText
    Omitted = Omitted
    NoRow = NoRow
    MaxCommitsPerRead = 0
SPECIFICATION Spec
INVARIANT FactsMatchSpec
