\* any with one argument over an array of falsy elements.
CONSTANTS
    ResolverNames = {"r1"}
    MappingNames = {"m1", "m2"}
    ByName <- MCByName
    InputValue <- MCInputValue
    ResolverBodies <- MCFalsyResolverBodies
    MappingBodies <- MCAnyBodies
    NumberText <- MCNumberText
    TimeText <- MCTimeText
    BlankText = {"", " "}
    PredText <- MCPredText
    Omitted = Omitted
    NoRow = NoRow
    MaxCommitsPerRead = 0
SPECIFICATION Spec
INVARIANT FactsMatchSpec
