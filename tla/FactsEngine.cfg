\* Admin edits of one resolver and two mappings, with a ResolveFacts
\* transaction running alongside, over bodies whose transforms the spec's
\* table and the code agree on.
CONSTANTS
    ResolverNames = {"r1"}
    MappingNames = {"m1", "m2"}
    ByName <- MCByName
    InputValue <- MCInputValue
    ResolverBodies <- MCResolverBodies
    MappingBodies <- MCMappingBodies
    NumberText <- MCNumberText
    TimeText <- MCTimeText
    BlankText = {"", " "}
    PredText <- MCPredText
    Omitted = Omitted
    NoRow = NoRow
    MaxCommitsPerRead = 1
SPECIFICATION Spec
INVARIANT TypeOK
INVARIANT FactsMatchSpec
