SPECIFICATION Spec
CONSTANTS
    v1 = v1
    v2 = v2
    h1 = h1
    h2 = h2
    NoVersion = NoVersion
    NoDefinition = NoDefinition
    NoField = NoField
    Versions = {v1, v2}
    Definitions <- SomeDefinitions
    Valid <- SomeValid
    Handlers = {h1, h2}
    MaxRevision = 2
    Features <- FewFeatures
    Nodes <- SomeNodes
    MinScore = 60
    MinEvidence = 20
    MinExpectedR = 1
    MinSeparation = 10
    Jobs = {j1}
    Wanted <- FewRequests
    BuiltIns = {"RB"}
    BuiltInResults <- FewAnswers
    Markets <- FewMarkets
SYMMETRY HandlerSymmetry
PROPERTIES
    PublishedImmutable
CHECK_DEADLOCK FALSE
