SPECIFICATION FairSpec
CONSTANTS
    file = file
    snippet = snippet
    msg = msg
    NoText = NoText
    Raised = Raised
    NoTool = NoTool
    None = None
    Path = {file}
    Control <- MCControl
    IdPart <- MCIdPart
    Text <- MCText
    Emits <- MCEmits
    ControlLists <- MCControlLists
    MaxVerifierAttempts = 2
    RecursionLimit = 16
INVARIANTS
    FailClosed
    VerdictsAlign
    ReviewLoop
    FeedbackIsComplete
    DowngradesAreExplained
    ReportIsComplete
    BackstopIsSlack
    IInv
PROPERTIES
    CommitsOnlyReviewed
    ImplementsContract
    RunEnds
