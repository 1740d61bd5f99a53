SPECIFICATION LogSpec
CONSTANTS
    file = file
    snippet = snippet
    msg = msg
    NoText = NoText
    Raised = Raised
    NoTool = NoTool
    None = None
    Path = {file}
    Control <- MCControl
    IdPart <- MCIdPart
    Text <- MCText
    Emits <- MCEmits
    ControlLists <- MCLoggedLists
    MaxVerifierAttempts = 2
    RecursionLimit = 12
INVARIANTS
    LogIsTrue
    LogNests
    LogTellsOutcome
    ReliableLogIsTransparent
