SPECIFICATION Spec
CONSTANTS
    file = file
    snippet = snippet
    msg = msg
    NoText = NoText
    Raised = Raised
    NoTool = NoTool
    None = None
    Path = {file}
    Control <- MCControl
    IdPart <- MCIdPart
    Text <- MCText
    Emits <- MCEmits
    ControlLists <- MCOneOrTwo
    MaxVerifierAttempts = 2
    RecursionLimit = 16
INVARIANT ToolErrorIsNoted
