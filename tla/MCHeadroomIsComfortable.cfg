SPECIFICATION SpecRejecting
CONSTANTS
    file = file
    snippet = snippet
    msg = msg
    NoText = NoText
    Raised = Raised
    NoTool = NoTool
    None = None
    Path = {file}
    Control <- MCControl
    IdPart <- MCIdPart
    Text <- MCText
    Emits <- MCEmits
    ControlLists <- MCKnowledgeBase
    MaxVerifierAttempts = 6
    RecursionLimit = 200
INVARIANT HeadroomIsComfortable
