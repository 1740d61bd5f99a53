SPECIFICATION Spec
CONSTANTS
    p1 = p1
    p2 = p2
    snippet = snippet
    msg = msg
    NoText = NoText
    Raised = Raised
    NoTool = NoTool
    Path = {p1, p2}
    Control <- MCControl
    IdPart <- MCIdPart
    Text <- MCText
    Emits <- MCEmits
INVARIANTS
    EvidenceIsTheControls
    NoEvidenceIsLost
    NeverSilent
CHECK_DEADLOCK FALSE
