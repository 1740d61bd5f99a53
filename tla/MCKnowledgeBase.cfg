SPECIFICATION Spec
CONSTANTS
    sc7 = sc7
    ac6 = ac6
    x1 = x1
    None = None
    Ingesters = {i1, i2, i3}
    Readers = {r1}
    ControlIds <- MCIds
    Rubric <- MCRubric
    Rubrics <- MCRubrics
    TopK = 2
INVARIANTS
    IngestIsIdempotent
    DuplicatesNeedOverlap
PROPERTIES
    PeacefulRead
CHECK_DEADLOCK FALSE
