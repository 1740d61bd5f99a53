SPECIFICATION Spec
CONSTANTS
    Assessors = {p1, p2}
    Sources <- MCSources
    Invocations <- MCInvocations
    MaxBlocks = 2
    None = None
INVARIANT FootprintIsKnown
INVARIANT ReportIsWhole
PROPERTY EveryRunEnds
CHECK_DEADLOCK FALSE
