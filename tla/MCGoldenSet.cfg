SPECIFICATION Spec
CONSTANTS
    Generators = {g1, g2}
    Fixtures <- MCFixtures
    Controls <- MCControls
    Selections <- MCSelections
    Invocations <- MCInvocations
    FirstFiles <- MCFirstFiles
    Earlier = Earlier
    f1 = f1
    f2 = f2
    gone = gone
    c1 = c1
SYMMETRY MCSymmetry
INVARIANT MergeKeeps
INVARIANT OneRunPerFixture
INVARIANT VerifiedWasReviewed
PROPERTY ReviewIsSafe
CHECK_DEADLOCK FALSE
