------------------------------- MODULE MCGoldenSet -------------------------------
(***************************************************************************)
(* Two runs of the generator and a reviewer on one file. Two fixtures, of  *)
(* which the first has a case already, and cases of a third one that no    *)
(* longer exists. One control, which the store may hold twice.             *)
(***************************************************************************)
EXTENDS GoldenSet, TLC

CONSTANTS f1, f2, gone, c1

MCFixtures == <<f1, f2>>
MCControls == {c1}
MCSelections == {<<>>, <<c1, c1>>}

Args(force, fixtures) == [force |-> force, fixtures |-> fixtures, dry_run |-> FALSE]

MCInvocations ==
    {Args(force, fixtures) : force \in BOOLEAN, fixtures \in {{}, {f1}, {f2, gone}}}
        \cup {[Args(FALSE, {f1}) EXCEPT !.dry_run = TRUE]}

\* The runs differ in nothing but their names.
MCSymmetry == Permutations(Generators)

MCFirstFiles ==
    {Absent, Valid(<<GoldenCase(f1, c1, 1, Earlier), GoldenCase(gone, c1, 1, Earlier)>>)}

=============================================================================
