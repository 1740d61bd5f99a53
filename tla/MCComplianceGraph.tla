--------------------------- MODULE MCComplianceGraph ---------------------------
(***************************************************************************)
(* The assessment graph on a small knowledge base: a control that only the *)
(* IaC scanner serves, a compound one that two scanners serve, and one     *)
(* whose hints route to no scanner.                                        *)
(***************************************************************************)
EXTENDS ComplianceGraphInductive, ComplianceGraphRefinement, TLC

CONSTANTS file, snippet, msg

AC6 == [id |-> <<"AC-6">>,         scanner_hints |-> {"terraform"}]
SI2 == [id |-> <<"SI-2", "RA-5">>, scanner_hints |-> {"ci", "secrets"}]
PL1 == [id |-> <<"PL-1">>,         scanner_hints |-> {}]

MCControl == {AC6, SI2, PL1}
MCIdPart  == {"AC-6", "SI-2", "RA-5", "PL-1"}
MCText    == {snippet, msg}

Finding(family, hints, excerpt) ==
    [path |-> file, check_family |-> family, control_hints |-> hints,
     excerpt |-> excerpt, message |-> msg]

\* A finding of the IaC scanner, an absence finding of the CI scanner, a finding of
\* the secrets scanner.
MCEmits ==
    [t \in Tools |->
        CASE t = ScanIac     -> {Finding("terraform", {"AC-6"}, snippet)}
          [] t = ScanCi      -> {Finding("ci", {"RA-5"}, NoText)}
          [] t = ScanSecrets -> {Finding("secrets", {"SI-2"}, snippet)}]

\* The empty run, two scanners for one control, one control twice, a control without a
\* scanner after one with evidence, and the same control three times over, which is
\* more than a recursion limit sized for two controls allows.
MCControlLists == {<<>>, <<SI2>>, <<AC6, AC6>>, <<AC6, PL1>>, <<PL1, PL1, PL1>>}

=============================================================================
