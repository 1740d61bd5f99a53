-------------------------- MODULE MCEvidenceCollector --------------------------
(***************************************************************************)
(* Checks collect_evidence over every control of a small knowledge base    *)
(* and every combination of scanner answers. One step calls the collector. *)
(***************************************************************************)
EXTENDS EvidenceCollector, TLC

CONSTANTS p1, p2, snippet, msg

\* One control per interesting routing: two IaC families, a compound id that two
\* scanners serve, all three scanners, one IaC family only, and no scanner at all.
MCControl ==
    { [id |-> <<"SC-7">>,         scanner_hints |-> {"terraform", "kubernetes_yaml"}],
      [id |-> <<"SI-2", "RA-5">>, scanner_hints |-> {"ci", "secrets"}],
      [id |-> <<"SC-12">>,        scanner_hints |-> {"terraform", "secrets", "ci"}],
      [id |-> <<"CM-6">>,         scanner_hints |-> {"dockerfile"}],
      [id |-> <<"RA-5">>,         scanner_hints |-> {}] }

MCIdPart == {"SC-7", "SC-12", "SI-2", "RA-5", "CM-6", "IA-5"}
MCText   == {snippet, msg}

Finding(path, family, hints, excerpt) ==
    [path |-> path, check_family |-> family, control_hints |-> hints,
     excerpt |-> excerpt, message |-> msg]

\* Findings of one's own control, of another control in the same family, of the
\* same control in another family, and absence findings without an excerpt.
MCEmits ==
    [t \in Tools |->
        CASE t = ScanIac     -> {Finding(p1, "terraform", {"SC-7", "SC-12"}, snippet),
                                 Finding(p2, "dockerfile", {"SC-7", "CM-6"}, NoText),
                                 Finding(p2, "kubernetes_yaml", {"SC-7"}, snippet)}
          [] t = ScanCi      -> {Finding(p1, "ci", {"RA-5"}, NoText),
                                 Finding(p2, "ci", {"SC-12"}, snippet)}
          [] t = ScanSecrets -> {Finding(p1, "secrets", {"SI-2", "SC-12"}, snippet),
                                 Finding(p2, "secrets", {"IA-5"}, snippet)}]

VARIABLES control, scan, result

vars == <<control, scan, result>>

Init == control \in Control /\ scan \in ScanOutcome /\ result = NoTool

Collect == result = NoTool /\ result' = CollectEvidence(control, scan)
           /\ UNCHANGED <<control, scan>>

Spec == Init /\ [][Collect]_vars

Called == result # NoTool

\* Only what the control asked for reaches the Synthesizer: every piece of
\* evidence is a finding of a scanner the hints route to, mapped to a part of the
\* control's id; in the IaC scanner's mixed output, of a family the hints name.
EvidenceIsTheControls ==
    Called =>
        \A e \in result.evidence : \E t \in Tools : \E f \in Emits[t] :
            /\ scan[t] # Raised
            /\ f \in scan[t]
            /\ f.check_family \in control.scanner_hints
            /\ \E k \in DOMAIN control.id : control.id[k] \in f.control_hints
            /\ e.path_or_id = f.path
            /\ e.excerpt \in {f.excerpt, f.message} \ {NoText}

\* ... and no finding that qualifies is lost, with its own excerpt, because another
\* scanner failed or had nothing to say, or another finding is in the same file.
NoEvidenceIsLost ==
    Called =>
        \A t \in Tools : \A f \in Emits[t] :
            (/\ scan[t] # Raised
             /\ f \in scan[t]
             /\ f.check_family \in control.scanner_hints
             /\ \E k \in DOMAIN control.id : control.id[k] \in f.control_hints)
            => FindingToEvidence(f) \in result.evidence

\* "No relevant evidence found" is told apart from a tool failure: a collection
\* without evidence always says why, and an error is there exactly when a scanner
\* that the control needs raised, even when the others delivered.
NeverSilent ==
    Called =>
        /\ result.evidence = {} => result.errors \cup result.limitations # {}
        /\ \A t \in Tools : t \in result.errors <=>
              /\ scan[t] = Raised
              /\ \E h \in control.scanner_hints :
                    \/ t = ScanIac     /\ h \notin {"ci", "secrets"}
                    \/ t = ScanCi      /\ h = "ci"
                    \/ t = ScanSecrets /\ h = "secrets"
        /\ result.errors \cap result.limitations = {}

=============================================================================
