----------------------- MODULE ComplianceGraphRefinement -----------------------
(***************************************************************************)
(* The assessment graph implements the contract of run_assessment. A       *)
(* finalized verdict is a decision; the grounds of the decision are read   *)
(* off the trail, that is off what the scanners and the Verifier really    *)
(* answered, and not off the fields that the graph itself filled in.       *)
(***************************************************************************)
EXTENDS ComplianceGraph

Decision(v, i) ==
    [control_id |-> v.control_id,
     verdict    |-> v.verdict,
     evidence   |-> v.evidence,
     failed     |-> FailedTools(i),
     approved   |-> LastReview(i) = [verdict |-> v.verdict, approved |-> TRUE]]

Decisions(vs) == [i \in DOMAIN vs |-> Decision(vs[i], i)]

Ids(cs) == [i \in DOMAIN cs |-> cs[i].id]

Contract == INSTANCE AssessmentContract WITH
    Requests <- {Ids(cs) : cs \in ControlLists},
    Evidence <- EvidenceRef,
    Tool     <- Tools,
    NoReport <- None,
    request  <- Ids(controls),
    decided  <- Decisions(verdicts),
    report   <- IF node = "END" THEN Decisions(final_report.verdicts) ELSE None,
    raised   <- error # "none"

\* Every run of the graph is a run the contract allows: verdicts in the order of
\* the request, each supported by what was really scanned and reviewed, and the
\* report made of exactly these.
ImplementsContract == Contract!Spec

=============================================================================
