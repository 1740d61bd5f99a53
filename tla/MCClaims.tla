-------------------------------- MODULE MCClaims --------------------------------
(***************************************************************************)
(* Statements that the repository's documents and comments make about a    *)
(* run, checked against what the code does. Each of them is violated; the  *)
(* README discusses the counterexamples.                                   *)
(***************************************************************************)
EXTENDS MCComplianceGraph

MCOneOrTwo == {<<SI2>>, <<PL1, AC6>>}

\* docs/SPEC.md:275, "On any tool error [...] the affected control is
\* not_assessable with an error note": a control with a failed scanner has a
\* verdict that names the failure.
ToolErrorIsNoted ==
    \A i \in DOMAIN verdicts :
        FailedTools(i) # {} =>
            /\ verdicts[i].verdict = "not_assessable"
            /\ verdicts[i].verifier_notes.errors = FailedTools(i)

(* The recursion limit with the values of the code: the 14 controls of        *)
(* data/controls.yaml, GRAPH_RECURSION_LIMIT = 200 and MAX_VERIFIER_ATTEMPTS = 6, *)
(* a setting that _parse_max_verifier_attempts accepts. Only the runs in which  *)
(* every draft is not_assessable and rejected are followed.                   *)
MCKnowledgeBase == {[k \in 1 .. 14 |-> PL1]}

Rejecting ==
    /\ error' # "node_exception"
    /\ draft_verdict' # None =>
          draft_verdict'.verdict = "not_assessable" /\ draft_verdict'.verifier_status # "passed"

SpecRejecting == Init /\ [][Next /\ Rejecting]_vars

\* graph.py:57-64, "After this many rejections the verdict is force-downgraded
\* to not_assessable", "200 gives comfortable headroom": a run whose drafts are all
\* rejected is not cut short by the recursion limit.
HeadroomIsComfortable == error # "GraphRecursionError"

=============================================================================
