------------------------ MODULE ComplianceGraphInductive ------------------------
(***************************************************************************)
(* The inductive invariant of the assessment graph. The safety properties  *)
(* speak of finished controls; what makes them inductive is how the state  *)
(* of the control in progress relates to what the scanners and the         *)
(* Verifier have answered for it, node by node.                            *)
(***************************************************************************)
EXTENDS ComplianceGraph

\* The nodes between a control's collection and its verdict.
Working == {"synthesize", "verify", "finalize_control"}

\* How far the run is: what is committed, what has been scanned.
Progress ==
    /\ controls \in ControlLists
    /\ Len(verdicts) = control_idx
    /\ control_idx <= Len(controls)
    /\ node \in Working \cup {"collect"} => control_idx < Len(controls)
    /\ node \in {"final", "END"} => control_idx = Len(controls)
    /\ Len(trail) = control_idx + (IF node \in Working THEN 1 ELSE 0)

\* The collection of the i-th control, and the notes on its first n drafts.
Scanned(i) == CollectEvidence(controls[i], trail[i].scan)
RejectionNotes(i, n) == [k \in 1 .. n |-> [control |-> i - 1, attempt |-> k]]

\* A draft of the i-th control, and the last one as the Verifier left it.
Draft(i, class, status, attempt) ==
    [control_id |-> controls[i].id, verdict |-> class, evidence |-> Scanned(i).evidence,
     verifier_status |-> status, verifier_notes |-> NoNotes, attempt |-> attempt]

Reviewed(i) == Draft(i, LastReview(i).verdict,
                     IF LastReview(i).approved THEN "passed" ELSE "failed",
                     Len(Reviews(i)))

Rejections(i) == IF LastReview(i).approved THEN Len(Reviews(i)) - 1 ELSE Len(Reviews(i))

\* Reviews that leave the control open, and reviews that settle it.
AllRejected(i) == \A k \in DOMAIN Reviews(i) : ~Reviews(i)[k].approved
Open(i) == AllRejected(i) /\ Len(Reviews(i)) < MaxVerifierAttempts
Closed(i) ==
    /\ Reviews(i) # <<>>
    /\ Len(Reviews(i)) <= MaxVerifierAttempts
    /\ \A k \in 1 .. Len(Reviews(i)) - 1 : ~Reviews(i)[k].approved
    /\ LastReview(i).approved \/ Len(Reviews(i)) = MaxVerifierAttempts

\* The control in progress: its collection is its own, attempts and notes are
\* those of its reviews, and the draft is the one the reviews speak of.
InProgress ==
    LET i == control_idx + 1
    IN  /\ node \in Working =>
              /\ collection = Scanned(i)
              /\ collection \in CollectionResult
              /\ verifier_attempts = Len(Reviews(i))
        /\ node \in {"synthesize", "verify"} =>
              /\ Open(i)
              /\ verifier_notes = RejectionNotes(i, Len(Reviews(i)))
        /\ node = "verify" =>
              \E class \in VerdictClass :
                  draft_verdict = Draft(i, class, "not_run", Len(Reviews(i)) + 1)
        /\ node = "finalize_control" =>
              /\ Closed(i)
              /\ draft_verdict = Reviewed(i)
              /\ verifier_notes = RejectionNotes(i, Rejections(i))

\* A finished control: its reviews settle it, and its verdict is what
\* finalize_control makes of the last reviewed draft.
Settled(i) ==
    /\ Closed(i)
    /\ verdicts[i] = Finalized(Reviewed(i), Scanned(i), Len(Reviews(i)),
                               RejectionNotes(i, Rejections(i)))

IInv ==
    /\ TypeOK
    /\ Progress
    /\ InProgress
    /\ \A i \in DOMAIN verdicts : Settled(i)

\* The node invocations used up so far are within graph.py's worst case.
StepsUsed ==
    LET done == control_idx * StepsPerControl
    IN  error = "none" =>
            /\ node = "supervisor" => steps <= done
            /\ node \in {"collect", "final"} => steps <= done + 1
            /\ node \in {"synthesize", "finalize_control"} =>
                  steps <= done + 2 + 2 * verifier_attempts
            /\ node = "verify" => steps <= done + 3 + 2 * verifier_attempts
            /\ node = "END" => steps <= done + 2

=============================================================================
