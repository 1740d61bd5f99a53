---------------------------- MODULE ComplianceGraph ----------------------------
(***************************************************************************)
(* The assessment graph (graph.py): for each control of a run, in order,   *)
(* supervisor -> collect -> synthesize <-> verify -> finalize_control, and *)
(* a final node that compiles the report. One action per node; a node is   *)
(* one LangGraph superstep, so that its state update and the routing that  *)
(* follows it are one step. run_assessment invokes the graph once.         *)
(*                                                                         *)
(* The two LLMs are environment: the Synthesizer may draft any verdict     *)
(* class, the Verifier may approve or reject anything, and either call may *)
(* raise. LangGraph is external; it is modelled by what graph.py relies    *)
(* on: it applies a node's update, follows the edges, counts the node      *)
(* invocations and raises GraphRecursionError past RecursionLimit.         *)
(*                                                                         *)
(* Left out: rationale, confidence, prompts' wording, timestamps, run ids. *)
(***************************************************************************)
EXTENDS EvidenceCollector, FiniteSets

CONSTANTS
    MaxVerifierAttempts,  \* MAX_VERIFIER_ATTEMPTS
    RecursionLimit,       \* GRAPH_RECURSION_LIMIT
    ControlLists,         \* the lists of controls a run may be asked to assess
    None                  \* Python's None

\* _parse_max_verifier_attempts refuses anything else when the module is imported.
ASSUME MaxVerifierAttemptsAssumption == MaxVerifierAttempts \in Nat \ {0}

ASSUME RecursionLimitAssumption == RecursionLimit \in Nat

\* A list may be empty (dynamic selection found nothing) and may name a control
\* twice (the ids given to --controls are not deduplicated).
ASSUME ControlListsAssumption == ControlLists \subseteq Seq(Control)

VARIABLES
    controls,           \* the controls to assess, fixed at START
    control_idx,        \* index of the control being assessed, from 0
    collection,         \* CollectionResult of the current control, or None
    draft_verdict,      \* ControlVerdict under review, or None
    verifier_attempts,  \* how often verify has run for the current control
    verifier_notes,     \* the rejection notes for the current control
    verdicts,           \* the finalized verdicts
    final_report        \* FinalReport, or None

VARIABLES
    node,    \* LangGraph: the node to run next, or "END"
    steps,   \* LangGraph: the node invocations so far
    error    \* the exception that ended compiled.invoke, if one did

(* Observers, which no node reads. *)
VARIABLES
    prompt,  \* the human turn last sent to the Synthesizer
    trail    \* per control: what the scanners answered, what the Verifier decided

state    == <<controls, control_idx, collection, draft_verdict, verifier_attempts,
              verifier_notes, verdicts, final_report>>
runtime  == <<node, steps, error>>
observer == <<prompt, trail>>
vars     == <<state, runtime, observer>>

-----------------------------------------------------------------------------
(* Data *)

VerdictClass == {"satisfied", "partial", "gap", "not_assessable"}
Affirmative  == VerdictClass \ {"not_assessable"}
Status       == {"passed", "failed", "not_run"}

\* A rejection note is named by the review that produced it.
Note == [control : Nat, attempt : Nat]

\* ControlVerdict.verifier_notes: "", "[fail-closed: <errors>]" or
\* "[verifier-exhausted ...] <notes>".
NotesField == [tag : {"", "fail-closed", "verifier-exhausted"},
               errors : SUBSET Tools, notes : Seq(Note)]
NoNotes == [tag |-> "", errors |-> {}, notes |-> <<>>]

ControlVerdict == [control_id : ControlId, verdict : VerdictClass,
                   evidence : SUBSET EvidenceRef, verifier_status : Status,
                   verifier_notes : NotesField, attempt : Nat]

(* The definitions named ...Defect are the ones that follow them with a bug a    *)
(* maintainer might make; no specification uses them.                         *)

\* Defect: feedback starts with the third attempt.
SynthesizerHumanDefect(control, coll, notes, attempt) ==
    LET feedback == notes # <<>> /\ attempt > 2
    IN  [control_id  |-> control.id,
         evidence    |-> coll.evidence,
         errors      |-> coll.errors,
         limitations |-> coll.limitations,
         rejected    |-> IF feedback THEN attempt - 1 ELSE 0,
         feedback    |-> IF feedback THEN notes ELSE <<>>]

\* _synthesizer_human: the feedback on earlier drafts is there from the second
\* attempt on.
SynthesizerHuman(control, coll, notes, attempt) ==
    LET feedback == notes # <<>> /\ attempt > 1
    IN  [control_id  |-> control.id,
         evidence    |-> coll.evidence,
         errors      |-> coll.errors,
         limitations |-> coll.limitations,
         rejected    |-> IF feedback THEN attempt - 1 ELSE 0,
         feedback    |-> IF feedback THEN notes ELSE <<>>]

Current == controls[control_idx + 1]

\* What is observed of the scanners: those that are not run for a control have
\* nothing to say.
Heard(control, scan) == [t \in Tools |-> IF t \in ToolsFor(control) THEN scan[t] ELSE {}]

-----------------------------------------------------------------------------
(* The runtime *)

\* Node n is invoked: it is its turn and the recursion limit is not used up.
Invoke(n) ==
    /\ node = n
    /\ error = "none"
    /\ steps < RecursionLimit
    /\ steps' = steps + 1

Goto(n) == node' = n /\ UNCHANGED error

Over == node = "END" \/ error # "none"

\* Defect: the last control is skipped.
RouteSupervisorDefect == IF control_idx + 1 >= Len(controls) THEN "final" ELSE "collect"

RouteSupervisor == IF control_idx >= Len(controls) THEN "final" ELSE "collect"

\* Defect: one retry too many.
RouteVerifyDefect(draft, attempts) ==
    IF \/ draft.verifier_status = "passed"
       \/ attempts > MaxVerifierAttempts
    THEN "finalize_control" ELSE "synthesize"

\* route_verify: approved, retries remain, or exhausted.
RouteVerify(draft, attempts) ==
    IF \/ draft.verifier_status = "passed"
       \/ attempts >= MaxVerifierAttempts
    THEN "finalize_control" ELSE "synthesize"

-----------------------------------------------------------------------------
(* The nodes *)

\* _initial_state
Init ==
    /\ controls \in ControlLists
    /\ control_idx = 0
    /\ collection = None
    /\ draft_verdict = None
    /\ verifier_attempts = 0
    /\ verifier_notes = <<>>
    /\ verdicts = <<>>
    /\ final_report = None
    /\ node = "supervisor"
    /\ steps = 0
    /\ error = "none"
    /\ prompt = None
    /\ trail = <<>>

Supervisor ==
    /\ Invoke("supervisor")
    /\ Goto(RouteSupervisor)
    /\ UNCHANGED <<state, observer>>

\* Defect: attempts and notes of the previous control are not cleared.
CollectDefect ==
    /\ Invoke("collect")
    /\ \E scan \in ScanOutcome :
          /\ collection' = CollectEvidence(Current, scan)
          /\ trail' = Append(trail, [scan |-> Heard(Current, scan), reviews |-> <<>>])
    /\ draft_verdict' = None
    /\ Goto("synthesize")
    /\ UNCHANGED <<controls, control_idx, verifier_attempts, verifier_notes, verdicts,
                   final_report, prompt>>

\* A fresh collection, and a reset of the verifier's state: it is here, and not
\* in finalize_control, that attempts and notes are cleared.
Collect ==
    /\ Invoke("collect")
    /\ \E scan \in ScanOutcome :
          /\ collection' = CollectEvidence(Current, scan)
          /\ trail' = Append(trail, [scan |-> Heard(Current, scan), reviews |-> <<>>])
    /\ verifier_attempts' = 0
    /\ verifier_notes' = <<>>
    /\ draft_verdict' = None
    /\ Goto("synthesize")
    /\ UNCHANGED <<controls, control_idx, verdicts, final_report, prompt>>

Synthesize ==
    /\ Invoke("synthesize")
    /\ LET attempt == verifier_attempts + 1
       IN  /\ prompt' = SynthesizerHuman(Current, collection, verifier_notes, attempt)
           /\ \E class \in VerdictClass :
                 draft_verdict' = [control_id      |-> Current.id,
                                   verdict         |-> class,
                                   evidence        |-> collection.evidence,
                                   verifier_status |-> "not_run",
                                   verifier_notes  |-> NoNotes,
                                   attempt         |-> attempt]
    /\ Goto("verify")
    /\ UNCHANGED <<controls, control_idx, collection, verifier_attempts,
                   verifier_notes, verdicts, final_report, trail>>

Verify ==
    /\ Invoke("verify")
    /\ \E approved \in BOOLEAN :
          LET attempts == verifier_attempts + 1
              note     == [control |-> control_idx, attempt |-> attempts]
              draft    == [draft_verdict EXCEPT
                              !.verifier_status = IF approved THEN "passed" ELSE "failed"]
              review   == [verdict |-> draft.verdict, approved |-> approved]
          IN  /\ verifier_attempts' = attempts
              /\ verifier_notes' = IF approved THEN verifier_notes
                                   ELSE Append(verifier_notes, note)
              /\ draft_verdict' = draft
              /\ trail' = [trail EXCEPT ![Len(trail)].reviews = Append(@, review)]
              /\ Goto(RouteVerify(draft, attempts))
    /\ UNCHANGED <<controls, control_idx, collection, verdicts, final_report, prompt>>

\* Defect: tool errors do not matter when some scanner found something.
FailClosedGuardDefect(draft, coll) ==
    draft.verdict # "not_assessable" /\ coll.evidence = {}

\* Guard 1: an affirmative verdict needs scanner evidence and no tool errors.
FailClosedGuard(draft, coll) ==
    /\ draft.verdict # "not_assessable"
    /\ coll.errors # {} \/ coll.evidence = {}

\* Defect: an approval on the last attempt does not count.
ExhaustedGuardDefect(draft, attempts) == attempts >= MaxVerifierAttempts

\* Guard 2: the loop cap was reached without an approval.
ExhaustedGuard(draft, attempts) ==
    /\ draft.verifier_status # "passed"
    /\ attempts >= MaxVerifierAttempts

\* Defect: verdict and status are swapped.
DowngradeDefect(draft, notes) ==
    [draft EXCEPT !.verdict = "failed",
                  !.verifier_status = "not_run",
                  !.verifier_notes = notes]

Downgrade(draft, notes) ==
    [draft EXCEPT !.verdict = "not_assessable",
                  !.verifier_status = "failed",
                  !.verifier_notes = notes]

\* The verdict that finalize_control commits: guard 1, else guard 2, else the draft.
Finalized(draft, coll, attempts, notes) ==
    IF FailClosedGuard(draft, coll)
    THEN Downgrade(draft, [tag |-> "fail-closed", errors |-> coll.errors, notes |-> <<>>])
    ELSE IF ExhaustedGuard(draft, attempts)
    THEN Downgrade(draft, [tag |-> "verifier-exhausted", errors |-> {}, notes |-> notes])
    ELSE draft

\* Defect: the reducer of verdicts is forgotten, so that a verdict replaces the others.
FinalizeControlReplaces ==
    /\ Invoke("finalize_control")
    /\ verdicts' = <<Finalized(draft_verdict, collection,
                               verifier_attempts, verifier_notes)>>
    /\ control_idx' = control_idx + 1
    /\ draft_verdict' = None
    /\ collection' = None
    /\ Goto("supervisor")
    /\ UNCHANGED <<controls, verifier_attempts, verifier_notes, final_report, observer>>

\* Defect: the run does not go on to the next control.
FinalizeControlStays ==
    /\ Invoke("finalize_control")
    /\ verdicts' = Append(verdicts, Finalized(draft_verdict, collection,
                                              verifier_attempts, verifier_notes))
    /\ draft_verdict' = None
    /\ collection' = None
    /\ Goto("supervisor")
    /\ UNCHANGED <<controls, control_idx, verifier_attempts, verifier_notes,
                   final_report, observer>>

FinalizeControl ==
    /\ Invoke("finalize_control")
    /\ verdicts' = Append(verdicts, Finalized(draft_verdict, collection,
                                              verifier_attempts, verifier_notes))
    /\ control_idx' = control_idx + 1
    /\ draft_verdict' = None
    /\ collection' = None
    /\ Goto("supervisor")
    /\ UNCHANGED <<controls, verifier_attempts, verifier_notes, final_report, observer>>

\* The positions of the verdicts of one class; final_node reports their numbers.
OfClass(vs, class) == {i \in DOMAIN vs : vs[i].verdict = class}

Report(vs) == [verdicts            |-> vs,
               controls_assessed   |-> Len(vs),
               satisfied_count     |-> Cardinality(OfClass(vs, "satisfied")),
               partial_count       |-> Cardinality(OfClass(vs, "partial")),
               gap_count           |-> Cardinality(OfClass(vs, "gap")),
               not_assessable_count |-> Cardinality(OfClass(vs, "not_assessable"))]

Final ==
    /\ Invoke("final")
    /\ final_report' = Report(verdicts)
    /\ Goto("END")
    /\ UNCHANGED <<controls, control_idx, collection, draft_verdict, verifier_attempts,
                   verifier_notes, verdicts, observer>>

\* An LLM call raises (unset CHAT_MODEL, provider failure, output that does not
\* parse): the node's update is lost and the exception leaves compiled.invoke.
NodeRaises ==
    /\ node \in {"synthesize", "verify"}
    /\ Invoke(node)
    /\ error' = "node_exception"
    /\ UNCHANGED <<state, node, observer>>

\* LangGraph's backstop: GraphRecursionError leaves compiled.invoke.
OutOfSteps ==
    /\ node # "END"
    /\ error = "none"
    /\ steps >= RecursionLimit
    /\ error' = "GraphRecursionError"
    /\ UNCHANGED <<state, node, steps, observer>>

\* run_assessment has returned the report or raised.
Stopped == Over /\ UNCHANGED vars

Next ==
    \/ Supervisor
    \/ Collect
    \/ Synthesize
    \/ Verify
    \/ FinalizeControl
    \/ Final
    \/ NodeRaises
    \/ OutOfSteps
    \/ Stopped

Spec == Init /\ [][Next]_vars

\* compiled.invoke is a plain loop in one thread: it goes on as long as it can,
\* provided each LLM call returns or raises.
Fairness == WF_vars(Next)

FairSpec == Spec /\ Fairness

-----------------------------------------------------------------------------
(* Correctness *)

Nodes == {"supervisor", "collect", "synthesize", "verify", "finalize_control", "final"}

Review == [verdict : VerdictClass, approved : BOOLEAN]
Scan == [Tools -> {Raised} \cup SUBSET ToolFinding]
TrailEntry == [scan : Scan, reviews : Seq(Review)]

\* Types of ComplianceState and of the runtime.
TypeOK ==
    /\ controls \in Seq(Control)
    /\ control_idx \in Nat
    /\ collection \in CollectionResult \cup {None}
    /\ draft_verdict \in ControlVerdict \cup {None}
    /\ verifier_attempts \in Nat
    /\ verifier_notes \in Seq(Note)
    /\ verdicts \in Seq(ControlVerdict)
    /\ node \in Nodes \cup {"END"}
    /\ steps \in Nat
    /\ error \in {"none", "node_exception", "GraphRecursionError"}
    /\ trail \in Seq(TrailEntry)

\* The evidence that the scanners' answers for the i-th control amount to.
ScannedEvidence(i) == CollectEvidence(controls[i], trail[i].scan).evidence

\* The scanners that the i-th control needed and that raised.
FailedTools(i) == {t \in ToolsFor(controls[i]) : trail[i].scan[t] = Raised}

Reviews(i) == trail[i].reviews
LastReview(i) == Reviews(i)[Len(Reviews(i))]

\* Fail-closed (graph.py module docstring, AGENTS rule 7): an affirmative verdict
\* in the output rests on evidence that this control's own scan produced, none of
\* the scanners it needed raised, and it is the very class the Verifier approved.
FailClosed ==
    \A i \in DOMAIN verdicts :
        verdicts[i].verdict \in Affirmative =>
            /\ verdicts[i].evidence # {}
            /\ FailedTools(i) = {}
            /\ LastReview(i) = [verdict |-> verdicts[i].verdict, approved |-> TRUE]

\* The verdict list and the control list stay aligned, nothing is skipped,
\* assessed twice or carried over: the i-th verdict is for the i-th control, cites
\* what the scanners found for that control and counts that control's reviews.
VerdictsAlign ==
    /\ Len(verdicts) = control_idx
    /\ control_idx <= Len(controls)
    /\ \A i \in DOMAIN verdicts :
          /\ verdicts[i].control_id = controls[i].id
          /\ verdicts[i].evidence = ScannedEvidence(i)
          /\ verdicts[i].attempt = Len(Reviews(i))

\* The verify loop, seen from outside: a control gets at most
\* MAX_VERIFIER_ATTEMPTS reviews, no draft is reviewed after an approval, and a
\* control is finished only by an approval or by using up every attempt.
ReviewLoop ==
    \A i \in DOMAIN trail :
        /\ Len(Reviews(i)) <= MaxVerifierAttempts
        /\ \A k \in 1 .. Len(Reviews(i)) - 1 : ~Reviews(i)[k].approved
        /\ i \in DOMAIN verdicts =>
              /\ Reviews(i) # <<>>
              /\ LastReview(i).approved \/ Len(Reviews(i)) = MaxVerifierAttempts

\* notes are exactly the rejections of control index i - 1, in order.
NotesOf(i, notes) ==
    /\ \A k \in DOMAIN notes :
          /\ notes[k] = [control |-> i - 1, attempt |-> k]
          /\ k \in DOMAIN Reviews(i)
          /\ ~Reviews(i)[k].approved
    /\ \A k \in DOMAIN Reviews(i) : ~Reviews(i)[k].approved => k \in DOMAIN notes

\* The feedback loop loses and mixes up nothing: a redraft is made with every
\* rejection of this control's earlier drafts and with none of another control's,
\* and an exhausted verdict quotes all of them.
FeedbackIsComplete ==
    /\ node = "verify" =>
          /\ NotesOf(Len(trail), prompt.feedback)
          /\ prompt.rejected = Len(Reviews(Len(trail)))
          /\ prompt.errors = FailedTools(Len(trail))
    /\ \A i \in DOMAIN verdicts :
          verdicts[i].verifier_notes.tag = "verifier-exhausted" =>
              /\ NotesOf(i, verdicts[i].verifier_notes.notes)
              /\ Len(verdicts[i].verifier_notes.notes) = MaxVerifierAttempts

\* No silent downgrade: a verdict other than the one last reviewed is
\* not_assessable, is marked failed and names a true reason.
DowngradesAreExplained ==
    \A i \in DOMAIN verdicts :
        LET v == verdicts[i]
        IN  /\ v.verdict # LastReview(i).verdict =>
                  v.verdict = "not_assessable" /\ v.verifier_notes.tag # ""
            /\ v.verifier_notes.tag # "" => v.verifier_status = "failed"
            /\ v.verifier_notes.tag = "fail-closed" =>
                  /\ v.verifier_notes.errors = FailedTools(i)
                  /\ FailedTools(i) # {} \/ v.evidence = {}
            /\ v.verifier_notes.tag = "verifier-exhausted" => ~LastReview(i).approved
            /\ v.verifier_status = "passed" <=> LastReview(i).approved /\ v.verifier_notes.tag = ""

\* A run that ends reports on every control it was asked about, once each and in
\* order, and the audit's counts add up.
ReportIsComplete ==
    node = "END" =>
        /\ Len(final_report.verdicts) = Len(controls)
        /\ \A i \in DOMAIN controls :
              final_report.verdicts[i].control_id = controls[i].id
        /\ final_report.controls_assessed =
              final_report.satisfied_count + final_report.partial_count
              + final_report.gap_count + final_report.not_assessable_count

\* graph.py's own worst case: supervisor, collect, MAX drafts, MAX reviews and
\* finalize_control per control, then supervisor and final.
StepsPerControl == 3 + 2 * MaxVerifierAttempts
Affordable == {cs \in ControlLists : Len(cs) * StepsPerControl + 2 <= RecursionLimit}

\* The worst case is one: within that budget the recursion limit is never met.
BackstopIsSlack == controls \in Affordable => error # "GraphRecursionError"

\* What a step may never do: revise, drop or reorder a committed verdict, or
\* commit one that the Verifier has not decided on in its present form.
CommitsOnlyReviewed ==
    [][ verdicts' # verdicts =>
          /\ Len(verdicts') = Len(verdicts) + 1
          /\ \A i \in DOMAIN verdicts : verdicts'[i] = verdicts[i]
          /\ draft_verdict.verifier_status # "not_run"
          /\ draft_verdict.attempt = verifier_attempts
          /\ draft_verdict.verdict = LastReview(Len(trail)).verdict ]_vars

\* Every assessment ends: with its report unless an LLM call raised, whatever the
\* two LLMs answer, when the recursion limit allows for the worst case.
RunEnds == controls \in Affordable ~> (node = "END" \/ error = "node_exception")

=============================================================================
