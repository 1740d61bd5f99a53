-------------------------- MODULE AssessmentContract --------------------------
(***************************************************************************)
(* What run_assessment (graph.py) promises its caller, with no graph, no   *)
(* retry loop and no guards: the controls of a request are decided one by  *)
(* one and in order, each once and for good; an affirmative verdict is     *)
(* given only on evidence, with no scanner failure and with the Verifier's *)
(* consent; the report is the list of all decisions, and a run that raises *)
(* delivers none of them.                                                  *)
(***************************************************************************)
EXTENDS Naturals, Sequences

CONSTANTS
    Requests,     \* the lists of control ids a run may be asked for
    Evidence,     \* what a verdict may cite
    Tool,         \* what may fail while evidence is collected
    NoReport      \* run_assessment has not returned

VARIABLES
    request,  \* the control ids to decide, in order
    decided,  \* the decisions so far
    report,   \* what run_assessment returned, or NoReport
    raised    \* run_assessment raised

vars == <<request, decided, report, raised>>

Class == {"satisfied", "partial", "gap", "not_assessable"}

\* A decision with its grounds.
Decision == [control_id : {request[i] : i \in DOMAIN request}, verdict : Class,
             evidence : SUBSET Evidence, failed : SUBSET Tool, approved : BOOLEAN]

\* ControlVerdict's docstring: an affirmative verdict must have evidence and no
\* collection errors; and it is one the Verifier let pass.
Supported(d) ==
    d.verdict # "not_assessable" => d.evidence # {} /\ d.failed = {} /\ d.approved

Running == report = NoReport /\ ~raised

Init ==
    /\ request \in Requests
    /\ decided = <<>>
    /\ report = NoReport
    /\ raised = FALSE

Decide ==
    /\ Running
    /\ Len(decided) < Len(request)
    /\ \E d \in Decision :
          /\ d.control_id = request[Len(decided) + 1]
          /\ Supported(d)
          /\ decided' = Append(decided, d)
    /\ UNCHANGED <<request, report, raised>>

Deliver ==
    /\ Running
    /\ Len(decided) = Len(request)
    /\ report' = decided
    /\ UNCHANGED <<request, decided, raised>>

Raise ==
    /\ Running
    /\ raised' = TRUE
    /\ UNCHANGED <<request, decided, report>>

Next == Decide \/ Deliver \/ Raise

Spec == Init /\ [][Next]_vars

=============================================================================
