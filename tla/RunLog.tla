--------------------------------- MODULE RunLog ---------------------------------
(***************************************************************************)
(* The run log (run_log.py) around the assessment graph: instrument_node   *)
(* wraps every node in node_start / node_end events, the nodes log their   *)
(* own event before they return, and run_assessment logs run_start and, if *)
(* the graph raises, run_error. JSONLRunLogger.log opens the file, appends *)
(* one line and closes it, so a call writes its event or raises.           *)
(*                                                                         *)
(* Between the body of a node and its node_end event the graph's variables *)
(* hold the node's return value. LangGraph gets it only when the wrapper   *)
(* returns; when it raises, the run is over and nobody reads them again.   *)
(* What is on disk after the process is killed is the log of some          *)
(* reachable state, so invariants of the log hold for it as well.          *)
(***************************************************************************)
EXTENDS ComplianceGraph, Lists

VARIABLES
    log,      \* the events written so far
    pc,       \* where run_assessment is
    running,  \* the node whose wrapper is active
    thrown    \* the exception in flight, or "none"

logvars == <<log, pc, running, thrown>>
allvars == <<vars, logvars>>

-----------------------------------------------------------------------------
(* Logging *)

\* One call of logger.log: it appends the event, and control goes on at next; or
\* it raises, in place of whatever was in flight, and control goes to handler.
Log(event, next, handler) ==
    \/ /\ log' = Append(log, event)
       /\ pc' = next
       /\ UNCHANGED thrown
    \/ /\ pc' = handler
       /\ thrown' = "log_exception"
       /\ UNCHANGED log

NodeEvent(kind) == [event |-> kind, node |-> running]

ToolCall == [event            |-> "tool_call",
             control_id       |-> Current.id,
             evidence_count   |-> Cardinality(collection'.evidence),
             error_count      |-> Cardinality(collection'.errors),
             limitation_count |-> Cardinality(collection'.limitations)]

(* The definitions named after a defect are the ones that follow them with a bug *)
(* a maintainer might make; no specification uses them.                       *)

\* Defect: the number of the attempt is read before it is counted.
VerifierAttemptDefect == [event         |-> "verifier_attempt",
                          control_id    |-> draft_verdict.control_id,
                          attempt       |-> verifier_attempts,
                          draft_verdict |-> draft_verdict.verdict,
                          approved      |-> draft_verdict'.verifier_status = "passed"]

VerifierAttempt == [event         |-> "verifier_attempt",
                    control_id    |-> draft_verdict.control_id,
                    attempt       |-> verifier_attempts',
                    draft_verdict |-> draft_verdict.verdict,
                    approved      |-> draft_verdict'.verifier_status = "passed"]

VerdictFinalized == LET v == verdicts'[Len(verdicts')]
                    IN  [event           |-> "verdict_finalized",
                         control_id      |-> v.control_id,
                         verdict         |-> v.verdict,
                         verifier_status |-> v.verifier_status]

RunEnd == [event |-> "run_end", audit |-> [final_report' EXCEPT !.verdicts = <<>>]]

-----------------------------------------------------------------------------
(* The wrapper, step by step *)

LogInit ==
    /\ Init
    /\ log = <<>>
    /\ pc = "run_start"
    /\ running = None
    /\ thrown = "none"

\* run_start is logged outside run_assessment's try.
StartRun ==
    /\ pc = "run_start"
    /\ Log([event |-> "run_start", num_controls |-> Len(controls)], "next", "raised")
    /\ UNCHANGED <<vars, running>>

\* LangGraph picks the next node; its node_start is logged outside the
\* wrapper's try, so that a failure there leaves no node_error.
EnterNode ==
    /\ pc = "next"
    /\ ~Over
    /\ steps < RecursionLimit
    /\ running' = node
    /\ Log([event |-> "node_start", node |-> node], "body", "run_error")
    /\ UNCHANGED vars

\* The body of a node that logs nothing itself.
QuietBody ==
    /\ pc = "body"
    /\ Supervisor \/ Synthesize
    /\ pc' = "exit"
    /\ UNCHANGED <<log, running, thrown>>

\* The body of a node that logs its event just before it returns.
LoggingBody ==
    /\ pc = "body"
    /\ \/ Collect         /\ log' = Append(log, ToolCall)
       \/ Verify          /\ log' = Append(log, VerifierAttempt)
       \/ FinalizeControl /\ log' = Append(log, VerdictFinalized)
       \/ Final           /\ log' = Append(log, RunEnd)
    /\ pc' = "exit"
    /\ UNCHANGED <<running, thrown>>

\* The node's own log call raises: its result is lost.
BodyLogFails ==
    /\ pc = "body"
    /\ running \in {"collect", "verify", "finalize_control", "final"}
    /\ pc' = "handler"
    /\ thrown' = "log_exception"
    /\ UNCHANGED <<vars, log, running>>

BodyRaises ==
    /\ pc = "body"
    /\ NodeRaises
    /\ pc' = "handler"
    /\ thrown' = "node_exception"
    /\ UNCHANGED <<log, running>>

\* node_end is logged after the try: a failure loses the result of a node that
\* has succeeded.
ExitNode ==
    /\ pc = "exit"
    /\ Log(NodeEvent("node_end"), "next", "run_error")
    /\ UNCHANGED <<vars, running>>

\* Defect: the exception leaves the wrapper as another one.
HandleWraps ==
    /\ pc = "handler"
    /\ log' = Append(log, [event |-> "node_error", node |-> running, error_type |-> thrown])
    /\ pc' = "run_error"
    /\ thrown' = "RuntimeError"
    /\ UNCHANGED <<vars, running>>

\* Defect: node_end is logged in a finally clause, after a node_error as well.
HandleFinally ==
    /\ pc = "handler"
    /\ log' = log \o <<[event |-> "node_error", node |-> running, error_type |-> thrown],
                       NodeEvent("node_end")>>
    /\ pc' = "run_error"
    /\ UNCHANGED <<vars, running, thrown>>

\* except Exception: log node_error with the type of the exception, then raise.
Handle ==
    /\ pc = "handler"
    /\ Log([event |-> "node_error", node |-> running, error_type |-> thrown],
           "run_error", "run_error")
    /\ UNCHANGED <<vars, running>>

Exhaust ==
    /\ pc = "next"
    /\ OutOfSteps
    /\ pc' = "run_error"
    /\ thrown' = "GraphRecursionError"
    /\ UNCHANGED <<log, running>>

\* run_assessment's except: log run_error, then raise.
RunError ==
    /\ pc = "run_error"
    /\ Log([event |-> "run_error", error_type |-> thrown], "raised", "raised")
    /\ UNCHANGED <<vars, running>>

\* Defect: run_error is logged in a finally clause.
ReturnDefect ==
    /\ pc = "next"
    /\ node = "END"
    /\ pc' = "returned"
    /\ log' = Append(log, [event |-> "run_error", error_type |-> thrown])
    /\ UNCHANGED <<vars, running, thrown>>

Return ==
    /\ pc = "next"
    /\ node = "END"
    /\ pc' = "returned"
    /\ UNCHANGED <<vars, log, running, thrown>>

Ended == pc \in {"returned", "raised"} /\ UNCHANGED allvars

LogNext ==
    \/ StartRun
    \/ EnterNode
    \/ QuietBody
    \/ LoggingBody
    \/ BodyLogFails
    \/ BodyRaises
    \/ ExitNode
    \/ Handle
    \/ Exhaust
    \/ RunError
    \/ Return
    \/ Ended

LogSpec == LogInit /\ [][LogNext]_allvars

-----------------------------------------------------------------------------
(* Correctness *)

OfKind(events, kind) == Filter(events, {e \in SE!ToSet(events) : e.event = kind})
Logged(kind) == OfKind(log, kind)

\* The log is a true record of the run's decisions at every moment, also when
\* the process is killed or the file becomes unwritable: it has the scanner
\* calls, the Verifier's decisions and the verdicts, each once and in order, and
\* nothing that did not happen.
LogIsTrue ==
    /\ Len(Logged("tool_call")) = Len(trail)
    /\ \A i \in DOMAIN trail :
          LET e == Logged("tool_call")[i]
          IN  /\ e.control_id = controls[i].id
              /\ e.error_count = Cardinality(FailedTools(i))
              /\ e.evidence_count + e.error_count + e.limitation_count > 0
    /\ Logged("verifier_attempt") =
          SE!FlattenSeq([i \in DOMAIN trail |->
              [k \in DOMAIN Reviews(i) |->
                  [event |-> "verifier_attempt", control_id |-> controls[i].id,
                   attempt |-> k, draft_verdict |-> Reviews(i)[k].verdict,
                   approved |-> Reviews(i)[k].approved]]])
    /\ Logged("verdict_finalized") =
          [i \in DOMAIN verdicts |->
              [event |-> "verdict_finalized", control_id |-> controls[i].id,
               verdict |-> verdicts[i].verdict,
               verifier_status |-> verdicts[i].verifier_status]]

\* The events nest: run_start first; a node's own event and its node_end or
\* node_error come inside its own bracket; nothing follows an error but the
\* run_error; and node brackets never overlap.
LogNests ==
    \A k \in DOMAIN log :
        LET e == log[k]
            before == log[k - 1]
        IN  /\ e.event = "run_start" <=> k = 1
            /\ e.event = "node_start" => before.event \in {"run_start", "node_end"}
            /\ e.event \in {"tool_call", "verifier_attempt", "verdict_finalized", "run_end"} =>
                  before.event = "node_start"
            /\ e.event \in {"node_end", "node_error"} =>
                  \E j \in {k - 1, k - 2} \cap DOMAIN log :
                      log[j] = [event |-> "node_start", node |-> e.node]
            /\ k > 1 /\ before.event = "node_error" => e.event = "run_error"
            /\ e.event = "run_error" => k = Len(log)

\* The log tells how the run ended: a caller that gets the report has a log with
\* every bracket closed and the report's own totals, and a log that ends in
\* run_error belongs to a run that delivers nothing.
LogTellsOutcome ==
    /\ pc = "returned" =>
          /\ thrown = "none"
          /\ Logged("run_end") =
                <<[event |-> "run_end", audit |-> [final_report EXCEPT !.verdicts = <<>>]]>>
          /\ Len(Logged("node_start")) = steps
          /\ Len(Logged("node_end")) = steps
    /\ Logged("run_error") # <<>> => pc = "raised" /\ thrown # "none"
    /\ Logged("node_error") # <<>> => Logged("run_end") = <<>> \/ thrown = "log_exception"

\* As long as no log call has failed, run_assessment raises only what a node or
\* the recursion limit raised, with the matching run_error as the last line; and a
\* run whose run_end is logged goes on to return its report.
ReliableLogIsTransparent ==
    thrown # "log_exception" =>
        /\ pc = "raised" => /\ thrown = error /\ error # "none"
                            /\ log[Len(log)] = [event |-> "run_error", error_type |-> error]
        /\ Logged("run_end") # <<>> => thrown = "none"

=============================================================================
