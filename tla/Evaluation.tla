------------------------------- MODULE Evaluation -------------------------------
(***************************************************************************)
(* The evaluation harness (evaluation.py): run_eval loads the golden set,  *)
(* assesses every fixture repository once, pairs each human-verified case  *)
(* with the verdict on its control, scores the pairs and gates on the      *)
(* macro-F1. One action per fixture, since each is one call of assess_fn.  *)
(*                                                                         *)
(* assess_fn, by default the assessment graph, is environment: it returns  *)
(* any verdicts, leaves a control out, or raises. f1_score of scikit-learn *)
(* is external, and modelled by its definition. A score and a threshold    *)
(* are integers in units of 1 / Unit, which is exact for scores when Unit  *)
(* is a multiple of every denominator, and as fine as one likes for        *)
(* thresholds; reported scores are in 1 / 10000, the four decimals to      *)
(* which the report is rounded. Floating point, rationales, the weighted   *)
(* F1 and the verifier's statistics are left out.                          *)
(***************************************************************************)
EXTENDS Lists, FiniteSets

CONSTANTS
    Fixture,      \* directories under the fixtures root, and names that are none
    ControlIds,
    GoldenSets,   \* the contents the golden-set file may have
    Malformed,    \* the golden-set file is missing, no YAML, or has a bad case
    Thresholds,   \* the thresholds a run may be given
    Invalid,      \* a threshold outside [0, 1], or one that is no number
    Unit,         \* scores and thresholds are counted in 1 / Unit
    NoDirectory,  \* a fixture's directory is missing
    RaisedError,  \* its assessment raised
    None

Label == {"satisfied", "partial", "gap", "not_assessable"}

GoldenCase == [id : Nat, repo_fixture : Fixture, control_id : ControlIds,
               expected_verdict : Label, human_verified : BOOLEAN]

\* GoldenCase and load_golden_cases validate the cases, but not that ids differ.
ASSUME GoldenSetsAssumption ==
    GoldenSets \subseteq Seq(GoldenCase) /\ Malformed \notin GoldenSets

\* resolve_threshold takes any number in [0, 1].
ASSUME ThresholdsAssumption ==
    /\ Thresholds \subseteq 0 .. Unit
    /\ Invalid \notin Thresholds
    /\ Unit \in Nat \ {0}

\* The unit is fine enough to tell the score of one right case from none.
ASSUME UnitAssumption == \A cs \in GoldenSets : 4 * Len(cs) <= Unit

\* None is no status, no outcome of an assessment, no verdict and no report.
ASSUME NoneAssumption ==
    /\ None \notin Int /\ None \notin Label
    /\ None \notin {NoDirectory, RaisedError}
    /\ \A ids \in SUBSET ControlIds : None \notin [ids -> Label \cup {None}]
    /\ None \notin [num_cases : Nat, num_errors : Nat, macro_f1 : Nat, passed : BOOLEAN,
                    failures : SUBSET Nat]

VARIABLES
    golden,      \* the content of the golden-set file
    threshold,   \* --threshold, or EVAL_MACRO_F1_THRESHOLD
    chat_model,  \* whether CHAT_MODEL is set
    cases,       \* the verified cases, or None before they are loaded
    results,     \* EvalCaseResults so far
    report,      \* the EvalReport written, or None
    exit         \* the exit status, or None

(* Observer, which run_eval does not read. *)
VARIABLE
    answers      \* answers[f]: what the assessment of fixture f came to, or None

vars == <<golden, threshold, chat_model, cases, results, report, exit, answers>>

-----------------------------------------------------------------------------
(* Cases and results *)

VerifiedCases(cs) == Filter(cs, {c \in SE!ToSet(cs) : c.human_verified})

EvalCaseResult == [case : GoldenCase, predicted : Label \cup {None}]

\* assess_fn on one fixture: its directory is missing or the assessment raises,
\* or there is a verdict for the controls that are asked for, except some.
Answer(ids) == {NoDirectory, RaisedError} \cup [ids -> Label \cup {None}]

CasesOf(f, cs) == Filter(cs, {c \in SE!ToSet(cs) : c.repo_fixture = f})
ControlIdsOf(f, cs) == {c.control_id : c \in SE!ToSet(CasesOf(f, cs))}

(* The definitions named ...Defect are the ones that follow them with a bug a    *)
(* maintainer might make; no specification uses them.                         *)

\* Defect: cases of a fixture that could not be assessed are skipped.
PairedDefect(f, cs, answer) ==
    IF answer \in {NoDirectory, RaisedError} THEN <<>>
    ELSE [k \in DOMAIN CasesOf(f, cs) |->
            [case |-> CasesOf(f, cs)[k], predicted |-> answer[CasesOf(f, cs)[k].control_id]]]

\* Defect: the verdicts of one fixture are paired with the cases of all.
PairedWithAll(f, cs, answer) ==
    [k \in DOMAIN cs |->
        [case      |-> cs[k],
         predicted |-> IF \/ answer \in {NoDirectory, RaisedError}
                          \/ cs[k].control_id \notin ControlIdsOf(f, cs)
                       THEN None ELSE answer[cs[k].control_id]]]

\* Each case of the fixture with its prediction; without one it is an error.
Paired(f, cs, answer) ==
    LET mine == CasesOf(f, cs)
    IN  [k \in DOMAIN mine |->
            [case      |-> mine[k],
             predicted |-> IF answer \in {NoDirectory, RaisedError} THEN None
                           ELSE answer[mine[k].control_id]]]

-----------------------------------------------------------------------------
(* compute_metrics *)

Scored(rs) == {k \in DOMAIN rs : rs[k].predicted # None}
Errors(rs) == DOMAIN rs \ Scored(rs)

\* Classes that no scored case expects or has predicted do not count.
Present(rs) == {rs[k].case.expected_verdict : k \in Scored(rs)}
               \cup {rs[k].predicted : k \in Scored(rs)}

\* Defect: all four classes count, also those that do not occur.
MeanDefect(f1, present) ==
    FE!MapThenSumSet(LAMBDA l : f1[l], present) \div Cardinality(Label)

\* average="macro"
Mean(f1, present) == FE!MapThenSumSet(LAMBDA l : f1[l], present) \div Cardinality(present)

\* Twice the true positives, by all that is predicted or expected.
F1(rs, l) ==
    LET expected  == {k \in Scored(rs) : rs[k].case.expected_verdict = l}
        predicted == {k \in Scored(rs) : rs[k].predicted = l}
    IN  (Unit * 2 * Cardinality(expected \cap predicted))
            \div (Cardinality(expected) + Cardinality(predicted))

\* Without a scored case the score is zero.
MacroF1(rs) ==
    IF Scored(rs) = {} THEN 0
    ELSE Mean([l \in Present(rs) |-> F1(rs, l)], Present(rs))

\* round(macro_f1, 4)
Rounded(score) == (score * 10000 + Unit \div 2) \div Unit

-----------------------------------------------------------------------------
(* run_eval *)

Init ==
    /\ golden \in GoldenSets \cup {Malformed}
    /\ threshold \in Thresholds \cup {Invalid}
    /\ chat_model \in BOOLEAN
    /\ cases = None
    /\ results = <<>>
    /\ report = None
    /\ exit = None
    /\ answers = [f \in Fixture |-> None]

\* CHAT_MODEL, the threshold, the golden set: what evaluation cannot do without.
Configured ==
    /\ chat_model
    /\ threshold # Invalid
    /\ golden # Malformed
    /\ VerifiedCases(golden) # <<>>

Refuse ==
    /\ cases = None /\ exit = None
    /\ ~Configured
    /\ exit' = 2
    /\ UNCHANGED <<golden, threshold, chat_model, cases, results, report, answers>>

Load ==
    /\ cases = None /\ exit = None
    /\ Configured
    /\ cases' = VerifiedCases(golden)
    /\ UNCHANGED <<golden, threshold, chat_model, results, report, exit, answers>>

\* The cases of fixtures that are still to be assessed; a fixture's turn comes
\* with its first case.
Pending == Filter(cases, {c \in SE!ToSet(cases) : answers[c.repo_fixture] = None})

Running == cases # None /\ exit = None

Assess ==
    /\ Running /\ Pending # <<>>
    /\ LET f == Head(Pending).repo_fixture
       IN  \E answer \in Answer(ControlIdsOf(f, cases)) :
              /\ answers' = [answers EXCEPT ![f] = answer]
              /\ results' = results \o Paired(f, cases, answer)
    /\ UNCHANGED <<golden, threshold, chat_model, cases, report, exit>>

\* Defect: the rounded score is compared.
PassedDefect(rs, gate) ==
    Scored(rs) # {} /\ Errors(rs) = {} /\ Rounded(MacroF1(rs)) * Unit >= gate * 10000

\* The gate compares the score before it is rounded for the report.
Passed(rs, gate) ==
    /\ Scored(rs) # {}
    /\ Errors(rs) = {}
    /\ MacroF1(rs) >= gate

EvalReport(rs, gate) ==
    [num_cases  |-> Cardinality(Scored(rs)),
     num_errors |-> Cardinality(Errors(rs)),
     macro_f1   |-> Rounded(MacroF1(rs)),
     passed     |-> Passed(rs, gate),
     failures   |-> Errors(rs) \cup
                    {k \in Scored(rs) : rs[k].predicted # rs[k].case.expected_verdict}]

\* The report is written whether or not the gate is passed.
Report ==
    /\ Running /\ Pending = <<>>
    /\ report' = EvalReport(results, threshold)
    /\ exit' = IF report'.passed THEN 0 ELSE 1
    /\ UNCHANGED <<golden, threshold, chat_model, cases, results, answers>>

Next == Refuse \/ Load \/ Assess \/ Report

Spec == Init /\ [][Next]_vars

-----------------------------------------------------------------------------
(* Correctness *)

Occurrences(c, s) == Cardinality({k \in DOMAIN s : s[k] = c})

\* No case is lost, counted twice or counted without review, whatever fails: a
\* finished evaluation has one result per verified case of the golden set, also
\* for fixtures that are missing or raise and for cases that share a control.
NoCaseIsLost ==
    report # None =>
        \A c \in SE!ToSet(golden) :
            Cardinality({k \in DOMAIN results : results[k].case = c})
                = IF c.human_verified THEN Occurrences(c, golden) ELSE 0

\* A prediction is the verdict on the case's control in the case's own fixture,
\* also when another fixture has a case for the same control.
PredictionIsItsOwn ==
    \A k \in DOMAIN results :
        LET c == results[k].case
        IN  results[k].predicted # None =>
                /\ answers[c.repo_fixture] \notin {None, NoDirectory, RaisedError}
                /\ answers[c.repo_fixture][c.control_id] = results[k].predicted

\* The results that a reviewer would call right.
Right == {k \in Scored(results) : results[k].predicted = results[k].case.expected_verdict}

\* The gate cannot be passed by a broken evaluation: status 0 means that every
\* verified case was scored, that the exact score reaches the threshold, and that a
\* threshold of 1 admits no mistake. The score in the report reaches the first four
\* decimals of the threshold; it may show less than a threshold with more of them. A
\* configuration problem is told from a missed threshold: only the latter has a
\* report.
GateIsHonest ==
    /\ exit \in {0, 1} <=> report # None
    /\ exit = 0 =>
        /\ \A c \in SE!ToSet(VerifiedCases(golden)) :
              answers[c.repo_fixture] \notin {None, NoDirectory, RaisedError}
              /\ answers[c.repo_fixture][c.control_id] # None
        /\ MacroF1(results) >= threshold
        /\ report.macro_f1 >= (threshold * 10000) \div Unit
        /\ threshold = Unit => report.failures = {}

\* A subset of the golden set is scored like the whole one: classes that do not
\* occur do not pull the score down. It is 1 exactly when every scored case is
\* right and 0 exactly when none is, and the failures listed are all the others.
ScoreIsFair ==
    report # None /\ Scored(results) # {} =>
        /\ MacroF1(results) = Unit <=> Right = Scored(results)
        /\ MacroF1(results) = 0 <=> Right = {}
        /\ report.failures = DOMAIN results \ Right

=============================================================================
