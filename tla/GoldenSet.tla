-------------------------------- MODULE GoldenSet --------------------------------
(***************************************************************************)
(* The production of the golden set: the generator (generate_golden.py and *)
(* golden_generation.py), run any number of times on one output file, and  *)
(* the human who reviews that file in between, or meanwhile. Every run of  *)
(* the generator is a process; nothing locks the file, and a run may be    *)
(* killed between any two of its steps.                                    *)
(*                                                                         *)
(* Data. A case is its fixture, its control, its number (the end of its    *)
(* id), the human_verified flag and the run that wrote its label;          *)
(* questions, verdicts and hints follow the label and are left out, and so *)
(* is the digest the labeler reads. A file that load_golden_cases does not *)
(* accept (broken YAML, a malformed case) is invalid; its cases are still  *)
(* there for a human to repair.                                            *)
(***************************************************************************)
EXTENDS Lists

CONSTANTS
    Generators,     \* runs of the generator
    Fixtures,       \* directories below FIXTURES, in their order
    Controls,       \* what dynamic selection may select
    Selections,     \* what it may make of a fixture: a control that the store holds
                    \* twice may be in it twice
    Invocations,    \* command lines: force, fixtures ({} without --fixture), dry_run
    Earlier,        \* the run that wrote what is there in the beginning
    FirstFiles      \* what may be there in the beginning

ASSUME GoldenSetAssumption ==
    /\ Earlier \notin Generators
    /\ \A i, j \in DOMAIN Fixtures : Fixtures[i] = Fixtures[j] => i = j
    /\ Fixtures \in Seq(SE!ToSet(Fixtures))
    /\ Selections \subseteq Seq(Controls)

\* In the beginning the file is one that the generator has written, reviewed or not.
ASSUME FirstFilesAssumption ==
    \A f \in FirstFiles :
        /\ f = [state |-> f.state, cases |-> f.cases]
        /\ f.cases \in Seq(SE!ToSet(f.cases))
        /\ \A c \in SE!ToSet(f.cases) :
              /\ c = [repo_fixture |-> c.repo_fixture, control_id |-> c.control_id,
                      number |-> c.number, human_verified |-> c.human_verified,
                      by |-> c.by]
              /\ c.number \in Nat /\ c.human_verified \in BOOLEAN
        /\ \A i, j \in DOMAIN f.cases :
              f.cases[i].repo_fixture = f.cases[j].repo_fixture =>
                  /\ f.cases[i].by = f.cases[j].by
                  /\ f.cases[i].number = f.cases[j].number => i = j

VARIABLES
    file,       \* [state |-> "absent" | "valid" | "invalid", cases]
    pc,         \* where each run is
    args,       \* its command line
    cases       \* the cases it has in memory

(* Observers, which no process reads. *)
VARIABLES
    reviewed,   \* the labels a human has verified: the label of each
    checked,    \* the verified cases that the overwrite check of a run has loaded
    merged,     \* the cases that the merge of a run has loaded
    tangled     \* two runs had the file open at a time

memory   == <<args, cases>>
observed == <<reviewed, checked, merged, tangled>>
vars     == <<file, pc, memory, observed>>

-----------------------------------------------------------------------------
(* The file *)

GoldenCase(fixture, control, number, run) ==
    [repo_fixture |-> fixture, control_id |-> control, number |-> number,
     human_verified |-> FALSE, by |-> run]

Absent         == [state |-> "absent", cases |-> <<>>]
Valid(cs)      == [state |-> "valid", cases |-> cs]

\* load_golden_cases raises GoldenSetError for anything else.
Loads(f) == f.state = "valid"

CasesOf(f)  == SE!ToSet(f.cases)
Verified(f) == {c \in CasesOf(f) : c.human_verified}
Label(c)    == <<c.repo_fixture, c.control_id, c.number, c.by>>

(* The definitions named ...Defect are the ones that follow them with a bug a    *)
(* maintainer might make; no specification uses them.                         *)

\* Defect: a set that is still being reviewed is not protected.
RefuseOverwriteDefect(f, force) ==
    ~force /\ Loads(f) /\ \A c \in CasesOf(f) : c.human_verified

\* _refuse_overwrite_reason
RefuseOverwrite(f, force) == ~force /\ Loads(f) /\ Verified(f) # {}

\* The cases that a run for some fixtures leaves alone.
OfOthers(f, fixtures) == {c \in CasesOf(f) : c.repo_fixture \notin fixtures}

\* Defect: without a new case there is nothing to merge.
MergeNothingNew(f, new, fixtures) ==
    IF Loads(f) /\ new # <<>>
    THEN Filter(f.cases, OfOthers(f, fixtures)) \o new
    ELSE new

\* Defect: a fixture that is generated again keeps its old cases.
MergeRegeneratedCasesDefect(f, new, fixtures) ==
    IF Loads(f) THEN f.cases \o new ELSE new

\* _merge_regenerated_cases: what the named fixtures had is dropped, even when
\* nothing new was generated for them.
MergeRegeneratedCases(f, new, fixtures) ==
    IF Loads(f) THEN Filter(f.cases, OfOthers(f, fixtures)) \o new ELSE new

-----------------------------------------------------------------------------
(* The generator *)

Ended  == {"0", "1", "2", "raised", "killed"}
Stages == {"start", "check", "model", "generate", "merge", "open", "write"} \cup Ended

Step(g, from, to) == pc[g] = from /\ pc' = [pc EXCEPT ![g] = to]

\* What a run that has written, or never will, had in memory is gone.
Forget(g) ==
    /\ cases' = [cases EXCEPT ![g] = <<>>]
    /\ checked' = [checked EXCEPT ![g] = {}]
    /\ merged' = [merged EXCEPT ![g] = {}]
    /\ UNCHANGED <<args, reviewed, tangled>>

\* Without FIXTURES and RUBRIC there is nothing to label.
Start(g) ==
    /\ Step(g, "start", "check") \/ Step(g, "start", "1")
    /\ UNCHANGED <<file, memory, observed>>

\* --dry-run asks for no permission and writes nothing.
DryRun(g) ==
    /\ args[g].dry_run
    /\ Step(g, "check", "0")
    /\ UNCHANGED <<file, memory, observed>>

Check(g) ==
    /\ ~args[g].dry_run
    /\ Step(g, "check", IF RefuseOverwrite(file, args[g].force) THEN "2" ELSE "model")
    /\ checked' = [checked EXCEPT ![g] =
           IF Loads(file) /\ ~args[g].force THEN Verified(file) ELSE {}]
    /\ UNCHANGED <<file, memory, reviewed, merged, tangled>>

\* No labeler model, the agent's own model, or no knowledge base.
Prepare(g) ==
    /\ Step(g, "model", "generate") \/ Step(g, "model", "2")
    /\ UNCHANGED <<file, memory, observed>>

Generated(fixtures) ==
    Filter(Fixtures, {x \in SE!ToSet(Fixtures) : fixtures = {} \/ x \in fixtures})

\* A case for each control that is relevant for a fixture, as often as it was found.
Labelled(g, fixture, relevant) ==
    [i \in DOMAIN relevant |-> GoldenCase(fixture, relevant[i], i, g)]

\* Defect: a human's judgement is carried over to the new label.
GenerateDefect(g) ==
    /\ Step(g, "generate", IF args[g].fixtures = {} THEN "open" ELSE "merge")
    /\ \E relevant \in [SE!ToSet(Fixtures) -> Selections] :
          LET names == Generated(args[g].fixtures)
              new   == SE!FlattenSeq([i \in DOMAIN names |->
                           Labelled(g, names[i], relevant[names[i]])])
          IN  cases' = [cases EXCEPT ![g] = [i \in DOMAIN new |->
                  [new[i] EXCEPT !.human_verified =
                      \E c \in Verified(file) : /\ c.repo_fixture = new[i].repo_fixture
                                                /\ c.control_id = new[i].control_id]]]
    /\ UNCHANGED <<file, args, observed>>

\* generate_candidates: the fixtures in their order; a name that is no fixture is
\* ignored.
Generate(g) ==
    /\ Step(g, "generate", IF args[g].fixtures = {} THEN "open" ELSE "merge")
    /\ \E relevant \in [SE!ToSet(Fixtures) -> Selections] :
          LET names == Generated(args[g].fixtures)
          IN  cases' = [cases EXCEPT ![g] =
                  SE!FlattenSeq([i \in DOMAIN names |->
                      Labelled(g, names[i], relevant[names[i]])])]
    /\ UNCHANGED <<file, args, observed>>

\* The labeler, the search or a fixture raises: nothing was written.
GenerateRaises(g) ==
    /\ Step(g, "generate", "raised")
    /\ Forget(g)
    /\ UNCHANGED file

Merge(g) ==
    /\ Step(g, "merge", "open")
    /\ cases' = [cases EXCEPT ![g] = MergeRegeneratedCases(file, @, args[g].fixtures)]
    /\ merged' = [merged EXCEPT ![g] = IF Loads(file) THEN CasesOf(file) ELSE {}]
    /\ UNCHANGED <<file, args, reviewed, checked, tangled>>

Writing(g) == pc[g] = "write"

\* out_path.write_text empties the file, ...
Open(g) ==
    /\ Step(g, "open", "write")
    /\ file' = [state |-> "invalid", cases |-> <<>>]
    /\ tangled' = (tangled \/ \E h \in Generators : Writing(h))
    /\ UNCHANGED <<memory, reviewed, checked, merged>>

\* ... and then writes it, over the beginning of what another run has written
\* since: the end of a longer file stays.
Write(g) ==
    LET rest == SubSeq(file.cases, Len(cases[g]) + 1, Len(file.cases))
    IN  /\ Step(g, "write", "0")
        /\ \E state \in IF rest = <<>> THEN {"valid"} ELSE {"valid", "invalid"} :
              file' = [state |-> state, cases |-> cases[g] \o rest]
        /\ Forget(g)

\* A write that is cut short leaves a prefix: some cases, or half of one.
CutShort(g) ==
    /\ Step(g, "write", "killed") \/ Step(g, "write", "raised")
    /\ \E n \in 0 .. Len(cases[g]), state \in {"valid", "invalid"} :
          file' = [state |-> state, cases |-> SubSeq(cases[g], 1, n)]
    /\ Forget(g)

Killed(g) ==
    /\ pc[g] \in {"model", "generate", "merge", "open"}
    /\ pc' = [pc EXCEPT ![g] = "killed"]
    /\ Forget(g)
    /\ UNCHANGED file

Run(g) ==
    \/ Start(g) \/ DryRun(g) \/ Check(g) \/ Prepare(g) \/ Generate(g)
    \/ GenerateRaises(g) \/ Merge(g) \/ Open(g) \/ Write(g) \/ CutShort(g)

-----------------------------------------------------------------------------
(* The reviewer, who edits the file by hand and saves at once *)

Edit ==
    /\ file.cases # <<>>
    /\ UNCHANGED <<pc, memory, checked, merged, tangled>>

\* Judges a case and sets human_verified.
Review(i) ==
    /\ Edit
    /\ ~file.cases[i].human_verified
    /\ file' = [file EXCEPT !.cases[i].human_verified = TRUE]
    /\ reviewed' = reviewed \cup {Label(file.cases[i])}

\* Breaks the file, or repairs it.
Slip ==
    /\ Edit
    /\ file' = [file EXCEPT !.state = IF @ = "valid" THEN "invalid" ELSE "valid"]
    /\ UNCHANGED reviewed

-----------------------------------------------------------------------------
Init ==
    /\ file \in FirstFiles
    /\ args \in [Generators -> Invocations]
    /\ pc = [g \in Generators |-> "start"]
    /\ cases = [g \in Generators |-> <<>>]
    /\ reviewed = {Label(c) : c \in Verified(file)}
    /\ checked = [g \in Generators |-> {}]
    /\ merged = [g \in Generators |-> {}]
    /\ tangled = FALSE

Next ==
    \/ \E g \in Generators : Run(g) \/ Killed(g)
    \/ \E i \in DOMAIN file.cases : Review(i)
    \/ Slip

Spec == Init /\ [][Next]_vars

-----------------------------------------------------------------------------
(* Correctness *)

\* A rerun does not clobber reviewed work (golden_generation.py:86): a verified case
\* leaves the file, even for a moment, only through a run that was forced, or one
\* whose overwrite check could not know of it, because the review came later or
\* the file did not load at that time.
ReviewIsSafe ==
    [][ \A c \in Verified(file) \ Verified(file') :
          \E g \in Generators :
              /\ pc[g] \in {"open", "write"} /\ pc'[g] # pc[g]
              /\ args[g].force \/ c \notin checked[g] ]_vars

\* A run with --fixture is about to write every case of the other fixtures that
\* the file held when it was merged (golden_generation.py:111-113), verified ones
\* with their flag, also when it has generated nothing itself.
MergeKeeps ==
    \A g \in Generators :
        pc[g] \in {"open", "write"} =>
            \A c \in merged[g] : c.repo_fixture \in args[g].fixtures \/ c \in SE!ToSet(cases[g])

\* A rerun for a fixture does not duplicate its cases (golden_generation.py:111-112):
\* unless two runs wrote at a time, the cases of a fixture are all of one run, which
\* numbered them apart. So a fixture is judged twice on one control only when the
\* selection of that run named the control twice.
OneRunPerFixture ==
    ~tangled =>
        \A i, j \in DOMAIN file.cases :
            file.cases[i].repo_fixture = file.cases[j].repo_fixture =>
                /\ file.cases[i].by = file.cases[j].by
                /\ file.cases[i].number = file.cases[j].number => i = j

\* human_verified is never the generator's (golden_generation.py:12-13): a human has
\* seen the very label that carries it, however the file was generated and merged.
VerifiedWasReviewed == \A c \in Verified(file) : Label(c) \in reviewed

=============================================================================
