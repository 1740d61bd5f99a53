------------------------------ MODULE CommandLine ------------------------------
(***************************************************************************)
(* The assess command (cli.py) and the part of the repository loader that  *)
(* it resolves its input with. Every command is a process of its own; they *)
(* share the report file --out. A process may be killed between any two of *)
(* its steps.                                                              *)
(*                                                                         *)
(* What run_assessment does inside is ComplianceGraph and KnowledgeBase;   *)
(* here it returns a report or raises. The other two commands add nothing  *)
(* to what they call: ingest-controls is KnowledgeBase, eval Evaluation.   *)
(*                                                                         *)
(* Data. What a user names as a repository is a record of what the code    *)
(* looks at: the scheme (None for a path), embedded credentials, the host, *)
(* and what a path leads to. A report is one or more blocks, written one   *)
(* after the other at the writer's own offset; out[i] is the process whose *)
(* bytes are block i of the file.                                          *)
(***************************************************************************)
EXTENDS Integers

CONSTANTS
    Assessors,      \* processes that run assess
    Sources,        \* what a user may name as a repository
    Invocations,    \* command lines, together with the presence of CHAT_MODEL
    MaxBlocks,      \* bound on the length of a report
    None

IsSource(s) ==
    /\ s.scheme \in {"https", "http", "file", "ssh", "git", "git@", "ext::", None}
    /\ s.credentials \in BOOLEAN
    /\ s.leads_to \in {"directory", "file", "unreadable", "nothing"}

ASSUME SourcesAssumption == None \notin Sources /\ \A s \in Sources : IsSource(s)
ASSUME InvocationsAssumption ==
    \A a \in Invocations :
        /\ {a.repo_url, a.repo_path} \subseteq Sources \cup {None}
        /\ a.controls \in {"known", "unknown", None}
        /\ a.top_k \in Int \cup {None}
        /\ a.chat_model \in BOOLEAN
ASSUME CommandLineAssumption == None \notin Assessors \cup Int /\ MaxBlocks \in Nat \ {0}

VARIABLES
    args,       \* the command line of each process
    pc,         \* where it is; "0", "1" and "2" are exit statuses, "raised" a traceback
    dirs,       \* the processes whose temporary directory exists
    out,        \* the blocks of the report file
    length,     \* the blocks of the report that a process has to write
    written     \* the blocks that it has written

(* Observers, which no process reads. *)
VARIABLES
    opener,     \* the process that opened --out last
    clean       \* it had the file for itself and was not cut short

report   == <<out, length, written>>
observed == <<opener, clean>>
vars     == <<args, pc, dirs, report, observed>>

-----------------------------------------------------------------------------
(* Arguments *)

AllowedHosts == {"github.com", "gitlab.com", "bitbucket.org"}

\* resolve_repo_input: "://", "git@" or "ext::" make a URL, whichever of the two
\* options it was given with.
IsUrl(s) == s.scheme # None

\* validate_repo_url; an address literal, or no host at all, is not allowed either.
ValidRepoUrl(s) == s.scheme = "https" /\ ~s.credentials /\ s.host \in AllowedHosts

ValidRepoPath(s) == s.leads_to = "directory"

\* args.repo_url or args.repo_path
Target(a) == IF a.repo_url # None THEN a.repo_url ELSE a.repo_path

(* The definitions named ...Defect are the ones that follow them with a bug a    *)
(* maintainer might make; no specification uses them.                         *)

\* Defect: "args.top_k_controls or 6" takes 0 for no value.
TopKDefect(a) == IF a.top_k \in {None, 0} THEN 6 ELSE a.top_k

TopK(a) == IF a.top_k # None THEN a.top_k ELSE 6

\* The checks of cmd_assess that come before the repository is resolved.
UsageError(a) ==
    \/ Target(a) = None
    \/ a.controls # None /\ a.top_k # None
    \/ TopK(a) < 1
    \/ ~a.chat_model

-----------------------------------------------------------------------------
(* Processes *)

Ended  == {"0", "1", "2", "raised", "killed"}
Stages == {"start", "resolve", "validate", "clone", "hang", "select", "assess",
           "open", "write"} \cup Ended
Blocks == 1 .. MaxBlocks

Step(p, from, to) == pc[p] = from /\ pc' = [pc EXCEPT ![p] = to]

Init ==
    /\ args \in [Assessors -> Invocations]
    /\ pc = [p \in Assessors |-> "start"]
    /\ dirs = {}
    /\ out = [i \in Blocks |-> None]
    /\ length = [p \in Assessors |-> 0]
    /\ written = [p \in Assessors |-> 0]
    /\ opener = None
    /\ clean = TRUE

CheckUsage(p) ==
    /\ Step(p, "start", IF UsageError(args[p]) THEN "2" ELSE "resolve")
    /\ UNCHANGED <<args, dirs, report, observed>>

\* A path: RepoPathError is not caught.
ResolvePath(p) ==
    /\ pc[p] = "resolve" /\ ~IsUrl(Target(args[p]))
    /\ Step(p, "resolve", IF ValidRepoPath(Target(args[p])) THEN "select" ELSE "raised")
    /\ UNCHANGED <<args, dirs, report, observed>>

\* A URL: the directory is made before the URL is looked at.
MakeDirectory(p) ==
    /\ pc[p] = "resolve" /\ IsUrl(Target(args[p]))
    /\ Step(p, "resolve", "validate")
    /\ dirs' = dirs \cup {p}
    /\ UNCHANGED <<args, report, observed>>

\* safe_clone: RepoURLError is not caught either.
ValidateUrl(p) ==
    /\ pc[p] = "validate"
    /\ Step(p, "validate", IF ValidRepoUrl(Target(args[p])) THEN "clone" ELSE "raised")
    /\ UNCHANGED <<args, dirs, report, observed>>

\* git clone ends, with success or with CalledProcessError; or it hangs.
Clone(p) ==
    /\ \E to \in {"select", "raised", "hang"} : Step(p, "clone", to)
    /\ UNCHANGED <<args, dirs, report, observed>>

\* Defect: the timeout is not passed on to subprocess.run.
CloneTimesOutDefect(p) ==
    /\ Step(p, "clone", "raised")
    /\ UNCHANGED <<args, dirs, report, observed>>

\* subprocess.run kills it after clone_timeout and raises TimeoutExpired.
CloneTimesOut(p) ==
    /\ Step(p, "hang", "raised")
    /\ UNCHANGED <<args, dirs, report, observed>>

\* --controls is compared with the rubric.
SelectControls(p) ==
    /\ Step(p, "select", IF args[p].controls = "unknown" THEN "2" ELSE "assess")
    /\ UNCHANGED <<args, dirs, report, observed>>

\* run_assessment raises FileNotFoundError (a missing knowledge base, or any other
\* file) or something else.
AssessmentRaises(p) ==
    /\ \E status \in {"1", "2"} : Step(p, "assess", status)
    /\ UNCHANGED <<args, dirs, report, observed>>

RunAssessment(p) ==
    /\ Step(p, "assess", "open")
    /\ \E n \in Blocks : length' = [length EXCEPT ![p] = n]
    /\ UNCHANGED <<args, dirs, out, written, observed>>

Writing(p) == pc[p] = "write"

\* Defect: the report is appended to what the file has.
OpenReportDefect(p) ==
    /\ Step(p, "open", "write")
    /\ opener' = p
    /\ clean' = ~ \E q \in Assessors : Writing(q)
    /\ UNCHANGED <<args, dirs, report>>

\* out_path.write_text opens the file, which empties it ...
OpenReport(p) ==
    /\ Step(p, "open", "write")
    /\ out' = [i \in Blocks |-> None]
    /\ opener' = p
    /\ clean' = ~ \E q \in Assessors : Writing(q)
    /\ UNCHANGED <<args, dirs, length, written>>

\* ... and writes it block by block.
WriteBlock(p) ==
    /\ Writing(p) /\ written[p] < length[p]
    /\ written' = [written EXCEPT ![p] = @ + 1]
    /\ out' = [out EXCEPT ![written'[p]] = p]
    /\ UNCHANGED <<args, pc, dirs, length, observed>>

CloseReport(p) ==
    /\ written[p] = length[p]
    /\ Step(p, "write", "0")
    /\ UNCHANGED <<args, dirs, report, observed>>

\* No directory, no permission, no space: the OSError is not caught.
WriteFails(p) ==
    /\ Step(p, "open", "raised") \/ Step(p, "write", "raised")
    /\ clean' = (clean /\ ~Writing(p))
    /\ UNCHANGED <<args, dirs, report, opener>>

Killed(p) ==
    /\ pc[p] \notin Ended
    /\ pc' = [pc EXCEPT ![p] = "killed"]
    /\ clean' = (clean /\ ~Writing(p))
    /\ UNCHANGED <<args, dirs, report, opener>>

Assess(p) ==
    \/ CheckUsage(p) \/ ResolvePath(p) \/ MakeDirectory(p) \/ ValidateUrl(p)
    \/ Clone(p) \/ CloneTimesOut(p) \/ SelectControls(p)
    \/ AssessmentRaises(p) \/ RunAssessment(p)
    \/ OpenReport(p) \/ WriteBlock(p) \/ CloseReport(p) \/ WriteFails(p)

Next == \E p \in Assessors : Assess(p) \/ Killed(p)

\* A process that is not killed goes on: the operating system schedules it, the
\* providers answer or fail, and git ends or is ended by the timeout.
Fairness == \A p \in Assessors : WF_vars(Assess(p))

Spec == Init /\ [][Next]_vars /\ Fairness

-----------------------------------------------------------------------------
(* Correctness *)

TypeOK ==
    /\ args \in [Assessors -> Invocations]
    /\ pc \in [Assessors -> Stages]
    /\ dirs \subseteq Assessors
    /\ out \in [Blocks -> Assessors \cup {None}]
    /\ length \in [Assessors -> 0 .. MaxBlocks]
    /\ written \in [Assessors -> 0 .. MaxBlocks]
    /\ \A p \in Assessors : written[p] <= length[p]
    /\ opener \in Assessors \cup {None}
    /\ clean \in BOOLEAN

\* What the help texts and the messages of cmd_assess ask for: one of the two inputs
\* (cli.py:138), --controls or --top-k-controls but not both, a positive K, and the
\* environment variable CHAT_MODEL.
Allowed(a) ==
    /\ a.repo_url = None <=> a.repo_path # None
    /\ None \in {a.controls, a.top_k}
    /\ a.top_k \in Int => a.top_k >= 1
    /\ a.chat_model

\* "input (choose one)", but nothing in cmd_assess refuses both: the path is dropped in
\* silence (cli.py:59).
BothInputs(a) == None \notin {a.repo_url, a.repo_path}

\* Fail fast (cli.py:47): a command that can be refused from its arguments and its
\* environment alone is, with status 2, and leaves no directory behind. Any other
\* command that named a URL does leave one, however it ends: a rejected URL, a
\* failed or hung clone, unknown control ids and success alike. Nothing is said of
\* a command that gives both inputs, which the help does not allow and the code takes.
FootprintIsKnown ==
    \A p \in Assessors :
        pc[p] \in Ended \ {"killed"} /\ ~BothInputs(args[p]) =>
            /\ ~Allowed(args[p]) => pc[p] = "2"
            /\ p \in dirs <=> Allowed(args[p]) /\ IsUrl(Target(args[p]))

\* Writes of the report that do not overlap repair one another: unless the last
\* writer was cut short or shared the file, the file is its whole report and
\* nothing else, and that writer ended with status 0.
ReportIsWhole ==
    clean /\ opener # None /\ ~Writing(opener) =>
        /\ pc[opener] = "0"
        /\ out = [i \in Blocks |-> IF i <= length[opener] THEN opener ELSE None]

\* Every command ends, even when git hangs.
EveryRunEnds == \A p \in Assessors : <>(pc[p] \in Ended)

=============================================================================
