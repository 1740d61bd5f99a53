--------------------------- MODULE CommandLineProofs ---------------------------
(***************************************************************************)
(* Proofs about the assess command, for any number of processes, any set   *)
(* of command lines and reports of any length.                             *)
(***************************************************************************)
EXTENDS CommandLine, TLAPS

\* The stages before a process opens the report.
Early == {"start", "resolve", "validate", "clone", "hang", "select", "assess", "open"}

\* What cmd_assess goes on with: both inputs are not too many for it.
Accepted(a) ==
    /\ {a.repo_url, a.repo_path} # {None}
    /\ None \in {a.controls, a.top_k}
    /\ a.top_k \in Int => a.top_k >= 1
    /\ a.chat_model

\* What a process has left on the disk, stage by stage.
Footprint(p) ==
    /\ pc[p] \in {"start", "resolve"} => p \notin dirs
    /\ pc[p] \notin {"start", "2", "killed"} => Accepted(args[p])
    /\ pc[p] \notin {"start", "resolve", "killed"} =>
          (p \in dirs <=> Accepted(args[p]) /\ IsUrl(Target(args[p])))

\* How far a process is with its report.
Written(p) ==
    /\ pc[p] \in Early => written[p] = 0
    /\ pc[p] = "0" => written[p] = length[p]

\* While nothing has gone wrong with the file, its only writer is the process that
\* opened it last, and the file holds what that process has written.
FileInHand ==
    clean =>
        /\ \A p \in Assessors : Writing(p) => p = opener
        /\ opener # None =>
              /\ pc[opener] \in {"write", "0"}
              /\ out = [i \in Blocks |-> IF i <= written[opener] THEN opener ELSE None]

IInv ==
    /\ TypeOK
    /\ \A p \in Assessors : Footprint(p)
    /\ \A p \in Assessors : Written(p)
    /\ FileInHand

-----------------------------------------------------------------------------
(* Arguments *)

\* The checks of cmd_assess refuse exactly the command lines without an input, with both
\* selections, or with a K below 1, and those that come without CHAT_MODEL.
LEMMA UsageErrorIsNotAccepted ==
    ASSUME NEW a \in Invocations
    PROVE  UsageError(a) <=> ~Accepted(a)
<1>1. /\ a.repo_url \in Sources \cup {None}
      /\ a.repo_path \in Sources \cup {None}
      /\ a.top_k \in Int \cup {None}
  BY InvocationsAssumption
<1>2. Target(a) = None <=> {a.repo_url, a.repo_path} = {None}
  BY <1>1, SourcesAssumption DEF Target
<1>3. TopK(a) < 1 <=> ~(a.top_k \in Int => a.top_k >= 1)
  BY <1>1, CommandLineAssumption DEF TopK
<1>4. (a.controls # None /\ a.top_k # None) <=> None \notin {a.controls, a.top_k}
  OBVIOUS
<1> QED
  BY <1>2, <1>3, <1>4 DEF UsageError, Accepted

\* Apart from those with both inputs, these are the ones that are not allowed.
LEMMA AcceptedIsAllowed ==
    ASSUME NEW a, ~BothInputs(a)
    PROVE  Accepted(a) <=> Allowed(a)
<1>1. {a.repo_url, a.repo_path} # {None} <=> (a.repo_url = None <=> a.repo_path # None)
  BY DEF BothInputs
<1> QED
  BY <1>1 DEF Accepted, Allowed

-----------------------------------------------------------------------------
(* The report *)

\* A step of a process that has not opened the report and does not open it leaves
\* the file and what the others have written of it as they are.
LEMMA EarlyStep ==
    ASSUME IInv, NEW p \in Assessors, NEW to \in Stages,
           pc[p] \in Early, to \notin {"write", "0"},
           pc' = [pc EXCEPT ![p] = to],
           out' = out, written' = written, opener' = opener, clean' = clean,
           \A q \in Assessors \ {p} : length'[q] = length[q]
    PROVE  (\A q \in Assessors : Written(q))' /\ FileInHand'
<1>1. \A q \in Assessors : pc'[q] = IF q = p THEN to ELSE pc[q]
  BY DEF IInv, TypeOK
<1>2. (\A q \in Assessors : Written(q))'
  <2> SUFFICES ASSUME NEW q \in Assessors PROVE Written(q)'
    OBVIOUS
  <2>1. Written(q)
    BY DEF IInv
  <2>2. CASE q = p
    BY <2>1, <2>2, <1>1 DEF Written
  <2>3. CASE q # p
    BY <2>1, <2>3, <1>1 DEF Written
  <2> QED
    BY <2>2, <2>3
<1>3. FileInHand'
  <2> SUFFICES ASSUME clean PROVE FileInHand'
    BY DEF FileInHand
  <2>1. FileInHand
    BY DEF IInv
  <2>2. opener # None => opener \in Assessors /\ opener # p
    BY <2>1 DEF FileInHand, IInv, TypeOK, Early
  <2> QED
    BY <2>1, <2>2, <1>1 DEF FileInHand, Writing
<1> QED
  BY <1>2, <1>3

\* Opening, writing and closing the report, and failing at any of these, keep the
\* file in hand or are remembered as what went wrong with it.
LEMMA ReportStep ==
    ASSUME IInv, NEW p \in Assessors,
           OpenReport(p) \/ WriteBlock(p) \/ CloseReport(p) \/ WriteFails(p) \/ Killed(p)
    PROVE  (\A q \in Assessors : Written(q))' /\ FileInHand'
<1> USE DEF IInv, TypeOK
<1>1. CASE OpenReport(p)
  <2>1. /\ pc[p] = "open" /\ pc' = [pc EXCEPT ![p] = "write"]
        /\ out' = [i \in Blocks |-> None] /\ opener' = p /\ written' = written
        /\ length' = length /\ clean' = ~ \E q \in Assessors : Writing(q)
    BY <1>1 DEF OpenReport, Step
  <2>2. written[p] = 0
    BY <2>1 DEF Written, Early
  <2>3. (\A q \in Assessors : Written(q))'
    BY <2>1 DEF Written, Early
  <2>4. \A q \in Assessors : clean' /\ Writing(q)' => q = p
    BY <2>1 DEF Writing
  <2>5. \A i \in Blocks : ~(i <= written[p])
    BY <2>2 DEF Blocks
  <2>6. out' = [i \in Blocks |-> IF i <= written'[opener'] THEN opener' ELSE None]
    BY <2>1, <2>5
  <2>7. pc'[opener'] = "write"
    BY <2>1
  <2> QED
    BY <2>1, <2>3, <2>4, <2>6, <2>7 DEF FileInHand, Writing
<1>2. CASE WriteBlock(p)
  <2>1. /\ pc[p] = "write" /\ written[p] < length[p]
        /\ written' = [written EXCEPT ![p] = written[p] + 1]
        /\ out' = [out EXCEPT ![written[p] + 1] = p]
        /\ pc' = pc /\ length' = length /\ opener' = opener /\ clean' = clean
    BY <1>2 DEF WriteBlock, Writing, observed
  <2>2. (\A q \in Assessors : Written(q))'
    BY <2>1 DEF Written, Early
  <2>3. FileInHand'
    <3> SUFFICES ASSUME clean PROVE FileInHand'
      BY <2>1 DEF FileInHand
    <3>1. p = opener /\ \A q \in Assessors : Writing(q) => q = opener
      BY <2>1 DEF FileInHand, Writing
    <3>2. opener # None
      BY <3>1, CommandLineAssumption
    <3>3. out = [i \in Blocks |-> IF i <= written[p] THEN p ELSE None]
      BY <3>1, <3>2 DEF FileInHand
    <3>4. written[p] \in Nat /\ written[p] + 1 \in Blocks /\ written'[p] = written[p] + 1
      BY <2>1, CommandLineAssumption DEF Blocks
    <3>5. \A i \in Blocks : i # written[p] + 1 =>
             (i <= written[p] <=> i <= written[p] + 1)
      BY <3>4 DEF Blocks
    <3>6. out' = [i \in Blocks |-> IF i <= written'[opener'] THEN opener' ELSE None]
      <4>1. \A i \in Blocks : out[i] = IF i <= written[p] THEN p ELSE None
        BY <3>3
      <4>2. out' \in [Blocks -> Assessors \cup {None}]
        BY <2>1
      <4>3. \A i \in Blocks : out'[i] = IF i <= written[p] + 1 THEN p ELSE None
        BY <2>1, <3>4, <3>5, <4>1 DEF Blocks
      <4> QED
        BY <2>1, <3>1, <3>4, <4>2, <4>3
    <3> QED
      BY <2>1, <3>1, <3>2, <3>6 DEF FileInHand, Writing
  <2> QED
    BY <2>2, <2>3
<1>3. CASE CloseReport(p)
  <2>1. /\ pc[p] = "write" /\ written[p] = length[p] /\ pc' = [pc EXCEPT ![p] = "0"]
        /\ UNCHANGED <<out, length, written, opener, clean>>
    BY <1>3 DEF CloseReport, Step, report, observed
  <2>2. (\A q \in Assessors : Written(q))'
    BY <2>1 DEF Written, Early
  <2>3. FileInHand'
    BY <2>1 DEF FileInHand, Writing
  <2> QED
    BY <2>2, <2>3
<1>4. CASE pc[p] = "write" /\ (WriteFails(p) \/ Killed(p))
  <2>1. PICK to \in {"raised", "killed"} : pc' = [pc EXCEPT ![p] = to]
    BY <1>4 DEF WriteFails, Killed, Step
  <2>2. ~clean' /\ written' = written /\ length' = length
    BY <1>4 DEF WriteFails, Killed, Writing, report
  <2>3. (\A q \in Assessors : Written(q))'
    BY <2>1, <2>2 DEF Written, Early
  <2> QED
    BY <2>2, <2>3 DEF FileInHand
<1>5. CASE pc[p] # "write" /\ (WriteFails(p) \/ Killed(p))
  <2>1. pc[p] \in Early
    BY <1>5 DEF WriteFails, Killed, Step, Stages, Ended, Early
  <2>2. PICK to \in {"raised", "killed"} : pc' = [pc EXCEPT ![p] = to]
    BY <1>5 DEF WriteFails, Killed, Step
  <2>3. UNCHANGED <<out, length, written, opener, clean>>
    BY <1>5 DEF WriteFails, Killed, Writing, report
  <2>4. to \in Stages /\ to \notin {"write", "0"}
    BY DEF Stages, Ended
  <2> QED
    BY <2>1, <2>2, <2>3, <2>4, EarlyStep
<1> QED
  BY <1>1, <1>2, <1>3, <1>4, <1>5

\* The same, for every step.
LEMMA FileStep ==
    ASSUME IInv, NEW p \in Assessors, Assess(p) \/ Killed(p)
    PROVE  (\A q \in Assessors : Written(q))' /\ FileInHand'
<1>1. CASE OpenReport(p) \/ WriteBlock(p) \/ CloseReport(p) \/ WriteFails(p) \/ Killed(p)
  BY <1>1, ReportStep
<1>2. CASE CheckUsage(p) \/ ResolvePath(p) \/ MakeDirectory(p) \/ ValidateUrl(p) \/ Clone(p)
           \/ CloneTimesOut(p) \/ SelectControls(p) \/ AssessmentRaises(p) \/ RunAssessment(p)
  <2>1. pc[p] \in Early
    BY <1>2 DEF CheckUsage, ResolvePath, MakeDirectory, ValidateUrl, Clone, CloneTimesOut,
                SelectControls, AssessmentRaises, RunAssessment, Step, Early
  <2>2. PICK to \in (Stages \ {"write", "0"}) : pc' = [pc EXCEPT ![p] = to]
    BY <1>2 DEF CheckUsage, ResolvePath, MakeDirectory, ValidateUrl, Clone, CloneTimesOut,
                SelectControls, AssessmentRaises, RunAssessment, Step, Stages, Ended
  <2>3. UNCHANGED <<out, written, opener, clean>>
    BY <1>2 DEF CheckUsage, ResolvePath, MakeDirectory, ValidateUrl, Clone, CloneTimesOut,
                SelectControls, AssessmentRaises, RunAssessment, report, observed
  <2>4. \A q \in Assessors \ {p} : length'[q] = length[q]
    BY <1>2 DEF CheckUsage, ResolvePath, MakeDirectory, ValidateUrl, Clone, CloneTimesOut,
                SelectControls, AssessmentRaises, RunAssessment, report, IInv, TypeOK
  <2> QED
    BY <2>1, <2>2, <2>3, <2>4, EarlyStep
<1> QED
  BY <1>1, <1>2 DEF Assess

-----------------------------------------------------------------------------
(* Types *)

\* Every step keeps the variables in their types.
LEMMA TypeStep ==
    ASSUME IInv, NEW p \in Assessors, Assess(p) \/ Killed(p)
    PROVE  TypeOK'
<1> USE DEF IInv, TypeOK
<1>1. PICK to \in Stages : pc' = [pc EXCEPT ![p] = to] \/ pc' = pc
  BY DEF Assess, CheckUsage, ResolvePath, MakeDirectory, ValidateUrl, Clone, CloneTimesOut,
         SelectControls, AssessmentRaises, RunAssessment, OpenReport, WriteBlock, CloseReport,
         WriteFails, Killed, Step, Stages, Ended
<1>2. pc' \in [Assessors -> Stages]
  BY <1>1
<1>3. args' = args /\ dirs' \subseteq Assessors
  BY DEF Assess, CheckUsage, ResolvePath, MakeDirectory, ValidateUrl, Clone, CloneTimesOut,
         SelectControls, AssessmentRaises, RunAssessment, OpenReport, WriteBlock, CloseReport,
         WriteFails, Killed, report, observed
<1>4. opener' \in Assessors \cup {None} /\ clean' \in BOOLEAN
  BY DEF Assess, CheckUsage, ResolvePath, MakeDirectory, ValidateUrl, Clone, CloneTimesOut,
         SelectControls, AssessmentRaises, RunAssessment, OpenReport, WriteBlock, CloseReport,
         WriteFails, Killed, report, observed
<1>5. /\ out' \in [Blocks -> Assessors \cup {None}]
      /\ length' \in [Assessors -> 0 .. MaxBlocks]
      /\ written' \in [Assessors -> 0 .. MaxBlocks]
      /\ \A q \in Assessors : written'[q] <= length'[q]
  <2>1. CASE RunAssessment(p)
    <3>1. PICK n \in Blocks : length' = [length EXCEPT ![p] = n]
      BY <2>1 DEF RunAssessment
    <3>2. out' = out /\ written' = written /\ written[p] = 0
      BY <2>1 DEF RunAssessment, Step, Written, Early
    <3>3. n \in 0 .. MaxBlocks /\ n >= 0
      BY CommandLineAssumption DEF Blocks
    <3> QED
      BY <3>1, <3>2, <3>3
  <2>2. CASE WriteBlock(p)
    <3>1. /\ written[p] < length[p] /\ length' = length
          /\ written' = [written EXCEPT ![p] = written[p] + 1]
          /\ out' = [out EXCEPT ![written[p] + 1] = p]
      BY <2>2 DEF WriteBlock
    <3>2. written[p] + 1 \in 0 .. MaxBlocks /\ written[p] + 1 <= length[p]
      BY <3>1, CommandLineAssumption
    <3> QED
      BY <3>1, <3>2
  <2>3. CASE OpenReport(p)
    BY <2>3 DEF OpenReport
  <2>4. CASE ~RunAssessment(p) /\ ~WriteBlock(p) /\ ~OpenReport(p)
    <3>1. UNCHANGED report
      BY <2>4 DEF Assess, CheckUsage, ResolvePath, MakeDirectory, ValidateUrl, Clone,
                  CloneTimesOut, SelectControls, AssessmentRaises, CloseReport, WriteFails, Killed
    <3> QED
      BY <3>1 DEF report
  <2> QED
    BY <2>1, <2>2, <2>3, <2>4
<1> QED
  BY <1>2, <1>3, <1>4, <1>5

-----------------------------------------------------------------------------
(* Directories *)

\* A step of one process leaves the footprint of the others as it is.
LEMMA OthersFootprint ==
    ASSUME IInv, NEW p \in Assessors, Assess(p) \/ Killed(p),
           NEW q \in Assessors, q # p
    PROVE  Footprint(q)'
<1> USE DEF Assess, CheckUsage, ResolvePath, MakeDirectory, ValidateUrl, Clone, CloneTimesOut,
            SelectControls, AssessmentRaises, RunAssessment, OpenReport, WriteBlock, CloseReport,
            WriteFails, Killed, Step
<1>1. pc'[q] = pc[q]
  BY DEF IInv, TypeOK
<1>2. args' = args
  OBVIOUS
<1>3. q \in dirs' <=> q \in dirs
  OBVIOUS
<1>4. Footprint(q)
  BY DEF IInv
<1> QED
  BY <1>1, <1>2, <1>3, <1>4 DEF Footprint

\* Its own is settled by the check of the arguments and by making the directory, and
\* no later step changes it.
LEMMA OwnFootprint ==
    ASSUME IInv, NEW p \in Assessors, Assess(p) \/ Killed(p)
    PROVE  Footprint(p)'
<1> USE DEF IInv, TypeOK
<1>1. CASE CheckUsage(p)
  <2>1. /\ pc[p] = "start" /\ pc'[p] = IF UsageError(args[p]) THEN "2" ELSE "resolve"
        /\ args' = args /\ dirs' = dirs
    BY <1>1 DEF CheckUsage, Step
  <2>2. p \notin dirs
    BY <2>1 DEF Footprint
  <2>3. UsageError(args[p]) <=> ~Accepted(args[p])
    BY UsageErrorIsNotAccepted
  <2> QED
    BY <2>1, <2>2, <2>3 DEF Footprint
<1>2. CASE ResolvePath(p)
  <2>1. /\ pc[p] = "resolve" /\ pc'[p] \in {"select", "raised"} /\ ~IsUrl(Target(args[p]))
        /\ args' = args /\ dirs' = dirs
    BY <1>2 DEF ResolvePath, Step
  <2>2. p \notin dirs /\ Accepted(args[p])
    BY <2>1 DEF Footprint
  <2> QED
    BY <2>1, <2>2 DEF Footprint
<1>3. CASE MakeDirectory(p)
  <2>1. /\ pc[p] = "resolve" /\ pc'[p] = "validate" /\ IsUrl(Target(args[p]))
        /\ args' = args /\ dirs' = dirs \cup {p}
    BY <1>3 DEF MakeDirectory, Step
  <2>2. Accepted(args[p])
    BY <2>1 DEF Footprint
  <2> QED
    BY <2>1, <2>2 DEF Footprint
<1>4. CASE ~CheckUsage(p) /\ ~ResolvePath(p) /\ ~MakeDirectory(p) /\ ~Killed(p)
  <2>1. args' = args /\ dirs' = dirs
    BY <1>4 DEF Assess, ValidateUrl, Clone, CloneTimesOut, SelectControls, AssessmentRaises,
                RunAssessment, OpenReport, WriteBlock, CloseReport, WriteFails
  <2>2. pc[p] \in {"validate", "clone", "hang", "select", "assess", "open", "write"}
    BY <1>4 DEF Assess, ValidateUrl, Clone, CloneTimesOut, SelectControls, AssessmentRaises,
                RunAssessment, OpenReport, WriteBlock, CloseReport, WriteFails, Step, Writing
  <2>3. pc'[p] \notin {"start", "resolve"}
    BY <1>4, <2>2 DEF Assess, ValidateUrl, Clone, CloneTimesOut, SelectControls,
                AssessmentRaises, RunAssessment, OpenReport, WriteBlock, CloseReport,
                WriteFails, Step
  <2>4. Footprint(p)
    OBVIOUS
  <2> QED
    BY <2>1, <2>2, <2>3, <2>4 DEF Footprint
<1>5. CASE Killed(p)
  BY <1>5 DEF Killed, Footprint
<1> QED
  BY <1>1, <1>2, <1>3, <1>4, <1>5

-----------------------------------------------------------------------------
(* The theorems *)

\* Every process starts with nothing on the disk and nothing written.
LEMMA InitIInv == Init => IInv
<1> SUFFICES ASSUME Init PROVE IInv
  OBVIOUS
<1>1. TypeOK
  BY CommandLineAssumption DEF Init, TypeOK, Stages, Ended
<1>2. \A p \in Assessors : Footprint(p) /\ Written(p)
  BY DEF Init, Footprint, Written, Early
<1>3. FileInHand
  BY DEF Init, FileInHand, Writing
<1> QED
  BY <1>1, <1>2, <1>3 DEF IInv

\* Every step keeps the invariant.
LEMMA NextIInv == IInv /\ [Next]_vars => IInv'
<1>1. ASSUME IInv, NEW p \in Assessors, Assess(p) \/ Killed(p)
      PROVE  IInv'
  <2>1. \A q \in Assessors : Footprint(q)'
    BY <1>1, OthersFootprint, OwnFootprint
  <2> QED
    BY <1>1, <2>1, TypeStep, FileStep DEF IInv
<1>2. ASSUME IInv, UNCHANGED vars
      PROVE  IInv'
  BY <1>2 DEF vars, report, observed, IInv, TypeOK, Footprint, Written, FileInHand, Writing
<1> QED
  BY <1>1, <1>2 DEF Next

\* The invariant holds throughout, for any number of concurrent commands.
THEOREM Invariance == Spec => []IInv
  BY InitIInv, NextIInv, PTL DEF Spec

\* Type correctness of the command line.
THEOREM TypeCorrectness == Spec => []TypeOK
<1>1. IInv => TypeOK
  BY DEF IInv
<1> QED
  BY <1>1, Invariance, PTL

\* Of the commands that do not give both inputs: one that is not allowed ends with
\* status 2 and leaves nothing behind; any other one that named a URL leaves a
\* directory, however it ends.
THEOREM FootprintIsKnownHolds == Spec => []FootprintIsKnown
<1>1. IInv => FootprintIsKnown
  <2> SUFFICES ASSUME IInv, NEW p \in Assessors, pc[p] \in Ended \ {"killed"},
                      ~BothInputs(args[p])
               PROVE  /\ ~Allowed(args[p]) => pc[p] = "2"
                      /\ p \in dirs <=> Allowed(args[p]) /\ IsUrl(Target(args[p]))
    BY DEF FootprintIsKnown
  <2>1. Accepted(args[p]) <=> Allowed(args[p])
    BY AcceptedIsAllowed
  <2> QED
    BY <2>1 DEF IInv, Footprint, Ended
<1> QED
  BY <1>1, Invariance, PTL

\* The report file is the whole report of its last writer, unless that writer was cut
\* short or shared the file with another.
THEOREM ReportIsWholeHolds == Spec => []ReportIsWhole
<1>1. IInv => ReportIsWhole
  <2> SUFFICES ASSUME IInv, clean, opener # None, ~Writing(opener) PROVE ReportIsWhole
    BY DEF ReportIsWhole
  <2>1. opener \in Assessors /\ pc[opener] = "0"
    BY DEF IInv, TypeOK, FileInHand, Writing
  <2>2. written[opener] = length[opener]
    BY <2>1 DEF IInv, Written
  <2>3. out = [i \in Blocks |-> IF i <= written[opener] THEN opener ELSE None]
    BY DEF IInv, FileInHand
  <2> QED
    BY <2>1, <2>2, <2>3 DEF ReportIsWhole
<1> QED
  BY <1>1, Invariance, PTL

=============================================================================
