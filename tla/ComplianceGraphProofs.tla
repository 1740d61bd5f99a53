------------------------- MODULE ComplianceGraphProofs -------------------------
(***************************************************************************)
(* Proofs about the assessment graph, for every rubric, every request,     *)
(* every two LLMs and every bound, in four parts: the inductive invariant  *)
(* and the safety properties it gives; what the Synthesizer is told and    *)
(* what the caller gets; the contract of run_assessment, which the graph   *)
(* implements; and the run log, which nests, tells the outcome and is a    *)
(* true record wherever logging fails, and does not change what the graph  *)
(* does, so that all of the above holds of an instrumented run.            *)
(***************************************************************************)
EXTENDS ComplianceGraphInductive, ComplianceGraphRefinement, RunLog, ListLemmas,
        FiniteSetTheorems

-----------------------------------------------------------------------------
(* The Evidence Collector *)

\* What is heard of the scanners has the type of a scan.
LEMMA HeardIsScan ==
    ASSUME NEW control, NEW scan \in ScanOutcome
    PROVE  Heard(control, scan) \in Scan
<1>1. \A t \in Tools : scan[t] \in {Raised} \cup SUBSET ToolFinding
  BY EmitsAssumption DEF ScanOutcome, Answer, Tools, ScanIac, ScanCi, ScanSecrets
<1>2. QED
  BY <1>1 DEF Heard, Scan

\* The answers of scanners that are not run make no difference to the collection.
LEMMA CollectHeard ==
    ASSUME NEW control, NEW scan
    PROVE  CollectEvidence(control, Heard(control, scan)) = CollectEvidence(control, scan)
<1> DEFINE heard == Heard(control, scan)
           ran == ToolsFor(control)
<1>1. ran \subseteq Tools
  BY DEF ToolsFor
<1>2. \A t \in ran : heard[t] = scan[t]
  BY <1>1 DEF Heard
<1>3. {t \in ran : heard[t] = Raised} = {t \in ran : scan[t] = Raised}
  BY <1>2
<1> DEFINE ok == ran \ {t \in ran : scan[t] = Raised}
<1>4. [t \in ok |-> Relevant(t, control, heard[t])] = [t \in ok |-> Relevant(t, control, scan[t])]
  BY <1>2
<1>5. QED
  BY <1>3, <1>4 DEF CollectEvidence

\* A collection is well-formed, whatever the scanners answer.
LEMMA CollectType ==
    ASSUME NEW control \in Control, NEW scan \in Scan
    PROVE  CollectEvidence(control, scan) \in CollectionResult
<1> DEFINE ran == ToolsFor(control)
           ok == ran \ {t \in ran : scan[t] = Raised}
           kept == [t \in ok |-> Relevant(t, control, scan[t])]
<1>1. ran \subseteq Tools
  BY DEF ToolsFor
<1>2. \A t \in ok : scan[t] \subseteq ToolFinding
  BY <1>1 DEF Scan
<1>3. \A t \in ok : kept[t] \subseteq ToolFinding
  BY <1>2 DEF Relevant
<1>4. \A f \in ToolFinding : FindingToEvidence(f) \in EvidenceRef
  BY DEF FindingToEvidence, ToolFinding, EvidenceRef
<1>5. {FindingToEvidence(f) : f \in UNION {kept[t] : t \in ok}} \subseteq EvidenceRef
  BY <1>3, <1>4
<1>6. control.id \in ControlId
  BY ControlAssumption
<1>7. (IF ran = {} THEN {NoTool} ELSE {t \in ok : kept[t] = {}}) \subseteq Tools \cup {NoTool}
  BY <1>1
<1>8. {t \in ran : scan[t] = Raised} \subseteq Tools
  BY <1>1
<1>9. QED
  BY <1>5, <1>6, <1>7, <1>8 DEF CollectEvidence, CollectionResult

-----------------------------------------------------------------------------
(* Type correctness *)

\* What finalize_control commits is a ControlVerdict.
LEMMA FinalizedType ==
    ASSUME NEW draft \in ControlVerdict, NEW coll \in CollectionResult,
           NEW attempts \in Nat, NEW notes \in Seq(Note)
    PROVE  Finalized(draft, coll, attempts, notes) \in ControlVerdict
<1>1. \A nf \in NotesField : Downgrade(draft, nf) \in ControlVerdict
  BY DEF Downgrade, ControlVerdict, VerdictClass, Status
<1>2. [tag |-> "fail-closed", errors |-> coll.errors, notes |-> <<>>] \in NotesField
  BY DEF NotesField, CollectionResult
<1>3. [tag |-> "verifier-exhausted", errors |-> {}, notes |-> notes] \in NotesField
  BY DEF NotesField
<1>4. QED
  BY <1>1, <1>2, <1>3 DEF Finalized

\* While a control is being worked on, it is one of the run's controls and its
\* collection, trail entry and, at the last two nodes, draft are well-formed.
LEMMA WorkingTypes ==
    ASSUME IInv
    PROVE  /\ node \in Working \cup {"collect"} =>
                 /\ Current \in Control
                 /\ control_idx + 1 \in DOMAIN controls
           /\ node \in Working =>
                 /\ collection \in CollectionResult
                 /\ Len(trail) = control_idx + 1
                 /\ control_idx + 1 \in DOMAIN trail
                 /\ trail[control_idx + 1] \in TrailEntry
           /\ node = "verify" => draft_verdict \in ControlVerdict
           /\ node = "finalize_control" => draft_verdict \in ControlVerdict
<1> USE DEF IInv, TypeOK, Progress
<1>1. node \in Working \cup {"collect"} =>
          /\ Current \in Control
          /\ control_idx + 1 \in DOMAIN controls
  BY DEF Current
<1>2. ASSUME node \in Working
      PROVE  /\ collection \in CollectionResult
             /\ Len(trail) = control_idx + 1
             /\ control_idx + 1 \in DOMAIN trail
             /\ trail[control_idx + 1] \in TrailEntry
  BY <1>2 DEF InProgress, Working
<1>3. ASSUME node \in {"verify", "finalize_control"}
      PROVE  draft_verdict \in ControlVerdict
  <2> DEFINE i == control_idx + 1
             r == Reviews(i)
  <2>1. controls[i].id \in ControlId
    BY <1>1, <1>3, ControlAssumption DEF Current, Working
  <2>2. Scanned(i).evidence \in SUBSET EvidenceRef
    BY <1>2, <1>3 DEF InProgress, Working, CollectionResult
  <2>3. r \in Seq(Review)
    BY <1>2, <1>3 DEF Reviews, TrailEntry, Working
  <2>4. NoNotes \in NotesField
    BY DEF NoNotes, NotesField
  <2>5. \A class \in VerdictClass, status \in Status, n \in Nat :
            Draft(i, class, status, n) \in ControlVerdict
    BY <2>1, <2>2, <2>4 DEF Draft, ControlVerdict
  <2>6. CASE node = "verify"
    BY <2>3, <2>5, <2>6 DEF InProgress, Status
  <2>7. CASE node = "finalize_control"
    <3>1. r # <<>> /\ Len(r) \in Nat /\ LastReview(i) \in Review
      BY <2>3, <2>7 DEF InProgress, Closed, LastReview
    <3>2. Reviewed(i) \in ControlVerdict
      BY <2>5, <3>1 DEF Reviewed, Review, Status
    <3>3. QED
      BY <3>2, <2>7 DEF InProgress
  <2>8. QED
    BY <1>3, <2>6, <2>7
<1>4. QED
  BY <1>1, <1>2, <1>3

\* The Verifier's decision extends the last entry of the trail and no other.
LEMMA ExtendTrail ==
    ASSUME trail \in Seq(TrailEntry), Len(trail) > 0, NEW review \in Review,
           trail' = [trail EXCEPT ![Len(trail)].reviews = Append(@, review)]
    PROVE  /\ trail' \in Seq(TrailEntry)
           /\ Len(trail') = Len(trail)
           /\ DOMAIN trail' = DOMAIN trail
           /\ \A i \in DOMAIN trail : trail'[i].scan = trail[i].scan
           /\ \A i \in DOMAIN trail : i # Len(trail) => trail'[i] = trail[i]
           /\ trail'[Len(trail)].reviews = Append(trail[Len(trail)].reviews, review)
<1> DEFINE n == Len(trail)
           new == [trail[n] EXCEPT !.reviews = Append(@, review)]
<1>1. n \in 1 .. Len(trail) /\ DOMAIN trail = 1 .. Len(trail)
  BY LenProperties
<1>2. trail[n] \in TrailEntry
  BY <1>1
<1>3. Append(trail[n].reviews, review) \in Seq(Review)
  BY <1>2, AppendProperties DEF TrailEntry
<1>4. new \in TrailEntry /\ new.scan = trail[n].scan
      /\ new.reviews = Append(trail[n].reviews, review)
  BY <1>2, <1>3 DEF TrailEntry
<1>5. trail' = [trail EXCEPT ![n] = new]
  OBVIOUS
<1> HIDE DEF new
<1>a. /\ [trail EXCEPT ![n] = new] \in Seq(TrailEntry)
      /\ Len([trail EXCEPT ![n] = new]) = Len(trail)
      /\ \A j \in 1 .. Len(trail) : [trail EXCEPT ![n] = new][j] = IF j = n THEN new ELSE trail[j]
  <2> HIDE DEF n
  <2> QED BY <1>1, <1>4, ExceptSeq
<1>6. /\ trail' \in Seq(TrailEntry)
      /\ Len(trail') = Len(trail)
      /\ \A j \in 1 .. Len(trail) : trail'[j] = IF j = n THEN new ELSE trail[j]
  BY <1>5, <1>a
<1>7. DOMAIN trail' = DOMAIN trail
  BY <1>1, <1>6, LenProperties
<1>8. QED
  BY <1>1, <1>4, <1>6, <1>7

LEMMA TypeInit == Init => TypeOK
BY ControlListsAssumption DEF Init, TypeOK, Nodes

LEMMA TypeStep == IInv /\ [Next]_vars => TypeOK'
<1> SUFFICES ASSUME IInv, [Next]_vars PROVE TypeOK'
  OBVIOUS
<1>0. TypeOK
  BY DEF IInv
<1>1. ASSUME NEW n, Invoke(n) PROVE steps' \in Nat
  BY <1>0, <1>1 DEF Invoke, TypeOK
<1> USE DEF TypeOK, Goto, Nodes
<1>2. CASE Supervisor
  BY <1>0, <1>1, <1>2 DEF Supervisor, state, observer, RouteSupervisor
<1>3. CASE Collect
  <2>1. node = "collect" /\ Current \in Control
    BY <1>3, WorkingTypes DEF Collect, Invoke
  <2>2. PICK scan \in ScanOutcome :
            /\ collection' = CollectEvidence(Current, scan)
            /\ trail' = Append(trail, [scan |-> Heard(Current, scan), reviews |-> <<>>])
    BY <1>3 DEF Collect
  <2>3. Heard(Current, scan) \in Scan
    BY HeardIsScan
  <2>4. collection' \in CollectionResult
    BY <2>1, <2>2, <2>3, CollectType, CollectHeard
  <2>5. [scan |-> Heard(Current, scan), reviews |-> <<>>] \in TrailEntry
    BY <2>3 DEF TrailEntry
  <2>6. trail' \in Seq(TrailEntry)
    BY <1>0, <2>2, <2>5, AppendProperties
  <2>7. QED
    BY <1>0, <1>1, <1>3, <2>4, <2>6 DEF Collect
<1>4. CASE Synthesize
  <2>1. /\ Current \in Control
        /\ collection \in CollectionResult
    BY <1>4, WorkingTypes DEF Synthesize, Invoke, Working
  <2>2. NoNotes \in NotesField
    BY DEF NoNotes, NotesField
  <2>3. Current.id \in ControlId /\ collection.evidence \in SUBSET EvidenceRef
    BY <2>1, ControlAssumption DEF CollectionResult
  <2>4. draft_verdict' \in ControlVerdict
    BY <1>0, <1>4, <2>2, <2>3 DEF Synthesize, ControlVerdict, Status
  <2>5. QED
    BY <1>0, <1>1, <1>4, <2>4 DEF Synthesize
<1>5. CASE Verify
  <2>1. /\ draft_verdict \in ControlVerdict
        /\ Len(trail) > 0
    BY <1>0, <1>5, WorkingTypes DEF Verify, Invoke, Working, IInv, Progress
  <2>2. PICK approved \in BOOLEAN :
          /\ verifier_attempts' = verifier_attempts + 1
          /\ verifier_notes' = IF approved THEN verifier_notes
                ELSE Append(verifier_notes,
                            [control |-> control_idx, attempt |-> verifier_attempts + 1])
          /\ draft_verdict' = [draft_verdict EXCEPT
                !.verifier_status = IF approved THEN "passed" ELSE "failed"]
          /\ trail' = [trail EXCEPT ![Len(trail)].reviews =
                Append(@, [verdict |-> draft_verdict'.verdict, approved |-> approved])]
          /\ node' = RouteVerify(draft_verdict', verifier_attempts')
          /\ error' = error
    BY <1>5 DEF Verify
  <2>3. draft_verdict' \in ControlVerdict
    BY <2>1, <2>2 DEF ControlVerdict, Status
  <2>4. [verdict |-> draft_verdict'.verdict, approved |-> approved] \in Review
    BY <2>3 DEF ControlVerdict, Review
  <2>5. trail' \in Seq(TrailEntry)
    BY <1>0, <2>1, <2>2, <2>4, ExtendTrail
  <2>6. verifier_notes' \in Seq(Note)
    <3> DEFINE note == [control |-> control_idx, attempt |-> verifier_attempts + 1]
    <3>1. note \in Note
      BY <1>0 DEF Note
    <3>2. Append(verifier_notes, note) \in Seq(Note)
      BY <1>0, <3>1, AppendProperties
    <3>3. QED
      BY <1>0, <2>2, <3>2
  <2>7. node' \in Nodes
    BY <2>2 DEF RouteVerify
  <2>8. QED
    BY <1>0, <1>1, <1>5, <2>2, <2>3, <2>5, <2>6, <2>7 DEF Verify
<1>6. CASE FinalizeControl
  <2>1. /\ draft_verdict \in ControlVerdict
        /\ collection \in CollectionResult
    BY <1>6, WorkingTypes DEF FinalizeControl, Invoke, Working
  <2>2. verdicts' \in Seq(ControlVerdict)
    BY <1>0, <1>6, <2>1, FinalizedType, AppendProperties DEF FinalizeControl
  <2>3. QED
    BY <1>0, <1>1, <1>6, <2>2 DEF FinalizeControl, observer
<1>7. CASE Final
  BY <1>0, <1>1, <1>7 DEF Final, observer
<1>8. CASE NodeRaises
  BY <1>0, <1>1, <1>8 DEF NodeRaises, state, observer
<1>9. CASE OutOfSteps
  BY <1>0, <1>9 DEF OutOfSteps, state, observer
<1>10. CASE UNCHANGED vars
  BY <1>0, <1>10 DEF vars, state, runtime, observer
<1>11. QED
  BY <1>2, <1>3, <1>4, <1>5, <1>6, <1>7, <1>8, <1>9, <1>10 DEF Next, Stopped

-----------------------------------------------------------------------------
(* The bookkeeping of the run *)

LEMMA ProgressStep == IInv /\ [Next]_vars => Progress'
<1> SUFFICES ASSUME IInv, [Next]_vars PROVE Progress'
  OBVIOUS
<1>0. TypeOK /\ Progress
  BY DEF IInv
<1>a. Len(controls) \in Nat /\ Len(verdicts) \in Nat /\ Len(trail) \in Nat
  BY <1>0 DEF TypeOK
<1> USE DEF Progress, Working, Goto, Invoke
<1>1. CASE Supervisor
  BY <1>0, <1>a, <1>1 DEF Supervisor, state, observer, RouteSupervisor, TypeOK
<1>2. CASE Collect
  <2>1. PICK entry : trail' = Append(trail, entry)
    BY <1>2 DEF Collect
  <2>2. Len(trail') = Len(trail) + 1
    BY <1>0, <2>1 DEF TypeOK
  <2>3. QED
    BY <1>0, <1>a, <1>2, <2>2 DEF Collect, TypeOK
<1>3. CASE Synthesize
  BY <1>0, <1>3 DEF Synthesize
<1>4. CASE Verify
  <2>1. Len(trail') = Len(trail)
    BY <1>0, <1>4 DEF Verify, TypeOK
  <2>2. node' \in {"synthesize", "finalize_control"}
    BY <1>4 DEF Verify, RouteVerify
  <2>3. QED
    BY <1>0, <1>4, <2>1, <2>2 DEF Verify
<1>5. CASE FinalizeControl
  <2>1. Len(verdicts') = Len(verdicts) + 1
    BY <1>0, <1>5 DEF FinalizeControl, TypeOK
  <2>2. QED
    BY <1>0, <1>a, <1>5, <2>1 DEF FinalizeControl, observer, TypeOK
<1>6. CASE Final
  BY <1>0, <1>6 DEF Final, observer
<1>7. CASE NodeRaises
  BY <1>0, <1>7 DEF NodeRaises, state, observer
<1>8. CASE OutOfSteps
  BY <1>0, <1>8 DEF OutOfSteps, state, observer
<1>9. CASE UNCHANGED vars
  BY <1>0, <1>9 DEF vars, state, runtime, observer
<1>10. QED
  BY <1>1, <1>2, <1>3, <1>4, <1>5, <1>6, <1>7, <1>8, <1>9 DEF Next, Stopped

\* What is known of a control rests on its own entries alone.
LEMMA Frame ==
    ASSUME NEW i, controls' = controls, trail'[i] = trail[i]
    PROVE  /\ Reviews(i)' = Reviews(i)
           /\ LastReview(i)' = LastReview(i)
           /\ Scanned(i)' = Scanned(i)
           /\ Rejections(i)' = Rejections(i)
           /\ Reviewed(i)' = Reviewed(i)
           /\ Open(i)' = Open(i)
           /\ Closed(i)' = Closed(i)
           /\ verdicts'[i] = verdicts[i] => Settled(i)' = Settled(i)
<1>1. Reviews(i)' = Reviews(i) /\ Scanned(i)' = Scanned(i)
  BY DEF Reviews, Scanned
<1>2. LastReview(i)' = LastReview(i) /\ Rejections(i)' = Rejections(i)
  BY <1>1 DEF LastReview, Rejections
<1>3. Open(i)' = Open(i) /\ Closed(i)' = Closed(i)
  BY <1>1, <1>2 DEF Open, AllRejected, Closed
<1>4. Reviewed(i)' = Reviewed(i)
  BY <1>1, <1>2 DEF Reviewed, Draft
<1>5. verdicts'[i] = verdicts[i] => Settled(i)' = Settled(i)
  BY <1>1, <1>2, <1>3, <1>4 DEF Settled
<1>6. QED
  BY <1>1, <1>2, <1>3, <1>4, <1>5

\* Nothing moves when no state of the control in progress moves.
LEMMA InProgressFrame ==
    ASSUME InProgress, UNCHANGED <<state, node, trail>>
    PROVE  InProgress'
BY Frame DEF InProgress, state, Scanned, Open, AllRejected, Closed, Reviewed, Rejections,
             LastReview, Reviews, Draft

\* One more rejection, one more note.
LEMMA OneMoreNote ==
    ASSUME NEW i, NEW n \in Nat,
           RejectionNotes(i, n) \in Seq(Note),
           [control |-> i - 1, attempt |-> n + 1] \in Note
    PROVE  Append(RejectionNotes(i, n), [control |-> i - 1, attempt |-> n + 1])
              = RejectionNotes(i, n + 1)
<1> DEFINE s == RejectionNotes(i, n)
           note == [control |-> i - 1, attempt |-> n + 1]
           t == Append(s, note)
<1>1. Len(s) = n /\ DOMAIN s = 1 .. n
  BY DEF RejectionNotes
<1>2. t \in [1 .. n + 1 -> Note]
  <2>1. s \in Seq(Note) /\ note \in Note
    OBVIOUS
  <2> HIDE DEF s, note
  <2>2. t \in Seq(Note) /\ Len(t) = n + 1
    BY <1>1, <2>1, AppendProperties
  <2> HIDE DEF t
  <2> QED
    BY <2>2, LenProperties
<1>3. \A k \in 1 .. n + 1 : t[k] = [control |-> i - 1, attempt |-> k]
  BY <1>1 DEF RejectionNotes
<1> HIDE DEF t
<1>4. t = [k \in 1 .. n + 1 |-> [control |-> i - 1, attempt |-> k]]
  BY <1>2, <1>3
<1>5. QED
  BY <1>4 DEF t, RejectionNotes

\* Collecting starts a control from scratch, whatever the last one left behind.
LEMMA CollectStarts ==
    ASSUME IInv, Collect
    PROVE  InProgress'
<1> DEFINE i == control_idx + 1
<1>1. /\ Current \in Control
      /\ Len(trail) = control_idx /\ control_idx \in Nat
      /\ trail \in Seq(TrailEntry)
      /\ node' = "synthesize"
      /\ UNCHANGED <<controls, control_idx>>
  BY WorkingTypes DEF Collect, Invoke, IInv, Progress, TypeOK, Working, Goto
<1>2. PICK scan \in ScanOutcome :
          /\ collection' = CollectEvidence(Current, scan)
          /\ trail' = Append(trail, [scan |-> Heard(Current, scan), reviews |-> <<>>])
  BY DEF Collect
<1>3. trail'[i] = [scan |-> Heard(Current, scan), reviews |-> <<>>]
  BY <1>1, <1>2
<1>4. Reviews(i)' = <<>> /\ Scanned(i)' = CollectEvidence(Current, Heard(Current, scan))
  BY <1>1, <1>3 DEF Reviews, Scanned, Current
<1>5. collection' = Scanned(i)' /\ collection' \in CollectionResult
  BY <1>1, <1>2, <1>4, CollectHeard, HeardIsScan, CollectType
<1>6. Open(i)' /\ Len(Reviews(i)') = 0
  BY <1>4, MaxVerifierAttemptsAssumption DEF Open, AllRejected
<1>7. RejectionNotes(i, 0) = <<>>
  BY DEF RejectionNotes
<1>8. verifier_attempts' = 0 /\ verifier_notes' = RejectionNotes(i, 0)
  BY <1>7 DEF Collect
<1>9. QED
  BY <1>1, <1>5, <1>6, <1>8 DEF InProgress

\* A draft carries the provenance of the control in progress.
LEMMA SynthesizeDrafts ==
    ASSUME IInv, Synthesize
    PROVE  InProgress'
<1> DEFINE i == control_idx + 1
<1>1. /\ node = "synthesize" /\ node' = "verify"
      /\ UNCHANGED <<controls, control_idx, collection, verifier_attempts,
                     verifier_notes, trail>>
  BY DEF Synthesize, Invoke, Goto
<1>2. /\ collection = Scanned(i) /\ collection \in CollectionResult
      /\ verifier_attempts = Len(Reviews(i))
      /\ Open(i)
      /\ verifier_notes = RejectionNotes(i, Len(Reviews(i)))
  BY <1>1 DEF IInv, InProgress, Working
<1>3. PICK class \in VerdictClass :
          draft_verdict' = Draft(i, class, "not_run", Len(Reviews(i)) + 1)
  BY <1>2 DEF Synthesize, Draft, Current
<1>4. draft_verdict' = Draft(i, class, "not_run", Len(Reviews(i)) + 1)'
  BY <1>1, <1>3 DEF Draft, Scanned, Reviews
<1>5. /\ (Scanned(i))' = Scanned(i) /\ Reviews(i)' = Reviews(i) /\ Open(i)' = Open(i)
  BY <1>1, Frame
<1>6. QED
  BY <1>1, <1>2, <1>4, <1>5 DEF InProgress

\* The Verifier's decision settles the control or leaves it open with one more
\* rejection, and the draft goes on as the Verifier left it.
LEMMA VerifyDecides ==
    ASSUME IInv, Verify
    PROVE  InProgress'
<1> DEFINE i == control_idx + 1
           n == Len(Reviews(i))
<1>0. /\ node = "verify" /\ Len(trail) = i /\ Len(trail) > 0 /\ i \in DOMAIN trail
      /\ control_idx \in Nat /\ trail \in Seq(TrailEntry)
      /\ trail[i] \in TrailEntry
      /\ verifier_notes \in Seq(Note)
      /\ UNCHANGED <<controls, control_idx, collection>>
  BY WorkingTypes DEF Verify, Invoke, IInv, TypeOK, Progress, Working
<1>1. /\ collection = Scanned(i) /\ collection \in CollectionResult
      /\ verifier_attempts = n
      /\ Open(i)
      /\ verifier_notes = RejectionNotes(i, n)
  BY <1>0 DEF IInv, InProgress, Working
<1>2. PICK class \in VerdictClass : draft_verdict = Draft(i, class, "not_run", n + 1)
  BY <1>0 DEF IInv, InProgress
<1>3. Reviews(i) \in Seq(Review) /\ n \in Nat
  BY <1>0 DEF Reviews, TrailEntry
<1> DEFINE Status_(approved) == IF approved THEN "passed" ELSE "failed"
           draft(approved) == Draft(i, class, Status_(approved), n + 1)
<1>4. PICK approved \in BOOLEAN :
          /\ verifier_attempts' = n + 1
          /\ verifier_notes' = IF approved THEN verifier_notes
                ELSE Append(verifier_notes, [control |-> control_idx, attempt |-> n + 1])
          /\ draft_verdict' = draft(approved)
          /\ trail' = [trail EXCEPT ![Len(trail)].reviews =
                Append(@, [verdict |-> class, approved |-> approved])]
          /\ node' = RouteVerify(draft(approved), n + 1)
  BY <1>1, <1>2 DEF Verify, Draft, Goto
<1> DEFINE review == [verdict |-> class, approved |-> approved]
<1>5. review \in Review
  BY DEF Review
<1>6. /\ DOMAIN trail' = DOMAIN trail
      /\ trail'[i].scan = trail[i].scan
      /\ trail'[i].reviews = Append(trail[i].reviews, review)
  BY <1>0, <1>4, <1>5, ExtendTrail
<1>7. /\ Reviews(i)' = Append(Reviews(i), review)
      /\ Scanned(i)' = Scanned(i)
  BY <1>0, <1>6 DEF Reviews, Scanned
<1>8. /\ Len(Reviews(i)') = n + 1
      /\ \A k \in 1 .. n : Reviews(i)'[k] = Reviews(i)[k]
      /\ Reviews(i)'[n + 1] = review
      /\ Reviews(i)' # <<>>
      /\ DOMAIN Reviews(i)' = 1 .. n + 1
      /\ DOMAIN Reviews(i) = 1 .. n
  BY <1>3, <1>5, <1>7, AppendProperties, LenProperties
<1>9. LastReview(i)' = review
  BY <1>8 DEF LastReview
<1>10. \A k \in 1 .. n : ~Reviews(i)'[k].approved
  BY <1>1, <1>8 DEF Open, AllRejected
<1>11. n < MaxVerifierAttempts
  BY <1>1 DEF Open
<1>12. ~approved => verifier_notes' = RejectionNotes(i, n + 1)
  <2>1. [control |-> i - 1, attempt |-> n + 1] \in Note
    BY <1>0, <1>3 DEF Note
  <2>2. i - 1 = control_idx
    BY <1>0
  <2>3. QED
    BY <1>0, <1>1, <1>3, <1>4, <2>1, <2>2, OneMoreNote
<1>13. draft_verdict' = [control_id |-> controls[i].id, verdict |-> class,
                         evidence |-> Scanned(i).evidence,
                         verifier_status |-> Status_(approved),
                         verifier_notes |-> NoNotes, attempt |-> n + 1]
  BY <1>4 DEF Draft
<1>14. CASE ~approved /\ n + 1 < MaxVerifierAttempts
  <2>1. node' = "synthesize"
    BY <1>3, <1>4, <1>14, MaxVerifierAttemptsAssumption DEF RouteVerify, Draft
  <2>2. Open(i)'
    BY <1>8, <1>9, <1>10, <1>14 DEF Open, AllRejected
  <2>3. QED
    BY <1>0, <1>1, <1>4, <1>7, <1>8, <1>12, <1>14, <2>1, <2>2 DEF InProgress
<1>15. CASE approved \/ n + 1 = MaxVerifierAttempts
  <2>1. node' = "finalize_control"
    BY <1>3, <1>4, <1>15, MaxVerifierAttemptsAssumption DEF RouteVerify, Draft
  <2>2. Closed(i)'
    BY <1>3, <1>8, <1>9, <1>10, <1>11, <1>15, MaxVerifierAttemptsAssumption DEF Closed
  <2>3. draft_verdict' = Reviewed(i)'
    <3>1. Reviewed(i)' = [control_id |-> controls'[i].id, verdict |-> class,
                          evidence |-> Scanned(i)'.evidence,
                          verifier_status |-> Status_(approved),
                          verifier_notes |-> NoNotes, attempt |-> n + 1]
      BY <1>0, <1>8, <1>9 DEF Reviewed, Draft
    <3>2. QED
      BY <1>0, <1>7, <1>13, <3>1
  <2>4. verifier_notes' = RejectionNotes(i, Rejections(i)')
    BY <1>1, <1>3, <1>4, <1>8, <1>9, <1>12 DEF Rejections
  <2>5. (RejectionNotes(i, Rejections(i)))' = RejectionNotes(i, Rejections(i)')
    BY <1>0 DEF RejectionNotes
  <2>6. QED
    BY <1>0, <1>1, <1>4, <1>7, <1>8, <2>1, <2>2, <2>3, <2>4, <2>5 DEF InProgress
<1>16. QED
  BY <1>3, <1>11, <1>14, <1>15, MaxVerifierAttemptsAssumption

LEMMA InProgressStep == IInv /\ [Next]_vars => InProgress'
<1> SUFFICES ASSUME IInv, [Next]_vars PROVE InProgress'
  OBVIOUS
<1>0. InProgress
  BY DEF IInv
<1>1. CASE Supervisor
  BY <1>1 DEF Supervisor, RouteSupervisor, Goto, InProgress, Working
<1>2. CASE Collect
  BY <1>2, CollectStarts
<1>3. CASE Synthesize
  BY <1>3, SynthesizeDrafts
<1>4. CASE Verify
  BY <1>4, VerifyDecides
<1>5. CASE FinalizeControl
  BY <1>5 DEF FinalizeControl, Goto, InProgress, Working
<1>6. CASE Final
  BY <1>6 DEF Final, Goto, InProgress, Working
<1>7. CASE NodeRaises
  BY <1>0, <1>7, InProgressFrame DEF NodeRaises, observer
<1>8. CASE OutOfSteps
  BY <1>0, <1>8, InProgressFrame DEF OutOfSteps, observer
<1>9. CASE UNCHANGED vars
  BY <1>0, <1>9, InProgressFrame DEF vars, observer, runtime
<1>10. QED
  BY <1>1, <1>2, <1>3, <1>4, <1>5, <1>6, <1>7, <1>8, <1>9 DEF Next, Stopped

\* A committed verdict stays justified, and a new one is justified by the draft
\* that the Verifier left.
LEMMA SettledStep ==
    IInv /\ [Next]_vars => (\A i \in DOMAIN verdicts : Settled(i))'
<1> SUFFICES ASSUME IInv, [Next]_vars,
                    NEW i \in DOMAIN verdicts'
             PROVE  Settled(i)'
  OBVIOUS
<1>0. /\ TypeOK /\ Progress /\ InProgress
      /\ \A j \in DOMAIN verdicts : Settled(j)
      /\ Len(verdicts) = control_idx /\ control_idx \in Nat
      /\ DOMAIN verdicts = 1 .. control_idx
  BY DEF IInv, TypeOK, Progress
<1>1. ASSUME controls' = controls, verdicts' = verdicts, trail' = trail
      PROVE  Settled(i)'
  BY <1>0, <1>1, Frame
<1>2. CASE Collect
  <2>1. PICK entry : trail' = Append(trail, entry)
    BY <1>2 DEF Collect
  <2>2. i \in 1 .. Len(trail)
    BY <1>0, <1>2 DEF Collect, Invoke, Progress, Working
  <2>3. trail'[i] = trail[i]
    BY <1>0, <2>1, <2>2 DEF TypeOK
  <2>4. QED
    BY <1>0, <1>2, <2>3, Frame DEF Collect
<1>3. CASE Verify
  <2>1. Len(trail) = control_idx + 1
    BY <1>0, <1>3 DEF Verify, Invoke, Progress, Working
  <2>2. i \in DOMAIN trail /\ i # Len(trail)
    BY <1>0, <1>3, <2>1 DEF Verify, TypeOK
  <2>3. trail'[i] = trail[i]
    BY <1>0, <1>3, <2>2 DEF Verify, TypeOK
  <2>4. QED
    BY <1>0, <1>3, <2>3, Frame DEF Verify
<1>4. CASE FinalizeControl
  <2> DEFINE new == Finalized(draft_verdict, collection, verifier_attempts, verifier_notes)
  <2>1. /\ node = "finalize_control"
        /\ verdicts' = Append(verdicts, new)
        /\ UNCHANGED <<controls, trail>>
    BY <1>4 DEF FinalizeControl, Invoke, observer
  <2>2. DOMAIN verdicts' = 1 .. control_idx + 1
    BY <1>0, <2>1 DEF TypeOK
  <2>3. CASE i \in DOMAIN verdicts
    <3>1. verdicts'[i] = verdicts[i]
      BY <1>0, <2>1, <2>3 DEF TypeOK
    <3>2. QED
      BY <1>0, <2>1, <2>3, <3>1, Frame
  <2>4. CASE i = control_idx + 1
    <3>1. verdicts'[i] = new
      BY <1>0, <2>1, <2>4 DEF TypeOK
    <3>2. /\ Closed(i)
          /\ draft_verdict = Reviewed(i)
          /\ collection = Scanned(i)
          /\ verifier_attempts = Len(Reviews(i))
          /\ verifier_notes = RejectionNotes(i, Rejections(i))
      BY <1>0, <2>1, <2>4 DEF InProgress, Working
    <3>3. QED
      BY <2>1, <3>1, <3>2, Frame DEF Settled
  <2>5. QED
    BY <1>0, <2>2, <2>3, <2>4
<1>5. CASE Supervisor
  BY <1>1, <1>5 DEF Supervisor, state, observer
<1>6. CASE Synthesize
  BY <1>1, <1>6 DEF Synthesize
<1>7. CASE Final
  BY <1>1, <1>7 DEF Final, observer
<1>8. CASE NodeRaises
  BY <1>1, <1>8 DEF NodeRaises, state, observer
<1>9. CASE OutOfSteps
  BY <1>1, <1>9 DEF OutOfSteps, state, observer
<1>10. CASE UNCHANGED vars
  BY <1>1, <1>10 DEF vars, state, observer
<1>11. QED
  BY <1>2, <1>3, <1>4, <1>5, <1>6, <1>7, <1>8, <1>9, <1>10 DEF Next, Stopped

-----------------------------------------------------------------------------
(* The theorems *)

LEMMA IInvInit == Init => IInv
<1> SUFFICES ASSUME Init PROVE IInv
  OBVIOUS
<1>1. TypeOK
  BY TypeInit
<1>2. Progress
  BY <1>1 DEF Init, Progress, Working, TypeOK
<1>3. InProgress
  BY DEF Init, InProgress, Working
<1>4. \A i \in DOMAIN verdicts : Settled(i)
  BY DEF Init
<1>5. QED
  BY <1>1, <1>2, <1>3, <1>4 DEF IInv

LEMMA IInvStep == IInv /\ [Next]_vars => IInv'
<1> SUFFICES ASSUME IInv, [Next]_vars PROVE IInv'
  OBVIOUS
<1>1. TypeOK' /\ Progress' /\ InProgress'
  BY TypeStep, ProgressStep, InProgressStep
<1>2. (\A i \in DOMAIN verdicts : Settled(i))'
  BY SettledStep
<1>3. QED
  BY <1>1, <1>2 DEF IInv

\* The inductive invariant holds of every run.
THEOREM Invariance == Spec => []IInv
BY IInvInit, IInvStep, PTL DEF Spec

\* ComplianceState is well-typed in every state of every run.
THEOREM TypeCorrectness == Spec => []TypeOK
<1>1. IInv => TypeOK
  BY DEF IInv
<1>2. QED
  BY <1>1, Invariance, PTL

\* What the invariant says of a finished control, in the vocabulary of the
\* properties.
LEMMA SettledFacts ==
    ASSUME IInv, NEW i \in DOMAIN verdicts
    PROVE  /\ Closed(i)
           /\ verdicts[i] = Finalized(Reviewed(i), Scanned(i), Len(Reviews(i)),
                                      RejectionNotes(i, Rejections(i)))
           /\ Scanned(i).errors = FailedTools(i)
           /\ LastReview(i) \in Review
           /\ Len(Reviews(i)) \in Nat \ {0}
<1>1. Settled(i)
  BY DEF IInv
<1>2. i \in DOMAIN trail /\ i \in DOMAIN controls
  BY DEF IInv, TypeOK, Progress, Working
<1>3. trail[i] \in TrailEntry
  BY <1>2 DEF IInv, TypeOK
<1>4. Reviews(i) \in Seq(Review) /\ Reviews(i) # <<>>
  BY <1>1, <1>3 DEF Reviews, TrailEntry, Settled, Closed
<1>5. LastReview(i) \in Review /\ Len(Reviews(i)) \in Nat \ {0}
  BY <1>4 DEF LastReview
<1>6. Scanned(i).errors = FailedTools(i)
  BY DEF Scanned, FailedTools, CollectEvidence
<1>7. QED
  BY <1>1, <1>5, <1>6 DEF Settled

\* The draft that finalize_control commits unchanged has passed both guards.
LEMMA IInvFailClosed == IInv => FailClosed
<1> SUFFICES ASSUME IInv, NEW i \in DOMAIN verdicts,
                    verdicts[i].verdict \in Affirmative
             PROVE  /\ verdicts[i].evidence # {}
                    /\ FailedTools(i) = {}
                    /\ LastReview(i) = [verdict |-> verdicts[i].verdict, approved |-> TRUE]
  BY DEF FailClosed
<1> DEFINE draft == Reviewed(i)
<1>1. /\ Closed(i)
      /\ verdicts[i] = Finalized(draft, Scanned(i), Len(Reviews(i)),
                                 RejectionNotes(i, Rejections(i)))
      /\ Scanned(i).errors = FailedTools(i)
      /\ LastReview(i) \in Review
      /\ Len(Reviews(i)) \in Nat \ {0}
  BY SettledFacts
<1>2. \A nf : Downgrade(draft, nf).verdict \notin Affirmative
  BY DEF Downgrade, Affirmative, Reviewed, Draft
<1>3. /\ verdicts[i] = draft
      /\ ~FailClosedGuard(draft, Scanned(i))
      /\ ~ExhaustedGuard(draft, Len(Reviews(i)))
  BY <1>1, <1>2 DEF Finalized
<1>4. /\ draft.verdict = LastReview(i).verdict
      /\ draft.evidence = Scanned(i).evidence
      /\ draft.verifier_status = IF LastReview(i).approved THEN "passed" ELSE "failed"
  BY DEF Reviewed, Draft
<1>5. Scanned(i).errors = {} /\ Scanned(i).evidence # {}
  BY <1>3, <1>4 DEF FailClosedGuard, Affirmative
<1>6. LastReview(i).approved
  BY <1>1, <1>3, <1>4, MaxVerifierAttemptsAssumption DEF ExhaustedGuard, Closed
<1>7. LastReview(i) = [verdict |-> verdicts[i].verdict, approved |-> TRUE]
  BY <1>1, <1>3, <1>4, <1>6 DEF Review
<1>8. QED
  BY <1>1, <1>3, <1>4, <1>5, <1>7

\* Fail-closed, in every run: no affirmative verdict without evidence, with a
\* failed scanner, or without the Verifier's approval of that very class.
THEOREM FailClosedHolds == Spec => []FailClosed
BY IInvFailClosed, Invariance, PTL

\* Neither guard touches what a draft says of its control.
LEMMA IInvVerdictsAlign == IInv => VerdictsAlign
<1> SUFFICES ASSUME IInv PROVE VerdictsAlign
  OBVIOUS
<1>1. Len(verdicts) = control_idx /\ control_idx <= Len(controls)
  BY DEF IInv, Progress
<1>2. ASSUME NEW i \in DOMAIN verdicts
      PROVE  /\ verdicts[i].control_id = controls[i].id
             /\ verdicts[i].evidence = ScannedEvidence(i)
             /\ verdicts[i].attempt = Len(Reviews(i))
  <2> DEFINE draft == Reviewed(i)
  <2>1. verdicts[i] = Finalized(draft, Scanned(i), Len(Reviews(i)),
                                RejectionNotes(i, Rejections(i)))
    BY SettledFacts
  <2>2. /\ draft.control_id = controls[i].id
        /\ draft.evidence = Scanned(i).evidence
        /\ draft.attempt = Len(Reviews(i))
    BY DEF Reviewed, Draft
  <2>3. \A nf : /\ Downgrade(draft, nf).control_id = draft.control_id
                /\ Downgrade(draft, nf).evidence = draft.evidence
                /\ Downgrade(draft, nf).attempt = draft.attempt
    BY DEF Downgrade, Reviewed, Draft
  <2>4. QED
    BY <2>1, <2>2, <2>3 DEF Finalized, Scanned, ScannedEvidence
<1>3. QED
  BY <1>1, <1>2 DEF VerdictsAlign

\* In every run the i-th verdict is the i-th control's, with its evidence.
THEOREM VerdictsAlignHolds == Spec => []VerdictsAlign
BY IInvVerdictsAlign, Invariance, PTL

\* In every run the verify loop ends a control by an approval or at the cap.
THEOREM ReviewLoopHolds == Spec => []ReviewLoop
<1>1. IInv => ReviewLoop
  <2> SUFFICES ASSUME IInv, NEW i \in DOMAIN trail
               PROVE  /\ Len(Reviews(i)) <= MaxVerifierAttempts
                      /\ \A k \in 1 .. Len(Reviews(i)) - 1 : ~Reviews(i)[k].approved
                      /\ i \in DOMAIN verdicts =>
                            /\ Reviews(i) # <<>>
                            /\ \/ LastReview(i).approved
                               \/ Len(Reviews(i)) = MaxVerifierAttempts
    BY DEF ReviewLoop
  <2>1. CASE i \in DOMAIN verdicts
    BY <2>1, SettledFacts DEF Closed
  <2>2. CASE i \notin DOMAIN verdicts
    <3>1. node \in Working /\ i = control_idx + 1
      BY <2>2 DEF IInv, TypeOK, Progress
    <3>2. Reviews(i) \in Seq(Review)
      <4>1. trail[i] \in TrailEntry
        BY DEF IInv, TypeOK
      <4>2. QED
        BY <4>1 DEF Reviews, TrailEntry
    <3>3. Open(i) \/ Closed(i)
      BY <3>1 DEF IInv, InProgress, Working
    <3>4. QED
      BY <2>2, <3>2, <3>3, MaxVerifierAttemptsAssumption DEF Open, AllRejected, Closed
  <2>3. QED
    BY <2>1, <2>2
<1>2. QED
  BY <1>1, Invariance, PTL

\* In every run a verdict that differs from the reviewed draft says so and why.
THEOREM DowngradesAreExplainedHolds == Spec => []DowngradesAreExplained
<1>1. IInv => DowngradesAreExplained
  <2> SUFFICES ASSUME IInv, NEW i \in DOMAIN verdicts
               PROVE  LET v == verdicts[i]
                      IN  /\ v.verdict # LastReview(i).verdict =>
                                v.verdict = "not_assessable" /\ v.verifier_notes.tag # ""
                          /\ v.verifier_notes.tag # "" => v.verifier_status = "failed"
                          /\ v.verifier_notes.tag = "fail-closed" =>
                                /\ v.verifier_notes.errors = FailedTools(i)
                                /\ FailedTools(i) # {} \/ v.evidence = {}
                          /\ v.verifier_notes.tag = "verifier-exhausted" =>
                                ~LastReview(i).approved
                          /\ v.verifier_status = "passed" <=>
                                LastReview(i).approved /\ v.verifier_notes.tag = ""
    BY DEF DowngradesAreExplained
  <2> DEFINE draft == Reviewed(i)
             n == Len(Reviews(i))
             closed == [tag |-> "fail-closed", errors |-> Scanned(i).errors, notes |-> <<>>]
             exhausted == [tag |-> "verifier-exhausted", errors |-> {},
                           notes |-> RejectionNotes(i, Rejections(i))]
  <2>1. /\ Closed(i)
        /\ verdicts[i] = Finalized(draft, Scanned(i), n, RejectionNotes(i, Rejections(i)))
        /\ Scanned(i).errors = FailedTools(i)
        /\ LastReview(i) \in Review
        /\ n \in Nat \ {0}
    BY SettledFacts
  <2>2. /\ draft.verdict = LastReview(i).verdict
        /\ draft.evidence = Scanned(i).evidence
        /\ draft.verifier_status = IF LastReview(i).approved THEN "passed" ELSE "failed"
        /\ draft.verifier_notes.tag = ""
    BY DEF Reviewed, Draft, NoNotes
  <2>3. \A nf : /\ Downgrade(draft, nf).verdict = "not_assessable"
                /\ Downgrade(draft, nf).verifier_status = "failed"
                /\ Downgrade(draft, nf).verifier_notes = nf
                /\ Downgrade(draft, nf).evidence = draft.evidence
    BY DEF Downgrade, Reviewed, Draft
  <2>4. CASE FailClosedGuard(draft, Scanned(i))
    <3>1. verdicts[i] = Downgrade(draft, closed)
      BY <2>1, <2>4 DEF Finalized
    <3>2. FailedTools(i) # {} \/ draft.evidence = {}
      BY <2>1, <2>2, <2>4 DEF FailClosedGuard
    <3>3. closed.tag = "fail-closed" /\ closed.errors = FailedTools(i)
      BY <2>1
    <3> HIDE DEF closed, draft
    <3>4. /\ verdicts[i].verdict = "not_assessable"
          /\ verdicts[i].verifier_status = "failed"
          /\ verdicts[i].verifier_notes = closed
          /\ verdicts[i].evidence = draft.evidence
      BY <2>3, <3>1
    <3>5. QED
      BY <3>2, <3>3, <3>4
  <2>5. CASE /\ ~FailClosedGuard(draft, Scanned(i))
             /\ ExhaustedGuard(draft, n)
    <3>1. verdicts[i] = Downgrade(draft, exhausted)
      BY <2>1, <2>5 DEF Finalized
    <3>2. ~LastReview(i).approved
      BY <2>2, <2>5 DEF ExhaustedGuard
    <3>3. exhausted.tag = "verifier-exhausted"
      OBVIOUS
    <3> HIDE DEF exhausted, draft
    <3>4. /\ verdicts[i].verdict = "not_assessable"
          /\ verdicts[i].verifier_status = "failed"
          /\ verdicts[i].verifier_notes = exhausted
      BY <2>3, <3>1
    <3>5. QED
      BY <3>2, <3>3, <3>4
  <2>6. CASE /\ ~FailClosedGuard(draft, Scanned(i))
             /\ ~ExhaustedGuard(draft, n)
    <3>1. verdicts[i] = draft
      BY <2>1, <2>6 DEF Finalized
    <3>2. LastReview(i).approved
      BY <2>1, <2>2, <2>6, MaxVerifierAttemptsAssumption DEF ExhaustedGuard, Closed
    <3>3. QED
      BY <2>2, <3>1, <3>2
  <2>7. QED
    BY <2>4, <2>5, <2>6
<1>2. QED
  BY <1>1, Invariance, PTL

\* No step of any run revises a committed verdict, or commits one that the
\* Verifier has not decided on in its present form.
THEOREM CommitsOnlyReviewedHolds == Spec => CommitsOnlyReviewed
<1> DEFINE Commit ==
      verdicts' # verdicts =>
          /\ Len(verdicts') = Len(verdicts) + 1
          /\ \A i \in DOMAIN verdicts : verdicts'[i] = verdicts[i]
          /\ draft_verdict.verifier_status # "not_run"
          /\ draft_verdict.attempt = verifier_attempts
          /\ draft_verdict.verdict = LastReview(Len(trail)).verdict
<1>1. IInv /\ [Next]_vars => [Commit]_vars
  <2> SUFFICES ASSUME IInv, [Next]_vars, verdicts' # verdicts PROVE Commit
    OBVIOUS
  <2>1. FinalizeControl
    BY DEF Next, Supervisor, Collect, Synthesize, Verify, Final, NodeRaises, OutOfSteps,
           Stopped, vars, state, observer
  <2>2. PICK v : verdicts' = Append(verdicts, v)
    BY <2>1 DEF FinalizeControl
  <2>3. /\ Len(verdicts') = Len(verdicts) + 1
        /\ \A i \in DOMAIN verdicts : verdicts'[i] = verdicts[i]
    BY <2>2 DEF IInv, TypeOK
  <2> DEFINE c == control_idx + 1
  <2>4. /\ draft_verdict = Reviewed(c)
        /\ verifier_attempts = Len(Reviews(c))
        /\ Len(trail) = c
    BY <2>1 DEF FinalizeControl, Invoke, IInv, InProgress, Progress, Working
  <2>5. QED
    BY <2>3, <2>4 DEF Reviewed, Draft
<1>2. QED
  BY <1>1, Invariance, PTL DEF Spec, CommitsOnlyReviewed

-----------------------------------------------------------------------------
(* The recursion limit *)

LEMMA StepsPerControlNat == StepsPerControl \in Nat
BY MaxVerifierAttemptsAssumption DEF StepsPerControl

\* One more control costs one more StepsPerControl.
LEMMA OneMoreControl ==
    ASSUME NEW i \in Nat
    PROVE  (i + 1) * StepsPerControl = i * StepsPerControl + 3 + 2 * MaxVerifierAttempts
<1>1. \A k \in Nat : (i + 1) * k = i * k + k
  OBVIOUS
<1>2. (i + 1) * StepsPerControl = i * StepsPerControl + StepsPerControl
  BY <1>1, StepsPerControlNat
<1>3. i * StepsPerControl \in Nat
  BY StepsPerControlNat
<1> DEFINE p == i * StepsPerControl
<1> HIDE DEF p
<1>4. p + StepsPerControl = p + 3 + 2 * MaxVerifierAttempts
  BY <1>3, MaxVerifierAttemptsAssumption DEF StepsPerControl, p
<1>5. QED
  BY <1>2, <1>4 DEF p

\* The controls done so far cost at most what all of them may cost.
LEMMA FewerControls ==
    ASSUME NEW i \in Nat, NEW n \in Nat, i <= n
    PROVE  i * StepsPerControl <= n * StepsPerControl
<1>1. \A k \in Nat : i * k <= n * k
  <2> TAKE k \in Nat
  <2>1. n - i \in Nat
    OBVIOUS
  <2>2. (n - i) * k \in Nat
    BY <2>1
  <2>3. n * k = i * k + (n - i) * k
    OBVIOUS
  <2>4. i * k \in Nat /\ n * k \in Nat
    OBVIOUS
  <2>5. QED
    BY <2>2, <2>3, <2>4
<1>2. QED
  BY <1>1, StepsPerControlNat

\* How often verify has run for the control in progress.
LEMMA AttemptsBound ==
    ASSUME IInv
    PROVE  /\ verifier_attempts \in Nat
           /\ node \in {"synthesize", "verify"} => verifier_attempts < MaxVerifierAttempts
           /\ node = "finalize_control" => verifier_attempts <= MaxVerifierAttempts
BY DEF IInv, TypeOK, InProgress, Working, Open, Closed

LEMMA StepsUsedStep == IInv /\ StepsUsed /\ [Next]_vars => StepsUsed'
<1> SUFFICES ASSUME IInv, StepsUsed, [Next]_vars, error' = "none" PROVE StepsUsed'
  BY DEF StepsUsed
<1> DEFINE p == control_idx * StepsPerControl
<1>0. /\ steps \in Nat /\ control_idx \in Nat /\ p \in Nat
      /\ MaxVerifierAttempts \in Nat
      /\ verifier_attempts \in Nat
      /\ node = "finalize_control" => verifier_attempts <= MaxVerifierAttempts
  BY AttemptsBound, StepsPerControlNat, MaxVerifierAttemptsAssumption DEF IInv, TypeOK
<1>1. ASSUME error = "none"
      PROVE  /\ node = "supervisor" => steps <= p
             /\ node \in {"collect", "final"} => steps <= p + 1
             /\ node \in {"synthesize", "finalize_control"} =>
                   steps <= p + 2 + 2 * verifier_attempts
             /\ node = "verify" => steps <= p + 3 + 2 * verifier_attempts
             /\ node = "END" => steps <= p + 2
  BY <1>1 DEF StepsUsed
<1> DEFINE q == control_idx' * StepsPerControl
<1>2. SUFFICES /\ node' = "supervisor" => steps' <= q
               /\ node' \in {"collect", "final"} => steps' <= q + 1
               /\ node' \in {"synthesize", "finalize_control"} =>
                     steps' <= q + 2 + 2 * verifier_attempts'
               /\ node' = "verify" => steps' <= q + 3 + 2 * verifier_attempts'
               /\ node' = "END" => steps' <= q + 2
  BY <1>2 DEF StepsUsed, StepsPerControl
<1>4. control_idx' = control_idx => q = p
  OBVIOUS
<1> HIDE DEF p, q
<1> USE DEF Invoke, Goto
<1>5. CASE Supervisor
  BY <1>0, <1>1, <1>4, <1>5 DEF Supervisor, RouteSupervisor, state
<1>6. CASE Collect
  BY <1>0, <1>1, <1>4, <1>6 DEF Collect
<1>7. CASE Synthesize
  BY <1>0, <1>1, <1>4, <1>7 DEF Synthesize
<1>8. CASE Verify
  <2>1. /\ error = "none" /\ node = "verify" /\ steps' = steps + 1
        /\ verifier_attempts' = verifier_attempts + 1
        /\ node' \in {"synthesize", "finalize_control"}
        /\ control_idx' = control_idx
    BY <1>8 DEF Verify, RouteVerify
  <2>2. QED
    BY <1>0, <1>1, <1>4, <2>1
<1>9. CASE FinalizeControl
  <2>1. /\ error = "none" /\ node = "finalize_control" /\ steps' = steps + 1
        /\ node' = "supervisor" /\ control_idx' = control_idx + 1
    BY <1>9 DEF FinalizeControl
  <2>2. q = p + 3 + 2 * MaxVerifierAttempts
    BY <1>0, <2>1, OneMoreControl DEF p, q
  <2>3. QED
    BY <1>0, <1>1, <2>1, <2>2
<1>10. CASE Final
  BY <1>0, <1>1, <1>4, <1>10 DEF Final
<1>11. CASE NodeRaises
  BY <1>11 DEF NodeRaises
<1>12. CASE OutOfSteps
  BY <1>12 DEF OutOfSteps
<1>13. CASE UNCHANGED vars
  BY <1>0, <1>1, <1>4, <1>13 DEF vars, state, runtime
<1>14. QED
  BY <1>5, <1>6, <1>7, <1>8, <1>9, <1>10, <1>11, <1>12, <1>13 DEF Next, Stopped

\* As long as the worst case fits, there is always a step left to take.
LEMMA NeverOutOfSteps ==
    ASSUME IInv, StepsUsed, controls \in Affordable
    PROVE  ~OutOfSteps
<1> SUFFICES ASSUME OutOfSteps PROVE FALSE
  OBVIOUS
<1> DEFINE p == control_idx * StepsPerControl
           all == Len(controls) * StepsPerControl
<1>1. /\ error = "none" /\ node # "END" /\ steps >= RecursionLimit
      /\ steps \in Nat /\ node \in Nodes /\ control_idx \in Nat /\ Len(controls) \in Nat
      /\ control_idx <= Len(controls)
      /\ node \in Working \cup {"collect"} => control_idx + 1 <= Len(controls)
  BY DEF OutOfSteps, IInv, TypeOK, Progress
<1>2. p \in Nat /\ all \in Nat /\ p <= all
  BY <1>1, FewerControls, StepsPerControlNat
<1>3. control_idx + 1 <= Len(controls) => p + 3 + 2 * MaxVerifierAttempts <= all
  <2>1. control_idx + 1 \in Nat
    BY <1>1
  <2>2. p + 3 + 2 * MaxVerifierAttempts = (control_idx + 1) * StepsPerControl
    BY <1>1, OneMoreControl
  <2>3. QED
    BY <1>1, <2>1, <2>2, FewerControls
<1>4. all + 2 <= RecursionLimit
  BY DEF Affordable
<1>5. /\ node = "supervisor" => steps <= p
      /\ node \in {"collect", "final"} => steps <= p + 1
      /\ node \in {"synthesize", "finalize_control"} =>
            steps <= p + 2 + 2 * verifier_attempts
      /\ node = "verify" => steps <= p + 3 + 2 * verifier_attempts
  BY <1>1 DEF StepsUsed
<1>6. /\ verifier_attempts \in Nat /\ MaxVerifierAttempts \in Nat
      /\ node \in {"synthesize", "verify"} => verifier_attempts < MaxVerifierAttempts
      /\ node = "finalize_control" => verifier_attempts <= MaxVerifierAttempts
  BY AttemptsBound, MaxVerifierAttemptsAssumption
<1> HIDE DEF p, all
<1>7. QED
  BY <1>1, <1>2, <1>3, <1>4, <1>5, <1>6, RecursionLimitAssumption DEF Nodes, Working

\* For every attempt cap and every list of controls whose worst case the recursion
\* limit allows, no run is ever cut short by GraphRecursionError: the cap on
\* attempts alone bounds the loop.
THEOREM BackstopIsSlackHolds == Spec => []BackstopIsSlack
<1> DEFINE J == IInv /\ StepsUsed /\ BackstopIsSlack
<1>1. Init => J
  <2> SUFFICES ASSUME Init PROVE J
    OBVIOUS
  <2>1. IInv
    BY IInvInit
  <2>2. 0 * StepsPerControl = 0
    BY StepsPerControlNat
  <2>3. StepsUsed
    BY <2>2 DEF Init, StepsUsed
  <2>4. BackstopIsSlack
    BY DEF Init, BackstopIsSlack
  <2>5. QED
    BY <2>1, <2>3, <2>4
<1>2. J /\ [Next]_vars => J'
  <2> SUFFICES ASSUME J, [Next]_vars PROVE J'
    OBVIOUS
  <2>1. IInv' /\ StepsUsed'
    BY IInvStep, StepsUsedStep
  <2>2. controls' = controls
    BY DEF Next, Supervisor, Collect, Synthesize, Verify, FinalizeControl, Final, NodeRaises,
           OutOfSteps, Stopped, vars, state
  <2>3. ASSUME controls \in Affordable PROVE error' # "GraphRecursionError"
    <3>1. ~OutOfSteps
      BY <2>3, NeverOutOfSteps
    <3>2. error # "GraphRecursionError"
      BY <2>3 DEF BackstopIsSlack
    <3>3. QED
      BY <3>1, <3>2 DEF Next, Supervisor, Collect, Synthesize, Verify, FinalizeControl, Final,
             NodeRaises, Stopped, Goto, vars, runtime
  <2>4. Affordable' = Affordable
    BY DEF Affordable, StepsPerControl
  <2>5. QED
    BY <2>1, <2>2, <2>3, <2>4 DEF BackstopIsSlack
<1>3. QED
  BY <1>1, <1>2, PTL DEF Spec

-----------------------------------------------------------------------------
(* What the Synthesizer is told and what the caller gets. Both need one fact that *)
(* IInv does not hold: what was put into the prompt, and into the report.         *)

\* The prompt of the draft under review, and the report of a finished run.
Prompted ==
    node = "verify" =>
        prompt = SynthesizerHuman(Current, collection, verifier_notes, verifier_attempts + 1)
Delivered == node = "END" => final_report = Report(verdicts)

\* Synthesize sends the prompt, and the verify node is entered from there only.
LEMMA PromptedStep == Prompted /\ [Next]_vars => Prompted'
<1> SUFFICES ASSUME Prompted, [Next]_vars, node' = "verify" PROVE Prompted'
  BY DEF Prompted
<1>1. CASE Synthesize
  BY <1>1 DEF Synthesize, Prompted, Current
<1>2. CASE NodeRaises \/ OutOfSteps \/ UNCHANGED vars
  BY <1>2 DEF NodeRaises, OutOfSteps, vars, state, runtime, observer, Prompted, Current
<1>3. CASE Supervisor \/ Collect \/ Verify \/ FinalizeControl \/ Final
  BY <1>3 DEF Supervisor, Collect, Verify, FinalizeControl, Final, Goto, RouteSupervisor,
              RouteVerify
<1> QED
  BY <1>1, <1>2, <1>3 DEF Next, Stopped

\* Final makes the report, and nothing happens afterwards.
LEMMA DeliveredStep == Delivered /\ [Next]_vars => Delivered'
<1> SUFFICES ASSUME Delivered, [Next]_vars, node' = "END" PROVE Delivered'
  BY DEF Delivered
<1>1. CASE Final
  BY <1>1 DEF Final, Delivered
<1>2. CASE NodeRaises \/ OutOfSteps \/ UNCHANGED vars
  BY <1>2 DEF NodeRaises, OutOfSteps, vars, state, runtime, observer, Delivered
<1>3. CASE Supervisor \/ Collect \/ Synthesize \/ Verify \/ FinalizeControl
  BY <1>3 DEF Supervisor, Collect, Synthesize, Verify, FinalizeControl, Goto, RouteSupervisor,
              RouteVerify
<1> QED
  BY <1>1, <1>2, <1>3 DEF Next, Stopped

\* Both hold in every run.
LEMMA Told == Spec => [](Prompted /\ Delivered)
<1>1. Init => Prompted /\ Delivered
  BY DEF Init, Prompted, Delivered
<1> QED
  BY <1>1, PromptedStep, DeliveredStep, PTL DEF Spec

-----------------------------------------------------------------------------
(* Feedback *)

\* The notes of the i-th control are its rejections when all of its reviews but an
\* approving last one are.
LEMMA NotesAreRejections ==
    ASSUME NEW i, NEW n \in Nat, Reviews(i) \in Seq(Review), n <= Len(Reviews(i)),
           \A k \in DOMAIN Reviews(i) : k \in 1 .. n <=> ~Reviews(i)[k].approved
    PROVE  NotesOf(i, RejectionNotes(i, n))
<1>1. DOMAIN RejectionNotes(i, n) = 1 .. n
  BY DEF RejectionNotes
<1>2. \A k \in 1 .. n : k \in DOMAIN Reviews(i)
  OBVIOUS
<1> QED
  BY <1>1, <1>2 DEF NotesOf, RejectionNotes

\* What the invariant and the prompt say of the feedback.
LEMMA FeedbackFacts == IInv /\ Prompted => FeedbackIsComplete
<1> SUFFICES ASSUME IInv, Prompted PROVE FeedbackIsComplete
  OBVIOUS
<1>1. ASSUME node = "verify"
      PROVE  /\ NotesOf(Len(trail), prompt.feedback)
             /\ prompt.rejected = Len(Reviews(Len(trail)))
             /\ prompt.errors = FailedTools(Len(trail))
  <2> DEFINE i == control_idx + 1
             n == Len(Reviews(i))
  <2>1. /\ Len(trail) = i /\ i \in DOMAIN trail
        /\ Open(i) /\ collection = Scanned(i)
        /\ verifier_attempts = n
        /\ verifier_notes = RejectionNotes(i, n)
    BY <1>1 DEF IInv, TypeOK, Progress, InProgress, Working
  <2>2. Reviews(i) \in Seq(Review) /\ n \in Nat
    <3>1. trail[i] \in TrailEntry
      BY <2>1 DEF IInv, TypeOK
    <3> QED
      BY <3>1 DEF Reviews, TrailEntry
  <2>3. NotesOf(i, RejectionNotes(i, n))
    BY <2>1, <2>2, NotesAreRejections DEF Open, AllRejected
  <2>4. prompt = SynthesizerHuman(Current, collection, verifier_notes, n + 1)
    BY <1>1, <2>1 DEF Prompted
  <2>5. prompt.feedback = RejectionNotes(i, n) /\ prompt.rejected = n
    <3>1. CASE n = 0
      <4>1. RejectionNotes(i, n) = <<>>
        BY <3>1 DEF RejectionNotes
      <4> QED
        BY <2>1, <2>4, <3>1, <4>1 DEF SynthesizerHuman
    <3>2. CASE n > 0
      <4>1. RejectionNotes(i, n) # <<>>
        <5>1. 1 \in DOMAIN RejectionNotes(i, n)
          BY <2>2, <3>2 DEF RejectionNotes
        <5> QED
          BY <5>1
      <4> QED
        BY <2>1, <2>2, <2>4, <3>2, <4>1 DEF SynthesizerHuman
    <3> QED
      BY <2>2, <3>1, <3>2
  <2>6. prompt.errors = FailedTools(i)
    BY <2>1, <2>4 DEF SynthesizerHuman, Scanned, CollectEvidence, FailedTools
  <2> QED
    BY <2>1, <2>3, <2>5, <2>6
<1>2. ASSUME NEW i \in DOMAIN verdicts,
             verdicts[i].verifier_notes.tag = "verifier-exhausted"
      PROVE  /\ NotesOf(i, verdicts[i].verifier_notes.notes)
             /\ Len(verdicts[i].verifier_notes.notes) = MaxVerifierAttempts
  <2> DEFINE draft == Reviewed(i)
             n == Len(Reviews(i))
             notes == RejectionNotes(i, Rejections(i))
  <2>1. /\ Closed(i) /\ LastReview(i) \in Review /\ n \in Nat \ {0}
        /\ verdicts[i] = Finalized(draft, Scanned(i), n, notes)
    BY SettledFacts
  <2>2. Reviews(i) \in Seq(Review)
    <3>1. i \in DOMAIN trail /\ trail[i] \in TrailEntry
      BY DEF IInv, TypeOK, Progress, Working
    <3> QED
      BY <3>1 DEF Reviews, TrailEntry
  <2>3. \A nf : Downgrade(draft, nf).verifier_notes = nf
    BY DEF Downgrade, Reviewed, Draft
  <2>4. draft.verifier_notes = NoNotes
    BY DEF Reviewed, Draft
  <2>5. ~FailClosedGuard(draft, Scanned(i)) /\ ExhaustedGuard(draft, n)
    <3>1. draft.verifier_notes.tag = ""
      <4>1. NoNotes.tag = ""
        BY DEF NoNotes
      <4> QED
        BY <2>4, <4>1
    <3>2. ~FailClosedGuard(draft, Scanned(i))
      BY <1>2, <2>1, <2>3 DEF Finalized
    <3> QED
      BY <1>2, <2>1, <3>1, <3>2 DEF Finalized
  <2>6. verdicts[i].verifier_notes.notes = notes
    BY <2>1, <2>3, <2>5 DEF Finalized
  <2>7. ~LastReview(i).approved /\ n = MaxVerifierAttempts
    <3>1. draft.verifier_status = IF LastReview(i).approved THEN "passed" ELSE "failed"
      BY DEF Reviewed, Draft
    <3>2. ~LastReview(i).approved
      BY <2>5, <3>1 DEF ExhaustedGuard
    <3> QED
      BY <2>1, <3>2 DEF Closed
  <2>8. Rejections(i) = n
    BY <2>7 DEF Rejections
  <2>9. \A k \in DOMAIN Reviews(i) : ~Reviews(i)[k].approved
    BY <2>1, <2>2, <2>7 DEF Closed, LastReview
  <2>10. NotesOf(i, notes)
    BY <2>1, <2>2, <2>8, <2>9, NotesAreRejections
  <2>11. Len(notes) = n
    BY <2>1, <2>8 DEF RejectionNotes
  <2> QED
    BY <2>6, <2>7, <2>10, <2>11
<1> QED
  BY <1>1, <1>2 DEF FeedbackIsComplete

\* In every run the Synthesizer is told every rejection of its earlier drafts of the
\* control and no other, and an exhausted verdict quotes them all.
THEOREM FeedbackIsCompleteHolds == Spec => []FeedbackIsComplete
BY FeedbackFacts, Invariance, Told, PTL

-----------------------------------------------------------------------------
(* The report *)

\* The sizes of two disjoint sets add up.
LEMMA DisjointUnion ==
    ASSUME NEW S, IsFiniteSet(S), NEW T, IsFiniteSet(T), S \cap T = {}
    PROVE  /\ IsFiniteSet(S \cup T)
           /\ Cardinality(S \cup T) = Cardinality(S) + Cardinality(T)
<1>1. Cardinality(S) \in Nat /\ Cardinality(T) \in Nat
  BY FS_CardinalityType
<1>2. Cardinality(S \cap T) = 0
  BY FS_EmptySet
<1>3. /\ IsFiniteSet(S \cup T)
      /\ Cardinality(S \cup T) = Cardinality(S) + Cardinality(T) - Cardinality(S \cap T)
  BY FS_Union
<1> QED
  BY <1>1, <1>2, <1>3

\* The four counts of a report add up to the number of its verdicts.
LEMMA CountsAddUp ==
    ASSUME NEW vs \in Seq(ControlVerdict)
    PROVE  Len(vs) = Cardinality(OfClass(vs, "satisfied"))
                     + Cardinality(OfClass(vs, "partial"))
                     + Cardinality(OfClass(vs, "gap"))
                     + Cardinality(OfClass(vs, "not_assessable"))
<1> DEFINE s == OfClass(vs, "satisfied")
           p == OfClass(vs, "partial")
           g == OfClass(vs, "gap")
           u == OfClass(vs, "not_assessable")
<1>1. DOMAIN vs = 1 .. Len(vs) /\ Len(vs) \in Nat
  OBVIOUS
<1>2. IsFiniteSet(1 .. Len(vs)) /\ Cardinality(1 .. Len(vs)) = Len(vs)
  BY <1>1, FS_Interval
<1>3. IsFiniteSet(s) /\ IsFiniteSet(p) /\ IsFiniteSet(g) /\ IsFiniteSet(u)
  <2>1. s \subseteq 1 .. Len(vs) /\ p \subseteq 1 .. Len(vs)
        /\ g \subseteq 1 .. Len(vs) /\ u \subseteq 1 .. Len(vs)
    BY <1>1 DEF OfClass
  <2> QED
    BY <1>2, <2>1, FS_Subset
<1>4. /\ s \cap p = {} /\ (s \cup p) \cap g = {} /\ (s \cup p \cup g) \cap u = {}
  BY DEF OfClass
<1>5. 1 .. Len(vs) = s \cup p \cup g \cup u
  <2>1. \A i \in 1 .. Len(vs) : vs[i].verdict \in VerdictClass
    <3>1. \A i \in 1 .. Len(vs) : vs[i] \in ControlVerdict
      BY <1>1
    <3> QED
      BY <3>1 DEF ControlVerdict
  <2> QED
    BY <1>1, <2>1 DEF OfClass, VerdictClass
<1> HIDE DEF s, p, g, u
<1>6. /\ IsFiniteSet(s \cup p)
      /\ Cardinality(s \cup p) = Cardinality(s) + Cardinality(p)
  BY <1>3, <1>4, DisjointUnion
<1>7. /\ IsFiniteSet(s \cup p \cup g)
      /\ Cardinality(s \cup p \cup g) = Cardinality(s \cup p) + Cardinality(g)
  BY <1>3, <1>4, <1>6, DisjointUnion
<1>8. Cardinality(s \cup p \cup g \cup u) = Cardinality(s \cup p \cup g) + Cardinality(u)
  BY <1>3, <1>4, <1>7, DisjointUnion
<1>9. Len(vs) = Cardinality(s) + Cardinality(p) + Cardinality(g) + Cardinality(u)
  BY <1>2, <1>5, <1>6, <1>7, <1>8
<1> QED
  BY <1>9 DEF s, p, g, u

\* The report of a finished run is about every control of the request, once each and
\* in order, and its counts add up.
THEOREM ReportIsCompleteHolds == Spec => []ReportIsComplete
<1>1. IInv /\ Delivered => ReportIsComplete
  <2> SUFFICES ASSUME IInv, Delivered, node = "END" PROVE ReportIsComplete
    BY DEF ReportIsComplete
  <2>1. final_report = Report(verdicts)
    BY DEF Delivered
  <2>2. /\ verdicts \in Seq(ControlVerdict) /\ controls \in Seq(Control)
        /\ Len(verdicts) = Len(controls)
    BY DEF IInv, TypeOK, Progress
  <2>3. \A i \in DOMAIN controls : verdicts[i].control_id = controls[i].id
    BY <2>2, IInvVerdictsAlign DEF VerdictsAlign
  <2> QED
    BY <2>1, <2>2, <2>3, CountsAddUp DEF ReportIsComplete, Report
<1> QED
  BY <1>1, Invariance, Told, PTL

-----------------------------------------------------------------------------
(* The contract of run_assessment: decisions *)

\* Decisions stay as they are while verdicts and the trails of finished controls do.
LEMMA DecisionsFrame ==
    ASSUME UNCHANGED <<controls, verdicts>>,
           \A i \in DOMAIN verdicts : trail'[i] = trail[i]
    PROVE  Decisions(verdicts)' = Decisions(verdicts)
<1>1. \A i \in DOMAIN verdicts : Decision(verdicts[i], i)' = Decision(verdicts[i], i)
  BY DEF Decision, FailedTools, LastReview, Reviews
<1> QED
  BY <1>1 DEF Decisions

\* The trails of finished controls are not touched by any step.
LEMMA TrailFrame ==
    ASSUME IInv, [Next]_vars
    PROVE  \A i \in DOMAIN verdicts : trail'[i] = trail[i]
<1> SUFFICES ASSUME NEW i \in DOMAIN verdicts PROVE trail'[i] = trail[i]
  OBVIOUS
<1>0. /\ trail \in Seq(TrailEntry) /\ verdicts \in Seq(ControlVerdict)
      /\ Len(verdicts) = control_idx /\ control_idx \in Nat
      /\ i \in 1 .. control_idx
      /\ Len(trail) = control_idx + (IF node \in Working THEN 1 ELSE 0)
  BY DEF IInv, TypeOK, Progress
<1>1. CASE Collect
  <2>1. PICK entry : trail' = Append(trail, entry)
    BY <1>1 DEF Collect
  <2>2. i \in 1 .. Len(trail)
    BY <1>0, <1>1 DEF Collect, Invoke, Working
  <2> QED
    BY <1>0, <2>1, <2>2
<1>2. CASE Verify
  <2>1. Len(trail) = control_idx + 1
    BY <1>0, <1>2 DEF Verify, Invoke, Working
  <2>2. i # Len(trail) /\ i \in DOMAIN trail
    BY <1>0, <2>1
  <2> QED
    BY <1>0, <1>2, <2>2 DEF Verify
<1>3. CASE ~Collect /\ ~Verify
  BY <1>3 DEF Next, Supervisor, Synthesize, FinalizeControl, Final, NodeRaises, OutOfSteps,
              Stopped, vars, observer
<1> QED
  BY <1>1, <1>2, <1>3

\* A committed verdict is a decision the contract allows: a supported one, on the
\* control that was asked for.
LEMMA VerdictIsDecision ==
    ASSUME IInv, NEW i \in DOMAIN verdicts
    PROVE  /\ Decision(verdicts[i], i) \in Contract!Decision
           /\ Contract!Supported(Decision(verdicts[i], i))
           /\ Decision(verdicts[i], i).control_id = Ids(controls)[i]
<1> DEFINE d == Decision(verdicts[i], i)
<1>1. /\ verdicts[i] \in ControlVerdict
      /\ i \in DOMAIN controls
      /\ DOMAIN Ids(controls) = DOMAIN controls
  BY DEF IInv, TypeOK, Progress, Ids
<1>2. d.control_id = Ids(controls)[i]
  BY <1>1, IInvVerdictsAlign DEF VerdictsAlign, Ids, Decision
<1>3. /\ d.verdict \in Contract!Class /\ d.evidence \subseteq EvidenceRef
      /\ d.failed \subseteq Tools /\ d.approved \in BOOLEAN
  <2>1. FailedTools(i) \subseteq Tools
    BY DEF FailedTools, ToolsFor
  <2> QED
    BY <1>1, <2>1 DEF Decision, ControlVerdict, VerdictClass, Contract!Class
<1>4. d \in Contract!Decision
  <2>1. d.control_id \in {Ids(controls)[j] : j \in DOMAIN Ids(controls)}
    BY <1>1, <1>2
  <2>2. d = [control_id |-> d.control_id, verdict |-> d.verdict, evidence |-> d.evidence,
             failed |-> d.failed, approved |-> d.approved]
    BY DEF Decision
  <2> QED
    BY <1>3, <2>1, <2>2 DEF Contract!Decision
<1>5. Contract!Supported(d)
  <2> SUFFICES ASSUME verdicts[i].verdict # "not_assessable"
               PROVE  verdicts[i].evidence # {} /\ FailedTools(i) = {}
                      /\ LastReview(i) = [verdict |-> verdicts[i].verdict, approved |-> TRUE]
    BY DEF Contract!Supported, Decision
  <2>1. verdicts[i].verdict \in Affirmative
    BY <1>1 DEF Affirmative, ControlVerdict
  <2> QED
    BY <2>1, IInvFailClosed DEF FailClosed
<1> QED
  BY <1>2, <1>4, <1>5

DecisionsSupported ==
    \A i \in DOMAIN verdicts :
        /\ Decisions(verdicts)[i] \in Contract!Decision
        /\ Contract!Supported(Decisions(verdicts)[i])
        /\ Decisions(verdicts)[i].control_id = Ids(controls)[i]

\* The same of all of them, in a form that holds of the next state too.
LEMMA IInvDecisions == IInv => DecisionsSupported
BY VerdictIsDecision DEF DecisionsSupported, Decisions

\* A function on 1..n is a sequence of n elements.
LEMMA FunctionIsSeq ==
    ASSUME NEW S, NEW n \in Nat, NEW f \in [1 .. n -> S]
    PROVE  f \in Seq(S) /\ Len(f) = n
OBVIOUS

\* A sequence with one more element at its end.
LEMMA OneMoreElement ==
    ASSUME NEW m \in Nat, NEW s, NEW t,
           s = [i \in 1 .. m |-> s[i]],
           t = [i \in 1 .. m + 1 |-> t[i]],
           \A i \in 1 .. m : t[i] = s[i]
    PROVE  t = Append(s, t[m + 1])
<1> DEFINE S == {s[i] : i \in 1 .. m} \cup {t[m + 1]}
<1>1. s \in [1 .. m -> S] /\ t[m + 1] \in S
  OBVIOUS
<1>2. s \in Seq(S) /\ Len(s) = m
  BY <1>1
<1>3. t \in [1 .. m + 1 -> S]
  <2>1. \A i \in 1 .. m + 1 : i \in 1 .. m \/ i = m + 1
    OBVIOUS
  <2> QED
    BY <2>1
<1>4. t \in Seq(S) /\ Len(t) = m + 1
  <2>1. m + 1 \in Nat
    OBVIOUS
  <2> HIDE DEF S
  <2> QED
    BY <1>3, <2>1, FunctionIsSeq
<1>5. Append(s, t[m + 1]) \in Seq(S) /\ Len(Append(s, t[m + 1])) = m + 1
  BY <1>1, <1>2
<1>6. \A i \in 1 .. m + 1 : t[i] = Append(s, t[m + 1])[i]
  <2>1. \A i \in 1 .. m : Append(s, t[m + 1])[i] = s[i]
    BY <1>1, <1>2
  <2>2. Append(s, t[m + 1])[m + 1] = t[m + 1]
    BY <1>1, <1>2
  <2>3. \A i \in 1 .. m + 1 : i \in 1 .. m \/ i = m + 1
    OBVIOUS
  <2> QED
    BY <2>1, <2>2, <2>3
<1> QED
  BY <1>4, <1>5, <1>6

-----------------------------------------------------------------------------
(* The contract of run_assessment: the refinement *)

\* A run of the graph starts as a run of the contract.
LEMMA RefinementInit == Init => Contract!Init
<1> SUFFICES ASSUME Init PROVE Contract!Init
  OBVIOUS
<1>1. Ids(controls) \in {Ids(cs) : cs \in ControlLists}
  BY DEF Init
<1>2. Decisions(verdicts) = <<>>
  BY DEF Init, Decisions
<1> QED
  BY <1>1, <1>2 DEF Init, Contract!Init

\* finalize_control decides, final delivers, an exception raises, and no other step
\* is visible to the caller.
LEMMA RefinementStep == IInv /\ IInv' /\ [Next]_vars => [Contract!Next]_Contract!vars
<1> SUFFICES ASSUME IInv, IInv', [Next]_vars PROVE [Contract!Next]_Contract!vars
  OBVIOUS
<1> DEFINE request == Ids(controls)
           decided == Decisions(verdicts)
           report  == IF node = "END" THEN Decisions(final_report.verdicts) ELSE None
<1>0. /\ verdicts \in Seq(ControlVerdict) /\ controls \in Seq(Control)
      /\ control_idx \in Nat /\ Len(verdicts) = control_idx
      /\ node \in Working => control_idx < Len(controls)
      /\ node = "final" => control_idx = Len(controls)
  BY DEF IInv, TypeOK, Progress
<1>1. Len(decided) = control_idx /\ Len(request) = Len(controls)
      /\ DOMAIN decided = 1 .. control_idx
  BY <1>0 DEF Decisions, Ids
<1>2. controls' = controls /\ request' = request
  <2>1. controls' = controls
    BY DEF Next, Supervisor, Collect, Synthesize, Verify, FinalizeControl, Final, NodeRaises,
           OutOfSteps, Stopped, vars, state
  <2> QED
    BY <2>1 DEF Ids
<1>3. verdicts' = verdicts => decided' = decided
  BY <1>2, TrailFrame, DecisionsFrame
<1>4. ASSUME verdicts' = verdicts, node # "END", node' # "END", error' = error
      PROVE  UNCHANGED Contract!vars
  BY <1>2, <1>3, <1>4 DEF Contract!vars
<1>5. CASE Supervisor
  BY <1>4, <1>5 DEF Supervisor, Invoke, Goto, RouteSupervisor, state
<1>6. CASE Collect
  BY <1>4, <1>6 DEF Collect, Invoke, Goto
<1>7. CASE Synthesize
  BY <1>4, <1>7 DEF Synthesize, Invoke, Goto
<1>8. CASE Verify
  BY <1>4, <1>8 DEF Verify, Invoke, Goto, RouteVerify
<1>9. CASE FinalizeControl
  <2> DEFINE n == control_idx + 1
  <2>1. /\ node = "finalize_control" /\ error = "none"
        /\ node' = "supervisor" /\ error' = error
        /\ trail' = trail
    BY <1>9 DEF FinalizeControl, Invoke, Goto, observer
  <2>2. PICK v : verdicts' = Append(verdicts, v)
    BY <1>9 DEF FinalizeControl
  <2>3. /\ DOMAIN verdicts' = 1 .. n /\ verdicts'[n] = v
        /\ \A i \in 1 .. control_idx : verdicts'[i] = verdicts[i]
    BY <1>0, <2>2
  <2>4. \A i \in 1 .. control_idx : Decision(verdicts[i], i)' = Decision(verdicts[i], i)
    BY <1>2, <2>1, <2>3 DEF Decision, FailedTools, LastReview, Reviews
  <2>5. /\ decided' = [i \in 1 .. n |-> Decision(verdicts[i], i)']
        /\ decided = [i \in 1 .. control_idx |-> Decision(verdicts[i], i)]
    BY <1>1, <2>3 DEF Decisions
  <2>6. /\ decided' = [i \in 1 .. n |-> decided'[i]]
        /\ decided = [i \in 1 .. control_idx |-> decided[i]]
        /\ \A i \in 1 .. control_idx : decided'[i] = decided[i]
    BY <1>0, <2>4, <2>5
  <2>7. decided' = Append(decided, decided'[n])
    BY <1>0, <2>6, OneMoreElement
  <2>8. DecisionsSupported'
    BY IInvDecisions, PTL
  <2>9. n \in DOMAIN verdicts'
    BY <1>0, <2>3
  <2>10. /\ decided'[n] \in Contract!Decision'
         /\ Contract!Supported(decided'[n])
         /\ decided'[n].control_id = request'[n]
    BY <2>8, <2>9 DEF DecisionsSupported, Contract!Supported
  <2>11. Contract!Decision' = Contract!Decision
    BY <1>2 DEF Contract!Decision
  <2>12. report = None /\ report' = report /\ error = "none" /\ error' = "none"
    BY <2>1
  <2>13. \E d \in Contract!Decision :
            /\ d.control_id = request[Len(decided) + 1]
            /\ Contract!Supported(d)
            /\ decided' = Append(decided, d)
    BY <1>1, <1>2, <2>7, <2>10, <2>11
  <2>14. Len(decided) < Len(request)
    BY <1>0, <1>1, <2>1 DEF Working
  <2>15. Contract!Decide
    BY <1>2, <2>12, <2>13, <2>14 DEF Contract!Decide, Contract!Running
  <2> QED
    BY <2>15 DEF Contract!Next
<1>10. CASE Final
  <2>1. /\ node = "final" /\ error = "none" /\ node' = "END" /\ error' = error
        /\ verdicts' = verdicts /\ trail' = trail /\ final_report' = Report(verdicts)
    BY <1>10 DEF Final, Invoke, Goto, observer
  <2>2. decided' = decided
    BY <1>3, <2>1
  <2>3. final_report'.verdicts = verdicts'
    BY <2>1 DEF Report
  <2>4. report' = decided'
    BY <2>1, <2>3
  <2>5. Contract!Deliver
    BY <1>0, <1>1, <1>2, <2>1, <2>2, <2>4 DEF Contract!Deliver, Contract!Running
  <2> QED
    BY <2>5 DEF Contract!Next
<1>11. CASE NodeRaises \/ OutOfSteps
  <2>1. /\ verdicts' = verdicts /\ node' = node /\ node # "END" /\ error = "none"
        /\ error' # "none"
    BY <1>11 DEF NodeRaises, OutOfSteps, Invoke, state
  <2>2. Contract!Raise
    BY <1>2, <1>3, <2>1 DEF Contract!Raise, Contract!Running
  <2> QED
    BY <2>2 DEF Contract!Next
<1>12. CASE UNCHANGED vars
  BY <1>2, <1>3, <1>12 DEF vars, state, runtime, observer, Contract!vars, Decisions, Decision,
                         FailedTools, LastReview, Reviews
<1> QED
  BY <1>5, <1>6, <1>7, <1>8, <1>9, <1>10, <1>11, <1>12 DEF Next, Stopped

\* Every run of the graph is a run that the contract of run_assessment allows.
THEOREM ImplementsContractHolds == Spec => ImplementsContract
BY Invariance, RefinementInit, RefinementStep, PTL DEF Spec, ImplementsContract, Contract!Spec

-----------------------------------------------------------------------------
(* The run log: the graph under the wrapper *)

\* What the wrapper does is a step of the graph or leaves the graph alone.
LEMMA LogStepIsGraphStep == [LogNext]_allvars => [Next]_vars
<1>1. LogNext => [Next]_vars
  <2>1. QuietBody => Next
    BY DEF QuietBody, Next
  <2>2. LoggingBody => Next
    BY DEF LoggingBody, Next
  <2>3. BodyRaises => Next
    BY DEF BodyRaises, Next
  <2>4. Exhaust => Next
    BY DEF Exhaust, Next
  <2>5. StartRun \/ EnterNode \/ BodyLogFails \/ ExitNode \/ Handle \/ RunError \/ Return
            => UNCHANGED vars
    BY DEF StartRun, EnterNode, BodyLogFails, ExitNode, Handle, RunError, Return
  <2>6. Ended => UNCHANGED vars
    BY DEF Ended, allvars
  <2> QED
    BY <2>1, <2>2, <2>3, <2>4, <2>5, <2>6 DEF LogNext
<1> QED
  BY <1>1 DEF allvars

\* An instrumented run is a run of the graph: what holds of the graph holds of it.
THEOREM LoggedRunIsRun == LogSpec => Spec
<1>1. LogInit => Init
  BY DEF LogInit
<1> QED
  BY <1>1, LogStepIsGraphStep, PTL DEF LogSpec, Spec

\* In particular its state keeps the inductive invariant of the graph.
LEMMA LoggedIInv == LogSpec => []IInv
BY LoggedRunIsRun, Invariance, PTL

-----------------------------------------------------------------------------
(* The run log: the events of one kind *)

LEMMA SeqOfToSet ==
    ASSUME NEW X, NEW s \in Seq(X)
    PROVE  s \in Seq(SE!ToSet(s))
<1>1. /\ DOMAIN s = 1 .. Len(s) /\ Len(s) \in Nat /\ s = [i \in 1 .. Len(s) |-> s[i]]
  OBVIOUS
<1>2. \A i \in 1 .. Len(s) : s[i] \in SE!ToSet(s)
  BY <1>1 DEF SE!ToSet
<1> QED
  BY <1>1, <1>2

LEMMA OfKindAppend ==
    ASSUME NEW X, NEW s \in Seq(X), NEW x \in X, NEW kind
    PROVE  OfKind(Append(s, x), kind) = IF x.event = kind THEN Append(OfKind(s, kind), x)
                                        ELSE OfKind(s, kind)
<1> DEFINE T == {e \in SE!ToSet(Append(s, x)) : e.event = kind}
           U == {e \in SE!ToSet(s) : e.event = kind}
<1>1. SE!ToSet(Append(s, x)) = SE!ToSet(s) \cup {x}
  BY ToSetAppend
<1>2. x \in T <=> x.event = kind
  BY <1>1
<1>3. \A e \in SE!ToSet(s) : e \in T <=> e \in U
  BY <1>1
<1>4. Filter(Append(s, x), T) = IF x \in T THEN Append(Filter(s, T), x) ELSE Filter(s, T)
  BY FilterAppend
<1>5. Filter(s, T) = Filter(s, U)
  <2>1. s \in Seq(SE!ToSet(s))
    BY SeqOfToSet
  <2> HIDE DEF T, U
  <2> QED
    BY <1>3, <2>1, FilterAgree
<1> HIDE DEF T, U
<1>6. OfKind(Append(s, x), kind) = Filter(Append(s, x), T) /\ OfKind(s, kind) = Filter(s, U)
  BY DEF OfKind, T, U
<1> QED
  BY <1>2, <1>4, <1>5, <1>6

LEMMA OfKindType ==
    ASSUME NEW X, NEW s \in Seq(X), NEW kind
    PROVE  OfKind(s, kind) \in Seq(X)
BY FilterType DEF OfKind

LEMMA OfKindEmpty == \A kind : OfKind(<<>>, kind) = <<>>
BY FilterEmpty DEF OfKind

\* There is an event of a kind in the log or not.
LogIsSeq == \E X : log \in Seq(X)

Last == log[Len(log)]

\* The log after one more event.
LEMMA Appended ==
    ASSUME LogIsSeq, NEW e, log' = Append(log, e)
    PROVE  /\ LogIsSeq'
           /\ log' # <<>> /\ Len(log) \in Nat /\ Len(log') = Len(log) + 1
           /\ DOMAIN log = 1 .. Len(log) /\ DOMAIN log' = 1 .. Len(log) + 1
           /\ \A k \in 1 .. Len(log) : log'[k] = log[k]
           /\ log'[Len(log) + 1] = e /\ Last' = e
<1>1. PICK X : log \in Seq(X)
  BY DEF LogIsSeq
<1> DEFINE Y == X \cup {e}
<1>2. log \in Seq(Y) /\ e \in Y
  BY <1>1, SeqMonotonic
<1> HIDE DEF Y
<1>3. /\ log' \in Seq(Y) /\ log' # <<>> /\ Len(log) \in Nat /\ Len(log') = Len(log) + 1
      /\ \A k \in 1 .. Len(log) : log'[k] = log[k]
      /\ log'[Len(log) + 1] = e
  BY <1>2, AppendFacts
<1>4. DOMAIN log = 1 .. Len(log) /\ DOMAIN log' = 1 .. Len(log) + 1
  BY <1>2, <1>3
<1> QED
  BY <1>3, <1>4 DEF Last, LogIsSeq

LEMMA LoggedAppend ==
    ASSUME LogIsSeq, NEW e, log' = Append(log, e)
    PROVE  \A kind : Logged(kind)' = IF e.event = kind THEN Append(Logged(kind), e)
                                     ELSE Logged(kind)
<1>1. PICK X : log \in Seq(X)
  BY DEF LogIsSeq
<1> DEFINE Y == X \cup {e}
<1>2. log \in Seq(Y) /\ e \in Y
  BY <1>1, SeqMonotonic
<1> HIDE DEF Y
<1> QED
  BY <1>2, OfKindAppend DEF Logged

LEMMA LoggedIsSeq ==
    ASSUME LogIsSeq, NEW kind
    PROVE  \E X : Logged(kind) \in Seq(X)
BY OfKindType DEF LogIsSeq, Logged

-----------------------------------------------------------------------------
(* The run log: nesting *)

\* The events that a node logs itself.
OwnEvents == {"tool_call", "verifier_attempt", "verdict_finalized", "run_end"}

Started == [event |-> "node_start", node |-> running]

\* No bracket is open; the bracket of the running node has just been opened; the
\* node has logged its own event in it.
Between == log # <<>> /\ Last.event \in {"run_start", "node_end"}
Opened  == log # <<>> /\ Last = Started
Inside  == Len(log) > 1 /\ Last.event \in OwnEvents /\ log[Len(log) - 1] = Started

\* Where control is tells what the last event is.
Position ==
    /\ LogIsSeq
    /\ pc = "run_start" => log = <<>>
    /\ pc \in {"next", "returned"} => Between
    /\ pc \in {"body", "handler"} => Opened
    /\ pc = "exit" => Opened \/ Inside
    /\ pc = "run_error" => log # <<>>
    /\ pc # "raised" => \A k \in DOMAIN log : log[k].event # "run_error"

\* What may be the next event.
Fits(e) ==
    /\ e.event = "run_start" <=> log = <<>>
    /\ e.event = "node_start" => Last.event \in {"run_start", "node_end"}
    /\ e.event \in OwnEvents => Last.event = "node_start"
    /\ e.event \in {"node_end", "node_error"} =>
          \E j \in {Len(log), Len(log) - 1} \cap DOMAIN log :
              log[j] = [event |-> "node_start", node |-> e.node]
    /\ log # <<>> /\ Last.event = "node_error" => e.event = "run_error"

\* LogNests, at one position.
NestsAt(k) ==
    LET e == log[k]
        before == log[k - 1]
    IN  /\ e.event = "run_start" <=> k = 1
        /\ e.event = "node_start" => before.event \in {"run_start", "node_end"}
        /\ e.event \in OwnEvents => before.event = "node_start"
        /\ e.event \in {"node_end", "node_error"} =>
              \E j \in {k - 1, k - 2} \cap DOMAIN log :
                  log[j] = [event |-> "node_start", node |-> e.node]
        /\ k > 1 /\ before.event = "node_error" => e.event = "run_error"
        /\ e.event = "run_error" => k = Len(log)

LEMMA NestsEverywhere == LogNests <=> \A k \in DOMAIN log : NestsAt(k)
BY DEF LogNests, NestsAt, OwnEvents

LEMMA NestsAppend ==
    ASSUME LogIsSeq, LogNests, \A k \in DOMAIN log : log[k].event # "run_error",
           NEW e, Fits(e), log' = Append(log, e)
    PROVE  LogNests'
<1>0. Len(log) \in Nat
  BY Appended
<1> PICK n \in Nat : n = Len(log)
  BY <1>0
<1>1. /\ n = Len(log) /\ Len(log') = n + 1
      /\ DOMAIN log = 1 .. n /\ DOMAIN log' = 1 .. n + 1
      /\ \A k \in 1 .. n : log'[k] = log[k]
      /\ log'[n + 1] = e
  BY Appended
<1>2. log = <<>> <=> n = 0
  <2>1. PICK X : log \in Seq(X)
    BY DEF LogIsSeq
  <2> QED
    BY <2>1, EmptySeq
<1>3. ASSUME NEW k \in 1 .. n PROVE NestsAt(k)'
  <2>1. NestsAt(k)
    BY <1>1, NestsEverywhere
  <2>2. log'[k] = log[k] /\ log[k].event # "run_error"
    BY <1>1
  <2>3. CASE k = 1
    <3>1. log[k].event = "run_start"
      BY <2>1, <2>3 DEF NestsAt
    <3> QED
      BY <2>2, <2>3, <3>1 DEF NestsAt, OwnEvents
  <2>4. CASE k # 1
    <3>1. k - 1 \in 1 .. n /\ log'[k - 1] = log[k - 1]
      BY <1>1, <2>4
    <3>2. \A j \in {k - 1, k - 2} \cap DOMAIN log :
              j \in {k - 1, k - 2} \cap DOMAIN log' /\ log'[j] = log[j]
      BY <1>1
    <3> QED
      BY <2>1, <2>2, <3>1, <3>2 DEF NestsAt
  <2> QED
    BY <2>3, <2>4
<1>4. NestsAt(n + 1)'
  <2>1. CASE n = 0
    <3>1. e.event = "run_start"
      BY <1>2, <2>1 DEF Fits
    <3> QED
      BY <1>1, <2>1, <3>1 DEF NestsAt, OwnEvents
  <2>2. CASE n # 0
    <3>0. n \in 1 .. n /\ n + 1 - 1 = n /\ n + 1 - 2 = n - 1
      BY <1>1, <2>2
    <3>1. log'[n] = Last /\ log # <<>>
      BY <1>1, <1>2, <2>2, <3>0 DEF Last
    <3>2. \A j \in {n, n - 1} \cap DOMAIN log :
              j \in {n, n - 1} \cap DOMAIN log' /\ log'[j] = log[j]
      BY <1>1
    <3>3. ~(n + 1 = 1)
      BY <1>1, <2>2
    <3> QED
      BY <1>1, <3>0, <3>1, <3>2, <3>3 DEF NestsAt, Fits
  <2> QED
    BY <2>1, <2>2
<1>5. ASSUME NEW k \in DOMAIN log' PROVE NestsAt(k)'
  <2>1. CASE k = n + 1
    BY <1>4, <2>1
  <2>2. CASE k # n + 1
    <3>1. k \in 1 .. n
      BY <1>1, <2>2
    <3> QED
      BY <1>3, <3>1
  <2> QED
    BY <2>1, <2>2
<1> QED
  BY <1>5 DEF LogNests, NestsAt, OwnEvents

\* Every event fits where it is logged.
LEMMA NestsStep == Position /\ LogNests /\ [LogNext]_allvars => Position' /\ LogNests'
<1> SUFFICES ASSUME Position, LogNests, [LogNext]_allvars PROVE Position' /\ LogNests'
  OBVIOUS
<1>0. LogIsSeq
  BY DEF Position
<1>1. ASSUME UNCHANGED log PROVE LogIsSeq' /\ LogNests' /\ Last' = Last
  BY <1>0, <1>1 DEF LogIsSeq, LogNests, Last
<1>2. ASSUME NEW e, log' = Append(log, e)
      PROVE  /\ LogIsSeq' /\ log' # <<>> /\ Last' = e
             /\ Len(log) \in Nat /\ Len(log') = Len(log) + 1
             /\ \A k \in 1 .. Len(log) : log'[k] = log[k]
             /\ pc # "raised" /\ e.event # "run_error" =>
                   \A k \in DOMAIN log' : log'[k].event # "run_error"
             /\ pc # "raised" /\ Fits(e) => LogNests'
  <2>1. /\ LogIsSeq' /\ log' # <<>> /\ Last' = e
        /\ Len(log) \in Nat /\ Len(log') = Len(log) + 1
        /\ DOMAIN log = 1 .. Len(log) /\ DOMAIN log' = 1 .. Len(log) + 1
        /\ \A k \in 1 .. Len(log) : log'[k] = log[k]
        /\ log'[Len(log) + 1] = e
    BY <1>0, <1>2, Appended
  <2>2. pc # "raised" => \A k \in DOMAIN log : log[k].event # "run_error"
    BY DEF Position
  <2>3. \A k \in 1 .. Len(log) + 1 : k \in 1 .. Len(log) \/ k = Len(log) + 1
    BY <2>1
  <2>4. pc # "raised" /\ Fits(e) => LogNests'
    BY <1>0, <1>2, <2>2, NestsAppend
  <2> QED
    BY <2>1, <2>2, <2>3, <2>4
<1>3. log # <<>> => Len(log) \in DOMAIN log /\ Len(log) \in Nat
  <2>1. PICK X : log \in Seq(X)
    BY <1>0 DEF LogIsSeq
  <2> QED
    BY <2>1, EmptySeq
<1>a. CASE StartRun
  <2> DEFINE e == [event |-> "run_start", num_controls |-> Len(controls)]
  <2>0. e.event = "run_start" /\ log = <<>>
    BY <1>a DEF StartRun, Position
  <2>1. CASE log' = Append(log, e) /\ pc' = "next"
    <3>1. Fits(e)
      BY <2>0 DEF Fits, OwnEvents
    <3> HIDE DEF e
    <3>2. /\ LogIsSeq' /\ log' # <<>> /\ Last' = e /\ LogNests'
          /\ \A k \in DOMAIN log' : log'[k].event # "run_error"
      BY <1>2, <1>a, <2>0, <2>1, <3>1 DEF StartRun
    <3> QED
      BY <2>0, <2>1, <3>2 DEF Position, Between
  <2>2. CASE UNCHANGED log /\ pc' = "raised"
    BY <1>1, <2>2 DEF Position
  <2> QED
    BY <1>a, <2>1, <2>2 DEF StartRun, Log
<1>b. CASE EnterNode
  <2> DEFINE e == [event |-> "node_start", node |-> node]
  <2>0. e.event = "node_start" /\ e = Started' /\ Between /\ pc = "next"
    BY <1>b DEF EnterNode, Position, Started
  <2>1. CASE log' = Append(log, e) /\ pc' = "body"
    <3>1. Fits(e)
      BY <2>0 DEF Fits, OwnEvents, Between
    <3> HIDE DEF e
    <3>2. /\ LogIsSeq' /\ log' # <<>> /\ Last' = e /\ LogNests'
          /\ \A k \in DOMAIN log' : log'[k].event # "run_error"
      BY <1>2, <2>0, <2>1, <3>1
    <3> QED
      BY <2>0, <2>1, <3>2 DEF Position, Opened
  <2>2. CASE UNCHANGED log /\ pc' = "run_error"
    BY <1>1, <2>0, <2>2 DEF Position, Between
  <2> QED
    BY <1>b, <2>1, <2>2 DEF EnterNode, Log
<1>c. CASE QuietBody \/ BodyLogFails \/ BodyRaises
  <2>1. /\ pc = "body" /\ pc' \in {"exit", "handler"} /\ UNCHANGED <<log, running>>
    BY <1>c DEF QuietBody, BodyLogFails, BodyRaises
  <2> QED
    BY <1>1, <2>1 DEF Position, Opened, Started
<1>d. CASE LoggingBody
  <2>1. PICK e : e.event \in OwnEvents /\ log' = Append(log, e)
    <3>1. /\ ToolCall.event = "tool_call" /\ VerifierAttempt.event = "verifier_attempt"
          /\ VerdictFinalized.event = "verdict_finalized" /\ RunEnd.event = "run_end"
      BY DEF ToolCall, VerifierAttempt, VerdictFinalized, RunEnd
    <3> QED
      BY <1>d, <3>1 DEF LoggingBody, OwnEvents
  <2>2. pc = "body" /\ pc' = "exit" /\ UNCHANGED running
    BY <1>d DEF LoggingBody
  <2>3. log # <<>> /\ Last = Started /\ Last.event = "node_start"
    BY <2>2 DEF Position, Opened, Started
  <2>4. Fits(e)
    BY <2>1, <2>3 DEF Fits, OwnEvents
  <2>5. /\ LogIsSeq' /\ log' # <<>> /\ Last' = e /\ LogNests'
        /\ \A k \in DOMAIN log' : log'[k].event # "run_error"
    BY <1>2, <2>1, <2>2, <2>4 DEF OwnEvents
  <2>6. log'[Len(log') - 1] = Started' /\ Len(log') > 1
    <3>1. Len(log) >= 1 /\ Len(log') = Len(log) + 1 /\ Len(log) \in Nat
      BY <1>2, <1>3, <2>1, <2>3
    <3>2. Len(log') - 1 = Len(log) /\ Len(log) \in 1 .. Len(log) /\ Len(log') > 1
      BY <3>1
    <3>3. log'[Len(log)] = log[Len(log)]
      BY <1>2, <2>1, <3>2
    <3> QED
      BY <2>2, <2>3, <3>2, <3>3 DEF Last, Started
  <2> QED
    BY <2>1, <2>2, <2>5, <2>6 DEF Position, Inside
<1>e. CASE ExitNode
  <2> DEFINE e == NodeEvent("node_end")
  <2>0. e.event = "node_end" /\ e.node = running /\ (Opened \/ Inside) /\ pc = "exit"
    BY <1>e DEF ExitNode, Position, NodeEvent
  <2>1. log # <<>> /\ Last.event # "node_error"
    <3>1. log # <<>>
      BY <1>0, <2>0 DEF Opened, Inside, LogIsSeq
    <3> QED
      BY <2>0, <3>1 DEF Opened, Inside, Started, OwnEvents
  <2>2. CASE log' = Append(log, e) /\ pc' = "next"
    <3>1. \E j \in {Len(log), Len(log) - 1} \cap DOMAIN log :
              log[j] = [event |-> "node_start", node |-> e.node]
      <4>1. CASE Opened
        BY <1>3, <2>0, <2>1, <4>1 DEF Opened, Started, Last
      <4>2. CASE Inside
        <5>1. PICK X : log \in Seq(X)
          BY <1>0 DEF LogIsSeq
        <5>2. Len(log) - 1 \in DOMAIN log
          BY <4>2, <5>1 DEF Inside
        <5> QED
          BY <2>0, <4>2, <5>2 DEF Inside, Started
      <4> QED
        BY <2>0, <4>1, <4>2
    <3> HIDE DEF e
    <3>2. Fits(e)
      BY <2>0, <2>1, <3>1 DEF Fits, OwnEvents
    <3>3. /\ LogIsSeq' /\ log' # <<>> /\ Last' = e /\ LogNests'
          /\ \A k \in DOMAIN log' : log'[k].event # "run_error"
      BY <1>2, <2>0, <2>2, <3>2
    <3> QED
      BY <2>0, <2>2, <3>3 DEF Position, Between
  <2>3. CASE UNCHANGED log /\ pc' = "run_error"
    BY <1>1, <2>0, <2>1, <2>3 DEF Position
  <2> QED
    BY <1>e, <2>2, <2>3 DEF ExitNode, Log
<1>f. CASE Handle
  <2> DEFINE e == [event |-> "node_error", node |-> running, error_type |-> thrown]
  <2>0. e.event = "node_error" /\ e.node = running /\ Opened /\ pc = "handler"
    BY <1>f DEF Handle, Position
  <2>1. CASE log' = Append(log, e) /\ pc' = "run_error"
    <3>1. \E j \in {Len(log), Len(log) - 1} \cap DOMAIN log :
              log[j] = [event |-> "node_start", node |-> e.node]
      BY <1>3, <2>0 DEF Opened, Started, Last
    <3> HIDE DEF e
    <3>2. Fits(e)
      BY <2>0, <3>1 DEF Fits, OwnEvents, Opened, Started
    <3>3. /\ LogIsSeq' /\ log' # <<>> /\ Last' = e /\ LogNests'
          /\ \A k \in DOMAIN log' : log'[k].event # "run_error"
      BY <1>2, <2>0, <2>1, <3>2
    <3> QED
      BY <2>1, <3>3 DEF Position
  <2>2. CASE UNCHANGED log /\ pc' = "run_error"
    BY <1>1, <2>0, <2>2 DEF Position, Opened
  <2> QED
    BY <1>f, <2>1, <2>2 DEF Handle, Log
<1>g. CASE Exhaust \/ Return
  <2>1. pc = "next" /\ pc' \in {"run_error", "returned"} /\ UNCHANGED log
    BY <1>g DEF Exhaust, Return
  <2> QED
    BY <1>1, <2>1 DEF Position, Between
<1>h. CASE RunError
  <2> DEFINE e == [event |-> "run_error", error_type |-> thrown]
  <2>0. e.event = "run_error" /\ pc = "run_error" /\ log # <<>> /\ pc' = "raised"
    BY <1>h DEF RunError, Position, Log
  <2>1. CASE log' = Append(log, e)
    <3>1. Fits(e)
      BY <2>0 DEF Fits, OwnEvents
    <3> HIDE DEF e
    <3>2. LogIsSeq' /\ LogNests'
      BY <1>2, <2>0, <2>1, <3>1
    <3> QED
      BY <2>0, <3>2 DEF Position
  <2>2. CASE UNCHANGED log
    BY <1>1, <2>0, <2>2 DEF Position
  <2> QED
    BY <1>h, <2>1, <2>2 DEF RunError, Log
<1>i. CASE Ended \/ UNCHANGED allvars
  <2>1. UNCHANGED <<log, pc, running>>
    BY <1>i DEF Ended, allvars, logvars
  <2> QED
    BY <1>1, <2>1 DEF Position, Between, Opened, Inside, Started
<1> QED
  BY <1>a, <1>b, <1>c, <1>d, <1>e, <1>f, <1>g, <1>h, <1>i DEF LogNext

LEMMA NestsInit == LogInit => Position /\ LogNests
<1> SUFFICES ASSUME LogInit PROVE Position /\ LogNests
  OBVIOUS
<1>1. log = <<>> /\ pc = "run_start" /\ DOMAIN log = {}
  BY DEF LogInit
<1>2. LogIsSeq
  <2>1. <<>> \in Seq({})
    OBVIOUS
  <2> QED
    BY <1>1, <2>1 DEF LogIsSeq
<1> QED
  BY <1>1, <1>2 DEF Position, LogNests

\* In every run, wherever logging fails, the events nest.
THEOREM LogNestsHolds == LogSpec => []LogNests
BY NestsInit, NestsStep, PTL DEF LogSpec

-----------------------------------------------------------------------------
(* The run log: outcome *)

\* Where control is tells what is in flight, and why.
Flight ==
    /\ pc \in {"run_start", "next", "body", "exit", "handler", "run_error", "raised", "returned"}
    /\ pc \in {"run_start", "next", "body", "exit", "returned"} =>
          thrown = "none" /\ error = "none"
    /\ pc \in {"handler", "run_error", "raised"} =>
          /\ thrown # "none"
          /\ thrown # "log_exception" => thrown = error /\ node # "END"
    /\ pc \in {"run_start", "body", "handler"} => node # "END"
    /\ pc = "returned" => node = "END"
    /\ pc = "raised" /\ thrown # "log_exception" =>
          Last = [event |-> "run_error", error_type |-> error]

LEMMA FlightInit == LogInit => Flight
BY DEF LogInit, Init, Flight

LEMMA FlightStep == Position /\ Flight /\ [LogNext]_allvars => Flight'
<1> SUFFICES ASSUME Position, Flight, [LogNext]_allvars PROVE Flight'
  OBVIOUS
<1> USE DEF Flight
<1>1. CASE StartRun
  BY <1>1 DEF StartRun, Log, vars, runtime
<1>2. CASE EnterNode
  BY <1>2 DEF EnterNode, Log, Over, vars, runtime
<1>3. CASE QuietBody
  BY <1>3 DEF QuietBody, Supervisor, Synthesize, Goto
<1>4. CASE LoggingBody
  BY <1>4 DEF LoggingBody, Collect, Verify, FinalizeControl, Final, Goto
<1>5. CASE BodyLogFails
  BY <1>5 DEF BodyLogFails, vars, runtime
<1>6. CASE BodyRaises
  BY <1>6 DEF BodyRaises, NodeRaises
<1>7. CASE ExitNode
  BY <1>7 DEF ExitNode, Log, vars, runtime
<1>8. CASE Handle
  BY <1>8 DEF Handle, Log, vars, runtime
<1>9. CASE Exhaust
  BY <1>9 DEF Exhaust, OutOfSteps
<1>10. CASE RunError
  <2> DEFINE e == [event |-> "run_error", error_type |-> thrown]
  <2>1. /\ pc = "run_error" /\ pc' = "raised" /\ UNCHANGED <<node, error>>
    BY <1>10 DEF RunError, Log, vars, runtime
  <2>2. CASE log' = Append(log, e) /\ UNCHANGED thrown
    <3>1. Last' = e
      <4> HIDE DEF e
      <4> QED
        BY <2>2, Appended DEF Position
    <3> QED
      BY <2>1, <2>2, <3>1
  <2>3. CASE thrown' = "log_exception"
    BY <2>1, <2>3
  <2> QED
    BY <1>10, <2>2, <2>3 DEF RunError, Log
<1>11. CASE Return
  BY <1>11 DEF Return, vars, runtime
<1>12. CASE Ended \/ UNCHANGED allvars
  <2>1. UNCHANGED <<log, pc, thrown, node, error>>
    BY <1>12 DEF Ended, allvars, logvars, vars, runtime
  <2> QED
    BY <2>1 DEF Last
<1> QED
  BY <1>1, <1>2, <1>3, <1>4, <1>5, <1>6, <1>7, <1>8, <1>9, <1>10, <1>11, <1>12 DEF LogNext

\* A bracket is open while the node's body runs and until its node_end.
Counted ==
    /\ pc \in {"run_start", "next", "exit", "returned"} => Len(Logged("node_start")) = steps
    /\ pc = "body" => Len(Logged("node_start")) = steps + 1
    /\ pc \in {"run_start", "next", "body", "returned"} => Len(Logged("node_end")) = steps
    /\ pc = "exit" => Len(Logged("node_end")) + 1 = steps

\* The report's totals are in the log as soon as there is a report, and errors are
\* there only on the way out.
ReportLogged == [event |-> "run_end", audit |-> [final_report EXCEPT !.verdicts = <<>>]]

Ending ==
    /\ Logged("run_end") = IF node = "END" THEN <<ReportLogged>> ELSE <<>>
    /\ Logged("node_error") # <<>> => pc \in {"run_error", "raised"} /\ node # "END"
    /\ Logged("run_error") # <<>> => pc = "raised"

LEMMA CountInit == LogInit => Counted /\ Ending
<1> SUFFICES ASSUME LogInit PROVE Counted /\ Ending
  OBVIOUS
<1>1. \A kind : Logged(kind) = <<>>
  BY OfKindEmpty DEF LogInit, Logged
<1>2. pc = "run_start" /\ steps = 0 /\ node # "END"
  BY DEF LogInit, Init
<1>3. Len(<<>>) = 0
  OBVIOUS
<1> QED
  BY <1>1, <1>2, <1>3 DEF Counted, Ending

LEMMA CountStep ==
    IInv /\ Position /\ Flight /\ Counted /\ Ending /\ [LogNext]_allvars => Counted' /\ Ending'
<1> SUFFICES ASSUME IInv, Position, Flight, Counted, Ending, [LogNext]_allvars
             PROVE  Counted' /\ Ending'
  OBVIOUS
<1>0. LogIsSeq /\ steps \in Nat
  BY DEF Position, IInv, TypeOK
<1>1. ASSUME UNCHANGED log PROVE \A kind : Logged(kind)' = Logged(kind)
  BY <1>1 DEF Logged
<1>2. ASSUME NEW e, log' = Append(log, e)
      PROVE  \A kind : /\ e.event # kind => Logged(kind)' = Logged(kind)
                       /\ e.event = kind => /\ Logged(kind)' = Append(Logged(kind), e)
                                            /\ Len(Logged(kind)') = Len(Logged(kind)) + 1
  <2> SUFFICES ASSUME NEW kind
               PROVE  /\ e.event # kind => Logged(kind)' = Logged(kind)
                      /\ e.event = kind => /\ Logged(kind)' = Append(Logged(kind), e)
                                           /\ Len(Logged(kind)') = Len(Logged(kind)) + 1
    OBVIOUS
  <2>1. Logged(kind)' = IF e.event = kind THEN Append(Logged(kind), e) ELSE Logged(kind)
    BY <1>0, <1>2, LoggedAppend
  <2>2. Len(Append(Logged(kind), e)) = Len(Logged(kind)) + 1
    <3>1. PICK X : Logged(kind) \in Seq(X)
      BY <1>0, LoggedIsSeq
    <3> DEFINE Y == X \cup {e}
    <3>2. Logged(kind) \in Seq(Y) /\ e \in Y
      BY <3>1, SeqMonotonic
    <3> HIDE DEF Y
    <3> QED
      BY <3>2, AppendFacts
  <2> QED
    BY <2>1, <2>2
<1>3. ASSUME UNCHANGED vars PROVE UNCHANGED <<node, steps, final_report>> /\ UNCHANGED ReportLogged
  BY <1>3 DEF vars, state, runtime, ReportLogged
<1>a. CASE StartRun
  <2> DEFINE e == [event |-> "run_start", num_controls |-> Len(controls)]
  <2>0. e.event = "run_start" /\ pc = "run_start" /\ UNCHANGED <<node, steps, final_report>>
    BY <1>a DEF StartRun, vars, state, runtime
  <2>1. CASE log' = Append(log, e) /\ pc' = "next"
    <3> HIDE DEF e
    <3> QED
      BY <1>2, <2>0, <2>1 DEF Counted, Ending, ReportLogged
  <2>2. CASE UNCHANGED log /\ pc' = "raised"
    BY <1>1, <2>0, <2>2 DEF Counted, Ending, ReportLogged
  <2> QED
    BY <1>a, <2>1, <2>2 DEF StartRun, Log
<1>b. CASE EnterNode
  <2> DEFINE e == [event |-> "node_start", node |-> node]
  <2>0. e.event = "node_start" /\ pc = "next" /\ UNCHANGED <<node, steps, final_report>>
    BY <1>b DEF EnterNode, vars, state, runtime
  <2>1. CASE log' = Append(log, e) /\ pc' = "body"
    <3> HIDE DEF e
    <3> QED
      BY <1>2, <2>0, <2>1 DEF Counted, Ending, ReportLogged
  <2>2. CASE UNCHANGED log /\ pc' = "run_error"
    BY <1>1, <2>0, <2>2 DEF Counted, Ending, ReportLogged
  <2> QED
    BY <1>b, <2>1, <2>2 DEF EnterNode, Log
<1>c. CASE QuietBody
  <2>1. /\ pc = "body" /\ pc' = "exit" /\ UNCHANGED log /\ steps' = steps + 1
        /\ node # "END" /\ node' # "END"
    BY <1>c DEF QuietBody, Supervisor, Synthesize, Invoke, Goto, RouteSupervisor
  <2> QED
    BY <1>0, <1>1, <2>1 DEF Counted, Ending
<1>d. CASE LoggingBody
  <2>0. pc = "body" /\ pc' = "exit" /\ node # "END" /\ steps' = steps + 1
    BY <1>d DEF LoggingBody, Collect, Verify, FinalizeControl, Final, Invoke
  <2>1. CASE Final /\ log' = Append(log, RunEnd)
    <3>1. node' = "END" /\ RunEnd.event = "run_end" /\ RunEnd = ReportLogged'
      BY <2>1 DEF Final, Goto, RunEnd, ReportLogged
    <3>2. Append(<<>>, RunEnd) = <<RunEnd>>
      OBVIOUS
    <3> QED
      BY <1>0, <1>2, <2>0, <2>1, <3>1, <3>2 DEF Counted, Ending
  <2>2. CASE ~(Final /\ log' = Append(log, RunEnd))
    <3>1. PICK e : /\ e.event \in {"tool_call", "verifier_attempt", "verdict_finalized"}
                   /\ log' = Append(log, e)
      <4>1. /\ ToolCall.event = "tool_call" /\ VerifierAttempt.event = "verifier_attempt"
            /\ VerdictFinalized.event = "verdict_finalized"
        BY DEF ToolCall, VerifierAttempt, VerdictFinalized
      <4> QED
        BY <1>d, <2>2, <4>1 DEF LoggingBody
    <3>2. node' # "END"
      BY <1>d, <2>2 DEF LoggingBody, Collect, Verify, FinalizeControl, Goto, RouteVerify
    <3> QED
      BY <1>0, <1>2, <2>0, <3>1, <3>2 DEF Counted, Ending
  <2> QED
    BY <2>1, <2>2
<1>e. CASE BodyLogFails \/ BodyRaises
  <2>1. /\ pc = "body" /\ pc' = "handler" /\ UNCHANGED <<log, node, final_report>>
    BY <1>e DEF BodyLogFails, BodyRaises, NodeRaises, vars, state, runtime
  <2> QED
    BY <1>1, <2>1 DEF Counted, Ending, ReportLogged
<1>f. CASE ExitNode
  <2> DEFINE e == NodeEvent("node_end")
  <2>0. e.event = "node_end" /\ pc = "exit" /\ UNCHANGED <<node, steps, final_report>>
    BY <1>f DEF ExitNode, NodeEvent, vars, state, runtime
  <2>1. CASE log' = Append(log, e) /\ pc' = "next"
    <3> HIDE DEF e
    <3> QED
      BY <1>2, <2>0, <2>1 DEF Counted, Ending, ReportLogged
  <2>2. CASE UNCHANGED log /\ pc' = "run_error"
    BY <1>1, <2>0, <2>2 DEF Counted, Ending, ReportLogged
  <2> QED
    BY <1>f, <2>1, <2>2 DEF ExitNode, Log
<1>g. CASE Handle
  <2> DEFINE e == [event |-> "node_error", node |-> running, error_type |-> thrown]
  <2>0. e.event = "node_error" /\ pc = "handler" /\ pc' = "run_error" /\ node # "END"
        /\ UNCHANGED <<node, steps, final_report>>
    BY <1>g DEF Handle, Flight, Log, vars, state, runtime
  <2>1. CASE log' = Append(log, e)
    <3> HIDE DEF e
    <3> QED
      BY <1>2, <2>0, <2>1 DEF Counted, Ending, ReportLogged
  <2>2. CASE UNCHANGED log
    BY <1>1, <2>0, <2>2 DEF Counted, Ending, ReportLogged
  <2> QED
    BY <1>g, <2>1, <2>2 DEF Handle, Log
<1>h. CASE Exhaust \/ Return
  <2>1. /\ pc = "next" /\ pc' \in {"run_error", "returned"}
        /\ UNCHANGED <<log, node, steps, final_report>>
    BY <1>h DEF Exhaust, Return, OutOfSteps, vars, state, runtime
  <2> QED
    BY <1>1, <2>1 DEF Counted, Ending, ReportLogged
<1>i. CASE RunError
  <2> DEFINE e == [event |-> "run_error", error_type |-> thrown]
  <2>0. e.event = "run_error" /\ pc = "run_error" /\ pc' = "raised"
        /\ UNCHANGED <<node, steps, final_report>>
    BY <1>i DEF RunError, Log, vars, state, runtime
  <2>1. CASE log' = Append(log, e)
    <3> HIDE DEF e
    <3> QED
      BY <1>2, <2>0, <2>1 DEF Counted, Ending, ReportLogged
  <2>2. CASE UNCHANGED log
    BY <1>1, <2>0, <2>2 DEF Counted, Ending, ReportLogged
  <2> QED
    BY <1>i, <2>1, <2>2 DEF RunError, Log
<1>j. CASE Ended \/ UNCHANGED allvars
  <2>1. UNCHANGED <<log, pc, node, steps, final_report>>
    BY <1>j DEF Ended, allvars, logvars, vars, state, runtime
  <2> QED
    BY <1>1, <2>1 DEF Counted, Ending, ReportLogged
<1> QED
  BY <1>a, <1>b, <1>c, <1>d, <1>e, <1>f, <1>g, <1>h, <1>i, <1>j DEF LogNext

LEMMA Outcome == LogSpec => [](Position /\ Flight /\ Counted /\ Ending)
<1> DEFINE J == Position /\ LogNests /\ Flight /\ Counted /\ Ending
<1>1. LogInit => J
  BY NestsInit, FlightInit, CountInit
<1>2. IInv /\ J /\ [LogNext]_allvars => J'
  BY NestsStep, FlightStep, CountStep
<1>3. J => Position /\ Flight /\ Counted /\ Ending
  OBVIOUS
<1> HIDE DEF J
<1> QED
  BY <1>1, <1>2, <1>3, LoggedIInv, PTL DEF LogSpec

\* In every run a caller that gets the report has a log with every bracket closed and
\* the report's own totals, and a log that ends in an error is that of a failed run.
THEOREM LogTellsOutcomeHolds == LogSpec => []LogTellsOutcome
<1>1. Position /\ Flight /\ Counted /\ Ending => LogTellsOutcome
  BY DEF Flight, Counted, Ending, LogTellsOutcome, ReportLogged
<1> QED
  BY <1>1, Outcome, PTL

\* In every run whose log calls succeed the wrapper raises what a node or the
\* recursion limit raised, logs it last, and returns what it has logged as ended.
THEOREM ReliableLogIsTransparentHolds == LogSpec => []ReliableLogIsTransparent
<1>1. Position /\ Flight /\ Counted /\ Ending /\ IInv => ReliableLogIsTransparent
  <2> SUFFICES ASSUME Position, Flight, Ending, IInv, thrown # "log_exception"
               PROVE  /\ pc = "raised" =>
                            /\ thrown = error /\ error # "none"
                            /\ log[Len(log)] = [event |-> "run_error", error_type |-> error]
                      /\ Logged("run_end") # <<>> => thrown = "none"
    BY DEF ReliableLogIsTransparent
  <2>1. pc = "raised" => /\ thrown = error /\ error # "none"
                         /\ log[Len(log)] = [event |-> "run_error", error_type |-> error]
    BY DEF Flight, Last
  <2>2. Logged("run_end") # <<>> => node = "END"
    BY DEF Ending
  <2>3. node = "END" => thrown = "none"
    BY DEF Flight
  <2> QED
    BY <2>1, <2>2, <2>3
<1> QED
  BY <1>1, Outcome, LoggedIInv, PTL

-----------------------------------------------------------------------------
(* The run log: what a collection counts *)

\* What the scanners answer is finite, and so is what is made of it.
LEMMA CollectionIsFinite ==
    ASSUME NEW control, NEW scan \in ScanOutcome
    PROVE  LET c == CollectEvidence(control, scan)
           IN  IsFiniteSet(c.evidence) /\ IsFiniteSet(c.errors) /\ IsFiniteSet(c.limitations)
<1> DEFINE c == CollectEvidence(control, scan)
           ran == ToolsFor(control)
           failed == {t \in ran : scan[t] = Raised}
           ok == ran \ failed
           kept == [t \in ok |-> Relevant(t, control, scan[t])]
           all == UNION {kept[t] : t \in ok}
           part(t) == IF t \in ok THEN kept[t] ELSE {}
           conv == [f \in all |-> FindingToEvidence(f)]
<1>1. ran \subseteq Tools
  BY DEF ToolsFor
<1>2. IsFiniteSet(Tools)
  <2>1. Tools = ({ScanIac} \cup {ScanCi}) \cup {ScanSecrets}
    BY DEF Tools
  <2>2. IsFiniteSet({ScanIac} \cup {ScanCi})
    BY FS_Singleton, FS_AddElement
  <2> QED
    BY <2>1, <2>2, FS_AddElement
<1>3. ASSUME NEW t \in Tools PROVE IsFiniteSet(part(t))
  <2>1. CASE t \in ok
    <3>1. scan[t] # Raised /\ scan[t] \in Answer(t)
      BY <2>1 DEF ScanOutcome, Tools, ScanIac, ScanCi, ScanSecrets
    <3>2. IsFiniteSet(scan[t])
      BY <3>1 DEF Answer
    <3>3. part(t) \in SUBSET scan[t]
      BY <2>1 DEF Relevant
    <3> HIDE DEF part
    <3> QED
      BY <3>2, <3>3, FS_Subset
  <2>2. CASE t \notin ok
    BY <2>2, FS_EmptySet
  <2> QED
    BY <2>1, <2>2
<1>4. all = (part(ScanIac) \cup part(ScanCi)) \cup part(ScanSecrets)
  <2>1. ok \subseteq {ScanIac, ScanCi, ScanSecrets}
    BY <1>1 DEF Tools
  <2> HIDE DEF ok
  <2> QED
    BY <2>1
<1>5. IsFiniteSet(all)
  <2>1. ScanIac \in Tools /\ ScanCi \in Tools /\ ScanSecrets \in Tools
    BY DEF Tools
  <2> HIDE DEF all, part
  <2>2. IsFiniteSet(part(ScanIac)) /\ IsFiniteSet(part(ScanCi)) /\ IsFiniteSet(part(ScanSecrets))
    BY <1>3, <2>1
  <2>3. IsFiniteSet(part(ScanIac) \cup part(ScanCi))
    BY <2>2, FS_Union
  <2> QED
    BY <1>4, <2>2, <2>3, FS_Union
<1>6. c.evidence = {FindingToEvidence(f) : f \in all} /\ c.errors = failed
      /\ c.limitations \subseteq Tools \cup {NoTool}
  BY <1>1 DEF CollectEvidence
<1>7. IsFiniteSet(c.evidence)
  <2> HIDE DEF all, c
  <2>1. conv \in Surjection(all, c.evidence)
    BY <1>6 DEF Surjection
  <2> HIDE DEF conv
  <2> QED
    BY <1>5, <2>1, FS_Surjection
<1>8. IsFiniteSet(c.errors)
  <2>1. c.errors \in SUBSET Tools
    BY <1>1, <1>6
  <2> HIDE DEF c
  <2> QED
    BY <1>2, <2>1, FS_Subset
<1>9. IsFiniteSet(c.limitations)
  <2> HIDE DEF c
  <2>1. IsFiniteSet(Tools \cup {NoTool})
    BY <1>2, FS_AddElement
  <2> QED
    BY <1>6, <2>1, FS_Subset
<1> QED
  BY <1>7, <1>8, <1>9

\* A collection always has something to show: evidence, an error or a limitation.
LEMMA CollectionSays ==
    ASSUME NEW control, NEW scan
    PROVE  LET c == CollectEvidence(control, scan)
           IN  c.evidence # {} \/ c.errors # {} \/ c.limitations # {}
<1> DEFINE c == CollectEvidence(control, scan)
           ran == ToolsFor(control)
           failed == {t \in ran : scan[t] = Raised}
           ok == ran \ failed
           kept == [t \in ok |-> Relevant(t, control, scan[t])]
<1>1. /\ c.evidence = {FindingToEvidence(f) : f \in UNION {kept[t] : t \in ok}}
      /\ c.errors = failed
      /\ c.limitations = IF ran = {} THEN {NoTool} ELSE {t \in ok : kept[t] = {}}
  BY DEF CollectEvidence
<1> SUFFICES c.evidence # {} \/ c.errors # {} \/ c.limitations # {}
  OBVIOUS
<1> HIDE DEF c, kept
<1>2. CASE ran = {}
  BY <1>1, <1>2
<1>3. CASE failed # {}
  BY <1>1, <1>3
<1>4. CASE ran # {} /\ failed = {}
  <2>1. PICK t \in ok : TRUE
    BY <1>4
  <2>2. CASE kept[t] = {}
    BY <1>1, <1>4, <2>1, <2>2
  <2>3. CASE kept[t] # {}
    BY <1>1, <2>1, <2>3
  <2> QED
    BY <2>2, <2>3
<1> QED
  BY <1>2, <1>3, <1>4

LEMMA CollectionCounts ==
    ASSUME NEW control, NEW scan \in ScanOutcome
    PROVE  LET c == CollectEvidence(control, scan)
           IN  Cardinality(c.evidence) + Cardinality(c.errors) + Cardinality(c.limitations) > 0
<1> DEFINE c == CollectEvidence(control, scan)
<1>1. IsFiniteSet(c.evidence) /\ IsFiniteSet(c.errors) /\ IsFiniteSet(c.limitations)
  BY CollectionIsFinite
<1>2. c.evidence # {} \/ c.errors # {} \/ c.limitations # {}
  BY CollectionSays
<1> HIDE DEF c
<1>3. /\ Cardinality(c.evidence) \in Nat /\ Cardinality(c.errors) \in Nat
      /\ Cardinality(c.limitations) \in Nat
  BY <1>1, FS_CardinalityType
<1>4. Cardinality(c.evidence) # 0 \/ Cardinality(c.errors) # 0 \/ Cardinality(c.limitations) # 0
  BY <1>1, <1>2, FS_EmptySet
<1> QED
  BY <1>3, <1>4 DEF c

-----------------------------------------------------------------------------
(* The run log: the log is true *)

\* The events of the scanners' calls, of the Verifier's decisions and of the verdicts.
CallLogged(e, i) ==
    /\ e.control_id = controls[i].id
    /\ e.error_count = Cardinality(FailedTools(i))
    /\ e.evidence_count + e.error_count + e.limitation_count > 0
ReviewEvent(i, k) == [event |-> "verifier_attempt", control_id |-> controls[i].id,
                      attempt |-> k, draft_verdict |-> Reviews(i)[k].verdict,
                      approved |-> Reviews(i)[k].approved]
ReviewEvents(i) == [k \in DOMAIN Reviews(i) |-> ReviewEvent(i, k)]
VerdictEvent(i) == [event |-> "verdict_finalized", control_id |-> controls[i].id,
                    verdict |-> verdicts[i].verdict,
                    verifier_status |-> verdicts[i].verifier_status]

CallsTrue ==
    /\ Len(Logged("tool_call")) = Len(trail)
    /\ \A i \in DOMAIN trail : CallLogged(Logged("tool_call")[i], i)
ReviewsTrue ==
    Logged("verifier_attempt") = SE!FlattenSeq([i \in DOMAIN trail |-> ReviewEvents(i)])
VerdictsTrue ==
    Logged("verdict_finalized") = [i \in DOMAIN verdicts |-> VerdictEvent(i)]

LEMMA LogIsTrueParts == LogIsTrue <=> CallsTrue /\ ReviewsTrue /\ VerdictsTrue
BY DEF LogIsTrue, CallsTrue, ReviewsTrue, VerdictsTrue, CallLogged, ReviewEvents, ReviewEvent,
       VerdictEvent

Recorded == {"tool_call", "verifier_attempt", "verdict_finalized"}

\* Where nothing is decided nothing of the kind is logged.
LEMMA TrueFrame ==
    ASSUME LogIsTrue, UNCHANGED <<controls, trail, verdicts>>,
           \A kind \in Recorded : Logged(kind)' = Logged(kind)
    PROVE  LogIsTrue'
<1>1. /\ Logged("tool_call")' = Logged("tool_call")
      /\ Logged("verifier_attempt")' = Logged("verifier_attempt")
      /\ Logged("verdict_finalized")' = Logged("verdict_finalized")
  BY DEF Recorded
<1>2. \A i : FailedTools(i)' = FailedTools(i) /\ Reviews(i)' = Reviews(i)
  BY DEF FailedTools, Reviews
<1> HIDE DEF Logged
<1> QED
  BY <1>1, <1>2 DEF LogIsTrue

\* Appending an event, for the kinds that matter.
LEMMA RecordedAppend ==
    ASSUME LogIsSeq, NEW e, log' = Append(log, e)
    PROVE  \A kind \in Recorded :
              IF e.event = kind
              THEN /\ Logged(kind)' = Append(Logged(kind), e)
                   /\ Len(Logged(kind)) \in Nat
                   /\ DOMAIN Logged(kind) = 1 .. Len(Logged(kind))
                   /\ Logged(kind)' = [i \in 1 .. Len(Logged(kind)) + 1 |-> Logged(kind)'[i]]
                   /\ Len(Logged(kind)') = Len(Logged(kind)) + 1
                   /\ Logged(kind)'[Len(Logged(kind)) + 1] = e
                   /\ \A i \in 1 .. Len(Logged(kind)) : Logged(kind)'[i] = Logged(kind)[i]
              ELSE Logged(kind)' = Logged(kind)
<1> SUFFICES ASSUME NEW kind \in Recorded
             PROVE  IF e.event = kind
              THEN /\ Logged(kind)' = Append(Logged(kind), e)
                   /\ Len(Logged(kind)) \in Nat
                   /\ DOMAIN Logged(kind) = 1 .. Len(Logged(kind))
                   /\ Logged(kind)' = [i \in 1 .. Len(Logged(kind)) + 1 |-> Logged(kind)'[i]]
                   /\ Len(Logged(kind)') = Len(Logged(kind)) + 1
                   /\ Logged(kind)'[Len(Logged(kind)) + 1] = e
                   /\ \A i \in 1 .. Len(Logged(kind)) : Logged(kind)'[i] = Logged(kind)[i]
              ELSE Logged(kind)' = Logged(kind)
  OBVIOUS
<1>1. Logged(kind)' = IF e.event = kind THEN Append(Logged(kind), e) ELSE Logged(kind)
  BY LoggedAppend
<1>2. PICK X : Logged(kind) \in Seq(X)
  BY LoggedIsSeq
<1> DEFINE Y == X \cup {e}
           t == Append(Logged(kind), e)
<1>3. Logged(kind) \in Seq(Y) /\ e \in Y
  BY <1>2, SeqMonotonic
<1>4. /\ Len(Logged(kind)) \in Nat
      /\ DOMAIN Logged(kind) = 1 .. Len(Logged(kind))
      /\ t = [i \in 1 .. Len(Logged(kind)) + 1 |-> t[i]]
      /\ Len(t) = Len(Logged(kind)) + 1
      /\ t[Len(Logged(kind)) + 1] = e
      /\ \A i \in 1 .. Len(Logged(kind)) : t[i] = Logged(kind)[i]
  <2> HIDE DEF Y
  <2>1. /\ t \in Seq(Y) /\ Len(Logged(kind)) \in Nat
        /\ DOMAIN Logged(kind) = 1 .. Len(Logged(kind))
        /\ Len(t) = Len(Logged(kind)) + 1
        /\ t[Len(Logged(kind)) + 1] = e
        /\ \A i \in 1 .. Len(Logged(kind)) : t[i] = Logged(kind)[i]
    BY <1>3, AppendFacts, AppendProperties, LenProperties
  <2> HIDE DEF t
  <2>2. t = [i \in 1 .. Len(t) |-> t[i]]
    BY <2>1
  <2> QED
    BY <2>1, <2>2
<1> QED
  BY <1>1, <1>4

\* The events of the reviews so far.
AttemptEvents == {ReviewEvent(i, k) : i \in DOMAIN trail, k \in Nat}

LEMMA ReviewEventsType ==
    ASSUME TypeOK
    PROVE  \A i \in DOMAIN trail : ReviewEvents(i) \in Seq(AttemptEvents)
<1> SUFFICES ASSUME NEW i \in DOMAIN trail PROVE ReviewEvents(i) \in Seq(AttemptEvents)
  OBVIOUS
<1>1. trail[i] \in TrailEntry
  BY DEF TypeOK
<1>2. Len(Reviews(i)) \in Nat /\ DOMAIN Reviews(i) = 1 .. Len(Reviews(i))
  BY <1>1 DEF Reviews, TrailEntry
<1>3. \A k \in DOMAIN Reviews(i) : ReviewEvent(i, k) \in AttemptEvents
  BY <1>2 DEF AttemptEvents
<1> QED
  BY <1>2, <1>3 DEF ReviewEvents

\* A Collect logs its call.
LEMMA CollectTrue ==
    ASSUME IInv, LogIsSeq, LogIsTrue, Collect, log' = Append(log, ToolCall)
    PROVE  LogIsTrue'
<1>1. PICK scan \in ScanOutcome :
          /\ collection' = CollectEvidence(Current, scan)
          /\ trail' = Append(trail, [scan |-> Heard(Current, scan), reviews |-> <<>>])
  BY DEF Collect
<1> DEFINE n == Len(trail)
           entry == [scan |-> Heard(Current, scan), reviews |-> <<>>]
<1>2. UNCHANGED <<controls, control_idx, verdicts>> /\ Current = controls[n + 1]
  BY DEF Collect, Invoke, IInv, Progress, Working, Current
<1>3. PICK X : trail \in Seq(X) /\ entry \in X
  <2>1. trail \in Seq(TrailEntry \cup {entry})
    BY SeqMonotonic DEF IInv, TypeOK
  <2> QED
    BY <2>1
<1>4. /\ n \in Nat /\ DOMAIN trail = 1 .. n /\ DOMAIN trail' = 1 .. n + 1 /\ Len(trail') = n + 1
      /\ trail'[n + 1] = entry /\ \A i \in 1 .. n : trail'[i] = trail[i]
  <2> HIDE DEF entry
  <2> QED
    BY <1>1, <1>3, AppendFacts, AppendProperties, LenProperties DEF entry
<1>5. PICK m \in Nat : m = n
  BY <1>4
<1>6. /\ \A i \in 1 .. m : FailedTools(i)' = FailedTools(i) /\ ReviewEvents(i)' = ReviewEvents(i)
      /\ ReviewEvents(m + 1)' = <<>>
  <2>1. \A i \in 1 .. m : trail'[i] = trail[i]
    BY <1>4, <1>5
  <2>2. Reviews(m + 1)' = <<>>
    BY <1>4, <1>5 DEF Reviews
  <2>3. \A i \in 1 .. m : FailedTools(i)' = FailedTools(i)
    BY <1>2, <2>1 DEF FailedTools
  <2>4. \A i \in 1 .. m : ReviewEvents(i)' = ReviewEvents(i)
    BY <1>2, <2>1 DEF ReviewEvents, ReviewEvent, Reviews
  <2>5. ReviewEvents(m + 1)' = <<>>
    BY <2>2 DEF ReviewEvents
  <2> QED
    BY <2>3, <2>4, <2>5
<1>7. FailedTools(m + 1)' = collection'.errors
  <2>1. \A t \in ToolsFor(Current) : Heard(Current, scan)[t] = scan[t]
    BY DEF Heard, ToolsFor
  <2>2. FailedTools(m + 1)' = {t \in ToolsFor(Current) : Heard(Current, scan)[t] = Raised}
    BY <1>2, <1>4, <1>5 DEF FailedTools
  <2>3. collection'.errors = {t \in ToolsFor(Current) : scan[t] = Raised}
    BY <1>1 DEF CollectEvidence
  <2> QED
    BY <2>1, <2>2, <2>3
<1>8. PICK e : e = ToolCall
  OBVIOUS
<1>9. CallLogged(e, m + 1)'
  <2>1. /\ e.control_id = controls'[m + 1].id
        /\ e.error_count = Cardinality(FailedTools(m + 1)')
    BY <1>2, <1>5, <1>7, <1>8 DEF ToolCall
  <2>2. e.evidence_count + e.error_count + e.limitation_count > 0
    BY <1>1, <1>8, CollectionCounts DEF ToolCall
  <2> QED
    BY <2>1, <2>2 DEF CallLogged
<1>10. e.event = "tool_call" /\ log' = Append(log, e)
  BY <1>8 DEF ToolCall
<1>11. CallsTrue /\ ReviewsTrue /\ VerdictsTrue
  BY LogIsTrueParts
<1>12. CallsTrue'
  <2> DEFINE call == Logged("tool_call")
  <2>1. /\ Len(call) = m /\ Len(call') = m + 1 /\ call'[m + 1] = e
        /\ \A i \in 1 .. m : call'[i] = call[i]
    BY <1>5, <1>10, <1>11, RecordedAppend DEF CallsTrue, Recorded
  <2>2. \A i \in 1 .. m : CallLogged(call[i], i)
    BY <1>4, <1>5, <1>11 DEF CallsTrue
  <2>3. ASSUME NEW i \in 1 .. m PROVE CallLogged(call[i], i)'
    BY <1>2, <1>6, <2>1, <2>2 DEF CallLogged
  <2>4. \A i \in 1 .. m + 1 : i \in 1 .. m \/ i = m + 1
    OBVIOUS
  <2>5. CallLogged(call[m + 1], m + 1)'
    BY <1>9, <2>1 DEF CallLogged
  <2>6. Len(call') = Len(trail') /\ DOMAIN trail' = 1 .. m + 1
    BY <1>4, <1>5, <2>1
  <2> HIDE DEF call
  <2>7. \A i \in 1 .. m + 1 : CallLogged(call[i], i)'
    BY <2>3, <2>4, <2>5
  <2> QED
    BY <2>6, <2>7 DEF CallsTrue, call
<1>13. ReviewsTrue'
  <2> DEFINE f == [i \in 1 .. m + 1 |-> ReviewEvents(i)']
             g == [i \in 1 .. m |-> ReviewEvents(i)]
  <2>1. g \in [1 .. m -> Seq(AttemptEvents)] /\ g \in Seq(Seq(AttemptEvents))
    BY <1>4, <1>5, ReviewEventsType DEF IInv
  <2>2. \A i \in 1 .. m + 1 : f[i] = IF i = m + 1 THEN <<>> ELSE g[i]
    BY <1>6
  <2>3. f \in [1 .. m + 1 -> Seq(AttemptEvents)]
    <3>1. <<>> \in Seq(AttemptEvents)
      OBVIOUS
    <3>2. \A i \in 1 .. m + 1 : i = m + 1 \/ i \in 1 .. m
      OBVIOUS
    <3>3. \A i \in 1 .. m : g[i] \in Seq(AttemptEvents)
      BY <2>1
    <3>4. \A i \in 1 .. m + 1 : f[i] \in Seq(AttemptEvents)
      <4> HIDE DEF f, g
      <4> QED
        BY <2>2, <3>1, <3>2, <3>3
    <3> QED
      BY <3>4
  <2>4. [i \in 1 .. m |-> f[i]] = g
    BY <1>6
  <2>5. f[m + 1] = <<>>
    <3>1. m + 1 \in 1 .. m + 1
      OBVIOUS
    <3> HIDE DEF f
    <3> QED
      BY <2>2, <3>1
  <2> HIDE DEF f, g
  <2>6. SE!FlattenSeq(f) = SE!FlattenSeq(g) \o <<>>
    BY <2>3, <2>4, <2>5, FlattenLast
  <2>7. SE!FlattenSeq(f) = SE!FlattenSeq(g)
    BY <2>1, <2>6, FlattenType, ConcatEmptySeq
  <2>8. Logged("verifier_attempt")' = Logged("verifier_attempt")
    BY <1>10, RecordedAppend DEF Recorded
  <2>9. Logged("verifier_attempt")' = SE!FlattenSeq(f)
    BY <1>4, <1>5, <1>11, <2>7, <2>8 DEF ReviewsTrue, g
  <2> QED
    BY <1>4, <1>5, <2>9 DEF ReviewsTrue, f
<1>14. VerdictsTrue'
  <2>1. Logged("verdict_finalized")' = Logged("verdict_finalized")
    BY <1>10, RecordedAppend DEF Recorded
  <2> QED
    BY <1>2, <1>11, <2>1 DEF VerdictsTrue, VerdictEvent
<1> QED
  BY <1>12, <1>13, <1>14 DEF LogIsTrue, CallsTrue, ReviewsTrue, VerdictsTrue, CallLogged,
     ReviewEvents, ReviewEvent, VerdictEvent

\* A Verify logs its decision.
LEMMA VerifyTrue ==
    ASSUME IInv, LogIsSeq, LogIsTrue, Verify, log' = Append(log, VerifierAttempt)
    PROVE  LogIsTrue'
<1> DEFINE n == control_idx + 1
<1>1. /\ n \in Nat /\ n >= 1 /\ Len(trail) = n /\ n \in DOMAIN trail /\ DOMAIN trail = 1 .. n
      /\ draft_verdict \in ControlVerdict /\ verifier_attempts = Len(Reviews(n))
      /\ \E class \in VerdictClass :
            draft_verdict = Draft(n, class, "not_run", Len(Reviews(n)) + 1)
  <2>1. node = "verify"
    BY DEF Verify, Invoke
  <2>2. Len(trail) = n /\ n \in DOMAIN trail /\ draft_verdict \in ControlVerdict
    BY <2>1, WorkingTypes DEF Working
  <2>3. control_idx \in Nat /\ trail \in Seq(TrailEntry)
    BY DEF IInv, TypeOK
  <2>4. /\ verifier_attempts = Len(Reviews(n))
        /\ \E class \in VerdictClass :
              draft_verdict = Draft(n, class, "not_run", Len(Reviews(n)) + 1)
    BY <2>1 DEF IInv, InProgress, Working
  <2> QED
    BY <2>2, <2>3, <2>4
<1>2. PICK approved \in BOOLEAN :
        /\ verifier_attempts' = verifier_attempts + 1
        /\ draft_verdict' = [draft_verdict EXCEPT
              !.verifier_status = IF approved THEN "passed" ELSE "failed"]
        /\ trail' = [trail EXCEPT ![Len(trail)].reviews =
              Append(@, [verdict |-> draft_verdict'.verdict, approved |-> approved])]
  BY DEF Verify
<1>3. UNCHANGED <<controls, control_idx, verdicts>>
  BY DEF Verify
<1> DEFINE review == [verdict |-> draft_verdict.verdict, approved |-> approved]
<1>4. /\ review \in Review
      /\ trail' = [trail EXCEPT ![Len(trail)].reviews = Append(@, review)]
      /\ (draft_verdict'.verifier_status = "passed") = approved
  <2>1. draft_verdict'.verdict = draft_verdict.verdict
    BY <1>1, <1>2 DEF ControlVerdict
  <2>2. draft_verdict.verdict \in VerdictClass
    BY <1>1 DEF ControlVerdict
  <2>3. draft_verdict'.verifier_status = IF approved THEN "passed" ELSE "failed"
    BY <1>1, <1>2 DEF ControlVerdict
  <2> QED
    BY <1>2, <2>1, <2>2, <2>3 DEF Review
<1> HIDE DEF review
<1>5. PICK m \in Nat : m + 1 = n
  <2>1. n - 1 \in Nat /\ n - 1 + 1 = n
    BY <1>1
  <2> QED
    BY <2>1
<1>6. /\ trail' \in Seq(TrailEntry) /\ Len(trail') = m + 1 /\ DOMAIN trail' = 1 .. m + 1
      /\ Len(trail) = m + 1 /\ DOMAIN trail = 1 .. m + 1
      /\ \A i \in 1 .. m + 1 : trail'[i].scan = trail[i].scan
      /\ \A i \in 1 .. m : trail'[i] = trail[i]
      /\ trail'[m + 1].reviews = Append(trail[m + 1].reviews, review)
  <2>1. /\ trail' \in Seq(TrailEntry)
        /\ Len(trail') = Len(trail)
        /\ DOMAIN trail' = DOMAIN trail
        /\ \A i \in DOMAIN trail : trail'[i].scan = trail[i].scan
        /\ \A i \in DOMAIN trail : i # Len(trail) => trail'[i] = trail[i]
        /\ trail'[Len(trail)].reviews = Append(trail[Len(trail)].reviews, review)
    <3>1. trail \in Seq(TrailEntry) /\ Len(trail) > 0
      BY <1>1 DEF IInv, TypeOK
    <3>2. /\ review \in Review
          /\ trail' = [trail EXCEPT ![Len(trail)].reviews = Append(@, review)]
      BY <1>4
    <3> HIDE DEF n
    <3> QED
      BY <3>1, <3>2, ExtendTrail
  <2>2. \A i \in 1 .. m : i \in 1 .. m + 1 /\ i # m + 1
    OBVIOUS
  <2> HIDE DEF n
  <2> QED
    BY <1>1, <1>5, <2>1, <2>2
<1>7. PICK len \in Nat : len = Len(Reviews(m + 1)) /\ DOMAIN Reviews(m + 1) = 1 .. len
                         /\ Reviews(m + 1) \in Seq(Review)
  <2>1. Reviews(m + 1) \in Seq(Review)
    <3>1. m + 1 \in DOMAIN trail /\ trail \in Seq(TrailEntry)
      BY <1>6 DEF IInv, TypeOK
    <3>2. trail[m + 1] \in TrailEntry
      BY <3>1
    <3> QED
      BY <3>2 DEF Reviews, TrailEntry
  <2> QED
    BY <2>1
<1>8. PICK e : e = VerifierAttempt
  OBVIOUS
<1>9. e.event = "verifier_attempt" /\ log' = Append(log, e)
  BY <1>8 DEF VerifierAttempt
<1>10. CallsTrue /\ ReviewsTrue /\ VerdictsTrue
  BY LogIsTrueParts
<1>11. e = ReviewEvent(m + 1, len + 1)'
  <2>1. Reviews(m + 1)' = Append(Reviews(m + 1), review)
    BY <1>6 DEF Reviews
  <2>2. Reviews(m + 1)'[len + 1] = review
    BY <1>4, <1>7, <2>1
  <2>3. draft_verdict.control_id = controls[m + 1].id
    BY <1>1, <1>5 DEF Draft
  <2>4. verifier_attempts' = len + 1
    BY <1>1, <1>2, <1>5, <1>7
  <2>5. e = [event |-> "verifier_attempt", control_id |-> controls[m + 1].id,
             attempt |-> len + 1, draft_verdict |-> draft_verdict.verdict,
             approved |-> approved]
    BY <1>4, <1>8, <2>3, <2>4 DEF VerifierAttempt
  <2> QED
    BY <1>3, <2>2, <2>5 DEF ReviewEvent, review
<1>12. CallsTrue'
  <2>1. Logged("tool_call")' = Logged("tool_call")
    BY <1>9, RecordedAppend DEF Recorded
  <2>2. \A i \in 1 .. m + 1 : FailedTools(i)' = FailedTools(i)
    BY <1>3, <1>6 DEF FailedTools
  <2> HIDE DEF Logged
  <2> QED
    BY <1>3, <1>6, <1>10, <2>1, <2>2 DEF CallsTrue, CallLogged
<1>13. ReviewsTrue'
  <2> DEFINE E == AttemptEvents \cup {e}
             f == [i \in 1 .. m + 1 |-> ReviewEvents(i)]
             h == [i \in 1 .. m + 1 |-> ReviewEvents(i)']
             front == [i \in 1 .. m |-> f[i]]
  <2>1. \A i \in 1 .. m + 1 : f[i] \in Seq(E)
    <3>1. \A i \in 1 .. m + 1 : f[i] \in Seq(AttemptEvents)
      BY <1>6, ReviewEventsType DEF IInv
    <3> HIDE DEF f
    <3> QED
      BY <3>1, SeqMonotonic
  <2>2. f \in [1 .. m + 1 -> Seq(E)]
    BY <2>1
  <2>3. \A i \in 1 .. m : h[i] = f[i]
    <3>1. ASSUME NEW i \in 1 .. m PROVE ReviewEvents(i)' = ReviewEvents(i)
      <4>1. Reviews(i)' = Reviews(i)
        BY <1>6 DEF Reviews
      <4> QED
        BY <1>3, <4>1 DEF ReviewEvents, ReviewEvent
    <3>2. \A i \in 1 .. m : i \in 1 .. m + 1
      OBVIOUS
    <3> QED
      BY <3>1, <3>2
  <2>4. h[m + 1] = Append(f[m + 1], e)
    <3> DEFINE r == Reviews(m + 1)
               old == [k \in 1 .. len |-> ReviewEvent(m + 1, k)]
               new == [k \in 1 .. len + 1 |-> ReviewEvent(m + 1, k)']
    <3>1. m + 1 \in 1 .. m + 1
      OBVIOUS
    <3>2. f[m + 1] = old
      BY <1>7, <3>1 DEF ReviewEvents
    <3>3. /\ DOMAIN Reviews(m + 1)' = 1 .. len + 1
          /\ \A k \in 1 .. len : Reviews(m + 1)'[k] = r[k]
      <4>1. Reviews(m + 1)' = Append(r, review)
        BY <1>6 DEF Reviews
      <4> QED
        BY <1>4, <1>7, <4>1
    <3>4. h[m + 1] = new
      BY <3>1, <3>3 DEF ReviewEvents
    <3>5. \A k \in 1 .. len : ReviewEvent(m + 1, k)' = ReviewEvent(m + 1, k)
      BY <1>3, <3>3 DEF ReviewEvent
    <3>6. \A k \in 1 .. len + 1 : new[k] = IF k = len + 1 THEN e ELSE old[k]
      <4>1. \A k \in 1 .. len + 1 : k = len + 1 \/ k \in 1 .. len
        OBVIOUS
      <4> QED
        BY <1>11, <3>5, <4>1
    <3>7. old \in Seq(E) /\ Len(old) = len
      BY <2>1, <3>1, <3>2
    <3>8. new = Append(old, e)
      <4> DEFINE app == Append(old, e)
      <4>1. e \in E
        OBVIOUS
      <4> HIDE DEF old, new, E
      <4>2. /\ app \in Seq(E) /\ Len(app) = len + 1 /\ app[len + 1] = e
            /\ \A k \in 1 .. len : app[k] = old[k]
        BY <3>7, <4>1, AppendFacts
      <4> HIDE DEF app
      <4>3. app = [k \in 1 .. len + 1 |-> app[k]]
        <5>1. app = [k \in 1 .. Len(app) |-> app[k]]
          BY <4>2
        <5> QED
          BY <4>2, <5>1
      <4>4. new = [k \in 1 .. len + 1 |-> new[k]]
        BY DEF new
      <4>5. \A k \in 1 .. len + 1 : k = len + 1 \/ k \in 1 .. len
        OBVIOUS
      <4>6. \A k \in 1 .. len + 1 : new[k] = app[k]
        BY <3>6, <4>2, <4>5
      <4>7. new = app
        BY <4>3, <4>4, <4>6
      <4> QED
        BY <4>7 DEF app
    <3> QED
      BY <3>2, <3>4, <3>8
  <2>5. h \in [1 .. m + 1 -> Seq(E)]
    <3>1. \A i \in 1 .. m + 1 : i = m + 1 \/ i \in 1 .. m
      OBVIOUS
    <3>2. f[m + 1] \in Seq(E) /\ e \in E
      BY <2>1
    <3>3. h[m + 1] \in Seq(E)
      <4> HIDE DEF f, h, E
      <4> QED
        BY <2>4, <3>2, AppendFacts
    <3>4. \A i \in 1 .. m + 1 : h[i] \in Seq(E)
      <4> HIDE DEF f, h, E
      <4> QED
        BY <2>1, <2>3, <3>1, <3>3
    <3> QED
      BY <3>4
  <2>6. front \in Seq(Seq(E)) /\ [i \in 1 .. m |-> h[i]] = front
    <3>1. \A i \in 1 .. m : f[i] \in Seq(E)
      BY <2>1
    <3> HIDE DEF f, h, E
    <3> QED
      BY <2>3, <3>1
  <2>7. /\ f[m + 1] \in Seq(E) /\ e \in E
        /\ \A i \in 1 .. m : f[i] = front[i]
    BY <2>1
  <2> HIDE DEF f, h, E
  <2>8. SE!FlattenSeq(h) = Append(SE!FlattenSeq(f), e)
    <3>1. SE!FlattenSeq(f) = SE!FlattenSeq(front) \o f[m + 1]
      BY <2>2, FlattenLast
    <3>2. SE!FlattenSeq(h) = SE!FlattenSeq(front) \o h[m + 1]
      BY <2>5, <2>6, FlattenLast
    <3> HIDE DEF front
    <3>3. SE!FlattenSeq(front) \in Seq(E)
      BY <2>6, FlattenType
    <3>4. SE!FlattenSeq(front) \o Append(f[m + 1], e) = Append(SE!FlattenSeq(front) \o f[m + 1], e)
      BY <2>7, <3>3, ConcatAppend
    <3> QED
      BY <2>4, <3>1, <3>2, <3>4
  <2>9. Logged("verifier_attempt")' = Append(Logged("verifier_attempt"), e)
    BY <1>9, RecordedAppend DEF Recorded
  <2>10. Logged("verifier_attempt")' = SE!FlattenSeq(h)
    BY <1>6, <1>10, <2>8, <2>9 DEF ReviewsTrue, f
  <2> QED
    BY <1>6, <2>10 DEF ReviewsTrue, h
<1>14. VerdictsTrue'
  <2>1. Logged("verdict_finalized")' = Logged("verdict_finalized")
    BY <1>9, RecordedAppend DEF Recorded
  <2> QED
    BY <1>3, <1>10, <2>1 DEF VerdictsTrue, VerdictEvent
<1> QED
  BY <1>12, <1>13, <1>14 DEF LogIsTrue, CallsTrue, ReviewsTrue, VerdictsTrue, CallLogged,
     ReviewEvents, ReviewEvent, VerdictEvent

LEMMA AlignedNext == IInv' => VerdictsAlign'
BY IInvVerdictsAlign, PTL

\* A FinalizeControl logs the verdict it commits.
LEMMA FinalizeTrue ==
    ASSUME IInv, LogIsSeq, LogIsTrue, FinalizeControl, log' = Append(log, VerdictFinalized)
    PROVE  LogIsTrue'
<1>1. /\ UNCHANGED <<controls, trail>>
      /\ verdicts' = Append(verdicts, Finalized(draft_verdict, collection,
                                                verifier_attempts, verifier_notes))
      /\ control_idx' = control_idx + 1
  BY DEF FinalizeControl, observer
<1>2. IInv'
  BY IInvStep DEF Next
<1>3. PICK m \in Nat : m = Len(verdicts)
  BY DEF IInv, TypeOK
<1>4. /\ DOMAIN verdicts = 1 .. m /\ DOMAIN verdicts' = 1 .. m + 1 /\ Len(verdicts') = m + 1
      /\ \A i \in 1 .. m : verdicts'[i] = verdicts[i]
  <2>1. PICK v : verdicts' = Append(verdicts, v)
    BY <1>1
  <2> QED
    BY <1>3, <2>1 DEF IInv, TypeOK
<1>5. verdicts'[m + 1].control_id = controls[m + 1].id
  <2>1. VerdictsAlign'
    BY <1>2, AlignedNext
  <2> QED
    BY <1>1, <1>4, <2>1 DEF VerdictsAlign
<1>6. PICK e : e = VerdictFinalized
  OBVIOUS
<1>7. e.event = "verdict_finalized" /\ log' = Append(log, e) /\ e = VerdictEvent(m + 1)'
  BY <1>1, <1>4, <1>5, <1>6 DEF VerdictFinalized, VerdictEvent
<1>8. CallsTrue /\ ReviewsTrue /\ VerdictsTrue
  BY LogIsTrueParts
<1>9. /\ Logged("tool_call")' = Logged("tool_call")
      /\ Logged("verifier_attempt")' = Logged("verifier_attempt")
  BY <1>7, RecordedAppend DEF Recorded
<1>10. CallsTrue'
  <2>1. \A i : FailedTools(i)' = FailedTools(i)
    BY <1>1 DEF FailedTools
  <2> HIDE DEF Logged
  <2> QED
    BY <1>1, <1>8, <1>9, <2>1 DEF CallsTrue, CallLogged
<1>11. ReviewsTrue'
  <2>1. \A i : ReviewEvents(i)' = ReviewEvents(i)
    BY <1>1 DEF ReviewEvents, ReviewEvent, Reviews
  <2> HIDE DEF Logged
  <2> QED
    BY <1>1, <1>8, <1>9, <2>1 DEF ReviewsTrue
<1>12. VerdictsTrue'
  <2> DEFINE old == Logged("verdict_finalized")
             new == [i \in 1 .. m + 1 |-> VerdictEvent(i)']
  <2>1. old = [i \in 1 .. m |-> VerdictEvent(i)]
    BY <1>4, <1>8 DEF VerdictsTrue
  <2>2. Len(old) = m
    BY <2>1
  <2>3. \A i \in 1 .. m : VerdictEvent(i)' = VerdictEvent(i)
    BY <1>1, <1>4 DEF VerdictEvent
  <2>4. /\ old' = [i \in 1 .. m + 1 |-> old'[i]] /\ old'[m + 1] = e
        /\ \A i \in 1 .. m : old'[i] = old[i]
    BY <1>7, <2>2, RecordedAppend DEF Recorded
  <2>5. \A i \in 1 .. m + 1 : i = m + 1 \/ i \in 1 .. m
    OBVIOUS
  <2>6. \A i \in 1 .. m + 1 : old'[i] = VerdictEvent(i)'
    BY <1>7, <2>1, <2>3, <2>4, <2>5
  <2> QED
    BY <1>4, <2>4, <2>6 DEF VerdictsTrue
<1> QED
  BY <1>10, <1>11, <1>12 DEF LogIsTrue, CallsTrue, ReviewsTrue, VerdictsTrue, CallLogged,
     ReviewEvents, ReviewEvent, VerdictEvent

LEMMA TrueInit == LogInit => LogIsTrue
<1> SUFFICES ASSUME LogInit PROVE LogIsTrue
  OBVIOUS
<1>1. \A kind : Logged(kind) = <<>>
  BY OfKindEmpty DEF LogInit, Logged
<1>2. trail = <<>> /\ verdicts = <<>> /\ DOMAIN trail = {} /\ DOMAIN verdicts = {}
  BY DEF LogInit, Init
<1>3. [i \in DOMAIN trail |-> ReviewEvents(i)] = <<>>
  BY <1>2
<1>4. [i \in DOMAIN verdicts |-> VerdictEvent(i)] = <<>>
  BY <1>2
<1>5. CallsTrue /\ ReviewsTrue /\ VerdictsTrue
  BY <1>1, <1>2, <1>3, <1>4, FlattenEmpty DEF CallsTrue, ReviewsTrue, VerdictsTrue
<1> QED
  BY <1>5, LogIsTrueParts

LEMMA TrueStep == IInv /\ Position /\ LogIsTrue /\ [LogNext]_allvars => LogIsTrue'
<1> SUFFICES ASSUME IInv, Position, LogIsTrue, [LogNext]_allvars PROVE LogIsTrue'
  OBVIOUS
<1>0. LogIsSeq
  BY DEF Position
<1>1. ASSUME UNCHANGED <<log, controls, trail, verdicts>> PROVE LogIsTrue'
  <2>1. \A kind \in Recorded : Logged(kind)' = Logged(kind)
    BY <1>1 DEF Logged
  <2> QED
    BY <1>1, <2>1, TrueFrame
<1>2. ASSUME NEW e, log' = Append(log, e), e.event \notin Recorded,
             UNCHANGED <<controls, trail, verdicts>>
      PROVE  LogIsTrue'
  <2>1. \A kind \in Recorded : Logged(kind)' = Logged(kind)
    BY <1>0, <1>2, LoggedAppend
  <2> QED
    BY <1>2, <2>1, TrueFrame
<1>3. ASSUME NEW e, e.event \notin Recorded, UNCHANGED vars,
             log' = Append(log, e) \/ UNCHANGED log
      PROVE  LogIsTrue'
  <2>1. UNCHANGED <<controls, trail, verdicts>>
    BY <1>3 DEF vars, state, observer
  <2> QED
    BY <1>1, <1>2, <1>3, <2>1
<1>a. CASE StartRun
  <2>1. PICK e : /\ e.event = "run_start"
                 /\ log' = Append(log, e) \/ UNCHANGED log
    BY <1>a DEF StartRun, Log
  <2> QED
    BY <1>3, <1>a, <2>1 DEF StartRun, Recorded
<1>b. CASE EnterNode
  <2>1. PICK e : /\ e.event = "node_start"
                 /\ log' = Append(log, e) \/ UNCHANGED log
    BY <1>b DEF EnterNode, Log
  <2> QED
    BY <1>3, <1>b, <2>1 DEF EnterNode, Recorded
<1>c. CASE QuietBody
  BY <1>1, <1>c DEF QuietBody, Supervisor, Synthesize, state, observer
<1>d. CASE LoggingBody
  <2>1. CASE Final /\ log' = Append(log, RunEnd)
    <3>1. UNCHANGED <<controls, trail, verdicts>>
      BY <2>1 DEF Final, observer
    <3>2. RunEnd.event = "run_end"
      BY DEF RunEnd
    <3>3. PICK e : e = RunEnd
      OBVIOUS
    <3> QED
      BY <1>2, <2>1, <3>1, <3>2, <3>3 DEF Recorded
  <2> QED
    BY <1>0, <1>d, <2>1, CollectTrue, VerifyTrue, FinalizeTrue DEF LoggingBody
<1>e. CASE BodyLogFails \/ BodyRaises
  BY <1>1, <1>e DEF BodyLogFails, BodyRaises, NodeRaises, vars, state, observer
<1>f. CASE ExitNode
  <2>1. PICK e : /\ e.event = "node_end"
                 /\ log' = Append(log, e) \/ UNCHANGED log
    BY <1>f DEF ExitNode, Log, NodeEvent
  <2> QED
    BY <1>3, <1>f, <2>1 DEF ExitNode, Recorded
<1>g. CASE Handle
  <2>1. PICK e : /\ e.event = "node_error"
                 /\ log' = Append(log, e) \/ UNCHANGED log
    BY <1>g DEF Handle, Log
  <2> QED
    BY <1>3, <1>g, <2>1 DEF Handle, Recorded
<1>h. CASE Exhaust \/ Return
  BY <1>1, <1>h DEF Exhaust, OutOfSteps, Return, vars, state, observer
<1>i. CASE RunError
  <2>1. PICK e : /\ e.event = "run_error"
                 /\ log' = Append(log, e) \/ UNCHANGED log
    BY <1>i DEF RunError, Log
  <2> QED
    BY <1>3, <1>i, <2>1 DEF RunError, Recorded
<1>j. CASE Ended \/ UNCHANGED allvars
  BY <1>1, <1>j DEF Ended, allvars, logvars, vars, state, observer
<1> QED
  BY <1>a, <1>b, <1>c, <1>d, <1>e, <1>f, <1>g, <1>h, <1>i, <1>j DEF LogNext

\* In every run, wherever it is cut off or logging fails, the log has every scanner
\* call, every decision of the Verifier and every verdict of the run, once each and
\* in order, and no other.
THEOREM LogIsTrueHolds == LogSpec => []LogIsTrue
<1> DEFINE J == Position /\ LogNests /\ LogIsTrue
<1>1. LogInit => J
  BY NestsInit, TrueInit
<1>2. IInv /\ J /\ [LogNext]_allvars => J'
  BY NestsStep, TrueStep
<1>3. J => LogIsTrue
  OBVIOUS
<1> HIDE DEF J
<1> QED
  BY <1>1, <1>2, <1>3, LoggedIInv, PTL DEF LogSpec

=============================================================================
