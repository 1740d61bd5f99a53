----------------------- MODULE EvidenceCollectorProofs -----------------------
(***************************************************************************)
(* Proof that a collection is what the scanners said, no more and no less, *)
(* and says why it is empty: for every knowledge base, whatever the        *)
(* scanners may find, and however many of them fail.                       *)
(***************************************************************************)
EXTENDS MCEvidenceCollector, TLAPS

\* A scan of one control, and what has been made of it.
IInv ==
    /\ control \in Control
    /\ scan \in ScanOutcome
    /\ Called => result = CollectEvidence(control, scan)

LEMMA InvHolds == Spec => []IInv
<1>1. Init => IInv
  BY DEF Init, IInv, Called
<1>2. IInv /\ [Collect]_vars => IInv'
  BY DEF IInv, Collect, vars, Called
<1> QED
  BY <1>1, <1>2, PTL DEF Spec

\* The findings of a scanner that did not raise are among those it may return.
LEMMA FoundIsEmitted ==
    ASSUME IInv, NEW t \in Tools, scan[t] # Raised
    PROVE  scan[t] \subseteq Emits[t] /\ Emits[t] \subseteq ToolFinding
<1>1. scan[t] \in Answer(t)
  BY DEF IInv, ScanOutcome, Tools, ScanIac, ScanCi, ScanSecrets
<1> QED
  BY <1>1, EmitsAssumption DEF Answer

LEMMA HintsAreFamilies ==
    ASSUME IInv
    PROVE  control.scanner_hints \subseteq CheckFamily
BY ControlAssumption DEF IInv

\* The scanners that run are those whose families the hints name.
LEMMA Routing ==
    ASSUME IInv, NEW t \in Tools
    PROVE  /\ t \in ToolsFor(control) <=>
                 \E h \in control.scanner_hints :
                    \/ t = ScanIac     /\ h \notin {"ci", "secrets"}
                    \/ t = ScanCi      /\ h = "ci"
                    \/ t = ScanSecrets /\ h = "secrets"
           /\ \A f \in Emits[t] :
                 f.check_family \in control.scanner_hints => t \in ToolsFor(control)
           /\ t # ScanIac /\ t \in ToolsFor(control) =>
                 \A f \in Emits[t] : f.check_family \in control.scanner_hints
<1> USE DEF Tools, ScanIac, ScanCi, ScanSecrets, ToolsFor
<1>1. control.scanner_hints \subseteq CheckFamily
  BY HintsAreFamilies
<1>2. \A h \in control.scanner_hints : h \in IacFamilies <=> h \notin {"ci", "secrets"}
  BY <1>1 DEF CheckFamily, IacFamilies
<1>3. CASE t = ScanIac
  BY <1>2, <1>3, FamiliesAssumption
<1>4. CASE t = ScanCi
  BY <1>4, FamiliesAssumption
<1>5. CASE t = ScanSecrets
  BY <1>5, FamiliesAssumption
<1> QED
  BY <1>3, <1>4, <1>5

\* What is kept of the findings of a scanner that ran: those of the control.
LEMMA KeptFindings ==
    ASSUME IInv, NEW t \in Tools, t \in ToolsFor(control), scan[t] # Raised, NEW f \in scan[t]
    PROVE  f \in Relevant(t, control, scan[t]) <=>
              /\ f.check_family \in control.scanner_hints
              /\ \E k \in DOMAIN control.id : control.id[k] \in f.control_hints
<1>1. f \in Emits[t]
  BY FoundIsEmitted
<1>2. IsRelevant(f, ControlIdParts(control.id)) <=>
          \E k \in DOMAIN control.id : control.id[k] \in f.control_hints
  BY DEF IsRelevant, ControlIdParts
<1>3. t = ScanIac => f.check_family \in IacFamilies
  BY <1>1, FamiliesAssumption
<1>4. t # ScanIac => f.check_family \in control.scanner_hints
  BY <1>1, Routing
<1> QED
  BY <1>2, <1>3, <1>4 DEF Relevant

\* What the collector returned, part by part.
LEMMA ResultFacts ==
    ASSUME IInv, Called
    PROVE  /\ \A e : e \in result.evidence <=>
                 \E t \in ToolsFor(control) : \E f \in Relevant(t, control, scan[t]) :
                    scan[t] # Raised /\ e = FindingToEvidence(f)
           /\ result.errors = {t \in ToolsFor(control) : scan[t] = Raised}
           /\ ToolsFor(control) = {} => NoTool \in result.limitations
           /\ \A t \in ToolsFor(control) :
                 t \in result.limitations <=>
                    scan[t] # Raised /\ Relevant(t, control, scan[t]) = {}
<1>1. result = CollectEvidence(control, scan)
  BY DEF IInv
<1>2. PICK ran : ran = ToolsFor(control)
  OBVIOUS
<1>3. PICK failed : failed = {t \in ran : scan[t] = Raised}
  OBVIOUS
<1>4. PICK kept : kept = [t \in ran \ failed |-> Relevant(t, control, scan[t])]
  OBVIOUS
<1>5. result = [control_id  |-> control.id,
                evidence    |-> {FindingToEvidence(f) : f \in UNION {kept[t] : t \in ran \ failed}},
                errors      |-> failed,
                limitations |-> IF ran = {} THEN {NoTool}
                                ELSE {t \in ran \ failed : kept[t] = {}}]
  BY <1>1, <1>2, <1>3, <1>4 DEF CollectEvidence
<1>6. /\ result.evidence = {FindingToEvidence(f) : f \in UNION {kept[t] : t \in ran \ failed}}
      /\ result.errors = failed
      /\ result.limitations = IF ran = {} THEN {NoTool}
                              ELSE {t \in ran \ failed : kept[t] = {}}
  BY <1>5
<1>7. \A t \in ran \ failed : kept[t] = Relevant(t, control, scan[t])
  BY <1>4
<1> QED
  BY <1>2, <1>3, <1>6, <1>7

-----------------------------------------------------------------------------
LEMMA EvidenceIsTheControlsInv == IInv => EvidenceIsTheControls
<1> SUFFICES ASSUME IInv, Called, NEW e \in result.evidence
             PROVE  \E t \in Tools : \E f \in Emits[t] :
                       /\ scan[t] # Raised
                       /\ f \in scan[t]
                       /\ f.check_family \in control.scanner_hints
                       /\ \E k \in DOMAIN control.id : control.id[k] \in f.control_hints
                       /\ e.path_or_id = f.path
                       /\ e.excerpt \in {f.excerpt, f.message} \ {NoText}
  BY DEF EvidenceIsTheControls
<1>1. PICK t \in ToolsFor(control) : \E f \in Relevant(t, control, scan[t]) :
          scan[t] # Raised /\ e = FindingToEvidence(f)
  BY ResultFacts
<1>2. PICK f \in Relevant(t, control, scan[t]) :
          scan[t] # Raised /\ e = FindingToEvidence(f)
  BY <1>1
<1>3. t \in Tools /\ f \in scan[t]
  BY DEF ToolsFor, Relevant
<1>4. f \in Emits[t] /\ f \in ToolFinding
  BY <1>2, <1>3, FoundIsEmitted
<1>5. e.path_or_id = f.path /\ e.excerpt \in {f.excerpt, f.message} \ {NoText}
  BY <1>2, <1>4, EmitsAssumption DEF FindingToEvidence, ToolFinding
<1> QED
  BY <1>2, <1>3, <1>4, <1>5, KeptFindings

\* Every piece of evidence is a finding about the control, of a scanner and a family
\* that the control's hints name.
THEOREM EvidenceIsTheControlsHolds == Spec => []EvidenceIsTheControls
BY InvHolds, EvidenceIsTheControlsInv, PTL

LEMMA NoEvidenceIsLostInv == IInv => NoEvidenceIsLost
<1> SUFFICES ASSUME IInv, Called, NEW t \in Tools, NEW f \in Emits[t],
                    scan[t] # Raised, f \in scan[t],
                    f.check_family \in control.scanner_hints,
                    \E k \in DOMAIN control.id : control.id[k] \in f.control_hints
             PROVE  FindingToEvidence(f) \in result.evidence
  BY DEF NoEvidenceIsLost
<1>1. t \in ToolsFor(control)
  BY Routing
<1>2. f \in Relevant(t, control, scan[t])
  BY <1>1, KeptFindings
<1> QED
  BY <1>1, <1>2, ResultFacts

\* Every such finding is in the evidence, whatever the other scanners do.
THEOREM NoEvidenceIsLostHolds == Spec => []NoEvidenceIsLost
BY InvHolds, NoEvidenceIsLostInv, PTL

LEMMA NeverSilentInv == IInv => NeverSilent
<1> SUFFICES ASSUME IInv, Called PROVE NeverSilent
  BY DEF NeverSilent
<1>1. ASSUME result.evidence = {} PROVE result.errors \cup result.limitations # {}
  <2>1. CASE ToolsFor(control) = {}
    BY <2>1, ResultFacts
  <2>2. CASE ToolsFor(control) # {}
    <3>1. PICK t \in ToolsFor(control) : TRUE
      BY <2>2
    <3>2. CASE scan[t] = Raised
      BY <3>1, <3>2, ResultFacts
    <3>3. CASE scan[t] # Raised
      <4>1. Relevant(t, control, scan[t]) = {}
        BY <1>1, <3>1, <3>3, ResultFacts
      <4> QED
        BY <3>1, <3>3, <4>1, ResultFacts
    <3> QED
      BY <3>2, <3>3
  <2> QED
    BY <2>1, <2>2
<1>2. \A t \in Tools : t \in result.errors <=> scan[t] = Raised /\ t \in ToolsFor(control)
  BY ResultFacts
<1>3. result.errors \cap result.limitations = {}
  <2> SUFFICES ASSUME NEW t \in result.errors, t \in result.limitations PROVE FALSE
    OBVIOUS
  <2> QED
    BY ResultFacts
<1> QED
  BY <1>1, <1>2, <1>3, Routing DEF NeverSilent

\* A collection without evidence says why, and its errors are the scanners that the
\* control needs and that raised.
THEOREM NeverSilentHolds == Spec => []NeverSilent
BY InvHolds, NeverSilentInv, PTL

=============================================================================
