--------------------------- MODULE EvidenceCollector ---------------------------
(***************************************************************************)
(* The Evidence Collector (evidence_collector.py): for one control it runs *)
(* the scanners that the control's scanner_hints route to, keeps the       *)
(* findings that concern this control and normalises them into EvidenceRef *)
(* records. It is deterministic in what the scanners answer, so it is an   *)
(* operator of the control and of the scanners' answers, with no state.    *)
(*                                                                         *)
(* Data. A list whose order nobody reads (findings, evidence, errors,      *)
(* limitations) is a set. A control id is the sequence of its parts:       *)
(* "SI-2/RA-5" is <<"SI-2", "RA-5">>. An error or a limitation is named by *)
(* the scanner it speaks of. Line numbers and severities are left out.     *)
(***************************************************************************)
EXTENDS Integers, Sequences, FiniteSets

CONSTANTS
    Control,   \* the ControlEntry records of the knowledge base
    IdPart,    \* simple control ids: the parts a compound id splits into
    Path,      \* repo-relative file paths
    Text,      \* excerpts and messages
    NoText,    \* the empty excerpt of an absence finding
    Emits,     \* Emits[t]: the findings scanner t may return for some repository
    Raised,    \* stands for "the scanner raised an exception"
    NoTool     \* names the limitation of a control that routes to no scanner

-----------------------------------------------------------------------------
(* What the collector works on *)

ScanIac     == "scan_iac_security"
ScanCi      == "scan_ci_security"
ScanSecrets == "scan_secrets"
Tools       == {ScanIac, ScanCi, ScanSecrets}

\* Check families that scan_iac_security serves.
IacFamilies == {"terraform", "dockerfile", "kubernetes_yaml", "logging_monitoring"}
CheckFamily == IacFamilies \cup {"ci", "secrets"}

ControlId == Seq(IdPart)

ToolFinding == [path : Path, check_family : CheckFamily,
                control_hints : SUBSET IdPart,
                excerpt : Text \cup {NoText}, message : Text]

EvidenceRef == [source_type : {"tool_result"}, path_or_id : Path,
                excerpt : Text \cup {NoText}]

CollectionResult == [control_id : ControlId, evidence : SUBSET EvidenceRef,
                     errors : SUBSET Tools, limitations : SUBSET (Tools \cup {NoTool})]

\* A knowledge-base entry has an id and the check families that can speak to it.
ASSUME ControlAssumption ==
    Control \subseteq [id : ControlId, scanner_hints : SUBSET CheckFamily]

\* Scanners return well-formed findings; every finding has a message.
ASSUME EmitsAssumption ==
    /\ Emits \in [Tools -> SUBSET ToolFinding]
    /\ NoText \notin Text

\* Every scanner reports under check families of its own.
ASSUME FamiliesAssumption ==
    /\ \A f \in Emits[ScanIac] : f.check_family \in IacFamilies
    /\ \A f \in Emits[ScanCi] : f.check_family = "ci"
    /\ \A f \in Emits[ScanSecrets] : f.check_family = "secrets"

\* What a scanner answers (a list of findings, or an exception), and what the
\* three of them answer for one control.
Answer(t) == {found \in SUBSET Emits[t] : IsFiniteSet(found)} \cup {Raised}
ScanOutcome == [scan_iac_security : Answer(ScanIac),
                scan_ci_security  : Answer(ScanCi),
                scan_secrets      : Answer(ScanSecrets)]

-----------------------------------------------------------------------------
(* collect_evidence *)

(* The definitions named ...Defect are the ones that follow them with a bug a    *)
(* maintainer might make; no specification uses them.                         *)

\* Defect: a compound id is not split, only its first part counts.
ControlIdPartsDefect(id) == {id[1]}

\* _control_id_parts: a compound id stands for each of its parts.
ControlIdParts(id) == {id[k] : k \in DOMAIN id}

\* _is_relevant: the finding is mapped to at least one part of the control id.
IsRelevant(f, parts) == parts \cap f.control_hints # {}

\* run_iac, run_ci, run_secrets: the scanners that the hints route to.
ToolsFor(control) ==
    LET hints == control.scanner_hints
    IN  {t \in Tools : \/ t = ScanIac     /\ hints \cap IacFamilies # {}
                       \/ t = ScanCi      /\ "ci" \in hints
                       \/ t = ScanSecrets /\ "secrets" \in hints}

\* Defect: the IaC scanner's findings are not filtered by check family.
RelevantDefect(t, control, found) ==
    {f \in found : IsRelevant(f, ControlIdParts(control.id))}

\* The findings of one scanner that are kept: scan_iac_security serves several
\* check families, so its findings are filtered by family as well.
Relevant(t, control, found) ==
    {f \in found :
        /\ IsRelevant(f, ControlIdParts(control.id))
        /\ t = ScanIac => f.check_family \in control.scanner_hints \cap IacFamilies}

\* finding_to_evidence: an absence finding has no matched text, so that its
\* message is the evidence.
FindingToEvidence(f) ==
    [source_type |-> "tool_result",
     path_or_id  |-> f.path,
     excerpt     |-> IF f.excerpt = NoText THEN f.message ELSE f.excerpt]

\* Defect: a scanner that ran and had nothing relevant to say leaves no trace.
CollectEvidenceDefect(control, scan) ==
    LET ran    == ToolsFor(control)
        failed == {t \in ran : scan[t] = Raised}
    IN  [control_id  |-> control.id,
         evidence    |-> {FindingToEvidence(f) :
                            f \in UNION {Relevant(t, control, scan[t]) : t \in ran \ failed}},
         errors      |-> failed,
         limitations |-> IF ran = {} THEN {NoTool} ELSE {}]

\* collect_evidence: a scanner that raises is recorded and does not stop the
\* others; a scanner with nothing relevant to say leaves a limitation.
CollectEvidence(control, scan) ==
    LET ran    == ToolsFor(control)
        failed == {t \in ran : scan[t] = Raised}
        kept   == [t \in ran \ failed |-> Relevant(t, control, scan[t])]
    IN  [control_id  |-> control.id,
         evidence    |-> {FindingToEvidence(f) : f \in UNION {kept[t] : t \in ran \ failed}},
         errors      |-> failed,
         limitations |-> IF ran = {} THEN {NoTool}
                         ELSE {t \in ran \ failed : kept[t] = {}}]

=============================================================================
