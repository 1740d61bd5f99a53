------------------------------ MODULE KnowledgeBase ------------------------------
(***************************************************************************)
(* The persisted controls knowledge base: ingest_controls (kb.py) writes   *)
(* it, run_assessment in dynamic mode reads it through ControlsRetriever.  *)
(* from_persisted and select_controls. Every ingest and every assessment   *)
(* is a process of its own; they share the store directory and nothing     *)
(* keeps them apart. A process may be killed between any two of its steps. *)
(*                                                                         *)
(* Chroma is external. It is modelled by what the code relies on: opening  *)
(* a store creates chroma.sqlite3 if there is none, documents are added in *)
(* one transaction under fresh ids, a search returns the nearest k. A file *)
(* that is unlinked while it is open lives on without a name, so a store   *)
(* is named by the process that created it.                                *)
(*                                                                         *)
(* A document is its control id; embeddings and the ranking of a search    *)
(* are left out: any k documents may be the nearest ones. A controls file, *)
(* a store and a selection may have an id more than once: each is a        *)
(* function that says how often it has each id.                            *)
(***************************************************************************)
EXTENDS Lists, FiniteSets

CONSTANTS
    Ingesters,    \* processes that run ingest-controls
    Readers,      \* processes that run a dynamic assessment
    ControlIds,   \* ids that some controls file contains
    Rubric,       \* the ids of data/controls.yaml, which readers index
    Rubrics,      \* the controls files that ingest-controls may be given
    TopK,         \* --top-k-controls
    None

Procs == Ingesters \cup Readers

\* cmd_assess and select_controls refuse a smaller top_k.
ASSUME TopKAssumption == TopK \in Nat \ {0}
ASSUME ProcsAssumption == Ingesters \cap Readers = {} /\ None \notin Procs
ASSUME RubricAssumption ==
    /\ Rubric \subseteq ControlIds /\ IsFiniteSet(ControlIds)
    /\ Rubrics \subseteq [ControlIds -> Nat]

VARIABLES
    linked,     \* the store that chroma.sqlite3 names, or None
    content,    \* content[s][id]: how many documents store s has for id
    pc,         \* where each process is
    listed,     \* an ingester's iterdir showed a chroma.sqlite3
    handle,     \* the store a process has open
    docs,       \* docs[p][id]: how often the controls file of ingester p lists id
    selected    \* selected[r][id]: how often reader r selected id

(* Observers, which no process reads. *)
VARIABLES
    last,       \* the documents of the last ingest that was completed
    disturbed,  \* processes whose use of the store an ingest overlapped
    damaged     \* an ingest was killed or failed after it began to wipe

store    == <<linked, content>>
local    == <<pc, listed, handle, docs, selected>>
observed == <<last, disturbed, damaged>>
vars     == <<store, local, observed>>

-----------------------------------------------------------------------------
(* Documents *)

Nothing == [id \in ControlIds |-> 0]

Size(bag) == FE!MapThenSumSet(LAMBDA id : bag[id], ControlIds)

\* The documents of a bag whose id is one of the ids.
Of(bag, ids) == [id \in ControlIds |-> IF id \in ids THEN bag[id] ELSE 0]

\* What a search for the nearest k documents may return.
Nearest(bag, k) ==
    {pick \in [ControlIds -> 0 .. k] :
        /\ \A id \in ControlIds : pick[id] <= bag[id]
        /\ Size(pick) = FE!Min({k, Size(bag)})}

-----------------------------------------------------------------------------
(* Processes *)

Wiping == {"list", "unlink", "open", "add"}
Active(p) == \/ p \in Ingesters /\ pc[p] \in Wiping
             \/ p \in Readers   /\ pc[p] \in {"open", "search"}

Step(p, from, to) == pc[p] = from /\ pc' = [pc EXCEPT ![p] = to]

\* Two uses of the store overlap from the moment the later one begins.
Begin(p) ==
    LET others == {q \in Procs \ {p} : Active(q)}
    IN  disturbed' = disturbed
            \cup (IF p \in Ingesters THEN others ELSE {})
            \cup (IF others \cap Ingesters # {} THEN {p} ELSE {})

Init ==
    /\ linked = None
    /\ content = [p \in Procs |-> Nothing]
    /\ pc = [p \in Procs |-> "start"]
    /\ listed = [p \in Ingesters |-> FALSE]
    /\ handle = [p \in Procs |-> None]
    /\ docs = [p \in Ingesters |-> Nothing]
    /\ selected = [r \in Readers |-> Nothing]
    /\ last = Nothing
    /\ disturbed = {}
    /\ damaged = FALSE

\* load_controls and init_embeddings come before the store is touched. A document
\* is made of each entry of the file, whatever the other entries are.
Load(p) ==
    /\ Step(p, "start", "list")
    /\ \E file \in Rubrics : docs' = [docs EXCEPT ![p] = file]
    /\ Begin(p)
    /\ UNCHANGED <<store, listed, handle, selected, last, damaged>>

(* The definitions named ...Defect are the ones that follow them with a bug a    *)
(* maintainer might make; no specification uses them.                         *)

\* Defect: the old contents are not cleared.
ListDefect(p) ==
    /\ Step(p, "list", "unlink")
    /\ UNCHANGED <<store, listed, handle, docs, selected, observed>>

\* store_path.iterdir(), or mkdir when there is no directory yet.
List(p) ==
    /\ Step(p, "list", "unlink")
    /\ listed' = [listed EXCEPT ![p] = linked # None]
    /\ UNCHANGED <<store, handle, docs, selected, observed>>

\* The wipe removes whatever now has the listed name.
Unlink(p) ==
    /\ listed[p] => linked # None
    /\ Step(p, "unlink", "open")
    /\ linked' = IF listed[p] THEN None ELSE linked
    /\ UNCHANGED <<content, listed, handle, docs, selected, observed>>

\* ... and raises FileNotFoundError when another wipe was faster.
UnlinkFails(p) ==
    /\ listed[p] /\ linked = None
    /\ Step(p, "unlink", "failed")
    /\ damaged' = TRUE
    /\ UNCHANGED <<store, listed, handle, docs, selected, last, disturbed>>

\* Chroma(persist_directory): open the store, creating it if there is none.
Open(p) ==
    /\ linked' = IF linked = None THEN p ELSE linked
    /\ handle' = [handle EXCEPT ![p] = linked']
    /\ UNCHANGED <<content, listed, docs, selected, observed>>

OpenToAdd(p) == Step(p, "open", "add") /\ Open(p)

\* Chroma.from_documents: embed, then add; nothing is replaced.
Add(p) ==
    /\ Step(p, "add", "done")
    /\ content' = [content EXCEPT ![handle[p]] = [id \in ControlIds |-> @[id] + docs[p][id]]]
    /\ last' = docs[p]
    /\ UNCHANGED <<linked, listed, handle, docs, selected, disturbed, damaged>>

\* Embedding the documents fails (the model or the provider is unavailable).
EmbedFails(p) ==
    /\ Step(p, "add", "failed")
    /\ damaged' = TRUE
    /\ UNCHANGED <<store, listed, handle, docs, selected, last, disturbed>>

\* from_persisted: no chroma.sqlite3, no assessment.
Missing(r) ==
    /\ linked = None
    /\ Step(r, "start", "missing")
    /\ UNCHANGED <<store, listed, handle, docs, selected, observed>>

Check(r) ==
    /\ linked # None
    /\ Step(r, "start", "open")
    /\ Begin(r)
    /\ UNCHANGED <<store, listed, handle, docs, selected, last, damaged>>

\* Embeddings and the rubric are loaded between the check and the opening.
OpenToSearch(r) == Step(r, "open", "search") /\ Open(r)

\* Defect: controls that the rubric does not know are selected as well.
SearchDefect(r) ==
    /\ Step(r, "search", "selected")
    /\ \E pick \in Nearest(content[handle[r]], TopK) :
          selected' = [selected EXCEPT ![r] = pick]
    /\ UNCHANGED <<store, listed, handle, docs, observed>>

\* select_controls and get_by_ids: the nearest TopK, less what the rubric in
\* memory does not know.
Search(r) ==
    /\ Step(r, "search", "selected")
    /\ \E pick \in Nearest(content[handle[r]], TopK) :
          selected' = [selected EXCEPT ![r] = Of(pick, Rubric)]
    /\ UNCHANGED <<store, listed, handle, docs, observed>>

\* A process is killed while it uses the store.
Killed(p) ==
    /\ Active(p)
    /\ pc' = [pc EXCEPT ![p] = "killed"]
    /\ damaged' = (damaged \/ p \in Ingesters)
    /\ UNCHANGED <<store, listed, handle, docs, selected, last, disturbed>>

Ingest(p) == Load(p) \/ List(p) \/ Unlink(p) \/ UnlinkFails(p) \/ OpenToAdd(p)
             \/ Add(p) \/ EmbedFails(p)
Assess(r) == Missing(r) \/ Check(r) \/ OpenToSearch(r) \/ Search(r)

Next == \/ \E p \in Ingesters : Ingest(p)
        \/ \E r \in Readers : Assess(r)
        \/ \E p \in Procs : Killed(p)

Spec == Init /\ [][Next]_vars

-----------------------------------------------------------------------------
(* Correctness *)

\* No ingest overlapped another one, and none was cut short.
Peaceful == Ingesters \cap disturbed = {} /\ ~damaged

\* Ingest is idempotent (kb.py:84-86) for ingests that follow each other: when
\* none is under way, the store has one document for each entry of the controls file
\* of the last one, whatever was there before and whatever the readers did in between.
IngestIsIdempotent ==
    Peaceful /\ (\A p \in Ingesters : pc[p] \in {"start", "done"}) =>
        IF linked = None THEN last = Nothing ELSE content[linked] = last

\* An assessment that no ingest overlaps finds the knowledge base if there ever was
\* an ingest, and selects TopK entries of the last one (or all, if there are fewer),
\* less those the rubric lacks: none more often than the controls file lists it.
PeacefulRead ==
    [][ \A r \in Readers : Peaceful =>
          /\ pc[r] = "start" /\ pc'[r] = "missing" =>
                last = Nothing \/ \E p \in Ingesters : Active(p)
          /\ pc[r] = "search" /\ pc'[r] = "selected" /\ r \notin disturbed =>
                /\ \A id \in ControlIds : selected'[r][id] <= Of(last, Rubric)[id]
                /\ Size(selected'[r]) <= TopK
                /\ Size(selected'[r]) + Size(Of(last, ControlIds \ Rubric))
                      >= FE!Min({TopK, Size(last)}) ]_vars

\* A control is selected, and so assessed in one report, more often than every controls
\* file lists it only when two ingests overlapped: killed and failed ingests are
\* repaired by the next one. (One that a controls file lists twice may be selected
\* twice: nothing in kb.py or retriever.py looks for duplicates.)
DuplicatesNeedOverlap ==
    Ingesters \cap disturbed = {} =>
        \A r \in Readers : \A id \in ControlIds :
            selected[r][id] > 0 =>
                \E p \in Ingesters : selected[r][id] <= docs[p][id]

=============================================================================
