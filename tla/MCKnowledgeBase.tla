----------------------------- MODULE MCKnowledgeBase -----------------------------
(***************************************************************************)
(* Three ingests and an assessment on one store. One controls file is the  *)
(* rubric, the other lists one of its controls twice and has a control     *)
(* that the rubric lacks.                                                  *)
(***************************************************************************)
EXTENDS KnowledgeBase

CONSTANTS sc7, ac6, x1

MCIds     == {sc7, ac6, x1}
MCRubric  == {sc7, ac6}

File(s, a, x) == [id \in MCIds |-> CASE id = sc7 -> s [] id = ac6 -> a [] id = x1 -> x]
MCRubrics == {File(1, 1, 0), File(0, 2, 1)}

=============================================================================
