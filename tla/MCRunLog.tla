-------------------------------- MODULE MCRunLog --------------------------------
(***************************************************************************)
(* The run log around runs of one control with two scanners, and of two    *)
(* controls without scanners under a recursion limit that is too small for *)
(* some of them.                                                           *)
(***************************************************************************)
EXTENDS RunLog, MCComplianceGraph

MCLoggedLists == {<<>>, <<SI2>>, <<PL1, PL1>>}

=============================================================================
