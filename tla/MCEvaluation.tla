------------------------------ MODULE MCEvaluation ------------------------------
(***************************************************************************)
(* The evaluation of small golden sets: two fixtures that share a control, *)
(* with a candidate nobody has reviewed; two contradicting cases of one    *)
(* control, next to a case of its own; candidates only; no case at all.    *)
(***************************************************************************)
EXTENDS Evaluation

CONSTANTS app, infra, ac6, si2

Case(id, fixture, control, expected, verified) ==
    [id |-> id, repo_fixture |-> fixture, control_id |-> control,
     expected_verdict |-> expected, human_verified |-> verified]

MCGoldenSets ==
    { <<Case(1, app, ac6, "gap", TRUE), Case(2, infra, ac6, "satisfied", TRUE),
        Case(3, app, si2, "gap", FALSE), Case(4, app, si2, "partial", TRUE)>>,
      <<Case(1, app, ac6, "gap", TRUE), Case(2, app, ac6, "partial", TRUE),
        Case(3, infra, si2, "gap", TRUE), Case(3, infra, si2, "gap", TRUE)>>,
      <<Case(1, app, ac6, "gap", FALSE)>>,
      <<>> }

\* 0, 0.7 and 1; and two close to 1/3 and 5/9, scores the first golden set can have: a
\* report shows 0.3333 for the one, which is less than 33598 / 100800, and 0.5556 for the
\* other, which is more than 56004 / 100800.
MCThresholds == {0, 33598, 56004, 70560, 100800}

=============================================================================
