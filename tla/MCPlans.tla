------------------------------ MODULE MCPlans -------------------------------
(* Small plans for the plan editor and for publishing.                     *)
EXTENDS PlanPublish

\* A round with texts that are not empty; question i asks for i.
PlanRound(id, num, questions, guides) ==
    [id |-> id, num |-> num, name |-> 1, dur |-> 1, guides |-> guides,
     questions |-> [j \in 1..questions |-> [id |-> j, text |-> j]],
     screening |-> NoScreening]

Broad   == <<PlanRound("a1", 1, 2, <<1, 2>>), PlanRound("a2", 2, 1, <<>>)>>
Narrow  == <<PlanRound("b1", 1, 1, <<>>)>>
OnePlan  == {Narrow}
TwoPlans == {Broad, Narrow}
=============================================================================
