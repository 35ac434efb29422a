--------------------------- MODULE MCFeedbackJob ----------------------------
(* Up to two callers and three calls for one round of one or two questions. *)
EXTENDS FeedbackJob, TLC

CONSTANTS c1, c2, q1, q2

TwoCallers   == {c1, c2}
OneForced    == {c1}
NoneForced   == {}
OneQuestion  == {q1}
TwoQuestions == {q1, q2}
Complete     == {Questions}
Partial      == SUBSET Questions
NoFaults     == {}
RaisesOnly   == {"raise"}
Losses       == {"undelivered", "raise", "crash"}
AllFaults    == FaultKinds
Symmetry     == Permutations(Callers)
=============================================================================
