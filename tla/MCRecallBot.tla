---------------------------- MODULE MCRecallBot -----------------------------
(* One or two concurrent deliveries of the events of a single bot.         *)
EXTENDS RecallBot, TLC

CONSTANTS h1, h2

OneHandler  == {h1}
TwoHandlers == {h1, h2}
AllOutcomes == {"stored", "absent", "raises"}
Stored      == {"stored"}
Symmetry    == Permutations(Handlers)
=============================================================================
