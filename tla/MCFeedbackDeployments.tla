----------------------- MODULE MCFeedbackDeployments ------------------------
(* One round under the deployment and with the calls chosen at the start:  *)
(* "container", one worker that takes jobs in turn (the constants of the   *)
(* cfg), "lambda", where every job runs by itself and runs overlap, and    *)
(* "unforced", where no call is forced and everything fails.               *)
EXTENDS FeedbackJob

CONSTANTS c1, c2, q1, q2
VARIABLE deployment

TwoCallers   == {c1, c2}
OneForced    == {c1}
TwoQuestions == {q1, q2}
Complete     == {Questions}
RaisesOnly   == {"raise"}

Lambda == INSTANCE FeedbackJob WITH
    Forced <- {c1, c2}, Questions <- {q1}, Outputs <- {{q1}},
    Serialised <- FALSE

\* The runs find no answers: what they write is not what this is about.
Unforced == INSTANCE FeedbackJob WITH
    Forced <- {}, Outputs <- {{}}, Serialised <- FALSE, Faults <- FaultKinds

allVars == <<vars, deployment>>

DeployedInit ==
    \/ deployment = "container" /\ Init
    \/ deployment = "lambda" /\ Lambda!Init
    \/ deployment = "unforced" /\ Unforced!Init

\* The two forced callers are alike: the first idle one begins.
LambdaNext ==
    \/ \E c \in Callers :
          \/ (c = c1 \/ tpc[c1] # "idle") /\ Lambda!Begin(c)
          \/ Lambda!CallerStep(c)
    \/ \E j \in Jobs : Lambda!RunStep(j) \/ Lambda!Raise(j)

DeployedNext ==
    /\ \/ deployment = "container" /\ Next
       \/ deployment = "lambda" /\ LambdaNext
       \/ deployment = "unforced" /\ Unforced!Next
    /\ UNCHANGED deployment

\* A call under way goes on and so does a run of the container; nobody has to
\* trigger one (Fairness of FeedbackJob).
DeployedSpec ==
    /\ DeployedInit
    /\ [][DeployedNext]_allVars
    /\ \A c \in Callers : WF_allVars(/\ deployment = "container"
                                     /\ UNCHANGED deployment /\ CallerStep(c))
    /\ \A j \in Jobs : WF_allVars(/\ deployment = "container"
                                  /\ UNCHANGED deployment /\ RunStep(j))

\* One worker that takes jobs in turn leaves, when all work has ended with
\* success, one set of answers and the rating of the newest transcript
\* (AnswersConverge, FreshTranscriptWins).
ContainerSettles == deployment = "container" => AnswersConverge /\ FreshTranscriptWins

\* A round taken for processing by the container is reported back
\* (EveryRunReported).
ContainerReports ==
    deployment = "container" /\ status = "processing" ~> status # "processing"
=============================================================================
