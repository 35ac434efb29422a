----------------------------- MODULE FeedbackJob ----------------------------
(***************************************************************************)
(* The analysis of one candidate round: callers in the backend trigger a   *)
(* job (FeedbackJobService), the transport dispatches it (jobs/invoker.py) *)
(* and the feedback worker reads the transcript, saves its results over    *)
(* those of earlier runs and reports the outcome (feedback-agent).         *)
(* A forced trigger (skip_prereq_check) first stores a newer transcript    *)
(* and takes the round whatever its status; the others compete for it.     *)
(* The model pipeline is the choice of the questions it finds answers for. *)
(***************************************************************************)
EXTENDS Naturals, FiniteSets

CONSTANTS
    Callers,          \* concurrent calls of trigger_feedback_processing
    Forced,           \* those with skip_prereq_check=True
    MaxCalls,         \* bound on the calls
    Questions,        \* the scorecard's questions
    Outputs,          \* the sets of questions a run may find answers for
    Serialised,       \* TRUE: worker container, FALSE: one Lambda per job
    Faults            \* which of the faults below occur

FaultKinds == {"undelivered",   \* a dispatch is refused or never arrives
               "raise",         \* a run raises, or finds no content
               "crash",         \* the backend or a worker dies
               "unchecked"}     \* a write of the worker is answered by an error

ASSUME JobAssumption ==
    /\ Forced \subseteq Callers
    /\ MaxCalls \in Nat \ {0}
    /\ Outputs \subseteq SUBSET Questions
    /\ Serialised \in BOOLEAN
    /\ Faults \subseteq FaultKinds

VARIABLES
    status,           \* candidate_rounds.processing_status
    transcript,       \* version of the stored transcript
    rating,           \* version the rating and the summary were made from
    answers,          \* candidate_feedback rows of source bot
    calls,            \* calls begun; a call's number names its job
    tpc, call,        \* the callers
    run, ver, out, todo, old     \* the worker's runs, by job

roundVars == <<status, transcript, rating, answers>>
callVars  == <<calls, tpc, call>>
runVars   == <<run, ver, out, todo, old>>
vars      == <<roundVars, callVars, runVars>>

Jobs   == 1..MaxCalls
Answer == [job : 0..MaxCalls, q : Questions]    \* job 0 ran before

\* A run occupying a worker.
Active(j) == run[j] \in {"begun", "analysed", "patched", "inserting",
                         "deleting", "saved", "failing"}
InFlight(j) == run[j] = "queued" \/ Active(j)
Quiet == /\ \A j \in Jobs : ~InFlight(j)
         /\ \A c \in Callers : tpc[c] = "idle"

\* The round was analysed once before, and a newer call may follow.
Init ==
    /\ status = "completed"
    /\ transcript = 0
    /\ rating = 0
    /\ answers = [job : {0}, q : Questions]
    /\ calls = 0
    /\ tpc = [c \in Callers |-> "idle"]
    /\ call = [c \in Callers |-> 0]
    /\ run = [j \in Jobs |-> "none"]
    /\ ver = [j \in Jobs |-> 0]
    /\ out = [j \in Jobs |-> {}]
    /\ todo = [j \in Jobs |-> {}]
    /\ old = [j \in Jobs |-> {}]

-----------------------------------------------------------------------------
(* trigger_feedback_processing.                                            *)

\* A forced caller stores the transcript it was called for; any other first
\* looks whether the round is free (can_process_feedback).
Begin(c) ==
    /\ tpc[c] = "idle"
    /\ calls < MaxCalls
    /\ \/ c \in Forced /\ transcript' = calls + 1
       \/ c \notin Forced /\ status # "processing" /\ UNCHANGED transcript
    /\ calls' = calls + 1
    /\ call' = [call EXCEPT ![c] = calls + 1]
    /\ tpc' = [tpc EXCEPT ![c] = "claim"]
    /\ UNCHANGED <<status, rating, answers, runVars>>

\* Mutant: the claim does not look at the status.
ClaimWinsAlways(c) == TRUE

\* claim_feedback_processing updates a round that is not processing; the
\* update of a forced call has no condition.
ClaimWins(c) == c \in Forced \/ status # "processing"

Claim(c) ==
    /\ tpc[c] = "claim"
    /\ IF ClaimWins(c)
       THEN status' = "processing" /\ tpc' = [tpc EXCEPT ![c] = "dispatch"]
       ELSE UNCHANGED status /\ tpc' = [tpc EXCEPT ![c] = "idle"]
    /\ UNCHANGED <<transcript, rating, answers, calls, call, runVars>>

\* invoke() returns once the job is handed over, not once it is done.
Dispatch(c) ==
    /\ tpc[c] = "dispatch"
    /\ run' = [run EXCEPT ![call[c]] = "queued"]
    /\ tpc' = [tpc EXCEPT ![c] = "idle"]
    /\ UNCHANGED <<roundVars, calls, call, ver, out, todo, old>>

\* The transport refuses with an exception; HTTP may also lose the job behind
\* the caller's back, since a POST that fails is only logged.
Undelivered(c) ==
    /\ "undelivered" \in Faults
    /\ tpc[c] = "dispatch"
    /\ \/ tpc' = [tpc EXCEPT ![c] = "refused"]
       \/ Serialised /\ tpc' = [tpc EXCEPT ![c] = "idle"]
    /\ UNCHANGED <<roundVars, calls, call, runVars>>

\* Mutant: a status the readers of the column do not know.
FailedStatusError == "error"
FailedStatus == "failed"

\* The exception handler writes failed over whatever the status is by now.
DispatchFailed(c) ==
    /\ tpc[c] = "refused"
    /\ status' = FailedStatus
    /\ tpc' = [tpc EXCEPT ![c] = "idle"]
    /\ UNCHANGED <<transcript, rating, answers, calls, call, runVars>>

BackendCrash ==
    /\ "crash" \in Faults
    /\ \E c \in Callers : tpc[c] # "idle"
    /\ tpc' = [c \in Callers |-> "idle"]
    /\ UNCHANGED <<roundVars, calls, call, runVars>>

-----------------------------------------------------------------------------
(* The worker: process_feedback and save_feedback_results.                 *)

\* Responses to PATCH, POST and DELETE are not checked: a write that is
\* answered by an error did not happen, and the run goes on.
Writes(new, current) ==
    {new} \cup {x \in {current} : "unchecked" \in Faults}

\* Mutant: the container serves requests concurrently.
WorkerFreeAlways == TRUE

\* The container runs one invocation at a time, Lambda any number.
WorkerFree == Serialised => \A k \in Jobs : ~Active(k)

StartRun(j) ==
    /\ run[j] = "queued"
    /\ WorkerFree
    /\ status' \in Writes("processing", status)
    /\ run' = [run EXCEPT ![j] = "begun"]
    /\ UNCHANGED <<transcript, rating, answers, callVars, ver, out, todo, old>>

\* The transcript is read and the pipeline runs on it.
Analyse(j) ==
    /\ run[j] = "begun"
    /\ ver' = [ver EXCEPT ![j] = transcript]
    /\ \E o \in Outputs : out' = [out EXCEPT ![j] = o]
    /\ run' = [run EXCEPT ![j] = "analysed"]
    /\ UNCHANGED <<roundVars, callVars, todo, old>>

PatchRound(j) ==
    /\ run[j] = "analysed"
    /\ rating' \in Writes(ver[j], rating)
    /\ run' = [run EXCEPT ![j] = "patched"]
    /\ UNCHANGED <<status, transcript, answers, callVars, ver, out, todo, old>>

\* The ids to delete at the end are those of the rows that exist now.
ListOld(j) ==
    /\ run[j] = "patched"
    /\ old' = [old EXCEPT ![j] = answers]
    /\ todo' = [todo EXCEPT ![j] = out[j]]
    /\ run' = [run EXCEPT ![j] = "inserting"]
    /\ UNCHANGED <<roundVars, callVars, ver, out>>

InsertOne(j) ==
    /\ run[j] = "inserting"
    /\ \E q \in todo[j] :
          /\ answers' \in Writes(answers \cup {[job |-> j, q |-> q]}, answers)
          /\ todo' = [todo EXCEPT ![j] = @ \ {q}]
    /\ UNCHANGED <<status, transcript, rating, callVars, run, ver, out, old>>

\* Mutant: the old rows are deleted before the new ones are in.
InsertsOverEarly(j) == TRUE

\* Deleting starts once every new row is in.
InsertsOver(j) == todo[j] = {}

StartDelete(j) ==
    /\ run[j] = "inserting"
    /\ InsertsOver(j)
    /\ run' = [run EXCEPT ![j] = "deleting"]
    /\ UNCHANGED <<roundVars, callVars, ver, out, todo, old>>

\* Mutant: only rows of the run just before are deleted.
ToDeleteLast(j) == {r \in old[j] : r.q \in out[j] /\ r.job + 1 = j}

\* Only questions with a new answer lose their old ones.
ToDelete(j) == {r \in old[j] : r.q \in out[j]}

DeleteOne(j) ==
    /\ run[j] = "deleting"
    /\ \E r \in ToDelete(j) :
          /\ answers' \in Writes(answers \ {r}, answers)
          /\ old' = [old EXCEPT ![j] = @ \ {r}]
    /\ UNCHANGED <<status, transcript, rating, callVars, run, ver, out, todo>>

EndDelete(j) ==
    /\ run[j] = "deleting"
    /\ ToDelete(j) = {}
    /\ run' = [run EXCEPT ![j] = "saved"]
    /\ UNCHANGED <<roundVars, callVars, ver, out, todo, old>>

\* update_processing_status(completed), then the callback for e-mails.
ReportCompleted(j) ==
    /\ run[j] = "saved"
    /\ status' \in Writes("completed", status)
    /\ run' = [run EXCEPT ![j] = "ended"]
    /\ UNCHANGED <<transcript, rating, answers, callVars, ver, out, todo, old>>

\* Mutant: the exception ends the run without a report.
AfterRaiseNothing == "ended"
AfterRaise == "failing"

\* Any step of the run before the report may raise.
Raise(j) ==
    /\ "raise" \in Faults
    /\ Active(j) /\ run[j] # "failing"
    /\ run' = [run EXCEPT ![j] = AfterRaise]
    /\ UNCHANGED <<roundVars, callVars, ver, out, todo, old>>

\* A report that raises itself is one that is not written.
ReportFailed(j) ==
    /\ run[j] = "failing"
    /\ status' \in Writes(FailedStatus, status)
    /\ run' = [run EXCEPT ![j] = "ended"]
    /\ UNCHANGED <<transcript, rating, answers, callVars, ver, out, todo, old>>

\* The container dies with every request it holds, a Lambda alone.
WorkerCrash ==
    /\ "crash" \in Faults
    /\ \E dead \in SUBSET {j \in Jobs : InFlight(j)} :
          /\ dead # {}
          /\ Serialised => dead = {j \in Jobs : InFlight(j)}
          /\ run' = [j \in Jobs |-> IF j \in dead THEN "ended" ELSE run[j]]
    /\ UNCHANGED <<roundVars, callVars, ver, out, todo, old>>

-----------------------------------------------------------------------------
CallerStep(c) == Claim(c) \/ Dispatch(c) \/ DispatchFailed(c)

RunStep(j) ==
    \/ StartRun(j) \/ Analyse(j) \/ PatchRound(j) \/ ListOld(j)
    \/ InsertOne(j) \/ StartDelete(j) \/ DeleteOne(j) \/ EndDelete(j)
    \/ ReportCompleted(j) \/ ReportFailed(j)

Next ==
    \/ \E c \in Callers : Begin(c) \/ CallerStep(c) \/ Undelivered(c)
    \/ \E j \in Jobs : RunStep(j) \/ Raise(j)
    \/ BackendCrash
    \/ WorkerCrash

Spec == Init /\ [][Next]_vars

\* A call under way goes on and so does a run; nobody has to trigger one.
Fairness ==
    /\ \A c \in Callers : WF_vars(CallerStep(c))
    /\ \A j \in Jobs : WF_vars(RunStep(j))

FairSpec == Spec /\ Fairness

-----------------------------------------------------------------------------
(* Properties.                                                             *)

TypeOK ==
    /\ status \in {"processing", "completed", "failed"}
    /\ transcript \in 0..MaxCalls
    /\ rating \in 0..MaxCalls
    /\ answers \subseteq Answer
    /\ calls \in 0..MaxCalls
    /\ tpc \in [Callers -> {"idle", "claim", "dispatch", "refused"}]
    /\ call \in [Callers -> 0..MaxCalls]
    /\ run \in [Jobs -> {"none", "queued", "begun", "analysed", "patched",
                         "inserting", "deleting", "saved", "failing", "ended"}]
    /\ ver \in [Jobs -> 0..MaxCalls]
    /\ out \in [Jobs -> SUBSET Questions]
    /\ todo \in [Jobs -> SUBSET Questions]
    /\ old \in [Jobs -> SUBSET Answer]

\* Until a forced call is made (it stores a transcript) a round is worked on by
\* one job at a time, whatever dispatches fail and whichever processes die: "two
\* triggers for the same round never double-invoke" (trigger_feedback_processing).
OneRunAtATime ==
    transcript = 0 => \A j, k \in Jobs : InFlight(j) /\ InFlight(k) => j = k

Answered(q) == \E r \in answers : r.q = q

\* A question that had an answer always has one: the new rows go in before
\* the old ones are deleted, and overlapping runs never delete each other's
\* newest row (save_feedback_results).
AnswersNotLost == [][\A q \in Questions : Answered(q) => Answered(q)']_vars

\* Redundant runs converge: when all work has ended with success, no question
\* has the answers of two runs (the force path, trigger_feedback_processing).
AnswersConverge ==
    Quiet /\ status = "completed"
        => \A r, s \in answers : r.q = s.q => r = s

\* A forced trigger overrides: when all work has ended with success, the
\* rating was made from the newest transcript.
FreshTranscriptWins ==
    Quiet /\ status = "completed" => rating = transcript

\* A round taken for processing is reported back, unless its job was lost.
EveryRunReported == status = "processing" ~> status # "processing"
=============================================================================
