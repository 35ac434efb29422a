------------------------- MODULE FeedbackJobProofs --------------------------
(***************************************************************************)
(* Proofs about FeedbackJob for any callers, questions, number of calls    *)
(* and transport: unforced triggers let one job at a time work on a round, *)
(* and overlapping runs never leave a question without an answer.  Where   *)
(* the transport runs jobs in turn, what is left in the end is one set of  *)
(* answers and the rating of the newest transcript.                        *)
(***************************************************************************)
EXTENDS MCFeedbackDeployments, TLAPS

USE JobAssumption DEF JobAssumption

\* A job is named by one call; the call under way has not dispatched it yet.
CallsOnce ==
    /\ \A c \in Callers : tpc[c] # "idle" => /\ call[c] \in 1..calls
                                             /\ run[call[c]] = "none"
    /\ \A c, d \in Callers : tpc[c] # "idle" /\ tpc[d] # "idle" /\ c # d
                                => call[c] # call[d]
    /\ \A j \in Jobs : j > calls => run[j] = "none"

Early == {"none", "queued", "begun", "analysed", "patched"}

Listed(r) == r \in answers \/ \E k \in Jobs : r \in old[k]

\* A job's row exists, or was listed by another, only once the job is past it.
Fresh ==
    \A j \in Jobs, q \in Questions :
        Listed([job |-> j, q |-> q]) => run[j] \notin Early /\ q \notin todo[j]

\* Run k deletes, now or later, the rows of q that it has listed.
Deletes(k, q) == /\ q \in out[k]
                 /\ \/ run[k] = "deleting"
                    \/ run[k] = "inserting" /\ q \notin todo[k]

Safe(r) == \A k \in Jobs : Deletes(k, r.q) => r \notin old[k]

\* Every answered question has a row that nobody is set to delete.
Kept == \A q \in Questions :
            Answered(q) => \E r \in answers : r.q = q /\ Safe(r)

BaseInv   == TypeOK /\ CallsOnce
AnswerInv == BaseInv /\ Fresh /\ Kept

\* A caller that has claimed the round and not handed its job over.
Busy(c) == tpc[c] \in {"dispatch", "refused"}

\* Without force the round has one keeper, a caller or a job, while processing.
OneKeeper ==
    /\ \A c \in Callers : Busy(c) => status = "processing"
    /\ \A j \in Jobs : InFlight(j) => status = "processing"
    /\ \A c, d \in Callers : Busy(c) /\ Busy(d) => c = d
    /\ \A j, k \in Jobs : InFlight(j) /\ InFlight(k) => j = k
    /\ \A c \in Callers, j \in Jobs : ~(Busy(c) /\ InFlight(j))

\* No forced call was made yet.
ForcedIdle == \A c \in Forced : tpc[c] = "idle"

KeeperInv == BaseInv /\ (transcript = 0 => OneKeeper /\ ForcedIdle)

-----------------------------------------------------------------------------
(* Types and the identity of jobs.                                         *)

LEMMA InitBase == Init => BaseInv
  <1> SUFFICES ASSUME Init PROVE BaseInv
    OBVIOUS
  <1>1. answers \subseteq Answer
    BY DEF Init, Answer
  <1>2. TypeOK
    BY <1>1 DEF Init, TypeOK
  <1>3. CallsOnce
    BY DEF Init, CallsOnce
  <1> QED BY <1>2, <1>3 DEF BaseInv

\* A step of a run concerns a job already handed over and no caller.
RunOnly(j) ==
    /\ run[j] # "none"
    /\ \E p \in {"begun", "analysed", "patched", "inserting", "deleting",
                 "saved", "failing", "ended"} : run' = [run EXCEPT ![j] = p]
    /\ UNCHANGED <<calls, tpc, call>>

LEMMA RunOnlyCalls ==
  ASSUME BaseInv, NEW j \in Jobs,
         RunOnly(j) \/ (run' = run /\ UNCHANGED <<calls, tpc, call>>)
  PROVE  CallsOnce'
  BY DEF BaseInv, TypeOK, CallsOnce, RunOnly, Jobs

\* Every step of a run keeps the types.
LEMMA RunStepBase ==
  ASSUME BaseInv, NEW j \in Jobs, RunStep(j) \/ Raise(j)
  PROVE  BaseInv'
  <1> USE DEF BaseInv, TypeOK, roundVars, callVars, RunOnly
  <1>1. CASE StartRun(j)
    BY <1>1, RunOnlyCalls DEF StartRun, Writes
  <1>2. CASE Analyse(j)
    <2>1. CallsOnce'
      BY <1>2, RunOnlyCalls DEF Analyse
    <2>2. /\ ver' = [ver EXCEPT ![j] = transcript] /\ run' = [run EXCEPT ![j] = "analysed"]
          /\ UNCHANGED <<roundVars, callVars, todo, old>>
      BY <1>2 DEF Analyse
    <2>3. PICK o \in Outputs : out' = [out EXCEPT ![j] = o]
      BY <1>2 DEF Analyse
    <2> QED BY <2>1, <2>2, <2>3
  <1>3. CASE PatchRound(j)
    BY <1>3, RunOnlyCalls DEF PatchRound, Writes
  <1>4. CASE ListOld(j)
    BY <1>4, RunOnlyCalls DEF ListOld
  <1>5. CASE InsertOne(j)
    <2>1. answers' \subseteq Answer
      BY <1>5 DEF InsertOne, Writes, Answer, Jobs
    <2> QED BY <1>5, <2>1, RunOnlyCalls DEF InsertOne
  <1>6. CASE StartDelete(j)
    BY <1>6, RunOnlyCalls DEF StartDelete
  <1>7. CASE DeleteOne(j)
    <2>1. answers' \subseteq Answer
      BY <1>7 DEF DeleteOne, Writes
    <2> QED BY <1>7, <2>1, RunOnlyCalls DEF DeleteOne
  <1>8. CASE EndDelete(j)
    BY <1>8, RunOnlyCalls DEF EndDelete
  <1>9. CASE ReportCompleted(j)
    BY <1>9, RunOnlyCalls DEF ReportCompleted, Writes
  <1>10. CASE ReportFailed(j)
    BY <1>10, RunOnlyCalls DEF ReportFailed, Writes, FailedStatus
  <1>11. CASE Raise(j)
    BY <1>11, RunOnlyCalls DEF Raise, AfterRaise, Active
  <1> QED
    BY <1>1, <1>2, <1>3, <1>4, <1>5, <1>6, <1>7, <1>8, <1>9, <1>10, <1>11
       DEF RunStep

\* Every step of a caller keeps the types.
LEMMA CallStepBase ==
  ASSUME BaseInv, NEW c \in Callers,
         Begin(c) \/ CallerStep(c) \/ Undelivered(c)
  PROVE  BaseInv'
  <1> USE DEF BaseInv, TypeOK, CallsOnce, Jobs, roundVars, callVars, runVars
  <1>1. CASE Begin(c)
    <2>1. /\ calls' = calls + 1 /\ calls < MaxCalls
          /\ call' = [call EXCEPT ![c] = calls + 1]
          /\ tpc' = [tpc EXCEPT ![c] = "claim"]
          /\ transcript' \in {transcript, calls + 1}
          /\ UNCHANGED <<status, rating, answers, run, ver, out, todo, old>>
      BY <1>1 DEF Begin
    <2>2. TypeOK'
      BY <2>1
    <2>3. CallsOnce'
      BY <2>1
    <2> QED BY <2>2, <2>3
  <1>2. CASE Claim(c)
    <2>1. /\ tpc[c] # "idle"
          /\ \E p \in {"dispatch", "idle"} : tpc' = [tpc EXCEPT ![c] = p]
          /\ status' \in {status, "processing"}
          /\ UNCHANGED <<transcript, rating, answers, calls, call, run, ver, out,
                         todo, old>>
      BY <1>2 DEF Claim
    <2>2. TypeOK'
      BY <2>1
    <2>3. CallsOnce'
      BY <2>1
    <2> QED BY <2>2, <2>3
  <1>3. CASE Dispatch(c)
    <2>1. /\ tpc[c] = "dispatch" /\ call[c] \in 1..calls
          /\ run' = [run EXCEPT ![call[c]] = "queued"]
          /\ tpc' = [tpc EXCEPT ![c] = "idle"]
          /\ UNCHANGED <<status, transcript, rating, answers, calls, call, ver,
                         out, todo, old>>
      BY <1>3 DEF Dispatch
    <2>2. TypeOK'
      BY <2>1
    <2>3. CallsOnce'
      BY <2>1
    <2> QED BY <2>2, <2>3
  <1>4. CASE Undelivered(c)
    <2>1. /\ tpc[c] # "idle"
          /\ \E p \in {"refused", "idle"} : tpc' = [tpc EXCEPT ![c] = p]
          /\ UNCHANGED <<status, transcript, rating, answers, calls, call, run,
                         ver, out, todo, old>>
      BY <1>4 DEF Undelivered
    <2>2. TypeOK'
      BY <2>1
    <2>3. CallsOnce'
      BY <2>1
    <2> QED BY <2>2, <2>3
  <1>5. CASE DispatchFailed(c)
    BY <1>5 DEF DispatchFailed, FailedStatus
  <1> QED
    BY <1>1, <1>2, <1>3, <1>4, <1>5 DEF CallerStep

LEMMA StutterBase ==
  ASSUME BaseInv, UNCHANGED vars
  PROVE  BaseInv'
  BY DEF BaseInv, TypeOK, CallsOnce, vars, roundVars, callVars, runVars

LEMMA NextBase ==
  ASSUME BaseInv, [Next]_vars
  PROVE  BaseInv'
  <1>1. CASE BackendCrash \/ WorkerCrash
    <2> USE DEF BaseInv, TypeOK, CallsOnce, Jobs, roundVars, callVars, runVars
    <2>1. CASE BackendCrash
      BY <2>1 DEF BackendCrash
    <2>2. CASE WorkerCrash
      <3>1. /\ \A j \in Jobs : \/ run'[j] = run[j]
                               \/ run[j] # "none" /\ run'[j] = "ended"
            /\ run' \in [Jobs -> {"none", "queued", "begun", "analysed", "patched",
                                  "inserting", "deleting", "saved", "failing", "ended"}]
        <4>1. PICK dead \in SUBSET {j \in Jobs : InFlight(j)} :
                 run' = [j \in Jobs |-> IF j \in dead THEN "ended" ELSE run[j]]
          BY <2>2 DEF WorkerCrash
        <4>2. \A j \in dead : run[j] # "none"
          BY DEF InFlight, Active
        <4> QED BY <4>1, <4>2
      <3>2. UNCHANGED <<status, transcript, rating, answers, calls, tpc, call, ver,
                        out, todo, old>>
        BY <2>2 DEF WorkerCrash
      <3>3. TypeOK'
        BY <3>1, <3>2
      <3>4. CallsOnce'
        BY <3>1, <3>2
      <3> QED BY <3>3, <3>4
    <2> QED BY <1>1, <2>1, <2>2
  <1> QED
    BY <1>1, RunStepBase, CallStepBase, StutterBase DEF Next

\* Every variable stays within its type: no status the readers of the column
\* do not know is ever written, and only jobs that were called leave rows.
THEOREM TypeCorrect == Spec => []TypeOK
  <1>1. Init => BaseInv
    BY InitBase
  <1>2. BaseInv /\ [Next]_vars => BaseInv'
    BY NextBase
  <1>3. BaseInv => TypeOK
    BY DEF BaseInv
  <1> QED
    BY <1>1, <1>2, <1>3, PTL DEF Spec

-----------------------------------------------------------------------------
(* One job at a time.                                                      *)

\* While the round is kept as long as somebody keeps it, fewer keepers of the
\* same kind are no harm.
LEMMA FewerKeepers ==
  ASSUME OneKeeper,
         \A c \in Callers : Busy(c)' => Busy(c),
         \A j \in Jobs : InFlight(j)' => InFlight(j),
         \/ status' \in {status, "processing"}
         \/ /\ \A c \in Callers : ~Busy(c)'
            /\ \A j \in Jobs : ~InFlight(j)'
  PROVE  OneKeeper'
  BY DEF OneKeeper

\* A step of the keeping run keeps the round, or ends with the run.
LEMMA KeeperRuns ==
  ASSUME BaseInv, OneKeeper, NEW j \in Jobs, RunStep(j) \/ Raise(j)
  PROVE  OneKeeper'
  <1> USE DEF BaseInv, roundVars, callVars
  <1>1. InFlight(j) /\ tpc' = tpc
    BY DEF RunStep, StartRun, Analyse, PatchRound, ListOld, InsertOne, StartDelete,
           DeleteOne, EndDelete, ReportCompleted, ReportFailed, Raise, InFlight, Active
  <1>2. \A c \in Callers : Busy(c)' => Busy(c)
    BY <1>1 DEF Busy
  <1>3. \E p : run' = [run EXCEPT ![j] = p] \/ run' = run
    BY DEF RunStep, StartRun, Analyse, PatchRound, ListOld, InsertOne, StartDelete,
           DeleteOne, EndDelete, ReportCompleted, ReportFailed, Raise
  <1>4. \A k \in Jobs : InFlight(k)' => InFlight(k)
    BY <1>1, <1>3 DEF InFlight, Active, TypeOK
  <1>5. CASE ReportCompleted(j) \/ ReportFailed(j)
    <2>1. run' = [run EXCEPT ![j] = "ended"]
      BY <1>5 DEF ReportCompleted, ReportFailed
    <2>2. ~InFlight(j)'
      BY <2>1 DEF InFlight, Active, TypeOK
    <2>3. /\ \A c \in Callers : ~Busy(c)'
          /\ \A k \in Jobs : ~InFlight(k)'
      BY <1>1, <1>2, <1>4, <2>2 DEF OneKeeper
    <2> QED BY <1>2, <1>4, <2>3, FewerKeepers
  <1>6. CASE ~(ReportCompleted(j) \/ ReportFailed(j))
    <2>1. status' \in {status, "processing"}
      BY <1>6 DEF RunStep, StartRun, Analyse, PatchRound, ListOld, InsertOne,
             StartDelete, DeleteOne, EndDelete, Raise, Writes
    <2> QED BY <1>2, <1>4, <2>1, FewerKeepers
  <1> QED BY <1>5, <1>6

\* Without force a caller takes over a round only when nobody keeps it.
LEMMA KeeperCalls ==
  ASSUME BaseInv, OneKeeper, ForcedIdle, NEW c \in Callers,
         Begin(c) \/ CallerStep(c) \/ Undelivered(c)
  PROVE  OneKeeper'
  <1> USE DEF BaseInv, roundVars, callVars, runVars
  <1>1. CASE Begin(c)
    <2>1. /\ \A d \in Callers : Busy(d)' => Busy(d)
          /\ \A j \in Jobs : InFlight(j)' => InFlight(j)
          /\ status' = status
      BY <1>1 DEF Begin, Busy, InFlight, Active, TypeOK
    <2> QED BY <2>1, FewerKeepers
  <1>2. CASE Claim(c)
    <2>1. CASE status # "processing"
      <3>1. /\ \A d \in Callers : Busy(d)' => d = c
            /\ \A j \in Jobs : ~InFlight(j)'
            /\ status' = "processing"
        BY <1>2, <2>1 DEF Claim, ClaimWins, Busy, InFlight, Active, OneKeeper, TypeOK
      <3> QED BY <3>1 DEF OneKeeper
    <2>2. CASE status = "processing"
      <3>1. /\ \A d \in Callers : Busy(d)' => Busy(d)
            /\ \A j \in Jobs : InFlight(j)' => InFlight(j)
            /\ status' = status
        BY <1>2, <2>2 DEF ForcedIdle, Claim, ClaimWins, Busy, InFlight, Active, TypeOK
      <3> QED BY <3>1, FewerKeepers
    <2> QED BY <2>1, <2>2
  <1>3. CASE Dispatch(c)
    <2>1. Busy(c) /\ tpc' = [tpc EXCEPT ![c] = "idle"] /\ status' = status
      BY <1>3 DEF Dispatch, Busy
    <2>2. \A d \in Callers : ~Busy(d)'
      BY <2>1 DEF Busy, OneKeeper, TypeOK
    <2>3. \A j \in Jobs : InFlight(j)' => j = call[c]
      BY <1>3, <2>1 DEF Dispatch, InFlight, Active, OneKeeper, TypeOK
    <2>4. status' = "processing"
      BY <2>1 DEF OneKeeper
    <2> QED BY <2>2, <2>3, <2>4 DEF OneKeeper
  <1>4. CASE Undelivered(c)
    <2>1. /\ \A d \in Callers : Busy(d)' => Busy(d)
          /\ \A j \in Jobs : InFlight(j)' => InFlight(j)
          /\ status' = status
      BY <1>4 DEF Undelivered, Busy, InFlight, Active, TypeOK
    <2> QED BY <2>1, FewerKeepers
  <1>5. CASE DispatchFailed(c)
    <2>1. Busy(c) /\ tpc' = [tpc EXCEPT ![c] = "idle"] /\ run' = run
      BY <1>5 DEF DispatchFailed, Busy
    <2>2. /\ \A d \in Callers : ~Busy(d)'
          /\ \A j \in Jobs : ~InFlight(j)'
      BY <2>1 DEF Busy, InFlight, Active, OneKeeper, TypeOK
    <2> QED BY <2>2, FewerKeepers
  <1> QED
    BY <1>1, <1>2, <1>3, <1>4, <1>5 DEF CallerStep

\* A forced call stores a transcript.
LEMMA StillUnforced ==
  ASSUME BaseInv, ForcedIdle, [Next]_vars, transcript' = 0
  PROVE  ForcedIdle'
  <1> USE DEF roundVars, callVars, runVars
  <1>1. ASSUME NEW c \in Callers, Begin(c)
        PROVE  ForcedIdle'
    <2>1. calls \in Nat
      BY JobAssumption DEF BaseInv, TypeOK
    <2>2. c \notin Forced /\ transcript' = transcript
      BY <1>1, <2>1 DEF Begin
    <2> QED BY <1>1, <2>2, JobAssumption DEF Begin, ForcedIdle, BaseInv, TypeOK
  <1>2. ASSUME NEW c \in Callers, CallerStep(c) \/ Undelivered(c)
        PROVE  ForcedIdle'
    <2>1. c \notin Forced /\ transcript' = transcript
      BY <1>2 DEF CallerStep, Claim, Dispatch, DispatchFailed, Undelivered, ForcedIdle
    <2>2. \E st : tpc' = [tpc EXCEPT ![c] = st]
      BY <1>2 DEF CallerStep, Claim, Dispatch, DispatchFailed, Undelivered
    <2> QED BY <2>1, <2>2, JobAssumption DEF ForcedIdle, BaseInv, TypeOK
  <1>3. ASSUME NEW j \in Jobs, RunStep(j) \/ Raise(j)
        PROVE  ForcedIdle'
    BY <1>3 DEF RunStep, StartRun, Analyse, PatchRound, ListOld, InsertOne, StartDelete,
           DeleteOne, EndDelete, ReportCompleted, ReportFailed, Raise, ForcedIdle
  <1>4. CASE BackendCrash \/ WorkerCrash \/ UNCHANGED vars
    BY <1>4, JobAssumption DEF BackendCrash, WorkerCrash, vars, ForcedIdle
  <1> QED
    BY <1>1, <1>2, <1>3, <1>4 DEF Next

\* A transcript that is not there was not there before.
LEMMA TranscriptStays ==
  ASSUME BaseInv, [Next]_vars, transcript' = 0
  PROVE  transcript = 0
  <1>1. calls \in Nat
    BY JobAssumption DEF BaseInv, TypeOK
  <1> QED
    BY <1>1 DEF Next, vars, roundVars, callVars, runVars, Begin, CallerStep, Claim,
       Dispatch, DispatchFailed, Undelivered, BackendCrash, WorkerCrash, RunStep,
       StartRun, Analyse, PatchRound, ListOld, InsertOne, StartDelete, DeleteOne,
       EndDelete, ReportCompleted, ReportFailed, Raise

LEMMA KeeperNext ==
  ASSUME KeeperInv, [Next]_vars
  PROVE  KeeperInv'
  <1>1. BaseInv'
    BY NextBase DEF KeeperInv
  <1> SUFFICES ASSUME transcript' = 0
               PROVE  OneKeeper' /\ ForcedIdle'
    BY <1>1 DEF KeeperInv
  <1>2. BaseInv /\ OneKeeper /\ ForcedIdle
    BY TranscriptStays DEF KeeperInv
  <1>3. ForcedIdle'
    BY <1>2, StillUnforced
  <1>4. CASE BackendCrash
    <2>1. /\ \A d \in Callers : Busy(d)' => Busy(d)
          /\ \A j \in Jobs : InFlight(j)' => InFlight(j)
          /\ status' = status
      BY <1>4 DEF BackendCrash, roundVars, runVars, Busy, InFlight, Active
    <2> QED BY <1>2, <1>3, <2>1, FewerKeepers
  <1>5. CASE WorkerCrash
    <2>1. /\ \A d \in Callers : Busy(d)' => Busy(d)
          /\ \A j \in Jobs : InFlight(j)' => InFlight(j)
          /\ status' = status
      BY <1>5 DEF WorkerCrash, roundVars, callVars, Busy, InFlight, Active
    <2> QED BY <1>2, <1>3, <2>1, FewerKeepers
  <1>6. CASE UNCHANGED vars
    BY <1>2, <1>3, <1>6 DEF vars, roundVars, callVars, runVars, OneKeeper, Busy,
                            InFlight, Active
  <1> QED
    BY <1>2, <1>3, <1>4, <1>5, <1>6, KeeperRuns, KeeperCalls DEF Next

\* Triggers without force never let two jobs work on one round, whatever
\* dispatches are lost, writes fail and processes die: claim_feedback_processing
\* keeps the round with one caller, then with the job it dispatched.
THEOREM ClaimSerialises == Spec => []OneRunAtATime
  <1>1. Init => KeeperInv
    BY InitBase, JobAssumption
       DEF Init, KeeperInv, OneKeeper, ForcedIdle, Busy, InFlight, Active
  <1>2. KeeperInv /\ [Next]_vars => KeeperInv'
    BY KeeperNext
  <1>3. KeeperInv => OneRunAtATime
    BY DEF KeeperInv, OneKeeper, OneRunAtATime
  <1> QED
    BY <1>1, <1>2, <1>3, PTL DEF Spec

-----------------------------------------------------------------------------
(* No answer is lost, while the writes of the worker are carried out.      *)

LEMMA InitAnswers == Init => Fresh /\ Kept
  <1> SUFFICES ASSUME Init PROVE Fresh /\ Kept
    OBVIOUS
  <1>1. \A j \in Jobs, q \in Questions : ~Listed([job |-> j, q |-> q])
    BY DEF Init, Listed, Jobs
  <1>2. \A r : Safe(r)
    BY DEF Init, Safe, Deletes
  <1> QED BY <1>1, <1>2 DEF Fresh, Kept, Answered

\* Steps that touch no row and set no run on to deleting a question.
LEMMA NoRowTouched ==
  ASSUME Fresh, Kept, UNCHANGED <<answers, todo, old>>,
         \A k \in Jobs : run[k] \notin Early => run'[k] \notin Early,
         \A k \in Jobs, q \in Questions : Deletes(k, q)' => Deletes(k, q)
  PROVE  Fresh' /\ Kept' /\ \A q \in Questions : Answered(q) => Answered(q)'
  <1>1. \A r : Listed(r)' <=> Listed(r)
    BY DEF Listed
  <1>2. Fresh'
    BY <1>1 DEF Fresh
  <1>3. \A r : r.q \in Questions /\ Safe(r) => Safe(r)'
    BY DEF Safe
  <1>4. Kept'
    BY <1>3 DEF Kept, Answered
  <1> QED BY <1>2, <1>4 DEF Answered

\* A run that lists the rows has all of its questions still to insert.
LEMMA ListOldAnswers ==
  ASSUME BaseInv, Fresh, Kept, NEW j \in Jobs, ListOld(j)
  PROVE  Fresh' /\ Kept' /\ \A q \in Questions : Answered(q) => Answered(q)'
  <1> USE DEF BaseInv, TypeOK
  <1>1. /\ run[j] = "patched"
        /\ old' = [old EXCEPT ![j] = answers]
        /\ todo' = [todo EXCEPT ![j] = out[j]]
        /\ run' = [run EXCEPT ![j] = "inserting"]
        /\ UNCHANGED <<answers, out>>
    BY DEF ListOld, roundVars
  <1>2. \A r : Listed(r)' => Listed(r)
    BY <1>1 DEF Listed
  <1>3. \A q \in Questions : ~Listed([job |-> j, q |-> q])
    BY <1>1 DEF Fresh, Early
  <1>4. Fresh'
    BY <1>1, <1>2, <1>3 DEF Fresh, Early
  <1>5. \A q : ~Deletes(j, q)'
    BY <1>1 DEF Deletes
  <1>6. \A r : Safe(r) => Safe(r)'
    BY <1>1, <1>5 DEF Safe, Deletes
  <1>7. Kept'
    BY <1>1, <1>6 DEF Kept, Answered
  <1> QED BY <1>1, <1>4, <1>7 DEF Answered

\* A new row was listed by no run, so no run is set to delete it.
LEMMA InsertAnswers ==
  ASSUME BaseInv, Fresh, Kept, "unchecked" \notin Faults,
         NEW j \in Jobs, InsertOne(j)
  PROVE  Fresh' /\ Kept' /\ \A q \in Questions : Answered(q) => Answered(q)'
  <1> USE DEF BaseInv, TypeOK
  <1>1. PICK p \in todo[j] :
           /\ answers' = answers \cup {[job |-> j, q |-> p]}
           /\ todo' = [todo EXCEPT ![j] = @ \ {p}]
    BY DEF InsertOne, Writes
  <1>2. run[j] = "inserting" /\ UNCHANGED <<run, out, old>> /\ p \in Questions
    BY <1>1 DEF InsertOne
  <1> DEFINE new == [job |-> j, q |-> p]
  <1>3. ~Listed(new)
    BY <1>1, <1>2 DEF Fresh
  <1>4. Fresh'
    <2> SUFFICES ASSUME NEW k \in Jobs, NEW q \in Questions,
                        Listed([job |-> k, q |-> q])'
                 PROVE  run'[k] \notin Early /\ q \notin todo'[k]
      BY DEF Fresh
    <2>1. CASE [job |-> k, q |-> q] = new
      <3>1. k = j /\ q = p
        BY <2>1
      <3> QED BY <3>1, <1>1, <1>2 DEF Early
    <2>2. CASE [job |-> k, q |-> q] # new
      <3>1. Listed([job |-> k, q |-> q])
        BY <2>2, <1>1, <1>2 DEF Listed
      <3> QED BY <3>1, <1>1, <1>2 DEF Fresh
    <2> QED BY <2>1, <2>2
  <1>5. \A r : r.q # p /\ Safe(r) => Safe(r)'
    BY <1>1, <1>2 DEF Safe, Deletes
  <1>6. Safe(new)'
    BY <1>2, <1>3 DEF Safe, Listed
  <1>7. Kept'
    <2> SUFFICES ASSUME NEW q \in Questions, Answered(q)'
                 PROVE  \E r \in answers' : r.q = q /\ Safe(r)'
      BY DEF Kept
    <2>1. CASE q = p
      BY <2>1, <1>1, <1>6
    <2>2. CASE q # p
      BY <2>2, <1>1, <1>5 DEF Kept, Answered
    <2> QED BY <2>1, <2>2
  <1> QED BY <1>1, <1>4, <1>7 DEF Answered

\* A row is deleted by a run that listed it, so it is not the safe one.
LEMMA DeleteAnswers ==
  ASSUME BaseInv, Fresh, Kept, "unchecked" \notin Faults,
         NEW j \in Jobs, DeleteOne(j)
  PROVE  Fresh' /\ Kept' /\ \A q \in Questions : Answered(q) => Answered(q)'
  <1> USE DEF BaseInv, TypeOK
  <1>1. PICK d \in old[j] : /\ d.q \in out[j]
                            /\ answers' = answers \ {d}
                            /\ old' = [old EXCEPT ![j] = @ \ {d}]
    BY DEF DeleteOne, ToDelete, Writes
  <1>2. run[j] = "deleting" /\ UNCHANGED <<run, out, todo>>
    BY DEF DeleteOne
  <1>3. Deletes(j, d.q)
    BY <1>1, <1>2 DEF Deletes
  <1>4. \A r : Safe(r) => Safe(r)' /\ r # d
    BY <1>1, <1>2, <1>3 DEF Safe, Deletes
  <1>5. \A r : Listed(r)' => Listed(r)
    BY <1>1 DEF Listed
  <1>6. Fresh'
    BY <1>2, <1>5 DEF Fresh
  <1>7. \A q \in Questions : Answered(q) => \E r \in answers' : r.q = q /\ Safe(r)'
    BY <1>1, <1>4 DEF Kept
  <1>8. \A q \in Questions : Answered(q)' => Answered(q)
    BY <1>1 DEF Answered
  <1> QED BY <1>6, <1>7, <1>8 DEF Kept, Answered

\* The other steps of a run only move it along.
LEMMA RunAnswers ==
  ASSUME BaseInv, Fresh, Kept, "unchecked" \notin Faults,
         NEW j \in Jobs, RunStep(j) \/ Raise(j)
  PROVE  Fresh' /\ Kept' /\ \A q \in Questions : Answered(q) => Answered(q)'
  <1> USE DEF BaseInv, TypeOK, roundVars
  <1>1. CASE ListOld(j)
    BY <1>1, ListOldAnswers
  <1>2. CASE InsertOne(j)
    BY <1>2, InsertAnswers
  <1>3. CASE DeleteOne(j)
    BY <1>3, DeleteAnswers
  <1>4. CASE StartDelete(j)
    BY <1>4, NoRowTouched DEF StartDelete, InsertsOver, Deletes, Early
  <1>5. CASE \/ StartRun(j) \/ Analyse(j) \/ PatchRound(j) \/ EndDelete(j)
             \/ ReportCompleted(j) \/ ReportFailed(j) \/ Raise(j)
    <2>1. PICK p \in {"begun", "analysed", "patched", "saved", "failing", "ended"} :
             run' = [run EXCEPT ![j] = p]
      BY <1>5 DEF StartRun, Analyse, PatchRound, EndDelete, ReportCompleted,
                  ReportFailed, Raise, AfterRaise
    <2>2. run[j] \notin Early => run'[j] \notin Early
      BY <1>5, <2>1 DEF StartRun, Analyse, PatchRound, EndDelete, ReportCompleted,
                  ReportFailed, Raise, AfterRaise, Early
    <2>3. /\ UNCHANGED <<answers, todo, old>>
          /\ \A k \in Jobs : k # j => out'[k] = out[k]
      BY <1>5 DEF StartRun, Analyse, PatchRound, EndDelete, ReportCompleted,
                  ReportFailed, Raise
    <2>4. \A k \in Jobs, q \in Questions : Deletes(k, q)' => Deletes(k, q)
      BY <2>1, <2>3 DEF Deletes
    <2>5. \A k \in Jobs : run[k] \notin Early => run'[k] \notin Early
      BY <2>1, <2>2
    <2> QED BY <2>3, <2>4, <2>5, NoRowTouched
  <1> QED BY <1>1, <1>2, <1>3, <1>4, <1>5 DEF RunStep

\* Callers and crashes leave the rows alone.
LEMMA CallAnswers ==
  ASSUME BaseInv, Fresh, Kept,
         \/ \E c \in Callers : Begin(c) \/ CallerStep(c) \/ Undelivered(c)
         \/ BackendCrash \/ WorkerCrash \/ UNCHANGED vars
  PROVE  Fresh' /\ Kept' /\ \A q \in Questions : Answered(q) => Answered(q)'
  <1> USE DEF BaseInv, TypeOK
  <1>1. UNCHANGED <<answers, out, todo, old>>
    BY DEF Begin, CallerStep, Claim, Dispatch, DispatchFailed, Undelivered,
           BackendCrash, WorkerCrash, vars, roundVars, callVars, runVars
  <1>2. CASE \E c \in Callers : Dispatch(c)
    <2>1. PICK c \in Callers : Dispatch(c)
      BY <1>2
    <2>2. run[call[c]] = "none" /\ run' = [run EXCEPT ![call[c]] = "queued"]
      BY <2>1 DEF Dispatch, CallsOnce
    <2>3. /\ \A k \in Jobs : run[k] \notin Early => run'[k] \notin Early
          /\ \A k \in Jobs, q \in Questions : Deletes(k, q)' => Deletes(k, q)
      BY <1>1, <2>2 DEF Early, Deletes
    <2> QED BY <1>1, <2>3, NoRowTouched
  <1>3. CASE WorkerCrash
    <2>1. \A k \in Jobs : run'[k] = run[k] \/ run'[k] = "ended"
      BY <1>3 DEF WorkerCrash
    <2>2. /\ \A k \in Jobs : run[k] \notin Early => run'[k] \notin Early
          /\ \A k \in Jobs, q \in Questions : Deletes(k, q)' => Deletes(k, q)
      BY <1>1, <2>1 DEF Early, Deletes
    <2> QED BY <1>1, <2>2, NoRowTouched
  <1>4. CASE run' = run
    <2>1. \A k \in Jobs, q \in Questions : Deletes(k, q)' => Deletes(k, q)
      BY <1>1, <1>4 DEF Deletes
    <2> QED BY <1>1, <1>4, <2>1, NoRowTouched
  <1> QED
    BY <1>2, <1>3, <1>4 DEF Begin, CallerStep, Claim, DispatchFailed, Undelivered,
           BackendCrash, vars, runVars

LEMMA NextAnswers ==
  ASSUME AnswerInv, [Next]_vars, "unchecked" \notin Faults
  PROVE  AnswerInv' /\ \A q \in Questions : Answered(q) => Answered(q)'
  BY NextBase, RunAnswers, CallAnswers DEF AnswerInv, Next

\* However many runs overlap, raise or die, a question that had an answer
\* always has one (save_feedback_results), as long as the writes the worker
\* sends are carried out: it does not check their responses.
THEOREM AnswersAreKept ==
  ASSUME "unchecked" \notin Faults
  PROVE  Spec => AnswersNotLost
  <1>1. Init => AnswerInv
    BY InitBase, InitAnswers DEF AnswerInv
  <1>2. AnswerInv /\ [Next]_vars => AnswerInv'
    BY NextAnswers
  <1>3. AnswerInv /\ [Next]_vars =>
          [\A q \in Questions : Answered(q) => Answered(q)']_vars
    BY NextAnswers
  <1> QED
    BY <1>1, <1>2, <1>3, PTL DEF Spec, AnswersNotLost


-----------------------------------------------------------------------------
(* The worker container: one run at a time, every job delivered, every     *)
(* write carried out; runs may still raise.                                *)

\* The run that has begun keeps the round in processing.
TurnInv ==
    /\ \A c \in Callers : tpc[c] # "refused"
    /\ \A j, k \in Jobs : Active(j) /\ Active(k) => j = k
    /\ \A j \in Jobs : Active(j) => status = "processing"

\* A forced call is under way, or a job waits: a run is still to read the
\* transcript that is stored now.
Pending == (\E c \in Forced : tpc[c] # "idle") \/ \E j \in Jobs : run[j] = "queued"

Rated == {"patched", "inserting", "deleting", "saved"}

\* What was made from an older transcript is only there until that run.
NewestInv ==
    /\ status = "completed" => rating = transcript \/ Pending
    /\ \A j \in Jobs : run[j] = "analysed" => ver[j] = transcript \/ Pending
    /\ \A j \in Jobs : run[j] \in Rated => rating = transcript \/ Pending

RowsOf(j) == [job : {j}, q : Questions]

\* While a run saves, there are its own rows and those it has listed; what it
\* leaves are its own.
OneSetInv ==
    /\ \A j \in Jobs : run[j] \in {"analysed", "patched", "inserting", "deleting"}
                          => out[j] = Questions
    /\ \A j \in Jobs : run[j] \in {"inserting", "deleting"} => answers \subseteq old[j] \cup RowsOf(j)
    /\ \A j \in Jobs : run[j] = "saved" => answers \subseteq RowsOf(j)
    /\ status = "completed" => \A r, s \in answers : r.q = s.q => r = s

\* The faults that are left out do not occur.
LEMMA NoOtherFault ==
  ASSUME Serialised, Faults \subseteq {"raise"}
  PROVE  /\ ~BackendCrash /\ ~WorkerCrash /\ \A c \in Callers : ~Undelivered(c)
         /\ \A new, current : Writes(new, current) = {new}
  <1>1. "crash" \notin Faults /\ "undelivered" \notin Faults /\ "unchecked" \notin Faults
    OBVIOUS
  <1> QED BY <1>1 DEF BackendCrash, WorkerCrash, Undelivered, Writes

\* What a step does, seen from the status, the callers and the runs.
LEMMA TurnSteps ==
  ASSUME BaseInv, Serialised, Faults \subseteq {"raise"}, [Next]_vars
  PROVE  \/ \E c \in Callers : Begin(c) \/ CallerStep(c)
         \/ \E j \in Jobs : RunStep(j) \/ Raise(j)
         \/ UNCHANGED vars
  BY NoOtherFault DEF Next

\* A step of a run: which it is, where it goes, what becomes of the status.
LEMMA RunGoes ==
  ASSUME BaseInv, NEW j \in Jobs, RunStep(j) \/ Raise(j), Faults \subseteq {"raise"}, Serialised
  PROVE  /\ \A k \in Jobs : k # j => run'[k] = run[k]
         /\ \/ run[j] = "queued" /\ WorkerFree /\ run'[j] = "begun" /\ status' = "processing"
            \/ Active(j) /\ Active(j)' /\ status' = status
            \/ Active(j) /\ run'[j] = "ended"
         /\ UNCHANGED <<transcript, calls, tpc, call>>
  <1>1. run \in [Jobs -> {"none", "queued", "begun", "analysed", "patched",
                          "inserting", "deleting", "saved", "failing", "ended"}]
    BY DEF BaseInv, TypeOK
  <1> USE <1>1, NoOtherFault DEF Active, roundVars, callVars
  <1>2. CASE StartRun(j)
    BY <1>2 DEF StartRun
  <1>3. CASE Analyse(j) \/ PatchRound(j) \/ ListOld(j)
    BY <1>3 DEF Analyse, PatchRound, ListOld
  <1>4. CASE InsertOne(j) \/ StartDelete(j) \/ DeleteOne(j) \/ EndDelete(j)
    BY <1>4 DEF InsertOne, StartDelete, DeleteOne, EndDelete
  <1>5. CASE ReportCompleted(j) \/ ReportFailed(j)
    BY <1>5 DEF ReportCompleted, ReportFailed
  <1>6. CASE Raise(j)
    BY <1>6 DEF Raise, AfterRaise
  <1> QED BY <1>2, <1>3, <1>4, <1>5, <1>6 DEF RunStep

\* A step of a caller: no run begins or ends by it.
LEMMA CallGoes ==
  ASSUME BaseInv, TurnInv, NEW c \in Callers, Begin(c) \/ CallerStep(c)
  PROVE  /\ \A k \in Jobs : run'[k] = run[k] \/ (run[k] = "none" /\ run'[k] = "queued")
         /\ \A d \in Callers : tpc'[d] # "refused"
         /\ status' \in {status, "processing"}
         /\ UNCHANGED <<rating, answers, ver, out, todo, old>>
         /\ transcript' # transcript => c \in Forced /\ tpc'[c] # "idle"
         /\ \A d \in Callers : tpc[d] # "idle" /\ tpc'[d] = "idle"
               => d \notin Forced \/ \E k \in Jobs : run'[k] = "queued"
         /\ \A k \in Jobs : run[k] = "queued" => run'[k] = "queued"
  <1>1. /\ run \in [Jobs -> {"none", "queued", "begun", "analysed", "patched",
                             "inserting", "deleting", "saved", "failing", "ended"}]
        /\ tpc \in [Callers -> {"idle", "claim", "dispatch", "refused"}]
        /\ calls \in Nat /\ calls <= MaxCalls
    BY DEF BaseInv, TypeOK
  <1>2. \A d \in Callers : tpc[d] # "refused"
    BY DEF TurnInv
  <1> USE <1>1, <1>2 DEF roundVars, runVars
  <1>3. CASE Begin(c)
    BY <1>3 DEF Begin
  <1>4. CASE Claim(c)
    BY <1>4 DEF Claim, ClaimWins
  <1>5. CASE Dispatch(c)
    <2>1. call[c] \in Jobs /\ run[call[c]] = "none"
      BY <1>5 DEF Dispatch, BaseInv, CallsOnce, Jobs
    <2> QED BY <1>5, <2>1 DEF Dispatch
  <1>6. ~DispatchFailed(c)
    BY DEF DispatchFailed
  <1> QED BY <1>3, <1>4, <1>5, <1>6 DEF CallerStep

LEMMA TurnNext ==
  ASSUME BaseInv, TurnInv, [Next]_vars, Serialised, Faults \subseteq {"raise"}
  PROVE  TurnInv'
  <1>1. ASSUME NEW c \in Callers, Begin(c) \/ CallerStep(c) PROVE TurnInv'
    <2>1. \A k \in Jobs : Active(k)' => Active(k)
      BY <1>1, CallGoes DEF Active
    <2> QED BY <1>1, <2>1, CallGoes DEF TurnInv
  <1>2. ASSUME NEW j \in Jobs, RunStep(j) \/ Raise(j) PROVE TurnInv'
    <2>1. \A k \in Jobs : k # j => (Active(k)' <=> Active(k))
      BY <1>2, RunGoes DEF Active
    <2>2. tpc' = tpc
      BY <1>2, RunGoes
    <2>3. CASE run[j] = "queued" /\ WorkerFree /\ run'[j] = "begun" /\ status' = "processing"
      BY <2>1, <2>2, <2>3 DEF TurnInv, WorkerFree
    <2>4. CASE Active(j) /\ Active(j)' /\ status' = status
      BY <2>1, <2>2, <2>4 DEF TurnInv
    <2>5. CASE Active(j) /\ run'[j] = "ended"
      <3>1. ~Active(j)'
        BY <2>5 DEF Active
      <3> QED BY <2>1, <2>2, <2>5, <3>1 DEF TurnInv
    <2> QED BY <1>2, <2>3, <2>4, <2>5, RunGoes
  <1>3. CASE UNCHANGED vars
    BY <1>3 DEF vars, roundVars, callVars, runVars, TurnInv, Active
  <1> QED BY <1>1, <1>2, <1>3, TurnSteps

\* The rating of a round that is left completed is that of its newest transcript.
LEMMA NewestNext ==
  ASSUME BaseInv, TurnInv, NewestInv, [Next]_vars, Serialised, Faults \subseteq {"raise"}
  PROVE  NewestInv'
  <1>1. ASSUME NEW c \in Callers, Begin(c) \/ CallerStep(c) PROVE NewestInv'
    <2>1. Pending => Pending'
      BY <1>1, CallGoes, JobAssumption DEF Pending
    <2>2. transcript' = transcript \/ Pending'
      BY <1>1, CallGoes DEF Pending
    <2>3. \A k \in Jobs : run'[k] \in {"analysed"} \cup Rated => run'[k] = run[k]
      BY <1>1, CallGoes DEF Rated
    <2>4. status' = "completed" => status = "completed"
      BY <1>1, CallGoes
    <2> QED BY <1>1, <2>1, <2>2, <2>3, <2>4, CallGoes DEF NewestInv
  <1>2. ASSUME NEW j \in Jobs, RunStep(j) \/ Raise(j) PROVE NewestInv'
    <2>1. /\ transcript' = transcript /\ tpc' = tpc
          /\ \A k \in Jobs : k # j => run'[k] = run[k]
          /\ run[j] # "queued" /\ Pending => Pending'
      <3>1. /\ transcript' = transcript /\ tpc' = tpc
            /\ \A k \in Jobs : k # j => run'[k] = run[k]
        BY <1>2, RunGoes
      <3> QED BY <3>1 DEF Pending
    <2>2. \A k \in Jobs : Active(k) => ~(k # j /\ Active(j))
      BY DEF TurnInv
    <2>3. \A k \in Jobs : run[k] \in {"begun", "analysed"} \cup Rated => Active(k)
      BY DEF Active, Rated
    <2>4. CASE StartRun(j)
      <3>1. /\ status' = "processing" /\ run'[j] = "begun"
            /\ \A k \in Jobs : ~Active(k)
        BY <2>4, NoOtherFault DEF StartRun, WorkerFree, BaseInv, TypeOK
      <3>2. \A k \in Jobs : run'[k] \notin {"analysed"} \cup Rated
        BY <2>1, <2>3, <3>1 DEF Rated
      <3> QED BY <3>1, <3>2 DEF NewestInv
    <2>5. CASE ~StartRun(j)
      <3>1. Active(j) /\ status = "processing"
        BY <1>2, <2>5 DEF RunStep, Raise, Analyse, PatchRound, ListOld, InsertOne, StartDelete,
                          DeleteOne, EndDelete, ReportCompleted, ReportFailed, Active, TurnInv
      <3>2. \A k \in Jobs : k # j => run'[k] \notin {"analysed"} \cup Rated
        BY <2>1, <2>2, <2>3, <3>1
      <3>3. Pending => Pending'
        BY <2>1, <3>1 DEF Active
      <3>4. CASE Analyse(j)
        <4>1. run'[j] = "analysed" /\ ver'[j] = transcript /\ status' = status
          BY <3>4 DEF Analyse, BaseInv, TypeOK, roundVars
        <4> QED BY <2>1, <3>1, <3>2, <4>1 DEF NewestInv, Rated
      <3>5. CASE PatchRound(j)
        <4>1. run[j] = "analysed" /\ run'[j] = "patched" /\ rating' = ver[j] /\ status' = status
          BY <3>5, NoOtherFault DEF PatchRound, BaseInv, TypeOK
        <4> QED BY <2>1, <3>1, <3>2, <3>3, <4>1 DEF NewestInv, Rated
      <3>6. CASE ListOld(j) \/ InsertOne(j) \/ StartDelete(j) \/ DeleteOne(j) \/ EndDelete(j)
        <4>1. /\ run[j] \in Rated /\ run'[j] \in Rated
              /\ rating' = rating /\ status' = status
          BY <3>6 DEF ListOld, InsertOne, StartDelete, DeleteOne, EndDelete, BaseInv, TypeOK,
                      Rated, roundVars
        <4> QED BY <2>1, <3>1, <3>2, <3>3, <4>1 DEF NewestInv, Rated
      <3>7. CASE ReportCompleted(j)
        <4>1. run[j] \in Rated /\ run'[j] = "ended" /\ rating' = rating
          BY <3>7 DEF ReportCompleted, BaseInv, TypeOK, Rated
        <4> QED BY <2>1, <3>2, <3>3, <4>1 DEF NewestInv, Rated
      <3>8. CASE ReportFailed(j) \/ Raise(j)
        <4>1. run'[j] \in {"ended", "failing"} /\ status' \in {status, "failed"}
          BY <3>8, NoOtherFault
             DEF ReportFailed, Raise, AfterRaise, FailedStatus, BaseInv, TypeOK, roundVars
        <4> QED BY <3>1, <3>2, <4>1 DEF NewestInv, Rated
      <3> QED BY <1>2, <2>5, <3>4, <3>5, <3>6, <3>7, <3>8 DEF RunStep
    <2> QED BY <2>4, <2>5
  <1>3. CASE UNCHANGED vars
    BY <1>3 DEF vars, roundVars, callVars, runVars, NewestInv, Pending
  <1> QED BY <1>1, <1>2, <1>3, TurnSteps

\* A run that ends with success leaves its own rows, one for each question.
LEMMA OneSetNext ==
  ASSUME BaseInv, TurnInv, OneSetInv, [Next]_vars, Serialised, Faults \subseteq {"raise"},
         Outputs = {Questions}
  PROVE  OneSetInv'
  <1> DEFINE Saving == {"analysed", "patched", "inserting", "deleting", "saved"}
  <1>1. ASSUME NEW c \in Callers, Begin(c) \/ CallerStep(c) PROVE OneSetInv'
    <2>1. \A k \in Jobs : run'[k] \in Saving => run'[k] = run[k]
      BY <1>1, CallGoes
    <2>2. status' = "completed" => status = "completed"
      BY <1>1, CallGoes
    <2>3. UNCHANGED <<answers, out, old>>
      BY <1>1, CallGoes
    <2> QED BY <2>1, <2>2, <2>3 DEF OneSetInv
  <1>2. ASSUME NEW j \in Jobs, RunStep(j) \/ Raise(j) PROVE OneSetInv'
    <2>1. \A k \in Jobs : k # j => run'[k] = run[k]
      BY <1>2, RunGoes
    <2>2. \A k \in Jobs : Active(k) => ~(k # j /\ Active(j))
      BY DEF TurnInv
    <2>3. \A k \in Jobs : run[k] \in Saving => Active(k)
      BY DEF Active
    <2>4. CASE StartRun(j)
      <3>1. status' = "processing" /\ run'[j] = "begun" /\ \A k \in Jobs : ~Active(k)
        BY <2>4, NoOtherFault DEF StartRun, WorkerFree, BaseInv, TypeOK
      <3>2. \A k \in Jobs : run'[k] \notin Saving
        BY <2>1, <2>3, <3>1
      <3> QED BY <3>1, <3>2 DEF OneSetInv
    <2>5. CASE ~StartRun(j)
      <3>1. Active(j) /\ status = "processing"
        BY <1>2, <2>5 DEF RunStep, Raise, Analyse, PatchRound, ListOld, InsertOne, StartDelete,
                          DeleteOne, EndDelete, ReportCompleted, ReportFailed, Active, TurnInv
      <3>2. \A k \in Jobs : k # j => run'[k] \notin Saving
        BY <2>1, <2>2, <2>3, <3>1
      <3>3. CASE Analyse(j)
        <4>1. run'[j] = "analysed" /\ out'[j] = Questions /\ status' = status
          BY <3>3 DEF Analyse, BaseInv, TypeOK, roundVars
        <4> QED BY <3>1, <3>2, <4>1 DEF OneSetInv
      <3>4. CASE PatchRound(j)
        <4>1. run[j] = "analysed" /\ run'[j] = "patched" /\ out' = out /\ status' = status
          BY <3>4 DEF PatchRound, BaseInv, TypeOK
        <4> QED BY <3>1, <3>2, <4>1 DEF OneSetInv
      <3>5. CASE ListOld(j)
        <4>1. /\ run[j] = "patched" /\ run'[j] = "inserting" /\ out' = out /\ status' = status
              /\ answers' = answers /\ old'[j] = answers
          BY <3>5 DEF ListOld, BaseInv, TypeOK, roundVars
        <4> QED BY <3>1, <3>2, <4>1 DEF OneSetInv
      <3>6. CASE InsertOne(j)
        <4>1. PICK q \in todo[j] : answers' = answers \cup {[job |-> j, q |-> q]}
          BY <3>6, NoOtherFault DEF InsertOne
        <4>2. /\ run[j] = "inserting" /\ run' = run /\ out' = out /\ status' = status
              /\ old' = old /\ q \in Questions
          BY <3>6 DEF InsertOne, BaseInv, TypeOK
        <4>3. answers' \subseteq old'[j] \cup RowsOf(j)
          BY <4>1, <4>2 DEF OneSetInv, RowsOf
        <4> QED BY <3>1, <3>2, <4>2, <4>3 DEF OneSetInv
      <3>7. CASE StartDelete(j)
        <4>1. /\ run[j] = "inserting" /\ run'[j] = "deleting" /\ out' = out /\ status' = status
              /\ answers' = answers /\ old' = old
          BY <3>7 DEF StartDelete, BaseInv, TypeOK, roundVars
        <4> QED BY <3>1, <3>2, <4>1 DEF OneSetInv
      <3>8. CASE DeleteOne(j)
        <4>1. PICK r \in ToDelete(j) :
                 answers' = answers \ {r} /\ old' = [old EXCEPT ![j] = old[j] \ {r}]
          <5>1. PICK r \in ToDelete(j) : /\ answers' \in Writes(answers \ {r}, answers)
                                         /\ old' = [old EXCEPT ![j] = old[j] \ {r}]
            BY <3>8 DEF DeleteOne
          <5>2. answers' = answers \ {r}
            BY <5>1, NoOtherFault
          <5> QED BY <5>1, <5>2
        <4>2. /\ run[j] = "deleting" /\ run' = run /\ out' = out /\ status' = status
              /\ old'[j] = old[j] \ {r}
          BY <3>8, <4>1 DEF DeleteOne, BaseInv, TypeOK
        <4>3. answers' \subseteq old'[j] \cup RowsOf(j)
          BY <4>1, <4>2 DEF OneSetInv
        <4> QED BY <3>1, <3>2, <4>2, <4>3 DEF OneSetInv
      <3>9. CASE EndDelete(j)
        <4>1. /\ run[j] = "deleting" /\ run'[j] = "saved" /\ status' = status
              /\ answers' = answers /\ ToDelete(j) = {}
          BY <3>9 DEF EndDelete, BaseInv, TypeOK, roundVars
        <4>2. old[j] = {}
          BY <4>1 DEF OneSetInv, ToDelete, BaseInv, TypeOK, Answer
        <4>3. answers' \subseteq RowsOf(j)
          BY <4>1, <4>2 DEF OneSetInv
        <4> QED BY <3>1, <3>2, <4>1, <4>3 DEF OneSetInv
      <3>10. CASE ReportCompleted(j)
        <4>1. run[j] = "saved" /\ run'[j] = "ended" /\ answers' = answers
          BY <3>10 DEF ReportCompleted, BaseInv, TypeOK
        <4>2. \A r, s \in answers' : r.q = s.q => r = s
          BY <4>1 DEF OneSetInv, RowsOf
        <4> QED BY <3>2, <4>1, <4>2 DEF OneSetInv
      <3>11. CASE ReportFailed(j) \/ Raise(j)
        <4>1. run'[j] \in {"ended", "failing"} /\ status' \in {status, "failed"}
          BY <3>11, NoOtherFault
             DEF ReportFailed, Raise, AfterRaise, FailedStatus, BaseInv, TypeOK, roundVars
        <4> QED BY <3>1, <3>2, <4>1 DEF OneSetInv
      <3> QED BY <1>2, <2>5, <3>3, <3>4, <3>5, <3>6, <3>7, <3>8, <3>9, <3>10, <3>11 DEF RunStep
    <2> QED BY <2>4, <2>5
  <1>3. CASE UNCHANGED vars
    BY <1>3 DEF vars, roundVars, callVars, runVars, OneSetInv
  <1> QED BY <1>1, <1>2, <1>3, TurnSteps

SettleInv == BaseInv /\ TurnInv /\ NewestInv /\ OneSetInv

LEMMA SettleFirst == Init => SettleInv
  <1> SUFFICES ASSUME Init PROVE SettleInv
    OBVIOUS
  <1>1. TurnInv
    BY DEF Init, TurnInv, Active
  <1>2. NewestInv
    BY DEF Init, NewestInv, Rated
  <1>3. OneSetInv
    <2>1. \A r, s \in answers : r.q = s.q => r = s
      BY DEF Init
    <2>2. \A j \in Jobs : run[j] = "none"
      BY DEF Init
    <2> QED BY <2>1, <2>2 DEF OneSetInv
  <1> QED BY <1>1, <1>2, <1>3, InitBase DEF SettleInv

\* When all work of the container has ended with success, the rating is that of
\* the newest transcript: a forced trigger overrides.  Runs may raise, and the
\* forced calls may come while others run or wait.
THEOREM NewestTranscriptWins ==
  ASSUME Serialised, Faults \subseteq {"raise"}
  PROVE  Spec => []FreshTranscriptWins
  <1> DEFINE Inv == BaseInv /\ TurnInv /\ NewestInv
  <1>1. Init => Inv
    BY SettleFirst DEF SettleInv
  <1>2. Inv /\ [Next]_vars => Inv'
    BY NextBase, TurnNext, NewestNext
  <1>3. Inv => FreshTranscriptWins
    BY JobAssumption DEF NewestInv, FreshTranscriptWins, Quiet, InFlight, Pending
  <1> QED BY <1>1, <1>2, <1>3, PTL DEF Spec

\* One worker that takes jobs in turn and answers every question: when all its
\* work has ended with success, every question has one answer and the rating is
\* that of the newest transcript, whatever raised on the way.
THEOREM ContainerLeavesOne ==
  ASSUME Serialised, Faults \subseteq {"raise"}, Outputs = {Questions}
  PROVE  DeployedSpec => []ContainerSettles
  <1> DEFINE Inv == deployment = "container" => SettleInv
  <1>1. DeployedInit => Inv
    BY SettleFirst DEF DeployedInit
  <1>2. Inv /\ [DeployedNext]_allVars => Inv'
    <2> SUFFICES ASSUME Inv, [DeployedNext]_allVars, deployment' = "container"
                 PROVE  SettleInv'
      OBVIOUS
    <2>1. deployment = "container" /\ [Next]_vars
      BY DEF DeployedNext, allVars
    <2>2. BaseInv /\ TurnInv /\ NewestInv /\ OneSetInv
      BY <2>1 DEF SettleInv
    <2> QED BY <2>1, <2>2, NextBase, TurnNext, NewestNext, OneSetNext DEF SettleInv
  <1>3. Inv => ContainerSettles
    <2> SUFFICES ASSUME SettleInv PROVE AnswersConverge /\ FreshTranscriptWins
      BY DEF ContainerSettles
    <2>1. AnswersConverge
      BY DEF SettleInv, OneSetInv, AnswersConverge
    <2>2. FreshTranscriptWins
      BY JobAssumption DEF SettleInv, NewestInv, FreshTranscriptWins, Quiet, InFlight, Pending
    <2> QED BY <2>1, <2>2
  <1> QED BY <1>1, <1>2, <1>3, PTL DEF DeployedSpec

-----------------------------------------------------------------------------
(* A round in processing is in somebody's hands.                           *)

\* A caller is about to hand its job over or to write that it failed, or a job
\* waits or runs: somebody will write another status.
InHand == status = "processing" => \/ \E c \in Callers : Busy(c)
                                   \/ \E j \in Jobs : InFlight(j)

\* The writes are carried out, no process dies, and the container gets every
\* job; Lambda may refuse one.
NothingLost ==
    /\ "crash" \notin Faults /\ "unchecked" \notin Faults
    /\ Serialised => "undelivered" \notin Faults

\* A run goes on, or ends and writes another status.
LEMMA RunInHand ==
  ASSUME BaseInv, NothingLost, NEW j \in Jobs, RunStep(j) \/ Raise(j)
  PROVE  InFlight(j)' \/ status' # "processing"
  <1>1. run \in [Jobs -> {"none", "queued", "begun", "analysed", "patched",
                          "inserting", "deleting", "saved", "failing", "ended"}]
    BY DEF BaseInv, TypeOK
  <1>2. \A new, current : Writes(new, current) = {new}
    BY DEF NothingLost, Writes
  <1> USE <1>1, <1>2 DEF InFlight, Active
  <1>3. CASE StartRun(j) \/ Analyse(j) \/ PatchRound(j) \/ ListOld(j)
    BY <1>3 DEF StartRun, Analyse, PatchRound, ListOld
  <1>4. CASE InsertOne(j) \/ StartDelete(j) \/ DeleteOne(j) \/ EndDelete(j)
    BY <1>4 DEF InsertOne, StartDelete, DeleteOne, EndDelete
  <1>5. CASE ReportCompleted(j) \/ ReportFailed(j)
    BY <1>5 DEF ReportCompleted, ReportFailed, FailedStatus
  <1>6. CASE Raise(j)
    BY <1>6 DEF Raise, AfterRaise
  <1> QED BY <1>3, <1>4, <1>5, <1>6 DEF RunStep

LEMMA CallInHand ==
  ASSUME BaseInv, InHand, NothingLost, NEW c \in Callers,
         Begin(c) \/ CallerStep(c) \/ Undelivered(c)
  PROVE  InHand'
  <1>1. tpc \in [Callers -> {"idle", "claim", "dispatch", "refused"}]
    BY DEF BaseInv, TypeOK
  <1>2. CASE Begin(c)
    <2>1. /\ \A d \in Callers : Busy(d) => Busy(d)'
          /\ status' = status /\ run' = run
      BY <1>1, <1>2 DEF Begin, Busy, runVars
    <2> QED BY <2>1 DEF InHand, InFlight, Active
  <1>3. CASE Claim(c)
    <2>1. CASE ClaimWins(c)
      BY <1>1, <1>3, <2>1 DEF Claim, InHand, Busy
    <2>2. CASE ~ClaimWins(c)
      <3>1. /\ \A d \in Callers : Busy(d) => Busy(d)'
            /\ status' = status /\ run' = run
        BY <1>1, <1>3, <2>2 DEF Claim, Busy, runVars
      <3> QED BY <3>1 DEF InHand, InFlight, Active
    <2> QED BY <2>1, <2>2
  <1>4. CASE Dispatch(c)
    <2>1. call[c] \in Jobs /\ run[call[c]] = "none" /\ DOMAIN run = Jobs
      BY <1>4 DEF Dispatch, BaseInv, CallsOnce, TypeOK, Jobs
    <2>2. run'[call[c]] = "queued"
      BY <1>4, <2>1 DEF Dispatch
    <2> QED BY <2>1, <2>2 DEF InHand, InFlight
  <1>5. CASE DispatchFailed(c)
    BY <1>5 DEF DispatchFailed, FailedStatus, InHand
  <1>6. CASE Undelivered(c)
    <2>1. Busy(c)'
      BY <1>1, <1>6 DEF Undelivered, NothingLost, Busy
    <2> QED BY <2>1 DEF InHand
  <1> QED BY <1>2, <1>3, <1>4, <1>5, <1>6 DEF CallerStep

\* A round taken for processing is never left behind: while it says so, a caller
\* or a job that will report it is there, in the container and under Lambda,
\* however many forced calls overlap, are refused or raise.  It is what the
\* wait for a report rests on (EveryRunReported).
THEOREM ProcessingIsInHand ==
  ASSUME NothingLost
  PROVE  Spec => [](status = "processing" => \/ \E c \in Callers : Busy(c)
                                             \/ \E j \in Jobs : InFlight(j))
  <1>1. Init => BaseInv /\ InHand
    BY InitBase DEF Init, InHand
  <1>2. BaseInv /\ InHand /\ [Next]_vars => (BaseInv /\ InHand)'
    <2> SUFFICES ASSUME BaseInv, InHand, [Next]_vars PROVE InHand'
      BY NextBase
    <2>1. CASE \E c \in Callers : Begin(c) \/ CallerStep(c) \/ Undelivered(c)
      BY <2>1, CallInHand
    <2>2. CASE \E j \in Jobs : RunStep(j) \/ Raise(j)
      BY <2>2, RunInHand DEF InHand
    <2>3. CASE UNCHANGED vars
      BY <2>3 DEF vars, roundVars, callVars, runVars, InHand, Busy, InFlight, Active
    <2> QED BY <2>1, <2>2, <2>3 DEF Next, NothingLost, BackendCrash, WorkerCrash
  <1> QED BY <1>1, <1>2, PTL DEF Spec, InHand
=============================================================================
