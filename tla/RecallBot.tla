----------------------------- MODULE RecallBot ------------------------------
(***************************************************************************)
(* The life of one Recall meeting bot and of the candidate round it        *)
(* records, as the backend's account webhook drives it.  Recall delivers   *)
(* bot.* events at least once; each delivery runs handle_bot_status_change *)
(* which reads the recall_bots row, performs side effects and overwrites   *)
(* the row from what it read, then runs the background task it enqueued    *)
(* (recruiter notification, recording fetch).  Every await is a step.      *)
(*                                                                         *)
(* Recall itself is external: it emits joining, recording, ended and done, *)
(* or fatal, and a `blocked` event is one whose sub_code says the bot was  *)
(* never admitted to the meeting.  joining_call stands for the three codes *)
(* that only update the row (in_waiting_room, in_call_not_recording).      *)
(***************************************************************************)
EXTENDS Naturals, Sequences

CONSTANTS
    Handlers,         \* concurrent deliveries the backend can be serving
    MaxDeliveries,    \* bound on the deliveries of one event
    InOrder,          \* TRUE: no event is delivered after a later one
    MayCrash,         \* TRUE: the backend process may restart
    MayLoseReplies,   \* TRUE: the credit RPC may commit and still raise
    FetchOutcomes     \* what fetch_and_store_recording may meet

ASSUME BotAssumption ==
    /\ MaxDeliveries \in Nat \ {0}
    /\ InOrder \in BOOLEAN /\ MayCrash \in BOOLEAN /\ MayLoseReplies \in BOOLEAN
    /\ FetchOutcomes \subseteq {"stored", "absent", "raises"}

VARIABLES
    emitted,          \* the events Recall has emitted, in order
    deliveries,       \* deliveries[i]: deliveries begun of the i-th event
    bot,              \* the recall_bots row
    round,            \* candidate_rounds.status
    pc, event, row, charge,    \* the handlers; row is the row as loaded
    analysing,        \* a feedback job was started and has not finished
    creditsUsed, mails, fetches,   \* history: charges, e-mails, fetches,
    crashed                        \* and whether the process restarted

deliveryVars == <<emitted, deliveries>>
handlerVars  == <<pc, event, row, charge>>
historyVars  == <<creditsUsed, mails, fetches, crashed>>
vars == <<deliveryVars, bot, round, handlerVars, analysing, historyVars>>

Codes == {"joining_call", "in_call_recording", "call_ended", "done", "fatal"}
Event == [code : Codes, blocked : BOOLEAN]
MaxEvents == 4

\* Mutant: the code is stored as it came.
DbStatusRaw(code) == code

\* BOT_STATUS_TO_DB, with call_ended stored as processing.
DbStatus(code) ==
    CASE code = "joining_call" -> "joining"
      [] code = "call_ended"   -> "processing"
      [] code = "fatal"        -> "failed"
      [] OTHER                 -> code

Row == [status : {"created", "joining", "in_call_recording", "processing",
                  "done", "failed"},
        error_code : {"null", "call_ended", "fatal", "not_admitted_alert_sent"},
        credit_charged : BOOLEAN]

NoEvent == [code |-> "joining_call", blocked |-> FALSE]
NewRow  == [status |-> "created", error_code |-> "null",
            credit_charged |-> FALSE]

Alerted(r) == r.error_code = "not_admitted_alert_sent"

Init ==
    /\ emitted = <<>>
    /\ deliveries = [i \in 1..MaxEvents |-> 0]
    /\ bot = NewRow
    /\ round = "scheduled"
    /\ pc = [h \in Handlers |-> "idle"]
    /\ event = [h \in Handlers |-> NoEvent]
    /\ row = [h \in Handlers |-> NewRow]
    /\ charge = [h \in Handlers |-> "untouched"]
    /\ analysing = FALSE
    /\ creditsUsed = 0 /\ mails = 0 /\ fetches = 0
    /\ crashed = FALSE

-----------------------------------------------------------------------------
(* Recall.                                                                 *)

Follows(code, blocked) ==
    LET last == IF emitted = <<>> THEN "none" ELSE emitted[Len(emitted)].code IN
    \/ code = "joining_call" /\ last = "none" /\ ~blocked
    \/ code = "in_call_recording" /\ last = "joining_call" /\ ~blocked
    \/ code = "call_ended" /\ last = "in_call_recording" /\ ~blocked
    \/ code = "fatal" /\ last \in {"joining_call", "in_call_recording"} /\ ~blocked
    \/ code \in {"call_ended", "fatal"} /\ last = "joining_call" /\ blocked
    \/ code = "done" /\ last = "call_ended" /\ ~blocked

Emit ==
    /\ \E e \in Event : /\ Follows(e.code, e.blocked)
                        /\ emitted' = Append(emitted, e)
    /\ UNCHANGED <<deliveries, bot, round, handlerVars, analysing, historyVars>>

\* What the handler does first once it has loaded the row.
FirstStep(code) == IF code = "in_call_recording" THEN "start_round"
                   ELSE IF code = "fatal" THEN "rollback" ELSE "update"

\* A delivery begins and the handler loads the row.  An unanswered or slow
\* delivery is repeated, so deliveries of one event may overlap.
Deliver(h, i) ==
    /\ pc[h] = "idle"
    /\ i <= Len(emitted)
    /\ deliveries[i] < MaxDeliveries
    /\ InOrder => /\ \A k \in 1..MaxEvents : k > i => deliveries[k] = 0
                  /\ \A k \in 1..(i - 1) : deliveries[k] > 0
    /\ deliveries' = [deliveries EXCEPT ![i] = @ + 1]
    /\ event' = [event EXCEPT ![h] = emitted[i]]
    /\ row' = [row EXCEPT ![h] = bot]
    /\ charge' = [charge EXCEPT ![h] = "untouched"]
    /\ pc' = [pc EXCEPT ![h] = FirstStep(emitted[i].code)]
    /\ UNCHANGED <<emitted, bot, round, analysing, historyVars>>

-----------------------------------------------------------------------------
(* in_call_recording: _on_in_call_recording.                               *)

\* The round is flipped to in_progress whatever its status is.
StartRound(h) ==
    /\ pc[h] = "start_round"
    /\ round' = "in_progress"
    /\ pc' = [pc EXCEPT ![h] = IF row[h].credit_charged THEN "update"
                                                        ELSE "claim_credit"]
    /\ UNCHANGED <<deliveryVars, bot, event, row, charge, analysing, historyVars>>

\* Mutant: the claim matches the row whatever its flag.
ClaimUnguarded == TRUE
ClaimWon == ~bot.credit_charged

\* Compare-and-set of credit_charged: only one delivery goes on to charge.
ClaimCredit(h) ==
    /\ pc[h] = "claim_credit"
    /\ bot' = [bot EXCEPT !.credit_charged = TRUE]
    /\ pc' = [pc EXCEPT ![h] = IF ClaimWon THEN "charge" ELSE "update"]
    /\ UNCHANGED <<deliveryVars, round, event, row, charge, analysing, historyVars>>

\* use_credit_atomic consumes a credit, or raises (exhausted, error, or a
\* reply lost after the commit); the outcome is what the update will write.
ChargeCredit(h) ==
    /\ pc[h] = "charge"
    /\ \/ /\ creditsUsed' = creditsUsed + 1
          /\ charge' = [charge EXCEPT ![h] = "charged"]
       \/ /\ creditsUsed' = creditsUsed
          /\ charge' = [charge EXCEPT ![h] = "failed"]
       \/ /\ MayLoseReplies
          /\ creditsUsed' = creditsUsed + 1
          /\ charge' = [charge EXCEPT ![h] = "failed"]
    /\ pc' = [pc EXCEPT ![h] = "update"]
    /\ UNCHANGED <<deliveryVars, bot, round, event, row, analysing, mails, fetches,
                   crashed>>

\* Mutant: the rollback is not bounded to rounds that have not started.
RolledBackAlways == "scheduled"
RolledBack == IF round \in {"pending", "scheduled"} THEN "scheduled" ELSE round

(* fatal: the round goes back to scheduled unless the call has started.    *)
Rollback(h) ==
    /\ pc[h] = "rollback"
    /\ round' = RolledBack
    /\ pc' = [pc EXCEPT ![h] = "update"]
    /\ UNCHANGED <<deliveryVars, bot, event, row, charge, analysing, historyVars>>

-----------------------------------------------------------------------------
(* The update that ends every delivery, and the task it enqueues.          *)

EndsCall(code) == code \in {"call_ended", "fatal"}

\* Mutant: the marker of an alert already sent is overwritten.
ErrorCodeAlways(h) == IF EndsCall(event[h].code) THEN event[h].code
                                                 ELSE bot.error_code

\* The error code written over the row, judged by the row as loaded.
NewErrorCode(h) == IF EndsCall(event[h].code) /\ ~Alerted(row[h])
                   THEN event[h].code ELSE bot.error_code

NotifyEnqueued(h) == /\ EndsCall(event[h].code)
                     /\ event[h].blocked
                     /\ ~Alerted(row[h])

\* Mutant: a replayed `done` fetches again.
FetchAlways(h) == event[h].code = "done"

\* A `done` seen by a row loaded as done is a replay and fetches nothing.
FetchEnqueued(h) == event[h].code = "done" /\ row[h].status # "done"

\* Mutant: the flag stays pinned once the claim was won.
FlagPinned(h) == bot.credit_charged

\* A charge that failed releases the claim; other events leave the flag alone.
FlagWritten(h) == IF charge[h] = "untouched" THEN bot.credit_charged
                                             ELSE charge[h] = "charged"

UpdateRow(h) ==
    /\ pc[h] = "update"
    /\ bot' = [status |-> DbStatus(event[h].code),
               error_code |-> NewErrorCode(h),
               credit_charged |-> FlagWritten(h)]
    /\ pc' = [pc EXCEPT ![h] = IF NotifyEnqueued(h) THEN "notify"
                               ELSE IF FetchEnqueued(h) THEN "fetch" ELSE "idle"]
    /\ UNCHANGED <<deliveryVars, round, event, row, charge, analysing, historyVars>>

-----------------------------------------------------------------------------
(* notify_bot_not_admitted.                                                *)

\* Compare-and-set of the marker: a row without an error code never matches.
Notify(h) ==
    /\ pc[h] = "notify"
    /\ IF Alerted(bot) \/ bot.error_code = "null"
       THEN /\ pc' = [pc EXCEPT ![h] = "idle"]
            /\ UNCHANGED bot
       ELSE /\ pc' = [pc EXCEPT ![h] = "send"]
            /\ bot' = [bot EXCEPT !.error_code = "not_admitted_alert_sent"]
    /\ UNCHANGED <<deliveryVars, round, event, row, charge, analysing, historyVars>>

SendMail(h) ==
    /\ pc[h] = "send"
    /\ \/ /\ mails' = mails + 1
          /\ pc' = [pc EXCEPT ![h] = "idle"]
       \/ /\ mails' = mails
          /\ pc' = [pc EXCEPT ![h] = "revert"]
    /\ UNCHANGED <<deliveryVars, bot, round, event, row, charge, analysing,
                   creditsUsed, fetches, crashed>>

\* The marker is taken back so a replay can retry, unless that fails too.
RevertMarker(h) ==
    /\ pc[h] = "revert"
    /\ \/ bot' = IF Alerted(bot) THEN [bot EXCEPT !.error_code = "fatal"] ELSE bot
       \/ UNCHANGED bot
    /\ pc' = [pc EXCEPT ![h] = "idle"]
    /\ UNCHANGED <<deliveryVars, round, event, row, charge, analysing, historyVars>>

-----------------------------------------------------------------------------
(* fetch_and_store_recording.                                              *)

\* Without a recording the row is marked done and the task stops, as it does
\* when it raises after that write; an exception is logged and swallowed.
FetchRecording(h) ==
    /\ pc[h] = "fetch"
    /\ fetches' = fetches + 1
    /\ \E outcome \in FetchOutcomes :
          /\ bot' = IF outcome = "raises" THEN bot ELSE [bot EXCEPT !.status = "done"]
          /\ pc' = [pc EXCEPT ![h] = IF outcome = "stored" THEN "decide" ELSE "idle"]
    /\ UNCHANGED <<deliveryVars, round, event, row, charge, analysing,
                   creditsUsed, mails, crashed>>

\* _decide_feedback_path: captured feedback goes to a feedback job, which
\* completes the round; otherwise the round is completed here.  A trigger
\* that is refused or raises is logged, and the round is left as it is.
DecideFeedbackPath(h) ==
    /\ pc[h] = "decide"
    /\ \/ analysing' = TRUE /\ pc' = [pc EXCEPT ![h] = "idle"]
       \/ UNCHANGED analysing /\ pc' = [pc EXCEPT ![h] = "complete"]
       \/ /\ "raises" \in FetchOutcomes
          /\ UNCHANGED analysing /\ pc' = [pc EXCEPT ![h] = "idle"]
    /\ UNCHANGED <<deliveryVars, bot, round, event, row, charge, historyVars>>

\* Mutant: only a round that never started is completed.
CompletedIfScheduled == IF round = "scheduled" THEN "completed" ELSE round
CompletedRound == IF round = "in_progress" THEN "completed" ELSE round

\* Guarded to advance a round in progress only.
CompleteRound(h) ==
    /\ pc[h] = "complete"
    /\ round' = CompletedRound
    /\ pc' = [pc EXCEPT ![h] = "idle"]
    /\ UNCHANGED <<deliveryVars, bot, event, row, charge, analysing, historyVars>>

\* The feedback worker's update_processing_status(completed).
WorkerCompletes ==
    /\ analysing
    /\ analysing' = FALSE
    /\ round' = "completed"
    /\ UNCHANGED <<deliveryVars, bot, handlerVars, historyVars>>

\* The process restarts: handlers and their background tasks are gone.
Crash ==
    /\ MayCrash
    /\ \E h \in Handlers : pc[h] # "idle"
    /\ pc' = [h \in Handlers |-> "idle"]
    /\ crashed' = TRUE
    /\ UNCHANGED <<deliveryVars, bot, round, event, row, charge, analysing,
                   creditsUsed, mails, fetches>>

-----------------------------------------------------------------------------
Step(h) ==
    \/ StartRound(h) \/ ClaimCredit(h) \/ ChargeCredit(h) \/ Rollback(h)
    \/ UpdateRow(h) \/ Notify(h) \/ SendMail(h) \/ RevertMarker(h)
    \/ FetchRecording(h) \/ DecideFeedbackPath(h) \/ CompleteRound(h)

Next ==
    \/ Emit
    \/ \E h \in Handlers : Step(h) \/ \E i \in 1..MaxEvents : Deliver(h, i)
    \/ WorkerCompletes
    \/ Crash

Spec == Init /\ [][Next]_vars

\* Recall delivers every event at least once, a handler that runs keeps
\* running, and the feedback worker finishes.
Fairness ==
    /\ \A i \in 1..MaxEvents :
          WF_vars(deliveries[i] = 0 /\ \E h \in Handlers : Deliver(h, i))
    /\ \A h \in Handlers : WF_vars(Step(h))
    /\ WF_vars(WorkerCompletes)

FairSpec == Spec /\ Fairness

-----------------------------------------------------------------------------
(* Properties.                                                             *)

TypeOK ==
    /\ emitted \in Seq(Event) /\ Len(emitted) <= MaxEvents
    /\ deliveries \in [1..MaxEvents -> 0..MaxDeliveries]
    /\ bot \in Row
    /\ round \in {"scheduled", "in_progress", "completed"}
    /\ pc \in [Handlers -> {"idle", "start_round", "claim_credit", "charge",
                            "rollback", "update", "notify", "send", "revert",
                            "fetch", "decide", "complete"}]
    /\ event \in [Handlers -> Event]
    /\ row \in [Handlers -> Row]
    /\ charge \in [Handlers -> {"untouched", "charged", "failed"}]
    /\ analysing \in BOOLEAN
    /\ creditsUsed \in Nat /\ mails \in Nat /\ fetches \in Nat
    /\ crashed \in BOOLEAN

\* However often and in whatever order in_call_recording is delivered, and
\* wherever the process restarts, one bot consumes at most one interview
\* credit (the compare-and-set in _on_in_call_recording).
CreditAtMostOnce == creditsUsed <= 1

\* A round whose interview was charged is never offered for rescheduling: no
\* fatal event, late or replayed, puts it back to scheduled.
ChargedRoundStarted == creditsUsed > 0 => round # "scheduled"

\* A claim whose charge failed is released: once no delivery is charging, a
\* row flagged credit_charged has really paid, unless a restart cut a charge
\* short (_on_in_call_recording, "rather than the charge being lost for good").
FlagMeansCharged ==
    /\ bot.credit_charged
    /\ ~crashed
    /\ \A h \in Handlers : pc[h] \notin {"charge", "update"}
    => creditsUsed > 0

\* The recruiter is told once that the bot was not admitted: "one email per
\* round, CAS-guarded so a webhook replay doesn't double-send".
MailOnce == mails <= 1

\* The recording of a bot is fetched once: a replayed `done` "would otherwise
\* re-enqueue the recording fetch", so it is skipped.
FetchOnce == fetches <= 1

\* A completed round stays completed: in_call_recording flips only
\* "pending/scheduled -> in_progress".
RoundStaysCompleted == [][round = "completed" => round' = "completed"]_vars

\* Once Recall is done with a bot that recorded, the round ends completed and
\* stays so: by the worker when feedback was captured, else by the handler.
RoundCompletes ==
    (\E i \in 1..Len(emitted) : emitted[i].code = "in_call_recording")
        /\ (\E i \in 1..Len(emitted) : emitted[i].code = "done")
    ~> [](round = "completed")
=============================================================================
