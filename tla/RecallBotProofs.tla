-------------------------- MODULE RecallBotProofs ---------------------------
(***************************************************************************)
(* Proofs about RecallBot for any number of concurrent deliveries, repeated *)
(* any number of times in any order, with restarts: types, at most one     *)
(* charge, a charged round stays started, a failed charge is released.     *)
(* Deliveries handled in order fetch once and mail once.                   *)
(***************************************************************************)
EXTENDS MCRecallSettings, TLAPS

USE BotAssumption DEF BotAssumption

\* Recall's events move forward, which bounds their number.
Rank(code) == IF code = "joining_call" THEN 1
              ELSE IF code = "in_call_recording" THEN 2
              ELSE IF code = "done" THEN 4 ELSE 3

EventsForward ==
    emitted # <<>> => Len(emitted) <= Rank(emitted[Len(emitted)].code)

\* Handler h has won the claim and has not settled it yet.
Charging(h) == pc[h] = "charge" \/ (pc[h] = "update" /\ charge[h] # "untouched")

\* Before its charge is decided a handler has no outcome to write, and the
\* outcome "charged" is no lie.
Outcomes ==
    \A h \in Handlers :
        /\ pc[h] \in {"start_round", "claim_credit", "charge", "rollback"}
              => charge[h] = "untouched"
        /\ charge[h] = "charged" => creditsUsed > 0

\* A delivery past StartRound found or made the round started.
Started ==
    /\ \A h \in Handlers : pc[h] \in {"claim_credit", "charge"} => round # "scheduled"
    /\ creditsUsed > 0 => round # "scheduled"

\* The flag is the claim: it is set while a handler charges, and set for good
\* once a charge went through or a restart cut the charge short.
FlagHeld ==
    /\ \A h \in Handlers : Charging(h) => bot.credit_charged
    /\ \A g, h \in Handlers : Charging(g) /\ Charging(h) => g = h
    /\ bot.credit_charged /\ ~crashed
        => creditsUsed > 0 \/ \E h \in Handlers : Charging(h)

\* After a charge nobody charges again or is about to release the claim.
Settled ==
    creditsUsed > 0 =>
        /\ bot.credit_charged
        /\ \A h \in Handlers : /\ pc[h] # "charge"
                               /\ pc[h] = "update" => charge[h] # "failed"

BotInv == TypeOK /\ EventsForward /\ Outcomes /\ Started /\ FlagHeld

ChargeInv == BotInv /\ Settled /\ CreditAtMostOnce
-----------------------------------------------------------------------------
\* The initial states satisfy the invariant.
LEMMA InitInv == Init => BotInv
  <1> SUFFICES ASSUME Init PROVE BotInv
    OBVIOUS
  <1>1. TypeOK
    <2>1. NewRow \in Row /\ NoEvent \in Event
      BY DEF NewRow, NoEvent, Row, Event, Codes
    <2>2. emitted \in Seq(Event) /\ Len(emitted) <= MaxEvents
      BY DEF Init, MaxEvents
    <2>3. deliveries \in [1..MaxEvents -> 0..MaxDeliveries]
      BY DEF Init, MaxEvents
    <2> QED BY <2>1, <2>2, <2>3 DEF Init, TypeOK
  <1>2. EventsForward /\ Outcomes /\ Started /\ FlagHeld
    BY DEF Init, EventsForward, Outcomes, Started, FlagHeld, Charging, NewRow
  <1> QED
    BY <1>1, <1>2 DEF BotInv

\* Recall emits: the events stay in order and within their bound.
LEMMA EmitInv ==
  ASSUME BotInv, Emit
  PROVE  BotInv'
  <1> USE DEF BotInv
  <1>1. PICK e \in Event : /\ Follows(e.code, e.blocked)
                           /\ emitted' = Append(emitted, e)
    BY DEF Emit
  <1>2. UNCHANGED <<deliveries, bot, round, pc, event, row, charge, analysing,
                    creditsUsed, mails, fetches, crashed>>
    BY DEF Emit, handlerVars, historyVars
  <1>3. emitted \in Seq(Event) /\ e.code \in Codes
    BY DEF TypeOK, Event
  <1>4. /\ emitted' \in Seq(Event) /\ emitted' # <<>>
        /\ Len(emitted') = Len(emitted) + 1
        /\ emitted'[Len(emitted')] = e
    BY <1>1, <1>3
  <1>5. Len(emitted') <= Rank(e.code)
    <2>1. CASE emitted = <<>>
      BY <2>1, <1>1, <1>3, <1>4 DEF Follows, Rank, Codes
    <2>2. CASE emitted # <<>>
      <3> DEFINE last == emitted[Len(emitted)].code
      <3>1. last \in Codes /\ Len(emitted) <= Rank(last)
        <4>1. Len(emitted) \in 1..Len(emitted)
          BY <2>2, <1>3
        <4>2. emitted[Len(emitted)] \in Event
          BY <4>1, <1>3
        <4> QED BY <2>2, <4>2 DEF EventsForward, Event
      <3>2. \/ last = "joining_call" /\ e.code \in {"in_call_recording", "call_ended", "fatal"}
            \/ last = "in_call_recording" /\ e.code \in {"call_ended", "fatal"}
            \/ last = "call_ended" /\ e.code = "done"
        BY <2>2, <3>1, <1>1, <1>3 DEF Follows, Codes
      <3>3. Rank(last) < Rank(e.code)
        BY <3>2 DEF Rank
      <3> QED BY <3>1, <3>3, <1>3, <1>4 DEF Rank, Codes
    <2> QED BY <2>1, <2>2
  <1>6. Len(emitted') <= MaxEvents
    BY <1>3, <1>4, <1>5 DEF Rank, Codes, MaxEvents
  <1>7. TypeOK'
    BY <1>2, <1>4, <1>6 DEF TypeOK
  <1>8. EventsForward'
    BY <1>4, <1>5 DEF EventsForward
  <1>9. Outcomes' /\ Started' /\ FlagHeld'
    BY <1>2 DEF Outcomes, Started, FlagHeld, Charging
  <1> QED BY <1>7, <1>8, <1>9

\* Everything but Emit leaves the events alone.
LEMMA SameEvents ==
  ASSUME EventsForward, UNCHANGED emitted
  PROVE  EventsForward'
  BY DEF EventsForward

\* A delivery begins with a fresh copy of the row and no outcome.
LEMMA DeliverInv ==
  ASSUME BotInv, NEW h \in Handlers, NEW i \in 1..MaxEvents, Deliver(h, i)
  PROVE  BotInv'
  <1> USE DEF BotInv
  <1>1. emitted[i] \in Event
    BY DEF Deliver, TypeOK, MaxEvents
  <1>2. TypeOK'
    <2>1. deliveries' \in [1..MaxEvents -> 0..MaxDeliveries]
      <3>1. /\ deliveries' = [deliveries EXCEPT ![i] = @ + 1] /\ deliveries[i] < MaxDeliveries
            /\ deliveries \in [1..MaxEvents -> 0..MaxDeliveries]
        BY DEF Deliver, TypeOK
      <3> QED BY <3>1 DEF MaxEvents
    <2>2. /\ pc' = [pc EXCEPT ![h] = FirstStep(emitted[i].code)]
          /\ FirstStep(emitted[i].code) \in {"start_round", "rollback", "update"}
          /\ event' = [event EXCEPT ![h] = emitted[i]] /\ row' = [row EXCEPT ![h] = bot]
          /\ charge' = [charge EXCEPT ![h] = "untouched"]
          /\ UNCHANGED <<emitted, bot, round, analysing, historyVars>>
      BY DEF Deliver, FirstStep
    <2> QED BY <1>1, <2>1, <2>2 DEF TypeOK, historyVars
  <1>3. EventsForward'
    BY SameEvents DEF Deliver
  <1>4. /\ pc' = [pc EXCEPT ![h] = FirstStep(emitted[i].code)]
        /\ charge' = [charge EXCEPT ![h] = "untouched"]
        /\ pc[h] = "idle"
        /\ FirstStep(emitted[i].code) \in {"start_round", "rollback", "update"}
        /\ UNCHANGED <<bot, round, creditsUsed, crashed>>
    BY DEF Deliver, historyVars, FirstStep
  <1>5. Outcomes' /\ Started'
    BY <1>4 DEF Outcomes, Started, TypeOK
  <1>6. \A g \in Handlers : Charging(g)' <=> Charging(g)
    BY <1>4 DEF Charging, TypeOK
  <1>7. FlagHeld'
    BY <1>4, <1>6 DEF FlagHeld
  <1> QED BY <1>2, <1>3, <1>5, <1>7

\* The round is started before its credit is claimed.
LEMMA StartRoundInv ==
  ASSUME BotInv, NEW h \in Handlers, StartRound(h)
  PROVE  BotInv'
  <1> USE DEF BotInv, StartRound, deliveryVars, historyVars
  <1>1. TypeOK'
    BY DEF TypeOK
  <1>2. EventsForward'
    BY SameEvents
  <1>3. Outcomes' /\ Started'
    BY DEF Outcomes, Started, TypeOK
  <1>4. \A g \in Handlers : Charging(g)' <=> Charging(g)
    BY DEF Charging, TypeOK, Outcomes
  <1>5. FlagHeld'
    BY <1>4 DEF FlagHeld
  <1> QED BY <1>1, <1>2, <1>3, <1>5

\* Only the winner of the compare-and-set goes on to charge.
LEMMA ClaimCreditInv ==
  ASSUME BotInv, NEW h \in Handlers, ClaimCredit(h)
  PROVE  BotInv'
  <1> USE DEF BotInv
  <1>1. /\ bot' = [bot EXCEPT !.credit_charged = TRUE]
        /\ pc' = [pc EXCEPT ![h] = IF ~bot.credit_charged THEN "charge" ELSE "update"]
        /\ pc[h] = "claim_credit" /\ charge[h] = "untouched"
        /\ UNCHANGED <<emitted, deliveries, round, event, row, charge, analysing,
                       creditsUsed, mails, fetches, crashed>>
    BY DEF ClaimCredit, ClaimWon, deliveryVars, historyVars, Outcomes
  <1>2. TypeOK'
    BY <1>1 DEF TypeOK, Row
  <1>3. EventsForward'
    BY <1>1, SameEvents
  <1>4. Outcomes' /\ Started'
    BY <1>1 DEF Outcomes, Started, TypeOK
  <1>5. bot'.credit_charged
    BY <1>1 DEF TypeOK, Row
  <1>6. CASE bot.credit_charged
    <2>1. \A g \in Handlers : Charging(g)' <=> Charging(g)
      BY <1>1, <1>6 DEF Charging, TypeOK
    <2> QED BY <1>1, <1>2, <1>3, <1>4, <1>5, <1>6, <2>1 DEF FlagHeld
  <1>7. CASE ~bot.credit_charged
    <2>1. \A g \in Handlers : Charging(g)' <=> g = h
      BY <1>1, <1>7 DEF Charging, TypeOK, FlagHeld
    <2> QED BY <1>2, <1>3, <1>4, <1>5, <2>1 DEF FlagHeld
  <1> QED BY <1>6, <1>7

\* Charging decides the outcome; the claim stays held until the row is written.
LEMMA ChargeCreditInv ==
  ASSUME BotInv, NEW h \in Handlers, ChargeCredit(h)
  PROVE  BotInv'
  <1> USE DEF BotInv
  <1>1. /\ pc[h] = "charge"
        /\ pc' = [pc EXCEPT ![h] = "update"]
        /\ \/ /\ charge' = [charge EXCEPT ![h] = "charged"]
              /\ creditsUsed' = creditsUsed + 1
           \/ /\ charge' = [charge EXCEPT ![h] = "failed"]
              /\ creditsUsed' \in {creditsUsed, creditsUsed + 1}
        /\ UNCHANGED <<emitted, deliveries, bot, round, event, row, analysing,
                       mails, fetches, crashed>>
    BY DEF ChargeCredit, deliveryVars
  <1>2. TypeOK'
    BY <1>1 DEF TypeOK
  <1>3. EventsForward'
    BY <1>1, SameEvents
  <1>4. Outcomes' /\ Started'
    BY <1>1 DEF Outcomes, Started, TypeOK
  <1>5. \A g \in Handlers : Charging(g)' <=> Charging(g)
    BY <1>1 DEF Charging, TypeOK
  <1>6. FlagHeld'
    BY <1>1, <1>5 DEF FlagHeld, TypeOK
  <1> QED BY <1>2, <1>3, <1>4, <1>6

\* A late fatal event leaves a started round alone.
LEMMA RollbackInv ==
  ASSUME BotInv, NEW h \in Handlers, Rollback(h)
  PROVE  BotInv'
  <1> USE DEF BotInv, Rollback, RolledBack, deliveryVars, historyVars
  <1>1. TypeOK'
    BY DEF TypeOK
  <1>2. EventsForward'
    BY SameEvents
  <1>3. Outcomes' /\ Started'
    BY DEF Outcomes, Started, TypeOK
  <1>4. \A g \in Handlers : Charging(g)' <=> Charging(g)
    BY DEF Charging, TypeOK, Outcomes
  <1>5. FlagHeld'
    BY <1>4 DEF FlagHeld
  <1> QED BY <1>1, <1>2, <1>3, <1>5

\* The update settles the claim of its own delivery and of no other.
LEMMA UpdateRowInv ==
  ASSUME BotInv, NEW h \in Handlers, UpdateRow(h)
  PROVE  BotInv'
  <1> USE DEF BotInv
  <1>1. /\ pc[h] = "update"
        /\ bot'.credit_charged = FlagWritten(h)
        /\ \E p \in {"notify", "fetch", "idle"} : pc' = [pc EXCEPT ![h] = p]
        /\ UNCHANGED <<emitted, deliveries, round, event, row, charge, analysing,
                       creditsUsed, mails, fetches, crashed>>
    BY DEF UpdateRow, deliveryVars, historyVars
  <1>2. bot' \in Row
    <2>1. event[h].code \in Codes /\ bot \in Row /\ charge[h] \in {"untouched", "charged", "failed"}
      BY DEF TypeOK, Event
    <2>2. DbStatus(event[h].code) \in {"created", "joining", "in_call_recording",
                                       "processing", "done", "failed"}
      BY <2>1 DEF DbStatus, Codes
    <2>3. NewErrorCode(h) \in {"null", "call_ended", "fatal", "not_admitted_alert_sent"}
      BY <2>1 DEF NewErrorCode, EndsCall, Row
    <2>4. FlagWritten(h) \in BOOLEAN
      BY <2>1 DEF FlagWritten, Row
    <2> QED BY <2>2, <2>3, <2>4 DEF UpdateRow, Row
  <1>3. TypeOK'
    BY <1>1, <1>2 DEF TypeOK
  <1>4. EventsForward'
    BY <1>1, SameEvents
  <1>5. Outcomes' /\ Started'
    BY <1>1 DEF Outcomes, Started, TypeOK
  <1>6. \A g \in Handlers : Charging(g)' <=> Charging(g) /\ g # h
    BY <1>1 DEF Charging, TypeOK
  <1>7. /\ charge[h] = "untouched" => bot'.credit_charged = bot.credit_charged
        /\ charge[h] = "failed" => ~bot'.credit_charged
        /\ charge[h] = "charged" => bot'.credit_charged
        /\ charge[h] # "untouched" => Charging(h)
    BY <1>1 DEF FlagWritten, Charging
  <1>8. charge[h] = "charged" => creditsUsed > 0
    BY DEF Outcomes
  <1>9. FlagHeld'
    <2>1. CASE charge[h] = "untouched"
      <3>1. ~Charging(h)
        BY <2>1, <1>1 DEF Charging
      <3> QED BY <2>1, <3>1, <1>1, <1>6, <1>7 DEF FlagHeld
    <2>2. CASE charge[h] = "failed"
      BY <2>2, <1>1, <1>6, <1>7 DEF FlagHeld
    <2>3. CASE charge[h] = "charged"
      BY <2>3, <1>1, <1>6, <1>7, <1>8 DEF FlagHeld
    <2> QED BY <2>1, <2>2, <2>3 DEF TypeOK
  <1> QED BY <1>3, <1>4, <1>5, <1>9

\* A background task neither charges nor decides a charge: it moves on within
\* the task, leaves the flag alone and never takes a started round back.
TaskStages == {"notify", "send", "revert", "fetch", "decide", "complete", "idle"}
TaskStep(h) ==
    /\ pc[h] \in TaskStages
    /\ \E p \in TaskStages : pc' = [pc EXCEPT ![h] = p]
    /\ bot' \in Row /\ bot'.credit_charged = bot.credit_charged
    /\ round' \in {round, "completed"}
    /\ UNCHANGED <<emitted, deliveries, event, row, charge, creditsUsed, crashed>>
    /\ analysing' \in BOOLEAN /\ mails' \in Nat /\ fetches' \in Nat

LEMMA TaskStepInv ==
  ASSUME BotInv, NEW h \in Handlers, TaskStep(h)
  PROVE  BotInv'
  <1> USE DEF BotInv, TaskStep, TaskStages
  <1>1. TypeOK'
    BY DEF TypeOK
  <1>2. EventsForward'
    BY SameEvents
  <1>3. Outcomes' /\ Started'
    BY DEF Outcomes, Started, TypeOK
  <1>4. \A g \in Handlers : Charging(g)' <=> Charging(g)
    BY DEF Charging, TypeOK
  <1>5. FlagHeld'
    BY <1>4 DEF FlagHeld
  <1> QED BY <1>1, <1>2, <1>3, <1>5

\* Each step of the notifier and of the recording fetch is a task step.
LEMMA TasksAreTasks ==
  ASSUME TypeOK, NEW h \in Handlers,
         \/ Notify(h) \/ SendMail(h) \/ RevertMarker(h)
         \/ FetchRecording(h) \/ DecideFeedbackPath(h) \/ CompleteRound(h)
  PROVE  TaskStep(h)
  <1> USE DEF TypeOK, TaskStep, TaskStages, deliveryVars, historyVars
  <1>1. bot \in Row /\ bot.credit_charged \in BOOLEAN
    BY DEF Row
  <1>2. CASE Notify(h)
    <2>1. bot' \in Row /\ bot'.credit_charged = bot.credit_charged
      BY <1>1, <1>2 DEF Notify, Row
    <2> QED BY <2>1, <1>2 DEF Notify
  <1>3. CASE SendMail(h)
    BY <1>3 DEF SendMail
  <1>4. CASE RevertMarker(h)
    <2>1. bot' \in Row /\ bot'.credit_charged = bot.credit_charged
      BY <1>1, <1>4 DEF RevertMarker, Row
    <2> QED BY <2>1, <1>4 DEF RevertMarker
  <1>5. CASE FetchRecording(h)
    <2>1. bot' \in Row /\ bot'.credit_charged = bot.credit_charged
      BY <1>1, <1>5 DEF FetchRecording, Row
    <2>2. \E p \in {"decide", "idle"} : pc' = [pc EXCEPT ![h] = p]
      BY <1>5 DEF FetchRecording
    <2>3. /\ pc[h] = "fetch" /\ fetches' \in Nat
          /\ UNCHANGED <<emitted, deliveries, round, event, row, charge, analysing,
                         creditsUsed, mails, crashed>>
      BY <1>5 DEF FetchRecording
    <2> QED BY <2>1, <2>2, <2>3
  <1>6. CASE DecideFeedbackPath(h)
    BY <1>6 DEF DecideFeedbackPath
  <1>7. CASE CompleteRound(h)
    BY <1>7 DEF CompleteRound, CompletedRound
  <1> QED BY <1>2, <1>3, <1>4, <1>5, <1>6, <1>7

LEMMA WorkerCompletesInv ==
  ASSUME BotInv, WorkerCompletes
  PROVE  BotInv'
  <1> USE DEF BotInv, WorkerCompletes, deliveryVars, handlerVars, historyVars
  <1>1. TypeOK'
    BY DEF TypeOK
  <1>2. EventsForward'
    BY SameEvents
  <1>3. Outcomes' /\ Started' /\ FlagHeld'
    BY DEF Outcomes, Started, FlagHeld, Charging
  <1> QED BY <1>1, <1>2, <1>3

\* A restart drops every handler; a claim it held is left as it is.
LEMMA CrashInv ==
  ASSUME BotInv, Crash
  PROVE  BotInv'
  <1> USE DEF BotInv, Crash, deliveryVars
  <1>1. TypeOK'
    BY DEF TypeOK
  <1>2. EventsForward'
    BY SameEvents
  <1>3. Outcomes' /\ Started' /\ FlagHeld'
    BY DEF Outcomes, Started, FlagHeld, Charging
  <1> QED BY <1>1, <1>2, <1>3

LEMMA StutterInv ==
  ASSUME BotInv, UNCHANGED vars
  PROVE  BotInv'
  BY DEF BotInv, vars, deliveryVars, handlerVars, historyVars, TypeOK,
         EventsForward, Outcomes, Started, FlagHeld, Charging

\* Every step preserves the invariant.
LEMMA NextInv ==
  ASSUME BotInv, [Next]_vars
  PROVE  BotInv'
  <1>1. CASE Emit
    BY <1>1, EmitInv
  <1>2. ASSUME NEW h \in Handlers, Step(h)
        PROVE  BotInv'
    <2>1. CASE StartRound(h)   BY <2>1, StartRoundInv
    <2>2. CASE ClaimCredit(h)  BY <2>2, ClaimCreditInv
    <2>3. CASE ChargeCredit(h) BY <2>3, ChargeCreditInv
    <2>4. CASE Rollback(h)     BY <2>4, RollbackInv
    <2>5. CASE UpdateRow(h)    BY <2>5, UpdateRowInv
    <2>6. CASE \/ Notify(h) \/ SendMail(h) \/ RevertMarker(h)
               \/ FetchRecording(h) \/ DecideFeedbackPath(h) \/ CompleteRound(h)
      BY <2>6, TasksAreTasks, TaskStepInv DEF BotInv
    <2> QED BY <1>2, <2>1, <2>2, <2>3, <2>4, <2>5, <2>6 DEF Step
  <1>3. ASSUME NEW h \in Handlers, NEW i \in 1..MaxEvents, Deliver(h, i)
        PROVE  BotInv'
    BY <1>3, DeliverInv
  <1>4. CASE WorkerCompletes
    BY <1>4, WorkerCompletesInv
  <1>5. CASE Crash
    BY <1>5, CrashInv
  <1>6. CASE UNCHANGED vars
    BY <1>6, StutterInv
  <1> QED BY <1>1, <1>2, <1>3, <1>4, <1>5, <1>6 DEF Next

-----------------------------------------------------------------------------
\* BotInv holds in every reachable state, whatever overlaps and restarts.
THEOREM Invariance == Spec => []BotInv
  <1>1. Init => BotInv
    BY InitInv
  <1>2. BotInv /\ [Next]_vars => BotInv'
    BY NextInv
  <1> QED
    BY <1>1, <1>2, PTL DEF Spec

\* Every variable stays within its type; in particular Recall's events cannot
\* outgrow the deliveries counted, and only known statuses are stored.
THEOREM TypeCorrect == Spec => []TypeOK
  <1>1. BotInv => TypeOK
    BY DEF BotInv
  <1> QED
    BY <1>1, Invariance, PTL

\* A round whose interview was charged is never scheduled again, however late
\* or often a fatal event arrives (_rollback_cr_to_scheduled).
THEOREM ChargedStaysStarted == Spec => []ChargedRoundStarted
  <1>1. BotInv => ChargedRoundStarted
    BY DEF BotInv, Started, ChargedRoundStarted
  <1> QED
    BY <1>1, Invariance, PTL

\* A claim is only left behind by a charge that went through or by a restart:
\* one that failed is released (_on_in_call_recording).
THEOREM FailedChargeIsReleased == Spec => []FlagMeansCharged
  <1>1. BotInv => FlagMeansCharged
    BY DEF BotInv, FlagHeld, FlagMeansCharged, Charging
  <1> QED
    BY <1>1, Invariance, PTL

-----------------------------------------------------------------------------
(* One charge per bot, provided the credit RPC never commits and raises.   *)

\* Where replies are not lost, a step keeps the charge settled and single.
LEMMA SettledNext ==
  ASSUME ChargeInv, [Next]_vars, ~MayLoseReplies
  PROVE  Settled' /\ CreditAtMostOnce'
  <1> USE DEF ChargeInv, BotInv
  <1>1. ASSUME NEW h \in Handlers, NEW i \in 1..MaxEvents, Deliver(h, i)
        PROVE  Settled' /\ CreditAtMostOnce'
    <2>1. /\ pc' = [pc EXCEPT ![h] = FirstStep(emitted[i].code)]
          /\ charge' = [charge EXCEPT ![h] = "untouched"]
          /\ FirstStep(emitted[i].code) \in {"start_round", "rollback", "update"}
          /\ UNCHANGED <<bot, creditsUsed>>
      BY <1>1 DEF Deliver, historyVars, FirstStep
    <2> QED BY <2>1 DEF Settled, CreditAtMostOnce, TypeOK
  <1>2. ASSUME NEW h \in Handlers, StartRound(h)
        PROVE  Settled' /\ CreditAtMostOnce'
    BY <1>2 DEF StartRound, Settled, CreditAtMostOnce, Outcomes, TypeOK, historyVars
  <1>3. ASSUME NEW h \in Handlers, ClaimCredit(h)
        PROVE  Settled' /\ CreditAtMostOnce'
    <2>1. /\ pc' = [pc EXCEPT ![h] = IF ~bot.credit_charged THEN "charge" ELSE "update"]
          /\ charge[h] = "untouched"
          /\ UNCHANGED <<charge, creditsUsed>>
      BY <1>3 DEF ClaimCredit, ClaimWon, historyVars, Outcomes
    <2>2. bot'.credit_charged
      BY <1>3 DEF ClaimCredit, TypeOK, Row
    <2> QED BY <2>1, <2>2 DEF Settled, CreditAtMostOnce, TypeOK
  <1>4. ASSUME NEW h \in Handlers, ChargeCredit(h)
        PROVE  Settled' /\ CreditAtMostOnce'
    <2>1. pc[h] = "charge" /\ creditsUsed = 0 /\ bot.credit_charged
      BY <1>4 DEF ChargeCredit, Settled, FlagHeld, Charging, TypeOK
    <2>2. \A g \in Handlers \ {h} : ~Charging(g)
      BY <2>1 DEF FlagHeld, Charging
    <2>3. /\ pc' = [pc EXCEPT ![h] = "update"]
          /\ \/ /\ charge' = [charge EXCEPT ![h] = "charged"]
                /\ creditsUsed' = 1
             \/ /\ charge' = [charge EXCEPT ![h] = "failed"]
                /\ creditsUsed' = 0
          /\ UNCHANGED bot
      BY <1>4, <2>1 DEF ChargeCredit
    <2> QED BY <2>1, <2>2, <2>3 DEF Settled, CreditAtMostOnce, Charging, TypeOK
  <1>5. ASSUME NEW h \in Handlers, Rollback(h)
        PROVE  Settled' /\ CreditAtMostOnce'
    BY <1>5 DEF Rollback, Settled, CreditAtMostOnce, Outcomes, TypeOK, historyVars
  <1>6. ASSUME NEW h \in Handlers, UpdateRow(h)
        PROVE  Settled' /\ CreditAtMostOnce'
    <2>1. /\ pc[h] = "update"
          /\ bot'.credit_charged = FlagWritten(h)
          /\ \E p \in {"notify", "fetch", "idle"} : pc' = [pc EXCEPT ![h] = p]
          /\ UNCHANGED <<charge, creditsUsed>>
      BY <1>6 DEF UpdateRow, historyVars
    <2>2. creditsUsed > 0 => bot'.credit_charged
      BY <2>1 DEF FlagWritten, Settled, TypeOK
    <2> QED BY <2>1, <2>2 DEF Settled, CreditAtMostOnce, TypeOK
  <1>7. ASSUME NEW h \in Handlers, TaskStep(h)
        PROVE  Settled' /\ CreditAtMostOnce'
    BY <1>7 DEF TaskStep, TaskStages, Settled, CreditAtMostOnce, TypeOK
  <1>8. CASE Emit \/ WorkerCompletes \/ UNCHANGED vars
    BY <1>8 DEF Emit, WorkerCompletes, vars, handlerVars, historyVars, Settled,
                CreditAtMostOnce
  <1>9. CASE Crash
    BY <1>9 DEF Crash, Settled, CreditAtMostOnce
  <1> QED
    BY <1>1, <1>2, <1>3, <1>4, <1>5, <1>6, <1>7, <1>8, <1>9, TasksAreTasks
       DEF Next, Step

\* However often, in whatever order and however interleaved Recall delivers
\* in_call_recording, and wherever the backend restarts, a bot is charged at
\* most once (the compare-and-set in _on_in_call_recording), as long as a
\* charge that commits is also answered.
THEOREM OneCharge ==
  ASSUME ~MayLoseReplies
  PROVE  Spec => []CreditAtMostOnce
  <1>1. Init => ChargeInv
    BY InitInv DEF Init, ChargeInv, Settled, CreditAtMostOnce
  <1>2. ChargeInv /\ [Next]_vars => ChargeInv'
    BY NextInv, SettledNext DEF ChargeInv
  <1>3. ChargeInv => CreditAtMostOnce
    BY DEF ChargeInv
  <1> QED
    BY <1>1, <1>2, <1>3, PTL DEF Spec


-----------------------------------------------------------------------------
(* Events handled in order, by one delivery at a time (the setting "in     *)
(* order" of MCRecallSettings), each of them any number of times.          *)

PlainSteps(h) ==
    \/ StartRound(h) \/ ClaimCredit(h) \/ ChargeCredit(h) \/ Rollback(h) \/ UpdateRow(h)
    \/ Notify(h) \/ SendMail(h) \/ RevertMarker(h) \/ CompleteRound(h)

\* The steps of that setting are those of the handler, but for the ones that
\* the setting restricts.
LEMMA OrderlySteps ==
  ASSUME OrderlyNext
  PROVE  \/ Emit \/ WorkerCompletes \/ PlainSteps(h1)
         \/ Orderly!FetchRecording(h1) \/ Orderly!DecideFeedbackPath(h1)
         \/ \E i \in 1..MaxEvents : Orderly!Deliver(h1, i)
  <1>1. Orderly!Emit => Emit
    BY DEF Orderly!Emit, Emit, Orderly!Event, Event, Orderly!Codes, Codes, Orderly!Follows, Follows,
           Orderly!handlerVars, handlerVars, Orderly!historyVars, historyVars
  <1>2. Orderly!WorkerCompletes => WorkerCompletes
    BY DEF Orderly!WorkerCompletes, WorkerCompletes, Orderly!deliveryVars, deliveryVars,
           Orderly!handlerVars, handlerVars, Orderly!historyVars, historyVars
  <1>3. Orderly!StartRound(h1) => StartRound(h1)
    BY DEF Orderly!StartRound, StartRound, Orderly!deliveryVars, deliveryVars,
           Orderly!historyVars, historyVars
  <1>4. Orderly!ClaimCredit(h1) => ClaimCredit(h1)
    BY DEF Orderly!ClaimCredit, ClaimCredit, Orderly!ClaimWon, ClaimWon,
           Orderly!deliveryVars, deliveryVars, Orderly!historyVars, historyVars
  <1>5. Orderly!ChargeCredit(h1) => ChargeCredit(h1)
    BY DEF Orderly!ChargeCredit, ChargeCredit, Orderly!deliveryVars, deliveryVars
  <1>6. Orderly!Rollback(h1) => Rollback(h1)
    BY DEF Orderly!Rollback, Rollback, Orderly!RolledBack, RolledBack,
           Orderly!deliveryVars, deliveryVars, Orderly!historyVars, historyVars
  <1>7. Orderly!UpdateRow(h1) => UpdateRow(h1)
    BY DEF Orderly!UpdateRow, UpdateRow, Orderly!DbStatus, DbStatus,
           Orderly!NewErrorCode, NewErrorCode, Orderly!FlagWritten, FlagWritten,
           Orderly!NotifyEnqueued, NotifyEnqueued, Orderly!FetchEnqueued, FetchEnqueued,
           Orderly!EndsCall, EndsCall, Orderly!Alerted, Alerted,
           Orderly!deliveryVars, deliveryVars, Orderly!historyVars, historyVars
  <1>8. Orderly!Notify(h1) => Notify(h1)
    BY DEF Orderly!Notify, Notify, Orderly!Alerted, Alerted,
           Orderly!deliveryVars, deliveryVars, Orderly!historyVars, historyVars
  <1>9. Orderly!SendMail(h1) => SendMail(h1)
    BY DEF Orderly!SendMail, SendMail, Orderly!deliveryVars, deliveryVars
  <1>10. Orderly!RevertMarker(h1) => RevertMarker(h1)
    BY DEF Orderly!RevertMarker, RevertMarker, Orderly!Alerted, Alerted,
           Orderly!deliveryVars, deliveryVars, Orderly!historyVars, historyVars
  <1>11. Orderly!CompleteRound(h1) => CompleteRound(h1)
    BY DEF Orderly!CompleteRound, CompleteRound, Orderly!CompletedRound, CompletedRound,
           Orderly!deliveryVars, deliveryVars, Orderly!historyVars, historyVars
  <1> QED BY <1>1, <1>2, <1>3, <1>4, <1>5, <1>6, <1>7, <1>8, <1>9, <1>10, <1>11
             DEF OrderlyNext, Orderly!Step, PlainSteps

\* The done event was delivered.
DoneDelivered == \E i \in 1..MaxEvents : /\ i <= Len(emitted) /\ deliveries[i] > 0
                                         /\ emitted[i].code = "done"

OrderlyTypes ==
    /\ emitted \in Seq(Event) /\ deliveries \in [1..MaxEvents -> Nat]
    /\ DOMAIN pc = Handlers /\ DOMAIN event = Handlers /\ DOMAIN row = Handlers
    /\ DOMAIN bot = {"status", "error_code", "credit_charged"}
    /\ fetches \in Nat /\ mails \in Nat

\* Nothing is emitted after done, so nothing else is delivered after it: the
\* row stays done, and a replay that loads it fetches nothing.
FetchInv ==
    /\ \A i \in 1..Len(emitted) : emitted[i].code = "done" => i = Len(emitted)
    /\ \A i \in 1..MaxEvents : deliveries[i] > 0 => i <= Len(emitted)
    /\ DoneDelivered /\ pc[h1] # "idle" => /\ event[h1].code = "done"
                                           /\ pc[h1] \in {"update", "fetch", "decide", "complete"}
    /\ pc[h1] # "idle" /\ event[h1].code = "done" => DoneDelivered
    /\ pc[h1] = "fetch" => DoneDelivered /\ bot.status = "done" /\ fetches = 0
    /\ fetches > 0 => /\ DoneDelivered /\ bot.status = "done"
                      /\ pc[h1] = "update" => row[h1].status = "done"
    /\ fetches <= 1

\* A mail leaves its marker in the row, which the next delivery loads.
MailInv ==
    /\ pc[h1] \in {"notify", "send", "revert"} => mails = 0
    /\ pc[h1] = "send" => Alerted(bot)
    /\ mails > 0 => /\ Alerted(bot)
                    /\ pc[h1] \in {"start_round", "claim_credit", "charge", "rollback", "update"}
                          => Alerted(row[h1])
    /\ mails <= 1

OrderlyInv == OrderlyTypes /\ FetchInv /\ MailInv

LEMMA OrderlyFirst ==
  ASSUME Init, h1 \in Handlers
  PROVE  OrderlyInv
  <1>1. /\ emitted = <<>> /\ Len(emitted) = 0 /\ emitted \in Seq(Event)
        /\ deliveries \in [1..MaxEvents -> Nat]
        /\ \A i \in 1..MaxEvents : deliveries[i] = 0
        /\ DOMAIN bot = {"status", "error_code", "credit_charged"}
        /\ DOMAIN pc = Handlers /\ DOMAIN event = Handlers /\ DOMAIN row = Handlers
        /\ pc[h1] = "idle" /\ fetches = 0 /\ mails = 0
    BY DEF Init, NewRow
  <1>2. OrderlyTypes
    BY <1>1 DEF OrderlyTypes
  <1>3. FetchInv
    <2>1. ~DoneDelivered
      BY <1>1 DEF DoneDelivered
    <2> QED BY <1>1, <2>1 DEF FetchInv
  <1>4. MailInv
    BY <1>1 DEF MailInv
  <1> QED BY <1>2, <1>3, <1>4 DEF OrderlyInv

LEMMA OrderlyEmit ==
  ASSUME OrderlyInv, Emit
  PROVE  OrderlyInv'
  <1>1. PICK e \in Event : Follows(e.code, e.blocked) /\ emitted' = Append(emitted, e)
    BY DEF Emit
  <1>2. UNCHANGED <<deliveries, bot, pc, event, row, mails, fetches>>
    BY DEF Emit, handlerVars, historyVars
  <1>3. emitted \in Seq(Event) /\ Len(emitted) \in Nat
    BY DEF OrderlyInv, OrderlyTypes
  <1>4. /\ emitted' \in Seq(Event) /\ Len(emitted') = Len(emitted) + 1
        /\ emitted'[Len(emitted) + 1] = e
        /\ \A i \in 1..Len(emitted) : emitted'[i] = emitted[i]
    BY <1>1, <1>3
  <1>5. \A i \in 1..Len(emitted) : emitted[i].code # "done"
    <2>1. emitted # <<>> => emitted[Len(emitted)].code # "done"
      BY <1>1 DEF Follows
    <2> QED BY <1>3, <2>1 DEF OrderlyInv, FetchInv
  <1>6. ~DoneDelivered
    BY <1>3, <1>5 DEF DoneDelivered, MaxEvents
  <1>7. \A i \in 1..MaxEvents : deliveries[i] > 0 => i <= Len(emitted)
    BY DEF OrderlyInv, FetchInv
  <1>8. ~DoneDelivered'
    <2> SUFFICES ASSUME NEW i \in 1..MaxEvents, deliveries[i] > 0, emitted'[i].code = "done"
                 PROVE  FALSE
      BY <1>2 DEF DoneDelivered
    <2>1. i \in 1..Len(emitted)
      BY <1>3, <1>7 DEF MaxEvents
    <2> QED BY <1>4, <1>5, <2>1
  <1>9. FetchInv'
    <2>1. \A i \in 1..Len(emitted') : emitted'[i].code = "done" => i = Len(emitted')
      <3>1. \A i \in 1..Len(emitted') : i \in 1..Len(emitted) \/ i = Len(emitted')
        BY <1>3, <1>4
      <3> QED BY <1>4, <1>5, <3>1
    <2>2. \A i \in 1..MaxEvents : deliveries[i] > 0 => i <= Len(emitted')
      BY <1>3, <1>4, <1>7 DEF MaxEvents
    <2> QED BY <1>2, <1>6, <1>8, <2>1, <2>2 DEF OrderlyInv, FetchInv
  <1>10. OrderlyTypes'
    BY <1>2, <1>4 DEF OrderlyInv, OrderlyTypes
  <1>11. MailInv'
    BY <1>2 DEF OrderlyInv, MailInv, Alerted
  <1> QED BY <1>9, <1>10, <1>11 DEF OrderlyInv

\* After done only done is delivered.
LEMMA OrderlyDeliver ==
  ASSUME OrderlyInv, h1 \in Handlers, NEW i \in 1..MaxEvents, Orderly!Deliver(h1, i)
  PROVE  OrderlyInv'
  <1>1. /\ pc[h1] = "idle" /\ i <= Len(emitted)
        /\ \A k \in 1..MaxEvents : k > i => deliveries[k] = 0
        /\ deliveries' = [deliveries EXCEPT ![i] = @ + 1]
        /\ event' = [event EXCEPT ![h1] = emitted[i]]
        /\ row' = [row EXCEPT ![h1] = bot]
        /\ pc' = [pc EXCEPT ![h1] = Orderly!FirstStep(emitted[i].code)]
        /\ UNCHANGED <<emitted, bot, mails, fetches>>
    BY DEF Orderly!Deliver, Orderly!MaxEvents, MaxEvents, Orderly!historyVars
  <1>2. OrderlyTypes /\ i \in Nat /\ i > 0 /\ Len(emitted) \in Nat
    BY DEF OrderlyInv, OrderlyTypes, MaxEvents
  <1>3. /\ event'[h1] = emitted[i] /\ row'[h1] = bot
        /\ pc'[h1] = Orderly!FirstStep(emitted[i].code)
        /\ deliveries'[i] > 0 /\ deliveries' \in [1..MaxEvents -> Nat]
        /\ \A k \in 1..MaxEvents : k # i => deliveries'[k] = deliveries[k]
    BY <1>1, <1>2 DEF OrderlyTypes
  <1>4. OrderlyTypes'
    BY <1>1, <1>2, <1>3 DEF OrderlyTypes
  <1>5. emitted[i].code = "done" => DoneDelivered'
    BY <1>1, <1>3 DEF DoneDelivered
  <1>6. DoneDelivered => DoneDelivered' /\ emitted[i].code = "done"
    <2> SUFFICES ASSUME NEW k \in 1..MaxEvents, k <= Len(emitted), deliveries[k] > 0,
                        emitted[k].code = "done"
                 PROVE  k = i
      BY <1>5 DEF DoneDelivered
    <2>1. k \in 1..Len(emitted) /\ k = Len(emitted)
      BY <1>2 DEF OrderlyInv, FetchInv, MaxEvents
    <2>2. ~(k > i)
      BY <1>1, <1>2 DEF OrderlyTypes
    <2> QED BY <1>1, <1>2, <2>1, <2>2
  <1>7. DoneDelivered' => emitted[i].code = "done"
    <2> SUFFICES ASSUME NEW k \in 1..MaxEvents, k <= Len(emitted), deliveries'[k] > 0,
                        emitted[k].code = "done", k # i
                 PROVE  emitted[i].code = "done"
      BY <1>1 DEF DoneDelivered
    <2>1. DoneDelivered
      BY <1>3 DEF DoneDelivered
    <2> QED BY <1>6, <2>1
  <1>8. /\ Orderly!FirstStep(emitted[i].code) \in {"start_round", "rollback", "update"}
        /\ emitted[i].code = "done" => Orderly!FirstStep(emitted[i].code) = "update"
    BY DEF Orderly!FirstStep
  <1>9. FetchInv'
    <2>1. \A k \in 1..MaxEvents : deliveries'[k] > 0 => k <= Len(emitted)
      BY <1>1, <1>3 DEF OrderlyInv, FetchInv
    <2>2. fetches > 0 => DoneDelivered' /\ bot.status = "done"
      BY <1>6 DEF OrderlyInv, FetchInv
    <2>3. pc'[h1] # "fetch"
      BY <1>3, <1>8
    <2>4. \A k \in 1..Len(emitted') : emitted'[k].code = "done" => k = Len(emitted')
      BY <1>1 DEF OrderlyInv, FetchInv
    <2>5. fetches' <= 1
      BY <1>1 DEF OrderlyInv, FetchInv
    <2> QED BY <1>1, <1>3, <1>5, <1>7, <1>8, <2>1, <2>2, <2>3, <2>4, <2>5 DEF FetchInv
  <1>10. MailInv'
    BY <1>1, <1>3, <1>8 DEF OrderlyInv, MailInv, Alerted
  <1> QED BY <1>4, <1>9, <1>10 DEF OrderlyInv

LEMMA OrderlyUpdate ==
  ASSUME OrderlyInv, h1 \in Handlers, UpdateRow(h1)
  PROVE  OrderlyInv'
  <1>1. /\ pc[h1] = "update"
        /\ UNCHANGED <<emitted, deliveries, event, row, mails, fetches>>
        /\ bot' = [status |-> DbStatus(event[h1].code), error_code |-> NewErrorCode(h1),
                   credit_charged |-> FlagWritten(h1)]
        /\ pc' = [pc EXCEPT ![h1] = IF NotifyEnqueued(h1) THEN "notify"
                                    ELSE IF FetchEnqueued(h1) THEN "fetch" ELSE "idle"]
    BY DEF UpdateRow, deliveryVars, historyVars
  <1>2. /\ bot'.status = DbStatus(event[h1].code) /\ bot'.error_code = NewErrorCode(h1)
        /\ DOMAIN bot' = {"status", "error_code", "credit_charged"}
        /\ DOMAIN pc' = Handlers
        /\ pc'[h1] = IF NotifyEnqueued(h1) THEN "notify"
                     ELSE IF FetchEnqueued(h1) THEN "fetch" ELSE "idle"
    BY <1>1 DEF OrderlyInv, OrderlyTypes
  <1>3. OrderlyTypes'
    BY <1>1, <1>2 DEF OrderlyInv, OrderlyTypes
  <1>4. DoneDelivered' <=> DoneDelivered
    BY <1>1 DEF DoneDelivered
  <1>5. event[h1].code = "done" => bot'.status = "done" /\ ~NotifyEnqueued(h1)
    BY <1>2 DEF DbStatus, NotifyEnqueued, EndsCall
  <1>6. event[h1].code = "done" <=> DoneDelivered
    BY <1>1 DEF OrderlyInv, FetchInv
  <1>7. FetchInv'
    <2>1. /\ \A i \in 1..Len(emitted') : emitted'[i].code = "done" => i = Len(emitted')
          /\ \A i \in 1..MaxEvents : deliveries'[i] > 0 => i <= Len(emitted')
          /\ fetches' <= 1
      BY <1>1 DEF OrderlyInv, FetchInv
    <2>2. FetchEnqueued(h1) => /\ event[h1].code = "done" /\ row[h1].status # "done"
      BY DEF FetchEnqueued
    <2>3. FetchEnqueued(h1) => fetches = 0
      BY <1>1, <2>2 DEF OrderlyInv, OrderlyTypes, FetchInv
    <2>4. fetches > 0 => DoneDelivered
      BY DEF OrderlyInv, FetchInv
    <2> QED BY <1>1, <1>2, <1>4, <1>5, <1>6, <2>1, <2>2, <2>3, <2>4 DEF FetchInv
  <1>8. MailInv'
    <2>1. mails > 0 => Alerted(bot) /\ Alerted(row[h1])
      BY <1>1 DEF OrderlyInv, MailInv
    <2>2. mails > 0 => Alerted(bot)' /\ ~NotifyEnqueued(h1)
      BY <1>2, <2>1 DEF Alerted, NewErrorCode, NotifyEnqueued
    <2>3. mails <= 1 /\ mails \in Nat
      BY DEF OrderlyInv, OrderlyTypes, MailInv
    <2> QED BY <1>1, <1>2, <2>2, <2>3 DEF MailInv
  <1> QED BY <1>3, <1>7, <1>8 DEF OrderlyInv

LEMMA OrderlyPlain ==
  ASSUME OrderlyInv, h1 \in Handlers, PlainSteps(h1), ~UpdateRow(h1)
  PROVE  OrderlyInv'
  <1> DEFINE Starting == {"start_round", "claim_credit", "charge", "rollback", "update"}
             Mailing  == {"notify", "send", "revert"}
  \* From the start of a delivery to its update, along a mail, or at its end.
  <1>1. /\ pc[h1] # "idle" /\ pc[h1] # "update" /\ pc[h1] # "fetch"
        /\ UNCHANGED <<emitted, deliveries, event, row, fetches>>
        /\ \/ pc[h1] \in Starting /\ pc'[h1] \in Starting
           \/ pc[h1] \in Mailing /\ pc'[h1] \in Mailing \cup {"idle"}
           \/ pc[h1] = "complete" /\ pc'[h1] = "idle"
        /\ bot'.status = bot.status
        /\ DOMAIN bot' = {"status", "error_code", "credit_charged"} /\ DOMAIN pc' = Handlers
    <2>1. DOMAIN pc = Handlers /\ DOMAIN bot = {"status", "error_code", "credit_charged"}
      BY DEF OrderlyInv, OrderlyTypes
    <2> USE <2>1 DEF deliveryVars, historyVars
    <2>2. CASE StartRound(h1) \/ Rollback(h1)
      BY <2>2 DEF StartRound, Rollback
    <2>3. CASE ClaimCredit(h1) \/ ChargeCredit(h1)
      BY <2>3 DEF ClaimCredit, ChargeCredit
    <2>4. CASE Notify(h1)
      BY <2>4 DEF Notify
    <2>5. CASE SendMail(h1)
      BY <2>5 DEF SendMail
    <2>6. CASE RevertMarker(h1)
      BY <2>6 DEF RevertMarker
    <2>7. CASE CompleteRound(h1)
      BY <2>7 DEF CompleteRound
    <2> QED BY <2>2, <2>3, <2>4, <2>5, <2>6, <2>7 DEF PlainSteps
  <1>2. /\ \/ mails' = mails /\ pc'[h1] # "send" /\ (mails > 0 => bot'.error_code = bot.error_code)
           \/ mails' = mails /\ pc'[h1] = "send" /\ pc[h1] = "notify" /\ Alerted(bot)'
           \/ pc[h1] = "send" /\ pc'[h1] = "idle" /\ mails' = mails + 1 /\ bot' = bot
    <2>1. /\ DOMAIN pc = Handlers /\ DOMAIN bot = {"status", "error_code", "credit_charged"}
          /\ pc[h1] \in {"notify", "send", "revert"} => ~(mails > 0)
      BY DEF OrderlyInv, OrderlyTypes, MailInv
    <2> USE <2>1 DEF deliveryVars, historyVars
    <2>2. CASE StartRound(h1) \/ Rollback(h1)
      BY <2>2 DEF StartRound, Rollback
    <2>3. CASE ClaimCredit(h1) \/ ChargeCredit(h1)
      BY <2>3 DEF ClaimCredit, ChargeCredit
    <2>4. CASE Notify(h1)
      BY <2>4 DEF Notify, Alerted
    <2>5. CASE SendMail(h1)
      BY <2>5 DEF SendMail
    <2>6. CASE RevertMarker(h1)
      BY <2>6 DEF RevertMarker
    <2>7. CASE CompleteRound(h1)
      BY <2>7 DEF CompleteRound
    <2> QED BY <2>2, <2>3, <2>4, <2>5, <2>6, <2>7 DEF PlainSteps
  <1>3. OrderlyTypes'
    BY <1>1, <1>2 DEF OrderlyInv, OrderlyTypes
  <1>4. DoneDelivered' <=> DoneDelivered
    BY <1>1 DEF DoneDelivered
  <1>5. FetchInv'
    BY <1>1, <1>4 DEF OrderlyInv, FetchInv
  <1>6. MailInv'
    <2>1. mails \in Nat /\ mails <= 1
      BY DEF OrderlyInv, OrderlyTypes, MailInv
    <2> QED BY <1>1, <1>2, <2>1 DEF OrderlyInv, MailInv, Alerted
  <1> QED BY <1>3, <1>5, <1>6 DEF OrderlyInv

LEMMA OrderlyFetch ==
  ASSUME OrderlyInv, h1 \in Handlers,
         Orderly!FetchRecording(h1) \/ Orderly!DecideFeedbackPath(h1)
  PROVE  OrderlyInv'
  <1>1. /\ pc[h1] \in {"fetch", "decide"} /\ pc'[h1] \in {"decide", "complete", "idle"}
        /\ pc[h1] = "fetch" => fetches' = fetches + 1
        /\ pc[h1] = "decide" => fetches' = fetches
        /\ bot'.status \in {bot.status, "done"} /\ bot'.error_code = bot.error_code
        /\ UNCHANGED <<emitted, deliveries, event, row, mails>>
        /\ DOMAIN bot' = {"status", "error_code", "credit_charged"} /\ DOMAIN pc' = Handlers
    BY DEF OrderlyInv, OrderlyTypes, Orderly!FetchRecording, Orderly!DecideFeedbackPath,
           Orderly!deliveryVars, Orderly!historyVars
  <1>2. OrderlyTypes'
    BY <1>1 DEF OrderlyInv, OrderlyTypes
  <1>3. DoneDelivered' <=> DoneDelivered
    BY <1>1 DEF DoneDelivered
  <1>4. FetchInv'
    BY <1>1, <1>3 DEF OrderlyInv, OrderlyTypes, FetchInv
  <1>5. MailInv'
    BY <1>1 DEF OrderlyInv, MailInv, Alerted
  <1> QED BY <1>2, <1>4, <1>5 DEF OrderlyInv

LEMMA OrderlyKept ==
  ASSUME OrderlyInv, h1 \in Handlers, OrderlyNext \/ UNCHANGED vars
  PROVE  OrderlyInv'
  <1>1. CASE WorkerCompletes \/ UNCHANGED vars
    <2>1. UNCHANGED <<emitted, deliveries, bot, pc, event, row, mails, fetches>>
      BY <1>1 DEF WorkerCompletes, vars, deliveryVars, handlerVars, historyVars
    <2>2. DoneDelivered' <=> DoneDelivered
      BY <2>1 DEF DoneDelivered
    <2>3. OrderlyTypes'
      BY <2>1 DEF OrderlyInv, OrderlyTypes
    <2>4. FetchInv'
      BY <2>1, <2>2 DEF OrderlyInv, FetchInv
    <2>5. MailInv'
      BY <2>1 DEF OrderlyInv, MailInv, Alerted
    <2> QED BY <2>3, <2>4, <2>5 DEF OrderlyInv
  <1>2. CASE Emit
    BY <1>2, OrderlyEmit
  <1>3. CASE PlainSteps(h1)
    BY <1>3, OrderlyUpdate, OrderlyPlain
  <1>4. CASE Orderly!FetchRecording(h1) \/ Orderly!DecideFeedbackPath(h1)
    BY <1>4, OrderlyFetch
  <1>5. CASE \E i \in 1..MaxEvents : Orderly!Deliver(h1, i)
    BY <1>5, OrderlyDeliver
  <1> QED BY <1>1, <1>2, <1>3, <1>4, <1>5, OrderlySteps

\* A handler that gets the events of a bot in order, each as often as Recall
\* repeats it, fetches the recording once and mails the recruiter once, even
\* when a mail failed and its marker was taken back.
THEOREM InOrderOnce ==
  ASSUME h1 \in Handlers
  PROVE  SettingSpec => []OrderlyOnce
  <1> DEFINE Inv == setting = "in order" => OrderlyInv
  <1>1. SettingInit => Inv
    BY OrderlyFirst DEF SettingInit
  <1>2. Inv /\ [SettingNext]_allVars => Inv'
    <2> SUFFICES ASSUME Inv, [SettingNext]_allVars, setting' = "in order"
                 PROVE  OrderlyInv'
      OBVIOUS
    <2>1. setting = "in order" /\ (OrderlyNext \/ UNCHANGED vars)
      BY DEF SettingNext, allVars
    <2> QED BY <2>1, OrderlyKept
  <1>3. Inv => OrderlyOnce
    BY DEF OrderlyOnce, OrderlyInv, FetchInv, MailInv, FetchOnce, MailOnce
  <1> QED BY <1>1, <1>2, <1>3, PTL DEF SettingSpec

-----------------------------------------------------------------------------
(* What becomes of the round when events are handled in order.             *)

RecordingDelivered ==
    \E i \in 1..MaxEvents : /\ i <= Len(emitted) /\ deliveries[i] > 0
                            /\ emitted[i].code = "in_call_recording"

\* The feedback worker will complete the round, or somebody has.
Finished == analysing \/ round = "completed"

\* A call that recorded and is done has its round completed, or soon.
CallIsOver == DoneDelivered /\ Emitted("in_call_recording")

\* No event is skipped; a recorded call has started its round, which ends only
\* after done; a replay of done finds the row of the first one, and its work.
RoundInv ==
    /\ \A i \in 1..MaxEvents : deliveries[i] > 0 => \A k \in 1..(i - 1) : deliveries[k] > 0
    /\ round \in {"scheduled", "in_progress", "completed"}
    /\ RecordingDelivered => round # "scheduled" \/ pc[h1] = "start_round"
    /\ Finished \/ bot.status = "done" => DoneDelivered
    /\ DoneDelivered /\ pc[h1] = "idle" => bot.status = "done"
    /\ pc[h1] \in {"fetch", "decide", "complete"} => bot.status = "done"
    /\ CallIsOver => /\ pc[h1] = "idle" => Finished
                     /\ pc[h1] = "update" /\ row[h1].status = "done" => Finished

LEMMA RoundFirst ==
  ASSUME Init, h1 \in Handlers
  PROVE  RoundInv
  <1>1. /\ \A i \in 1..MaxEvents : deliveries[i] = 0
        /\ pc[h1] = "idle" /\ round = "scheduled" /\ analysing = FALSE
        /\ bot.status = "created"
    BY DEF Init, NewRow
  <1>2. ~DoneDelivered /\ ~RecordingDelivered /\ ~Finished
    BY <1>1 DEF DoneDelivered, RecordingDelivered, Finished
  <1> QED BY <1>1, <1>2 DEF RoundInv, CallIsOver

\* A step that changes nothing of all this.
LEMMA RoundUntouched ==
  ASSUME RoundInv, UNCHANGED <<emitted, deliveries, bot, round, pc, row, analysing>>
  PROVE  RoundInv'
  <1>1. (DoneDelivered' <=> DoneDelivered) /\ (RecordingDelivered' <=> RecordingDelivered)
    BY DEF DoneDelivered, RecordingDelivered
  <1>2. (Finished' <=> Finished) /\ (CallIsOver' <=> CallIsOver)
    BY <1>1 DEF Finished, CallIsOver, Emitted
  <1> QED BY <1>1, <1>2 DEF RoundInv

LEMMA RoundEmit ==
  ASSUME OrderlyInv, RoundInv, Emit
  PROVE  RoundInv'
  <1>1. PICK e \in Event : Follows(e.code, e.blocked) /\ emitted' = Append(emitted, e)
    BY DEF Emit
  <1>2. UNCHANGED <<deliveries, bot, round, pc, row, analysing>>
    BY DEF Emit, handlerVars, historyVars
  <1>3. emitted \in Seq(Event) /\ Len(emitted) \in Nat
    BY DEF OrderlyInv, OrderlyTypes
  <1>4. /\ Len(emitted') = Len(emitted) + 1
        /\ \A i \in 1..Len(emitted) : emitted'[i] = emitted[i]
    BY <1>1, <1>3
  <1>5. \A i \in 1..MaxEvents : deliveries[i] > 0 => i \in 1..Len(emitted)
    BY <1>3 DEF OrderlyInv, FetchInv, MaxEvents
  <1>6. (DoneDelivered' <=> DoneDelivered) /\ (RecordingDelivered' <=> RecordingDelivered)
    BY <1>2, <1>3, <1>4, <1>5 DEF DoneDelivered, RecordingDelivered, MaxEvents
  <1>7. ~DoneDelivered
    <2> SUFFICES ASSUME NEW i \in 1..MaxEvents, deliveries[i] > 0, emitted[i].code = "done"
                 PROVE  FALSE
      BY DEF DoneDelivered
    <2>1. i \in 1..Len(emitted) /\ i = Len(emitted)
      BY <1>5 DEF OrderlyInv, FetchInv
    <2>2. emitted # <<>>
      BY <1>3, <2>1
    <2> QED BY <1>1, <2>1, <2>2 DEF Follows
  <1>8. Finished' <=> Finished
    BY <1>2 DEF Finished
  <1> QED BY <1>2, <1>6, <1>7, <1>8 DEF RoundInv, CallIsOver

LEMMA RoundDeliver ==
  ASSUME OrderlyInv, RoundInv, h1 \in Handlers, NEW i \in 1..MaxEvents, Orderly!Deliver(h1, i)
  PROVE  RoundInv'
  <1>1. /\ pc[h1] = "idle" /\ i <= Len(emitted)
        /\ \A k \in 1..MaxEvents : k > i => deliveries[k] = 0
        /\ \A k \in 1..(i - 1) : deliveries[k] > 0
        /\ deliveries' = [deliveries EXCEPT ![i] = @ + 1]
        /\ row' = [row EXCEPT ![h1] = bot]
        /\ pc' = [pc EXCEPT ![h1] = Orderly!FirstStep(emitted[i].code)]
        /\ UNCHANGED <<emitted, bot, round, analysing>>
    BY DEF Orderly!Deliver, Orderly!MaxEvents, MaxEvents, Orderly!historyVars
  <1>2. i \in Nat /\ i > 0 /\ deliveries \in [1..MaxEvents -> Nat] /\ MaxEvents \in Nat
    BY DEF OrderlyInv, OrderlyTypes, MaxEvents
  <1>3. /\ deliveries'[i] > 0 /\ \A k \in 1..MaxEvents : k # i => deliveries'[k] = deliveries[k]
        /\ row'[h1] = bot /\ pc'[h1] = Orderly!FirstStep(emitted[i].code)
    BY <1>1, <1>2 DEF OrderlyInv, OrderlyTypes
  <1>4. \A j \in 1..MaxEvents : deliveries'[j] > 0 => \A k \in 1..(j - 1) : deliveries'[k] > 0
    <2> SUFFICES ASSUME NEW j \in 1..MaxEvents, deliveries'[j] > 0, NEW k \in 1..(j - 1)
                 PROVE  deliveries'[k] > 0
      OBVIOUS
    <2>1. k \in 1..MaxEvents /\ j \in Nat /\ k \in Nat /\ k < j
      BY <1>2
    <2>2. CASE j = i
      BY <1>1, <1>2, <1>3, <2>1, <2>2
    <2>3. CASE j # i
      <3>1. deliveries[j] > 0 /\ deliveries[k] > 0
        BY <1>3, <2>3 DEF RoundInv
      <3> QED BY <1>3, <2>1, <3>1
    <2> QED BY <2>2, <2>3
  <1>5. /\ emitted[i].code = "in_call_recording" <=> Orderly!FirstStep(emitted[i].code) = "start_round"
        /\ Orderly!FirstStep(emitted[i].code) # "idle"
    BY DEF Orderly!FirstStep
  <1>6. /\ DoneDelivered => DoneDelivered'
        /\ DoneDelivered' => DoneDelivered \/ emitted[i].code = "done"
        /\ RecordingDelivered' => RecordingDelivered \/ emitted[i].code = "in_call_recording"
    BY <1>1, <1>3 DEF DoneDelivered, RecordingDelivered
  <1>7. (Finished' <=> Finished) /\ (CallIsOver => Finished)
    BY <1>1 DEF Finished, RoundInv
  <1>8. bot.status = "done" => DoneDelivered
    BY DEF RoundInv
  <1>9. CallIsOver' /\ row'[h1].status = "done" => CallIsOver
    BY <1>1, <1>3, <1>8 DEF CallIsOver, Emitted
  <1>10. /\ pc'[h1] \in {"start_round", "rollback", "update"}
         /\ RecordingDelivered' => round' # "scheduled" \/ pc'[h1] = "start_round"
    BY <1>1, <1>3, <1>5, <1>6 DEF RoundInv, Orderly!FirstStep
  <1>11. CallIsOver' /\ row'[h1].status = "done" => Finished'
    BY <1>7, <1>9
  <1> QED BY <1>1, <1>4, <1>6, <1>7, <1>8, <1>10, <1>11 DEF RoundInv

\* What the other steps do, seen from the round.
LEMMA RoundSteps ==
  ASSUME OrderlyInv, RoundInv, h1 \in Handlers,
         UNCHANGED <<emitted, deliveries, row>>,
         (Finished \/ bot.status = "done")' => DoneDelivered,
         round' \in {"scheduled", "in_progress", "completed"},
         RecordingDelivered => round' # "scheduled" \/ pc'[h1] = "start_round",
         DoneDelivered /\ pc'[h1] = "idle" => bot'.status = "done",
         pc'[h1] \in {"fetch", "decide", "complete"} => bot'.status = "done",
         CallIsOver /\ pc'[h1] = "idle" => Finished',
         pc'[h1] # "update" \/ ~DoneDelivered
  PROVE  RoundInv'
  <1>1. (DoneDelivered' <=> DoneDelivered) /\ (RecordingDelivered' <=> RecordingDelivered)
    BY DEF DoneDelivered, RecordingDelivered
  <1>2. CallIsOver' <=> CallIsOver
    BY <1>1 DEF CallIsOver, Emitted
  <1> QED BY <1>1, <1>2 DEF RoundInv, CallIsOver

\* Past its start, a call that is over started its round.
LEMMA OverIsStarted ==
  ASSUME OrderlyInv, RoundInv, CallIsOver, pc[h1] # "start_round"
  PROVE  round # "scheduled"
  <1>1. PICK d \in 1..MaxEvents : d <= Len(emitted) /\ deliveries[d] > 0 /\ emitted[d].code = "done"
    BY DEF CallIsOver, DoneDelivered
  <1>2. PICK r \in 1..Len(emitted) : emitted[r].code = "in_call_recording"
    BY DEF CallIsOver, Emitted
  <1>3. d \in Nat /\ r \in Nat /\ Len(emitted) \in Nat /\ d > 0 /\ r > 0
    BY DEF OrderlyInv, OrderlyTypes, MaxEvents
  <1>4. d = Len(emitted) /\ r # d
    BY <1>1, <1>2, <1>3 DEF OrderlyInv, FetchInv
  <1>5. r \in 1..(d - 1) /\ r \in 1..MaxEvents /\ r <= Len(emitted)
    BY <1>2, <1>3, <1>4 DEF MaxEvents
  <1>6. deliveries[r] > 0
    BY <1>1, <1>5 DEF RoundInv
  <1> QED BY <1>2, <1>5, <1>6 DEF RoundInv, RecordingDelivered

LEMMA RoundPlain ==
  ASSUME OrderlyInv, RoundInv, h1 \in Handlers, PlainSteps(h1)
  PROVE  RoundInv'
  <1> USE DEF deliveryVars, historyVars
  <1>0. DOMAIN pc = Handlers /\ DOMAIN bot = {"status", "error_code", "credit_charged"}
    BY DEF OrderlyInv, OrderlyTypes
  <1>1. /\ Finished \/ bot.status = "done" => DoneDelivered
        /\ round \in {"scheduled", "in_progress", "completed"}
        /\ RecordingDelivered => round # "scheduled" \/ pc[h1] = "start_round"
        /\ CallIsOver /\ pc[h1] = "update" /\ row[h1].status = "done" => Finished
    BY DEF RoundInv
  <1>2. /\ DoneDelivered /\ pc[h1] # "idle"
              => event[h1].code = "done" /\ pc[h1] \in {"update", "fetch", "decide", "complete"}
        /\ pc[h1] # "idle" /\ event[h1].code = "done" => DoneDelivered
    BY DEF OrderlyInv, FetchInv
  <1>3. CASE StartRound(h1)
    <2>1. /\ pc[h1] = "start_round" /\ round' = "in_progress"
          /\ pc'[h1] \in {"update", "claim_credit"}
          /\ UNCHANGED <<emitted, deliveries, row, bot, analysing>>
      BY <1>0, <1>3 DEF StartRound
    <2>2. ~DoneDelivered
      BY <1>2, <2>1
    <2>3. (Finished \/ bot.status = "done")' => DoneDelivered
      BY <1>1, <2>1 DEF Finished
    <2> QED BY <2>1, <2>2, <2>3, RoundSteps
  <1>4. CASE ClaimCredit(h1) \/ ChargeCredit(h1) \/ Rollback(h1)
    <2>1. /\ pc[h1] \in {"claim_credit", "charge", "rollback"} /\ pc'[h1] \in {"charge", "update"}
          /\ round' = round
          /\ UNCHANGED <<emitted, deliveries, row, analysing>> /\ bot'.status = bot.status
      BY <1>0, <1>1, <1>4 DEF ClaimCredit, ChargeCredit, Rollback, RolledBack
    <2> QED BY <1>1, <1>2, <2>1, RoundSteps DEF Finished
  <1>5. CASE UpdateRow(h1)
    <2>1. /\ pc[h1] = "update" /\ bot'.status = DbStatus(event[h1].code)
          /\ pc'[h1] = IF NotifyEnqueued(h1) THEN "notify"
                       ELSE IF FetchEnqueued(h1) THEN "fetch" ELSE "idle"
          /\ UNCHANGED <<emitted, deliveries, row, round, analysing>>
      BY <1>0, <1>5 DEF UpdateRow
    <2>2. bot'.status = "done" <=> event[h1].code = "done"
      BY <2>1 DEF DbStatus, OrderlyInv
    <2>3. /\ DoneDelivered <=> event[h1].code = "done"
          /\ DoneDelivered /\ pc'[h1] = "idle" => row[h1].status = "done"
          /\ pc'[h1] = "fetch" => event[h1].code = "done"
      BY <1>2, <2>1 DEF NotifyEnqueued, EndsCall, FetchEnqueued
    <2>4. CallIsOver => DoneDelivered
      BY DEF CallIsOver
    <2> QED BY <1>1, <2>1, <2>2, <2>3, <2>4, RoundSteps DEF Finished
  <1>6. CASE Notify(h1) \/ SendMail(h1) \/ RevertMarker(h1)
    <2>1. /\ pc[h1] \in {"notify", "send", "revert"} /\ pc'[h1] \in {"send", "revert", "idle"}
          /\ UNCHANGED <<emitted, deliveries, row, round, analysing>> /\ bot'.status = bot.status
      BY <1>0, <1>6 DEF Notify, SendMail, RevertMarker
    <2>2. ~DoneDelivered /\ ~CallIsOver
      BY <1>2, <2>1 DEF CallIsOver
    <2> QED BY <1>1, <2>1, <2>2, RoundSteps DEF Finished
  <1>7. CASE CompleteRound(h1)
    <2>1. /\ pc[h1] = "complete" /\ pc'[h1] = "idle"
          /\ round' = (IF round = "in_progress" THEN "completed" ELSE round)
          /\ UNCHANGED <<emitted, deliveries, row, bot, analysing>>
      BY <1>0, <1>7 DEF CompleteRound, CompletedRound
    <2>2. DoneDelivered /\ bot.status = "done"
      BY <2>1 DEF RoundInv
    <2>3. CallIsOver => round # "scheduled"
      BY <2>1, OverIsStarted
    <2> QED BY <1>1, <2>1, <2>2, <2>3, RoundSteps DEF Finished
  <1> QED BY <1>3, <1>4, <1>5, <1>6, <1>7 DEF PlainSteps

LEMMA RoundFetch ==
  ASSUME OrderlyInv, RoundInv, h1 \in Handlers,
         Orderly!FetchRecording(h1) \/ Orderly!DecideFeedbackPath(h1)
  PROVE  RoundInv'
  <1>1. /\ pc[h1] \in {"fetch", "decide"}
        /\ \/ pc[h1] = "fetch" /\ pc'[h1] = "decide" /\ analysing' = analysing
           \/ pc[h1] = "decide" /\ pc'[h1] = "idle" /\ analysing'
           \/ pc[h1] = "decide" /\ pc'[h1] = "complete" /\ analysing' = analysing
        /\ bot'.status \in {bot.status, "done"}
        /\ UNCHANGED <<emitted, deliveries, row, round>>
    BY DEF OrderlyInv, OrderlyTypes, Orderly!FetchRecording, Orderly!DecideFeedbackPath,
           Orderly!deliveryVars, Orderly!historyVars
  <1>2. /\ bot.status = "done" /\ DoneDelivered /\ round \in {"scheduled", "in_progress", "completed"}
        /\ RecordingDelivered => round # "scheduled" \/ pc[h1] = "start_round"
    BY <1>1 DEF RoundInv
  <1> QED BY <1>1, <1>2, RoundSteps DEF Finished

LEMMA RoundWorker ==
  ASSUME OrderlyInv, RoundInv, h1 \in Handlers, WorkerCompletes
  PROVE  RoundInv'
  <1>1. /\ analysing /\ round' = "completed" /\ analysing' = FALSE
        /\ UNCHANGED <<emitted, deliveries, bot, pc, event, row>>
    BY DEF WorkerCompletes, deliveryVars, handlerVars, historyVars
  <1>2. (DoneDelivered' <=> DoneDelivered) /\ (RecordingDelivered' <=> RecordingDelivered)
    BY <1>1 DEF DoneDelivered, RecordingDelivered
  <1>3. Finished /\ Finished'
    BY <1>1 DEF Finished
  <1> QED BY <1>1, <1>2, <1>3 DEF RoundInv

LEMMA RoundKept ==
  ASSUME OrderlyInv, RoundInv, h1 \in Handlers, OrderlyNext \/ UNCHANGED vars
  PROVE  RoundInv'
  <1>1. CASE UNCHANGED vars
    BY <1>1, RoundUntouched DEF vars, deliveryVars, handlerVars, historyVars
  <1>2. CASE OrderlyNext
    BY <1>2, OrderlySteps, RoundEmit, RoundWorker, RoundPlain, RoundFetch, RoundDeliver
  <1> QED BY <1>1, <1>2

\* The invariant of the setting "in order".
OrderInv == setting = "in order" => OrderlyInv /\ RoundInv

LEMMA OrderKept ==
  ASSUME h1 \in Handlers, OrderInv, [SettingNext]_allVars
  PROVE  OrderInv'
  <1> SUFFICES ASSUME setting' = "in order" PROVE OrderlyInv' /\ RoundInv'
    BY DEF OrderInv
  <1>1. setting = "in order" /\ (OrderlyNext \/ UNCHANGED vars)
    BY DEF SettingNext, allVars
  <1> QED BY <1>1, OrderlyKept, RoundKept DEF OrderInv

\* What is left when the events of a recorded call have been handled in order
\* and nothing is under way is a completed round: the decision after the fetch
\* is lost neither to a replay of done nor to the row being done already.
THEOREM OrderlyCallCompletes ==
  ASSUME h1 \in Handlers
  PROVE  SettingSpec => [](setting = "in order" /\ CallIsOver /\ pc[h1] = "idle" /\ ~analysing
                             => round = "completed")
  <1>1. SettingInit => OrderInv
    BY OrderlyFirst, RoundFirst DEF SettingInit, OrderInv
  <1>2. OrderInv => (setting = "in order" /\ CallIsOver /\ pc[h1] = "idle" /\ ~analysing
                       => round = "completed")
    BY DEF OrderInv, RoundInv, Finished
  <1> QED BY <1>1, <1>2, OrderKept, PTL DEF SettingSpec

\* Handled in order, a completed round stays completed: only events that come
\* late take it back (section 5 of the README, recall_round_reopens).
THEOREM OrderlyRoundStays ==
  ASSUME h1 \in Handlers
  PROVE  SettingSpec =>
           [][setting = "in order" /\ round = "completed" => round' = "completed"]_allVars
  <1>1. SettingInit => OrderInv
    BY OrderlyFirst, RoundFirst DEF SettingInit, OrderInv
  <1>2. OrderInv /\ [SettingNext]_allVars =>
          [setting = "in order" /\ round = "completed" => round' = "completed"]_allVars
    <2> SUFFICES ASSUME OrderlyInv, RoundInv, OrderlyNext, round = "completed"
                 PROVE  round' = "completed"
      BY DEF OrderInv, SettingNext
    <2>1. DoneDelivered
      BY DEF RoundInv, Finished
    <2>2. pc[h1] \notin {"start_round", "rollback"}
      BY <2>1 DEF OrderlyInv, FetchInv
    <2>3. Emit \/ WorkerCompletes => round' = "completed"
      BY DEF Emit, WorkerCompletes
    <2>4. PlainSteps(h1) => round' = "completed"
      BY <2>2 DEF PlainSteps, StartRound, ClaimCredit, ChargeCredit, Rollback, UpdateRow, Notify,
                  SendMail, RevertMarker, CompleteRound, CompletedRound
    <2>5. Orderly!FetchRecording(h1) \/ Orderly!DecideFeedbackPath(h1) => round' = "completed"
      BY DEF Orderly!FetchRecording, Orderly!DecideFeedbackPath
    <2>6. \A i \in 1..MaxEvents : Orderly!Deliver(h1, i) => round' = "completed"
      BY DEF Orderly!Deliver
    <2> QED BY <2>3, <2>4, <2>5, <2>6, OrderlySteps
  <1> QED BY <1>1, <1>2, OrderKept, PTL DEF SettingSpec

-----------------------------------------------------------------------------
(* Both settings are behaviours of the handler.                            *)

\* A step of either setting is a step of RecallBot: "hostile" bounds which
\* events are repeated, "in order" restricts their order and their outcomes.
LEMMA SettingSteps ==
  ASSUME h1 \in Handlers, "stored" \in FetchOutcomes, [SettingNext]_allVars
  PROVE  [Next]_vars
  <1>1. CASE OrderlyNext
    <2>1. Orderly!FetchRecording(h1) => FetchRecording(h1)
      BY DEF Orderly!FetchRecording, FetchRecording, Orderly!deliveryVars, deliveryVars
    <2>2. Orderly!DecideFeedbackPath(h1) => DecideFeedbackPath(h1)
      BY DEF Orderly!DecideFeedbackPath, DecideFeedbackPath, Orderly!deliveryVars, deliveryVars,
             Orderly!historyVars, historyVars
    <2>3. ASSUME NEW i \in 1..MaxEvents, Orderly!Deliver(h1, i) PROVE Deliver(h1, i)
      BY <2>3 DEF Orderly!Deliver, Deliver, Orderly!MaxEvents, MaxEvents, Orderly!FirstStep,
                  FirstStep, Orderly!historyVars, historyVars
    <2> QED BY <1>1, <2>1, <2>2, <2>3, OrderlySteps DEF Next, Step, PlainSteps
  <1>2. CASE HostileNext
    BY <1>2 DEF HostileNext, Next
  <1>3. CASE UNCHANGED allVars
    BY <1>3 DEF allVars
  <1> QED BY <1>1, <1>2, <1>3 DEF SettingNext

\* The setting that delivers in order with one handler, as the one that
\* delivers anything any time, implements RecallBot: what is proved of Spec for
\* every number of handlers is proved of the behaviours the run explores.
THEOREM SettingImplements ==
  ASSUME h1 \in Handlers, "stored" \in FetchOutcomes
  PROVE  SettingSpec => Spec
  <1>1. SettingInit => Init
    BY DEF SettingInit
  <1>2. [SettingNext]_allVars => [Next]_vars
    BY SettingSteps
  <1> QED BY <1>1, <1>2, PTL DEF SettingSpec, Spec
=============================================================================
