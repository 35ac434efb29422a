-------------------------- MODULE MCRecallSettings --------------------------
(* One bot in the setting chosen at the start: "hostile", where deliveries *)
(* overlap, come twice, out of order and die with the process (the         *)
(* constants of the cfg), and "in order", where one handler gets every     *)
(* event up to three times, none after a later one.                        *)
EXTENDS RecallBot

CONSTANTS h1, h2
VARIABLE setting

TwoHandlers == {h1, h2}
AllOutcomes == {"stored", "absent", "raises"}

Orderly == INSTANCE RecallBot WITH
    InOrder <- TRUE, MayCrash <- FALSE, FetchOutcomes <- {"stored"}

allVars == <<vars, setting>>

\* When hostile, up to five deliveries, no more than two of the same event.
HostileMax == 5
Repeatable(i) ==
    /\ deliveries[i] < 2
    /\ deliveries[1] + deliveries[2] + deliveries[3] + deliveries[4] < HostileMax

\* The two handlers are alike: the first idle one takes a delivery.
HostileNext ==
    \/ Emit \/ WorkerCompletes \/ Crash
    \/ \E h \in Handlers :
          \/ Step(h)
          \/ /\ h = h1 \/ pc[h1] # "idle"
             /\ \E i \in 1..MaxEvents : Repeatable(i) /\ Deliver(h, i)

OrderlyNext ==
    \/ Orderly!Emit \/ Orderly!WorkerCompletes
    \/ Orderly!Step(h1) \/ \E i \in 1..MaxEvents : Orderly!Deliver(h1, i)

SettingNext ==
    /\ \/ setting = "hostile" /\ HostileNext
       \/ setting = "in order" /\ OrderlyNext
    /\ UNCHANGED setting

Orders(A) == setting = "in order" /\ UNCHANGED setting /\ A

SettingInit ==
    /\ Init
    /\ setting \in {"hostile", "in order"}

\* Recall delivers every event at least once, a handler that runs keeps
\* running, and the feedback worker finishes (Fairness of RecallBot).
SettingSpec ==
    /\ SettingInit
    /\ [][SettingNext]_allVars
    /\ \A i \in 1..MaxEvents : WF_allVars(Orders(deliveries[i] = 0 /\ Orderly!Deliver(h1, i)))
    /\ WF_allVars(Orders(Orderly!Step(h1)))
    /\ WF_allVars(Orders(Orderly!WorkerCompletes))

\* Handled in order, the events of a bot fetch its recording once and mail the
\* recruiter once, however often each of them is repeated (FetchOnce, MailOnce).
OrderlyOnce == setting = "in order" => FetchOnce /\ MailOnce

Emitted(code) == \E i \in 1..Len(emitted) : emitted[i].code = code

\* Handled in order, a bot that recorded and is done leaves the round completed
\* for good: by the worker when feedback was captured, else by the handler.
OrderlyRoundCompletes ==
    setting = "in order" /\ Emitted("in_call_recording") /\ Emitted("done")
        ~> [](round = "completed")
=============================================================================
