---------------------------- MODULE IntakeCanvas ----------------------------
(***************************************************************************)
(* An intake session on the recruiter's canvas.  The row is watched        *)
(* through realtime pushes with a poll beside them (subscribeIntakeSession)*)
(* and read again by REST; the stage shown is derived from the row that    *)
(* was read last.  The canvas submits the session by itself once every     *)
(* goal is resolved, and on a button; the backend hands it to a worker,    *)
(* which stores the interview plan or the failure.  A text turn may still  *)
(* be on its way when the session is submitted.                            *)
(***************************************************************************)
EXTENDS Naturals

CONSTANTS
    Fetches,          \* slots, numbered, of the reads under way at a time
    NoRow,            \* no row read yet
    MaxCauses         \* bound on the clicks, toggles of the call, failed reads,
                      \* text turns and losses of the channel together

Row == [status : {"ready", "active", "submitted"}, process : {"idle", "running", "failed"},
        plan : BOOLEAN, resolved : BOOLEAN, ver : Nat]

ASSUME CanvasAssumption ==
    Fetches \subseteq Nat \ {0} /\ NoRow \notin Row /\ MaxCauses \in Nat

VARIABLES
    row,              \* the row of intake_sessions
    jobs,             \* worker jobs running
    runs,             \* worker jobs ever started
    unsubmitted,      \* a text turn set a submitted row back to active
    shown,            \* session of the provider
    broken,           \* its error: the canvas shows that instead
    fetches,          \* fetches[f]: a read under way
    latest,           \* the read whose mySeq is refetchSeq, 0 once it ended
    polling,          \* pollTimer # null
    channel,          \* the realtime channel
    pushed,           \* a push is on its way
    pending,          \* pendingTransition: plan_generating
    inFlight,         \* submitInFlightFor
    posts,            \* the POST of the submit hook and that of Retry
    deps,             \* what the auto-submit effect ran on last
    due,              \* the effect is about to run with its condition met
    live,             \* hasLiveWebRTC
    turn,             \* the text turn under way
    causes,           \* clicks, toggles, failed reads and text turns so far
    breaks            \* losses of the channel so far

subVars    == <<shown, broken, fetches, latest, polling, channel, pushed>>
submitVars == <<pending, inFlight, posts, deps, due>>
canvasVars == <<row, jobs, runs, unsubmitted, subVars, submitVars, live, turn, causes, breaks>>

Posts   == {"hook", "retry"}
NoDeps  == [can |-> FALSE, resolved |-> FALSE, live |-> FALSE, failed |-> FALSE]
NoFetch == [st |-> "free", got |-> NoRow]

Cause == causes + breaks < MaxCauses /\ causes' = causes + 1 /\ UNCHANGED breaks

CanvasInit ==
    /\ row = [status |-> "ready", process |-> "idle", plan |-> FALSE, resolved |-> FALSE, ver |-> 0]
    /\ jobs = 0 /\ runs = 0 /\ unsubmitted = FALSE
    /\ shown = NoRow /\ broken = FALSE
    /\ fetches = [f \in Fetches |-> NoFetch] /\ latest = 0
    /\ polling = TRUE /\ channel = "joined" /\ pushed = FALSE
    /\ pending = FALSE /\ inFlight = FALSE
    /\ posts = [p \in Posts |-> "none"]
    /\ deps = NoDeps /\ due = FALSE
    /\ live = FALSE /\ turn = "none"
    /\ causes = 0 /\ breaks = 0

\* An update of the row, which a joined channel announces.
Update(change) ==
    /\ row' = [change EXCEPT !.ver = row.ver + 1]
    /\ pushed' = (pushed \/ channel = "joined")

-----------------------------------------------------------------------------
(* The canvas: what it shows and what its auto-submit effect does.         *)

\* deriveStage, with the stages of the conversation as one.
Stage ==
    CASE pending -> "generating"
      [] ~pending /\ (broken \/ shown = NoRow) -> "none"
      [] OTHER -> CASE shown.process = "failed" -> "failed"
                    [] shown.process # "failed" /\ shown.status = "submitted" ->
                          IF shown.plan THEN "editing" ELSE "generating"
                    [] OTHER -> "open"

\* Mutant: a failed run does not hold the automatic submit back.
WantedAgain(d) == d.can /\ d.resolved /\ ~d.live

Wanted(d) == d.can /\ d.resolved /\ ~d.live /\ ~d.failed

\* After a render: the effect runs when one of the values it depends on changed.
Rendered(now, error, call) ==
    LET seen == IF now = NoRow \/ error THEN NoDeps
                ELSE [can |-> now.status \in {"ready", "active"}, resolved |-> now.resolved,
                      live |-> call, failed |-> now.process = "failed"]
    IN  /\ deps' = seen
        /\ due' = IF seen = deps THEN due ELSE Wanted(seen)

-----------------------------------------------------------------------------
(* The subscription.                                                       *)

Refetch ==
    \E f \in Fetches :
       /\ fetches[f].st = "free" /\ \A g \in Fetches : g < f => fetches[g].st # "free"
       /\ fetches' = [fetches EXCEPT ![f].st = "sent"]
       /\ latest' = f

Poll ==
    /\ polling
    /\ Refetch
    /\ UNCHANGED <<row, jobs, runs, unsubmitted, shown, broken, polling, channel, pushed, submitVars, live, turn, causes, breaks>>

\* A push stops the poll.
Pushed ==
    /\ pushed
    /\ pushed' = FALSE
    /\ polling' = FALSE
    /\ Refetch
    /\ UNCHANGED <<row, jobs, runs, unsubmitted, shown, broken, channel, submitVars, live, turn, causes, breaks>>

Joined ==
    /\ channel = "joining"
    /\ channel' = "joined"
    /\ UNCHANGED <<row, jobs, runs, unsubmitted, shown, broken, fetches, latest, polling, pushed, submitVars, live, turn, causes, breaks>>

\* The channel dies, with what was on its way.
Breaks ==
    /\ channel = "joined" /\ causes + breaks < MaxCauses /\ breaks' = breaks + 1
    /\ channel' = "dead"
    /\ pushed' = FALSE
    /\ UNCHANGED <<row, jobs, runs, unsubmitted, shown, broken, fetches, latest, polling, submitVars, live, turn, causes>>

\* Mutant: an error of the channel does not start the poll again.
PollAfterErrorNot == polling

PollAfterError == TRUE

\* CHANNEL_ERROR, TIMED_OUT or CLOSED: the poll starts again.
ChannelError ==
    /\ channel = "dead"
    /\ channel' = "joining"
    /\ polling' = PollAfterError
    /\ UNCHANGED <<row, jobs, runs, unsubmitted, shown, broken, fetches, latest, pushed, submitVars, live, turn, causes, breaks>>

Read(f) ==
    /\ fetches[f].st = "sent"
    /\ fetches' = [fetches EXCEPT ![f] = [st |-> "read", got |-> row]]
    /\ UNCHANGED <<row, jobs, runs, unsubmitted, shown, broken, latest, polling, channel, pushed, submitVars, live, turn, causes, breaks>>

\* Mutant: every answer is applied.
AppliesAny(f) == TRUE

Applies(f) == latest = f

Arrives(f) ==
    /\ fetches[f].st = "read"
    /\ fetches' = [fetches EXCEPT ![f] = NoFetch]
    /\ IF Applies(f)
       THEN /\ shown' = fetches[f].got /\ broken' = FALSE
            /\ latest' = 0
            /\ Rendered(fetches[f].got, FALSE, live)
       ELSE UNCHANGED <<shown, broken, latest, deps, due>>
    /\ UNCHANGED <<row, jobs, runs, unsubmitted, polling, channel, pushed, pending, inFlight, posts, live, turn, causes, breaks>>

FetchFails(f) ==
    /\ fetches[f].st # "free" /\ Cause
    /\ fetches' = [fetches EXCEPT ![f] = NoFetch]
    /\ IF Applies(f)
       THEN /\ broken' = TRUE /\ latest' = 0
            /\ Rendered(shown, TRUE, live)
       ELSE UNCHANGED <<broken, latest, deps, due>>
    /\ UNCHANGED <<row, jobs, runs, unsubmitted, shown, polling, channel, pushed, pending, inFlight, posts, live, turn>>

-----------------------------------------------------------------------------
(* Submitting.                                                             *)

\* submit() of the hook, under the guard of the store.
Submit ==
    IF inFlight THEN UNCHANGED <<inFlight, pending, posts>>
    ELSE /\ inFlight' = TRUE /\ pending' = TRUE
         /\ posts' = [posts EXCEPT !["hook"] = "sent"]

AutoSubmit ==
    /\ due
    /\ due' = FALSE
    /\ Submit
    /\ UNCHANGED <<row, jobs, runs, unsubmitted, subVars, deps, live, turn, causes, breaks>>

ClickSubmit ==
    /\ Stage = "open" /\ Cause
    /\ Submit
    /\ UNCHANGED <<row, jobs, runs, unsubmitted, subVars, deps, due, live, turn>>

\* Retry has a guard of its own only.
ClickRetry ==
    /\ Stage = "failed" /\ posts["retry"] = "none" /\ Cause
    /\ posts' = [posts EXCEPT !["retry"] = "sent"]
    /\ UNCHANGED <<row, jobs, runs, unsubmitted, subVars, pending, inFlight, deps, due, live, turn>>

PendingExpires ==
    /\ pending
    /\ pending' = FALSE
    /\ UNCHANGED <<row, jobs, runs, unsubmitted, subVars, inFlight, posts, deps, due, live, turn, causes, breaks>>

Moves(p, st) == posts' = [posts EXCEPT ![p] = st]

Submittable == row.status \in {"ready", "active"}

\* IntakeSubmitService.submit: the check on the row it loaded.
LoadForSubmit(p) ==
    /\ posts[p] = "sent"
    /\ Moves(p, IF Submittable THEN "loaded" ELSE "refused")
    /\ UNCHANGED <<row, jobs, runs, unsubmitted, subVars, pending, inFlight, deps, due, live, turn, causes, breaks>>

\* Mutant: the update has no guard.
WonAlways == TRUE

Won == Submittable

\* The guarded update.
Flip(p) ==
    /\ posts[p] = "loaded"
    /\ IF Won
       THEN /\ Update([row EXCEPT !.status = "submitted", !.process = "running"])
            /\ Moves(p, "flipped")
       ELSE Moves(p, "refused") /\ UNCHANGED <<row, pushed>>
    /\ UNCHANGED <<jobs, runs, unsubmitted, shown, broken, fetches, latest, polling, channel, pending, inFlight, deps, due, live, turn, causes, breaks>>

\* The worker takes the job.
Invoke(p) ==
    /\ posts[p] = "flipped"
    /\ jobs' = jobs + 1 /\ runs' = runs + 1
    /\ Moves(p, "ok")
    /\ UNCHANGED <<row, unsubmitted, subVars, pending, inFlight, deps, due, live, turn, causes, breaks>>

\* A submit that failed can be tried again.
RolledBack == [row EXCEPT !.status = "ready", !.process = "failed"]

\* Or not, and the status is rolled back.
InvokeFails(p) ==
    /\ posts[p] = "flipped"
    /\ Update(RolledBack)
    /\ Moves(p, "refused")
    /\ UNCHANGED <<jobs, runs, unsubmitted, shown, broken, fetches, latest, polling, channel, pending, inFlight, deps, due, live, turn, causes, breaks>>

\* The answer: a refused submit ends the optimistic stage.
PostEnds(p) ==
    /\ posts[p] \in {"ok", "refused"}
    /\ Moves(p, "none")
    /\ inFlight' = (inFlight /\ p # "hook")
    /\ pending' = (pending /\ ~(p = "hook" /\ posts[p] = "refused"))
    /\ UNCHANGED <<row, jobs, runs, unsubmitted, subVars, deps, due, live, turn, causes, breaks>>

WorkerDone ==
    /\ jobs > 0
    /\ jobs' = jobs - 1
    /\ Update([row EXCEPT !.status = "submitted", !.process = "idle", !.plan = TRUE])
    /\ UNCHANGED <<runs, unsubmitted, shown, broken, fetches, latest, polling, channel, submitVars, live, turn, causes, breaks>>

WorkerFails ==
    /\ jobs > 0
    /\ jobs' = jobs - 1
    /\ Update(RolledBack)
    /\ UNCHANGED <<runs, unsubmitted, shown, broken, fetches, latest, polling, channel, submitVars, live, turn, causes, breaks>>

-----------------------------------------------------------------------------
(* The conversation.                                                       *)

\* The coverage tracker resolves the last goal.
GoalsResolved ==
    /\ ~row.resolved
    /\ Update([row EXCEPT !.resolved = TRUE])
    /\ UNCHANGED <<jobs, runs, unsubmitted, shown, broken, fetches, latest, polling, channel, submitVars, live, turn, causes, breaks>>

CallToggles ==
    /\ Stage = "open" \/ live
    /\ Cause
    /\ live' = ~live
    /\ Rendered(shown, broken, ~live)
    /\ UNCHANGED <<row, jobs, runs, unsubmitted, subVars, pending, inFlight, posts, turn>>

SendTurn ==
    /\ Stage = "open" /\ turn = "none" /\ Cause
    /\ turn' = "sent"
    /\ UNCHANGED <<row, jobs, runs, unsubmitted, subVars, submitVars, live>>

\* run_text_turn loads the row, and marks it active if it was not.
LoadForTurn ==
    /\ turn = "sent"
    /\ turn' = IF row.status = "active" THEN "none" ELSE "loaded"
    /\ UNCHANGED <<row, jobs, runs, unsubmitted, subVars, submitVars, live, causes, breaks>>

MarkActive ==
    /\ turn = "loaded"
    /\ turn' = "none"
    /\ Update([row EXCEPT !.status = "active"])
    /\ unsubmitted' = (unsubmitted \/ row.status = "submitted")
    /\ UNCHANGED <<jobs, runs, shown, broken, fetches, latest, polling, channel, submitVars, live, causes, breaks>>

-----------------------------------------------------------------------------
CanvasReads(f) == Read(f) \/ Arrives(f) \/ FetchFails(f)
PostSteps(p)   == LoadForSubmit(p) \/ Flip(p) \/ Invoke(p) \/ InvokeFails(p) \/ PostEnds(p)
WorkerEnds     == WorkerDone \/ WorkerFails

CanvasNext ==
    \/ Poll \/ Pushed \/ Joined \/ Breaks \/ ChannelError
    \/ \E f \in Fetches : CanvasReads(f)
    \/ AutoSubmit \/ ClickSubmit \/ ClickRetry \/ PendingExpires
    \/ \E p \in Posts : PostSteps(p)
    \/ WorkerEnds
    \/ GoalsResolved \/ CallToggles \/ SendTurn \/ LoadForTurn \/ MarkActive

LatestRead    == \E f \in Fetches : latest = f /\ Read(f)
LatestArrives == \E f \in Fetches : latest = f /\ Arrives(f)

\* Timers fire, requests and jobs end, a dead channel is noticed; and the
\* answer to a poll comes before the next poll again and again, else no answer
\* is ever applied.
CanvasFairness ==
    /\ WF_canvasVars(Poll) /\ WF_canvasVars(Pushed) /\ WF_canvasVars(ChannelError)
    /\ SF_canvasVars(LatestRead) /\ SF_canvasVars(LatestArrives)
    /\ WF_canvasVars(PendingExpires) /\ WF_canvasVars(WorkerEnds)
    /\ WF_canvasVars(\E p \in Posts : PostSteps(p))

CanvasSpec == CanvasInit /\ [][CanvasNext]_canvasVars /\ CanvasFairness

-----------------------------------------------------------------------------
(***************************************************************************)
(* Properties.                                                             *)
(***************************************************************************)
\* Type correctness of the row, the subscription and the submits.
CanvasTypeOK ==
    /\ row \in Row /\ shown \in Row \cup {NoRow}
    /\ jobs \in 0..runs /\ runs \in Nat
    /\ {unsubmitted, broken, polling, pushed, pending, inFlight, due, live} \subseteq BOOLEAN
    /\ fetches \in [Fetches -> [st : {"free", "sent", "read"}, got : Row \cup {NoRow}]]
    /\ latest \in Fetches \cup {0}
    /\ channel \in {"joining", "joined", "dead"}
    /\ posts \in [Posts -> {"none", "sent", "loaded", "flipped", "ok", "refused"}]
    /\ deps \in [can : BOOLEAN, resolved : BOOLEAN, live : BOOLEAN, failed : BOOLEAN]
    /\ turn \in {"none", "sent", "loaded"}

\* The worker never runs twice at a time for a session: submits of the canvas,
\* the button and Retry meet in the guarded update (a text turn that overtakes
\* the submit breaks this: MarkActive does not look at the status).
OneWorkerAtATime == ~unsubmitted => jobs <= 1

\* Every run of the worker has a cause of its own: a failure sets the row back
\* to ready, which must not make the canvas submit it again and again.
RunsAreAskedFor ==
    runs <= 1 + causes

\* The session shown never goes back to an older row.
ShownNeverOlder ==
    [][shown # NoRow => shown'.ver >= shown.ver]_canvasVars

\* The canvas comes to show an update of the row, or shows an error (a failed
\* read is not repeated while the realtime channel is up).
CanvasCatchesUp ==
    shown # NoRow /\ shown # row ~> shown = row \/ broken

\* "Building interview plan" ends.
GeneratingEnds == Stage = "generating" ~> Stage # "generating"
=============================================================================
