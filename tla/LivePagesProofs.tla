-------------------------- MODULE LivePagesProofs ---------------------------
(***************************************************************************)
(* Proofs about the two pages of the recruiter app that follow live data.  *)
(* IntakeCanvas, for any number of reads under way and any bound on the    *)
(* causes: types, one worker at a time, no run of the worker without a     *)
(* cause, and a session shown that never goes back.  PlanEditing and the   *)
(* data hook under it (AsyncList), for any bound on visits, loads, saves   *)
(* and texts: types, what a quiet page shows, and that no text typed into  *)
(* a round vanishes unnoticed.                                             *)
(***************************************************************************)
EXTENDS IntakeCanvas, PlanEditing, TLAPS

USE CanvasAssumption, ListAssumption, PlanAssumption
    DEF CanvasAssumption, ListAssumption, PlanAssumption

-----------------------------------------------------------------------------
(* The intake canvas.                                                      *)

\* A submit whose worker has not started yet, though its update is won.
Flipped(p) == posts[p] = "flipped"

\* A worker that runs or is about to excludes another, and the row says so.
OneSubmitAtATime ==
    ~unsubmitted =>
        /\ jobs <= 1
        /\ ~(Flipped("hook") /\ Flipped("retry"))
        /\ jobs = 1 => ~Flipped("hook") /\ ~Flipped("retry")
        /\ jobs = 1 \/ Flipped("hook") \/ Flipped("retry") => row.status = "submitted"

\* The read whose answer will be applied is under way.
LatestUnderWay == latest # 0 => fetches[latest].st \in {"sent", "read"}

Reading == latest # 0 /\ fetches[latest].st = "read"

\* What is shown, or read and about to be, is a row of the past, in that order.
ReadsInOrder ==
    /\ shown # NoRow => shown.ver <= row.ver
    /\ Reading => /\ fetches[latest].got # NoRow
                  /\ fetches[latest].got.ver <= row.ver
                  /\ shown # NoRow => shown.ver <= fetches[latest].got.ver

\* A call holds the automatic submit back.
CallHolds == live => ~Wanted(deps)

\* A row that would be submitted by itself.
Good(r) == r.status \in {"ready", "active"} /\ r.resolved /\ r.process # "failed"

Bit(b) == IF b THEN 1 ELSE 0

\* The times the effect will find its condition met for the first time, if the
\* row stays as it is: in what it ran on last, the row read and the row stored.
Rises ==
    IF Reading
    THEN Bit(~Wanted(deps) /\ Good(fetches[latest].got))
            + Bit(~Good(fetches[latest].got) /\ Good(row))
    ELSE Bit(~Wanted(deps) /\ Good(row))

\* A submit that can still start the worker.
Counts(st) == Bit(st \in {"sent", "loaded", "flipped"})

\* Each run, submit under way, submit about to be made, rise, text turn and
\* unresolved session has used up a cause of its own; the session is the first.
RunsAccounted ==
    runs + Counts(posts["hook"]) + Counts(posts["retry"]) + Bit(due) + Rises
         + Bit(turn # "none") + Bit(~row.resolved) <= 1 + causes

CanvasInv ==
    /\ CanvasTypeOK /\ causes \in Nat
    /\ OneSubmitAtATime /\ LatestUnderWay /\ ReadsInOrder /\ CallHolds /\ RunsAccounted

Deps == [can : BOOLEAN, resolved : BOOLEAN, live : BOOLEAN, failed : BOOLEAN]

-----------------------------------------------------------------------------
\* The initial states satisfy the invariant: nothing is under way.
LEMMA CanvasInitInv == CanvasInit => CanvasInv
  <1> SUFFICES ASSUME CanvasInit PROVE CanvasInv
    OBVIOUS
  <1>1. CanvasTypeOK /\ causes \in Nat
    <2>1. row \in Row
      BY DEF CanvasInit, Row
    <2>2. deps \in Deps
      BY DEF CanvasInit, NoDeps, Deps
    <2>3. fetches \in [Fetches -> [st : {"free", "sent", "read"}, got : Row \cup {NoRow}]]
      BY DEF CanvasInit, NoFetch
    <2>4. posts \in [Posts -> {"none", "sent", "loaded", "flipped", "ok", "refused"}]
      BY DEF CanvasInit
    <2>5. jobs \in 0..runs /\ runs \in Nat /\ causes \in Nat
      BY DEF CanvasInit
    <2>6. {unsubmitted, broken, polling, pushed, pending, inFlight, due, live} \subseteq BOOLEAN
      BY DEF CanvasInit
    <2>7. shown = NoRow /\ latest = 0 /\ channel = "joined" /\ turn = "none"
      BY DEF CanvasInit
    <2> QED BY <2>1, <2>2, <2>3, <2>4, <2>5, <2>6, <2>7 DEF CanvasTypeOK, Deps
  <1>2. OneSubmitAtATime /\ LatestUnderWay /\ ReadsInOrder /\ CallHolds
    BY DEF CanvasInit, OneSubmitAtATime, Flipped, LatestUnderWay, ReadsInOrder, Reading, CallHolds,
       Posts
  <1>3. RunsAccounted
    <2>1. ~Wanted(deps) /\ ~Good(row) /\ row.resolved = FALSE /\ latest = 0
      BY DEF CanvasInit, Wanted, NoDeps, Good
    <2>2. runs = 0 /\ causes = 0 /\ due = FALSE /\ turn = "none"
          /\ posts["hook"] = "none" /\ posts["retry"] = "none"
      BY DEF CanvasInit, Posts
    <2> QED BY <2>1, <2>2 DEF RunsAccounted, Counts, Bit, Rises, Reading
  <1> QED
    BY <1>1, <1>2, <1>3 DEF CanvasInv

-----------------------------------------------------------------------------
(* The steps of the row and of the canvas.                                 *)

\* An update counts the row's version up and leaves the rest as asked for.
LEMMA UpdatedRow ==
  ASSUME row \in Row, NEW c \in Row, Update(c)
  PROVE  /\ row' \in Row /\ row'.ver = row.ver + 1
         /\ row'.status = c.status /\ row'.process = c.process
         /\ row'.plan = c.plan /\ row'.resolved = c.resolved
  <1>1. row' = [c EXCEPT !.ver = row.ver + 1]
    BY DEF Update
  <1>2. row.ver + 1 \in Nat
    BY DEF Row
  <1> QED BY <1>1, <1>2 DEF Row

\* What each update of the row does to its status, its process and its goals.
LEMMA WonRow ==
  ASSUME row \in Row, NEW p, Flip(p), Won
  PROVE  /\ row' \in Row /\ row'.ver = row.ver + 1
         /\ row'.status = "submitted" /\ row'.resolved = row.resolved
  <1> DEFINE c == [row EXCEPT !.status = "submitted", !.process = "running"]
  <1>1. c \in Row /\ c.status = "submitted" /\ c.resolved = row.resolved
    BY DEF Row
  <1>2. Update(c)
    BY DEF Flip
  <1> QED BY <1>1, <1>2, UpdatedRow

LEMMA RolledBackRow ==
  ASSUME row \in Row, Update(RolledBack)
  PROVE  /\ row' \in Row /\ row'.ver = row.ver + 1
         /\ row'.status = "ready" /\ row'.process = "failed" /\ row'.resolved = row.resolved
  <1>1. RolledBack \in Row /\ RolledBack.status = "ready" /\ RolledBack.process = "failed"
        /\ RolledBack.resolved = row.resolved
    BY DEF Row, RolledBack
  <1> QED BY <1>1, UpdatedRow

LEMMA DoneRow ==
  ASSUME row \in Row, WorkerDone
  PROVE  /\ row' \in Row /\ row'.ver = row.ver + 1
         /\ row'.status = "submitted" /\ row'.resolved = row.resolved
  <1> DEFINE c == [row EXCEPT !.status = "submitted", !.process = "idle", !.plan = TRUE]
  <1>1. c \in Row /\ c.status = "submitted" /\ c.resolved = row.resolved
    BY DEF Row
  <1>2. Update(c)
    BY DEF WorkerDone
  <1> QED BY <1>1, <1>2, UpdatedRow

LEMMA ResolvedRow ==
  ASSUME row \in Row, GoalsResolved
  PROVE  /\ row' \in Row /\ row'.ver = row.ver + 1
         /\ row'.status = row.status /\ row'.resolved = TRUE
  <1> DEFINE c == [row EXCEPT !.resolved = TRUE]
  <1>1. c \in Row /\ c.status = row.status /\ c.resolved = TRUE
    BY DEF Row
  <1>2. Update(c)
    BY DEF GoalsResolved
  <1> QED BY <1>1, <1>2, UpdatedRow

LEMMA ActiveRow ==
  ASSUME row \in Row, MarkActive
  PROVE  /\ row' \in Row /\ row'.ver = row.ver + 1
         /\ row'.status = "active" /\ row'.resolved = row.resolved
  <1> DEFINE c == [row EXCEPT !.status = "active"]
  <1>1. c \in Row /\ c.status = "active" /\ c.resolved = row.resolved
    BY DEF Row
  <1>2. Update(c)
    BY DEF MarkActive
  <1> QED BY <1>1, <1>2, UpdatedRow

\* The effect has its condition met newly only if it was not met before.
LEMMA RenderedEffect ==
  ASSUME deps \in Deps, due \in BOOLEAN,
         NEW now \in Row \cup {NoRow}, NEW error \in BOOLEAN, NEW call \in BOOLEAN,
         Rendered(now, error, call)
  PROVE  /\ deps' \in Deps /\ due' \in BOOLEAN
         /\ Wanted(deps') <=> now # NoRow /\ ~error /\ Good(now) /\ ~call
         /\ due' => due \/ (Wanted(deps') /\ ~Wanted(deps))
  <1> DEFINE some == [can |-> now.status \in {"ready", "active"}, resolved |-> now.resolved,
                      live |-> call, failed |-> now.process = "failed"]
             none == [can |-> FALSE, resolved |-> FALSE, live |-> FALSE, failed |-> FALSE]
  <1>1. deps' = IF now = NoRow \/ error THEN none ELSE some
    BY DEF Rendered, NoDeps
  <1>2. due' = IF deps' = deps THEN due ELSE Wanted(deps')
    BY DEF Rendered
  <1>3. none \in Deps /\ ~Wanted(none)
    BY DEF Deps, Wanted
  <1>4. ASSUME now \in Row
        PROVE  some \in Deps /\ (Wanted(some) <=> Good(now) /\ ~call)
    BY <1>4 DEF Row, Deps, Wanted, Good
  <1>5. deps' \in Deps /\ (Wanted(deps') <=> now # NoRow /\ ~error /\ Good(now) /\ ~call)
    BY <1>1, <1>3, <1>4
  <1>6. \A d, e \in Deps : Wanted(d) /\ Wanted(e) => d = e
    BY DEF Deps, Wanted
  <1>7. Wanted(deps') \in BOOLEAN
    BY <1>5 DEF Wanted, Deps
  <1> QED BY <1>2, <1>5, <1>6, <1>7

\* A read is started in a free slot, which is not that of the latest read.
LEMMA RefetchSlot ==
  ASSUME CanvasTypeOK, LatestUnderWay, Refetch
  PROVE  \E f \in Fetches :
            /\ latest' = f /\ f # 0 /\ f # latest
            /\ fetches' = [fetches EXCEPT ![f].st = "sent"]
            /\ fetches'[f].st = "sent"
            /\ fetches' \in [Fetches -> [st : {"free", "sent", "read"}, got : Row \cup {NoRow}]]
  <1>1. PICK f \in Fetches : /\ fetches[f].st = "free" /\ latest' = f
                             /\ fetches' = [fetches EXCEPT ![f].st = "sent"]
    BY DEF Refetch
  <1>2. f # 0 /\ f # latest
    BY <1>1 DEF LatestUnderWay
  <1>3. /\ fetches'[f].st = "sent"
        /\ fetches' \in [Fetches -> [st : {"free", "sent", "read"}, got : Row \cup {NoRow}]]
    BY <1>1 DEF CanvasTypeOK
  <1> QED BY <1>1, <1>2, <1>3

-----------------------------------------------------------------------------
(* Types, step by step.                                                    *)

Fetched   == [st : {"free", "sent", "read"}, got : Row \cup {NoRow}]
PostState == {"none", "sent", "loaded", "flipped", "ok", "refused"}

LEMMA SubscriptionTypes ==
  ASSUME CanvasTypeOK, LatestUnderWay, causes \in Nat,
         Poll \/ Pushed \/ Joined \/ Breaks \/ ChannelError
  PROVE  CanvasTypeOK' /\ causes' \in Nat
  <1>1. CASE Poll \/ Pushed
    <2>1. fetches' \in [Fetches -> Fetched] /\ latest' \in Fetches
      BY <1>1, RefetchSlot DEF Poll, Pushed, Fetched
    <2> QED BY <1>1, <2>1 DEF CanvasTypeOK, Poll, Pushed, submitVars, Fetched
  <1>2. CASE Joined \/ Breaks \/ ChannelError
    BY <1>2 DEF CanvasTypeOK, Joined, Breaks, ChannelError, PollAfterError, submitVars
  <1> QED BY <1>1, <1>2

LEMMA ReadTypes ==
  ASSUME CanvasTypeOK, causes \in Nat, NEW f \in Fetches, CanvasReads(f)
  PROVE  CanvasTypeOK' /\ causes' \in Nat
  <1>1. fetches' \in [Fetches -> Fetched] /\ latest' \in Fetches \cup {0}
        /\ shown' \in Row \cup {NoRow}
    <2>1. NoFetch \in Fetched /\ [st |-> "read", got |-> row] \in Fetched
      BY DEF NoFetch, Fetched, CanvasTypeOK
    <2>2. fetches \in [Fetches -> Fetched]
      BY DEF CanvasTypeOK, Fetched
    <2>3. fetches[f].got \in Row \cup {NoRow}
      BY <2>2 DEF Fetched
    <2>4. latest \in Fetches \cup {0} /\ shown \in Row \cup {NoRow}
      BY DEF CanvasTypeOK
    <2>5. fetches' \in [Fetches -> Fetched]
      BY <2>1, <2>2 DEF CanvasReads, Read, Arrives, FetchFails
    <2>6. latest' \in Fetches \cup {0} /\ shown' \in Row \cup {NoRow}
      BY <2>3, <2>4 DEF CanvasReads, Read, Arrives, FetchFails
    <2> QED BY <2>5, <2>6
  <1>2. deps' \in Deps /\ due' \in BOOLEAN /\ broken' \in BOOLEAN
    <2>1. deps \in Deps /\ due \in BOOLEAN /\ broken \in BOOLEAN /\ live \in BOOLEAN
          /\ shown \in Row \cup {NoRow} /\ fetches[f].got \in Row \cup {NoRow}
      BY DEF CanvasTypeOK, Deps
    <2> QED BY <2>1, RenderedEffect DEF CanvasReads, Read, Arrives, FetchFails, submitVars
  <1>3. causes' \in Nat
    <2>1. UNCHANGED causes \/ causes' = causes + 1
      BY DEF CanvasReads, Read, Arrives, FetchFails, Cause
    <2> QED BY <2>1
  <1>4. UNCHANGED <<row, jobs, runs, unsubmitted, polling, channel, pushed, pending, inFlight,
                    posts, live, turn>>
    BY DEF CanvasReads, Read, Arrives, FetchFails, submitVars
  <1> QED BY <1>1, <1>2, <1>3, <1>4 DEF CanvasTypeOK, Fetched, Deps

LEMMA SubmitTypes ==
  ASSUME CanvasTypeOK, causes \in Nat,
         AutoSubmit \/ ClickSubmit \/ ClickRetry \/ PendingExpires \/ CallToggles \/ SendTurn
                    \/ LoadForTurn
  PROVE  CanvasTypeOK' /\ causes' \in Nat
  <1>1. posts' \in [Posts -> PostState]
    BY DEF CanvasTypeOK, PostState, AutoSubmit, ClickSubmit, ClickRetry, PendingExpires,
       CallToggles, SendTurn, LoadForTurn, Submit, submitVars
  <1>2. deps' \in Deps /\ due' \in BOOLEAN /\ live' \in BOOLEAN
    <2>1. deps \in Deps /\ due \in BOOLEAN /\ broken \in BOOLEAN /\ live \in BOOLEAN
          /\ shown \in Row \cup {NoRow}
      BY DEF CanvasTypeOK, Deps
    <2>2. (~live) \in BOOLEAN
      OBVIOUS
    <2> QED BY <2>1, <2>2, RenderedEffect DEF AutoSubmit, ClickSubmit, ClickRetry, PendingExpires,
            CallToggles, SendTurn, LoadForTurn, submitVars
  <1>3. causes' \in Nat
    <2>1. UNCHANGED causes \/ causes' = causes + 1
      BY DEF AutoSubmit, ClickSubmit, ClickRetry, PendingExpires, CallToggles, SendTurn,
         LoadForTurn, Cause
    <2> QED BY <2>1
  <1>5. pending' \in BOOLEAN /\ inFlight' \in BOOLEAN /\ turn' \in {"none", "sent", "loaded"}
    BY DEF CanvasTypeOK, AutoSubmit, ClickSubmit, ClickRetry, PendingExpires, CallToggles,
       SendTurn, LoadForTurn, Submit, submitVars
  <1>4. UNCHANGED <<row, jobs, runs, unsubmitted, subVars>>
    BY DEF AutoSubmit, ClickSubmit, ClickRetry, PendingExpires, CallToggles, SendTurn, LoadForTurn
  <1> QED BY <1>1, <1>2, <1>3, <1>4, <1>5 DEF CanvasTypeOK, subVars, PostState, Deps

LEMMA CanvasPostTypes ==
  ASSUME CanvasTypeOK, causes \in Nat, NEW p \in Posts, PostSteps(p)
  PROVE  CanvasTypeOK' /\ causes' \in Nat
  <1>1. posts' \in [Posts -> PostState]
    BY DEF CanvasTypeOK, PostState, PostSteps, LoadForSubmit, Flip, Invoke, InvokeFails, PostEnds,
       Moves
  <1>2. row' \in Row /\ pushed' \in BOOLEAN
    <2>1. row \in Row /\ pushed \in BOOLEAN
      BY DEF CanvasTypeOK
    <2> QED BY <2>1, WonRow, RolledBackRow DEF PostSteps, LoadForSubmit, Flip, Invoke,
            InvokeFails, PostEnds, subVars, Update
  <1>3. jobs' \in 0..runs' /\ runs' \in Nat
    BY DEF CanvasTypeOK, PostSteps, LoadForSubmit, Flip, Invoke, InvokeFails, PostEnds
  <1>4. inFlight' \in BOOLEAN /\ pending' \in BOOLEAN
    BY DEF CanvasTypeOK, PostSteps, LoadForSubmit, Flip, Invoke, InvokeFails, PostEnds
  <1>5. UNCHANGED <<unsubmitted, shown, broken, fetches, latest, polling, channel, deps, due,
                    live, turn, causes>>
    BY DEF PostSteps, LoadForSubmit, Flip, Invoke, InvokeFails, PostEnds, subVars
  <1> QED BY <1>1, <1>2, <1>3, <1>4, <1>5 DEF CanvasTypeOK, PostState

LEMMA RowTypes ==
  ASSUME CanvasTypeOK, causes \in Nat, WorkerEnds \/ GoalsResolved \/ MarkActive
  PROVE  CanvasTypeOK' /\ causes' \in Nat
  <1>1. row' \in Row
    <2>1. row \in Row
      BY DEF CanvasTypeOK
    <2> QED BY <2>1, DoneRow, RolledBackRow, ResolvedRow, ActiveRow DEF WorkerEnds, WorkerFails
  <1>2. pushed' \in BOOLEAN /\ unsubmitted' \in BOOLEAN /\ turn' \in {"none", "sent", "loaded"}
    BY DEF CanvasTypeOK, WorkerEnds, WorkerDone, WorkerFails, GoalsResolved, MarkActive, Update
  <1>3. jobs' \in 0..runs' /\ runs' \in Nat
    BY DEF CanvasTypeOK, WorkerEnds, WorkerDone, WorkerFails, GoalsResolved, MarkActive
  <1>4. UNCHANGED <<shown, broken, fetches, latest, polling, channel, submitVars, live, causes>>
    BY DEF WorkerEnds, WorkerDone, WorkerFails, GoalsResolved, MarkActive
  <1> QED BY <1>1, <1>2, <1>3, <1>4 DEF CanvasTypeOK, submitVars

LEMMA CanvasNextTypes ==
  ASSUME CanvasTypeOK, LatestUnderWay, causes \in Nat, CanvasNext
  PROVE  CanvasTypeOK' /\ causes' \in Nat
  BY SubscriptionTypes, ReadTypes, SubmitTypes, CanvasPostTypes, RowTypes DEF CanvasNext

-----------------------------------------------------------------------------
(* One worker at a time.                                                   *)

\* The guarded update is won only where no submit or worker is under way.
LEMMA SubmitStep ==
  ASSUME CanvasTypeOK, OneSubmitAtATime, CanvasNext
  PROVE  OneSubmitAtATime'
  <1> USE DEF OneSubmitAtATime, Flipped, Posts
  <1>0. /\ row \in Row /\ jobs \in Nat /\ unsubmitted \in BOOLEAN
        /\ posts \in [Posts -> PostState]
    BY DEF CanvasTypeOK, PostState
  <1>1. CASE UNCHANGED <<row, jobs, unsubmitted, posts>>
    BY <1>1
  <1>2. CASE AutoSubmit \/ ClickSubmit \/ ClickRetry
    <2>1. UNCHANGED <<row, jobs, unsubmitted>>
      BY <1>2 DEF AutoSubmit, ClickSubmit, ClickRetry
    <2>2. \/ UNCHANGED posts
          \/ posts' = [posts EXCEPT !["hook"] = "sent"]
          \/ posts' = [posts EXCEPT !["retry"] = "sent"]
      BY <1>2 DEF AutoSubmit, ClickSubmit, ClickRetry, Submit
    <2>3. \A p \in Posts : Flipped(p)' => Flipped(p)
      BY <1>0, <2>2
    <2> QED BY <1>0, <2>1, <2>3
  <1>3. ASSUME NEW p \in Posts, LoadForSubmit(p) \/ PostEnds(p)
        PROVE  OneSubmitAtATime'
    <2>1. UNCHANGED <<row, jobs, unsubmitted>>
      BY <1>3 DEF LoadForSubmit, PostEnds
    <2>2. \A q \in Posts : Flipped(q)' => Flipped(q)
      BY <1>0, <1>3 DEF LoadForSubmit, PostEnds, Moves
    <2> QED BY <1>0, <2>1, <2>2
  <1>4. ASSUME NEW p \in Posts, Flip(p)
        PROVE  OneSubmitAtATime'
    <2>1. UNCHANGED <<jobs, unsubmitted>>
      BY <1>4 DEF Flip
    <2>2. CASE Won
      <3>1. row'.status = "submitted"
        BY <1>0, <1>4, <2>2, WonRow
      <3>2. row.status # "submitted"
        BY <2>2 DEF Won, Submittable
      <3>3. posts' = [posts EXCEPT ![p] = "flipped"]
        BY <1>4, <2>2 DEF Flip, Moves
      <3> QED BY <1>0, <2>1, <3>1, <3>2, <3>3
    <2>3. CASE ~Won
      <3>1. UNCHANGED row /\ posts' = [posts EXCEPT ![p] = "refused"]
        BY <1>4, <2>3 DEF Flip, Moves
      <3> QED BY <1>0, <2>1, <3>1
    <2> QED BY <2>2, <2>3
  <1>5. ASSUME NEW p \in Posts, Invoke(p)
        PROVE  OneSubmitAtATime'
    <2>1. /\ posts[p] = "flipped" /\ posts' = [posts EXCEPT ![p] = "ok"]
          /\ jobs' = jobs + 1 /\ UNCHANGED <<row, unsubmitted>>
      BY <1>5 DEF Invoke, Moves
    <2> QED BY <1>0, <2>1
  <1>6. ASSUME NEW p \in Posts, InvokeFails(p)
        PROVE  OneSubmitAtATime'
    <2>1. /\ posts[p] = "flipped" /\ posts' = [posts EXCEPT ![p] = "refused"]
          /\ UNCHANGED <<jobs, unsubmitted>>
      BY <1>6 DEF InvokeFails, Moves
    <2> QED BY <1>0, <2>1
  <1>7. CASE WorkerEnds
    <2>1. jobs > 0 /\ jobs' = jobs - 1 /\ UNCHANGED <<posts, unsubmitted>>
      BY <1>7 DEF WorkerEnds, WorkerDone, WorkerFails, submitVars
    <2> QED BY <1>0, <2>1
  <1>8. CASE GoalsResolved
    <2>1. row'.status = row.status /\ UNCHANGED <<posts, jobs, unsubmitted>>
      BY <1>0, <1>8, ResolvedRow DEF GoalsResolved, submitVars
    <2> QED BY <1>0, <2>1
  <1>9. CASE MarkActive
    <2>1. /\ UNCHANGED <<posts, jobs>>
          /\ unsubmitted' = (unsubmitted \/ row.status = "submitted")
      BY <1>9 DEF MarkActive, submitVars
    <2> QED BY <1>0, <2>1
  <1>10. CASE \/ Poll \/ Pushed \/ Joined \/ Breaks \/ ChannelError
              \/ \E f \in Fetches : CanvasReads(f)
              \/ PendingExpires \/ CallToggles \/ SendTurn \/ LoadForTurn
    BY <1>1, <1>10 DEF Poll, Pushed, Joined, Breaks, ChannelError, CanvasReads, Read, Arrives,
       FetchFails, PendingExpires, CallToggles, SendTurn, LoadForTurn, submitVars
  <1> QED
    BY <1>2, <1>3, <1>4, <1>5, <1>6, <1>7, <1>8, <1>9, <1>10 DEF CanvasNext, PostSteps

-----------------------------------------------------------------------------
(* What is shown and read.                                                 *)

\* A step that starts, ends or answers no read.
LEMMA ReadsKept ==
  ASSUME LatestUnderWay, ReadsInOrder, CanvasTypeOK,
         UNCHANGED <<shown, fetches, latest>>,
         row'.ver \in Nat, row'.ver >= row.ver
  PROVE  LatestUnderWay' /\ ReadsInOrder'
  <1>1. LatestUnderWay' /\ (Reading' <=> Reading)
    BY DEF LatestUnderWay, Reading
  <1>2. row.ver \in Nat /\ (shown # NoRow => shown.ver \in Nat)
    BY DEF CanvasTypeOK, Row
  <1>3. Reading => fetches[latest].got # NoRow /\ fetches[latest].got.ver \in Nat
    <2> SUFFICES ASSUME Reading
                 PROVE  fetches[latest].got # NoRow /\ fetches[latest].got.ver \in Nat
      OBVIOUS
    <2>1. latest \in Fetches /\ fetches[latest].got \in Row \cup {NoRow}
      BY DEF Reading, CanvasTypeOK
    <2> QED BY <2>1 DEF ReadsInOrder, Row
  <1> QED BY <1>1, <1>2, <1>3 DEF ReadsInOrder

\* A read is not older than what was shown when it was made, and the answers
\* applied come in the order of the reads.
LEMMA ReadsStep ==
  ASSUME CanvasTypeOK, LatestUnderWay, ReadsInOrder, CanvasNext
  PROVE  LatestUnderWay' /\ ReadsInOrder'
  <1>0. /\ row \in Row /\ row.ver \in Nat /\ shown \in Row \cup {NoRow}
        /\ fetches \in [Fetches -> Fetched] /\ latest \in Fetches \cup {0}
    BY DEF CanvasTypeOK, Fetched, Row
  <1>1. CASE Poll \/ Pushed
    <2>1. Refetch /\ UNCHANGED <<row, shown>>
      BY <1>1 DEF Poll, Pushed
    <2>2. PICK f \in Fetches : latest' = f /\ fetches'[f].st = "sent"
      BY <2>1, RefetchSlot
    <2> QED BY <2>1, <2>2 DEF LatestUnderWay, ReadsInOrder, Reading
  <1>2. ASSUME NEW f \in Fetches, Read(f)
        PROVE  LatestUnderWay' /\ ReadsInOrder'
    <2>1. /\ fetches' = [fetches EXCEPT ![f] = [st |-> "read", got |-> row]]
          /\ UNCHANGED <<row, shown, latest>>
      BY <1>2 DEF Read
    <2>2. fetches'[f].st = "read" /\ fetches'[f].got = row /\ row # NoRow
      BY <1>0, <2>1
    <2>3. \A g \in Fetches : g # f => fetches'[g] = fetches[g]
      BY <1>0, <2>1
    <2>4. LatestUnderWay'
      BY <1>0, <2>1, <2>2, <2>3 DEF LatestUnderWay
    <2>5. CASE latest = f
      BY <1>0, <2>1, <2>2, <2>4, <2>5 DEF ReadsInOrder, Reading
    <2>6. CASE latest # f
      BY <1>0, <2>1, <2>3, <2>4, <2>6 DEF ReadsInOrder, Reading
    <2> QED BY <2>4, <2>5, <2>6
  <1>3. ASSUME NEW f \in Fetches, Arrives(f) \/ FetchFails(f), latest = f
        PROVE  LatestUnderWay' /\ ReadsInOrder'
    <2>1. latest' = 0 /\ UNCHANGED row
      BY <1>3 DEF Arrives, FetchFails, Applies
    <2>2. shown' = shown \/ (fetches[f].st = "read" /\ shown' = fetches[f].got)
      BY <1>3 DEF Arrives, FetchFails, Applies
    <2>3. latest # 0
      BY <1>3
    <2> QED BY <1>3, <2>1, <2>2, <2>3 DEF LatestUnderWay, ReadsInOrder, Reading
  <1>4. ASSUME NEW f \in Fetches, Arrives(f) \/ FetchFails(f), latest # f
        PROVE  LatestUnderWay' /\ ReadsInOrder'
    <2>1. fetches' = [fetches EXCEPT ![f] = NoFetch] /\ UNCHANGED <<latest, shown, row>>
      BY <1>4 DEF Arrives, FetchFails, Applies
    <2>2. \A g \in Fetches : g # f => fetches'[g] = fetches[g]
      BY <1>0, <2>1
    <2> QED BY <1>0, <1>4, <2>1, <2>2 DEF LatestUnderWay, ReadsInOrder, Reading
  <1>5. ASSUME UNCHANGED <<shown, fetches, latest>>,
               UNCHANGED row \/ row'.ver = row.ver + 1
        PROVE  LatestUnderWay' /\ ReadsInOrder'
    <2>1. row'.ver \in Nat /\ row'.ver >= row.ver
      BY <1>0, <1>5
    <2> QED BY <1>5, <2>1, ReadsKept
  <1>6. ASSUME NEW p \in Posts, PostSteps(p)
        PROVE  LatestUnderWay' /\ ReadsInOrder'
    <2>1. UNCHANGED row \/ row'.ver = row.ver + 1
      BY <1>0, <1>6, WonRow, RolledBackRow DEF PostSteps, LoadForSubmit, Flip, Invoke,
         InvokeFails, PostEnds
    <2>2. UNCHANGED <<shown, fetches, latest>>
      BY <1>6 DEF PostSteps, LoadForSubmit, Flip, Invoke, InvokeFails, PostEnds, subVars
    <2> QED BY <1>5, <2>1, <2>2
  <1>7. CASE WorkerEnds \/ GoalsResolved \/ MarkActive
    <2>1. row'.ver = row.ver + 1
      BY <1>0, <1>7, DoneRow, RolledBackRow, ResolvedRow, ActiveRow DEF WorkerEnds, WorkerFails
    <2>2. UNCHANGED <<shown, fetches, latest>>
      BY <1>7 DEF WorkerEnds, WorkerDone, WorkerFails, GoalsResolved, MarkActive
    <2> QED BY <1>5, <2>1, <2>2
  <1>8. CASE \/ Joined \/ Breaks \/ ChannelError
             \/ AutoSubmit \/ ClickSubmit \/ ClickRetry \/ PendingExpires
             \/ CallToggles \/ SendTurn \/ LoadForTurn
    BY <1>5, <1>8 DEF Joined, Breaks, ChannelError, AutoSubmit, ClickSubmit, ClickRetry,
       PendingExpires, CallToggles, SendTurn, LoadForTurn, subVars
  <1> QED
    BY <1>1, <1>2, <1>3, <1>4, <1>6, <1>7, <1>8 DEF CanvasNext, CanvasReads

-----------------------------------------------------------------------------
(* Runs of the worker and their causes.                                    *)

\* Every render of the canvas takes the call into account.
LEMMA CallStep ==
  ASSUME CanvasTypeOK, CallHolds, CanvasNext
  PROVE  CallHolds'
  <1>0. /\ deps \in Deps /\ due \in BOOLEAN /\ broken \in BOOLEAN /\ live \in BOOLEAN
        /\ (~live) \in BOOLEAN /\ TRUE \in BOOLEAN /\ FALSE \in BOOLEAN
        /\ shown \in Row \cup {NoRow}
        /\ \A f \in Fetches : fetches[f].got \in Row \cup {NoRow}
    BY DEF CanvasTypeOK, Deps
  <1>1. ASSUME NEW f \in Fetches, Arrives(f) \/ FetchFails(f)
        PROVE  CallHolds'
    <2>1. /\ UNCHANGED live
          /\ \/ UNCHANGED deps
             \/ Rendered(fetches[f].got, FALSE, live) \/ Rendered(shown, TRUE, live)
      BY <1>1 DEF Arrives, FetchFails
    <2>2. fetches[f].got \in Row \cup {NoRow}
      BY <1>0
    <2>3. UNCHANGED deps \/ (Wanted(deps') => ~live)
      BY <1>0, <2>1, <2>2, RenderedEffect
    <2> QED BY <2>1, <2>3 DEF CallHolds
  <1>2. CASE CallToggles
    <2>1. Rendered(shown, broken, ~live) /\ live' = ~live
      BY <1>2 DEF CallToggles
    <2>2. Wanted(deps') => ~~live
      BY <1>0, <2>1, RenderedEffect
    <2> QED BY <1>0, <2>1, <2>2 DEF CallHolds
  <1>3. CASE UNCHANGED <<live, deps>>
    BY <1>3 DEF CallHolds
  <1>4. CASE \/ Poll \/ Pushed \/ Joined \/ Breaks \/ ChannelError
             \/ \E f \in Fetches : Read(f)
             \/ AutoSubmit \/ ClickSubmit \/ ClickRetry \/ PendingExpires
             \/ \E p \in Posts : PostSteps(p)
             \/ WorkerEnds
             \/ GoalsResolved \/ SendTurn \/ LoadForTurn \/ MarkActive
    BY <1>3, <1>4 DEF Poll, Pushed, Joined, Breaks, ChannelError, Read, AutoSubmit, ClickSubmit,
       ClickRetry, PendingExpires, PostSteps, LoadForSubmit, Flip, Invoke, InvokeFails, PostEnds,
       WorkerEnds, WorkerDone, WorkerFails, GoalsResolved, SendTurn, LoadForTurn, MarkActive,
       submitVars
  <1> QED
    BY <1>1, <1>2, <1>4 DEF CanvasNext, CanvasReads

LEMMA BitIs == \A b : Bit(b) \in {0, 1} /\ (b => Bit(b) = 1) /\ (~b => Bit(b) = 0)
  BY DEF Bit

\* A row that comes to be one to submit adds one rise at most.
LEMMA RisesOfRow ==
  ASSUME UNCHANGED <<fetches, latest, deps>>
  PROVE  Rises' <= Rises + Bit(Good(row'))
  <1>1. CASE Reading
    BY <1>1 DEF Rises, Reading, Bit
  <1>2. CASE ~Reading
    BY <1>2 DEF Rises, Reading, Bit
  <1> QED BY <1>1, <1>2

LEMMA RisesNat == Rises \in Nat /\ Rises' \in Nat
  BY DEF Rises, Bit

\* The parts of the account, as numbers.
LEMMA AccountTypes ==
  ASSUME CanvasTypeOK, causes \in Nat
  PROVE  /\ runs \in Nat /\ Rises \in Nat
         /\ Counts(posts["hook"]) \in {0, 1} /\ Counts(posts["retry"]) \in {0, 1}
         /\ Bit(due) \in {0, 1} /\ Bit(turn # "none") \in {0, 1} /\ Bit(~row.resolved) \in {0, 1}
  BY RisesNat DEF CanvasTypeOK, Counts, Bit

\* Reads started and made: nothing is added to the rises.
LEMMA RunsReads ==
  ASSUME CanvasTypeOK, LatestUnderWay, ReadsInOrder, CallHolds, causes \in Nat, RunsAccounted,
         \/ Poll \/ Pushed
         \/ \E f \in Fetches : CanvasReads(f)
  PROVE  RunsAccounted'
  <1>0. /\ deps \in Deps /\ due \in BOOLEAN /\ broken \in BOOLEAN /\ live \in BOOLEAN
        /\ TRUE \in BOOLEAN /\ FALSE \in BOOLEAN
        /\ shown \in Row \cup {NoRow}
        /\ fetches \in [Fetches -> Fetched]
        /\ \A f \in Fetches : fetches[f].got \in Row \cup {NoRow}
    BY DEF CanvasTypeOK, Deps, Fetched
  <1>1. UNCHANGED <<runs, posts, turn, row>>
    BY DEF Poll, Pushed, CanvasReads, Read, Arrives, FetchFails, submitVars
  <1>2. ASSUME Rises' <= Rises, Bit(due') <= Bit(due), causes' = causes
        PROVE  RunsAccounted'
    BY <1>1, <1>2, AccountTypes, RisesNat, BitIs DEF RunsAccounted
  <1>3. CASE Poll \/ Pushed
    <2>1. Refetch /\ UNCHANGED <<deps, due, causes>>
      BY <1>3 DEF Poll, Pushed, submitVars
    <2>2. ~Reading'
      BY <2>1, RefetchSlot DEF Reading
    <2>3. Rises' <= Rises
      BY <1>1, <2>1, <2>2 DEF Rises, Bit
    <2> QED BY <1>2, <2>1, <2>3, BitIs
  <1>4. ASSUME NEW f \in Fetches, Read(f)
        PROVE  RunsAccounted'
    <2>1. /\ fetches[f].st = "sent"
          /\ fetches' = [fetches EXCEPT ![f] = [st |-> "read", got |-> row]]
          /\ UNCHANGED <<latest, deps, due, causes>>
      BY <1>4 DEF Read, submitVars
    <2>2. CASE latest = f
      <3>1. ~Reading /\ fetches'[latest].got = row
        BY <1>0, <2>1, <2>2 DEF Reading
      <3>2. Rises' <= Rises
        BY <1>1, <2>1, <3>1 DEF Rises, Bit
      <3> QED BY <1>2, <2>1, <3>2, BitIs
    <2>3. CASE latest # f
      <3>1. fetches'[latest] = fetches[latest]
        BY <1>0, <2>1, <2>3
      <3>2. Rises' = Rises
        BY <1>1, <2>1, <3>1 DEF Rises, Reading
      <3> QED BY <1>2, <2>1, <3>2, BitIs, RisesNat
    <2> QED BY <2>2, <2>3
  <1>5. ASSUME NEW f \in Fetches, Arrives(f), latest = f
        PROVE  RunsAccounted'
    <2>1. /\ fetches[f].st = "read" /\ latest' = 0 /\ causes' = causes /\ UNCHANGED live
          /\ Rendered(fetches[f].got, FALSE, live)
      BY <1>5 DEF Arrives, Applies
    <2>2. Reading /\ ~Reading' /\ fetches[f].got # NoRow
      BY <1>5, <2>1 DEF Reading, ReadsInOrder
    <2>3. /\ Wanted(deps') <=> Good(fetches[f].got) /\ ~live
          /\ due' => due \/ (Wanted(deps') /\ ~Wanted(deps))
          /\ due' \in BOOLEAN
      BY <1>0, <2>1, <2>2, RenderedEffect
    <2>4. Rises = Bit(~Wanted(deps) /\ Good(fetches[f].got))
                     + Bit(~Good(fetches[f].got) /\ Good(row))
      BY <1>5, <2>2 DEF Rises
    <2>5. Rises' = Bit(~Wanted(deps') /\ Good(row))
      BY <1>1, <2>2 DEF Rises
    <2>6. Bit(due') + Rises' <= Bit(due) + Rises
      <3>1. CASE live
        BY <2>3, <2>4, <2>5, <3>1 DEF Bit, CallHolds
      <3>2. CASE ~live
        BY <2>3, <2>4, <2>5, <3>2 DEF Bit
      <3> QED BY <3>1, <3>2
    <2> QED BY <1>1, <2>1, <2>6, AccountTypes, RisesNat, BitIs DEF RunsAccounted
  <1>6. ASSUME NEW f \in Fetches, FetchFails(f), latest = f
        PROVE  RunsAccounted'
    <2>1. /\ latest' = 0 /\ causes' = causes + 1
          /\ Rendered(shown, TRUE, live)
      BY <1>6 DEF FetchFails, Applies, Cause
    <2>2. ~Reading'
      BY <2>1 DEF Reading
    <2>3. (due' => due) /\ due' \in BOOLEAN
      BY <1>0, <2>1, RenderedEffect
    <2>4. Rises' <= Rises + 1
      BY <2>2, RisesNat DEF Rises, Bit
    <2>5. Bit(due') <= Bit(due)
      BY <2>3 DEF Bit
    <2> QED BY <1>1, <2>1, <2>4, <2>5, AccountTypes, RisesNat, BitIs DEF RunsAccounted
  <1>7. ASSUME NEW f \in Fetches, Arrives(f) \/ FetchFails(f), latest # f
        PROVE  RunsAccounted'
    <2>1. /\ fetches' = [fetches EXCEPT ![f] = NoFetch] /\ UNCHANGED <<latest, deps, due>>
          /\ causes' = causes \/ causes' = causes + 1
      BY <1>7 DEF Arrives, FetchFails, Applies, Cause
    <2>2. fetches'[latest] = fetches[latest]
      BY <1>0, <1>7, <2>1
    <2>3. Rises' = Rises
      BY <1>1, <2>1, <2>2 DEF Rises, Reading
    <2> QED BY <1>1, <2>1, <2>3, AccountTypes, RisesNat, BitIs DEF RunsAccounted
  <1> QED
    BY <1>3, <1>4, <1>5, <1>6, <1>7 DEF CanvasReads

\* A submit about to be made is made or dropped; one more costs a click.
LEMMA RunsSubmits ==
  ASSUME CanvasTypeOK, causes \in Nat, RunsAccounted,
         AutoSubmit \/ ClickSubmit \/ ClickRetry
  PROVE  RunsAccounted'
  <1>1. UNCHANGED <<runs, row, turn, deps, fetches, latest>>
    BY DEF AutoSubmit, ClickSubmit, ClickRetry, subVars
  <1>2. Rises' = Rises
    BY <1>1 DEF Rises, Reading
  <1>3. posts \in [Posts -> PostState] /\ "hook" \in Posts /\ "retry" \in Posts
    BY DEF CanvasTypeOK, PostState, Posts
  <1>4. CASE AutoSubmit
    <2>1. causes' = causes /\ Bit(due) = 1 /\ Bit(due') = 0
      BY <1>4 DEF AutoSubmit, Bit
    <2>2. /\ posts'["retry"] = posts["retry"]
          /\ posts'["hook"] \in {posts["hook"], "sent"}
      BY <1>3, <1>4 DEF AutoSubmit, Submit
    <2>3. Counts(posts'["hook"]) <= Counts(posts["hook"]) + 1
      BY <2>2 DEF Counts, Bit
    <2>4. Counts(posts'["hook"]) \in Nat
      BY DEF Counts, Bit
    <2> QED BY <1>1, <1>2, <2>1, <2>2, <2>3, <2>4, AccountTypes DEF RunsAccounted
  <1>5. CASE ClickSubmit \/ ClickRetry
    <2>1. UNCHANGED due /\ causes' = causes + 1
      BY <1>5 DEF ClickSubmit, ClickRetry, Cause
    <2>2. \/ UNCHANGED posts
          \/ /\ posts'["retry"] = posts["retry"] /\ posts'["hook"] = "sent"
          \/ /\ posts'["hook"] = posts["hook"] /\ posts'["retry"] = "sent"
      BY <1>3, <1>5 DEF ClickSubmit, ClickRetry, Submit
    <2>3. Counts(posts'["hook"]) + Counts(posts'["retry"])
             <= Counts(posts["hook"]) + Counts(posts["retry"]) + 1
      BY <2>2 DEF Counts, Bit
    <2>4. Counts(posts'["hook"]) \in Nat /\ Counts(posts'["retry"]) \in Nat
      BY DEF Counts, Bit
    <2> QED BY <1>1, <1>2, <2>1, <2>3, <2>4, AccountTypes DEF RunsAccounted
  <1> QED BY <1>4, <1>5

\* A submit counts until its worker has started or it is refused.
LEMMA RunsPosts ==
  ASSUME CanvasTypeOK, causes \in Nat, RunsAccounted, NEW p \in Posts, PostSteps(p)
  PROVE  RunsAccounted'
  <1>1. UNCHANGED <<due, turn, deps, fetches, latest, causes>>
    BY DEF PostSteps, LoadForSubmit, Flip, Invoke, InvokeFails, PostEnds, subVars
  <1>2. row \in Row
    BY DEF CanvasTypeOK
  <1>3. Rises' <= Rises /\ row'.resolved = row.resolved
    <2>1. UNCHANGED row \/ (row'.resolved = row.resolved /\ ~Good(row'))
      BY <1>2, WonRow, RolledBackRow DEF PostSteps, LoadForSubmit, Flip, Invoke, InvokeFails,
         PostEnds, subVars, Good
    <2>2. CASE UNCHANGED row
      BY <1>1, <2>2, RisesNat DEF Rises, Reading
    <2>3. CASE row'.resolved = row.resolved /\ ~Good(row')
      BY <1>1, <2>3, RisesOfRow, RisesNat, BitIs
    <2> QED BY <2>1, <2>2, <2>3
  <1>4. runs' + Counts(posts'["hook"]) + Counts(posts'["retry"])
           <= runs + Counts(posts["hook"]) + Counts(posts["retry"])
    <2>1. posts \in [Posts -> PostState] /\ Posts = {"hook", "retry"} /\ runs \in Nat
      BY DEF CanvasTypeOK, PostState, Posts
    <2>2. CASE Invoke(p)
      <3>1. posts[p] = "flipped" /\ posts' = [posts EXCEPT ![p] = "ok"] /\ runs' = runs + 1
        BY <2>2 DEF Invoke, Moves
      <3> QED BY <2>1, <3>1 DEF Counts, Bit
    <2>3. CASE ~Invoke(p)
      <3>1. runs' = runs
        BY <2>3 DEF PostSteps, LoadForSubmit, Flip, InvokeFails, PostEnds
      <3>2. PICK st \in {"loaded", "flipped", "refused", "none"} :
              /\ posts' = [posts EXCEPT ![p] = st]
              /\ st \in {"loaded", "flipped"} => posts[p] \in {"sent", "loaded"}
        BY <2>3 DEF PostSteps, LoadForSubmit, Flip, InvokeFails, PostEnds, Moves
      <3> QED BY <2>1, <3>1, <3>2 DEF Counts, Bit
    <2> QED BY <2>2, <2>3
  <1>5. Counts(posts'["hook"]) \in Nat /\ Counts(posts'["retry"]) \in Nat /\ runs' \in Nat
    BY CanvasPostTypes DEF Counts, Bit, CanvasTypeOK
  <1> QED BY <1>1, <1>3, <1>4, <1>5, AccountTypes, RisesNat DEF RunsAccounted

\* A failed run and a plan leave no row to submit; goals resolved and a text
\* turn may give one, once each.
LEMMA RunsRow ==
  ASSUME CanvasTypeOK, causes \in Nat, RunsAccounted, WorkerEnds \/ GoalsResolved \/ MarkActive
  PROVE  RunsAccounted'
  <1>1. UNCHANGED <<runs, posts, due, deps, fetches, latest, causes>>
    BY DEF WorkerEnds, WorkerDone, WorkerFails, GoalsResolved, MarkActive, submitVars
  <1>2. row \in Row /\ row.resolved \in BOOLEAN
    BY DEF CanvasTypeOK, Row
  <1>3. Rises' <= Rises + Bit(Good(row'))
    BY <1>1, RisesOfRow
  <1>4. Bit(Good(row')) + Bit(turn' # "none") + Bit(~row'.resolved)
           <= Bit(turn # "none") + Bit(~row.resolved)
    <2>1. CASE WorkerEnds
      <3>1. ~Good(row') /\ row'.resolved = row.resolved /\ UNCHANGED turn
        BY <1>2, <2>1, DoneRow, RolledBackRow DEF WorkerEnds, WorkerDone, WorkerFails, Good
      <3> QED BY <3>1 DEF Bit
    <2>2. CASE GoalsResolved
      <3>1. ~row.resolved /\ row'.resolved = TRUE /\ UNCHANGED turn
        BY <1>2, <2>2, ResolvedRow DEF GoalsResolved
      <3> QED BY <3>1 DEF Bit
    <2>3. CASE MarkActive
      <3>1. turn = "loaded" /\ turn' = "none" /\ row'.resolved = row.resolved
        BY <1>2, <2>3, ActiveRow DEF MarkActive
      <3> QED BY <3>1 DEF Bit
    <2> QED BY <2>1, <2>2, <2>3
  <1>5. Bit(Good(row')) \in Nat /\ Bit(turn' # "none") \in Nat /\ Bit(~row'.resolved) \in Nat
    BY DEF Bit
  <1> QED BY <1>1, <1>3, <1>4, <1>5, AccountTypes, RisesNat DEF RunsAccounted

\* The call toggled, a text turn sent or not needed, and what touches no account.
LEMMA RunsCalls ==
  ASSUME CanvasTypeOK, causes \in Nat, RunsAccounted,
         CallToggles \/ SendTurn \/ LoadForTurn \/ PendingExpires
                     \/ Joined \/ Breaks \/ ChannelError
  PROVE  RunsAccounted'
  <1>0. UNCHANGED <<runs, posts, row, fetches, latest>>
    BY DEF CallToggles, SendTurn, LoadForTurn, PendingExpires, Joined, Breaks, ChannelError,
       subVars, submitVars
  <1>1. CASE CallToggles
    <2>1. UNCHANGED turn /\ causes' = causes + 1 /\ Rendered(shown, broken, ~live)
      BY <1>1 DEF CallToggles, Cause
    <2>2. deps \in Deps /\ due \in BOOLEAN /\ broken \in BOOLEAN /\ (~live) \in BOOLEAN
          /\ shown \in Row \cup {NoRow}
      BY DEF CanvasTypeOK, Deps
    <2>3. due' \in BOOLEAN /\ (due' => due \/ (Wanted(deps') /\ ~Wanted(deps)))
      BY <2>1, <2>2, RenderedEffect
    <2>4. CASE Wanted(deps')
      <3>1. Rises' <= Rises
        BY <1>0, <2>4 DEF Rises, Reading, Bit
      <3>2. Bit(due') <= Bit(due) + 1
        BY DEF Bit
      <3> QED BY <1>0, <2>1, <3>1, <3>2, AccountTypes, RisesNat, BitIs DEF RunsAccounted
    <2>5. CASE ~Wanted(deps')
      <3>1. Rises' <= Rises + 1
        BY <1>0, <2>5 DEF Rises, Reading, Bit
      <3>2. Bit(due') <= Bit(due)
        BY <2>3, <2>5 DEF Bit
      <3> QED BY <1>0, <2>1, <3>1, <3>2, AccountTypes, RisesNat, BitIs DEF RunsAccounted
    <2> QED BY <2>4, <2>5
  <1>2. CASE SendTurn \/ LoadForTurn \/ PendingExpires \/ Joined \/ Breaks \/ ChannelError
    <2>1. UNCHANGED <<due, deps>>
      BY <1>2 DEF SendTurn, LoadForTurn, PendingExpires, Joined, Breaks, ChannelError, submitVars
    <2>2. Rises' = Rises
      BY <1>0, <2>1 DEF Rises, Reading
    <2>3. \/ causes' = causes + 1
          \/ causes' = causes /\ (turn' = turn \/ turn # "none")
      BY <1>2 DEF SendTurn, LoadForTurn, PendingExpires, Joined, Breaks, ChannelError, Cause
    <2>4. Bit(turn' # "none") + causes <= Bit(turn # "none") + causes'
      BY <2>3 DEF Bit
    <2>5. Bit(turn' # "none") \in Nat
      BY DEF Bit
    <2> QED BY <1>0, <2>1, <2>2, <2>3, <2>4, <2>5, AccountTypes, RisesNat DEF RunsAccounted
  <1> QED BY <1>1, <1>2

-----------------------------------------------------------------------------
LEMMA StutterInv ==
  ASSUME CanvasInv, UNCHANGED canvasVars
  PROVE  CanvasInv'
  <1>1. /\ UNCHANGED <<row, jobs, runs, unsubmitted, shown, broken, fetches, latest, polling>>
        /\ UNCHANGED <<channel, pushed, pending, inFlight, posts, deps, due, live, turn, causes>>
    BY DEF canvasVars, subVars, submitVars
  <1>2. CanvasTypeOK' /\ causes' \in Nat
    BY <1>1 DEF CanvasInv, CanvasTypeOK
  <1>3. OneSubmitAtATime' /\ LatestUnderWay' /\ ReadsInOrder' /\ CallHolds' /\ RunsAccounted'
    BY <1>1 DEF CanvasInv, OneSubmitAtATime, Flipped, LatestUnderWay, ReadsInOrder, Reading,
       CallHolds, RunsAccounted, Rises
  <1> QED BY <1>2, <1>3 DEF CanvasInv

LEMMA CanvasNextInv ==
  ASSUME CanvasInv, [CanvasNext]_canvasVars
  PROVE  CanvasInv'
  <1>1. CASE UNCHANGED canvasVars
    BY <1>1, StutterInv
  <1>2. CASE CanvasNext
    <2>1. CanvasTypeOK' /\ causes' \in Nat
      BY <1>2, CanvasNextTypes DEF CanvasInv
    <2>2. OneSubmitAtATime' /\ LatestUnderWay' /\ ReadsInOrder' /\ CallHolds'
      BY <1>2, SubmitStep, ReadsStep, CallStep DEF CanvasInv
    <2>3. RunsAccounted'
      BY <1>2, RunsReads, RunsSubmits, RunsPosts, RunsRow, RunsCalls DEF CanvasInv, CanvasNext
    <2> QED BY <2>1, <2>2, <2>3 DEF CanvasInv
  <1> QED BY <1>1, <1>2

\* The invariant holds in every reachable state.
THEOREM CanvasInvariance == CanvasSpec => []CanvasInv
  <1>1. CanvasInv /\ [CanvasNext]_canvasVars => CanvasInv'
    BY CanvasNextInv
  <1> QED
    BY <1>1, CanvasInitInv, PTL DEF CanvasSpec

\* The row, the subscription, the submits and the text turn stay well formed.
THEOREM CanvasTypes == CanvasSpec => []CanvasTypeOK
  <1>1. CanvasInv => CanvasTypeOK
    BY DEF CanvasInv
  <1> QED
    BY <1>1, CanvasInvariance, PTL

\* However the automatic submit, the button and Retry overlap, the worker runs
\* once at a time (submit's guarded update), unless a text turn set a submitted
\* session back to active.
THEOREM OneWorker == CanvasSpec => []OneWorkerAtATime
  <1>1. CanvasInv => OneWorkerAtATime
    BY DEF CanvasInv, OneSubmitAtATime, OneWorkerAtATime
  <1> QED
    BY <1>1, CanvasInvariance, PTL

\* The canvas never submits a session again and again: there are no more runs
\* than the session, clicks, toggles, failed reads and text turns ask for.
THEOREM EveryRunHasACause == CanvasSpec => []RunsAreAskedFor
  <1>1. CanvasInv => RunsAreAskedFor
    BY AccountTypes DEF CanvasInv, RunsAccounted, RunsAreAskedFor
  <1> QED
    BY <1>1, CanvasInvariance, PTL

LEMMA CanvasShowsLater ==
  ASSUME CanvasInv, [CanvasNext]_canvasVars
  PROVE  [shown # NoRow => shown'.ver >= shown.ver]_canvasVars
  <1> SUFFICES ASSUME CanvasNext, shown # NoRow
               PROVE  shown'.ver >= shown.ver
    OBVIOUS
  <1>1. shown.ver \in Nat
    BY DEF CanvasInv, CanvasTypeOK, Row
  <1>2. ASSUME NEW f \in Fetches, Arrives(f), latest = f
        PROVE  shown'.ver >= shown.ver
    <2>1. Reading /\ shown' = fetches[latest].got
      BY <1>2 DEF Arrives, Applies, Reading
    <2>2. fetches[latest].got.ver \in Nat
      <3>1. fetches[latest].got \in Row \cup {NoRow}
        BY <1>2 DEF CanvasInv, CanvasTypeOK
      <3> QED BY <2>1, <3>1 DEF CanvasInv, ReadsInOrder, Row
    <2> QED BY <1>1, <2>1, <2>2 DEF CanvasInv, ReadsInOrder
  <1>3. CASE UNCHANGED shown
    BY <1>1, <1>3
  <1>4. CASE ~\E f \in Fetches : Arrives(f) /\ latest = f
    <2>1. UNCHANGED shown
      BY <1>4 DEF CanvasNext, Poll, Pushed, Joined, Breaks, ChannelError, CanvasReads, Read,
         Arrives, FetchFails, Applies, AutoSubmit, ClickSubmit, ClickRetry, PendingExpires,
         PostSteps, LoadForSubmit, Flip, Invoke, InvokeFails, PostEnds, WorkerEnds, WorkerDone,
         WorkerFails, GoalsResolved, CallToggles, SendTurn, LoadForTurn, MarkActive, subVars
    <2> QED BY <1>3, <2>1
  <1> QED BY <1>2, <1>4

\* The session shown never goes back to an older row, however pushes and polls
\* overlap and answers come back.
THEOREM NeverOlder == CanvasSpec => ShownNeverOlder
  <1>1. CanvasInv /\ [CanvasNext]_canvasVars
           => [shown # NoRow => shown'.ver >= shown.ver]_canvasVars
    BY CanvasShowsLater
  <1> QED
    BY <1>1, CanvasInvariance, PTL DEF CanvasSpec, ShownNeverOlder

-----------------------------------------------------------------------------
(* What the canvas waits for is on its way.                                *)

News == polling \/ pushed \/ channel = "dead"

\* A row that is neither shown nor being read is polled for, or its push is on
\* its way, or went down with a channel whose loss brings the poll back.
ToldInv ==
    /\ pushed => channel = "joined"
    /\ channel = "joining" => polling
    /\ Reading /\ fetches[latest].got # row => News
    /\ latest = 0 /\ ~broken /\ shown # row => News

\* A submitted session without a plan has a worker, or gets it or its failure.
InWork == jobs > 0 \/ \E p \in Posts : posts[p] = "flipped"
WorkInv == row.status = "submitted" /\ ~row.plan /\ row.process # "failed" => InWork

\* While the hook's POST is under way the store's guard stops another.
HookGuarded == posts["hook"] # "none" => inFlight

\* The next answer to be applied brings the row, or another read will.
NewsOnItsWay ==
    News \/ (latest # 0 /\ (fetches[latest].st = "sent" \/ fetches[latest].got = row))

LEMMA ToldUpdate ==
  ASSUME CanvasTypeOK, ToldInv, NEW c, Update(c), UNCHANGED <<polling, channel>>
  PROVE  ToldInv'
  <1>1. pushed' = (pushed \/ channel = "joined") /\ channel \in {"joining", "joined", "dead"}
    BY DEF Update, CanvasTypeOK
  <1>2. News' /\ (pushed' => channel = "joined")
    BY <1>1 DEF ToldInv, News
  <1> QED BY <1>2 DEF ToldInv

LEMMA ToldKept ==
  ASSUME ToldInv, UNCHANGED <<row, shown, broken, fetches, latest, polling, channel, pushed>>
  PROVE  ToldInv'
  BY DEF ToldInv, Reading, News

LEMMA ToldStep ==
  ASSUME CanvasTypeOK, LatestUnderWay, ToldInv, CanvasNext
  PROVE  ToldInv'
  <1>0. fetches \in [Fetches -> Fetched] /\ latest \in Fetches \cup {0}
    BY DEF CanvasTypeOK, Fetched
  <1>1. CASE Poll
    BY <1>1 DEF Poll, ToldInv, News
  <1>2. CASE Pushed
    <2>1. PICK f \in Fetches : latest' = f /\ f # 0 /\ fetches'[f].st = "sent"
      BY <1>2, RefetchSlot DEF Pushed
    <2> QED BY <1>2, <2>1 DEF Pushed, ToldInv, Reading
  <1>3. CASE Joined \/ Breaks \/ ChannelError
    BY <1>3 DEF Joined, Breaks, ChannelError, PollAfterError, ToldInv, Reading, News
  <1>4. ASSUME NEW f \in Fetches, Read(f)
        PROVE  ToldInv'
    <2>1. /\ fetches' = [fetches EXCEPT ![f] = [st |-> "read", got |-> row]]
          /\ UNCHANGED <<row, shown, broken, latest, polling, channel, pushed>>
      BY <1>4 DEF Read
    <2>2. fetches'[f].got = row /\ \A g \in Fetches : g # f => fetches'[g] = fetches[g]
      BY <1>0, <2>1
    <2>3. Reading' /\ fetches'[latest].got # row => News
      BY <1>0, <2>1, <2>2 DEF ToldInv, Reading
    <2> QED BY <2>1, <2>3 DEF ToldInv, News
  <1>5. ASSUME NEW f \in Fetches, Arrives(f) \/ FetchFails(f)
        PROVE  ToldInv'
    <2>1. /\ fetches' = [fetches EXCEPT ![f] = NoFetch]
          /\ UNCHANGED <<row, polling, channel, pushed>>
      BY <1>5 DEF Arrives, FetchFails
    <2>2. CASE latest = f
      <3>1. latest' = 0 /\ latest # 0
        BY <1>5, <2>2 DEF Arrives, FetchFails, Applies, CanvasAssumption, LatestUnderWay
      <3>2. broken' \/ (shown' = fetches[f].got /\ Reading)
        BY <1>5, <2>2, <3>1 DEF Arrives, FetchFails, Applies, Reading
      <3> QED BY <2>1, <2>2, <3>1, <3>2 DEF ToldInv, Reading, News
    <2>3. CASE latest # f
      <3>1. UNCHANGED <<shown, broken, latest>>
        BY <1>5, <2>3 DEF Arrives, FetchFails, Applies
      <3>2. \A g \in Fetches : g # f => fetches'[g] = fetches[g]
        BY <1>0, <2>1
      <3> QED BY <1>0, <2>1, <2>3, <3>1, <3>2 DEF ToldInv, Reading, News
    <2> QED BY <2>2, <2>3
  <1>6. ASSUME NEW p \in Posts, PostSteps(p)
        PROVE  ToldInv'
    <2>1. /\ UNCHANGED <<shown, broken, fetches, latest, polling, channel>>
          /\ UNCHANGED <<row, pushed>> \/ \E c : Update(c)
      BY <1>6 DEF PostSteps, LoadForSubmit, Flip, Invoke, InvokeFails, PostEnds, subVars
    <2> QED BY <2>1, ToldUpdate, ToldKept
  <1>7. CASE WorkerEnds \/ GoalsResolved \/ MarkActive
    BY <1>7, ToldUpdate DEF WorkerEnds, WorkerDone, WorkerFails, GoalsResolved, MarkActive
  <1>8. CASE \/ AutoSubmit \/ ClickSubmit \/ ClickRetry \/ PendingExpires
             \/ CallToggles \/ SendTurn \/ LoadForTurn
    BY <1>8, ToldKept DEF AutoSubmit, ClickSubmit, ClickRetry, PendingExpires, CallToggles,
       SendTurn, LoadForTurn, subVars
  <1> QED
    BY <1>1, <1>2, <1>3, <1>4, <1>5, <1>6, <1>7, <1>8 DEF CanvasNext, CanvasReads

LEMMA GuardStep ==
  ASSUME CanvasTypeOK, HookGuarded, CanvasNext
  PROVE  HookGuarded'
  <1>0. posts \in [Posts -> PostState] /\ "hook" \in Posts
    BY DEF CanvasTypeOK, PostState, Posts
  <1>1. CASE UNCHANGED <<posts, inFlight>>
    BY <1>1 DEF HookGuarded
  <1>2. CASE AutoSubmit \/ ClickSubmit
    BY <1>0, <1>2 DEF AutoSubmit, ClickSubmit, Submit, HookGuarded
  <1>3. CASE ClickRetry
    BY <1>0, <1>3 DEF ClickRetry, HookGuarded
  <1>4. ASSUME NEW p \in Posts, LoadForSubmit(p) \/ Flip(p) \/ Invoke(p) \/ InvokeFails(p)
        PROVE  HookGuarded'
    <2>1. posts[p] # "none" /\ inFlight' = inFlight
      BY <1>4 DEF LoadForSubmit, Flip, Invoke, InvokeFails
    <2>2. \A q \in Posts : q # p => posts'[q] = posts[q]
      BY <1>0, <1>4 DEF LoadForSubmit, Flip, Invoke, InvokeFails, Moves
    <2> QED BY <1>0, <2>1, <2>2 DEF HookGuarded
  <1>5. ASSUME NEW p \in Posts, PostEnds(p)
        PROVE  HookGuarded'
    BY <1>0, <1>5 DEF PostEnds, Moves, HookGuarded
  <1>6. CASE \/ Poll \/ Pushed \/ Joined \/ Breaks \/ ChannelError
             \/ \E f \in Fetches : CanvasReads(f)
             \/ PendingExpires \/ WorkerEnds \/ GoalsResolved
             \/ CallToggles \/ SendTurn \/ LoadForTurn \/ MarkActive
    BY <1>1, <1>6 DEF Poll, Pushed, Joined, Breaks, ChannelError, CanvasReads, Read, Arrives,
       FetchFails, PendingExpires, WorkerEnds, WorkerDone, WorkerFails, GoalsResolved,
       CallToggles, SendTurn, LoadForTurn, MarkActive, submitVars
  <1> QED BY <1>2, <1>3, <1>4, <1>5, <1>6 DEF CanvasNext, PostSteps

\* The worker's end gives the row its plan or its failure.
LEMMA WorkStep ==
  ASSUME CanvasTypeOK, HookGuarded, WorkInv, CanvasNext
  PROVE  WorkInv'
  <1>0. row \in Row /\ jobs \in Nat /\ posts \in [Posts -> PostState]
    BY DEF CanvasTypeOK, PostState
  <1>1. ASSUME NEW p \in Posts, PostSteps(p)
        PROVE  WorkInv'
    <2>1. CASE LoadForSubmit(p) \/ PostEnds(p)
      <3>1. posts[p] # "flipped" /\ UNCHANGED <<row, jobs>>
        BY <2>1 DEF LoadForSubmit, PostEnds
      <3>2. \A q \in Posts : q # p => posts'[q] = posts[q]
        BY <1>0, <2>1 DEF LoadForSubmit, PostEnds, Moves
      <3> QED BY <3>1, <3>2 DEF WorkInv, InWork
    <2>2. CASE Flip(p)
      <3>1. CASE Won
        <4>1. posts'[p] = "flipped"
          BY <1>0, <2>2, <3>1 DEF Flip, Moves
        <4> QED BY <4>1 DEF WorkInv, InWork
      <3>2. CASE ~Won
        <4>1. row.status # "submitted" \/ InWork \/ row.plan \/ row.process = "failed"
          BY DEF WorkInv
        <4>2. posts[p] # "flipped" /\ UNCHANGED <<row, jobs>>
          BY <2>2, <3>2 DEF Flip
        <4>3. \A q \in Posts : q # p => posts'[q] = posts[q]
          BY <1>0, <2>2, <3>2 DEF Flip, Moves
        <4> QED BY <4>1, <4>2, <4>3 DEF WorkInv, InWork
      <3> QED BY <3>1, <3>2
    <2>3. CASE Invoke(p)
      BY <1>0, <2>3 DEF Invoke, WorkInv, InWork
    <2>4. CASE InvokeFails(p)
      BY <1>0, <2>4, RolledBackRow DEF InvokeFails, WorkInv
    <2> QED BY <1>1, <2>1, <2>2, <2>3, <2>4 DEF PostSteps
  <1>2. CASE WorkerDone
    <2> DEFINE done == [row EXCEPT !.status = "submitted", !.process = "idle", !.plan = TRUE]
    <2>1. done \in Row /\ done.plan = TRUE
      BY <1>0 DEF Row
    <2>2. Update(done)
      BY <1>2 DEF WorkerDone
    <2>3. row'.plan = TRUE
      BY <1>0, <2>1, <2>2, UpdatedRow
    <2> QED BY <2>3 DEF WorkInv
  <1>3. CASE WorkerFails
    BY <1>0, <1>3, RolledBackRow DEF WorkerFails, WorkInv
  <1>4. CASE MarkActive
    BY <1>0, <1>4, ActiveRow DEF WorkInv
  <1>5. CASE GoalsResolved
    <2> DEFINE c == [row EXCEPT !.resolved = TRUE]
    <2>1. c \in Row /\ c.status = row.status /\ c.plan = row.plan /\ c.process = row.process
      BY <1>0 DEF Row
    <2>2. Update(c) /\ UNCHANGED <<jobs, posts>>
      BY <1>5 DEF GoalsResolved, submitVars
    <2>3. /\ row'.status = row.status /\ row'.plan = row.plan /\ row'.process = row.process
      BY <1>0, <2>1, <2>2, UpdatedRow
    <2> QED BY <2>2, <2>3 DEF WorkInv, InWork
  <1>6. CASE AutoSubmit \/ ClickSubmit \/ ClickRetry
    <2>1. UNCHANGED <<row, jobs>>
      BY <1>6 DEF AutoSubmit, ClickSubmit, ClickRetry
    <2>2. \/ UNCHANGED posts
          \/ posts["hook"] = "none" /\ posts' = [posts EXCEPT !["hook"] = "sent"]
          \/ posts["retry"] = "none" /\ posts' = [posts EXCEPT !["retry"] = "sent"]
      BY <1>6 DEF AutoSubmit, ClickSubmit, ClickRetry, Submit, HookGuarded
    <2>3. \A q \in Posts : posts[q] = "flipped" => posts'[q] = "flipped"
      BY <1>0, <2>2
    <2> QED BY <2>1, <2>3 DEF WorkInv, InWork
  <1>7. CASE \/ Poll \/ Pushed \/ Joined \/ Breaks \/ ChannelError
             \/ \E f \in Fetches : CanvasReads(f)
             \/ PendingExpires \/ CallToggles \/ SendTurn \/ LoadForTurn
    <2>1. UNCHANGED <<row, jobs, posts>>
      BY <1>7 DEF Poll, Pushed, Joined, Breaks, ChannelError, CanvasReads, Read, Arrives,
         FetchFails, PendingExpires, CallToggles, SendTurn, LoadForTurn, submitVars
    <2> QED BY <2>1 DEF WorkInv, InWork
  <1> QED
    BY <1>1, <1>2, <1>3, <1>4, <1>5, <1>6, <1>7 DEF CanvasNext, WorkerEnds

\* The inductive invariant of what is on its way.
ComesInv == CanvasInv /\ ToldInv /\ HookGuarded /\ WorkInv

LEMMA ComesInit == CanvasInit => ComesInv
  <1> SUFFICES ASSUME CanvasInit PROVE ComesInv
    OBVIOUS
  <1>1. CanvasInv
    BY CanvasInitInv
  <1>2. /\ polling /\ pushed = FALSE /\ channel = "joined" /\ latest = 0
        /\ row.status = "ready" /\ posts["hook"] = "none"
    BY DEF CanvasInit, Posts
  <1> QED BY <1>1, <1>2 DEF ComesInv, ToldInv, HookGuarded, WorkInv, News, Reading

LEMMA ComesStep ==
  ASSUME ComesInv, [CanvasNext]_canvasVars
  PROVE  ComesInv'
  <1>1. CanvasInv'
    BY CanvasNextInv DEF ComesInv
  <1>2. CASE UNCHANGED canvasVars
    <2>1. /\ UNCHANGED <<row, jobs, shown, broken, fetches, latest, polling, channel, pushed>>
          /\ UNCHANGED <<posts, inFlight>>
      BY <1>2 DEF canvasVars, subVars, submitVars
    <2>2. ToldInv' /\ HookGuarded'
      BY <2>1, ToldKept DEF ComesInv, HookGuarded
    <2>3. WorkInv'
      BY <2>1 DEF ComesInv, WorkInv, InWork
    <2> QED BY <1>1, <2>2, <2>3 DEF ComesInv
  <1>3. CASE CanvasNext
    BY <1>1, <1>3, ToldStep, GuardStep, WorkStep DEF ComesInv, CanvasInv
  <1> QED BY <1>2, <1>3

\* While the canvas shows an older row, and no error, the newer one is on its way:
\* a push, a poll, or a lost channel that starts the poll again (the part of
\* CanvasCatchesUp that does not depend on fairness).
THEOREM CanvasIsTold ==
    CanvasSpec => [](shown # NoRow /\ shown # row /\ ~broken => NewsOnItsWay)
  <1>1. ComesInv => (shown # NoRow /\ shown # row /\ ~broken => NewsOnItsWay)
    BY DEF ComesInv, CanvasInv, LatestUnderWay, ToldInv, NewsOnItsWay, Reading
  <1>2. ComesInv /\ [CanvasNext]_canvasVars => ComesInv'
    BY ComesStep
  <1> QED BY ComesInit, <1>1, <1>2, PTL DEF CanvasSpec

\* While the canvas says "Building interview plan", its timer runs, a worker is at
\* work or about to be, or a row that says otherwise is on its way (GeneratingEnds).
THEOREM GeneratingIsInHand ==
    CanvasSpec => [](Stage = "generating" => pending \/ InWork \/ NewsOnItsWay)
  <1>1. ComesInv => (Stage = "generating" => pending \/ InWork \/ NewsOnItsWay)
    <2> SUFFICES ASSUME ComesInv, Stage = "generating", ~pending
                 PROVE  InWork \/ NewsOnItsWay
      OBVIOUS
    <2>1. /\ ~broken /\ shown # NoRow
          /\ shown.process # "failed" /\ shown.status = "submitted" /\ ~shown.plan
      BY DEF Stage
    <2>2. CASE shown = row
      BY <2>1, <2>2 DEF ComesInv, WorkInv
    <2>3. CASE shown # row
      BY <2>1, <2>3 DEF ComesInv, CanvasInv, LatestUnderWay, ToldInv, NewsOnItsWay, Reading
    <2> QED BY <2>2, <2>3
  <1>2. ComesInv /\ [CanvasNext]_canvasVars => ComesInv'
    BY ComesStep
  <1> QED BY ComesInit, <1>1, <1>2, PTL DEF CanvasSpec

-----------------------------------------------------------------------------
(* The plan tab and its data hook.                                         *)

\* Loads are issued in order, an open page waits for the last one, and shows its
\* answer; the answer is the stored texts unless a save that was stored since is
\* still to be announced, or never will be.
LoadsInv ==
    /\ \A n \in Load : loads[n].st = "none" <=> n > issued
    /\ open => current = issued /\ issued >= 1
    /\ open /\ loads[current].st = "over" => view = loads[current].data
    /\ open /\ loads[current].st \in {"answered", "over"} /\ loads[current].data # server
          => \E n \in Save : saves[n].st \in {"stored", "lost"}

CoreSave(n) == saves[n].st # "none" /\ saves[n].part = "core"

\* The card shown has sent a save.
OwnSave == \E n \in Save : CoreSave(n) /\ saves[n].card = card

\* The texts of the saves grow in the order they are sent, so what is stored is
\* between those that were stored and those that were not.
SavesInv ==
    /\ \A n \in Save : saves[n].st = "none" <=> n > sent
    /\ \A n \in Save : CoreSave(n) => saves[n].text <= typed /\ saves[n].card <= card
    /\ \A m, n \in Save : CoreSave(m) /\ CoreSave(n) /\ m < n => saves[m].text <= saves[n].text
    /\ server.core <= typed
    /\ \A n \in Save : CoreSave(n) /\ saves[n].st = "sent" => server.core <= saves[n].text
    /\ \A n \in Save : CoreSave(n) /\ saves[n].st = "stored" => saves[n].text <= server.core

\* A field that was typed in is ahead of all saves and of what is stored; once
\* clean again it is what is stored, and so is the answer on its way; a field
\* never typed in is what the page loaded.
FieldInv ==
    Shown =>
        /\ field.prev = view.core
        /\ field.dirty \/ OwnSave =>
              /\ field.value <= typed /\ server.core <= field.value
              /\ \A n \in Save : CoreSave(n) => saves[n].text <= field.value
        /\ ~field.dirty /\ OwnSave =>
              /\ field.value = server.core
              /\ loads[current].st = "answered" => loads[current].data.core = server.core
        /\ ~field.dirty /\ ~OwnSave => field.value = field.prev

PlanInv == PlanTypeOK /\ LoadsInv /\ SavesInv /\ FieldInv

LoadType  == [st : LoadSt, data : RoleTexts \cup {NoData}]
SaveType  == [st : SaveSt, part : Parts, text : Typable, card : Nat]
FieldType == [value : Typable, dirty : BOOLEAN, prev : Typable,
              status : {"idle", "saving", "saved", "error"}]

-----------------------------------------------------------------------------
\* The type invariant with the types named.
LEMMA TypesInPlace ==
  PlanTypeOK <=>
    /\ server \in RoleTexts
    /\ view \in RoleTexts \cup {NoData} /\ cache \in RoleTexts \cup {NoData}
    /\ open \in BOOLEAN /\ failed \in BOOLEAN /\ loading \in BOOLEAN
    /\ issued \in 0..MaxLoads /\ current \in 0..issued
    /\ loads \in [Load -> LoadType]
    /\ retry \in {"unused", "armed", "cancelled", "fired"}
    /\ visits \in 0..MaxPages /\ card \in Nat
    /\ field \in FieldType
    /\ noteDraft \in Typable /\ typed \in Typable /\ sent \in 0..MaxSaves
    /\ saves \in [Save -> SaveType]
  BY DEF PlanTypeOK, LoadType, SaveType, FieldType

\* The initial states satisfy the invariant: no page is open, no load or save
\* was sent.
LEMMA PlanInitInv == PlanInit => PlanInv
  <1> SUFFICES ASSUME PlanInit PROVE PlanInv
    OBVIOUS
  <1> USE DEF PlanInit, ListInit
  <1>1. PlanTypeOK
    <2>1. server \in RoleTexts /\ field \in FieldType /\ 0 \in Typable
      BY DEF RoleTexts, FieldType, Fresh, Typable
    <2>2. loads \in [Load -> LoadType]
      BY DEF NoLoad, LoadType, LoadSt
    <2>3. saves \in [Save -> SaveType]
      BY <2>1 DEF NoSave, SaveType, SaveSt, Parts
    <2>4. view = NoData /\ cache = NoData /\ open = FALSE /\ failed = FALSE /\ loading = FALSE
      OBVIOUS
    <2>5. issued = 0 /\ current = 0 /\ retry = "unused" /\ visits = 0 /\ card = 0 /\ noteDraft = 0
          /\ typed = 0 /\ sent = 0
      OBVIOUS
    <2> HIDE DEF PlanInit, ListInit
    <2>6. MaxPages \in Nat /\ MaxSaves \in Nat /\ MaxTyped \in Nat
      BY Zenon
    <2>7. 0 \in 0..MaxPages /\ 0 \in 0..MaxSaves /\ 0 \in 0..MaxLoads /\ 0 \in 0..0 /\ 0 \in Nat
      BY <2>6
    <2> QED BY <2>1, <2>2, <2>3, <2>4, <2>5, <2>7, TypesInPlace
  <1>2. \A n \in Load : loads[n].st = "none"
    BY DEF NoLoad
  <1>3. \A n \in Save : saves[n].st = "none"
    BY DEF NoSave
  <1>4. LoadsInv
    <2>1. open = FALSE /\ issued = 0
      OBVIOUS
    <2>2. \A n \in Load : n > 0
      BY DEF Load
    <2> QED BY <1>2, <2>1, <2>2 DEF LoadsInv
  <1>5. SavesInv
    BY <1>3 DEF SavesInv, CoreSave, Save
  <1>6. FieldInv
    BY DEF FieldInv, Shown
  <1> QED
    BY <1>1, <1>4, <1>5, <1>6 DEF PlanInv

-----------------------------------------------------------------------------
(* Renders and settled saves.                                              *)

\* A render shows a new card, keeps the one shown, or shows none.
LEMMA RenderCases ==
  ASSUME NEW from, NEW arrived, Render(from, arrived)
  PROVE  \/ /\ Shown' /\ ~Shown
            /\ card' = card + 1 /\ field' = Fresh(view'.core) /\ noteDraft' = view'.note
         \/ /\ Shown' /\ Shown /\ card' = card
            /\ field' = IF arrived THEN Reconciled(view'.core) ELSE from
            /\ noteDraft' = IF arrived THEN view'.note ELSE noteDraft
         \/ ~Shown' /\ UNCHANGED <<card, field, noteDraft>>
  <1>1. CASE Shown' /\ ~Shown
    BY <1>1 DEF Render
  <1>2. CASE Shown' /\ Shown
    BY <1>2 DEF Render
  <1>3. CASE ~Shown'
    BY <1>3 DEF Render
  <1> QED BY <1>1, <1>2, <1>3

LEMMA FreshField ==
  ASSUME NEW t \in Typable
  PROVE  /\ Fresh(t) \in FieldType
         /\ Fresh(t).value = t /\ Fresh(t).prev = t /\ Fresh(t).dirty = FALSE
  BY DEF Fresh, FieldType

\* An outside change is taken over by a clean field only.
LEMMA ReconciledField ==
  ASSUME field \in FieldType, NEW t \in Typable
  PROVE  /\ Reconciled(t) \in FieldType
         /\ Reconciled(t).prev = t /\ Reconciled(t).dirty = field.dirty
         /\ field.dirty \/ t = field.prev => Reconciled(t).value = field.value
         /\ ~field.dirty /\ t # field.prev => Reconciled(t).value = t
  <1>1. CASE t = field.prev
    BY <1>1 DEF Reconciled, FieldType
  <1>2. CASE t # field.prev /\ field.dirty
    BY <1>2 DEF Reconciled, FieldType
  <1>3. CASE t # field.prev /\ ~field.dirty
    BY <1>3, FreshField DEF Reconciled, FieldType
  <1> QED BY <1>1, <1>2, <1>3

\* A save that settles changes neither the text of the field nor what it
\* compares outside changes with.
LEMMA SettledField ==
  ASSUME field \in FieldType, NEW n \in Save, saves[n].text \in Typable
  PROVE  /\ Saved(n) \in FieldType /\ Unsaved \in FieldType
         /\ Saved(n).value = field.value /\ Saved(n).prev = field.prev
         /\ Saved(n).dirty = (field.dirty /\ field.value # saves[n].text)
         /\ Unsaved.value = field.value /\ Unsaved.prev = field.prev /\ Unsaved.dirty = TRUE
  <1>1. (field.dirty /\ field.value # saves[n].text) \in BOOLEAN
    OBVIOUS
  <1> QED BY <1>1 DEF Saved, Unsaved, FieldType

-----------------------------------------------------------------------------
(* Types, step by step.                                                    *)

LEMMA ReloadTypes ==
  ASSUME PlanTypeOK, Reload
  PROVE  /\ issued' \in 0..MaxLoads /\ current' \in 0..issued' /\ loading' \in BOOLEAN
         /\ loads' \in [Load -> LoadType]
         /\ current' = issued' /\ issued' = issued + 1 /\ issued' \in Load
         /\ loads'[current'].st = "sent"
         /\ \A n \in Load : n # current' => loads'[n] = loads[n]
  <1>1. issued + 1 \in Load
    BY TypesInPlace DEF Reload, Load
  <1>2. loads' = [loads EXCEPT ![issued + 1].st = "sent"]
    BY DEF Reload
  <1>3. loads \in [Load -> LoadType] /\ "sent" \in LoadSt
    BY TypesInPlace DEF LoadSt
  <1>4. loads' \in [Load -> LoadType]
    BY <1>1, <1>2, <1>3 DEF LoadType
  <1>5. loads'[issued + 1].st = "sent" /\ \A n \in Load : n # issued + 1 => loads'[n] = loads[n]
    BY <1>1, <1>2, <1>3 DEF LoadType
  <1> QED BY <1>1, <1>4, <1>5, TypesInPlace DEF Reload, Load

\* Render keeps the types of what it sets.
LEMMA RenderTypes ==
  ASSUME PlanTypeOK, view' \in RoleTexts \cup {NoData},
         NEW from \in FieldType, NEW arrived \in BOOLEAN, Render(from, arrived)
  PROVE  card' \in Nat /\ field' \in FieldType /\ noteDraft' \in Typable
  <1>1. Shown' => view'.core \in Typable /\ view'.note \in Typable
    BY DEF Shown, RoleTexts
  <1>2. card \in Nat /\ field \in FieldType /\ noteDraft \in Typable
    BY TypesInPlace
  <1>3. CASE Shown' /\ ~Shown
    <2>1. card' = card + 1 /\ field' = Fresh(view'.core) /\ noteDraft' = view'.note
      BY <1>3, RenderCases
    <2>2. Fresh(view'.core) \in FieldType
      BY <1>1, <1>3, FreshField
    <2> QED BY <1>1, <1>2, <1>3, <2>1, <2>2
  <1>4. CASE Shown' /\ Shown
    BY <1>1, <1>2, <1>4, RenderCases, ReconciledField
  <1>5. CASE ~Shown'
    BY <1>2, <1>5, RenderCases
  <1> QED BY <1>3, <1>4, <1>5

LEMMA PageTypes ==
  ASSUME PlanTypeOK, OpenPage \/ LeavePage \/ RetryFires
  PROVE  PlanTypeOK'
  <1> USE TypesInPlace
  <1>1. CASE OpenPage
    <2>1. view' = cache /\ view' \in RoleTexts \cup {NoData}
      BY <1>1 DEF OpenPage, Mount
    <2>2. card' \in Nat /\ field' \in FieldType /\ noteDraft' \in Typable
      BY <1>1, <2>1, RenderTypes DEF OpenPage
    <2>3. visits' \in 0..MaxPages
      BY <1>1 DEF OpenPage
    <2>4. Reload /\ open' = TRUE /\ failed' = FALSE /\ retry' = "unused"
          /\ UNCHANGED <<cache, server, typed, sent, saves>>
      BY <1>1 DEF OpenPage, Mount
    <2> QED BY <2>1, <2>2, <2>3, <2>4, ReloadTypes DEF PlanTypeOK, FieldType, LoadType, SaveType
  <1>2. CASE LeavePage
    <2>1. view' = NoData /\ failed' = FALSE /\ loading' = FALSE /\ current' = 0 /\ open' = FALSE
      BY <1>2 DEF LeavePage, Unmount
    <2>2. UNCHANGED <<cache, issued, loads, server, retry, visits, card, field, noteDraft, typed,
                      sent, saves>>
      BY <1>2 DEF LeavePage, Unmount
    <2>3. 0 \in 0..issued
      OBVIOUS
    <2> QED BY <2>1, <2>2, <2>3 DEF PlanTypeOK, LoadType, FieldType, SaveType
  <1>3. CASE RetryFires
    <2>1. Reload /\ retry' = "fired"
      BY <1>3 DEF RetryFires
    <2>2. UNCHANGED <<server, open, view, failed, cache, visits, card, field, noteDraft, typed,
                      sent, saves>>
      BY <1>3 DEF RetryFires
    <2> QED BY <2>1, <2>2, ReloadTypes DEF PlanTypeOK, LoadType
  <1> QED BY <1>1, <1>2, <1>3

LEMMA LoadTypes ==
  ASSUME PlanTypeOK, NEW n \in Load, PlanLoads(n)
  PROVE  PlanTypeOK'
  <1> USE TypesInPlace
  <1>0. loads[n] \in LoadType /\ loads[n].data \in RoleTexts \cup {NoData}
    BY DEF LoadType
  <1>1. CASE RoleAnswered(n)
    <2>1. [st |-> "answered", data |-> server] \in LoadType
      BY DEF LoadType, LoadSt
    <2>2. loads' \in [Load -> LoadType]
      BY <1>1, <2>1 DEF RoleAnswered, Answer
    <2>3. UNCHANGED <<open, view, failed, loading, cache, current, issued, server, retry, visits,
                      card, field, noteDraft, typed, sent, saves>>
      BY <1>1 DEF RoleAnswered, Answer
    <2> QED BY <2>2, <2>3 DEF PlanTypeOK, LoadType
  <1>2. CASE RoleArrives(n)
    <2>1. loads' = [loads EXCEPT ![n].st = "over"] /\ "over" \in LoadSt
      BY <1>2 DEF RoleArrives, Deliver, LoadSt
    <2>2. loads' \in [Load -> LoadType]
      BY <2>1 DEF LoadType
    <2>3. view' \in RoleTexts \cup {NoData} /\ cache' \in RoleTexts \cup {NoData}
          /\ failed' \in BOOLEAN /\ loading' \in BOOLEAN
      BY <1>0, <1>2 DEF RoleArrives, Deliver
    <2>4. retry' \in {"unused", "armed", "cancelled", "fired"}
      BY <1>2 DEF RoleArrives, RetryAfter
    <2>5. Render(field, open /\ Applied(n)) /\ (open /\ Applied(n)) \in BOOLEAN
      BY <1>2 DEF RoleArrives, Applied
    <2>6. card' \in Nat /\ field' \in FieldType /\ noteDraft' \in Typable
      BY <2>3, <2>5, RenderTypes
    <2>7. UNCHANGED <<open, current, issued, server, visits, typed, sent, saves>>
      BY <1>2 DEF RoleArrives, Deliver
    <2> QED BY <2>2, <2>3, <2>4, <2>6, <2>7 DEF PlanTypeOK, LoadType, FieldType
  <1>3. CASE RoleFails(n)
    <2>1. loads' = [loads EXCEPT ![n].st = "failed"] /\ "failed" \in LoadSt
      BY <1>3 DEF RoleFails, Fail, LoadSt
    <2>2. loads' \in [Load -> LoadType]
      BY <2>1 DEF LoadType
    <2>3. failed' \in BOOLEAN /\ loading' \in BOOLEAN
      BY <1>3 DEF RoleFails, Fail
    <2>4. retry' \in {"unused", "armed", "cancelled", "fired"}
      BY <1>3 DEF RoleFails, RetryAfter
    <2>5. UNCHANGED <<open, view, cache, current, issued, server, visits, typed, sent, saves>>
      BY <1>3 DEF RoleFails, Fail
    <2>6. card' \in Nat /\ field' \in FieldType /\ noteDraft' \in Typable
      BY <1>3, <2>5, RenderTypes DEF RoleFails
    <2> QED BY <2>2, <2>3, <2>4, <2>5, <2>6 DEF PlanTypeOK, LoadType, FieldType
  <1> QED BY <1>1, <1>2, <1>3 DEF PlanLoads

\* A save that is sent is the next one, with the text and the card it is given.
LEMMA SendPutTypes ==
  ASSUME PlanTypeOK, NEW part \in Parts, NEW t \in Typable, SendPut(part, t)
  PROVE  /\ sent' = sent + 1 /\ sent' \in 0..MaxSaves /\ sent' \in Save
         /\ saves' \in [Save -> SaveType]
         /\ saves'[sent'].st = "sent" /\ saves'[sent'].part = part
         /\ saves'[sent'].text = t /\ saves'[sent'].card = card
         /\ \A n \in Save : n # sent' => saves'[n] = saves[n]
  <1> USE TypesInPlace
  <1> DEFINE new == [st |-> "sent", part |-> part, text |-> t, card |-> card]
  <1>1. new \in SaveType
    BY DEF SaveType, SaveSt
  <1>2. sent' = sent + 1 /\ sent < MaxSaves /\ saves' = [saves EXCEPT ![sent + 1] = new]
    BY DEF SendPut
  <1>3. MaxSaves \in Nat
    BY Zenon
  <1>4. sent' \in 0..MaxSaves /\ sent' \in Save
    BY <1>2, <1>3 DEF Save
  <1>5. saves' \in [Save -> SaveType] /\ saves'[sent'] = new
        /\ \A n \in Save : n # sent' => saves'[n] = saves[n]
    BY <1>1, <1>2, <1>4
  <1> QED BY <1>2, <1>4, <1>5

\* A text typed is the next one.
LEMMA NewValueTypes ==
  ASSUME PlanTypeOK, NewValue
  PROVE  typed' = typed + 1 /\ typed' \in Typable /\ typed + 1 \in Typable
  <1>1. MaxTyped \in Nat
    BY Zenon
  <1> QED BY <1>1, TypesInPlace DEF NewValue, Typable

LEMMA EditTypes ==
  ASSUME PlanTypeOK, Type \/ Commit \/ Choose \/ TypeNote \/ FlushNote
  PROVE  PlanTypeOK'
  <1> USE TypesInPlace
  <1>1. UNCHANGED <<server, view, cache, open, failed, loading, issued, current, loads, retry,
                    visits, card>>
    BY DEF Type, Commit, Choose, TypeNote, FlushNote, listVars
  <1>2. typed' \in Typable /\ (NewValue => typed + 1 \in Typable)
    BY NewValueTypes DEF Type, Commit, Choose, TypeNote, FlushNote
  <1>3. field' \in FieldType
    BY <1>2 DEF Type, Commit, Choose, TypeNote, FlushNote, FieldType
  <1>4. noteDraft' \in Typable
    BY <1>2 DEF Type, Commit, Choose, TypeNote, FlushNote
  <1>5. sent' \in 0..MaxSaves /\ saves' \in [Save -> SaveType]
    <2>1. field.value \in Typable /\ "core" \in Parts /\ "note" \in Parts
      BY DEF FieldType, Parts
    <2>2. CASE Commit \/ Choose
      BY <1>2, <2>1, <2>2, SendPutTypes DEF Commit, Choose
    <2>3. CASE FlushNote
      BY <2>1, <2>3, SendPutTypes DEF FlushNote
    <2>4. CASE Type \/ TypeNote
      BY <2>4 DEF Type, TypeNote
    <2> QED BY <2>2, <2>3, <2>4
  <1> QED BY <1>1, <1>2, <1>3, <1>4, <1>5 DEF PlanTypeOK, FieldType, LoadType, SaveType

\* What the promise of a save leaves in the field.
LEMMA SettledTypes ==
  ASSUME PlanTypeOK, NEW n \in Save
  PROVE  Settled(n, Saved(n)) \in FieldType /\ Settled(n, Unsaved) \in FieldType
  BY TypesInPlace, SettledField DEF Settled, SaveType

LEMMA SaveTypes ==
  ASSUME PlanTypeOK, NEW n \in Save, PlanSaves(n)
  PROVE  PlanTypeOK'
  <1> USE TypesInPlace
  <1>0. saves[n] \in SaveType /\ {"stored", "over", "lost"} \subseteq SaveSt
    BY DEF SaveSt
  <1>1. CASE Store(n)
    <2>1. saves' = [saves EXCEPT ![n].st = "stored"]
          /\ server' = [server EXCEPT ![saves[n].part] = saves[n].text]
      BY <1>1 DEF Store
    <2>2. saves' \in [Save -> SaveType]
      BY <1>0, <2>1 DEF SaveType
    <2>3. server' \in RoleTexts
      BY <1>0, <2>1 DEF SaveType, RoleTexts, Parts
    <2>4. UNCHANGED <<listVars, retry, visits, card, field, noteDraft, typed, sent>>
      BY <1>1 DEF Store
    <2> QED BY <2>2, <2>3, <2>4 DEF PlanTypeOK, listVars, FieldType, LoadType, SaveType
  <1>2. CASE SaveSucceeds(n)
    <2>1. saves' = [saves EXCEPT ![n].st = "over"]
          /\ UNCHANGED <<server, visits, typed, sent>>
      BY <1>2 DEF SaveSucceeds
    <2>2. saves' \in [Save -> SaveType]
      BY <1>0, <2>1 DEF SaveType
    <2>3. /\ UNCHANGED <<open, view, failed, cache>>
          /\ issued' \in 0..MaxLoads /\ current' \in 0..issued' /\ loading' \in BOOLEAN
          /\ loads' \in [Load -> LoadType]
      BY <1>2, ReloadTypes DEF SaveSucceeds, Emitted, listVars
    <2>4. retry' \in {"unused", "armed", "cancelled", "fired"}
      BY <1>2 DEF SaveSucceeds, RetryAfter
    <2>5. card' \in Nat /\ field' \in FieldType /\ noteDraft' \in Typable
      BY <1>2, <2>3, RenderTypes, SettledTypes DEF SaveSucceeds
    <2> QED BY <2>1, <2>2, <2>3, <2>4, <2>5 DEF PlanTypeOK, FieldType, LoadType, SaveType
  <1>3. CASE SaveFails(n)
    <2>1. /\ \/ saves' = [saves EXCEPT ![n].st = "lost"]
             \/ saves' = [saves EXCEPT ![n].st = "over"]
          /\ UNCHANGED <<server, listVars, retry, visits, typed, sent>>
      BY <1>3 DEF SaveFails
    <2>2. saves' \in [Save -> SaveType]
      BY <1>0, <2>1 DEF SaveType
    <2>3. UNCHANGED view
      BY <2>1 DEF listVars
    <2>4. card' \in Nat /\ field' \in FieldType /\ noteDraft' \in Typable
      BY <1>3, <2>3, RenderTypes, SettledTypes DEF SaveFails
    <2> QED BY <2>1, <2>2, <2>4 DEF PlanTypeOK, listVars, FieldType, LoadType, SaveType
  <1> QED BY <1>1, <1>2, <1>3 DEF PlanSaves

LEMMA PlanNextTypes ==
  ASSUME PlanTypeOK, PlanNext
  PROVE  PlanTypeOK'
  BY PageTypes, LoadTypes, EditTypes, SaveTypes DEF PlanNext

-----------------------------------------------------------------------------
(* Loads: an open page waits for the last load and shows its answer.       *)

\* A load started is the last one, and its answer is not there yet.
LEMMA ReloadLoads ==
  ASSUME PlanTypeOK, LoadsInv, Reload
  PROVE  LoadsInv'
  <1>1. /\ current' = issued' /\ issued' = issued + 1 /\ issued' \in Load
        /\ loads'[current'].st = "sent"
        /\ \A n \in Load : n # current' => loads'[n] = loads[n]
    BY ReloadTypes
  <1>2. issued \in Nat
    BY TypesInPlace
  <1>3. \A n \in Load : loads'[n].st = "none" <=> n > issued'
    BY <1>1, <1>2 DEF LoadsInv, Load
  <1> QED BY <1>1, <1>2, <1>3 DEF LoadsInv

\* An answer is what is stored at its moment.
LEMMA LoadsStep ==
  ASSUME PlanTypeOK, LoadsInv, SavesInv, PlanNext
  PROVE  LoadsInv'
  <1> USE TypesInPlace
  <1>1. CASE OpenPage \/ RetryFires
    BY <1>1, ReloadLoads DEF OpenPage, Mount, RetryFires
  <1>2. CASE LeavePage
    BY <1>2 DEF LeavePage, Unmount, LoadsInv
  <1>3. ASSUME NEW n \in Load, PlanLoads(n)
        PROVE  LoadsInv'
    <2>1. PICK x \in LoadType : /\ loads' = [loads EXCEPT ![n] = x]
                                /\ x.st \in {"answered", "over", "failed"}
                                /\ loads[n].st \in {"sent", "answered"}
                                /\ x.st = "answered" => x.data = server
                                /\ x.st = "over" => x.data = loads[n].data /\ loads[n].st = "answered"
      <3>1. CASE RoleAnswered(n)
        <4> DEFINE y == [st |-> "answered", data |-> server]
        <4>1. y \in LoadType
          BY DEF LoadType, LoadSt
        <4> QED BY <3>1, <4>1 DEF RoleAnswered, Answer
      <3>2. CASE RoleArrives(n)
        <4> DEFINE y == [loads[n] EXCEPT !.st = "over"]
        <4>1. y \in LoadType /\ y.st = "over" /\ y.data = loads[n].data
          BY DEF LoadType, LoadSt
        <4>2. loads' = [loads EXCEPT ![n] = y]
          BY <3>2 DEF RoleArrives, Deliver
        <4>3. loads[n].st = "answered"
          BY <3>2 DEF RoleArrives, Deliver
        <4> HIDE DEF y
        <4> QED BY <4>1, <4>2, <4>3
      <3>3. CASE RoleFails(n)
        <4> DEFINE y == [loads[n] EXCEPT !.st = "failed"]
        <4>1. y \in LoadType /\ y.st = "failed"
          BY DEF LoadType, LoadSt
        <4>2. loads' = [loads EXCEPT ![n] = y]
          BY <3>3 DEF RoleFails, Fail
        <4>3. loads[n].st \in {"sent", "answered"}
          BY <3>3 DEF RoleFails, Fail
        <4> HIDE DEF y
        <4> QED BY <4>1, <4>2, <4>3
      <3> QED BY <1>3, <3>1, <3>2, <3>3 DEF PlanLoads
    <2>2. UNCHANGED <<open, current, issued, server, saves>>
      BY <1>3 DEF PlanLoads, RoleAnswered, Answer, RoleArrives, Deliver, RoleFails, Fail
    <2>3. open /\ current = n /\ x.st = "over" => view' = x.data
      <3>1. x.st = "over" => RoleArrives(n)
        <4>1. loads'[n] = x
          BY <2>1
        <4>2. RoleAnswered(n) => loads'[n].st = "answered"
          BY DEF RoleAnswered, Answer
        <4>3. RoleFails(n) => loads'[n].st = "failed"
          BY DEF RoleFails, Fail, LoadType
        <4> QED BY <1>3, <4>1, <4>2, <4>3 DEF PlanLoads
      <3> QED BY <2>1, <3>1 DEF RoleArrives, Deliver, Applied
    <2>4. open /\ current # n => UNCHANGED view
      BY <1>3 DEF PlanLoads, RoleAnswered, Answer, RoleArrives, Deliver, RoleFails, Fail, Applied
    <2>5. loads'[n] = x /\ \A m \in Load : m # n => loads'[m] = loads[m]
      BY <2>1
    <2>6. \A m \in Load : loads'[m].st = "none" <=> m > issued
      BY <2>1, <2>5 DEF LoadsInv
    <2>7. open => current \in Load
      BY DEF LoadsInv, Load
    <2>8. CASE current = n
      BY <2>1, <2>2, <2>3, <2>5, <2>6, <2>8 DEF LoadsInv
    <2>9. CASE current # n
      BY <2>2, <2>4, <2>5, <2>6, <2>7, <2>9 DEF LoadsInv
    <2> QED BY <2>8, <2>9
  <1>4. CASE Type \/ Commit \/ Choose \/ TypeNote \/ FlushNote
    <2>1. UNCHANGED <<server, open, view, current, issued, loads>>
      BY <1>4 DEF Type, Commit, Choose, TypeNote, FlushNote, listVars
    <2>2. \A n \in Save : saves[n].st \in {"stored", "lost"} => saves'[n] = saves[n]
      <3>1. saves[sent + 1].st = "none" \/ sent + 1 \notin Save
        BY DEF SavesInv
      <3> QED BY <1>4, <3>1 DEF Type, Commit, Choose, TypeNote, FlushNote, SendPut
    <2> QED BY <2>1, <2>2 DEF LoadsInv
  <1>5. ASSUME NEW n \in Save, Store(n)
        PROVE  LoadsInv'
    <2>1. UNCHANGED <<open, view, current, issued, loads>> /\ saves'[n].st = "stored"
      BY <1>5 DEF Store, listVars, SaveType
    <2> QED BY <2>1 DEF LoadsInv
  <1>6. ASSUME NEW n \in Save, SaveSucceeds(n)
        PROVE  LoadsInv'
    <2>1. CASE open
      BY <1>6, <2>1, ReloadLoads DEF SaveSucceeds, Emitted
    <2>2. CASE ~open
      BY <1>6, <2>2 DEF SaveSucceeds, Emitted, LoadsInv, listVars
    <2> QED BY <2>1, <2>2
  <1>7. ASSUME NEW n \in Save, SaveFails(n)
        PROVE  LoadsInv'
    <2>1. UNCHANGED <<server, open, view, current, issued, loads>>
      BY <1>7 DEF SaveFails, listVars
    <2>2. saves' = [saves EXCEPT ![n].st = IF saves[n].st = "stored" THEN "lost" ELSE "over"]
          /\ (saves[n].st = "stored" \/ saves[n].st = "sent")
      BY <1>7 DEF SaveFails, Turn
    <2>3. \A m \in Save : saves[m].st \in {"stored", "lost"} => saves'[m].st \in {"stored", "lost"}
      BY <2>2 DEF SaveType
    <2> QED BY <2>1, <2>3 DEF LoadsInv
  <1> QED
    BY <1>1, <1>2, <1>3, <1>4, <1>5, <1>6, <1>7 DEF PlanNext, PlanSaves

-----------------------------------------------------------------------------
(* Saves: their texts grow in the order they are sent.                     *)

\* What the save and field invariants say about the saves, and a step that only
\* lets saves end keeps it.
SavesEnd ==
    \A n \in Save : /\ saves'[n].part = saves[n].part /\ saves'[n].text = saves[n].text
                    /\ saves'[n].card = saves[n].card
                    /\ saves'[n].st = "none" <=> saves[n].st = "none"
                    /\ saves'[n].st = "sent" => saves[n].st = "sent"
                    /\ saves'[n].st = "stored" => saves[n].st = "stored"

LEMMA SavesEndStep ==
  ASSUME PlanTypeOK, SavesInv, SavesEnd, server' = server, sent' = sent,
         typed' \in Nat, typed' >= typed, card' \in Nat, card' >= card
  PROVE  SavesInv'
  <1> USE DEF SavesEnd
  <1>1. \A n \in Save : CoreSave(n)' <=> CoreSave(n)
    BY DEF CoreSave
  <1>2. \A n \in Save : saves[n].text \in Nat /\ saves[n].card \in Nat
    BY TypesInPlace DEF SaveType, Typable
  <1>3. server.core \in Nat /\ typed \in Nat /\ card \in Nat
    BY TypesInPlace DEF RoleTexts, Typable
  <1>4. \A n \in Save : CoreSave(n)' => saves'[n].text <= typed' /\ saves'[n].card <= card'
    BY <1>1, <1>2, <1>3 DEF SavesInv
  <1>5. server'.core <= typed'
    BY <1>3 DEF SavesInv
  <1> QED BY <1>1, <1>4, <1>5 DEF SavesInv

\* A save of the round's core with a text at least as new as all others, and as
\* what is stored.
LEMMA SendCoreStep ==
  ASSUME PlanTypeOK, SavesInv, NEW t \in Typable, SendPut("core", t),
         \A n \in Save : CoreSave(n) => saves[n].text <= t,
         server.core <= t, t <= typed', typed' \in Nat, typed' >= typed,
         UNCHANGED <<server, card>>
  PROVE  SavesInv'
  <1>1. /\ sent' = sent + 1 /\ sent' \in Save
        /\ saves'[sent'].st = "sent" /\ saves'[sent'].part = "core"
        /\ saves'[sent'].text = t /\ saves'[sent'].card = card
        /\ \A n \in Save : n # sent' => saves'[n] = saves[n]
    BY SendPutTypes DEF Parts
  <1>2. card \in Nat /\ sent \in Nat /\ typed \in Nat /\ server.core \in Nat
        /\ \A n \in Save : saves[n].text \in Nat
    BY TypesInPlace DEF SaveType, Typable, RoleTexts
  <1>3. \A n \in Save : n # sent' => (CoreSave(n)' <=> CoreSave(n))
    BY <1>1 DEF CoreSave
  <1>4. \A n \in Save : saves'[n].st = "none" <=> n > sent'
    BY <1>1, <1>2 DEF SavesInv, Save
  <1>5. \A n \in Save : CoreSave(n)' => n <= sent'
    BY <1>1, <1>2, <1>4 DEF CoreSave, Save
  <1>6. \A n \in Save : CoreSave(n)' => saves'[n].text <= typed' /\ saves'[n].card <= card'
    BY <1>1, <1>2, <1>3 DEF SavesInv
  <1>7. \A m, n \in Save : CoreSave(m)' /\ CoreSave(n)' /\ m < n => saves'[m].text <= saves'[n].text
    <2> SUFFICES ASSUME NEW m \in Save, NEW n \in Save, CoreSave(m)', CoreSave(n)', m < n
                 PROVE  saves'[m].text <= saves'[n].text
      OBVIOUS
    <2>1. m # sent'
      BY <1>1, <1>2, <1>5 DEF Save
    <2>2. CASE n = sent'
      BY <1>1, <1>3, <2>1, <2>2
    <2>3. CASE n # sent'
      BY <1>1, <1>3, <2>1, <2>3 DEF SavesInv
    <2> QED BY <2>2, <2>3
  <1>8. \A n \in Save : CoreSave(n)' /\ saves'[n].st = "sent" => server'.core <= saves'[n].text
    BY <1>1, <1>3 DEF SavesInv
  <1>9. \A n \in Save : CoreSave(n)' /\ saves'[n].st = "stored" => saves'[n].text <= server'.core
    BY <1>1, <1>3 DEF SavesInv
  <1>10. server'.core <= typed'
    BY <1>2 DEF SavesInv
  <1> QED BY <1>4, <1>6, <1>7, <1>8, <1>9, <1>10 DEF SavesInv

\* The save of a guideline is none of the core's.
LEMMA SendNoteStep ==
  ASSUME PlanTypeOK, SavesInv, NEW t \in Typable, SendPut("note", t),
         UNCHANGED <<server, card, typed>>
  PROVE  /\ SavesInv'
         /\ \A n \in Save : /\ CoreSave(n)' <=> CoreSave(n)
                            /\ CoreSave(n) => saves'[n] = saves[n]
  <1>1. /\ sent' = sent + 1 /\ sent' \in Save
        /\ saves'[sent'].st = "sent" /\ saves'[sent'].part = "note"
        /\ \A n \in Save : n # sent' => saves'[n] = saves[n]
    BY SendPutTypes DEF Parts
  <1>2. sent \in Nat
    BY TypesInPlace
  <1>3. ~CoreSave(sent')
    BY <1>1, <1>2 DEF CoreSave, SavesInv, Save
  <1>4. ~(saves'[sent'].st # "none" /\ saves'[sent'].part = "core")
    BY <1>1
  <1>5. \A n \in Save : /\ CoreSave(n)' <=> CoreSave(n)
                        /\ CoreSave(n) => saves'[n] = saves[n]
    BY <1>1, <1>3, <1>4 DEF CoreSave
  <1>6. \A n \in Save : saves'[n].st = "none" <=> n > sent'
    BY <1>1, <1>2 DEF SavesInv, Save
  <1> QED BY <1>5, <1>6 DEF SavesInv

\* The save that is stored is the oldest under way: what is stored grows.
LEMMA StoreStep ==
  ASSUME PlanTypeOK, SavesInv, NEW n \in Save, Store(n)
  PROVE  SavesInv'
  <1>1. /\ saves[n].st = "sent" /\ \A k \in Save : k < n => saves[k].st # "sent"
        /\ saves' = [saves EXCEPT ![n].st = "stored"]
        /\ server' = [server EXCEPT ![saves[n].part] = saves[n].text]
        /\ UNCHANGED <<card, typed, sent>>
    BY DEF Store, Turn
  <1>2. /\ \A k \in Save : /\ saves'[k].part = saves[k].part /\ saves'[k].text = saves[k].text
                           /\ saves'[k].card = saves[k].card
        /\ saves'[n].st = "stored" /\ \A k \in Save : k # n => saves'[k].st = saves[k].st
    BY <1>1, TypesInPlace DEF SaveType
  <1>3. \A k \in Save : CoreSave(k)' <=> CoreSave(k)
    BY <1>1, <1>2 DEF CoreSave
  <1>4. /\ server'.core = IF saves[n].part = "core" THEN saves[n].text ELSE server.core
        /\ server.core \in Nat /\ \A k \in Save : saves[k].text \in Nat /\ k \in Nat
    <2>1. server \in RoleTexts /\ saves \in [Save -> SaveType]
      BY TypesInPlace
    <2>2. server'.core = IF saves[n].part = "core" THEN saves[n].text ELSE server.core
      BY <1>1, <2>1 DEF RoleTexts, Parts
    <2>3. server.core \in Nat
      BY <2>1 DEF RoleTexts, Parts, Typable
    <2>4. \A k \in Save : saves[k].text \in Nat /\ k \in Nat
      BY <2>1 DEF SaveType, Typable, Save
    <2> QED BY <2>2, <2>3, <2>4
  <1>5. CASE saves[n].part = "note"
    BY <1>1, <1>2, <1>3, <1>4, <1>5 DEF SavesInv, CoreSave
  <1>6. CASE saves[n].part = "core"
    <2>1. server'.core = saves[n].text /\ CoreSave(n)
      BY <1>1, <1>4, <1>6 DEF CoreSave
    <2>2. \A k \in Save : CoreSave(k)' /\ saves'[k].st = "sent" => server'.core <= saves'[k].text
      <3> SUFFICES ASSUME NEW k \in Save, CoreSave(k), saves'[k].st = "sent"
                   PROVE  saves[n].text <= saves[k].text
        BY <1>2, <1>3, <2>1
      <3>1. saves[k].st = "sent" /\ k # n
        BY <1>2
      <3>2. n < k
        BY <1>1, <1>4, <3>1
      <3> QED BY <2>1, <3>2 DEF SavesInv
    <2>3. \A k \in Save : CoreSave(k)' /\ saves'[k].st = "stored" => saves'[k].text <= server'.core
      <3> SUFFICES ASSUME NEW k \in Save, CoreSave(k), saves'[k].st = "stored", k # n
                   PROVE  saves[k].text <= saves[n].text
        BY <1>2, <1>3, <1>4, <2>1
      <3>1. saves[k].text <= server.core /\ server.core <= saves[n].text
        BY <1>1, <1>2, <2>1 DEF SavesInv
      <3> QED BY <1>4, <3>1
    <2>4. server'.core <= typed'
      BY <1>1, <2>1 DEF SavesInv
    <2> QED BY <1>1, <1>2, <1>3, <2>2, <2>3, <2>4 DEF SavesInv
  <1>7. saves[n].part \in Parts
    BY TypesInPlace DEF SaveType
  <1> QED BY <1>5, <1>6, <1>7 DEF Parts

\* A card is kept or a new one is numbered.
LEMMA CardGrows ==
  ASSUME PlanTypeOK, NEW from, NEW arrived, Render(from, arrived)
  PROVE  card' \in Nat /\ card' >= card
  BY RenderCases, TypesInPlace

LEMMA SettlingSaves ==
  ASSUME PlanTypeOK, NEW n \in Save, SaveSucceeds(n) \/ SaveFails(n)
  PROVE  SavesEnd
  <1>1. saves[n].st \in {"sent", "stored"}
    BY DEF SaveSucceeds, SaveFails, Turn
  <1>2. PICK st \in {"over", "lost"} : saves' = [saves EXCEPT ![n].st = st]
    BY DEF SaveSucceeds, SaveFails
  <1> QED BY <1>1, <1>2, TypesInPlace DEF SavesEnd, SaveType

LEMMA SavesStep ==
  ASSUME PlanTypeOK, SavesInv, FieldInv, PlanNext
  PROVE  SavesInv'
  <1>0. /\ card \in Nat /\ typed \in Nat /\ server.core \in Nat /\ field.value \in Typable
        /\ \A n \in Save : saves[n].text \in Nat
    BY TypesInPlace DEF SaveType, Typable, RoleTexts, FieldType
  <1>1. ASSUME UNCHANGED <<saves, server, sent, typed>>, card' \in Nat, card' >= card
        PROVE  SavesInv'
    BY <1>0, <1>1, SavesEndStep DEF SavesEnd
  <1>2. CASE OpenPage \/ LeavePage \/ RetryFires \/ \E n \in Load : PlanLoads(n)
    <2>1. UNCHANGED <<saves, server, sent, typed>>
      BY <1>2 DEF OpenPage, LeavePage, RetryFires, PlanLoads, RoleAnswered, RoleArrives, RoleFails
    <2>2. card' = card \/ \E from, arrived : Render(from, arrived)
      BY <1>2 DEF OpenPage, LeavePage, RetryFires, PlanLoads, RoleAnswered, RoleArrives, RoleFails
    <2>3. card' \in Nat /\ card' >= card
      BY <1>0, <2>2, CardGrows
    <2> QED BY <1>1, <2>1, <2>3
  <1>3. CASE Type \/ TypeNote
    <2>1. UNCHANGED <<saves, server, sent, card>> /\ NewValue
      BY <1>3 DEF Type, TypeNote
    <2>2. typed' = typed + 1
      BY <2>1 DEF NewValue
    <2>3. SavesEnd
      BY <2>1 DEF SavesEnd
    <2> QED BY <1>0, <2>1, <2>2, <2>3, SavesEndStep
  <1>4. CASE Commit
    <2>1. Shown /\ field.dirty /\ SendPut("core", field.value) /\ UNCHANGED <<server, card, typed>>
      BY <1>4 DEF Commit
    <2>2. /\ field.value <= typed /\ server.core <= field.value
          /\ \A n \in Save : CoreSave(n) => saves[n].text <= field.value
      BY <2>1 DEF FieldInv
    <2>3. typed' \in Nat /\ typed' >= typed /\ field.value <= typed'
      BY <1>0, <2>1, <2>2
    <2> QED BY <1>0, <2>1, <2>2, <2>3, SendCoreStep
  <1>5. CASE Choose
    <2>1. NewValue /\ SendPut("core", typed + 1) /\ UNCHANGED <<server, card>>
      BY <1>5 DEF Choose
    <2>2. typed' = typed + 1 /\ typed + 1 \in Typable
      BY <2>1, NewValueTypes
    <2>3. /\ server.core <= typed + 1
          /\ \A n \in Save : CoreSave(n) => saves[n].text <= typed + 1
      BY <1>0 DEF SavesInv
    <2>4. typed' \in Nat /\ typed' >= typed /\ typed + 1 <= typed'
      BY <1>0, <2>2
    <2> QED BY <2>1, <2>2, <2>3, <2>4, SendCoreStep
  <1>6. CASE FlushNote
    <2>1. noteDraft \in Typable
      BY TypesInPlace
    <2> QED BY <1>6, <2>1, SendNoteStep DEF FlushNote
  <1>7. ASSUME NEW n \in Save, Store(n)
        PROVE  SavesInv'
    BY <1>7, StoreStep
  <1>8. ASSUME NEW n \in Save, SaveSucceeds(n) \/ SaveFails(n)
        PROVE  SavesInv'
    <2>1. SavesEnd /\ UNCHANGED <<server, sent, typed>>
      BY <1>8, SettlingSaves DEF SaveSucceeds, SaveFails
    <2>2. card' \in Nat /\ card' >= card
      BY <1>8, CardGrows DEF SaveSucceeds, SaveFails
    <2> QED BY <1>0, <2>1, <2>2, SavesEndStep
  <1> QED
    BY <1>2, <1>3, <1>4, <1>5, <1>6, <1>7, <1>8 DEF PlanNext, PlanSaves

-----------------------------------------------------------------------------
(* The field of the card shown.                                            *)

\* A card that appears has sent nothing and shows what is loaded.
LEMMA NewCard ==
  ASSUME PlanTypeOK', card \in Nat, Shown', card' = card + 1, field' = Fresh(view'.core),
         \A n \in Save : CoreSave(n)' => saves'[n].card <= card
  PROVE  FieldInv'
  <1>1. view'.core \in Typable
    BY DEF Shown, PlanTypeOK, RoleTexts
  <1>2. field'.value = view'.core /\ field'.prev = view'.core /\ field'.dirty = FALSE
    BY <1>1, FreshField
  <1>3. ~OwnSave'
    <2>1. \A n \in Save : CoreSave(n)' => saves'[n].card # card'
      BY DEF PlanTypeOK
    <2> QED BY <2>1 DEF OwnSave
  <1> QED BY <1>2, <1>3 DEF FieldInv

\* The card stays, its field and what is stored of its core stay, no core save
\* is sent, and an answer that comes is what is stored.
LEMMA FieldKept ==
  ASSUME PlanTypeOK, FieldInv, Shown' => Shown,
         UNCHANGED <<view, field, card>>, server'.core = server.core,
         typed' \in Nat, typed' >= typed,
         \A n \in Save : /\ CoreSave(n)' <=> CoreSave(n)
                         /\ saves'[n].text = saves[n].text \/ ~CoreSave(n)
                         /\ saves'[n].card = saves[n].card \/ ~CoreSave(n),
         Shown' /\ loads'[current'].st = "answered"
            => \/ loads'[current'].data.core = server.core
               \/ loads[current].st = "answered" /\ loads'[current'] = loads[current]
  PROVE  FieldInv'
  <1>1. OwnSave' <=> OwnSave
    BY DEF OwnSave
  <1>2. field.value \in Nat /\ typed \in Nat
    BY TypesInPlace DEF FieldType, Typable
  <1> SUFFICES ASSUME Shown'
               PROVE  FieldInv'
    BY DEF FieldInv
  <1>3. field.dirty \/ OwnSave =>
              /\ field.value <= typed' /\ server.core <= field.value
              /\ \A n \in Save : CoreSave(n)' => saves'[n].text <= field.value
    BY <1>2 DEF FieldInv
  <1> QED BY <1>1, <1>3 DEF FieldInv

\* The role arrives under the card: a clean field takes it over, and if the card
\* has saved, it is what the field shows.
LEMMA ArrivesStep ==
  ASSUME PlanTypeOK, LoadsInv, SavesInv, FieldInv, NEW n \in Load, RoleArrives(n), PlanTypeOK'
  PROVE  FieldInv'
  <1> USE TypesInPlace
  <1>0. /\ UNCHANGED <<server, saves, typed, current, open>>
        /\ loads' = [loads EXCEPT ![n].st = "over"]
        /\ loads[n].st = "answered"
        /\ Render(field, open /\ Applied(n))
    BY DEF RoleArrives, Deliver
  <1>1. CASE Shown' /\ ~Shown
    <2>1. card' = card + 1 /\ field' = Fresh(view'.core)
      BY <1>0, <1>1, RenderCases
    <2>2. \A k \in Save : CoreSave(k)' => saves'[k].card <= card
      BY <1>0 DEF SavesInv, CoreSave
    <2> QED BY <1>1, <2>1, <2>2, NewCard
  <1>2. CASE Shown' /\ Shown /\ current = n
    <2>1. /\ card' = card /\ field' = Reconciled(view'.core)
          /\ view' = loads[n].data
      BY <1>0, <1>2, RenderCases DEF RoleArrives, Deliver, Applied, Shown
    <2>2. view'.core \in Typable /\ field \in FieldType
      BY <1>2 DEF Shown, PlanTypeOK, RoleTexts
    <2> DEFINE t == view'.core
    <2>3. /\ field'.prev = t /\ field'.dirty = field.dirty
          /\ field.dirty \/ t = field.prev => field'.value = field.value
          /\ ~field.dirty /\ t # field.prev => field'.value = t
      BY <2>1, <2>2, ReconciledField
    <2>4. (OwnSave' <=> OwnSave) /\ \A k \in Save : CoreSave(k)' <=> CoreSave(k)
      BY <1>0, <2>1 DEF OwnSave, CoreSave
    <2>5. ~field.dirty /\ OwnSave => t = server.core /\ field.value = server.core
      BY <1>0, <1>2, <2>1 DEF FieldInv
    <2>6. loads'[current'].st = "over"
      BY <1>0, <1>2 DEF LoadType
    <2>7. CASE ~field.dirty /\ ~OwnSave
      BY <1>2, <2>3, <2>4, <2>7 DEF FieldInv
    <2>8. CASE field.dirty \/ OwnSave
      <3>1. field'.value = field.value
        BY <2>3, <2>5, <2>8
      <3>2. /\ field'.value <= typed' /\ server'.core <= field'.value
            /\ \A k \in Save : CoreSave(k)' => saves'[k].text <= field'.value
        BY <1>0, <1>2, <2>4, <2>8, <3>1 DEF FieldInv
      <3>3. ~field'.dirty => field'.value = server'.core
        BY <1>0, <2>3, <2>5, <2>8, <3>1
      <3> QED BY <2>3, <2>4, <2>6, <2>8, <3>2, <3>3 DEF FieldInv
    <2> QED BY <2>7, <2>8
  <1>3. CASE Shown' /\ Shown /\ current # n
    <2>1. UNCHANGED <<view, card, field>>
      BY <1>0, <1>3, RenderCases DEF RoleArrives, Deliver, Applied
    <2>2. current \in Load
      BY <1>3 DEF Shown, LoadsInv, Load
    <2>3. loads'[current'] = loads[current]
      BY <1>0, <1>3, <2>2
    <2>4. typed \in Nat
      BY DEF Typable
    <2> QED BY <1>0, <1>3, <2>1, <2>3, <2>4, FieldKept DEF CoreSave
  <1>4. CASE ~Shown'
    BY <1>4 DEF FieldInv
  <1> QED BY <1>1, <1>2, <1>3, <1>4

\* A page that opens shows a new card or none; one that leaves or loads again in
\* its retry shows none.
LEMMA PageField ==
  ASSUME PlanTypeOK, PlanTypeOK', SavesInv, OpenPage \/ LeavePage \/ RetryFires
  PROVE  FieldInv'
  <1>1. CASE OpenPage
    <2>1. ~Shown /\ Render(field, FALSE) /\ UNCHANGED saves
      BY <1>1 DEF OpenPage, Mount, Shown
    <2>2. \A k \in Save : CoreSave(k)' => saves'[k].card <= card
      BY <2>1 DEF SavesInv, CoreSave
    <2>3. CASE Shown'
      BY <2>1, <2>2, <2>3, RenderCases, NewCard, TypesInPlace
    <2>4. CASE ~Shown'
      BY <2>4 DEF FieldInv
    <2> QED BY <2>3, <2>4
  <1>2. CASE LeavePage
    BY <1>2 DEF LeavePage, Unmount, Shown, FieldInv
  <1>3. CASE RetryFires
    BY <1>3 DEF RetryFires, Reload, Shown, Skeleton, FieldInv
  <1> QED BY <1>1, <1>2, <1>3

\* An answer on its way holds what is stored.
LEMMA AnsweredField ==
  ASSUME PlanTypeOK, LoadsInv, FieldInv, NEW n \in Load, RoleAnswered(n)
  PROVE  FieldInv'
  <1>1. /\ UNCHANGED <<server, saves, typed, current, open, view, field, card, loading, failed, retry>>
        /\ loads' = [loads EXCEPT ![n] = [st |-> "answered", data |-> server]]
    BY DEF RoleAnswered, Answer
  <1>2. Shown' <=> Shown
    BY <1>1 DEF Shown, Skeleton
  <1>3. Shown => current \in Load
    BY TypesInPlace DEF Shown, LoadsInv, Load
  <1>4. Shown => \/ loads'[current'].data.core = server.core
                 \/ loads'[current'] = loads[current]
    BY <1>1, <1>3, TypesInPlace
  <1>5. typed \in Nat
    BY TypesInPlace DEF Typable
  <1> QED BY <1>1, <1>2, <1>4, <1>5, FieldKept DEF CoreSave

\* A load that fails changes no card that stays.
LEMMA FailsField ==
  ASSUME PlanTypeOK, PlanTypeOK', LoadsInv, SavesInv, FieldInv, NEW n \in Load, RoleFails(n)
  PROVE  FieldInv'
  <1>1. /\ UNCHANGED <<server, saves, typed, current, open, view>>
        /\ loads' = [loads EXCEPT ![n].st = "failed"]
        /\ Render(field, FALSE)
    BY DEF RoleFails, Fail
  <1>2. CASE Shown' /\ ~Shown
    <2>1. \A k \in Save : CoreSave(k)' => saves'[k].card <= card
      BY <1>1 DEF SavesInv, CoreSave
    <2> QED BY <1>1, <1>2, <2>1, RenderCases, NewCard, TypesInPlace
  <1>3. CASE Shown' /\ Shown
    <2>1. card' = card /\ field' = field
      BY <1>1, <1>3, RenderCases
    <2>2. current \in Load
      BY <1>3, TypesInPlace DEF Shown, LoadsInv, Load
    <2>3. loads'[current'].st = "answered" => loads'[current'] = loads[current]
      BY <1>1, <2>2, TypesInPlace DEF LoadType
    <2>4. typed \in Nat
      BY TypesInPlace DEF Typable
    <2> QED BY <1>1, <1>3, <2>1, <2>3, <2>4, FieldKept DEF CoreSave
  <1>4. CASE ~Shown'
    BY <1>4 DEF FieldInv
  <1> QED BY <1>2, <1>3, <1>4

\* What is typed or chosen is ahead of everything, and a save that is sent holds
\* the text of its field.
LEMMA EditField ==
  ASSUME PlanTypeOK, LoadsInv, SavesInv, FieldInv, Type \/ Commit \/ Choose
  PROVE  FieldInv'
  <1>1. /\ UNCHANGED <<server, view, card, loads, current>> /\ Shown
        /\ field'.prev = field.prev /\ field'.dirty = TRUE
    BY TypesInPlace DEF Type, Commit, Choose, listVars, FieldType
  <1>2. /\ server.core \in Nat /\ typed \in Nat /\ field.value \in Nat
        /\ \A k \in Save : saves[k].text \in Nat
    BY TypesInPlace DEF RoleTexts, Typable, FieldType, SaveType
  <1>3. CASE Type
    <2>1. UNCHANGED saves /\ field'.value = typed + 1 /\ typed' = typed + 1
      BY <1>3, TypesInPlace DEF Type, NewValue, FieldType
    <2>2. \A k \in Save : CoreSave(k)' => saves'[k].text <= field'.value
      BY <1>2, <2>1 DEF SavesInv, CoreSave
    <2>3. field'.value <= typed' /\ server'.core <= field'.value
      BY <1>1, <1>2, <2>1 DEF SavesInv
    <2> QED BY <1>1, <2>2, <2>3 DEF FieldInv
  <1>4. CASE Commit
    <2>1. /\ SendPut("core", field.value) /\ field'.value = field.value /\ typed' = typed
          /\ field.dirty
      BY <1>4, TypesInPlace DEF Commit, FieldType
    <2>2. field.value \in Typable /\ "core" \in Parts
      BY TypesInPlace DEF FieldType, Parts
    <2>3. /\ sent' \in Save /\ saves'[sent'].text = field.value
          /\ \A k \in Save : k # sent' => saves'[k] = saves[k]
      BY <2>1, <2>2, SendPutTypes
    <2>4. /\ field.value <= typed /\ server.core <= field.value
          /\ \A k \in Save : CoreSave(k) => saves[k].text <= field.value
      BY <1>1, <2>1 DEF FieldInv
    <2>5. \A k \in Save : CoreSave(k)' => saves'[k].text <= field'.value
      BY <1>2, <2>1, <2>3, <2>4 DEF CoreSave
    <2> QED BY <1>1, <2>1, <2>4, <2>5 DEF FieldInv
  <1>5. CASE Choose
    <2>1. /\ SendPut("core", typed + 1) /\ field'.value = typed + 1 /\ NewValue
      BY <1>5, TypesInPlace DEF Choose, FieldType
    <2>2. typed' = typed + 1 /\ typed + 1 \in Typable /\ "core" \in Parts
      BY <2>1, NewValueTypes DEF Parts
    <2>3. /\ sent' \in Save /\ saves'[sent'].text = typed + 1
          /\ \A k \in Save : k # sent' => saves'[k] = saves[k]
      BY <2>1, <2>2, SendPutTypes
    <2>4. \A k \in Save : CoreSave(k)' => saves'[k].text <= field'.value
      BY <1>2, <2>1, <2>3 DEF CoreSave, SavesInv
    <2>5. field'.value <= typed' /\ server'.core <= field'.value
      BY <1>1, <1>2, <2>1, <2>2 DEF SavesInv
    <2> QED BY <1>1, <2>4, <2>5 DEF FieldInv
  <1> QED BY <1>3, <1>4, <1>5

\* The guidelines are no business of the core's field.
LEMMA NoteField ==
  ASSUME PlanTypeOK, LoadsInv, SavesInv, FieldInv, TypeNote \/ FlushNote
  PROVE  FieldInv'
  <1>1. UNCHANGED <<server, view, card, field, loads, current>> /\ (Shown' <=> Shown)
    BY DEF TypeNote, FlushNote, listVars, Shown, Skeleton
  <1>2. typed \in Nat /\ (typed' = typed \/ typed' = typed + 1)
    BY TypesInPlace DEF Typable, TypeNote, FlushNote, NewValue
  <1>3. \A k \in Save : /\ CoreSave(k)' <=> CoreSave(k)
                        /\ CoreSave(k) => saves'[k] = saves[k]
    <2>1. CASE TypeNote
      BY <2>1 DEF TypeNote, CoreSave
    <2>2. CASE FlushNote
      BY <2>2, SendNoteStep, TypesInPlace DEF FlushNote
    <2> QED BY <2>1, <2>2
  <1> QED BY <1>1, <1>2, <1>3, FieldKept

\* What is stored catches up with the field at most.
LEMMA StoreField ==
  ASSUME PlanTypeOK, LoadsInv, SavesInv, FieldInv, NEW n \in Save, Store(n)
  PROVE  FieldInv'
  <1>1. /\ saves[n].st = "sent"
        /\ saves' = [saves EXCEPT ![n].st = "stored"]
        /\ server' = [server EXCEPT ![saves[n].part] = saves[n].text]
        /\ UNCHANGED <<view, card, field, typed, loads, current>> /\ (Shown' <=> Shown)
    BY DEF Store, Turn, listVars, Shown, Skeleton
  <1>2. /\ \A k \in Save : /\ saves'[k].part = saves[k].part /\ saves'[k].text = saves[k].text
                           /\ saves'[k].card = saves[k].card
        /\ saves'[n].st = "stored" /\ \A k \in Save : k # n => saves'[k].st = saves[k].st
    BY <1>1, TypesInPlace DEF SaveType
  <1>3. /\ \A k \in Save : CoreSave(k)' <=> CoreSave(k)
        /\ OwnSave' <=> OwnSave
    BY <1>1, <1>2 DEF CoreSave, OwnSave
  <1>4. /\ server'.core = IF saves[n].part = "core" THEN saves[n].text ELSE server.core
        /\ server.core \in Nat /\ saves[n].text \in Nat /\ typed \in Nat /\ field.value \in Nat
    BY <1>1, TypesInPlace DEF SaveType, RoleTexts, Parts, Typable, FieldType
  <1>5. CASE server'.core = server.core
    BY <1>1, <1>2, <1>3, <1>4, <1>5, FieldKept
  <1>6. CASE server'.core # server.core /\ Shown
    <2>1. CoreSave(n) /\ server'.core = saves[n].text /\ server.core <= saves[n].text
      BY <1>1, <1>4, <1>6 DEF CoreSave, SavesInv
    <2>2. field.dirty \/ ~OwnSave
      <3>1. OwnSave => saves[n].text <= field.value
        BY <1>6, <2>1 DEF FieldInv
      <3>2. OwnSave /\ ~field.dirty => field.value = server.core
        BY <1>6 DEF FieldInv
      <3>3. OwnSave /\ ~field.dirty => FALSE
        BY <1>4, <1>6, <2>1, <3>1, <3>2
      <3> QED BY <3>3
    <2>3. CASE field.dirty
      BY <1>1, <1>2, <1>3, <1>6, <2>1, <2>3 DEF FieldInv
    <2>4. CASE ~field.dirty /\ ~OwnSave
      BY <1>1, <1>3, <1>6, <2>4 DEF FieldInv
    <2> QED BY <2>2, <2>3, <2>4
  <1>7. CASE ~Shown
    BY <1>1, <1>7 DEF FieldInv
  <1> QED BY <1>5, <1>6, <1>7

\* What the end of a save changes besides the field it settles in.
LEMMA SettlingParts ==
  ASSUME PlanTypeOK, NEW n \in Save, SaveSucceeds(n) \/ SaveFails(n)
  PROVE  /\ SavesEnd /\ UNCHANGED <<server, view, typed, open>>
         /\ \A k \in Save : CoreSave(k)' <=> CoreSave(k)
         /\ card' = card => (OwnSave' <=> OwnSave)
         /\ Shown /\ Shown' => \/ loads'[current'].st = "sent"
                               \/ loads'[current'] = loads[current]
  <1>1. SavesEnd
    BY SettlingSaves
  <1>2. UNCHANGED <<server, view, typed, open>>
    BY DEF SaveSucceeds, SaveFails, Emitted, listVars
  <1>3. \A k \in Save : CoreSave(k)' <=> CoreSave(k)
    BY <1>1 DEF SavesEnd, CoreSave
  <1>4. card' = card => (OwnSave' <=> OwnSave)
    BY <1>1, <1>3 DEF SavesEnd, OwnSave
  <1>5. Shown /\ Shown' => \/ loads'[current'].st = "sent"
                          \/ loads'[current'] = loads[current]
    BY ReloadTypes DEF SaveSucceeds, SaveFails, Emitted, listVars
  <1> QED BY <1>1, <1>2, <1>3, <1>4, <1>5

\* A save that ends leaves its own field clean only when what it stored is the
\* text of the field.
LEMMA SettledStep ==
  ASSUME PlanTypeOK, PlanTypeOK', LoadsInv, SavesInv, FieldInv, NEW n \in Save,
         SaveSucceeds(n) \/ SaveFails(n)
  PROVE  FieldInv'
  <1>1. /\ SavesEnd /\ UNCHANGED <<server, view, typed, open>>
        /\ \A k \in Save : CoreSave(k)' <=> CoreSave(k)
        /\ card' = card => (OwnSave' <=> OwnSave)
        /\ Shown /\ Shown' => \/ loads'[current'].st = "sent"
                              \/ loads'[current'] = loads[current]
    BY SettlingParts
  <1>2. /\ typed \in Nat /\ server.core \in Nat /\ field \in FieldType /\ field.value \in Nat
        /\ saves[n].text \in Typable /\ saves[n].text \in Nat /\ card \in Nat
    BY TypesInPlace DEF Typable, RoleTexts, SaveType, FieldType
  <1>3. PICK f \in {Saved(n), Unsaved} : /\ Render(Settled(n, f), FALSE)
                                         /\ f = Saved(n) => saves[n].st = "stored"
    <2>1. CASE SaveSucceeds(n)
      BY <2>1 DEF SaveSucceeds
    <2>2. CASE SaveFails(n) /\ Unsaved # Saved(n)
      BY <2>2 DEF SaveFails
    <2>3. CASE SaveFails(n) /\ Unsaved = Saved(n)
      <3>1. Saved(n).status = "saved" /\ Unsaved.status = "error"
        BY <1>2 DEF Saved, Unsaved, FieldType
      <3> QED BY <2>3, <3>1
    <2> QED BY <2>1, <2>2, <2>3
  <1>4. CASE Shown' /\ ~Shown
    <2>1. \A k \in Save : CoreSave(k)' => saves'[k].card <= card
      BY <1>1 DEF SavesInv, SavesEnd
    <2> QED BY <1>2, <1>3, <1>4, <2>1, RenderCases, NewCard
  <1>5. CASE Shown' /\ Shown
    <2>1. card' = card /\ field' = Settled(n, f)
      BY <1>3, <1>5, RenderCases
    <2>2. CASE field' = field
      BY <1>1, <1>2, <1>5, <2>1, <2>2, FieldKept DEF SavesEnd
    <2>3. CASE field' # field
      <3>1. field' = f /\ saves[n].part = "core" /\ saves[n].card = card
        BY <2>1, <2>3 DEF Settled
      <3>2. CoreSave(n) /\ OwnSave
        <4>1. saves[n].st # "none"
          BY DEF SaveSucceeds, SaveFails, Turn
        <4> QED BY <3>1, <4>1 DEF CoreSave, OwnSave
      <3>3. field'.value = field.value /\ field'.prev = field.prev
        BY <1>2, <1>3, <3>1, SettledField
      <3>4. /\ field'.value <= typed' /\ server'.core <= field'.value
            /\ \A k \in Save : CoreSave(k)' => saves'[k].text <= field'.value
        BY <1>1, <1>5, <3>2, <3>3 DEF FieldInv, SavesEnd
      <3>5. ~field'.dirty => field.value = server.core
        <4> SUFFICES ASSUME ~field'.dirty
                     PROVE  field.value = server.core
          OBVIOUS
        <4>1. f = Saved(n) /\ saves[n].st = "stored" /\ (~field.dirty \/ field.value = saves[n].text)
          BY <1>2, <1>3, <3>1, SettledField
        <4>2. CASE ~field.dirty
          BY <1>5, <3>2, <4>2 DEF FieldInv
        <4>3. CASE field.dirty /\ field.value = saves[n].text
          <5>1. server.core <= field.value /\ saves[n].text <= server.core
            BY <1>5, <3>2, <4>1 DEF FieldInv, SavesInv
          <5> QED BY <1>2, <4>3, <5>1
        <4> QED BY <4>1, <4>2, <4>3
      <3>6. ~field'.dirty /\ loads'[current'].st = "answered"
               => loads'[current'].data.core = server.core
        <4> SUFFICES ASSUME ~field'.dirty
                     PROVE  loads'[current'].st = "sent"
          OBVIOUS
        <4>1. f = Saved(n)
          BY <1>2, <1>3, <3>1, SettledField
        <4>2. SaveSucceeds(n)
          <5>1. SaveFails(n) => field' = Settled(n, Unsaved)
            BY <1>5, RenderCases DEF SaveFails
          <5>2. SaveFails(n) => field'.dirty
            BY <1>2, <1>5, <3>1, <5>1, SettledField DEF Settled
          <5> QED BY <5>2
        <4> QED BY <1>1, <1>5, <4>2, ReloadTypes DEF SaveSucceeds, Emitted, Shown
      <3> QED BY <1>1, <1>5, <2>1, <3>2, <3>3, <3>4, <3>5, <3>6 DEF FieldInv
    <2> QED BY <2>2, <2>3
  <1>6. CASE ~Shown'
    BY <1>6 DEF FieldInv
  <1> QED BY <1>4, <1>5, <1>6

LEMMA FieldStep ==
  ASSUME PlanInv, PlanTypeOK', PlanNext
  PROVE  FieldInv'
  <1>1. PlanTypeOK /\ LoadsInv /\ SavesInv /\ FieldInv
    BY DEF PlanInv
  <1>2. CASE OpenPage \/ LeavePage \/ RetryFires
    BY <1>1, <1>2, PageField
  <1>3. CASE \E n \in Load : PlanLoads(n)
    BY <1>1, <1>3, AnsweredField, ArrivesStep, FailsField DEF PlanLoads
  <1>4. CASE Type \/ Commit \/ Choose \/ TypeNote \/ FlushNote
    BY <1>1, <1>4, EditField, NoteField
  <1>5. CASE \E n \in Save : PlanSaves(n)
    BY <1>1, <1>5, StoreField, SettledStep DEF PlanSaves
  <1> QED BY <1>2, <1>3, <1>4, <1>5 DEF PlanNext

-----------------------------------------------------------------------------
(* Theorems.                                                               *)

LEMMA PlanStep ==
  ASSUME PlanInv, PlanNext
  PROVE  PlanInv'
  <1>1. PlanTypeOK'
    BY PlanNextTypes DEF PlanInv
  <1> QED BY <1>1, LoadsStep, SavesStep, FieldStep DEF PlanInv

LEMMA PlanStutter ==
  ASSUME PlanInv, UNCHANGED planVars
  PROVE  PlanInv'
  <1> USE DEF planVars, listVars
  <1>1. PlanTypeOK'
    BY DEF PlanInv, PlanTypeOK
  <1>2. LoadsInv'
    BY DEF PlanInv, LoadsInv
  <1>3. SavesInv'
    BY DEF PlanInv, SavesInv, CoreSave
  <1>4. FieldInv'
    BY DEF PlanInv, FieldInv, Shown, Skeleton, OwnSave, CoreSave
  <1> QED BY <1>1, <1>2, <1>3, <1>4 DEF PlanInv

\* The inductive invariant of the page holds in every reachable state.
THEOREM PlanInvariance == PlanSpec => []PlanInv
  <1>1. PlanInv /\ [PlanNext]_planVars => PlanInv'
    BY PlanStep, PlanStutter
  <1> QED BY PlanInitInv, <1>1, PTL DEF PlanSpec

\* The page, its loads and its saves keep their types.
THEOREM PlanTypes == PlanSpec => []PlanTypeOK
  <1>1. PlanInv => PlanTypeOK
    BY DEF PlanInv
  <1> QED BY <1>1, PlanInvariance, PTL

LEMMA PlanInvQuiet ==
  ASSUME PlanInv
  PROVE  QuietViewIsStored
  <1> SUFFICES ASSUME UpToDate PROVE view = server
    BY DEF QuietViewIsStored
  <1>1. /\ open /\ loads[current].st # "failed"
        /\ \A n \in Load : loads[n].st \notin {"sent", "answered"}
        /\ \A n \in Save : saves[n].st \notin {"stored", "lost"}
    BY DEF UpToDate, Settling, Shown
  <1>2. current \in Load /\ current <= issued /\ loads[current].st \in LoadSt
    BY <1>1, TypesInPlace DEF PlanInv, LoadsInv, Load, LoadType
  <1>3. loads[current].st = "over"
    BY <1>1, <1>2, TypesInPlace DEF PlanInv, LoadsInv, LoadSt, Load
  <1> QED BY <1>1, <1>3 DEF PlanInv, LoadsInv

\* Once all requests have ended, a page whose last load was answered shows what
\* the backend stores, whatever the order saves, events and answers came in.
THEOREM QuietPageIsStored == PlanSpec => []QuietViewIsStored
  <1>1. PlanInv => QuietViewIsStored
    BY PlanInvQuiet
  <1> QED BY <1>1, PlanInvariance, PTL

\* The text of a round's name on such a page is the stored one, or its field is
\* dirty and offers it again: no typed text vanishes unnoticed.
THEOREM NoEditVanishes == PlanSpec => []EditKeptOrFlagged
  <1>1. PlanInv /\ QuietViewIsStored => EditKeptOrFlagged
    BY DEF PlanInv, FieldInv, EditKeptOrFlagged, QuietViewIsStored, UpToDate
  <1> QED BY <1>1, PlanInvariance, QuietPageIsStored, PTL

LEMMA TypingStep ==
  ASSUME PlanInv, [PlanNext]_planVars
  PROVE  [Shown /\ Shown' /\ card' = card /\ field.dirty /\ typed' = typed =>
            field'.value = field.value]_planVars
  <1> SUFFICES ASSUME PlanNext, PlanTypeOK', Shown, Shown', card' = card, field.dirty,
                      typed' = typed
               PROVE  field'.value = field.value
    BY PlanNextTypes DEF PlanInv
  <1>0. field \in FieldType /\ typed \in Nat
    BY TypesInPlace DEF PlanInv, Typable
  <1>1. CASE OpenPage \/ LeavePage \/ RetryFires
    <2>1. CASE OpenPage
      BY <2>1 DEF OpenPage, Mount, Shown
    <2>2. CASE LeavePage \/ RetryFires
      BY <2>2 DEF LeavePage, RetryFires
    <2> QED BY <1>1, <2>1, <2>2
  <1>2. ASSUME NEW n \in Load, PlanLoads(n)
        PROVE  field'.value = field.value
    <2>1. CASE RoleAnswered(n)
      BY <2>1 DEF RoleAnswered
    <2>2. CASE RoleFails(n)
      BY <2>2, RenderCases DEF RoleFails
    <2>3. CASE RoleArrives(n)
      <3>1. view'.core \in Typable
        BY TypesInPlace DEF Shown, PlanTypeOK, RoleTexts
      <3>2. field' = field \/ field' = Reconciled(view'.core)
        BY <2>3, RenderCases DEF RoleArrives
      <3> QED BY <1>0, <3>1, <3>2, ReconciledField
    <2> QED BY <1>2, <2>1, <2>2, <2>3 DEF PlanLoads
  <1>3. CASE Type \/ Choose
    BY <1>0, <1>3 DEF Type, Choose, NewValue
  <1>4. CASE Commit \/ TypeNote \/ FlushNote
    BY <1>0, <1>4 DEF Commit, TypeNote, FlushNote, FieldType
  <1>5. ASSUME NEW n \in Save, PlanSaves(n)
        PROVE  field'.value = field.value
    <2>1. saves[n].text \in Typable
      BY TypesInPlace DEF PlanInv, SaveType
    <2>2. CASE Store(n)
      BY <2>2 DEF Store
    <2>3. CASE SaveSucceeds(n) \/ SaveFails(n)
      <3>1. field' \in {field, Saved(n), Unsaved}
        BY <2>3, RenderCases DEF SaveSucceeds, SaveFails, Settled
      <3> QED BY <1>0, <2>1, <3>1, SettledField
    <2> QED BY <1>5, <2>2, <2>3 DEF PlanSaves
  <1> QED BY <1>1, <1>2, <1>3, <1>4, <1>5 DEF PlanNext

\* Only typing and choosing change the text of a dirty field: no event, answer
\* or failure that comes under the typing does.
THEOREM TypingSurvives == PlanSpec => TypingKept
  <1>1. PlanInv /\ [PlanNext]_planVars =>
          [Shown /\ Shown' /\ card' = card /\ field.dirty /\ typed' = typed =>
             field'.value = field.value]_planVars
    BY TypingStep
  <1> QED BY <1>1, PlanInvariance, PTL DEF PlanSpec, TypingKept
-----------------------------------------------------------------------------
(* The skeleton waits for something.                                       *)

\* A page that loads waits for its last load; one that failed has armed its retry.
WaitInv ==
    /\ open /\ loading => loads[current].st \in {"sent", "answered"}
    /\ open /\ failed /\ ~loading => retry # "unused"

LEMMA WaitReload ==
  ASSUME PlanTypeOK, Reload
  PROVE  WaitInv'
  <1>1. loads'[current'].st = "sent" /\ loading' = TRUE
    BY ReloadTypes DEF Reload
  <1> QED BY <1>1 DEF WaitInv

LEMMA WaitStep ==
  ASSUME PlanTypeOK, LoadsInv, WaitInv, PlanNext
  PROVE  WaitInv'
  <1> USE TypesInPlace
  <1>0. open => current \in Load
    BY DEF LoadsInv, Load
  <1>1. CASE OpenPage \/ RetryFires
    BY <1>1, WaitReload DEF OpenPage, Mount, RetryFires
  <1>2. CASE LeavePage
    BY <1>2 DEF LeavePage, Unmount, WaitInv
  <1>3. ASSUME NEW n \in Load, RoleAnswered(n)
        PROVE  WaitInv'
    <2>1. /\ UNCHANGED <<open, loading, failed, retry, current>> /\ loads[n].st = "sent"
          /\ loads' = [loads EXCEPT ![n] = [st |-> "answered", data |-> server]]
      BY <1>3 DEF RoleAnswered, Answer
    <2>2. loads'[n].st = "answered" /\ \A m \in Load : m # n => loads'[m] = loads[m]
      BY <2>1
    <2> QED BY <1>0, <2>1, <2>2 DEF WaitInv
  <1>4. ASSUME NEW n \in Load, RoleArrives(n) \/ RoleFails(n)
        PROVE  WaitInv'
    <2>1. /\ open' = open /\ current' = current /\ RetryAfter
          /\ \A m \in Load : m # n => loads'[m] = loads[m]
      BY <1>4 DEF RoleArrives, RoleFails, Deliver, Fail
    <2>2. CASE open /\ current = n
      <3>1. loading' = FALSE
        BY <1>4, <2>2 DEF RoleArrives, RoleFails, Deliver, Fail, Applied
      <3>2. failed' => retry' # "unused"
        BY <2>1, <3>1 DEF RetryAfter
      <3> QED BY <3>1, <3>2 DEF WaitInv
    <2>3. CASE open /\ current # n
      <3>1. UNCHANGED <<loading, failed>>
        BY <1>4, <2>3 DEF RoleArrives, RoleFails, Deliver, Fail, Applied
      <3>2. retry # "unused" => retry' # "unused"
        BY <2>1 DEF RetryAfter
      <3> QED BY <1>0, <2>1, <2>3, <3>1, <3>2 DEF WaitInv
    <2>4. CASE ~open
      BY <2>1, <2>4 DEF WaitInv
    <2> QED BY <2>2, <2>3, <2>4
  <1>5. ASSUME NEW n \in Save, SaveSucceeds(n)
        PROVE  WaitInv'
    <2>1. CASE open
      BY <1>5, <2>1, WaitReload DEF SaveSucceeds, Emitted
    <2>2. CASE ~open
      BY <1>5, <2>2 DEF SaveSucceeds, Emitted, WaitInv, listVars
    <2> QED BY <2>1, <2>2
  <1>6. ASSUME \/ Type \/ Commit \/ Choose \/ TypeNote \/ FlushNote
               \/ \E n \in Save : Store(n) \/ SaveFails(n)
        PROVE  WaitInv'
    <2>1. UNCHANGED <<open, loading, failed, retry, current, loads>>
      BY <1>6 DEF Type, Commit, Choose, TypeNote, FlushNote, Store, SaveFails, listVars
    <2> QED BY <2>1 DEF WaitInv
  <1> QED
    BY <1>1, <1>2, <1>3, <1>4, <1>5, <1>6 DEF PlanNext, PlanLoads, PlanSaves

\* While the page shows its skeleton, its last load is under way or its retry is
\* armed, unless an event cancelled the retry: what PageSettles needs but fairness.
THEOREM SkeletonWaits ==
    PlanSpec => [](open /\ Skeleton => \/ loads[current].st \in {"sent", "answered"}
                                       \/ retry \in {"armed", "cancelled"})
  <1> DEFINE Inv == PlanInv /\ WaitInv
  <1>1. PlanInit => Inv
    BY PlanInitInv DEF PlanInit, ListInit, WaitInv
  <1>2. Inv /\ [PlanNext]_planVars => Inv'
    <2> SUFFICES ASSUME Inv, [PlanNext]_planVars PROVE Inv'
      OBVIOUS
    <2>1. PlanInv'
      BY PlanStep, PlanStutter
    <2>2. CASE PlanNext
      BY <2>1, <2>2, WaitStep DEF PlanInv
    <2>3. CASE UNCHANGED planVars
      BY <2>1, <2>3 DEF planVars, listVars, WaitInv
    <2> QED BY <2>1, <2>2, <2>3
  <1>3. Inv => (open /\ Skeleton => \/ loads[current].st \in {"sent", "answered"}
                                    \/ retry \in {"armed", "cancelled"})
    BY TypesInPlace DEF PlanInv, WaitInv, Skeleton
  <1> QED BY <1>1, <1>2, <1>3, PTL DEF PlanSpec
=============================================================================
