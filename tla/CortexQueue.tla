---------------------------- MODULE CortexQueue -----------------------------
(***************************************************************************)
(* cortex_events as a work queue: triggers touch rows, the poller and the  *)
(* force-publish workers lease batches of them, ingest each into the       *)
(* knowledge graph and record the outcome.  Every await of the code is a   *)
(* step of its own, so workers, edits, lease expiries and process crashes  *)
(* interleave between any two of them.                                     *)
(*                                                                         *)
(* Time is kept per row, by the only events it is compared with:           *)
(* last_touch[e] counts the touches of row e, and "now" seen from row e is *)
(* last_touch[e] itself (at or after the latest touch, before the next).   *)
(* NULL timestamps are 0.  published_at is the lease: it is `leased` until *)
(* LeaseExpires.  The settledness window is `settled`, raised by time.     *)
(***************************************************************************)
EXTENDS Naturals, FiniteSets

CONSTANTS
    Events,           \* rows of cortex_events, one per (event_type, source_id)
    Pollers,          \* scheduler jobs running process_settled_events
    Forcers,          \* background tasks running process_org_now
    Scope,            \* Scope[w]: the rows worker w may claim (p_org_id)
    MaxAttempts,      \* p_max_attempts
    BatchSize,        \* p_limit
    ForceMaxRows,     \* FORCE_PUBLISH_MAX_ROWS
    MaxTouch,         \* bound on the touches of one row
    SlowWorkers,      \* TRUE: a lease may run out under a worker still alive
    Reconcilable,     \* rows whose event type reconcile() queries
    RpcArgument,      \* the argument name reconcile() passes to its RPC
    None              \* no row

Workers == Pollers \cup Forcers

ASSUME QueueAssumption ==
    /\ None \notin Events
    /\ Pollers \cap Forcers = {}
    /\ Scope \in [Workers -> SUBSET Events]
    /\ MaxAttempts \in Nat \ {0}
    /\ BatchSize \in Nat \ {0}
    /\ ForceMaxRows \in Nat \ {0}
    /\ MaxTouch \in Nat \ {0}
    /\ SlowWorkers \in BOOLEAN

VARIABLES
    \* the source tables and the cortex_events rows
    source,           \* touch at which the source's content last changed
    last_touch,       \* last_touch_at
    settled,          \* last_touch_at is older than the settledness window
    leased,           \* published_at is set and within the lease
    completed,        \* completed_at, 0 for NULL
    publish_count,
    last_error,       \* last_error IS NOT NULL
    \* cortex_ingestion_record and the graph
    record,           \* last_touch_at of the ingestion record, 0 for no record
    graph,            \* graph[e]: valid edges of source e, by content and stamp
    \* the workers
    pc, batch, job, seen,
    \* history
    covered           \* newest content version ever ingested with success

rowVars    == <<source, last_touch, settled, leased, completed, publish_count,
                last_error>>
ingestVars == <<record, graph, covered>>
workVars   == <<pc, batch, job, seen>>
vars       == <<rowVars, ingestVars, workVars>>

Touch == 0..MaxTouch
Claim == [ev : Events, touch : Touch]
Edge  == [ver : Touch, at : Touch]
Job   == [ev : Events \cup {None}, touch : Touch, reedit : BOOLEAN,
          at : Touch, ver : Touch]
Stage == {"idle", "drain", "batch", "tombstone", "stamp", "read", "write",
          "upsert", "done", "failed"}

NoJob == [ev |-> None, touch |-> 0, reedit |-> FALSE, at |-> 0, ver |-> 0]

\* Worker w holds a claim it has not finished with.
HoldsRow(w, e) == job[w].ev = e \/ \E c \in batch[w] : c.ev = e
Held(e) == \E w \in Workers : HoldsRow(w, e)

-----------------------------------------------------------------------------
(* Every source has been written once, and its trigger inserted the row.   *)

Init ==
    /\ source = [e \in Events |-> 1]
    /\ last_touch = [e \in Events |-> 1]
    /\ settled = [e \in Events |-> FALSE]
    /\ leased = [e \in Events |-> FALSE]
    /\ completed = [e \in Events |-> 0]
    /\ publish_count = [e \in Events |-> 0]
    /\ last_error = [e \in Events |-> FALSE]
    /\ record = [e \in Events |-> 0]
    /\ graph = [e \in Events |-> {}]
    /\ pc = [w \in Workers |-> "idle"]
    /\ batch = [w \in Workers |-> {}]
    /\ job = [w \in Workers |-> NoJob]
    /\ seen = [w \in Workers |-> {}]
    /\ covered = [e \in Events |-> 0]

-----------------------------------------------------------------------------
(* The environment: users, time, and the weekly reconciliation.            *)

\* A trigger upserts the row: only last_touch_at moves.  A new touch is
\* strictly later than every earlier one.
Edit(e) ==
    /\ last_touch[e] < MaxTouch
    /\ last_touch' = [last_touch EXCEPT ![e] = @ + 1]
    /\ source' = [source EXCEPT ![e] = last_touch[e] + 1]
    /\ settled' = [settled EXCEPT ![e] = FALSE]
    /\ UNCHANGED <<leased, completed, publish_count, last_error, ingestVars,
                   workVars>>

\* The touch drops out of the settledness window.
Settle(e) ==
    /\ ~settled[e]
    /\ settled' = [settled EXCEPT ![e] = TRUE]
    /\ UNCHANGED <<source, last_touch, leased, completed, publish_count,
                   last_error, ingestVars, workVars>>

\* Mutant: only a row whose last attempt failed gets its lease back.
LeaseOverAfterFailure(e) == last_error[e] /\ (SlowWorkers \/ ~Held(e))

\* Under ~SlowWorkers no lease runs out on a row that a live worker holds.
LeaseOver(e) == SlowWorkers \/ ~Held(e)

\* published_at falls behind now() - lease.
LeaseExpires(e) ==
    /\ leased[e]
    /\ LeaseOver(e)
    /\ leased' = [leased EXCEPT ![e] = FALSE]
    /\ UNCHANGED <<source, last_touch, settled, completed, publish_count,
                   last_error, ingestVars, workVars>>

\* execute_readonly_query declares its one parameter as query_text; a call
\* under another name resolves to no function and reconcile() raises.
RpcResolves == RpcArgument = "query_text"

\* Mutant: the upsert leaves the attempts already spent.
BudgetKept(e) == publish_count[e]
BudgetAfterNudge(e) == 0

\* reconcile() upserts a settled row without an ingestion record: a new touch
\* and a fresh retry budget.  published_at and completed_at stay.  Query and
\* upsert are one step: the call as written never gets to the upsert.
Nudge(e) ==
    /\ RpcResolves
    /\ e \in Reconcilable
    /\ record[e] = 0
    /\ settled[e]
    /\ last_touch[e] < MaxTouch
    /\ last_touch' = [last_touch EXCEPT ![e] = @ + 1]
    /\ settled' = [settled EXCEPT ![e] = FALSE]
    /\ publish_count' = [publish_count EXCEPT ![e] = BudgetAfterNudge(e)]
    /\ last_error' = [last_error EXCEPT ![e] = FALSE]
    /\ UNCHANGED <<source, leased, completed, ingestVars, workVars>>

-----------------------------------------------------------------------------
(* Claiming.                                                               *)

Unfinished(e) == last_touch[e] > completed[e]

\* Mutant: the attempt cap is off by one.
EligibleOneMore(e, anyAge) ==
    /\ anyAge \/ settled[e]
    /\ publish_count[e] <= MaxAttempts
    /\ Unfinished(e)
    /\ ~leased[e]

\* Mutant: finished rows are claimed as well.
EligibleFinished(e, anyAge) ==
    /\ anyAge \/ settled[e]
    /\ publish_count[e] < MaxAttempts
    /\ ~leased[e]

\* Mutant: a row under lease is claimed as well.
EligibleLeased(e, anyAge) ==
    /\ anyAge \/ settled[e]
    /\ publish_count[e] < MaxAttempts
    /\ Unfinished(e)

Eligible(e, anyAge) ==
    /\ anyAge \/ settled[e]
    /\ publish_count[e] < MaxAttempts
    /\ Unfinished(e)
    /\ ~leased[e]

\* ORDER BY last_touch_at LIMIT n, whichever rows come first.
FirstRows(rows, n) ==
    {S \in SUBSET rows : \/ Cardinality(S) = n
                         \/ S = rows /\ Cardinality(S) < n}

\* The UPDATE of cortex_events_claim_batch, one transaction for the batch.
LeaseRows(S) ==
    /\ leased' = [e \in Events |-> leased[e] \/ e \in S]
    /\ publish_count' = [e \in Events |->
                            IF e \in S THEN publish_count[e] + 1
                                       ELSE publish_count[e]]
    /\ last_error' = [e \in Events |-> last_error[e] /\ e \notin S]
    /\ UNCHANGED <<source, last_touch, settled, completed>>

\* What RETURNING hands back: the rows with the touch as claimed.
ClaimsOn(S) ==
    {[ev |-> e, touch |-> last_touch[e]] : e \in S}

\* process_settled_events: one batch of settled rows of every organisation.
Poll(w) ==
    /\ pc[w] = "idle"
    /\ \E S \in FirstRows({e \in Scope[w] : Eligible(e, FALSE)}, BatchSize) :
          /\ S # {}
          /\ LeaseRows(S)
          /\ batch' = [batch EXCEPT ![w] = ClaimsOn(S)]
    /\ pc' = [pc EXCEPT ![w] = "batch"]
    /\ UNCHANGED <<ingestVars, job, seen>>

\* process_org_now begins for the worker's organisation.
ForceStart(w) ==
    /\ pc[w] = "idle"
    /\ pc' = [pc EXCEPT ![w] = "drain"]
    /\ seen' = [seen EXCEPT ![w] = {}]
    /\ UNCHANGED <<rowVars, ingestVars, batch, job>>

\* The rows one loop of process_org_now can ask for.
Drainable(w) == {e \in Scope[w] : Eligible(e, TRUE)}
RowsLeft(w) == ForceMaxRows - Cardinality(seen[w])

\* One loop: rows already seen in this call are leased, but not processed
\* again; a batch of nothing else ends the call.
ForceClaim(w) ==
    /\ pc[w] = "drain"
    /\ Cardinality(seen[w]) < ForceMaxRows
    /\ \E n \in {BatchSize, RowsLeft(w)} :
          /\ n <= BatchSize /\ n <= RowsLeft(w)
          /\ \E S \in FirstRows(Drainable(w), n) :
                /\ S # {}
                /\ LeaseRows(S)
                /\ batch' = [batch EXCEPT ![w] = ClaimsOn(S \ seen[w])]
                /\ seen' = [seen EXCEPT ![w] = @ \cup S]
                /\ pc' = [pc EXCEPT ![w] =
                            IF S \subseteq seen[w] THEN "idle" ELSE "batch"]
    /\ UNCHANGED <<ingestVars, job>>

\* Nothing is left to claim, or the row cap is reached.
ForceEnd(w) ==
    /\ pc[w] = "drain"
    /\ Drainable(w) = {} \/ Cardinality(seen[w]) >= ForceMaxRows
    /\ pc' = [pc EXCEPT ![w] = "idle"]
    /\ UNCHANGED <<rowVars, ingestVars, batch, job, seen>>

-----------------------------------------------------------------------------
(* EventProcessor.process, one await at a time.                            *)

\* Mutant: any record counts, of whatever touch.
AnyRecord(c) == record[c.ev] # 0

\* The record already covers the claimed touch.
AlreadyIngested(c) == record[c.ev] >= c.touch

\* Look up the ingestion record: skip a touch already ingested, otherwise
\* branch on first ingest or re-edit.  The lookup itself may raise.
LoadRecord(w) ==
    /\ pc[w] = "batch"
    /\ \E c \in batch[w] :
          /\ batch' = [batch EXCEPT ![w] = @ \ {c}]
          /\ job' = [job EXCEPT ![w] =
                       [NoJob EXCEPT !.ev = c.ev, !.touch = c.touch,
                                     !.reedit = record[c.ev] # 0]]
          /\ \/ /\ AlreadyIngested(c)
                /\ pc' = [pc EXCEPT ![w] = "done"]
             \/ /\ ~AlreadyIngested(c)
                /\ pc' = [pc EXCEPT ![w] = IF record[c.ev] # 0
                                           THEN "tombstone" ELSE "stamp"]
             \/ pc' = [pc EXCEPT ![w] = "failed"]
    /\ UNCHANGED <<rowVars, ingestVars, seen>>

\* Mutant: the cutoff is the touch ingested before.
OlderThanRecord(e, before) == {x \in graph[e] : x.at < record[e]}

\* Edges whose _ingested_at is older than the claimed touch become invalid.
OlderEdges(e, before) == {x \in graph[e] : x.at < before}

Tombstone(w) ==
    LET e == job[w].ev IN
    /\ pc[w] = "tombstone"
    /\ graph' = [graph EXCEPT ![e] = @ \ OlderEdges(e, job[w].touch)]
    /\ pc' = [pc EXCEPT ![w] = "stamp"]
    /\ UNCHANGED <<rowVars, record, covered, batch, job, seen>>

\* ingested_at = now(), taken before the handler reads the source.
Stamp(w) ==
    /\ pc[w] = "stamp"
    /\ job' = [job EXCEPT ![w].at = last_touch[job[w].ev]]
    /\ pc' = [pc EXCEPT ![w] = "read"]
    /\ UNCHANGED <<rowVars, ingestVars, batch, seen>>

\* The handler fetches the source's current content.
ReadSource(w) ==
    /\ pc[w] = "read"
    /\ job' = [job EXCEPT ![w].ver = source[job[w].ev]]
    /\ pc' = [pc EXCEPT ![w] = "write"]
    /\ UNCHANGED <<rowVars, ingestVars, batch, seen>>

\* ingest_triplets: an edge's uuid is a function of its fact, so the same
\* content rewrites the same edge and moves its stamp.
WriteEdges(w) ==
    LET j == job[w] IN
    /\ pc[w] = "write"
    /\ graph' = [graph EXCEPT ![j.ev] = {x \in @ : x.ver # j.ver}
                                        \cup {[ver |-> j.ver, at |-> j.at]}]
    /\ pc' = [pc EXCEPT ![w] = "upsert"]
    /\ UNCHANGED <<rowVars, record, covered, batch, job, seen>>

UpsertRecord(w) ==
    LET j == job[w] IN
    /\ pc[w] = "upsert"
    /\ record' = [record EXCEPT ![j.ev] = j.touch]
    /\ covered' = [covered EXCEPT ![j.ev] = IF j.ver > @ THEN j.ver ELSE @]
    /\ pc' = [pc EXCEPT ![w] = "done"]
    /\ UNCHANGED <<rowVars, graph, batch, job, seen>>

\* Any await of process() may raise: a handler that is rejected, a model or
\* database call that fails.  What was already written stays written.
ProcessRaises(w) ==
    /\ pc[w] \in {"tombstone", "stamp", "read", "write", "upsert"}
    /\ pc' = [pc EXCEPT ![w] = "failed"]
    /\ UNCHANGED <<rowVars, ingestVars, batch, job, seen>>

-----------------------------------------------------------------------------
(* Recording the outcome.                                                  *)

\* Where a worker goes once the event in hand is finished.
Resume(w) == IF batch[w] # {} THEN "batch"
             ELSE IF w \in Pollers THEN "idle" ELSE "drain"

\* Mutant: completed_at is the time of completion.
DoneNow(w) == last_touch[job[w].ev]

\* completed_at is the claimed row's own touch, not the clock.
DoneAt(w) == job[w].touch

\* mark_done: the row is finished up to DoneAt and has its budget back.
MarkDone(w) ==
    LET e == job[w].ev IN
    /\ pc[w] = "done"
    /\ completed' = [completed EXCEPT ![e] = DoneAt(w)]
    /\ publish_count' = [publish_count EXCEPT ![e] = 0]
    /\ last_error' = [last_error EXCEPT ![e] = FALSE]
    /\ pc' = [pc EXCEPT ![w] = Resume(w)]
    /\ job' = [job EXCEPT ![w] = NoJob]
    /\ UNCHANGED <<source, last_touch, settled, leased, ingestVars, batch, seen>>

\* mark_failed leaves the row to its lease, and at the cap for good.
MarkFailed(w) ==
    LET e == job[w].ev IN
    /\ pc[w] = "failed"
    /\ last_error' = [last_error EXCEPT ![e] = TRUE]
    /\ pc' = [pc EXCEPT ![w] = Resume(w)]
    /\ job' = [job EXCEPT ![w] = NoJob]
    /\ UNCHANGED <<source, last_touch, settled, leased, completed,
                   publish_count, ingestVars, batch, seen>>

\* Neither update is inside the try block: when it raises, the exception
\* leaves the loop over the batch.
OutcomeLost(w) ==
    /\ pc[w] \in {"done", "failed"}
    /\ pc' = [pc EXCEPT ![w] = "idle"]
    /\ batch' = [batch EXCEPT ![w] = {}]
    /\ job' = [job EXCEPT ![w] = NoJob]
    /\ UNCHANGED <<rowVars, ingestVars, seen>>

\* The process hosting the scheduler and the background tasks restarts.
Crash ==
    /\ \E w \in Workers : pc[w] # "idle"
    /\ pc' = [w \in Workers |-> "idle"]
    /\ batch' = [w \in Workers |-> {}]
    /\ job' = [w \in Workers |-> NoJob]
    /\ seen' = [w \in Workers |-> {}]
    /\ UNCHANGED <<rowVars, ingestVars>>

-----------------------------------------------------------------------------
Process(w) ==
    \/ LoadRecord(w) \/ Tombstone(w) \/ Stamp(w) \/ ReadSource(w)
    \/ WriteEdges(w) \/ UpsertRecord(w) \/ MarkDone(w) \/ MarkFailed(w)

Next ==
    \/ \E e \in Events : Edit(e) \/ Settle(e) \/ LeaseExpires(e) \/ Nudge(e)
    \/ \E w \in Pollers : Poll(w)
    \/ \E w \in Forcers : ForceStart(w) \/ ForceClaim(w) \/ ForceEnd(w)
    \/ \E w \in Workers : Process(w) \/ ProcessRaises(w) \/ OutcomeLost(w)
    \/ Crash

Spec == Init /\ [][Next]_vars

\* The scheduler polls for ever, a worker alive keeps executing, time passes,
\* and reconcile() runs every week.  Nothing makes users edit, force-publish
\* requests arrive, or calls fail.
Fairness ==
    /\ \A e \in Events : /\ WF_vars(Settle(e))
                         /\ WF_vars(LeaseExpires(e))
                         /\ WF_vars(Nudge(e))
    /\ \A w \in Pollers : WF_vars(Poll(w))
    /\ \A w \in Forcers : WF_vars(ForceClaim(w) \/ ForceEnd(w))
    /\ \A w \in Workers : WF_vars(Process(w))

FairSpec == Spec /\ Fairness
-----------------------------------------------------------------------------
(* Properties.                                                             *)

TypeOK ==
    /\ source \in [Events -> Touch]
    /\ last_touch \in [Events -> Touch]
    /\ settled \in [Events -> BOOLEAN]
    /\ leased \in [Events -> BOOLEAN]
    /\ completed \in [Events -> Touch]
    /\ publish_count \in [Events -> 0..MaxAttempts]
    /\ last_error \in [Events -> BOOLEAN]
    /\ record \in [Events -> Touch]
    /\ graph \in [Events -> SUBSET Edge]
    /\ covered \in [Events -> Touch]
    /\ pc \in [Workers -> Stage]
    /\ batch \in [Workers -> SUBSET Claim]
    /\ job \in [Workers -> Job]
    /\ seen \in [Workers -> SUBSET Events]

\* An edit is never lost: while the newest content of a source has not been
\* ingested by any successful run, its row stays unfinished, even if the edit
\* landed between a claim and its completion (mark_done, event_queue.py).
NoLostEdit ==
    \A e \in Events : covered[e] < source[e] => Unfinished(e)

\* While no worker outlives its lease, a finished row's current content is in
\* the graph as a valid edge: the tombstone that precedes a rewrite cuts off at
\* the claimed touch and completion is recorded at it (event_processor.py).
GraphHasLatest ==
    \A e \in Events :
        completed[e] = last_touch[e] => \E x \in graph[e] : x.ver = source[e]

\* A finished row has its whole retry budget before the next edit, whichever
\* of the workers that claimed it finished last (mark_done, event_queue.py).
FreshBudget ==
    \A e \in Events : ~Unfinished(e) => publish_count[e] = 0

\* Two live workers never hold the same row, which cortex_events' table
\* comment infers from the lease ("an expired lease means the worker died").
LeaseExclusive ==
    \A e \in Events : \A v, w \in Workers :
        HoldsRow(v, e) /\ HoldsRow(w, e) => v = w

\* A re-edit that reaches completion with no newer touch leaves only current
\* content valid: everything earlier was tombstoned (tombstone.py).
ReEditClean ==
    \A w \in Workers :
        LET j == job[w] IN
        pc[w] = "done" /\ j.reedit /\ j.at > 0 /\ j.touch = last_touch[j.ev]
            => \A x \in graph[j.ev] : x.ver = source[j.ev]

\* A finished row that no worker holds has only current content valid in the
\* graph: re-emission "stays clean" (tombstone.py) after failures as well.
DoneRowIsClean ==
    \A e \in Events :
        completed[e] = last_touch[e] /\ ~Held(e)
            => \A x \in graph[e] : x.ver = source[e]

\* The row left the queue at the attempt cap and nobody is working on it.
Parked(e) == /\ Unfinished(e)
             /\ publish_count[e] >= MaxAttempts
             /\ ~leased[e]
             /\ ~Held(e)

\* Every touch of a row is eventually worked off or the row is parked at the
\* attempt cap: no lease, crash or overlap of workers strands it.
EveryTouchSettles ==
    \A e \in Events : Unfinished(e) ~> (~Unfinished(e) \/ Parked(e))

\* reconcile() is "the only automatic way out of the attempt cap": a parked
\* row it queries, never ingested, does not stay parked, unless an edit used
\* up the last touch the bound allows.
ParkedIsRevived ==
    \A e \in Reconcilable :
        Parked(e) /\ record[e] = 0 /\ last_touch[e] < MaxTouch
            ~> ~Parked(e) \/ source[e] = MaxTouch

\* The queue implements the ledger: owed rows are the unfinished ones.
Ledger == INSTANCE IngestLedger
             WITH edited <- source,
                  owed <- {e \in Events : Unfinished(e)}
LedgerSpec == Ledger!Spec
=============================================================================
