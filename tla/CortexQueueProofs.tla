------------------------- MODULE CortexQueueProofs --------------------------
(***************************************************************************)
(* Proofs about CortexQueue for any rows, workers, batch sizes, attempt    *)
(* caps and touches, slow workers included: types, no lost edit, a fresh   *)
(* retry budget for finished rows, and the refinement of IngestLedger.     *)
(* While no worker outlives its lease also: no row has two holders, and    *)
(* the graph has the content of finished rows and nothing older after a    *)
(* re-edit, and outcomes only move forward.                                *)
(***************************************************************************)
EXTENDS CortexQueue, TLAPS

USE QueueAssumption DEF QueueAssumption, Touch

InProcess == {"tombstone", "stamp", "read", "write", "upsert", "done", "failed"}

\* No timestamp is ahead of its row's latest touch.
RowsNotAhead ==
    \A e \in Events :
        /\ 1 <= source[e] /\ source[e] <= last_touch[e]
        /\ completed[e] <= last_touch[e]
        /\ record[e] <= last_touch[e]
        /\ covered[e] <= source[e]

ClaimsNotAhead ==
    \A w \in Workers : \A c \in batch[w] : c.touch <= last_touch[c.ev]

JobsNotAhead ==
    \A w \in Workers :
        pc[w] \in InProcess =>
            /\ job[w].ev \in Events
            /\ job[w].touch <= last_touch[job[w].ev]
            /\ job[w].ver <= source[job[w].ev]

\* A touch is recorded or completed as the latest only with its content
\* ingested, and so is the touch a worker is about to record or complete.
RowsCovered ==
    \A e \in Events :
        record[e] = last_touch[e] \/ completed[e] = last_touch[e]
            => covered[e] = source[e]

JobsCovered ==
    \A w \in Workers :
        job[w].touch = last_touch[job[w].ev] =>
            /\ pc[w] = "done" => covered[job[w].ev] = source[job[w].ev]
            /\ pc[w] \in {"write", "upsert"} => job[w].ver = source[job[w].ev]

QueueInv ==
    /\ TypeOK
    /\ RowsNotAhead /\ ClaimsNotAhead /\ JobsNotAhead
    /\ RowsCovered /\ JobsCovered
    /\ FreshBudget

-----------------------------------------------------------------------------
\* The initial states satisfy the invariant.
LEMMA InitInv == Init => QueueInv
  <1> SUFFICES ASSUME Init PROVE QueueInv
    OBVIOUS
  <1>1. TypeOK
    BY DEF Init, TypeOK, Job, NoJob, Stage
  <1>2. RowsNotAhead /\ ClaimsNotAhead /\ JobsNotAhead
    BY DEF Init, RowsNotAhead, ClaimsNotAhead, JobsNotAhead, InProcess
  <1>3. RowsCovered /\ JobsCovered /\ FreshBudget
    BY DEF Init, RowsCovered, JobsCovered, FreshBudget, Unfinished
  <1> QED
    BY <1>1, <1>2, <1>3 DEF QueueInv

\* What a claim takes from a set of rows: a part of it.
LEMMA FirstRowsPart ==
  ASSUME NEW rows, NEW n, NEW S \in FirstRows(rows, n)
  PROVE  S \subseteq rows
  BY DEF FirstRows

\* A step of the environment only moves touches and source versions forward,
\* and a source only together with its row's touch.
Forward ==
    /\ \A e \in Events : /\ last_touch'[e] >= last_touch[e]
                         /\ source'[e] >= source[e]
                         /\ source'[e] <= last_touch'[e]
                         /\ source'[e] # source[e] => last_touch'[e] > last_touch[e]
    /\ UNCHANGED <<completed, ingestVars, workVars>>

LEMMA ForwardInv ==
  ASSUME QueueInv, TypeOK', Forward
  PROVE  /\ RowsNotAhead' /\ ClaimsNotAhead' /\ JobsNotAhead'
         /\ RowsCovered' /\ JobsCovered'
  <1> USE DEF QueueInv, TypeOK, Forward, ingestVars, workVars
  <1>1. RowsNotAhead'
    BY DEF RowsNotAhead
  <1>2. ClaimsNotAhead'
    <2> SUFFICES ASSUME NEW w \in Workers, NEW c \in batch[w]
                 PROVE  c.touch <= last_touch'[c.ev]
      BY DEF ClaimsNotAhead
    <2>1. c.ev \in Events /\ c.touch \in Touch /\ c.touch <= last_touch[c.ev]
      BY DEF ClaimsNotAhead, Claim
    <2> QED BY <2>1
  <1>3. JobsNotAhead'
    <2> SUFFICES ASSUME NEW w \in Workers, pc[w] \in InProcess
                 PROVE  /\ job[w].ev \in Events
                        /\ job[w].touch <= last_touch'[job[w].ev]
                        /\ job[w].ver <= source'[job[w].ev]
      BY DEF JobsNotAhead
    <2>1. /\ job[w].ev \in Events /\ job[w].touch \in Touch /\ job[w].ver \in Touch
          /\ job[w].touch <= last_touch[job[w].ev]
          /\ job[w].ver <= source[job[w].ev]
      BY DEF JobsNotAhead, Job
    <2> QED BY <2>1
  <1>4. RowsCovered'
    <2> SUFFICES ASSUME NEW e \in Events,
                        record[e] = last_touch'[e] \/ completed[e] = last_touch'[e]
                 PROVE  covered[e] = source'[e]
      BY DEF RowsCovered
    <2>1. /\ record[e] <= last_touch[e] /\ completed[e] <= last_touch[e]
          /\ last_touch[e] <= last_touch'[e]
          /\ {record[e], completed[e], last_touch[e], last_touch'[e]} \subseteq Nat
      BY DEF RowsNotAhead
    <2>2. last_touch'[e] = last_touch[e]
      BY <2>1
    <2>3. source'[e] = source[e]
      BY <2>2
    <2> QED BY <2>2, <2>3 DEF RowsCovered
  <1>5. JobsCovered'
    <2> SUFFICES ASSUME NEW w \in Workers,
                        job[w].touch = last_touch'[job[w].ev],
                        pc[w] \in {"write", "upsert", "done"}
                 PROVE  /\ pc[w] = "done" => covered[job[w].ev] = source'[job[w].ev]
                        /\ pc[w] \in {"write", "upsert"}
                              => job[w].ver = source'[job[w].ev]
      BY DEF JobsCovered
    <2>1. /\ job[w].ev \in Events /\ job[w].touch \in Touch
          /\ job[w].touch <= last_touch[job[w].ev]
      BY DEF JobsNotAhead, Job, InProcess
    <2>2. last_touch'[job[w].ev] = last_touch[job[w].ev]
      <3>1. /\ last_touch[job[w].ev] \in Nat /\ last_touch'[job[w].ev] \in Nat
            /\ last_touch[job[w].ev] <= last_touch'[job[w].ev] /\ job[w].touch \in Nat
        BY <2>1
      <3> HIDE DEF QueueInv, TypeOK, Forward, ingestVars, workVars
      <3> QED BY <2>1, <3>1
    <2>3. source'[job[w].ev] = source[job[w].ev]
      BY <2>1, <2>2
    <2> QED BY <2>1, <2>2, <2>3 DEF JobsCovered
  <1> QED
    BY <1>1, <1>2, <1>3, <1>4, <1>5

\* Edits, settling, lease expiry and reconciliation.
LEMMA EnvironmentInv ==
  ASSUME QueueInv, NEW e \in Events,
         Edit(e) \/ Settle(e) \/ LeaseExpires(e) \/ Nudge(e)
  PROVE  QueueInv'
  <1>1. TypeOK'
    <2> USE DEF QueueInv, TypeOK, ingestVars, workVars
    <2>1. CASE Edit(e)
      BY <2>1 DEF Edit
    <2>2. CASE Settle(e)
      BY <2>2 DEF Settle
    <2>3. CASE LeaseExpires(e)
      BY <2>3 DEF LeaseExpires
    <2>4. CASE Nudge(e)
      BY <2>4 DEF Nudge, BudgetAfterNudge
    <2> QED BY <2>1, <2>2, <2>3, <2>4
  <1>2. Forward
    BY DEF QueueInv, TypeOK, RowsNotAhead, Forward, Edit, Settle, LeaseExpires,
           Nudge, ingestVars, workVars
  <1>3. FreshBudget'
    BY DEF QueueInv, TypeOK, RowsNotAhead, FreshBudget, Unfinished, Edit, Settle,
           LeaseExpires, Nudge, BudgetAfterNudge, ingestVars, workVars
  <1> QED
    BY <1>1, <1>2, <1>3, ForwardInv DEF QueueInv

-----------------------------------------------------------------------------
\* Claims: a batch holds the touches its rows have now.
LEMMA ClaimInv ==
  ASSUME QueueInv, NEW w \in Workers, NEW S \in SUBSET Events, NEW T \in SUBSET S,
         \A e \in S : Unfinished(e) /\ publish_count[e] < MaxAttempts,
         LeaseRows(S),
         batch' = [batch EXCEPT ![w] = ClaimsOn(T)],
         pc' \in [Workers -> Stage],
         \A v \in Workers : v # w => pc'[v] = pc[v],
         pc'[w] \in {"idle", "batch"},
         seen' \in [Workers -> SUBSET Events],
         UNCHANGED <<ingestVars, job>>
  PROVE  QueueInv'
  <1> USE DEF QueueInv, LeaseRows, ingestVars
  <1>1. TypeOK'
    <2>1. publish_count' \in [Events -> 0..MaxAttempts]
      BY DEF TypeOK
    <2>2. batch' \in [Workers -> SUBSET Claim]
      BY DEF TypeOK, ClaimsOn, Claim
    <2> QED BY <2>1, <2>2 DEF TypeOK
  <1>2. RowsNotAhead'
    BY DEF RowsNotAhead
  <1>3. ClaimsNotAhead'
    <2> SUFFICES ASSUME NEW v \in Workers, NEW c \in batch'[v]
                 PROVE  c.touch <= last_touch[c.ev]
      BY DEF ClaimsNotAhead
    <2>1. CASE v = w
      BY <2>1 DEF TypeOK, ClaimsOn
    <2>2. CASE v # w
      BY <2>2 DEF TypeOK, ClaimsNotAhead
    <2> QED BY <2>1, <2>2
  <1>4. JobsNotAhead'
    BY DEF JobsNotAhead, InProcess
  <1>5. RowsCovered'
    BY DEF RowsCovered
  <1>6. JobsCovered'
    BY DEF JobsCovered
  <1>7. FreshBudget'
    BY DEF FreshBudget, Unfinished
  <1> QED
    BY <1>1, <1>2, <1>3, <1>4, <1>5, <1>6, <1>7

LEMMA PollInv ==
  ASSUME QueueInv, NEW w \in Pollers, Poll(w)
  PROVE  QueueInv'
  <1>1. PICK S \in FirstRows({e \in Scope[w] : Eligible(e, FALSE)}, BatchSize) :
           LeaseRows(S) /\ batch' = [batch EXCEPT ![w] = ClaimsOn(S)]
    BY DEF Poll
  <1>2. S \subseteq {e \in Scope[w] : Eligible(e, FALSE)}
    BY <1>1, FirstRowsPart
  <1>3. w \in Workers /\ Scope[w] \subseteq Events
    BY DEF Workers
  <1>4. \A e \in S : Unfinished(e) /\ publish_count[e] < MaxAttempts
    BY <1>2 DEF Eligible
  <1>5. pc' \in [Workers -> Stage] /\ seen' \in [Workers -> SUBSET Events]
    BY <1>3 DEF Poll, QueueInv, TypeOK, Stage
  <1> QED
    BY <1>1, <1>2, <1>3, <1>4, <1>5, ClaimInv DEF Poll, QueueInv, TypeOK

LEMMA ForceClaimInv ==
  ASSUME QueueInv, NEW w \in Forcers, ForceClaim(w)
  PROVE  QueueInv'
  <1>1. PICK n : \E R \in FirstRows(Drainable(w), n) :
           /\ LeaseRows(R)
           /\ batch' = [batch EXCEPT ![w] = ClaimsOn(R \ seen[w])]
           /\ seen' = [seen EXCEPT ![w] = @ \cup R]
           /\ pc' = [pc EXCEPT ![w] =
                       IF R \subseteq seen[w] THEN "idle" ELSE "batch"]
    BY DEF ForceClaim
  <1>2. PICK S \in FirstRows(Drainable(w), n) :
           /\ LeaseRows(S)
           /\ batch' = [batch EXCEPT ![w] = ClaimsOn(S \ seen[w])]
           /\ seen' = [seen EXCEPT ![w] = @ \cup S]
           /\ pc' = [pc EXCEPT ![w] =
                       IF S \subseteq seen[w] THEN "idle" ELSE "batch"]
    BY <1>1
  <1>3. S \subseteq Drainable(w)
    BY <1>2, FirstRowsPart
  <1>4. w \in Workers /\ Scope[w] \subseteq Events
    BY DEF Workers
  <1>5. \A e \in S : Unfinished(e) /\ publish_count[e] < MaxAttempts
    BY <1>3 DEF Drainable, Eligible
  <1>6. S \in SUBSET Events /\ S \ seen[w] \in SUBSET S
    BY <1>3, <1>4 DEF Drainable
  <1>7. pc' \in [Workers -> Stage] /\ seen' \in [Workers -> SUBSET Events]
    BY <1>2, <1>4, <1>6 DEF QueueInv, TypeOK, Stage
  <1>8. /\ \A v \in Workers : v # w => pc'[v] = pc[v]
        /\ pc'[w] \in {"idle", "batch"}
        /\ UNCHANGED <<ingestVars, job>>
    BY <1>2, <1>4 DEF ForceClaim, QueueInv, TypeOK
  <1> QED
    BY <1>2, <1>4, <1>5, <1>6, <1>7, <1>8, ClaimInv, ZenonT(60)

LEMMA ForceCallInv ==
  ASSUME QueueInv, NEW w \in Forcers, ForceStart(w) \/ ForceEnd(w)
  PROVE  QueueInv'
  <1> USE DEF QueueInv, rowVars, ingestVars
  <1>0. w \in Workers
    BY DEF Workers
  <1>1. TypeOK'
    BY <1>0 DEF ForceStart, ForceEnd, TypeOK, Stage
  <1>2. RowsNotAhead' /\ ClaimsNotAhead' /\ RowsCovered' /\ FreshBudget'
    BY DEF ForceStart, ForceEnd, RowsNotAhead, ClaimsNotAhead, RowsCovered,
           FreshBudget, Unfinished
  <1>3. JobsNotAhead' /\ JobsCovered'
    BY <1>0 DEF ForceStart, ForceEnd, TypeOK, JobsNotAhead, JobsCovered, InProcess
  <1> QED
    BY <1>1, <1>2, <1>3

-----------------------------------------------------------------------------
\* Steps that change no row, record or coverage: it is enough to look at the
\* worker that takes the step.
QuietStep(w) ==
    /\ UNCHANGED <<rowVars, record, covered>>
    /\ \A v \in Workers : batch'[v] \subseteq batch[v]
    /\ \A v \in Workers : v # w => pc'[v] = pc[v] /\ job'[v] = job[v]

JobNotAhead(w) ==
    pc[w] \in InProcess =>
        /\ job[w].ev \in Events
        /\ job[w].touch <= last_touch[job[w].ev]
        /\ job[w].ver <= source[job[w].ev]

JobCovered(w) ==
    job[w].touch = last_touch[job[w].ev] =>
        /\ pc[w] = "done" => covered[job[w].ev] = source[job[w].ev]
        /\ pc[w] \in {"write", "upsert"} => job[w].ver = source[job[w].ev]

LEMMA QuietInv ==
  ASSUME QueueInv, TypeOK', NEW w \in Workers, QuietStep(w),
         JobNotAhead(w)', JobCovered(w)'
  PROVE  QueueInv'
  <1> USE DEF QueueInv, QuietStep, rowVars
  <1>1. RowsNotAhead' /\ RowsCovered' /\ FreshBudget'
    BY DEF RowsNotAhead, RowsCovered, FreshBudget, Unfinished
  <1>2. ClaimsNotAhead'
    BY DEF ClaimsNotAhead
  <1>3. JobsNotAhead'
    BY DEF JobsNotAhead, JobNotAhead
  <1>4. JobsCovered'
    BY DEF JobsCovered, JobCovered
  <1> QED
    BY <1>1, <1>2, <1>3, <1>4

\* Looking up the record: a touch already ingested is covered.
LEMMA LoadRecordInv ==
  ASSUME QueueInv, NEW w \in Workers, LoadRecord(w)
  PROVE  QueueInv'
  <1>1. PICK c \in batch[w] :
          /\ batch' = [batch EXCEPT ![w] = @ \ {c}]
          /\ job' = [job EXCEPT ![w] =
                       [NoJob EXCEPT !.ev = c.ev, !.touch = c.touch,
                                     !.reedit = record[c.ev] # 0]]
          /\ \/ AlreadyIngested(c) /\ pc' = [pc EXCEPT ![w] = "done"]
             \/ pc' = [pc EXCEPT ![w] = IF record[c.ev] # 0
                                        THEN "tombstone" ELSE "stamp"]
             \/ pc' = [pc EXCEPT ![w] = "failed"]
    BY DEF LoadRecord
  <1>2. /\ c \in Claim /\ c.ev \in Events /\ c.touch \in Touch
        /\ c.touch <= last_touch[c.ev]
    BY DEF QueueInv, TypeOK, ClaimsNotAhead, Claim
  <1>3. UNCHANGED <<rowVars, record, covered, graph, seen>>
    BY DEF LoadRecord, ingestVars
  <1>4. /\ job'[w].ev = c.ev /\ job'[w].touch = c.touch /\ job'[w].ver = 0
        /\ job'[w] \in Job
    <2>1. job'[w] = [NoJob EXCEPT !.ev = c.ev, !.touch = c.touch,
                                  !.reedit = record[c.ev] # 0]
      BY <1>1 DEF QueueInv, TypeOK
    <2>2. job'[w] = [ev |-> c.ev, touch |-> c.touch, reedit |-> record[c.ev] # 0,
                     at |-> 0, ver |-> 0]
      BY <2>1 DEF NoJob
    <2>3. (record[c.ev] # 0) \in BOOLEAN /\ 0 \in Touch
      OBVIOUS
    <2> QED BY <1>2, <2>2, <2>3 DEF Job
  <1>5. TypeOK'
    <2>1. batch' \in [Workers -> SUBSET Claim]
      BY <1>1 DEF QueueInv, TypeOK
    <2>2. job' \in [Workers -> Job]
      BY <1>1, <1>4 DEF QueueInv, TypeOK
    <2>3. pc' \in [Workers -> Stage]
      BY <1>1 DEF QueueInv, TypeOK, Stage
    <2> QED BY <1>3, <2>1, <2>2, <2>3 DEF QueueInv, TypeOK, rowVars
  <1>6. QuietStep(w)
    BY <1>1, <1>3 DEF QueueInv, TypeOK, QuietStep
  <1>7. JobNotAhead(w)'
    BY <1>2, <1>3, <1>4 DEF QueueInv, TypeOK, RowsNotAhead, JobNotAhead, rowVars
  <1>8. JobCovered(w)'
    <2>1. CASE AlreadyIngested(c) /\ pc'[w] = "done"
      <3>1. c.touch = last_touch[c.ev] => record[c.ev] = last_touch[c.ev]
        BY <1>2, <2>1 DEF QueueInv, TypeOK, RowsNotAhead, AlreadyIngested
      <3> QED BY <1>2, <1>3, <1>4, <2>1, <3>1
              DEF QueueInv, RowsCovered, JobCovered, rowVars
    <2>2. CASE pc'[w] \in {"tombstone", "stamp", "failed"}
      BY <2>2 DEF JobCovered
    <2> QED BY <1>1, <2>1, <2>2 DEF QueueInv, TypeOK
  <1> QED
    BY <1>5, <1>6, <1>7, <1>8, QuietInv

\* From the tombstone to the graph write: only the read of the source matters.
LEMMA IngestInv ==
  ASSUME QueueInv, NEW w \in Workers,
         Tombstone(w) \/ Stamp(w) \/ ReadSource(w) \/ WriteEdges(w) \/ ProcessRaises(w)
  PROVE  QueueInv'
  <1>1. pc[w] \in InProcess /\ job[w].ev \in Events
    BY DEF QueueInv, JobsNotAhead, InProcess, Tombstone, Stamp, ReadSource,
           WriteEdges, ProcessRaises
  <1>2. /\ job[w] \in Job /\ job[w].touch <= last_touch[job[w].ev]
        /\ job[w].ver <= source[job[w].ev]
    BY <1>1 DEF QueueInv, TypeOK, JobsNotAhead
  <1>3. QuietStep(w)
    BY DEF QueueInv, TypeOK, QuietStep, Tombstone, Stamp, ReadSource, WriteEdges,
           ProcessRaises, ingestVars
  <1>4. CASE Tombstone(w) \/ WriteEdges(w) \/ ProcessRaises(w)
    <2>1. graph' \in [Events -> SUBSET Edge]
      <3>1. CASE Tombstone(w)
        BY <1>1, <3>1 DEF QueueInv, TypeOK, Tombstone
      <3>2. CASE WriteEdges(w)
        <4>1. [ver |-> job[w].ver, at |-> job[w].at] \in Edge
          BY <1>2 DEF Job, Edge
        <4> QED BY <1>1, <3>2, <4>1 DEF QueueInv, TypeOK, WriteEdges
      <3>3. CASE ProcessRaises(w)
        BY <3>3 DEF QueueInv, TypeOK, ProcessRaises, ingestVars
      <3> QED BY <1>4, <3>1, <3>2, <3>3
    <2>2. TypeOK'
      BY <1>4, <2>1 DEF QueueInv, TypeOK, Tombstone, WriteEdges, ProcessRaises,
         rowVars, ingestVars, Stage
    <2>3. JobNotAhead(w)'
      BY <1>1, <1>2, <1>3, <1>4 DEF QueueInv, JobNotAhead, QuietStep, Tombstone,
         WriteEdges, ProcessRaises, rowVars
    <2>4. JobCovered(w)'
      BY <1>3, <1>4 DEF QueueInv, TypeOK, JobsCovered, JobCovered, QuietStep,
         Tombstone, WriteEdges, ProcessRaises, rowVars
    <2> QED BY <1>3, <2>2, <2>3, <2>4, QuietInv
  <1>5. CASE Stamp(w)
    <2>1. /\ job' = [job EXCEPT ![w] = [@ EXCEPT !.at = last_touch[job[w].ev]]]
          /\ pc' = [pc EXCEPT ![w] = "read"]
          /\ UNCHANGED <<rowVars, ingestVars, batch, seen>>
      BY <1>5 DEF Stamp
    <2>2. /\ job'[w] \in Job /\ job'[w].ev = job[w].ev
          /\ job'[w].touch = job[w].touch /\ job'[w].ver = job[w].ver
      BY <1>1, <1>2, <2>1 DEF QueueInv, TypeOK, Job
    <2>3. TypeOK'
      BY <2>1, <2>2 DEF QueueInv, TypeOK, Stage, rowVars, ingestVars
    <2>4. JobNotAhead(w)' /\ JobCovered(w)'
      BY <1>1, <1>2, <2>1, <2>2 DEF QueueInv, TypeOK, JobNotAhead, JobCovered, rowVars
    <2> QED BY <1>3, <2>3, <2>4, QuietInv
  <1>6. CASE ReadSource(w)
    <2>1. /\ job' = [job EXCEPT ![w] = [@ EXCEPT !.ver = source[job[w].ev]]]
          /\ pc' = [pc EXCEPT ![w] = "write"]
          /\ UNCHANGED <<rowVars, ingestVars, batch, seen>>
      BY <1>6 DEF ReadSource
    <2>2. /\ job'[w] \in Job /\ job'[w].ev = job[w].ev
          /\ job'[w].touch = job[w].touch /\ job'[w].ver = source[job[w].ev]
      BY <1>1, <1>2, <2>1 DEF QueueInv, TypeOK, Job
    <2>3. TypeOK'
      BY <2>1, <2>2 DEF QueueInv, TypeOK, Stage, rowVars, ingestVars
    <2>4. JobNotAhead(w)' /\ JobCovered(w)'
      BY <1>1, <1>2, <2>1, <2>2 DEF QueueInv, TypeOK, JobNotAhead, JobCovered, rowVars
    <2> QED BY <1>3, <2>3, <2>4, QuietInv
  <1> QED
    BY <1>4, <1>5, <1>6

\* Recording a touch: what was read for the latest touch is the current content.
LEMMA UpsertInv ==
  ASSUME QueueInv, NEW w \in Workers, UpsertRecord(w)
  PROVE  QueueInv'
  <1> DEFINE e == job[w].ev
  <1> USE DEF QueueInv
  <1>1. /\ e \in Events /\ job[w] \in Job
        /\ job[w].touch \in Touch /\ job[w].ver \in Touch
        /\ job[w].touch <= last_touch[e] /\ job[w].ver <= source[e]
        /\ job[w].touch = last_touch[e] => job[w].ver = source[e]
    BY DEF TypeOK, UpsertRecord, JobsNotAhead, JobsCovered, InProcess, Job
  <1>2. /\ record' = [record EXCEPT ![e] = job[w].touch]
        /\ covered' = [covered EXCEPT ![e] = IF job[w].ver > @ THEN job[w].ver ELSE @]
        /\ pc' = [pc EXCEPT ![w] = "done"]
        /\ UNCHANGED <<rowVars, graph, batch, job, seen>>
    BY DEF UpsertRecord
  <1>3. TypeOK'
    BY <1>1, <1>2 DEF TypeOK, Stage, rowVars
  <1>4. /\ \A x \in Events : covered'[x] \in Nat /\ covered[x] <= covered'[x]
        /\ \A x \in Events : covered'[x] <= source[x]
        /\ job[w].touch = last_touch[e] => covered'[e] = source[e]
        /\ \A x \in Events : covered[x] = source[x] => covered'[x] = source[x]
    BY <1>1, <1>2 DEF TypeOK, RowsNotAhead
  <1>5. RowsNotAhead'
    BY <1>1, <1>2, <1>4 DEF TypeOK, RowsNotAhead, rowVars
  <1>6. RowsCovered'
    BY <1>1, <1>2, <1>4 DEF TypeOK, RowsCovered, rowVars
  <1>7. ClaimsNotAhead' /\ FreshBudget'
    BY <1>2 DEF ClaimsNotAhead, FreshBudget, Unfinished, rowVars
  <1>8. JobsNotAhead'
    BY <1>1, <1>2 DEF TypeOK, JobsNotAhead, rowVars
  <1>9. JobsCovered'
    <2> SUFFICES ASSUME NEW v \in Workers, job[v].touch = last_touch[job[v].ev],
                        pc'[v] \in {"write", "upsert", "done"}
                 PROVE  /\ pc'[v] = "done" => covered'[job[v].ev] = source[job[v].ev]
                        /\ pc'[v] \in {"write", "upsert"}
                              => job[v].ver = source[job[v].ev]
      BY <1>2 DEF JobsCovered, rowVars
    <2>1. CASE v = w
      BY <1>1, <1>2, <1>4, <2>1 DEF TypeOK
    <2>2. CASE v # w
      <3>1. pc'[v] = pc[v] /\ job[v].ev \in Events
        BY <1>2, <2>2 DEF TypeOK, JobsNotAhead, InProcess
      <3> QED BY <1>4, <3>1 DEF JobsCovered
    <2> QED BY <2>1, <2>2
  <1> QED
    BY <1>3, <1>5, <1>6, <1>7, <1>8, <1>9

\* Completing a touch restores the budget and hides no newer touch.
LEMMA MarkDoneInv ==
  ASSUME QueueInv, NEW w \in Workers, MarkDone(w)
  PROVE  QueueInv'
  <1> DEFINE e == job[w].ev
  <1> USE DEF QueueInv
  <1>1. /\ e \in Events /\ job[w].touch \in Touch
        /\ job[w].touch <= last_touch[e]
        /\ job[w].touch = last_touch[e] => covered[e] = source[e]
    BY DEF TypeOK, MarkDone, JobsNotAhead, JobsCovered, InProcess, Job
  <1>2. /\ completed' = [completed EXCEPT ![e] = job[w].touch]
        /\ publish_count' = [publish_count EXCEPT ![e] = 0]
        /\ last_error' = [last_error EXCEPT ![e] = FALSE]
        /\ pc' = [pc EXCEPT ![w] = Resume(w)]
        /\ job' = [job EXCEPT ![w] = NoJob]
        /\ UNCHANGED <<source, last_touch, settled, leased, ingestVars, batch, seen>>
    BY DEF MarkDone, DoneAt
  <1>3. Resume(w) \in {"idle", "drain", "batch"} /\ NoJob \in Job
    BY DEF Resume, NoJob, Job
  <1>4. TypeOK'
    BY <1>1, <1>2, <1>3 DEF TypeOK, Stage, ingestVars
  <1>5. RowsNotAhead' /\ RowsCovered' /\ ClaimsNotAhead'
    BY <1>1, <1>2 DEF TypeOK, RowsNotAhead, RowsCovered, ClaimsNotAhead, ingestVars
  <1>6. FreshBudget'
    BY <1>1, <1>2 DEF TypeOK, FreshBudget, Unfinished
  <1>7. JobsNotAhead' /\ JobsCovered'
    BY <1>2, <1>3 DEF TypeOK, JobsNotAhead, JobsCovered, InProcess, ingestVars
  <1> QED
    BY <1>4, <1>5, <1>6, <1>7

\* A failure, a lost outcome or a restart changes no touch.
LEMMA FailureInv ==
  ASSUME QueueInv,
         (\E w \in Workers : MarkFailed(w) \/ OutcomeLost(w)) \/ Crash
  PROVE  QueueInv'
  <1> USE DEF QueueInv, ingestVars
  <1>1. ASSUME NEW w \in Workers, MarkFailed(w)
        PROVE  QueueInv'
    <2>1. Resume(w) \in {"idle", "drain", "batch"} /\ NoJob \in Job
      BY DEF Resume, NoJob, Job
    <2>2. TypeOK'
      BY <1>1, <2>1 DEF TypeOK, MarkFailed, Stage
    <2>3. RowsNotAhead' /\ RowsCovered' /\ ClaimsNotAhead' /\ FreshBudget'
      BY <1>1 DEF MarkFailed, RowsNotAhead, RowsCovered, ClaimsNotAhead,
         FreshBudget, Unfinished
    <2>4. JobsNotAhead' /\ JobsCovered'
      BY <1>1, <2>1 DEF TypeOK, MarkFailed, JobsNotAhead, JobsCovered, InProcess
    <2> QED BY <2>2, <2>3, <2>4
  <1>2. ASSUME NEW w \in Workers, OutcomeLost(w)
        PROVE  QueueInv'
    <2>1. NoJob \in Job
      BY DEF NoJob, Job
    <2>2. TypeOK'
      BY <1>2, <2>1 DEF TypeOK, OutcomeLost, Stage, rowVars
    <2>3. QuietStep(w)
      BY <1>2 DEF TypeOK, OutcomeLost, QuietStep
    <2>4. JobNotAhead(w)' /\ JobCovered(w)'
      BY <1>2 DEF TypeOK, OutcomeLost, JobNotAhead, JobCovered, InProcess
    <2> QED BY <2>2, <2>3, <2>4, QuietInv
  <1>3. CASE Crash
    <2>1. NoJob \in Job
      BY DEF NoJob, Job
    <2>2. TypeOK'
      BY <1>3, <2>1 DEF TypeOK, Crash, Stage, rowVars
    <2>3. RowsNotAhead' /\ RowsCovered' /\ ClaimsNotAhead' /\ FreshBudget'
      BY <1>3 DEF Crash, RowsNotAhead, RowsCovered, ClaimsNotAhead, FreshBudget,
         Unfinished, rowVars
    <2>4. JobsNotAhead' /\ JobsCovered'
      BY <1>3 DEF Crash, JobsNotAhead, JobsCovered, InProcess
    <2> QED BY <2>2, <2>3, <2>4
  <1> QED
    BY <1>1, <1>2, <1>3

\* A step that changes nothing.
LEMMA StutterInv ==
  ASSUME QueueInv, UNCHANGED vars
  PROVE  QueueInv'
  BY DEF QueueInv, vars, rowVars, ingestVars, workVars, TypeOK, RowsNotAhead,
     ClaimsNotAhead, JobsNotAhead, RowsCovered, JobsCovered, FreshBudget, Unfinished

LEMMA NextInv ==
  ASSUME QueueInv, [Next]_vars
  PROVE  QueueInv'
  <1>1. CASE UNCHANGED vars
    BY <1>1, StutterInv
  <1>2. CASE Next
    BY <1>2, EnvironmentInv, PollInv, ForceCallInv, ForceClaimInv, LoadRecordInv,
       IngestInv, UpsertInv, MarkDoneInv, FailureInv DEF Next, Process
  <1> QED
    BY <1>1, <1>2

-----------------------------------------------------------------------------
\* The invariant holds in every reachable state.
THEOREM Invariance == Spec => []QueueInv
  <1>1. Init => QueueInv
    BY InitInv
  <1>2. QueueInv /\ [Next]_vars => QueueInv'
    BY NextInv
  <1> QED
    BY <1>1, <1>2, PTL DEF Spec

\* Every variable stays within its type: no retry count passes the cap, no
\* touch the rows were never given is stored.
THEOREM TypeCorrect == Spec => []TypeOK
  <1>1. QueueInv => TypeOK
    BY DEF QueueInv
  <1> QED
    BY <1>1, Invariance, PTL

\* No edit is lost, whichever workers overlap, fail, stall or restart: a row
\* whose latest content was not ingested is still unfinished (mark_done).
THEOREM NoEditIsLost == Spec => []NoLostEdit
  <1>1. QueueInv => NoLostEdit
    <2> SUFFICES ASSUME QueueInv, NEW e \in Events, covered[e] < source[e]
                 PROVE  last_touch[e] > completed[e]
      BY DEF NoLostEdit, Unfinished
    <2>1. /\ completed[e] <= last_touch[e] /\ completed[e] # last_touch[e]
          /\ completed[e] \in Nat /\ last_touch[e] \in Nat
      BY DEF QueueInv, TypeOK, RowsNotAhead, RowsCovered
    <2> QED BY <2>1
  <1> QED
    BY <1>1, Invariance, PTL

\* A finished row always has its full retry budget (mark_done).
THEOREM FinishedIsFresh == Spec => []FreshBudget
  <1>1. QueueInv => FreshBudget
    BY DEF QueueInv
  <1> QED
    BY <1>1, Invariance, PTL

-----------------------------------------------------------------------------
(* The queue implements the ledger.                                        *)

Owed == {e \in Events : Unfinished(e)}

LEMMA LedgerInit == Init => Ledger!Init
  BY DEF Init, Ledger!Init, Unfinished

\* Every step is a ledger step of one row or leaves the ledger unchanged.
LEMMA LedgerStep ==
  ASSUME QueueInv, [Next]_vars
  PROVE  [Ledger!Next]_(Ledger!ledgerVars)
  <1> USE DEF QueueInv
  <1>1. ASSUME NEW e \in Events, Edit(e)
        PROVE  Ledger!Edit(e)
    <2>1. /\ last_touch' = [last_touch EXCEPT ![e] = @ + 1]
          /\ source' = [source EXCEPT ![e] = last_touch[e] + 1]
          /\ UNCHANGED <<completed, covered>>
      BY <1>1 DEF Edit, ingestVars
    <2>2. source'[e] > source[e]
      BY <2>1 DEF TypeOK, RowsNotAhead
    <2>3. source' = [source EXCEPT ![e] = source'[e]]
      BY <2>1 DEF TypeOK
    <2>4. Owed' = Owed \cup {e}
      BY <2>1 DEF TypeOK, RowsNotAhead, Owed, Unfinished
    <2> QED BY <2>1, <2>2, <2>3, <2>4 DEF Ledger!Edit, Owed
  <1>2. ASSUME NEW e \in Events, Nudge(e)
        PROVE  Ledger!Reopen(e)
    <2>1. /\ last_touch' = [last_touch EXCEPT ![e] = @ + 1]
          /\ UNCHANGED <<completed, source, covered>>
      BY <1>2 DEF Nudge, ingestVars
    <2>2. Owed' = Owed \cup {e}
      BY <2>1 DEF TypeOK, RowsNotAhead, Owed, Unfinished
    <2> QED BY <2>1, <2>2 DEF Ledger!Reopen, Owed
  <1>3. ASSUME NEW w \in Workers, UpsertRecord(w)
        PROVE  \E e \in Events : Ledger!Ingest(e)
    <2> DEFINE e == job[w].ev
    <2>1. /\ e \in Events /\ job[w].ver \in Touch /\ job[w].ver <= source[e]
      BY <1>3 DEF TypeOK, UpsertRecord, JobsNotAhead, InProcess, Job
    <2>2. /\ covered' = [covered EXCEPT ![e] = IF job[w].ver > @ THEN job[w].ver ELSE @]
          /\ UNCHANGED <<source, last_touch, completed>>
      BY <1>3 DEF UpsertRecord, rowVars
    <2>3. covered'[e] >= covered[e] /\ covered'[e] <= source[e]
      BY <2>1, <2>2 DEF TypeOK, RowsNotAhead
    <2>4. covered' = [covered EXCEPT ![e] = covered'[e]]
      BY <2>1, <2>2 DEF TypeOK
    <2>5. Ledger!Ingest(e)
      BY <2>2, <2>3, <2>4 DEF Ledger!Ingest, Unfinished
    <2> QED BY <2>1, <2>5
  <1>4. ASSUME NEW w \in Workers, MarkDone(w)
        PROVE  \E e \in Events : Ledger!WriteOff(e) \/ Ledger!Reopen(e)
    <2> DEFINE e == job[w].ev
    <2>1. /\ e \in Events /\ job[w].touch \in Touch /\ job[w].touch <= last_touch[e]
          /\ job[w].touch = last_touch[e] => covered[e] = source[e]
      BY <1>4 DEF TypeOK, MarkDone, JobsNotAhead, JobsCovered, InProcess, Job
    <2>2. /\ completed' = [completed EXCEPT ![e] = job[w].touch]
          /\ UNCHANGED <<source, last_touch, covered>>
      BY <1>4 DEF MarkDone, DoneAt, ingestVars
    <2>3. CASE job[w].touch = last_touch[e]
      <3>1. Owed' = Owed \ {e}
        BY <2>1, <2>2, <2>3 DEF TypeOK, Owed, Unfinished
      <3> QED BY <2>1, <2>2, <2>3, <3>1 DEF Ledger!WriteOff, Owed
    <2>4. CASE job[w].touch < last_touch[e]
      <3>1. Owed' = Owed \cup {e}
        BY <2>1, <2>2, <2>4 DEF TypeOK, Owed, Unfinished
      <3> QED BY <2>1, <2>2, <3>1 DEF Ledger!Reopen, Owed
    <2> QED BY <2>1, <2>3, <2>4 DEF TypeOK
  <1>5. ASSUME UNCHANGED <<source, last_touch, completed, covered>>
        PROVE  UNCHANGED Ledger!ledgerVars
    BY <1>5 DEF Ledger!ledgerVars, Unfinished
  <1>6. CASE UNCHANGED vars
    BY <1>5, <1>6 DEF vars, rowVars, ingestVars
  <1>7. CASE \E e \in Events : Settle(e) \/ LeaseExpires(e)
    BY <1>5, <1>7 DEF Settle, LeaseExpires, ingestVars
  <1>8. CASE \/ \E w \in Pollers : Poll(w)
             \/ \E w \in Forcers : ForceStart(w) \/ ForceClaim(w) \/ ForceEnd(w)
    BY <1>5, <1>8 DEF Poll, ForceStart, ForceClaim, ForceEnd, LeaseRows, rowVars,
       ingestVars
  <1>9. CASE \/ \E w \in Workers :
                   \/ LoadRecord(w) \/ Tombstone(w) \/ Stamp(w) \/ ReadSource(w)
                   \/ WriteEdges(w) \/ MarkFailed(w) \/ ProcessRaises(w)
                   \/ OutcomeLost(w)
             \/ Crash
    BY <1>5, <1>9 DEF LoadRecord, Tombstone, Stamp, ReadSource, WriteEdges,
       MarkFailed, ProcessRaises, OutcomeLost, Crash, rowVars, ingestVars
  <1> QED
    BY <1>1, <1>2, <1>3, <1>4, <1>6, <1>7, <1>8, <1>9
       DEF Next, Process, Ledger!Next

\* The queue keeps the ledger's promise: every edit is owed until content at
\* least as new as it is ingested, whatever happens to leases and workers.
THEOREM QueueImplementsLedger == Spec => LedgerSpec
  <1>1. QueueInv /\ [Next]_vars => [Ledger!Next]_(Ledger!ledgerVars)
    BY LedgerStep
  <1> QED
    BY <1>1, LedgerInit, Invariance, PTL DEF Spec, LedgerSpec, Ledger!Spec

-----------------------------------------------------------------------------
(* While no worker outlives its lease.                                     *)

Between == {"tombstone", "stamp", "read", "write", "upsert"}

\* Only a worker in process holds a job.
JobsOfActive == \A w \in Workers : pc[w] \notin InProcess => job[w] = NoJob

\* Within a worker, a row is held by one claim or by the job.
ClaimsApart ==
    \A w \in Workers : \A c \in batch[w] :
        /\ c.ev # job[w].ev
        /\ \A d \in batch[w] : c.ev = d.ev => c = d

\* A row that is held is under lease, and unfinished.
HeldLeased == \A e \in Events : Held(e) => leased[e] /\ Unfinished(e)

\* A worker on its way through the ingest is ahead of the record.
AheadOfRecord ==
    \A w \in Workers : pc[w] \in Between => record[job[w].ev] < job[w].touch

HasLatest(e) == \E x \in graph[e] : x.ver = source[e]

\* What is recorded, completed or about to be is in the graph.
LatestInGraph ==
    /\ \A e \in Events : record[e] = last_touch[e] \/ completed[e] = last_touch[e] => HasLatest(e)
    /\ \A w \in Workers :
          /\ pc[w] = "upsert" => \E x \in graph[job[w].ev] : x.ver = job[w].ver
          /\ pc[w] = "done" /\ job[w].touch = last_touch[job[w].ev] => HasLatest(job[w].ev)

\* An edge with the stamp of the latest touch holds current content, and so does what a worker
\* is about to write with such a stamp.
StampsCurrent ==
    /\ \A e \in Events : \A x \in graph[e] :
          x.at <= last_touch[e] /\ (x.at = last_touch[e] => x.ver = source[e])
    /\ \A w \in Workers :
          /\ job[w].ev \in Events => job[w].at <= last_touch[job[w].ev]
          /\ pc[w] \in {"write", "upsert"} /\ job[w].at = last_touch[job[w].ev]
                => job[w].ver = source[job[w].ev]

Tombstoned(w) ==
    \/ pc[w] \in {"stamp", "read", "write", "upsert"}
    \/ pc[w] = "done" /\ job[w].at > 0

\* After its tombstone a re-edit has no edge left from before the touch it claimed.
OlderGone ==
    \A w \in Workers :
        job[w].reedit /\ Tombstoned(w)
            => /\ \A x \in graph[job[w].ev] : x.at >= job[w].touch
               /\ pc[w] # "stamp" => job[w].at >= job[w].touch

LeaseInv ==
    /\ JobsOfActive /\ ClaimsApart /\ LeaseExclusive /\ HeldLeased
    /\ AheadOfRecord /\ LatestInGraph /\ StampsCurrent /\ OlderGone

\* The initial states satisfy it: nothing is held, recorded or in the graph.
LEMMA LeaseInit == Init => LeaseInv
  <1> SUFFICES ASSUME Init PROVE LeaseInv
    OBVIOUS
  <1>1. \A w \in Workers : pc[w] = "idle" /\ batch[w] = {} /\ job[w] = NoJob
    BY DEF Init
  <1>2. NoJob.ev \notin Events /\ NoJob.reedit = FALSE
    BY DEF NoJob
  <1>3. \A e \in Events : \A w \in Workers : ~HoldsRow(w, e)
    BY <1>1, <1>2 DEF HoldsRow
  <1>4. JobsOfActive /\ ClaimsApart /\ LeaseExclusive /\ HeldLeased /\ AheadOfRecord
    BY <1>1, <1>3 DEF JobsOfActive, ClaimsApart, LeaseExclusive, HeldLeased, Held, AheadOfRecord,
       Between
  <1>5. LatestInGraph /\ StampsCurrent /\ OlderGone
    BY <1>1, <1>2 DEF Init, LatestInGraph, StampsCurrent, OlderGone, Tombstoned
  <1> QED BY <1>4, <1>5 DEF LeaseInv

\* A row that is touched again is neither recorded nor completed at its latest touch.
LEMMA ForwardLease ==
  ASSUME QueueInv, LeaseInv, TypeOK', Forward,
         \A e \in Events : leased[e] /\ Held(e) => leased'[e]
  PROVE  LeaseInv'
  <1> USE DEF Forward, ingestVars, workVars
  <1>1. \A e \in Events : \A w \in Workers : HoldsRow(w, e)' <=> HoldsRow(w, e)
    BY DEF HoldsRow
  <1>2. \A e \in Events : Held(e)' <=> Held(e)
    BY DEF Held, HoldsRow
  <1>3. \A e \in Events : /\ last_touch[e] \in Nat /\ last_touch'[e] \in Nat
                          /\ completed[e] \in Nat /\ record[e] \in Nat
                          /\ completed[e] <= last_touch[e] /\ record[e] <= last_touch[e]
                          /\ last_touch[e] <= last_touch'[e]
                          /\ last_touch'[e] = last_touch[e] => source'[e] = source[e]
    BY DEF QueueInv, TypeOK, RowsNotAhead
  <1>4. JobsOfActive' /\ ClaimsApart' /\ LeaseExclusive' /\ AheadOfRecord' /\ OlderGone'
    BY <1>1 DEF LeaseInv, JobsOfActive, ClaimsApart, LeaseExclusive, AheadOfRecord, OlderGone, Tombstoned
  <1>5. HeldLeased'
    BY <1>2, <1>3 DEF LeaseInv, HeldLeased, Unfinished
  <1>6. LatestInGraph'
    <2>1. \A e \in Events : record[e] = last_touch'[e] \/ completed[e] = last_touch'[e] => HasLatest(e)'
      <3> SUFFICES ASSUME NEW e \in Events, record[e] = last_touch'[e] \/ completed[e] = last_touch'[e]
                   PROVE  HasLatest(e)'
        OBVIOUS
      <3>1. last_touch'[e] = last_touch[e] /\ source'[e] = source[e]
        BY <1>3
      <3> QED BY <3>1 DEF LeaseInv, LatestInGraph, HasLatest
    <2>2. \A w \in Workers : pc[w] = "done" /\ job[w].touch = last_touch'[job[w].ev]
            => HasLatest(job[w].ev)'
      <3> SUFFICES ASSUME NEW w \in Workers, pc[w] = "done", job[w].touch = last_touch'[job[w].ev]
                   PROVE  HasLatest(job[w].ev)'
        OBVIOUS
      <3>1. job[w].ev \in Events /\ job[w].touch <= last_touch[job[w].ev]
        BY DEF QueueInv, JobsNotAhead, InProcess
      <3>2. last_touch'[job[w].ev] = last_touch[job[w].ev] /\ source'[job[w].ev] = source[job[w].ev]
        BY <1>3, <3>1
      <3> QED BY <3>2 DEF LeaseInv, LatestInGraph, HasLatest
    <2> QED BY <2>1, <2>2 DEF LeaseInv, LatestInGraph
  <1>7. StampsCurrent'
    <2>1. \A e \in Events : \A x \in graph[e] :
            x.at <= last_touch'[e] /\ (x.at = last_touch'[e] => x.ver = source'[e])
      <3> SUFFICES ASSUME NEW e \in Events, NEW x \in graph[e]
                   PROVE  x.at <= last_touch'[e] /\ (x.at = last_touch'[e] => x.ver = source'[e])
        OBVIOUS
      <3>1. x.at \in Nat /\ x.at <= last_touch[e] /\ (x.at = last_touch[e] => x.ver = source[e])
        BY DEF QueueInv, TypeOK, Edge, LeaseInv, StampsCurrent
      <3> QED BY <1>3, <3>1
    <2>2. ASSUME NEW w \in Workers
          PROVE  /\ job[w].ev \in Events => job[w].at <= last_touch'[job[w].ev]
                 /\ pc[w] \in {"write", "upsert"} /\ job[w].at = last_touch'[job[w].ev]
                       => job[w].ver = source'[job[w].ev]
      <3>1. job[w].at \in Nat /\ (pc[w] \in {"write", "upsert"} => job[w].ev \in Events)
        BY DEF QueueInv, TypeOK, Job, JobsNotAhead, InProcess
      <3>2. CASE job[w].ev \in Events
        <4>1. /\ job[w].at <= last_touch[job[w].ev]
              /\ pc[w] \in {"write", "upsert"} /\ job[w].at = last_touch[job[w].ev]
                    => job[w].ver = source[job[w].ev]
          BY <3>2 DEF LeaseInv, StampsCurrent
        <4> QED BY <1>3, <3>1, <3>2, <4>1
      <3> QED BY <3>1, <3>2
    <2> QED BY <2>1, <2>2 DEF StampsCurrent
  <1> QED BY <1>4, <1>5, <1>6, <1>7 DEF LeaseInv

\* A lease that runs out is on a row that nobody holds.
LEMMA EnvironmentLease ==
  ASSUME ~SlowWorkers, QueueInv, LeaseInv, NEW e \in Events,
         Edit(e) \/ Settle(e) \/ LeaseExpires(e) \/ Nudge(e)
  PROVE  LeaseInv'
  <1>1. TypeOK'
    BY EnvironmentInv DEF QueueInv
  <1>2. Forward
    BY DEF QueueInv, TypeOK, RowsNotAhead, Forward, Edit, Settle, LeaseExpires,
           Nudge, ingestVars, workVars
  <1>3. \A x \in Events : leased[x] /\ Held(x) => leased'[x]
    BY DEF QueueInv, TypeOK, Edit, Settle, LeaseExpires, LeaseOver, Nudge
  <1> QED BY <1>1, <1>2, <1>3, ForwardLease

-----------------------------------------------------------------------------
\* The invariant of one row, and of one worker.
RowLease(e) ==
    /\ record[e] = last_touch[e] \/ completed[e] = last_touch[e] => HasLatest(e)
    /\ \A x \in graph[e] :
          x.at <= last_touch[e] /\ (x.at = last_touch[e] => x.ver = source[e])

JobLease(w) ==
    /\ pc[w] \notin InProcess => job[w] = NoJob
    /\ pc[w] \in Between => record[job[w].ev] < job[w].touch
    /\ pc[w] = "upsert" => \E x \in graph[job[w].ev] : x.ver = job[w].ver
    /\ pc[w] = "done" /\ job[w].touch = last_touch[job[w].ev] => HasLatest(job[w].ev)
    /\ job[w].ev \in Events => job[w].at <= last_touch[job[w].ev]
    /\ pc[w] \in {"write", "upsert"} /\ job[w].at = last_touch[job[w].ev]
          => job[w].ver = source[job[w].ev]
    /\ job[w].reedit /\ Tombstoned(w)
          => /\ \A x \in graph[job[w].ev] : x.at >= job[w].touch
             /\ pc[w] # "stamp" => job[w].at >= job[w].touch

LEMMA LeaseParts ==
  LeaseInv <=> /\ ClaimsApart /\ LeaseExclusive /\ HeldLeased
               /\ \A e \in Events : RowLease(e)
               /\ \A w \in Workers : JobLease(w)
  <1>1. (\A e \in Events : RowLease(e)) /\ (\A w \in Workers : JobLease(w))
          <=> /\ JobsOfActive /\ AheadOfRecord /\ LatestInGraph
              /\ StampsCurrent /\ OlderGone
    BY DEF RowLease, JobLease, JobsOfActive, AheadOfRecord, LatestInGraph, StampsCurrent, OlderGone
  <1> QED BY <1>1 DEF LeaseInv

\* The same of the next state.
LEMMA LeasePartsNext ==
  ASSUME ClaimsApart', LeaseExclusive', HeldLeased',
         \A e \in Events : RowLease(e)',
         \A w \in Workers : JobLease(w)'
  PROVE  LeaseInv'
  <1>1. JobsOfActive' /\ AheadOfRecord' /\ LatestInGraph' /\ StampsCurrent' /\ OlderGone'
    BY DEF RowLease, JobLease, JobsOfActive, AheadOfRecord, LatestInGraph, StampsCurrent, OlderGone
  <1> QED BY <1>1 DEF LeaseInv

\* A step of worker w about a row that it holds: nothing else moves.
RowStep(w, e) ==
    /\ HoldsRow(w, e)
    /\ UNCHANGED <<source, last_touch, leased>>
    /\ \A x \in Events : x # e => /\ record'[x] = record[x]
                                  /\ completed'[x] = completed[x]
                                  /\ graph'[x] = graph[x]
    /\ \A v \in Workers : v # w => /\ pc'[v] = pc[v]
                                   /\ job'[v] = job[v]
                                   /\ batch'[v] = batch[v]
    /\ batch'[w] \subseteq batch[w]
    /\ job'[w].ev \in {e, job[w].ev, None}
    /\ completed'[e] = completed[e] \/ ~HoldsRow(w, e)'

\* It is enough to look at that row and at that worker.
LEMMA RowStepLease ==
  ASSUME QueueInv, QueueInv', LeaseInv, NEW w \in Workers, NEW e \in Events, RowStep(w, e),
         RowLease(e)', JobLease(w)',
         \A c \in batch'[w] : c.ev # job'[w].ev
  PROVE  LeaseInv'
  <1> USE DEF RowStep
  <1>1. /\ ClaimsApart /\ LeaseExclusive /\ HeldLeased
        /\ \A x \in Events : RowLease(x)
        /\ \A v \in Workers : JobLease(v)
    BY LeaseParts
  <1>2. ASSUME NEW v \in Workers, NEW x \in Events, HoldsRow(v, x)'
        PROVE  HoldsRow(v, x)
    <2>1. CASE v # w
      BY <1>2, <2>1 DEF HoldsRow
    <2>2. CASE v = w
      BY <1>2, <2>2 DEF HoldsRow
    <2> QED BY <2>1, <2>2
  <1>3. LeaseExclusive'
    BY <1>1, <1>2 DEF LeaseExclusive
  <1>4. \A v \in Workers : v # w => ~HoldsRow(v, e)
    BY <1>1 DEF LeaseExclusive
  <1>5. HeldLeased'
    <2> SUFFICES ASSUME NEW x \in Events, NEW v \in Workers, HoldsRow(v, x)'
                 PROVE  leased'[x] /\ Unfinished(x)'
      BY DEF HeldLeased, Held
    <2>1. HoldsRow(v, x) /\ leased[x] /\ Unfinished(x)
      BY <1>1, <1>2 DEF HeldLeased, Held
    <2>2. completed'[x] = completed[x]
      BY <1>2, <1>4
    <2> QED BY <2>1, <2>2 DEF Unfinished
  <1>6. ClaimsApart'
    BY <1>1 DEF ClaimsApart
  <1>7. \A x \in Events : RowLease(x)'
    BY <1>1 DEF RowLease, HasLatest
  <1>8. ASSUME NEW v \in Workers PROVE JobLease(v)'
    <2>1. CASE v = w
      BY <2>1
    <2>2. CASE v # w
      <3>1. JobLease(v) /\ pc'[v] = pc[v] /\ job'[v] = job[v] /\ job[v].ev # e
        BY <1>1, <1>4, <2>2 DEF HoldsRow
      <3>2. CASE job[v].ev \in Events
        BY <3>1, <3>2 DEF JobLease, HasLatest, Tombstoned
      <3>3. CASE job[v].ev \notin Events
        <4>1. pc[v] \notin InProcess
          BY <3>3 DEF QueueInv, JobsNotAhead
        <4> QED BY <3>1, <3>3, <4>1 DEF JobLease, Tombstoned, InProcess, Between
      <3> QED BY <3>2, <3>3
    <2> QED BY <2>1, <2>2
  <1> QED
    BY <1>3, <1>5, <1>6, <1>7, <1>8, LeasePartsNext

\* What is known of a worker in process and of the row it works on.
LEMMA InHand ==
  ASSUME QueueInv, LeaseInv, NEW w \in Workers, pc[w] \in InProcess
  PROVE  /\ job[w].ev \in Events /\ HoldsRow(w, job[w].ev)
         /\ job[w] \in Job /\ job[w].touch <= last_touch[job[w].ev]
         /\ \A c \in batch[w] : c.ev # job[w].ev
         /\ leased[job[w].ev] /\ completed[job[w].ev] < last_touch[job[w].ev]
         /\ RowLease(job[w].ev) /\ JobLease(w)
  <1>1. job[w].ev \in Events /\ job[w] \in Job /\ job[w].touch <= last_touch[job[w].ev]
    BY DEF QueueInv, TypeOK, JobsNotAhead
  <1>2. HoldsRow(w, job[w].ev) /\ Held(job[w].ev)
    BY DEF HoldsRow, Held
  <1>3. leased[job[w].ev] /\ completed[job[w].ev] < last_touch[job[w].ev]
    BY <1>1, <1>2 DEF QueueInv, TypeOK, LeaseInv, HeldLeased, Unfinished
  <1> QED BY <1>1, <1>2, <1>3, LeaseParts DEF ClaimsApart

\* The record of a claim is looked up: a touch already ingested is in the graph.
LEMMA LoadRecordLease ==
  ASSUME QueueInv, LeaseInv, NEW w \in Workers, LoadRecord(w)
  PROVE  LeaseInv'
  <1>1. PICK c \in batch[w] :
          /\ batch' = [batch EXCEPT ![w] = @ \ {c}]
          /\ job' = [job EXCEPT ![w] =
                       [NoJob EXCEPT !.ev = c.ev, !.touch = c.touch,
                                     !.reedit = record[c.ev] # 0]]
          /\ \/ AlreadyIngested(c) /\ pc' = [pc EXCEPT ![w] = "done"]
             \/ /\ ~AlreadyIngested(c)
                /\ pc' = [pc EXCEPT ![w] = IF record[c.ev] # 0
                                           THEN "tombstone" ELSE "stamp"]
             \/ pc' = [pc EXCEPT ![w] = "failed"]
    BY DEF LoadRecord
  <1>2. /\ c \in Claim /\ c.ev \in Events /\ c.touch \in Touch
        /\ c.touch <= last_touch[c.ev]
    BY DEF QueueInv, TypeOK, ClaimsNotAhead, Claim
  <1>3. UNCHANGED <<rowVars, record, covered, graph, seen>>
    BY DEF LoadRecord, ingestVars
  <1>4. /\ job'[w].ev = c.ev /\ job'[w].touch = c.touch /\ job'[w].at = 0
        /\ job'[w].reedit <=> record[c.ev] # 0
    <2>1. job'[w] = [NoJob EXCEPT !.ev = c.ev, !.touch = c.touch,
                                  !.reedit = record[c.ev] # 0]
      BY <1>1 DEF QueueInv, TypeOK
    <2> QED BY <2>1 DEF NoJob
  <1>5. HoldsRow(w, c.ev) /\ RowLease(c.ev)
    BY <1>2, LeaseParts DEF HoldsRow
  <1>6. \A d \in batch'[w] : d.ev # c.ev
    BY <1>1 DEF QueueInv, TypeOK, LeaseInv, ClaimsApart
  <1>7. RowStep(w, c.ev)
    BY <1>1, <1>3, <1>4, <1>5 DEF RowStep, QueueInv, TypeOK, rowVars
  <1>8. RowLease(c.ev)'
    BY <1>3, <1>5 DEF RowLease, HasLatest, rowVars
  <1>9. JobLease(w)'
    <2>1. record[c.ev] \in Nat /\ record[c.ev] <= last_touch[c.ev] /\ last_touch[c.ev] \in Nat
      BY <1>2 DEF QueueInv, TypeOK, RowsNotAhead
    <2>2. CASE AlreadyIngested(c) /\ pc'[w] = "done"
      <3>1. c.touch = last_touch[c.ev] => HasLatest(c.ev)'
        BY <1>2, <1>3, <1>5, <2>1, <2>2 DEF AlreadyIngested, RowLease, HasLatest, rowVars
      <3> QED BY <1>2, <1>3, <1>4, <2>1, <2>2, <3>1 DEF JobLease, InProcess, Between, Tombstoned,
              rowVars
    <2>3. CASE ~AlreadyIngested(c) /\ pc'[w] = IF record[c.ev] # 0 THEN "tombstone" ELSE "stamp"
      <3>1. record'[c.ev] < c.touch
        BY <1>2, <1>3, <2>1, <2>3 DEF AlreadyIngested
      <3> QED BY <1>2, <1>3, <1>4, <2>1, <2>3, <3>1 DEF JobLease, InProcess, Between, Tombstoned,
              rowVars
    <2>4. CASE pc'[w] = "failed"
      BY <1>2, <1>3, <1>4, <2>1, <2>4 DEF JobLease, InProcess, Between, Tombstoned, rowVars
    <2>5. \/ AlreadyIngested(c) /\ pc'[w] = "done"
          \/ ~AlreadyIngested(c) /\ pc'[w] = IF record[c.ev] # 0 THEN "tombstone" ELSE "stamp"
          \/ pc'[w] = "failed"
      BY <1>1 DEF QueueInv, TypeOK
    <2> QED BY <2>2, <2>3, <2>4, <2>5
  <1>10. QueueInv'
    BY LoadRecordInv
  <1> QED
    BY <1>2, <1>4, <1>6, <1>7, <1>8, <1>9, <1>10, RowStepLease

\* The tombstone leaves the stamps from the claimed touch on; the row is recorded and completed
\* at older touches only.
LEMMA TombstoneLease ==
  ASSUME QueueInv, LeaseInv, NEW w \in Workers, Tombstone(w)
  PROVE  LeaseInv'
  <1> DEFINE e == job[w].ev
  <1>1. pc[w] \in InProcess /\ pc[w] \in Between
    BY DEF Tombstone, InProcess, Between
  <1>2. /\ e \in Events /\ HoldsRow(w, e)
        /\ job[w].touch \in Nat /\ job[w].touch <= last_touch[e]
        /\ \A c \in batch[w] : c.ev # job[w].ev
        /\ completed[e] < last_touch[e]
        /\ RowLease(e) /\ JobLease(w)
    BY <1>1, InHand DEF Job
  <1>3. /\ graph'[e] = {x \in graph[e] : ~(x.at < job[w].touch)}
        /\ \A x \in Events : x # e => graph'[x] = graph[x]
    BY <1>2 DEF Tombstone, OlderEdges, QueueInv, TypeOK
  <1>4. UNCHANGED <<rowVars, record, covered, batch, job, seen>>
    BY DEF Tombstone
  <1>5. pc'[w] = "stamp" /\ \A v \in Workers : v # w => pc'[v] = pc[v]
    BY DEF Tombstone, QueueInv, TypeOK
  <1>6. RowStep(w, e)
    BY <1>2, <1>3, <1>4, <1>5 DEF RowStep, rowVars
  <1>7. record[e] < job[w].touch /\ last_touch[e] \in Nat /\ record[e] \in Nat
        /\ completed[e] \in Nat
    BY <1>1, <1>2 DEF JobLease, QueueInv, TypeOK
  <1>8. RowLease(e)'
    <2>1. ~(record[e] = last_touch[e] \/ completed[e] = last_touch[e])
      BY <1>2, <1>7
    <2> QED BY <1>2, <1>3, <1>4, <2>1 DEF RowLease, rowVars
  <1>9. JobLease(w)'
    <2>1. \A x \in graph'[e] : x.at >= job[w].touch
      BY <1>2, <1>3 DEF QueueInv, TypeOK, Edge
    <2> QED BY <1>1, <1>2, <1>4, <1>5, <2>1 DEF JobLease, InProcess, Between, Tombstoned, rowVars
  <1>10. QueueInv'
    BY IngestInv
  <1> QED
    BY <1>2, <1>4, <1>6, <1>8, <1>9, <1>10, RowStepLease

\* The stamp is the row's latest touch, read before the source is.
LEMMA StampReadLease ==
  ASSUME QueueInv, LeaseInv, NEW w \in Workers, Stamp(w) \/ ReadSource(w)
  PROVE  LeaseInv'
  <1>0. pc[w] \in InProcess /\ pc[w] \in Between
    BY DEF Stamp, ReadSource, InProcess, Between
  <1>1. PICK e \in Events : e = job[w].ev
    BY <1>0, InHand
  <1>2. /\ HoldsRow(w, e) /\ job[w] \in Job
        /\ job[w].touch \in Nat /\ job[w].touch <= last_touch[e]
        /\ \A c \in batch[w] : c.ev # job[w].ev
        /\ RowLease(e) /\ JobLease(w)
    BY <1>0, <1>1, InHand DEF Job
  <1>3. /\ UNCHANGED <<rowVars, ingestVars, batch, seen>>
        /\ \A v \in Workers : v # w => pc'[v] = pc[v] /\ job'[v] = job[v]
    BY DEF Stamp, ReadSource, QueueInv, TypeOK
  <1>4. /\ job'[w].ev = e /\ job'[w].touch = job[w].touch
        /\ job'[w].reedit = job[w].reedit
        /\ \/ pc[w] = "stamp" /\ pc'[w] = "read" /\ job'[w].at = last_touch[e]
           \/ /\ pc[w] = "read" /\ pc'[w] = "write"
              /\ job'[w].at = job[w].at /\ job'[w].ver = source[e]
    <2>1. CASE Stamp(w)
      <3>1. job'[w] = [job[w] EXCEPT !.at = last_touch[e]]
        BY <1>1, <2>1 DEF Stamp, QueueInv, TypeOK
      <3>2. pc[w] = "stamp" /\ pc'[w] = "read"
        BY <2>1 DEF Stamp, QueueInv, TypeOK
      <3> QED BY <1>1, <1>2, <3>1, <3>2 DEF Job
    <2>2. CASE ReadSource(w)
      <3>1. job'[w] = [job[w] EXCEPT !.ver = source[e]]
        BY <1>1, <2>2 DEF ReadSource, QueueInv, TypeOK
      <3>2. pc[w] = "read" /\ pc'[w] = "write"
        BY <2>2 DEF ReadSource, QueueInv, TypeOK
      <3> QED BY <1>1, <1>2, <3>1, <3>2 DEF Job
    <2> QED BY <2>1, <2>2
  <1>5. RowStep(w, e)
    BY <1>1, <1>2, <1>3, <1>4 DEF RowStep, rowVars, ingestVars
  <1>6. RowLease(e)'
    BY <1>1, <1>2, <1>3 DEF RowLease, HasLatest, rowVars, ingestVars
  <1>7. JobLease(w)'
    <2>1. last_touch[e] \in Nat
      BY <1>1, <1>2 DEF QueueInv, TypeOK
    <2> QED BY <1>0, <1>1, <1>2, <1>3, <1>4, <2>1 DEF JobLease, InProcess, Between, Tombstoned, rowVars,
            ingestVars
  <1>8. QueueInv'
    BY IngestInv
  <1> QED
    BY <1>1, <1>2, <1>3, <1>4, <1>5, <1>6, <1>7, <1>8, RowStepLease

\* The write keeps the current content where it is in the graph, and its stamp is current only
\* if the content is.
LEMMA WriteEdgesLease ==
  ASSUME QueueInv, LeaseInv, NEW w \in Workers, WriteEdges(w)
  PROVE  LeaseInv'
  <1> DEFINE e == job[w].ev
             edge == [ver |-> job[w].ver, at |-> job[w].at]
  <1>1. pc[w] \in InProcess /\ pc[w] \in Between /\ pc[w] = "write"
    BY DEF WriteEdges, InProcess, Between
  <1>2. /\ e \in Events /\ HoldsRow(w, e) /\ job[w] \in Job
        /\ job[w].touch \in Nat /\ job[w].touch <= last_touch[e]
        /\ \A c \in batch[w] : c.ev # job[w].ev
        /\ RowLease(e) /\ JobLease(w)
    BY <1>1, InHand DEF Job
  <1>3. /\ graph'[e] = {x \in graph[e] : x.ver # job[w].ver} \cup {edge}
        /\ \A x \in Events : x # e => graph'[x] = graph[x]
    BY <1>2 DEF WriteEdges, QueueInv, TypeOK
  <1>4. UNCHANGED <<rowVars, record, covered, batch, job, seen>>
    BY DEF WriteEdges
  <1>5. pc'[w] = "upsert" /\ \A v \in Workers : v # w => pc'[v] = pc[v]
    BY DEF WriteEdges, QueueInv, TypeOK
  <1>6. RowStep(w, e)
    BY <1>2, <1>3, <1>4, <1>5 DEF RowStep, rowVars
  <1>7. edge.ver = job[w].ver /\ edge.at = job[w].at /\ edge \in graph'[e]
    BY <1>3
  <1>8. RowLease(e)'
    <2>1. HasLatest(e) => HasLatest(e)'
      <3> SUFFICES ASSUME NEW x \in graph[e], x.ver = source[e]
                   PROVE  \E y \in graph'[e] : y.ver = source[e]
        BY <1>4 DEF HasLatest, rowVars
      <3>1. CASE job[w].ver = source[e]
        BY <1>7, <3>1
      <3>2. CASE job[w].ver # source[e]
        BY <1>3, <3>2
      <3> QED BY <3>1, <3>2
    <2>2. \A x \in graph'[e] :
             x.at <= last_touch[e] /\ (x.at = last_touch[e] => x.ver = source[e])
      BY <1>1, <1>2, <1>3, <1>7 DEF RowLease, JobLease
    <2> QED BY <1>2, <1>4, <2>1, <2>2 DEF RowLease, rowVars
  <1>9. JobLease(w)'
    <2>1. job[w].reedit => /\ job[w].at >= job[w].touch
                           /\ \A x \in graph'[e] : x.at >= job[w].touch
      BY <1>1, <1>2, <1>3, <1>7 DEF JobLease, Tombstoned
    <2> QED BY <1>1, <1>2, <1>4, <1>5, <1>7, <2>1 DEF JobLease, InProcess, Between, Tombstoned,
            rowVars
  <1>10. QueueInv'
    BY IngestInv
  <1> QED
    BY <1>2, <1>4, <1>6, <1>8, <1>9, <1>10, RowStepLease

\* A touch recorded as the latest has its content, just written, in the graph.
LEMMA UpsertLease ==
  ASSUME QueueInv, LeaseInv, NEW w \in Workers, UpsertRecord(w)
  PROVE  LeaseInv'
  <1> DEFINE e == job[w].ev
  <1>1. pc[w] \in InProcess /\ pc[w] = "upsert"
    BY DEF UpsertRecord, InProcess
  <1>2. /\ e \in Events /\ HoldsRow(w, e)
        /\ job[w].touch \in Nat /\ job[w].touch <= last_touch[e]
        /\ \A c \in batch[w] : c.ev # job[w].ev
        /\ completed[e] < last_touch[e] /\ completed[e] \in Nat /\ last_touch[e] \in Nat
        /\ RowLease(e) /\ JobLease(w)
    BY <1>1, InHand DEF Job, QueueInv, TypeOK
  <1>3. /\ record'[e] = job[w].touch
        /\ \A x \in Events : x # e => record'[x] = record[x]
    BY <1>2 DEF UpsertRecord, QueueInv, TypeOK
  <1>4. UNCHANGED <<rowVars, graph, batch, job, seen>>
    BY DEF UpsertRecord
  <1>5. pc'[w] = "done" /\ \A v \in Workers : v # w => pc'[v] = pc[v]
    BY DEF UpsertRecord, QueueInv, TypeOK
  <1>6. RowStep(w, e)
    BY <1>2, <1>3, <1>4, <1>5 DEF RowStep, rowVars
  <1>7. job[w].touch = last_touch[e] => HasLatest(e)'
    <2>1. job[w].touch = last_touch[e] => job[w].ver = source[e]
      BY <1>1 DEF QueueInv, JobsCovered
    <2> QED BY <1>1, <1>2, <1>4, <2>1 DEF JobLease, HasLatest, rowVars
  <1>8. RowLease(e)'
    <2>1. completed[e] # last_touch[e]
      BY <1>2
    <2> QED BY <1>2, <1>3, <1>4, <1>7, <2>1 DEF RowLease, rowVars
  <1>9. JobLease(w)'
    BY <1>1, <1>2, <1>4, <1>5, <1>7 DEF JobLease, InProcess, Between, Tombstoned, rowVars
  <1>10. QueueInv'
    BY UpsertInv
  <1> QED
    BY <1>2, <1>4, <1>6, <1>8, <1>9, <1>10, RowStepLease

\* A row that is finished at its latest touch has the content in the graph, and its holder lets
\* it go.
LEMMA MarkDoneLease ==
  ASSUME QueueInv, LeaseInv, NEW w \in Workers, MarkDone(w)
  PROVE  LeaseInv'
  <1>0. pc[w] \in InProcess /\ pc[w] = "done"
    BY DEF MarkDone, InProcess
  <1>1. PICK e \in Events : e = job[w].ev
    BY <1>0, InHand
  <1>2. /\ HoldsRow(w, e)
        /\ \A c \in batch[w] : c.ev # job[w].ev
        /\ RowLease(e) /\ JobLease(w)
    BY <1>0, <1>1, InHand
  <1>3. /\ completed'[e] = job[w].touch
        /\ \A x \in Events : x # e => completed'[x] = completed[x]
    BY <1>1, <1>2 DEF MarkDone, DoneAt, QueueInv, TypeOK
  <1>4. UNCHANGED <<source, last_touch, settled, leased, record, graph, covered, batch, seen>>
    BY DEF MarkDone, ingestVars
  <1>5. /\ job'[w] = NoJob /\ NoJob.ev = None /\ None \notin Events
        /\ NoJob.reedit = FALSE
        /\ pc'[w] \in {"batch", "idle", "drain"}
        /\ \A v \in Workers : v # w => pc'[v] = pc[v] /\ job'[v] = job[v]
    BY DEF MarkDone, Resume, NoJob, QueueInv, TypeOK
  <1>6. ~HoldsRow(w, e)'
    BY <1>1, <1>2, <1>4, <1>5 DEF HoldsRow
  <1>7. RowStep(w, e)
    BY <1>1, <1>2, <1>3, <1>4, <1>5, <1>6 DEF RowStep
  <1>8. RowLease(e)'
    BY <1>0, <1>1, <1>2, <1>3, <1>4 DEF RowLease, JobLease, HasLatest
  <1>9. JobLease(w)'
    BY <1>5 DEF JobLease, InProcess, Between, Tombstoned
  <1>10. \A c \in batch'[w] : c.ev # job'[w].ev
    BY <1>4, <1>5 DEF QueueInv, TypeOK, Claim
  <1>11. QueueInv'
    BY MarkDoneInv
  <1> QED
    BY <1>1, <1>2, <1>7, <1>8, <1>9, <1>10, <1>11, RowStepLease

\* A failed attempt, and an outcome that is not recorded, leave the row as it was.
LEMMA FailedLease ==
  ASSUME QueueInv, LeaseInv, NEW w \in Workers,
         ProcessRaises(w) \/ MarkFailed(w) \/ OutcomeLost(w)
  PROVE  LeaseInv'
  <1>0. pc[w] \in InProcess
    BY DEF ProcessRaises, MarkFailed, OutcomeLost, InProcess
  <1>1. PICK e \in Events : e = job[w].ev
    BY <1>0, InHand
  <1>2. /\ HoldsRow(w, e)
        /\ \A c \in batch[w] : c.ev # job[w].ev
        /\ RowLease(e) /\ JobLease(w)
    BY <1>0, <1>1, InHand
  <1>3. UNCHANGED <<source, last_touch, leased, completed, record, graph, covered>>
    BY DEF ProcessRaises, MarkFailed, OutcomeLost, rowVars, ingestVars
  <1>4. /\ \/ pc'[w] = "failed" /\ job'[w] = job[w]
           \/ pc'[w] \in {"batch", "idle", "drain"} /\ job'[w] = NoJob
        /\ batch'[w] \subseteq batch[w]
        /\ \A v \in Workers : v # w => /\ pc'[v] = pc[v] /\ job'[v] = job[v]
                                       /\ batch'[v] = batch[v]
    BY DEF ProcessRaises, MarkFailed, OutcomeLost, Resume, QueueInv, TypeOK
  <1>5. NoJob.ev = None /\ None \notin Events /\ NoJob.reedit = FALSE
    BY DEF NoJob
  <1>6. RowStep(w, e)
    BY <1>1, <1>2, <1>3, <1>4, <1>5 DEF RowStep
  <1>7. RowLease(e)'
    BY <1>1, <1>2, <1>3 DEF RowLease, HasLatest
  <1>8. JobLease(w)'
    BY <1>1, <1>2, <1>3, <1>4, <1>5 DEF JobLease, InProcess, Between, Tombstoned
  <1>9. \A c \in batch'[w] : c.ev # job'[w].ev
    BY <1>1, <1>2, <1>4, <1>5 DEF QueueInv, TypeOK, Claim
  <1>10. QueueInv'
    BY IngestInv, FailureInv
  <1> QED
    BY <1>1, <1>2, <1>6, <1>7, <1>8, <1>9, <1>10, RowStepLease

\* A restart lets go of every row.
LEMMA CrashLease ==
  ASSUME LeaseInv, Crash
  PROVE  LeaseInv'
  <1>1. \A w \in Workers : pc'[w] = "idle" /\ batch'[w] = {} /\ job'[w] = NoJob
    BY DEF Crash
  <1>2. NoJob.ev \notin Events /\ NoJob.reedit = FALSE
    BY DEF NoJob
  <1>3. \A e \in Events : \A w \in Workers : ~HoldsRow(w, e)'
    BY <1>1, <1>2 DEF HoldsRow
  <1>4. ClaimsApart' /\ LeaseExclusive' /\ HeldLeased'
    BY <1>1, <1>3 DEF ClaimsApart, LeaseExclusive, HeldLeased, Held
  <1>5. \A e \in Events : RowLease(e)'
    BY LeaseParts DEF Crash, rowVars, ingestVars, RowLease, HasLatest
  <1>6. \A w \in Workers : JobLease(w)'
    BY <1>1, <1>2 DEF JobLease, InProcess, Between, Tombstoned
  <1> QED BY <1>4, <1>5, <1>6, LeasePartsNext

\* A claim takes rows without a lease, so rows that no worker holds.
LEMMA ClaimLease ==
  ASSUME QueueInv, LeaseInv, NEW w \in Workers, NEW S \in SUBSET Events, NEW T \in SUBSET S,
         \A e \in S : Unfinished(e) /\ ~leased[e],
         LeaseRows(S),
         batch' = [batch EXCEPT ![w] = ClaimsOn(T)],
         pc[w] \in {"idle", "drain"}, pc'[w] \in {"idle", "batch"},
         \A v \in Workers : v # w => pc'[v] = pc[v],
         UNCHANGED <<ingestVars, job>>
  PROVE  LeaseInv'
  <1> USE DEF ingestVars
  <1>1. UNCHANGED <<source, last_touch, settled, completed>>
    BY DEF LeaseRows
  <1>2. job[w] = NoJob /\ NoJob.ev \notin Events /\ NoJob.reedit = FALSE
    BY DEF LeaseInv, JobsOfActive, InProcess, NoJob
  <1>3. /\ batch'[w] = ClaimsOn(T)
        /\ \A v \in Workers : v # w => batch'[v] = batch[v]
    BY DEF QueueInv, TypeOK
  <1>4. \A c \in ClaimsOn(T) : c.ev \in T
    BY DEF ClaimsOn
  <1>5. ASSUME NEW x \in Events
        PROVE  HoldsRow(w, x)' => x \in T
    BY <1>2, <1>3, <1>4 DEF HoldsRow
  <1>6. ASSUME NEW v \in Workers, NEW x \in Events, v # w
        PROVE  HoldsRow(v, x)' <=> HoldsRow(v, x)
    BY <1>3, <1>6 DEF HoldsRow
  <1>7. ASSUME NEW v \in Workers, NEW x \in Events, HoldsRow(v, x)
        PROVE  x \notin S /\ leased[x] /\ Unfinished(x)
    BY <1>7 DEF LeaseInv, HeldLeased, Held
  <1>8. LeaseExclusive'
    BY <1>5, <1>6, <1>7 DEF LeaseInv, LeaseExclusive
  <1>9. HeldLeased'
    <2> SUFFICES ASSUME NEW x \in Events, NEW v \in Workers, HoldsRow(v, x)'
                 PROVE  leased'[x] /\ Unfinished(x)'
      BY DEF HeldLeased, Held
    <2>1. (leased[x] \/ x \in S) /\ Unfinished(x)
      BY <1>5, <1>6, <1>7
    <2> QED BY <1>1, <2>1 DEF LeaseRows, Unfinished
  <1>10. ClaimsApart'
    <2> SUFFICES ASSUME NEW v \in Workers, NEW c \in batch'[v]
                 PROVE  c.ev # job[v].ev /\ \A d \in batch'[v] : c.ev = d.ev => c = d
      BY DEF ClaimsApart
    <2>1. CASE v = w
      <3>1. \A d \in ClaimsOn(T) : d = [ev |-> d.ev, touch |-> last_touch[d.ev]]
        BY DEF ClaimsOn
      <3> QED BY <1>2, <1>3, <1>4, <2>1, <3>1
    <2>2. CASE v # w
      BY <1>3, <2>2 DEF LeaseInv, ClaimsApart
    <2> QED BY <2>1, <2>2
  <1>11. \A e \in Events : RowLease(e)'
    BY <1>1, LeaseParts DEF RowLease, HasLatest
  <1>12. ASSUME NEW v \in Workers PROVE JobLease(v)'
    <2>1. CASE v = w
      BY <1>2, <2>1 DEF JobLease, InProcess, Between, Tombstoned
    <2>2. CASE v # w
      <3>1. JobLease(v) /\ pc'[v] = pc[v] /\ job'[v] = job[v]
        BY <2>2, LeaseParts
      <3> QED BY <1>1, <3>1 DEF JobLease, HasLatest, Tombstoned
    <2> QED BY <2>1, <2>2
  <1> QED BY <1>8, <1>9, <1>10, <1>11, <1>12, LeasePartsNext

LEMMA PollLease ==
  ASSUME QueueInv, LeaseInv, NEW w \in Pollers, Poll(w)
  PROVE  LeaseInv'
  <1>1. PICK S \in FirstRows({e \in Scope[w] : Eligible(e, FALSE)}, BatchSize) :
           LeaseRows(S) /\ batch' = [batch EXCEPT ![w] = ClaimsOn(S)]
    BY DEF Poll
  <1>2. S \subseteq {e \in Scope[w] : Eligible(e, FALSE)}
    BY <1>1, FirstRowsPart
  <1>3. w \in Workers /\ Scope[w] \subseteq Events
    BY DEF Workers
  <1>4. S \in SUBSET Events /\ \A e \in S : Unfinished(e) /\ ~leased[e]
    BY <1>2, <1>3 DEF Eligible
  <1>5. /\ pc[w] = "idle" /\ pc'[w] = "batch"
        /\ \A v \in Workers : v # w => pc'[v] = pc[v]
        /\ UNCHANGED <<ingestVars, job>>
    BY <1>3 DEF Poll, QueueInv, TypeOK
  <1> QED
    BY <1>1, <1>3, <1>4, <1>5, ClaimLease

LEMMA ForceClaimLease ==
  ASSUME QueueInv, LeaseInv, NEW w \in Forcers, ForceClaim(w)
  PROVE  LeaseInv'
  <1>1. PICK n : \E R \in FirstRows(Drainable(w), n) :
           /\ LeaseRows(R)
           /\ batch' = [batch EXCEPT ![w] = ClaimsOn(R \ seen[w])]
           /\ pc' = [pc EXCEPT ![w] =
                       IF R \subseteq seen[w] THEN "idle" ELSE "batch"]
    BY DEF ForceClaim
  <1>2. PICK S \in FirstRows(Drainable(w), n) :
           /\ LeaseRows(S)
           /\ batch' = [batch EXCEPT ![w] = ClaimsOn(S \ seen[w])]
           /\ pc' = [pc EXCEPT ![w] =
                       IF S \subseteq seen[w] THEN "idle" ELSE "batch"]
    BY <1>1
  <1>3. S \subseteq Drainable(w)
    BY <1>2, FirstRowsPart
  <1>4. w \in Workers /\ Scope[w] \subseteq Events
    BY DEF Workers
  <1>5. \A e \in S : Unfinished(e) /\ ~leased[e]
    BY <1>3 DEF Drainable, Eligible
  <1>6. S \in SUBSET Events /\ S \ seen[w] \in SUBSET S
    BY <1>3, <1>4 DEF Drainable
  <1>7. /\ \A v \in Workers : v # w => pc'[v] = pc[v]
        /\ pc[w] = "drain" /\ pc'[w] \in {"idle", "batch"}
        /\ UNCHANGED <<ingestVars, job>>
    BY <1>2, <1>4 DEF ForceClaim, QueueInv, TypeOK
  <1> QED
    BY <1>2, <1>4, <1>5, <1>6, <1>7, ClaimLease

\* The start and the end of a force-publish call move no claim.
LEMMA ForceCallLease ==
  ASSUME QueueInv, LeaseInv, NEW w \in Forcers, ForceStart(w) \/ ForceEnd(w)
  PROVE  LeaseInv'
  <1>1. UNCHANGED <<rowVars, ingestVars, batch, job>>
    BY DEF ForceStart, ForceEnd
  <1>2. /\ w \in Workers /\ pc[w] \in {"idle", "drain"} /\ pc'[w] \in {"idle", "drain"}
        /\ \A v \in Workers : v # w => pc'[v] = pc[v]
    BY DEF ForceStart, ForceEnd, QueueInv, TypeOK, Workers
  <1>3. ClaimsApart' /\ LeaseExclusive' /\ HeldLeased'
    BY <1>1 DEF LeaseInv, ClaimsApart, LeaseExclusive, HeldLeased, Held, HoldsRow, Unfinished, rowVars
  <1>4. \A e \in Events : RowLease(e)'
    BY <1>1, LeaseParts DEF RowLease, HasLatest, rowVars, ingestVars
  <1>5. ASSUME NEW v \in Workers PROVE JobLease(v)'
    <2>1. JobLease(v)
      BY LeaseParts
    <2>2. CASE v = w
      BY <1>1, <1>2, <2>1, <2>2 DEF JobLease, InProcess, Between, Tombstoned, rowVars, ingestVars
    <2>3. CASE v # w
      BY <1>1, <1>2, <2>1, <2>3 DEF JobLease, HasLatest, Tombstoned, rowVars, ingestVars
    <2> QED BY <2>2, <2>3
  <1> QED BY <1>3, <1>4, <1>5, LeasePartsNext

LEMMA StutterLease ==
  ASSUME LeaseInv, UNCHANGED vars
  PROVE  LeaseInv'
  <1>1. ClaimsApart' /\ LeaseExclusive' /\ HeldLeased'
    BY DEF vars, rowVars, ingestVars, workVars, LeaseInv, ClaimsApart, LeaseExclusive, HeldLeased,
       Held, HoldsRow, Unfinished
  <1>2. \A e \in Events : RowLease(e)'
    BY LeaseParts DEF vars, rowVars, ingestVars, RowLease, HasLatest
  <1>3. \A w \in Workers : JobLease(w)'
    BY LeaseParts DEF vars, rowVars, ingestVars, workVars, JobLease, HasLatest, Tombstoned
  <1> QED BY <1>1, <1>2, <1>3, LeasePartsNext

LEMMA NextLease ==
  ASSUME ~SlowWorkers, QueueInv, LeaseInv, [Next]_vars
  PROVE  LeaseInv'
  <1>1. CASE UNCHANGED vars
    BY <1>1, StutterLease
  <1>2. CASE Next
    BY <1>2, EnvironmentLease, PollLease, ForceCallLease, ForceClaimLease, LoadRecordLease,
       TombstoneLease, StampReadLease, WriteEdgesLease, UpsertLease, MarkDoneLease, FailedLease,
       CrashLease DEF Next, Process
  <1> QED
    BY <1>1, <1>2

\* Between workers that finish within their leases the invariant holds in every reachable state.
THEOREM LeaseInvariance ==
  ASSUME ~SlowWorkers
  PROVE  Spec => [](QueueInv /\ LeaseInv)
  <1>1. Init => QueueInv /\ LeaseInv
    BY InitInv, LeaseInit
  <1>2. (QueueInv /\ LeaseInv) /\ [Next]_vars => (QueueInv /\ LeaseInv)'
    BY NextInv, NextLease
  <1> QED
    BY <1>1, <1>2, PTL DEF Spec

\* The lease is a lock as long as no worker outlives it: two workers never hold the same row,
\* whatever fails, crashes, is edited or is force-published meanwhile.
THEOREM HoldersApart ==
  ASSUME ~SlowWorkers
  PROVE  Spec => []LeaseExclusive
  <1>1. QueueInv /\ LeaseInv => LeaseExclusive
    BY DEF LeaseInv
  <1> QED
    BY <1>1, LeaseInvariance, PTL

\* While no worker outlives its lease, a finished row has its current content in the graph: no
\* tombstone takes away what completion was recorded for.
THEOREM FinishedIsInGraph ==
  ASSUME ~SlowWorkers
  PROVE  Spec => []GraphHasLatest
  <1>1. QueueInv /\ LeaseInv => GraphHasLatest
    BY DEF LeaseInv, LatestInGraph, HasLatest, GraphHasLatest
  <1> QED
    BY <1>1, LeaseInvariance, PTL

\* While no worker outlives its lease, a re-edit that completes with no newer touch leaves only
\* current content in the graph (tombstone.py).
THEOREM ReEditsAreClean ==
  ASSUME ~SlowWorkers
  PROVE  Spec => []ReEditClean
  <1>1. QueueInv /\ LeaseInv => ReEditClean
    <2> SUFFICES ASSUME QueueInv, LeaseInv, NEW w \in Workers, pc[w] = "done", job[w].reedit,
                        job[w].at > 0, job[w].touch = last_touch[job[w].ev],
                        NEW x \in graph[job[w].ev]
                 PROVE  x.ver = source[job[w].ev]
      BY DEF ReEditClean
    <2>1. job[w].ev \in Events /\ RowLease(job[w].ev)
      BY LeaseParts DEF QueueInv, JobsNotAhead, InProcess
    <2>2. x.at >= last_touch[job[w].ev]
      BY DEF LeaseInv, OlderGone, Tombstoned
    <2>3. x.at <= last_touch[job[w].ev] /\ x.at \in Nat /\ last_touch[job[w].ev] \in Nat
      BY <2>1 DEF RowLease, QueueInv, TypeOK, Edge
    <2> QED BY <2>1, <2>2, <2>3 DEF RowLease
  <1> QED
    BY <1>1, LeaseInvariance, PTL
-----------------------------------------------------------------------------
(* Outcomes only move forward.                                             *)

\* Whatever is held is later than what its row was completed at.
HeldAhead ==
    \A w \in Workers :
        /\ \A c \in batch[w] : completed[c.ev] < c.touch
        /\ job[w].ev \in Events => completed[job[w].ev] < job[w].touch

\* Claims and jobs that come from earlier ones stay ahead while no row is completed.
LEMMA AheadKept ==
  ASSUME HeldAhead, completed' = completed,
         \A w \in Workers :
            /\ batch'[w] \subseteq batch[w]
            /\ \/ job'[w].ev = job[w].ev /\ job'[w].touch = job[w].touch
               \/ job'[w].ev \notin Events
               \/ \E c \in batch[w] : job'[w].ev = c.ev /\ job'[w].touch = c.touch
  PROVE  HeldAhead'
  BY DEF HeldAhead

\* The steps that complete no row and claim none.
LEMMA AheadQuiet ==
  ASSUME QueueInv, HeldAhead,
         \/ \E e \in Events : Edit(e) \/ Settle(e) \/ LeaseExpires(e) \/ Nudge(e)
         \/ \E w \in Forcers : ForceStart(w) \/ ForceEnd(w)
         \/ \E w \in Workers : Tombstone(w) \/ WriteEdges(w) \/ UpsertRecord(w) \/ ProcessRaises(w)
         \/ UNCHANGED vars
  PROVE  HeldAhead'
  <1>1. UNCHANGED <<completed, batch, job>>
    BY DEF Edit, Settle, LeaseExpires, Nudge, ForceStart, ForceEnd, Tombstone, WriteEdges,
       UpsertRecord, ProcessRaises, vars, rowVars, ingestVars, workVars
  <1> QED BY <1>1, AheadKept

\* The steps of a worker about its claims and its job.
LEMMA AheadInHand ==
  ASSUME QueueInv, HeldAhead, NEW w \in Workers,
         LoadRecord(w) \/ Stamp(w) \/ ReadSource(w) \/ MarkFailed(w) \/ OutcomeLost(w)
  PROVE  HeldAhead'
  <1>1. completed' = completed
    BY DEF LoadRecord, Stamp, ReadSource, MarkFailed, OutcomeLost, rowVars
  <1>2. \A v \in Workers : v # w => batch'[v] = batch[v] /\ job'[v] = job[v]
    BY DEF LoadRecord, Stamp, ReadSource, MarkFailed, OutcomeLost, QueueInv, TypeOK
  <1>3. batch'[w] \subseteq batch[w]
    <2>1. CASE LoadRecord(w)
      <3>1. PICK c \in batch[w] : batch' = [batch EXCEPT ![w] = @ \ {c}]
        BY <2>1 DEF LoadRecord
      <3> QED BY <3>1 DEF QueueInv, TypeOK
    <2>2. CASE Stamp(w) \/ ReadSource(w) \/ MarkFailed(w)
      BY <2>2 DEF Stamp, ReadSource, MarkFailed
    <2>3. CASE OutcomeLost(w)
      BY <2>3 DEF OutcomeLost, QueueInv, TypeOK
    <2> QED BY <2>1, <2>2, <2>3
  <1>4. \/ job'[w].ev = job[w].ev /\ job'[w].touch = job[w].touch
        \/ job'[w].ev \notin Events
        \/ \E c \in batch[w] : job'[w].ev = c.ev /\ job'[w].touch = c.touch
    <2>1. CASE LoadRecord(w)
      <3>1. PICK c \in batch[w] :
              job' = [job EXCEPT ![w] = [NoJob EXCEPT !.ev = c.ev, !.touch = c.touch,
                                                      !.reedit = record[c.ev] # 0]]
        BY <2>1 DEF LoadRecord
      <3>2. job'[w] = [NoJob EXCEPT !.ev = c.ev, !.touch = c.touch, !.reedit = record[c.ev] # 0]
        BY <3>1 DEF QueueInv, TypeOK
      <3>3. job'[w].ev = c.ev /\ job'[w].touch = c.touch
        BY <3>2 DEF NoJob
      <3> QED BY <3>3
    <2>2. CASE Stamp(w) \/ ReadSource(w)
      BY <2>2 DEF Stamp, ReadSource, QueueInv, TypeOK, Job
    <2>3. CASE MarkFailed(w) \/ OutcomeLost(w)
      BY <2>3 DEF MarkFailed, OutcomeLost, QueueInv, TypeOK, NoJob
    <2> QED BY <2>1, <2>2, <2>3
  <1> QED BY <1>1, <1>2, <1>3, <1>4, AheadKept

LEMMA AheadCrash ==
  ASSUME HeldAhead, Crash
  PROVE  HeldAhead'
  BY DEF HeldAhead, Crash, NoJob

\* A claim carries the touch of an unfinished row.
LEMMA AheadClaim ==
  ASSUME QueueInv, HeldAhead, NEW w \in Workers, NEW T \in SUBSET Events,
         \A e \in T : Unfinished(e),
         batch' = [batch EXCEPT ![w] = ClaimsOn(T)],
         UNCHANGED <<completed, job>>
  PROVE  HeldAhead'
  <1>1. /\ batch'[w] = ClaimsOn(T)
        /\ \A v \in Workers : v # w => batch'[v] = batch[v]
    BY DEF QueueInv, TypeOK
  <1>2. \A c \in ClaimsOn(T) : completed[c.ev] < c.touch
    BY DEF ClaimsOn, Unfinished, QueueInv, TypeOK
  <1> QED BY <1>1, <1>2 DEF HeldAhead

\* A poll and a loop of a force-publish call claim unfinished rows only.
LEMMA AheadClaims ==
  ASSUME QueueInv, HeldAhead,
         (\E w \in Pollers : Poll(w)) \/ (\E w \in Forcers : ForceClaim(w))
  PROVE  HeldAhead'
  <1>1. ASSUME NEW w \in Pollers, Poll(w) PROVE HeldAhead'
    <2>1. PICK S \in FirstRows({e \in Scope[w] : Eligible(e, FALSE)}, BatchSize) :
             LeaseRows(S) /\ batch' = [batch EXCEPT ![w] = ClaimsOn(S)]
      BY <1>1 DEF Poll
    <2>2. S \subseteq {e \in Scope[w] : Eligible(e, FALSE)}
      BY <2>1, FirstRowsPart
    <2>3. w \in Workers /\ Scope[w] \subseteq Events
      BY DEF Workers
    <2>4. S \in SUBSET Events /\ \A e \in S : Unfinished(e)
      BY <2>2, <2>3 DEF Eligible
    <2>5. UNCHANGED <<completed, job>>
      BY <1>1, <2>1 DEF Poll, LeaseRows
    <2> QED BY <2>1, <2>3, <2>4, <2>5, AheadClaim
  <1>2. ASSUME NEW w \in Forcers, ForceClaim(w) PROVE HeldAhead'
    <2>1. PICK n : \E R \in FirstRows(Drainable(w), n) :
             LeaseRows(R) /\ batch' = [batch EXCEPT ![w] = ClaimsOn(R \ seen[w])]
      BY <1>2 DEF ForceClaim
    <2>2. PICK S \in FirstRows(Drainable(w), n) :
             LeaseRows(S) /\ batch' = [batch EXCEPT ![w] = ClaimsOn(S \ seen[w])]
      BY <2>1
    <2>3. S \subseteq Drainable(w)
      BY <2>2, FirstRowsPart
    <2>4. w \in Workers /\ Scope[w] \subseteq Events
      BY DEF Workers
    <2>5. S \ seen[w] \in SUBSET Events /\ \A e \in S \ seen[w] : Unfinished(e)
      BY <2>3, <2>4 DEF Drainable, Eligible
    <2>6. UNCHANGED <<completed, job>>
      BY <1>2, <2>2 DEF ForceClaim, LeaseRows
    <2> QED BY <2>2, <2>4, <2>5, <2>6, AheadClaim
  <1> QED BY <1>1, <1>2

\* The row that is completed was held by this worker alone, and by its job alone.
LEMMA AheadDone ==
  ASSUME QueueInv, LeaseInv, HeldAhead, NEW w \in Workers, MarkDone(w)
  PROVE  HeldAhead'
  <1>0. pc[w] \in InProcess
    BY DEF MarkDone, InProcess
  <1>1. PICK e \in Events : e = job[w].ev
    BY <1>0, InHand
  <1>2. HoldsRow(w, e) /\ \A c \in batch[w] : c.ev # e
    BY <1>0, <1>1, InHand
  <1>3. \A x \in Events : x # e => completed'[x] = completed[x]
    BY <1>1 DEF MarkDone, QueueInv, TypeOK
  <1>4. /\ job'[w].ev \notin Events
        /\ \A v \in Workers : v # w => job'[v] = job[v]
    BY DEF MarkDone, NoJob, QueueInv, TypeOK
  <1>5. batch' = batch
    BY DEF MarkDone
  <1>6. ASSUME NEW v \in Workers, NEW c \in batch[v] PROVE c.ev \in Events /\ c.ev # e
    <2>1. c.ev \in Events
      BY DEF QueueInv, TypeOK, Claim
    <2>2. CASE v = w
      BY <1>2, <2>1, <2>2
    <2>3. CASE v # w
      BY <1>2, <2>1, <2>3 DEF LeaseInv, LeaseExclusive, HoldsRow
    <2> QED BY <2>2, <2>3
  <1>7. ASSUME NEW v \in Workers, v # w PROVE job[v].ev # e
    BY <1>2, <1>7 DEF LeaseInv, LeaseExclusive, HoldsRow
  <1> QED BY <1>3, <1>4, <1>5, <1>6, <1>7 DEF HeldAhead

LEMMA AheadNext ==
  ASSUME QueueInv, LeaseInv, HeldAhead, [Next]_vars
  PROVE  HeldAhead'
  BY AheadQuiet, AheadInHand, AheadCrash, AheadClaims, AheadDone DEF Next, Process

\* What a step does to the outcomes recorded for the rows.
OutcomesForward ==
    \A e \in Events : record'[e] >= record[e] /\ completed'[e] >= completed[e]

LEMMA ForwardStep ==
  ASSUME QueueInv, LeaseInv, HeldAhead, [Next]_vars
  PROVE  OutcomesForward
  <1> USE DEF OutcomesForward
  <1>0. \A e \in Events : record[e] \in Nat /\ completed[e] \in Nat
    BY DEF QueueInv, TypeOK
  <1>1. ASSUME NEW w \in Workers, UpsertRecord(w) PROVE OutcomesForward
    <2>1. pc[w] \in Between /\ completed' = completed
      BY <1>1 DEF UpsertRecord, Between, rowVars
    <2>2. record[job[w].ev] < job[w].touch
      BY <2>1 DEF LeaseInv, AheadOfRecord
    <2>3. job[w].touch \in Nat /\ record' = [record EXCEPT ![job[w].ev] = job[w].touch]
      BY <1>1 DEF UpsertRecord, QueueInv, TypeOK, Job
    <2> QED BY <1>0, <2>1, <2>2, <2>3 DEF QueueInv, TypeOK
  <1>2. ASSUME NEW w \in Workers, MarkDone(w) PROVE OutcomesForward
    <2>1. job[w].ev \in Events /\ record' = record
      BY <1>2, InHand DEF MarkDone, InProcess, ingestVars
    <2>2. completed[job[w].ev] < job[w].touch
      BY <2>1 DEF HeldAhead
    <2>3. job[w].touch \in Nat /\ completed' = [completed EXCEPT ![job[w].ev] = job[w].touch]
      BY <1>2 DEF MarkDone, DoneAt, QueueInv, TypeOK, Job
    <2> QED BY <1>0, <2>1, <2>2, <2>3 DEF QueueInv, TypeOK
  <1>3. \/ \E w \in Workers : UpsertRecord(w) \/ MarkDone(w)
        \/ UNCHANGED <<record, completed>>
    BY DEF Next, Process, Edit, Settle, LeaseExpires, Nudge, Poll, ForceStart, ForceClaim, ForceEnd,
       LeaseRows, LoadRecord, Tombstone, Stamp, ReadSource, WriteEdges, MarkFailed, ProcessRaises,
       OutcomeLost, Crash, vars, rowVars, ingestVars
  <1> QED BY <1>0, <1>1, <1>2, <1>3

\* While no worker outlives its lease, neither the record of a row nor its completion goes back to
\* an older touch: what was ingested and finished once is not taken back by a worker that ends
\* later (mark_done, event_queue.py).
THEOREM OutcomesOnlyMoveForward ==
  ASSUME ~SlowWorkers
  PROVE  Spec => [][OutcomesForward]_vars
  <1>1. Init => HeldAhead
    BY DEF Init, HeldAhead, NoJob
  <1>2. (QueueInv /\ LeaseInv) /\ HeldAhead /\ [Next]_vars => HeldAhead'
    BY AheadNext
  <1>3. (QueueInv /\ LeaseInv) /\ HeldAhead /\ [Next]_vars => [OutcomesForward]_vars
    BY ForwardStep
  <1> QED
    BY <1>1, <1>2, <1>3, LeaseInvariance, PTL DEF Spec
=============================================================================
