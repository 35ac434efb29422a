----------------------------- MODULE AdminPlan ------------------------------
(***************************************************************************)
(* The admin app's plan editor (requisitions/[id]/plan/edit) against the   *)
(* admin endpoints.  Every handler of the page works on the plan it was    *)
(* rendered with: it sends a request, and when the answer is there it sets *)
(* the plan to that older value, changed by what it did.  "Save all" sends *)
(* the contents in order, and the backend matches them with its rounds by  *)
(* round number.                                                           *)
(***************************************************************************)
EXTENDS Naturals, Sequences, SequencesExt

CONSTANTS
    FirstRounds,      \* rounds of the plan when the page opens
    MaxRounds,        \* bound on the rounds ever created
    MaxEdits,         \* bound on the texts typed
    MaxHandlers,      \* bound on the handlers started
    MaxInFlight       \* handlers the admin leaves running at a time

ASSUME AdminAssumption ==
    /\ {FirstRounds, MaxRounds, MaxEdits, MaxHandlers} \subseteq Nat /\ MaxInFlight \in Nat \ {0}
    /\ FirstRounds \in 1..MaxRounds

VARIABLES
    rows,             \* rows[i]: round i in the database, number 0 when it is not there
    born,             \* rounds created so far
    plan,             \* the page's plan: rounds in order
    selected,         \* selectedRoundIndex, from 1
    edits,            \* texts typed so far
    begun,            \* handlers started so far
    ops,              \* ops[s]: a handler between its request and its end
    torn,             \* an answer was lost, or a save not read back yet
    finished          \* Finish left the page

adminVars == <<rows, born, plan, selected, edits, begun, ops, torn, finished>>

Id   == 1..MaxRounds
Slot == 1..MaxInFlight

\* Texts: that of a new round, and those typed.
NewText(i) == i
Typed(k)   == MaxRounds + k
Gone == [num |-> 0, text |-> 0]
Idle == [op |-> "idle", st |-> "sent", arg |-> 0, was |-> <<>>, sel |-> 0]

Live == {i \in Id : rows[i].num > 0}

\* get_interview_plan: the rows that are there, by number.
Before(i) ==
    {j \in Live : rows[j].num < rows[i].num \/ (rows[j].num = rows[i].num /\ j <= i)}
Stored == [k \in 1..Cardinality(Live) |->
              LET i == CHOOSE i \in Live : Cardinality(Before(i)) = k
              IN  [id |-> i, text |-> rows[i].text]]

TextsOf(p) == [k \in DOMAIN p |-> p[k].text]
IdsOf(p)   == [k \in DOMAIN p |-> p[k].id]

AdminInit ==
    /\ rows = [i \in Id |-> IF i <= FirstRounds THEN [num |-> i, text |-> NewText(i)] ELSE Gone]
    /\ born = FirstRounds
    /\ plan = [i \in 1..FirstRounds |-> [id |-> i, text |-> NewText(i)]]
    /\ selected = 1 /\ edits = 0 /\ begun = 0
    /\ ops = [s \in Slot |-> Idle]
    /\ torn = FALSE /\ finished = FALSE

-----------------------------------------------------------------------------
\* The spinner of fetchData hides the editor.
Loading == \E s \in Slot : ops[s].op \in {"fetch", "finishFetch"}

Editable == ~finished /\ ~Loading

\* updateLocalRound and its callers.
EditRound(k) ==
    /\ Editable /\ k \in DOMAIN plan /\ edits < MaxEdits
    /\ edits' = edits + 1
    /\ plan' = [plan EXCEPT ![k].text = Typed(edits + 1)]
    /\ UNCHANGED <<rows, born, selected, begun, ops, torn, finished>>

SelectRound(k) ==
    /\ Editable /\ k \in DOMAIN plan
    /\ selected' = k
    /\ UNCHANGED <<rows, born, plan, edits, begun, ops, torn, finished>>

\* A handler starts: it keeps the plan and the selection it was rendered with.
Begin(s, op, arg) ==
    /\ Editable /\ ops[s].op = "idle" /\ begun < MaxHandlers
    /\ begun' = begun + 1
    /\ ops' = [ops EXCEPT ![s] =
                  [op |-> op, st |-> "sent", arg |-> arg, was |-> plan, sel |-> selected]]

\* An interview or an assessment round: the handlers do the same with the plan.
AddRound(s) == born < MaxRounds /\ Begin(s, "add", 0)
               /\ UNCHANGED <<rows, born, plan, selected, edits, torn, finished>>

\* Mutant: the last round can be deleted.
MayDeleteAny == TRUE

MayDelete == Len(plan) > 1

DeleteRound(s, k) ==
    /\ MayDelete /\ k \in DOMAIN plan
    /\ Begin(s, "delete", plan[k].id)
    /\ UNCHANGED <<rows, born, plan, selected, edits, torn, finished>>

SaveRound(s, k) ==
    /\ k \in DOMAIN plan
    /\ Begin(s, "save", k)
    /\ UNCHANGED <<rows, born, plan, selected, edits, torn, finished>>

SaveAll(s, op) ==
    /\ op \in {"put", "finishPut"}
    /\ Begin(s, op, 0)
    /\ UNCHANGED <<rows, born, plan, selected, edits, torn, finished>>

Moved(p, from, to) == InsertAt(RemoveAt(p, from), to, p[from])

\* Mutant: a round dragged to the selected place does not shift it.
SelectedAfterMoveShort(from, to) ==
    CASE selected = from -> to
      [] from < selected /\ to > selected -> selected - 1
      [] from > selected /\ to < selected -> selected + 1
      [] OTHER -> selected

\* handleDragEnd shows the new order at once; the selection follows its round.
SelectedAfterMove(from, to) ==
    CASE selected = from -> to
      [] from < selected /\ to >= selected -> selected - 1
      [] from > selected /\ to <= selected -> selected + 1
      [] OTHER -> selected

DragRound(s, from, to) ==
    /\ {from, to} \subseteq DOMAIN plan /\ from # to
    /\ Begin(s, "reorder", [from |-> from, to |-> to])
    /\ plan' = Moved(plan, from, to)
    /\ selected' = SelectedAfterMove(from, to)
    /\ UNCHANGED <<rows, born, edits, torn, finished>>

-----------------------------------------------------------------------------
(* The backend.                                                            *)

AddRow ==
    LET last == CHOOSE n \in 0..MaxRounds :
                   /\ \A i \in Live : rows[i].num <= n
                   /\ n = 0 \/ \E i \in Live : rows[i].num = n
    IN  /\ born < MaxRounds
        /\ rows' = [rows EXCEPT ![born + 1] = [num |-> last + 1, text |-> NewText(born + 1)]]
        /\ born' = born + 1

\* A deleted round leaves its number free; the others keep theirs.
DeleteRow(i) == i \in Live /\ rows' = [rows EXCEPT ![i] = Gone] /\ UNCHANGED born

UpdateRow(r) == r.id \in Live /\ rows' = [rows EXCEPT ![r.id].text = r.text] /\ UNCHANGED born

\* The new order must name every round there is.
ReorderRows(ids) ==
    /\ ToSet(ids) = Live
    /\ rows' = [i \in Id |-> IF i \in Live THEN [rows[i] EXCEPT !.num = CHOOSE k \in DOMAIN ids : ids[k] = i]
                                           ELSE rows[i]]
    /\ UNCHANGED born

\* Rounds whose number no content has are deleted.
KeptOf(texts) == {i \in Live : rows[i].num <= Len(texts)}

\* Mutant: every content makes a new round.
UnmatchedAll(upTo) == 1..upTo

\* The places whose number no round has.
Unmatched(upTo) == {k \in 1..upTo : \A i \in Live : rows[i].num # k}

\* update_interview_plan: the k-th content goes to the round numbered k, or to
\* a new one.  A failure half way leaves the first contents stored.
PutRows(texts, upTo) ==
    LET missing == Unmatched(upTo)
        NewId(k) == born + Cardinality({j \in missing : j <= k})
    IN  /\ born + Cardinality(missing) <= MaxRounds
        /\ rows' = [i \in Id |->
              IF i \in Live /\ rows[i].num <= upTo THEN [rows[i] EXCEPT !.text = texts[rows[i].num]]
              ELSE IF \E k \in missing : NewId(k) = i
                   THEN LET k == CHOOSE k \in missing : NewId(k) = i
                        IN  [num |-> k, text |-> texts[k]]
              ELSE IF upTo = Len(texts) /\ i \notin KeptOf(texts) THEN Gone
              ELSE rows[i]]
        /\ born' = born + Cardinality(missing)

Stores(o) ==
    CASE o.op = "add" -> AddRow
      [] o.op = "delete" -> DeleteRow(o.arg)
      [] o.op = "save" -> UpdateRow(o.was[o.arg])
      [] o.op = "reorder" -> ReorderRows(IdsOf(Moved(o.was, o.arg.from, o.arg.to)))
      [] o.op \in {"put", "finishPut"} -> PutRows(TextsOf(o.was), Len(o.was))
      [] OTHER -> UNCHANGED <<rows, born>>

\* What the answer carries: the round made, or the plan that is stored.
Answered(o) ==
    CASE o.op = "add" -> [o EXCEPT !.arg = born']
      [] o.op \in {"fetch", "finishFetch"} -> [o EXCEPT !.was = Stored]
      [] OTHER -> o

\* The request of slot s is carried out; its answer may be lost.
Serve(s, st) ==
    /\ ops[s].op # "idle" /\ ops[s].st = "sent"
    /\ st \in {"ok", "lost"}
    /\ Stores(ops[s])
    /\ ops' = [ops EXCEPT ![s] = [Answered(ops[s]) EXCEPT !.st = st]]
    /\ torn' = (torn \/ st = "lost" \/ ops[s].op \in {"put", "finishPut"})
    /\ UNCHANGED <<plan, selected, edits, begun, finished>>

Refuse(s) ==
    /\ ops[s].op # "idle" /\ ops[s].st = "sent"
    /\ ops' = [ops EXCEPT ![s].st = "refused"]
    /\ UNCHANGED <<rows, born, plan, selected, edits, begun, torn, finished>>

\* A save that fails after k contents.
BreakOff(s, k) ==
    /\ ops[s].op \in {"put", "finishPut"} /\ ops[s].st = "sent"
    /\ k \in 1..Len(ops[s].was) - 1
    /\ PutRows(TextsOf(ops[s].was), k)
    /\ ops' = [ops EXCEPT ![s].st = "refused"]
    /\ torn' = TRUE
    /\ UNCHANGED <<plan, selected, edits, begun, finished>>

-----------------------------------------------------------------------------
(* The end of a handler: the plan is set from the value it started with.   *)

End(s) == ops' = [ops EXCEPT ![s] = Idle]

RoundAdded(s) ==
    LET o == ops[s] IN
    /\ o.op = "add" /\ o.st = "ok"
    /\ plan' = Append(o.was, [id |-> o.arg, text |-> NewText(o.arg)])
    /\ selected' = Len(plan')
    /\ End(s)
    /\ UNCHANGED <<rows, born, edits, begun, torn, finished>>

\* findIndex and filter: no two rounds of a plan have the same id.
At(p, i)      == CHOOSE k \in DOMAIN p : p[k].id = i
Without(p, i) == RemoveAt(p, At(p, i))

RoundDeleted(s) ==
    LET o == ops[s] IN
    /\ o.op = "delete" /\ o.st = "ok"
    /\ plan' = Without(o.was, o.arg)
    /\ selected' = IF o.sel > Len(plan') THEN (IF plan' = <<>> THEN 1 ELSE Len(plan'))
                   ELSE IF o.sel > At(o.was, o.arg) THEN o.sel - 1
                   ELSE selected
    /\ End(s)
    /\ UNCHANGED <<rows, born, edits, begun, torn, finished>>

\* Mutant: a refused reorder stays on the screen.
RestoredNot(o) == plan

\* A reorder that failed puts back the rounds and the selection before it.
Restored(o) == o.was

ReorderFailed(s) ==
    LET o == ops[s] IN
    /\ o.op = "reorder" /\ o.st \in {"refused", "lost"}
    /\ plan' = Restored(o) /\ selected' = o.sel
    /\ End(s)
    /\ UNCHANGED <<rows, born, edits, begun, torn, finished>>

\* Everything else a handler does at its end is a message.
Told(s) ==
    LET o == ops[s] IN
    /\ \/ o.op \in {"add", "delete"} /\ o.st \in {"refused", "lost"}
       \/ o.op = "reorder" /\ o.st = "ok"
       \/ o.op = "save" /\ o.st # "sent"
       \/ o.op = "put" /\ o.st \in {"refused", "lost"}
       \/ o.op = "fetch" /\ o.st \in {"refused", "lost"}
       \/ o.op = "status" /\ o.st \in {"refused", "lost"}
    /\ End(s)
    /\ UNCHANGED <<rows, born, plan, selected, edits, begun, torn, finished>>

Goes(s, op) == ops' = [ops EXCEPT ![s].op = op, ![s].st = "sent"]

\* handleSaveAll reads the plan again once it is stored.
SavedAll(s) ==
    LET o == ops[s] IN
    /\ \/ o.op = "put" /\ o.st = "ok" /\ Goes(s, "fetch")
       \/ o.op = "finishPut" /\ o.st = "ok" /\ Goes(s, "finishFetch")
    /\ UNCHANGED <<rows, born, plan, selected, edits, begun, torn, finished>>

PlanFetched(s) ==
    LET o == ops[s] IN
    /\ o.op \in {"fetch", "finishFetch"} /\ o.st = "ok"
    /\ plan' = o.was
    /\ torn' = FALSE
    /\ IF o.op = "fetch" THEN End(s) ELSE Goes(s, "status")
    /\ UNCHANGED <<rows, born, selected, edits, begun, finished>>

\* handleFinish goes on to the status whatever became of the save, and leaves
\* the page once the status is set.
FinishGoesOn(s) ==
    LET o == ops[s] IN
    /\ o.op \in {"finishPut", "finishFetch"} /\ o.st \in {"refused", "lost"}
    /\ Goes(s, "status")
    /\ UNCHANGED <<rows, born, plan, selected, edits, begun, torn, finished>>

Finish(s) ==
    /\ ops[s].op = "status" /\ ops[s].st = "ok"
    /\ finished' = TRUE
    /\ End(s)
    /\ UNCHANGED <<rows, born, plan, selected, edits, begun, torn>>

-----------------------------------------------------------------------------
AdminActs ==
    \/ \E k \in DOMAIN plan : EditRound(k) \/ SelectRound(k)
    \/ \E s \in Slot :
          \/ AddRound(s)
          \/ \E k \in DOMAIN plan : DeleteRound(s, k) \/ SaveRound(s, k)
          \/ \E op \in {"put", "finishPut"} : SaveAll(s, op)
          \/ \E from, to \in DOMAIN plan : DragRound(s, from, to)

Answers(s) == \/ \E st \in {"ok", "lost"} : Serve(s, st)
              \/ Refuse(s)
              \/ \E k \in 1..MaxRounds : BreakOff(s, k)

Ends(s) == \/ RoundAdded(s) \/ RoundDeleted(s) \/ ReorderFailed(s) \/ Told(s)
           \/ SavedAll(s) \/ PlanFetched(s) \/ FinishGoesOn(s) \/ Finish(s)

AdminNext == AdminActs \/ \E s \in Slot : Answers(s) \/ Ends(s)

AdminSpec == AdminInit /\ [][AdminNext]_adminVars

-----------------------------------------------------------------------------
(***************************************************************************)
(* Properties.                                                             *)
(***************************************************************************)
Rest == \A s \in Slot : ops[s].op = "idle"

\* Type correctness of the page and the rounds.
AdminTypeOK ==
    /\ rows \in [Id -> [num : 0..MaxRounds, text : 0..(MaxRounds + MaxEdits)]]
    /\ born \in 0..MaxRounds /\ edits \in 0..MaxEdits /\ begun \in 0..MaxHandlers
    /\ Len(plan) \in 1..MaxRounds /\ \A k \in DOMAIN plan : plan[k].id \in Id
    /\ selected \in 1..MaxRounds /\ {torn, finished} \subseteq BOOLEAN

\* Between requests the page shows the rounds the backend has, in its order:
\* adding, deleting and dragging (also a drag that is refused) keep the two
\* lists together, although a delete leaves a gap in the numbers.  A lost
\* answer and a save of all are the exception until the plan is read again.
QuietListsAgree == Rest /\ ~torn => IdsOf(plan) = IdsOf(Stored)

\* While the numbers have no gap, a content stays with the round it was written
\* for, on which candidates are booked; after a delete it moves to another.
NoGap == \A i \in Live : rows[i].num <= Cardinality(Live)

SaveAllKeepsRounds ==
    [][NoGap /\ ~torn =>
          \A s \in Slot :
             ops[s].op \in {"put", "finishPut"} /\ ops'[s].st = "ok" /\ ops[s].st = "sent"
                => IdsOf(Stored') = IdsOf(ops[s].was)]_adminVars

\* The selection stays with its round when the list changes under it: by a drag,
\* and by the end of a delete when nothing else was selected meanwhile.
SelectionFollows ==
    [][(plan' # plan /\ selected \in DOMAIN plan) =>
          \A s \in Slot :
             \/ ops[s].op = "idle" /\ ops'[s].op = "reorder"
             \/ ops[s].op = "delete" /\ ops[s].sel = selected /\ ops[s].arg # plan[selected].id
             => plan'[selected'].id = plan[selected].id]_adminVars
=============================================================================
