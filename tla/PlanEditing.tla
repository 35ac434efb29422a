---------------------------- MODULE PlanEditing -----------------------------
(***************************************************************************)
(* The plan tab of a role: RoleDetailPage loads the role through           *)
(* useRequisition (AsyncList), shows a skeleton or the tab, and the tab's  *)
(* round cards save as they are typed in: the round's core through         *)
(* useAutoSaveField, its guidelines through local drafts.  A save is a PUT *)
(* that answers in its own time, or not; its success is announced by an    *)
(* event that reloads the role.  Texts are numbered as they are typed.     *)
(***************************************************************************)
EXTENDS AsyncList

CONSTANTS
    MaxPages,         \* bound on the visits of the page
    MaxSaves,         \* bound on the PUTs sent
    MaxTyped          \* bound on the texts typed

ASSUME PlanAssumption ==
    /\ {MaxPages, MaxSaves, MaxTyped} \subseteq Nat
    /\ NoData \notin [core : Nat, note : Nat]
    /\ MaxLoads >= 2 * MaxPages + MaxSaves      \* no load is held back

VARIABLES
    retry,            \* scheduledRef and retryFired of the page
    visits,           \* visits of the page
    card,             \* the round card shown, numbered; its number stays when it goes
    field,            \* useAutoSaveField of the round's core
    noteDraft,        \* drafts of the guidelines
    typed,            \* texts typed so far
    sent,             \* PUTs sent so far
    saves             \* saves[n]: the n-th PUT

planVars == <<server, listVars, retry, visits, card, field, noteDraft, typed, sent, saves>>

Typable == 0..MaxTyped
Save   == 1..MaxSaves
Parts  == {"core", "note"}
NoSave == [st |-> "none", part |-> "core", text |-> 0, card |-> 0]
RoleTexts == [core : Typable, note : Typable]

\* An autosaved field mounted on text t.
Fresh(t) == [value |-> t, dirty |-> FALSE, status |-> "idle", prev |-> t]

PlanInit ==
    /\ server = [core |-> 0, note |-> 0]
    /\ ListInit
    /\ retry = "unused" /\ visits = 0
    /\ card = 0 /\ field = Fresh(0) /\ noteDraft = 0
    /\ typed = 0 /\ sent = 0
    /\ saves = [n \in Save |-> NoSave]

-----------------------------------------------------------------------------
\* The page renders its skeleton: a first load, the wait for the one retry,
\* and every load after that retry.
Skeleton ==
    \/ loading /\ view = NoData
    \/ retry # "fired" /\ failed /\ view = NoData
    \/ retry = "fired" /\ loading

Shown == open /\ ~Skeleton /\ view # NoData

\* Mutant: an outside change always wins.
ReconciledAlways(t) == IF t = field.prev THEN field ELSE Fresh(t)

\* An outside change of the stored text is adopted unless the field is dirty.
Reconciled(t) ==
    IF t = field.prev THEN field
    ELSE IF field.dirty THEN [field EXCEPT !.prev = t]
    ELSE Fresh(t)

\* After every render: a card that appears is new, one that stays reconciles
\* its field, and drafts restart with every role object that arrives.
Render(from, arrived) ==
    CASE Shown' /\ ~Shown ->
           card' = card + 1 /\ field' = Fresh(view'.core) /\ noteDraft' = view'.note
      [] Shown' /\ Shown ->
           /\ field' = IF arrived THEN Reconciled(view'.core) ELSE from
           /\ noteDraft' = IF arrived THEN view'.note ELSE noteDraft
           /\ UNCHANGED card
      [] OTHER -> UNCHANGED <<card, field, noteDraft>>

\* Mutant: the page gives up on a failed first load without a retry.
RetryNever ==
    retry' = IF retry = "armed" /\ loading' THEN "cancelled" ELSE retry

\* The effect of the page arms the retry once per visit, and is cleaned up by
\* any change of the state it depends on.
RetryAfter ==
    retry' = CASE retry = "unused" /\ failed' /\ ~loading' -> "armed"
               [] retry = "armed" /\ loading' -> "cancelled"
               [] OTHER -> retry

-----------------------------------------------------------------------------
OpenPage ==
    /\ visits < MaxPages
    /\ visits' = visits + 1
    /\ Mount
    /\ retry' = "unused"
    /\ Render(field, FALSE)
    /\ UNCHANGED <<server, typed, sent, saves>>

LeavePage ==
    /\ Unmount
    /\ UNCHANGED <<server, retry, visits, card, field, noteDraft, typed, sent, saves>>

\* The retry timer: one more load, after which every load shows the skeleton.
RetryFires ==
    /\ open /\ retry = "armed"
    /\ retry' = "fired"
    /\ Reload
    /\ UNCHANGED <<server, open, view, failed, cache, visits, card, field, noteDraft, typed, sent, saves>>

RoleAnswered(n) == Answer(n) /\ UNCHANGED <<server, retry, visits, card, field, noteDraft, typed, sent, saves>>

RoleArrives(n) ==
    /\ Deliver(n)
    /\ RetryAfter
    /\ Render(field, open /\ Applied(n))
    /\ UNCHANGED <<server, visits, typed, sent, saves>>

RoleFails(n) ==
    /\ Fail(n)
    /\ RetryAfter
    /\ Render(field, FALSE)
    /\ UNCHANGED <<server, visits, typed, sent, saves>>

-----------------------------------------------------------------------------
SendPut(part, t) ==
    /\ sent < MaxSaves
    /\ sent' = sent + 1
    /\ saves' = [saves EXCEPT ![sent + 1] =
                    [st |-> "sent", part |-> part, text |-> t, card |-> card]]

NewValue == typed < MaxTyped /\ typed' = typed + 1

\* setValue: a keystroke in the round's name.
Type ==
    /\ Shown /\ NewValue
    /\ field' = [field EXCEPT !.value = typed + 1, !.dirty = TRUE]
    /\ UNCHANGED <<server, listVars, retry, visits, card, noteDraft, sent, saves>>

\* commit(): the blur of a field that was typed in.
Commit ==
    /\ Shown /\ field.dirty
    /\ SendPut("core", field.value)
    /\ field' = [field EXCEPT !.status = "saving"]
    /\ UNCHANGED <<server, listVars, retry, visits, card, noteDraft, typed>>

\* commit(value): the round's type is chosen from its list.
Choose ==
    /\ Shown /\ NewValue
    /\ SendPut("core", typed + 1)
    /\ field' = [field EXCEPT !.value = typed + 1, !.dirty = TRUE, !.status = "saving"]
    /\ UNCHANGED <<server, listVars, retry, visits, card, noteDraft>>

\* setDraftField, and flushIfChanged on blur.
TypeNote ==
    /\ Shown /\ NewValue
    /\ noteDraft' = typed + 1
    /\ UNCHANGED <<server, listVars, retry, visits, card, field, sent, saves>>

FlushNote ==
    /\ Shown /\ noteDraft # view.note
    /\ SendPut("note", noteDraft)
    /\ UNCHANGED <<server, listVars, retry, visits, card, field, noteDraft, typed>>

\* The backend stores the PUTs in the order they were sent, each with its
\* columns only.
Turn(n) == saves[n].st = "sent" /\ \A k \in Save : k < n => saves[k].st # "sent"

Store(n) ==
    /\ Turn(n)
    /\ server' = [server EXCEPT ![saves[n].part] = saves[n].text]
    /\ saves' = [saves EXCEPT ![n].st = "stored"]
    /\ UNCHANGED <<listVars, retry, visits, card, field, noteDraft, typed, sent>>

\* The PUT's promise settles in the field that sent it, if it is still there.
Settled(n, f) ==
    IF Shown /\ saves[n].part = "core" /\ saves[n].card = card THEN f ELSE field

\* Mutant: a save that succeeds clears dirty whatever was typed meanwhile.
SavedClean(n) == [field EXCEPT !.status = "saved", !.dirty = FALSE]

Saved(n) == [field EXCEPT !.status = "saved", !.dirty = @ /\ field.value # saves[n].text]

Unsaved == [field EXCEPT !.status = "error", !.dirty = TRUE]

\* The success of a PUT is announced, which reloads the role.
SaveSucceeds(n) ==
    /\ saves[n].st = "stored"
    /\ saves' = [saves EXCEPT ![n].st = "over"]
    /\ Emitted
    /\ RetryAfter
    /\ Render(Settled(n, Saved(n)), FALSE)
    /\ UNCHANGED <<server, visits, typed, sent>>

\* It is refused, or stored and its answer lost: the field keeps the edit.
SaveFails(n) ==
    /\ saves[n].st = "stored" \/ Turn(n)
    /\ saves' = [saves EXCEPT ![n].st = IF saves[n].st = "stored" THEN "lost" ELSE "over"]
    /\ UNCHANGED <<server, listVars, retry, visits, typed, sent>>
    /\ Render(Settled(n, Unsaved), FALSE)

-----------------------------------------------------------------------------
PlanLoads(n) == RoleAnswered(n) \/ RoleArrives(n) \/ RoleFails(n)
PlanSaves(n) == Store(n) \/ SaveSucceeds(n) \/ SaveFails(n)

PlanNext ==
    \/ OpenPage \/ LeavePage \/ RetryFires
    \/ Type \/ Commit \/ Choose \/ TypeNote \/ FlushNote
    \/ \E n \in Load : PlanLoads(n)
    \/ \E n \in Save : PlanSaves(n)

PlanProgress ==
    \/ RetryFires
    \/ \E n \in Load : PlanLoads(n)
    \/ \E n \in Save : PlanSaves(n)

\* Requests end and timers fire, in some order (there are finitely many);
\* nobody has to type or to leave.
PlanFairness == WF_planVars(PlanProgress)

PlanSpec == PlanInit /\ [][PlanNext]_planVars /\ PlanFairness

-----------------------------------------------------------------------------
(***************************************************************************)
(* Properties.                                                             *)
(***************************************************************************)
LoadSt == {"none", "sent", "answered", "over", "failed"}
SaveSt == {"none", "sent", "stored", "over", "lost"}

\* Type correctness of the page, its loads and its saves.
PlanTypeOK ==
    /\ server \in RoleTexts
    /\ view \in RoleTexts \cup {NoData} /\ cache \in RoleTexts \cup {NoData}
    /\ {open, failed, loading} \subseteq BOOLEAN
    /\ issued \in 0..MaxLoads /\ current \in 0..issued
    /\ loads \in [Load -> [st : LoadSt, data : RoleTexts \cup {NoData}]]
    /\ retry \in {"unused", "armed", "cancelled", "fired"}
    /\ visits \in 0..MaxPages /\ card \in Nat
    /\ field \in [value : Typable, dirty : BOOLEAN, prev : Typable,
                  status : {"idle", "saving", "saved", "error"}]
    /\ noteDraft \in Typable /\ typed \in Typable /\ sent \in 0..MaxSaves
    /\ saves \in [Save -> [st : SaveSt, part : Parts, text : Typable, card : Nat]]

\* Nothing is on its way, and the page's last load was answered.
Settling == \/ \E n \in Load : loads[n].st \in {"sent", "answered"}
            \/ \E n \in Save : saves[n].st \in {"sent", "stored"}

UpToDate ==
    /\ Shown /\ ~Settling
    /\ loads[current].st # "failed"
    /\ \A n \in Save : saves[n].st # "lost"

\* What a page shows when all requests have ended is what the backend stores,
\* whatever the order in which saves, events and loads came (the event of a
\* save comes after the row is written, and the last load wins).
QuietViewIsStored == UpToDate => view = server

\* The text in the round's name is then the stored one, or the field is dirty
\* and offers it again: no save that failed and no reload in between makes a
\* typed text vanish unnoticed.
EditKeptOrFlagged == UpToDate => field.value = server.core \/ field.dirty

\* Text being typed is changed by typing only: an event that reloads the role
\* under a dirty field leaves its value alone.
TypingKept ==
    [][Shown /\ Shown' /\ card' = card /\ field.dirty /\ typed' = typed =>
          field'.value = field.value]_planVars

\* The page does not show its skeleton for ever, unless an event cancelled its
\* one retry.
PageSettles == open /\ Skeleton ~> ~(open /\ Skeleton) \/ retry = "cancelled"
=============================================================================
