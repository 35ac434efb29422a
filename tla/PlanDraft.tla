----------------------------- MODULE PlanDraft ------------------------------
(***************************************************************************)
(* The intake plan editor of the recruiter app (useInterviewPlanEditor and *)
(* InterviewPlanEditor): a working copy of the plan the session delivered, *)
(* edited in place.  Every edit pushes an inverse that is computed from    *)
(* the plan after the edit; undo applies the last one.  The screening      *)
(* panel asks the backend for questions and for a persona, and an answer   *)
(* is laid over the screening as it was when it was asked for.             *)
(***************************************************************************)
EXTENDS Naturals, Sequences, SequencesExt

CONSTANTS
    Plans,            \* the plans a session may deliver
    FirstFree,        \* no id or text in Plans is that high
    MaxFresh,         \* bound on the texts typed and drafted, from FirstFree
    MaxItems,         \* bound on the guidelines and on the questions of a round
    NoScreening       \* round.screening = undefined

VARIABLES
    backing,          \* the plan delivered last (initialPlan)
    draft,            \* the working copy
    inverses,         \* undoStack
    fresh,            \* the next id or text
    asks              \* asks[a]: a question to the backend by the panel

draftVars == <<backing, draft, inverses, fresh, asks>>

Asked  == {"questions", "persona"}       \* handleGenerate, handleDerive
NoAsk  == [st |-> "none"]
Empty  == 0                              \* an empty text, a duration of 0

Numbered(p) == \A k \in DOMAIN p : p[k].num = k
IdsIn(p)    == {p[k].id : k \in DOMAIN p}
Key(p)      == [k \in DOMAIN p |-> p[k].id]

\* normalizePlan numbers the rounds and gives every question an id of its own.
Normalized(p) ==
    /\ Numbered(p)
    /\ \A k \in DOMAIN p :
          /\ \A j \in DOMAIN p : p[k].id = p[j].id => k = j
          /\ \A i, j \in DOMAIN p[k].questions :
                /\ p[k].questions[i].id < FirstFree
                /\ p[k].questions[i].id = p[k].questions[j].id => i = j

Text     == 0..MaxFresh
Ids      == UNION {IdsIn(p) : p \in Plans}
Question == [id : Text, text : Text]
Screen   == [on : BOOLEAN, questions : Text, persona : Text, snapshot : Text]
Round    == [id : Ids, num : Nat \ {0}, name : Text, dur : Text, guides : Seq(Text),
             questions : Seq(Question), screening : Screen \cup {NoScreening}]

\* A delivered plan names only what is there already.
ASSUME DraftAssumption ==
    /\ {FirstFree, MaxFresh, MaxItems} \subseteq Nat /\ FirstFree <= MaxFresh
    /\ Plans \subseteq Seq(Round)
    /\ \A p \in Plans : Normalized(p)

DraftInit ==
    /\ backing \in Plans /\ draft = backing
    /\ inverses = <<>>
    /\ fresh = FirstFree
    /\ asks = [a \in Asked |-> NoAsk]

-----------------------------------------------------------------------------
(* The plan after an edit, and its inverse.                                *)

\* Mutant: the rounds keep the numbers they had.
RenumberedNot(p) == p

Renumbered(p) == [k \in DOMAIN p |-> [p[k] EXCEPT !.num = k]]

\* The first question with that id goes (filter: ids are unique).
WithoutQuestion(qs, q) ==
    LET at == CHOOSE j \in DOMAIN qs : qs[j].id = q
    IN  IF \E j \in DOMAIN qs : qs[j].id = q THEN RemoveAt(qs, at) ELSE qs

\* Mutant: what was removed comes back at the end.
InvertedAtEnd(e) ==
    CASE e.kind = "round"    -> [e.next EXCEPT ![e.at] = e.was]
      [] e.kind = "removed"  -> Renumbered(Append(e.next, e.was))
      [] e.kind = "moved"    -> Renumbered(e.was)
      [] e.kind = "guide+"   -> [e.next EXCEPT ![e.at].guides = Front(@)]
      [] e.kind = "guide"    -> [e.next EXCEPT ![e.at].guides[e.pos] = e.was]
      [] e.kind = "guide-"   -> [e.next EXCEPT ![e.at].guides = InsertAt(@, e.pos, e.was)]
      [] e.kind = "question+" -> [e.next EXCEPT ![e.at].questions = WithoutQuestion(@, e.was)]
      [] e.kind = "question"  -> [e.next EXCEPT ![e.at].questions[e.pos] = e.was]
      [] e.kind = "question-" -> [e.next EXCEPT ![e.at].questions = InsertAt(@, e.pos, e.was)]
      [] e.kind = "screening" -> [e.next EXCEPT ![e.at].screening = e.was]

\* What the inverse of an edit makes of the plan after that edit.
Inverted(e) ==
    CASE e.kind = "round"    -> [e.next EXCEPT ![e.at] = e.was]
      [] e.kind = "removed"  -> Renumbered(InsertAt(e.next, e.at, e.was))
      [] e.kind = "moved"    -> Renumbered(e.was)
      [] e.kind = "guide+"   -> [e.next EXCEPT ![e.at].guides = Front(@)]
      [] e.kind = "guide"    -> [e.next EXCEPT ![e.at].guides[e.pos] = e.was]
      [] e.kind = "guide-"   -> [e.next EXCEPT ![e.at].guides = InsertAt(@, e.pos, e.was)]
      [] e.kind = "question+" -> [e.next EXCEPT ![e.at].questions = WithoutQuestion(@, e.was)]
      [] e.kind = "question"  -> [e.next EXCEPT ![e.at].questions[e.pos] = e.was]
      [] e.kind = "question-" -> [e.next EXCEPT ![e.at].questions = InsertAt(@, e.pos, e.was)]
      [] e.kind = "screening" -> [e.next EXCEPT ![e.at].screening = e.was]

\* An edit of kind e turns the draft into next, and can be undone.
Edit(kind, next, at, pos, was) ==
    /\ draft' = next
    /\ inverses' = Append(inverses,
                      [kind |-> kind, next |-> next, at |-> at, pos |-> pos, was |-> was])

FreshText == fresh < MaxFresh /\ fresh' = fresh + 1
Aside   == UNCHANGED <<backing, asks>>

-----------------------------------------------------------------------------
(* The edits.                                                              *)

\* updateRound: its name or its duration, which may be left empty or 0.
UpdateRound(k, field) ==
    /\ FreshText
    /\ \E t \in {fresh, Empty} :
          \/ /\ field = "name" /\ t # draft[k].name
             /\ Edit("round", [draft EXCEPT ![k].name = t], k, 0, draft[k])
          \/ /\ field = "dur"
             /\ Edit("round", [draft EXCEPT ![k].dur = t], k, 0, draft[k])
    /\ Aside

RemoveRound(k) ==
    /\ FreshText
    /\ Edit("removed", Renumbered(RemoveAt(draft, k)), k, 0, draft[k])
    /\ Aside

ReorderRounds(from, to) ==
    /\ from # to
    /\ FreshText
    /\ Edit("moved", Renumbered(InsertAt(RemoveAt(draft, from), to, draft[from])), from, to, draft)
    /\ Aside

AddGuideline(k) ==
    /\ Len(draft[k].guides) < MaxItems
    /\ FreshText
    /\ Edit("guide+", [draft EXCEPT ![k].guides = Append(@, fresh)], k, 0, 0)
    /\ Aside

UpdateGuideline(k, i) ==
    /\ FreshText
    /\ Edit("guide", [draft EXCEPT ![k].guides[i] = fresh], k, i, draft[k].guides[i])
    /\ Aside

RemoveGuideline(k, i) ==
    /\ FreshText
    /\ Edit("guide-", [draft EXCEPT ![k].guides = RemoveAt(@, i)], k, i, draft[k].guides[i])
    /\ Aside

AddQuestion(k) ==
    /\ Len(draft[k].questions) < MaxItems
    /\ FreshText
    /\ Edit("question+",
            [draft EXCEPT ![k].questions = Append(@, [id |-> fresh, text |-> fresh])],
            k, 0, fresh)
    /\ Aside

UpdateQuestion(k, i) ==
    /\ FreshText
    /\ \E t \in {fresh, Empty} \ {draft[k].questions[i].text} :
          Edit("question", [draft EXCEPT ![k].questions[i].text = t], k, i, draft[k].questions[i])
    /\ Aside

RemoveQuestion(k, i) ==
    /\ FreshText
    /\ Edit("question-", [draft EXCEPT ![k].questions = WithoutQuestion(@, draft[k].questions[i].id)],
            k, i, draft[k].questions[i])
    /\ Aside

Prior(k) == draft[k].screening

\* setRoundScreening does nothing when the round is gone.
SetScreening(id, s) ==
    IF id \in IdsIn(draft)
    THEN LET k == CHOOSE k \in DOMAIN draft : draft[k].id = id
         IN  Edit("screening", [draft EXCEPT ![k].screening = s], k, 0, Prior(k))
    ELSE UNCHANGED <<draft, inverses>>

\* patch: the screening a change is laid over.  The snapshot is the persona under
\* the name it is published with, which the panel does not read.
NewScreening == [on |-> FALSE, questions |-> Empty, persona |-> Empty, snapshot |-> Empty]
Base(s)      == IF s = NoScreening THEN NewScreening ELSE s

ToggleScreening(k) ==
    /\ FreshText
    /\ SetScreening(draft[k].id, [Base(draft[k].screening) EXCEPT !.on = ~@])
    /\ Aside

\* Generate and Derive keep the screening they were asked over.
Ask(a, k) ==
    /\ asks[a] = NoAsk
    /\ asks' = [asks EXCEPT ![a] = [st |-> "asked", round |-> draft[k].id,
                                    over |-> Base(draft[k].screening)]]
    /\ UNCHANGED <<backing, draft, inverses, fresh>>

AskAnswered(a) ==
    /\ asks[a] # NoAsk
    /\ FreshText
    /\ SetScreening(asks[a].round, [asks[a].over EXCEPT ![a] = fresh])
    /\ asks' = [asks EXCEPT ![a] = NoAsk]
    /\ UNCHANGED backing

AskFails(a) ==
    /\ asks[a] # NoAsk
    /\ asks' = [asks EXCEPT ![a] = NoAsk]
    /\ UNCHANGED <<backing, draft, inverses, fresh>>

-----------------------------------------------------------------------------
Undo ==
    /\ inverses # <<>>
    /\ draft' = Inverted(Last(inverses))
    /\ inverses' = Front(inverses)
    /\ UNCHANGED <<backing, fresh, asks>>

\* Mutant: reset keeps the inverses of the plan before.
KeptByResetAll == inverses

KeptByReset == <<>>

\* A refetch delivers the session's plan: the effect resets the editor when the
\* ids of its rounds are others, and leaves the edits alone when they are not.
DeliverPlan(p) ==
    /\ backing' = p
    /\ IF Key(p) # Key(backing)
       THEN draft' = p /\ inverses' = KeptByReset
       ELSE UNCHANGED <<draft, inverses>>
    /\ UNCHANGED <<fresh, asks>>

Edits ==
    \E k \in DOMAIN draft :
       \/ UpdateRound(k, "name") \/ UpdateRound(k, "dur") \/ RemoveRound(k)
       \/ \E to \in DOMAIN draft : ReorderRounds(k, to)
       \/ AddGuideline(k) \/ AddQuestion(k) \/ ToggleScreening(k)
       \/ \E i \in DOMAIN draft[k].guides : UpdateGuideline(k, i) \/ RemoveGuideline(k, i)
       \/ \E i \in DOMAIN draft[k].questions : UpdateQuestion(k, i) \/ RemoveQuestion(k, i)
       \/ \E a \in Asked : Ask(a, k)

DraftNext ==
    \/ Edits \/ Undo
    \/ \E a \in Asked : AskAnswered(a) \/ AskFails(a)
    \/ \E p \in Plans : DeliverPlan(p)

DraftSpec == DraftInit /\ [][DraftNext]_draftVars

-----------------------------------------------------------------------------
(* Properties.                                                             *)

\* Type correctness of the draft, of what undo gives back, and of the answers
\* the panel waits for.
DraftTypeOK ==
    /\ backing \in Seq(Round) /\ draft \in Seq(Round)
    /\ \A n \in DOMAIN inverses : Inverted(inverses[n]) \in Seq(Round)
    /\ fresh \in FirstFree..MaxFresh
    /\ \A a \in Asked :
          asks[a] # NoAsk => asks[a].round \in Ids /\ asks[a].over \in Screen

\* The editor keeps the promise of an editor with undo: each inverse, though
\* computed from the plan after its edit, gives back the plan before it, and
\* none survives a reset.
History == INSTANCE EditHistory WITH
              origin <- backing,
              doc    <- draft,
              past   <- [n \in DOMAIN inverses |-> Inverted(inverses[n])]

DraftHistory == History!HistorySpec

\* The rounds are numbered in order after any mix of edits, undos and resets.
DraftNumbered == Numbered(draft)

\* The rounds of the draft are rounds of the plan the session delivered last:
\* neither an undo nor an answer that was asked for before a reset brings one
\* of another plan back.
DraftOfSession == IdsIn(draft) \subseteq IdsIn(backing)
=============================================================================
