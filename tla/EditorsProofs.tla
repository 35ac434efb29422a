--------------------------- MODULE EditorsProofs ----------------------------
(* Proofs about MCEditors: the pages of the clients in one specification,   *)
(* whichever is in focus, for every value of the constants.  The admin's    *)
(* plan editor runs one handler at a time.                                  *)
EXTENDS MCEditors, LivePagesProofs, DebriefChatProofs, AdminPlanProofs, PlanDraftProofs, TLAPS

\* The debrief page keeps its types, sends an action once, and shows the packet
\* of the chat.
ChatInv == TypeInv /\ OnceInv /\ ShownInv

\* The pages' own invariants; the editor's page is open while only it runs.
EditorsInv ==
    /\ PublishInv /\ (focus = "draft" => editing)
    /\ AdminInv /\ CanvasInv /\ PlanInv /\ ChatInv

LEMMA ChatStep ==
  ASSUME ChatInv, [DebriefNext]_debriefVars
  PROVE  ChatInv'
  BY TypeStep, OnceStep, ShownStep DEF ChatInv

LEMMA EditorsFirst ==
  ASSUME MaxInFlight = 1, EditorsInit
  PROVE  EditorsInv
  <1>1. PublishInv /\ editing
    BY PublishInitInv DEF EditorsInit, PublishInit
  <1>2. AdminInv /\ CanvasInv /\ PlanInv
    BY InvFirst, CanvasInitInv, PlanInitInv DEF EditorsInit
  <1>3. ChatInv
    BY OnceInit, ShownFresh DEF EditorsInit, DebriefInit, ChatInv
  <1> QED BY <1>1, <1>2, <1>3 DEF EditorsInv

\* A step of the whole is a step of each page, or leaves that page alone.
LEMMA EachPage ==
  ASSUME [EditorsNext]_editorVars
  PROVE  /\ [AdminNext]_adminVars /\ [CanvasNext]_canvasVars /\ [PlanNext]_planVars
         /\ [DebriefNext]_debriefVars /\ focus' = focus
         /\ \/ [PublishNext]_publishVars
            \/ /\ focus = "draft" /\ DraftNext
               /\ UNCHANGED <<sessionVars, pageVars, publishes, tornRounds>>
         /\ focus = "draft" => editing' = editing
  BY DEF EditorsNext, editorVars, publishVars, pageVars

LEMMA EditorsStep ==
  ASSUME MaxInFlight = 1, EditorsInv, [EditorsNext]_editorVars
  PROVE  EditorsInv'
  <1>1. AdminInv' /\ CanvasInv' /\ ChatInv' /\ focus' = focus
    BY EachPage, AdminStep, CanvasNextInv, ChatStep DEF EditorsInv
  <1>2. PlanInv'
    BY EachPage, PlanStep, PlanStutter DEF EditorsInv
  <1>3. PublishInv' /\ (focus = "draft" => editing')
    <2>1. CASE focus = "draft" /\ DraftNext /\ UNCHANGED <<sessionVars, pageVars, publishes, tornRounds>>
      <3>1. editing /\ editing' = editing /\ DraftInv
        BY <2>1 DEF EditorsInv, PublishInv, pageVars
      <3>2. \A p \in Plans : Sound(p, fresh)
        BY <3>1, PlansSound
      <3>3. \/ Edits \/ Undo
            \/ \E a \in Asked : AskAnswered(a) \/ AskFails(a)
            \/ \E p : Sound(p, fresh) /\ DeliverPlan(p)
        BY <2>1, <3>2 DEF DraftNext
      <3> QED BY <2>1, <3>1, <3>3, EditorInv DEF EditorsInv
    <2>2. CASE [PublishNext]_publishVars
      <3>1. PublishInv'
        BY <2>2, PublishStep DEF EditorsInv
      <3>2. focus = "draft" => editing' = editing
        BY EachPage
      <3> QED BY <3>1, <3>2 DEF EditorsInv
    <2> QED BY <2>1, <2>2, EachPage
  <1> QED BY <1>1, <1>2, <1>3 DEF EditorsInv

-----------------------------------------------------------------------------
(* What the pages promise, together.                                        *)

\* The pages' inductive invariants hold side by side.
THEOREM EditorsInvariance ==
  ASSUME MaxInFlight = 1
  PROVE  EditorsSpec => []EditorsInv
  <1>1. EditorsInit => EditorsInv
    BY EditorsFirst
  <1>2. EditorsInv /\ [EditorsNext]_editorVars => EditorsInv'
    BY EditorsStep
  <1> QED BY <1>1, <1>2, PTL DEF EditorsSpec

\* The five pages and their backends keep their types.
THEOREM EditorsTypes ==
  ASSUME MaxInFlight = 1
  PROVE  EditorsSpec => []EditorsTypeOK
  <1>1. EditorsInv => EditorsTypeOK
    <2> SUFFICES ASSUME EditorsInv PROVE EditorsTypeOK
      OBVIOUS
    <2>1. DraftTypeOK /\ PublishTypeOK
      BY DraftInvTypes, PublishInvTypes DEF EditorsInv, PublishInv
    <2>2. AdminTypeOK
      BY AdminInvTypes DEF EditorsInv
    <2>3. CanvasTypeOK /\ PlanTypeOK /\ DebriefTypeOK
      BY DEF EditorsInv, CanvasInv, PlanInv, ChatInv, TypeInv
    <2> QED BY <2>1, <2>2, <2>3 DEF EditorsTypeOK
  <1> QED BY <1>1, EditorsInvariance, PTL

\* What no page may ever show, store or send, whichever is in focus: a
\* draft out of order or of another session, rounds that are not those of the
\* plan, a list that disagrees with the backend's, two workers on one session,
\* a run nobody asked for, a stale plan, a lost edit, an action sent twice, or
\* the packet of another comparison.
THEOREM EditorsPromises ==
  ASSUME MaxInFlight = 1
  PROVE  EditorsSpec => [](/\ DraftNumbered /\ DraftOfSession /\ RoundsAreOfPlan
                           /\ QuietListsAgree /\ OneWorkerAtATime /\ RunsAreAskedFor
                           /\ QuietViewIsStored /\ EditKeptOrFlagged
                           /\ ExecutedOnce /\ ShowsActivePacket)
  <1>1. EditorsInv => /\ DraftNumbered /\ DraftOfSession /\ RoundsAreOfPlan
                      /\ QuietListsAgree /\ OneWorkerAtATime /\ RunsAreAskedFor
                      /\ QuietViewIsStored /\ EditKeptOrFlagged
                      /\ ExecutedOnce /\ ShowsActivePacket
    <2> SUFFICES ASSUME EditorsInv
                 PROVE  /\ DraftNumbered /\ DraftOfSession /\ RoundsAreOfPlan
                        /\ QuietListsAgree /\ OneWorkerAtATime /\ RunsAreAskedFor
                        /\ QuietViewIsStored /\ EditKeptOrFlagged
                        /\ ExecutedOnce /\ ShowsActivePacket
      OBVIOUS
    <2>1. /\ PublishInv /\ DraftInv /\ WholeInv /\ AdminInv /\ CanvasInv /\ PlanInv
          /\ OnceInv /\ ShownInv
      BY DEF EditorsInv, PublishInv, ChatInv
    <2>2. DraftNumbered /\ DraftOfSession
      BY <2>1, SoundIsNumbered DEF DraftInv, DraftNumbered, DraftOfSession
    <2>3. RoundsAreOfPlan
      BY <2>1 DEF WholeInv, RoundsAreOfPlan
    <2>4. QuietListsAgree
      BY <2>1, AdminInvLists
    <2>5. OneWorkerAtATime
      BY <2>1 DEF CanvasInv, OneSubmitAtATime, OneWorkerAtATime
    <2>6. RunsAreAskedFor
      BY <2>1, AccountTypes DEF CanvasInv, RunsAccounted, RunsAreAskedFor
    <2>7. QuietViewIsStored
      BY <2>1, PlanInvQuiet
    <2>8. EditKeptOrFlagged
      BY <2>1, <2>7 DEF PlanInv, FieldInv, EditKeptOrFlagged, QuietViewIsStored, UpToDate
    <2>9. ExecutedOnce /\ ShowsActivePacket
      BY <2>1 DEF OnceInv, ShownInv
    <2> QED BY <2>2, <2>3, <2>4, <2>5, <2>6, <2>7, <2>8, <2>9
  <1> QED BY <1>1, EditorsInvariance, PTL

\* What no step of the whole may do: store a content in another round than the
\* one it was written for, move the selection to another round, show an older
\* session, or change a text under the typing.
THEOREM EditorsSteps ==
  ASSUME MaxInFlight = 1
  PROVE  EditorsSpec => SaveAllKeepsRounds /\ SelectionFollows /\ ShownNeverOlder /\ TypingKept
  <1> DEFINE Later == [shown # NoRow => shown'.ver >= shown.ver]_canvasVars
             Same == [Shown /\ Shown' /\ card' = card /\ field.dirty /\ typed' = typed =>
                        field'.value = field.value]_planVars
  <1>1. EditorsInv /\ [EditorsNext]_editorVars => [Kept]_adminVars /\ [Follows]_adminVars
    BY EachPage, SaveAllStep, SelectionStep DEF EditorsInv
  <1>2. EditorsInv /\ [EditorsNext]_editorVars => Later
    BY EachPage, CanvasShowsLater DEF EditorsInv
  <1>3. EditorsInv /\ [EditorsNext]_editorVars => Same
    BY EachPage, TypingStep DEF EditorsInv
  <1> QED
    BY <1>1, <1>2, <1>3, EditorsInvariance, PTL
       DEF EditorsSpec, SaveAllKeepsRounds, Kept, SelectionFollows, Follows, ShownNeverOlder,
           TypingKept

\* In focus or published, the intake plan's editor keeps the promise of an
\* editor with undo.
THEOREM EditorsKeepHistory ==
  ASSUME MaxInFlight = 1
  PROVE  EditorsSpec => DraftHistory
  <1>1. EditorsInit => History!Begins
    BY HistoryInit DEF EditorsInit, PublishInit
  <1>2. EditorsInv /\ [EditorsNext]_editorVars
           => [History!Edits \/ History!Undoes \/ History!Replaces]_<<draft, Past>>
    BY EachPage, HistoryStep, PublishHistoryStep DEF EditorsInv, PublishInv
  <1> QED
    BY <1>1, <1>2, EditorsInvariance, PTL DEF EditorsSpec, DraftHistory, History!HistorySpec, Past
=============================================================================
