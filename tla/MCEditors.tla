----------------------------- MODULE MCEditors ------------------------------
(* The parts of the web clients that are checked for safety, one behaviour *)
(* each: the one in focus runs, the others stay as they start.             *)
EXTENDS MCPlans, AdminPlan, IntakeCanvas, PlanEditing, DebriefChat

VARIABLE focus

editorVars == <<publishVars, adminVars, canvasVars, planVars, debriefVars, focus>>

\* A text or two in the draft are enough where publishing is in focus.
FreshWhenPublishing == FirstFree + 1

\* Updates of the intake session's row: enough for a submit, the end of its job,
\* a second submit and its end.
UpdatesOfSession == 5

EditorsInit ==
    /\ PublishInit /\ AdminInit /\ CanvasInit /\ PlanInit /\ DebriefInit
    /\ focus \in {"admin", "canvas", "draft", "publish", "plan", "debrief"}
    /\ focus # "draft" => backing = Narrow

EditorsNext ==
    /\ \/ /\ focus = "admin" /\ AdminNext
          /\ UNCHANGED <<publishVars, canvasVars, planVars, debriefVars>>
       \/ /\ focus = "canvas" /\ CanvasNext /\ row'.ver <= UpdatesOfSession
          /\ UNCHANGED <<publishVars, adminVars, planVars, debriefVars>>
       \/ /\ focus = "draft" /\ DraftNext
          /\ UNCHANGED <<sessionVars, pageVars, publishes, tornRounds>>
          /\ UNCHANGED <<adminVars, canvasVars, planVars, debriefVars>>
       \/ /\ focus = "publish" /\ PublishNext /\ fresh' <= FreshWhenPublishing
          /\ UNCHANGED <<adminVars, canvasVars, planVars, debriefVars>>
       \/ /\ focus = "plan" /\ PlanNext
          /\ UNCHANGED <<publishVars, adminVars, canvasVars, debriefVars>>
       \/ /\ focus = "debrief" /\ DebriefNext
          /\ UNCHANGED <<publishVars, adminVars, canvasVars, planVars>>
    /\ UNCHANGED focus

EditorsSpec == EditorsInit /\ [][EditorsNext]_editorVars

\* Type correctness of the five pages and their backends.
EditorsTypeOK ==
    DraftTypeOK /\ PublishTypeOK /\ AdminTypeOK /\ CanvasTypeOK /\ PlanTypeOK /\ DebriefTypeOK
=============================================================================
