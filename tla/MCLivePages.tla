---------------------------- MODULE MCLivePages -----------------------------
(* The pages of the recruiter app that are checked for liveness, one       *)
(* behaviour each: the one in focus runs, the others stay as they start.   *)
EXTENDS PlanEditing, IntakeCanvas, DebriefChat

VARIABLE focus

pageStates == <<planVars, canvasVars, debriefVars, focus>>

PagesInit == PlanInit /\ CanvasInit /\ DebriefInit /\ focus \in {"plan", "canvas", "debrief"}

PagesNext ==
    /\ \/ focus = "plan" /\ PlanNext /\ UNCHANGED <<canvasVars, debriefVars>>
       \/ focus = "canvas" /\ CanvasNext /\ UNCHANGED <<planVars, debriefVars>>
       \/ focus = "debrief" /\ DebriefNext /\ UNCHANGED <<planVars, canvasVars>>
    /\ UNCHANGED focus

OnPlan(A)   == focus = "plan" /\ A
OnCanvas(A) == focus = "canvas" /\ A
OnDebrief(A) == focus = "debrief" /\ A

\* The fairness of the page in focus: PlanFairness, CanvasFairness and
\* DebriefFairness.
PagesFairness ==
    /\ WF_planVars(OnPlan(PlanProgress))
    /\ WF_canvasVars(OnCanvas(Poll)) /\ WF_canvasVars(OnCanvas(Pushed))
    /\ WF_canvasVars(OnCanvas(ChannelError))
    /\ SF_canvasVars(OnCanvas(LatestRead)) /\ SF_canvasVars(OnCanvas(LatestArrives))
    /\ WF_canvasVars(OnCanvas(PendingExpires)) /\ WF_canvasVars(OnCanvas(WorkerEnds))
    /\ WF_canvasVars(OnCanvas(\E p \in Posts : PostSteps(p)))
    /\ WF_debriefVars(OnDebrief(Comparing))

PagesSpec == PagesInit /\ [][PagesNext]_pageStates /\ PagesFairness
=============================================================================
