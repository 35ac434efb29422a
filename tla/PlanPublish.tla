---------------------------- MODULE PlanPublish -----------------------------
(***************************************************************************)
(* Publishing the plan of an intake session: the page sends its draft      *)
(* (PlanDraft), and the backend validates it, deletes the rounds of the    *)
(* requisition and inserts those of the plan one write at a time, then     *)
(* marks the requisition planned and the session published.  The request   *)
(* may be answered, break on its way or die with the backend; a published  *)
(* plan can be opened and published again.                                 *)
(***************************************************************************)
EXTENDS PlanDraft

CONSTANTS
    MaxPlanRounds,        \* no plan has more rounds
    MaxPosts          \* bound on the publishes sent

ASSUME PublishAssumption ==
    /\ {MaxPlanRounds, MaxPosts} \subseteq Nat
    /\ \A p \in Plans : Len(p) <= MaxPlanRounds

VARIABLES
    status,           \* intake_sessions.status
    stored,           \* intake_sessions.interview_plan
    planned,          \* requisitions.status is planned
    roundRows,        \* roundRows[n]: the round numbered n, or NoRound
    booked,           \* numbers of the rounds that have candidate rounds
    editing,          \* the page shows the editor
    sentPosts,        \* publishes sent
    publishes,        \* publishes[n]: the n-th publish
    awaited,          \* the publish isPublishing is about, 0 for none
    tornRounds        \* the last rounds written were not written by one whole publish

sessionVars == <<status, stored, planned, roundRows, booked>>
pageVars    == <<editing, sentPosts, awaited>>
publishVars == <<draftVars, sessionVars, pageVars, publishes, tornRounds>>

Post    == 1..MaxPosts
Number  == 1..MaxPlanRounds
NoRound == [by |-> 0]
NoPost  == [st |-> "none"]

Writing(n) == publishes[n].st \in {"inserting", "filling", "inserted", "marked"}

\* _materialize_screening: of a screening that is on, with its persona.
Materialised(s) ==
    IF s = NoScreening \/ ~s.on THEN NoScreening
    ELSE [questions |-> s.questions, persona |-> s.snapshot]

\* What publishing keeps of a round: everything but its ids.
Content(r) == [name |-> r.name, dur |-> r.dur, guides |-> r.guides,
               questions |-> [j \in DOMAIN r.questions |-> r.questions[j].text],
               screening |-> Materialised(r.screening)]

\* Every round of the plan and no other is there, with its questions.
Holds(t, p) ==
    \A n \in Number :
       IF n \in DOMAIN p THEN t[n].by > 0 /\ t[n].filled /\ t[n].round = Content(p[n])
                         ELSE t[n] = NoRound

\* The worker that made the plan wrote its rounds too.
FirstRows(p) == [n \in Number |->
    IF n \in DOMAIN p THEN [by |-> MaxPosts + 1, filled |-> TRUE, round |-> Content(p[n])]
                      ELSE NoRound]

PublishInit ==
    /\ DraftInit
    /\ status = "submitted" /\ stored = backing /\ planned = FALSE
    /\ roundRows = FirstRows(backing) /\ booked = {}
    /\ editing = TRUE /\ sentPosts = 0 /\ awaited = 0
    /\ publishes = [n \in Post |-> NoPost]
    /\ tornRounds = FALSE

-----------------------------------------------------------------------------
(* The page.                                                               *)

DraftEdits ==
    /\ editing
    /\ \/ Edits \/ Undo
       \/ \E a \in Asked : AskAnswered(a) \/ AskFails(a)
       \/ DeliverPlan(stored)
    /\ UNCHANGED <<sessionVars, pageVars, publishes, tornRounds>>

\* roundScreeningToWire reads the persona by the editor's name for it.
ToWire(s) ==
    IF s = NoScreening THEN s ELSE [s EXCEPT !.snapshot = s.persona, !.persona = Empty]

PlanForPublish(p) == [k \in DOMAIN p |-> [p[k] EXCEPT !.screening = ToWire(@)]]

CanPublish(p) == \A k \in DOMAIN p : p[k].name # Empty /\ p[k].questions # <<>>

ClickPublish ==
    /\ editing /\ awaited = 0 /\ CanPublish(draft)
    /\ sentPosts < MaxPosts
    /\ sentPosts' = sentPosts + 1
    /\ awaited' = sentPosts + 1
    /\ publishes' = [publishes EXCEPT ![sentPosts + 1] =
                    [st |-> "sent", plan |-> PlanForPublish(draft), at |-> 0, alone |-> FALSE,
                     again |-> status = "published" /\ draft = stored,
                     found |-> roundRows, had |-> booked]]
    /\ UNCHANGED <<draftVars, sessionVars, editing, tornRounds>>

\* The editor goes, and with it its working copy.
Leaves ==
    /\ editing' = FALSE
    /\ draft' = stored /\ backing' = stored
    /\ inverses' = <<>> /\ asks' = [a \in Asked |-> NoAsk]
    /\ UNCHANGED fresh

PublishAnswered ==
    /\ awaited # 0 /\ publishes[awaited].st \in {"ok", "refused", "dead"}
    /\ awaited' = 0
    /\ IF publishes[awaited].st = "ok" THEN Leaves ELSE UNCHANGED <<draftVars, editing>>
    /\ UNCHANGED <<sessionVars, sentPosts, publishes, tornRounds>>

\* The request breaks, and the backend goes on.
PublishBreaks ==
    /\ awaited # 0
    /\ awaited' = 0
    /\ UNCHANGED <<draftVars, sessionVars, editing, sentPosts, publishes, tornRounds>>

\* "Edit existing" opens the editor on a published session.
Reopen ==
    /\ ~editing /\ status = "published"
    /\ editing' = TRUE
    /\ draft' = stored /\ backing' = stored
    /\ UNCHANGED <<inverses, fresh, asks, sessionVars, sentPosts, awaited, publishes, tornRounds>>

-----------------------------------------------------------------------------
(* IntakePublishService.publish.                                           *)

PostMoves(n, st) == publishes' = [publishes EXCEPT ![n].st = st]

\* _validate_plan.
Accepted(p) ==
    /\ p # <<>>
    /\ \A k \in DOMAIN p :
          /\ p[k].name # Empty /\ p[k].questions # <<>>
          /\ \A j \in DOMAIN p[k].questions : p[k].questions[j].text # Empty

Validate(n) ==
    /\ publishes[n].st = "sent"
    /\ PostMoves(n, IF Accepted(publishes[n].plan) THEN "valid" ELSE "refused")
    /\ UNCHANGED <<draftVars, sessionVars, pageVars, tornRounds>>

\* The candidate rounds go with their rounds (ON DELETE CASCADE).
StillBooked == {}

DeleteRounds(n) ==
    /\ publishes[n].st = "valid"
    /\ roundRows' = [k \in Number |-> NoRound]
    /\ booked' = StillBooked
    /\ publishes' = [k \in Post |->
          IF k = n THEN [publishes[n] EXCEPT !.st = "inserting", !.found = roundRows, !.had = booked,
                                         !.again = @ /\ ~tornRounds,
                                         !.alone = \A j \in Post : ~Writing(j)]
          ELSE IF Writing(k) THEN [publishes[k] EXCEPT !.alone = FALSE] ELSE publishes[k]]
    /\ tornRounds' = TRUE
    /\ UNCHANGED <<draftVars, status, stored, planned, pageVars>>

\* The table takes one active round per number, and no duration of 0.
Storable(n, k) == roundRows[k] = NoRound /\ publishes[n].plan[k].dur # Empty

InsertRound(n) ==
    LET k == publishes[n].at + 1 IN
    /\ publishes[n].st = "inserting" /\ k <= Len(publishes[n].plan)
    /\ IF Storable(n, k)
       THEN /\ roundRows' = [roundRows EXCEPT ![k] =
                           [by |-> n, filled |-> FALSE, round |-> Content(publishes[n].plan[k])]]
            /\ PostMoves(n, "filling")
       ELSE PostMoves(n, "refused") /\ UNCHANGED roundRows
    /\ UNCHANGED <<draftVars, status, stored, planned, booked, pageVars, tornRounds>>

\* Its questions, unless another publish deleted the round meanwhile.
InsertQuestions(n) ==
    LET k == publishes[n].at + 1 IN
    /\ publishes[n].st = "filling"
    /\ IF roundRows[k].by = n
       THEN /\ roundRows' = [roundRows EXCEPT ![k].filled = TRUE]
            /\ publishes' = [publishes EXCEPT ![n].st = IF k = Len(publishes[n].plan) THEN "inserted" ELSE "inserting",
                                      ![n].at = k]
       ELSE PostMoves(n, "refused") /\ UNCHANGED roundRows
    /\ UNCHANGED <<draftVars, status, stored, planned, booked, pageVars, tornRounds>>

MarkPlanned(n) ==
    /\ publishes[n].st = "inserted"
    /\ planned' = TRUE
    /\ PostMoves(n, "marked")
    /\ UNCHANGED <<draftVars, status, stored, roundRows, booked, pageVars, tornRounds>>

\* Mutant: the session keeps the plan it had.
KeptPlanOld(n) == stored

KeptPlan(n) == publishes[n].plan

MarkPublished(n) ==
    /\ publishes[n].st = "marked"
    /\ status' = "published"
    /\ stored' = KeptPlan(n)
    /\ tornRounds' = ~publishes[n].alone
    /\ PostMoves(n, "ok")
    /\ UNCHANGED <<draftVars, planned, roundRows, booked, pageVars>>

BackendDies(n) ==
    /\ publishes[n].st \notin {"none", "ok", "refused", "dead"}
    /\ PostMoves(n, "dead")
    /\ UNCHANGED <<draftVars, sessionVars, pageVars, tornRounds>>

\* A candidate is put on the rounds of a published plan.
Book(k) ==
    /\ status = "published" /\ roundRows[k] # NoRound /\ k \notin booked
    /\ booked' = booked \cup {k}
    /\ UNCHANGED <<draftVars, status, stored, planned, roundRows, pageVars, publishes, tornRounds>>

-----------------------------------------------------------------------------
PublishSteps(n) ==
    \/ Validate(n) \/ DeleteRounds(n) \/ InsertRound(n) \/ InsertQuestions(n)
    \/ MarkPlanned(n) \/ MarkPublished(n) \/ BackendDies(n)

PublishNext ==
    \/ DraftEdits \/ ClickPublish \/ PublishAnswered \/ PublishBreaks \/ Reopen
    \/ \E n \in Post : PublishSteps(n)
    \/ \E k \in Number : Book(k)

PublishSpec == PublishInit /\ [][PublishNext]_publishVars

-----------------------------------------------------------------------------
(* Properties.                                                             *)

PublishSt == {"none", "sent", "valid", "inserting", "filling", "inserted", "marked",
              "ok", "refused", "dead"}

\* Type correctness of the session, its rounds and the publishes.
PublishTypeOK ==
    /\ status \in {"submitted", "published"} /\ stored \in Seq(Round)
    /\ {planned, editing, tornRounds} \subseteq BOOLEAN
    /\ \A n \in Number :
          roundRows[n] # NoRound => roundRows[n].by > 0 /\ roundRows[n].filled \in BOOLEAN
    /\ booked \subseteq {n \in Number : roundRows[n] # NoRound}
    /\ sentPosts \in 0..MaxPosts /\ awaited \in 0..sentPosts
    /\ \A n \in Post :
          /\ publishes[n].st \in PublishSt
          /\ publishes[n].st # "none" =>
                publishes[n].plan \in Seq(Round) /\ publishes[n].at \in 0..Len(publishes[n].plan)

\* Unless a publish is writing, or the last one to write did not do so alone
\* and to its end, the rounds of the requisition are those of the session's
\* plan: a plan that is refused by the validation changes neither, a publish
\* whose answer is lost changes both, and one that is repeated after it broke
\* off leaves nothing of the attempt before.
RoundsAreOfPlan ==
    (\A n \in Post : ~Writing(n)) /\ ~tornRounds => Holds(roundRows, stored)

\* A publish that ends refused leaves the rounds as it found them
\* (_validate_plan: "so we never strand a partial round set").
RefusedKeepsRounds ==
    \A n \in Post :
       publishes[n].st = "refused" /\ (\A m \in Post \ {n} : publishes[m] = NoPost)
          => roundRows = publishes[n].found

\* Publishing a published plan again, as it is, is idempotent: the rounds have
\* the content they had and keep their candidates.
RepublishIsIdempotent ==
    \A n \in Post :
       publishes[n].st = "marked" /\ publishes[n].again /\ publishes[n].alone
          => /\ \A k \in Number : roundRows[k].by > 0 => roundRows[k].round = publishes[n].found[k].round
             /\ publishes[n].had \subseteq booked
=============================================================================
