---------------------------- MODULE DebriefChat -----------------------------
(***************************************************************************)
(* The debrief page of the recruiter app: a role and its candidates are    *)
(* picked, a comparison is generated while an animation runs, and its      *)
(* packet opens beside a chat, whose agent proposes actions on cards that  *)
(* the recruiter confirms or dismisses.  Older packets are reopened from   *)
(* their cards in the transcript.  Sessions are archived, and persisted    *)
(* with a delay, so that a page that dies may forget the last changes.     *)
(* Artifacts are numbered by the packet they are opened for.               *)
(***************************************************************************)
EXTENDS Naturals, Sequences

CONSTANTS
    Roles,            \* ids of roles, numbers above 0
    MaxPackets,       \* bound on the comparisons asked for
    MaxCards,         \* bound on the actions proposed
    Slots,            \* requests of confirms and reopens under way, numbered
    MaxStarts         \* bound on comparisons, arrivals by a role's link and
                      \* loads of the page together

ASSUME DebriefAssumption ==
    /\ Roles \subseteq Nat \ {0} /\ Slots \subseteq Nat
    /\ {MaxPackets, MaxCards, MaxStarts} \subseteq Nat

VARIABLES
    debrief,          \* sessions.debrief
    earlier,          \* archived.debrief, newest first
    persisted,        \* what localStorage holds of the two
    artifacts,        \* artifacts[a]: the packet that artifact a shows
    generation,       \* generationInFlight
    generated,        \* generated[k]: the promise of the k-th comparison
    waiting,          \* comparisons that a completeAnalyzing awaits
    opening,          \* packets that are open and whose card is still to come
    chatTurn,         \* the packet of the chat turn under way that is not aborted
    requests,         \* requests[s]: a confirm or a reopen under way
    onPage,           \* the canvas is mounted
    animated,         \* the animation of this analyzing stage is over
    proposed,         \* actions proposed so far
    posted,           \* posted[c]: how often card c was sent to be executed
    loose,            \* cards archived by a link to another role while pending
    crossed,          \* the packet changed under a confirm, or two comparisons overlapped
    starts            \* comparisons, arrivals and loads so far

messageVars == <<debrief, earlier, persisted>>
pageVarsOfDebrief == <<generation, waiting, opening, chatTurn, requests, onPage, animated>>
countVars   == <<proposed, posted, loose, crossed, starts>>
debriefVars == <<messageVars, artifacts, generated, pageVarsOfDebrief, countVars>>

NoPacket == 0
Packets  == 1..MaxPackets
Blank    == MaxPackets + 1      \* an artifact opened without a packet
LiveArtifact     == 0                   \* DEBRIEF_ARTIFACT_ID; the others are debrief-packet-<id>
Artifact == {LiveArtifact} \cup Packets
Cards    == 1..MaxCards
NoRole   == 0

CardStatus == {"absent", "pending", "executing", "done", "failed", "dismissed"}
Messages   == [cards : [Cards -> CardStatus], pills : SUBSET Packets]
NoMessages == [cards |-> [c \in Cards |-> "absent"], pills |-> {}]

Begun(stage, role) == [stage |-> stage, role |-> role, packet |-> NoPacket, shownIn |-> LiveArtifact,
                       messages |-> NoMessages]
NoDebrief == Begun("none", NoRole)
NoRequest == [kind |-> "none", packet |-> NoPacket, card |-> 0, shownIn |-> LiveArtifact]

DebriefInit ==
    /\ debrief = NoDebrief /\ earlier = <<>>
    /\ persisted = [messages |-> NoMessages, earlier |-> <<>>]
    /\ artifacts = [a \in Artifact |-> NoPacket]
    /\ generation = NoPacket /\ generated = <<>> /\ waiting = {} /\ opening = {}
    /\ chatTurn = NoPacket /\ requests = [s \in Slots |-> NoRequest]
    /\ onPage = FALSE /\ animated = FALSE
    /\ proposed = 0 /\ posted = [c \in Cards |-> 0]
    /\ loose = {} /\ crossed = FALSE /\ starts = 0

-----------------------------------------------------------------------------
(* Sessions and their archive. *)

WithCard(m, c, status) == IF m.cards[c] = "absent" THEN m ELSE [m EXCEPT !.cards[c] = status]
SetCard(c, status) == debrief' = [debrief EXCEPT !.messages = WithCard(@, c, status)]

\* beginRun and cancelRun: the chat turn under way is aborted.
AbortTurn == chatTurn' = NoPacket

CardsAsTheyAre(m) == m

\* The mark a message with a decision still to make gets when a page load archives it.
CardsSettled(m) == [m EXCEPT !.cards =
                  [c \in Cards |-> IF m.cards[c] = "pending" THEN "dismissed" ELSE m.cards[c]]]

Archived(m, list) == IF m = NoMessages THEN list ELSE <<m>> \o list

Start == starts < MaxStarts /\ starts' = starts + 1

\* The page is entered without a role.
Visit ==
    /\ ~onPage /\ onPage' = TRUE
    /\ debrief' = IF debrief = NoDebrief THEN Begun("role_pick", NoRole) ELSE debrief
    /\ UNCHANGED <<earlier, persisted, artifacts, generated, generation, waiting, opening,
                   chatTurn, requests, animated, countVars>>

\* initDebriefFromRole, unless the session is on that role already.
VisitRole(r) ==
    /\ Start /\ onPage' = TRUE
    /\ IF debrief.role = r
       THEN UNCHANGED <<debrief, earlier, artifacts, chatTurn, animated, loose>>
       ELSE /\ debrief' = Begun("candidate_pick", r)
            /\ earlier' = Archived(debrief.messages, earlier)
            /\ loose' = loose \cup {c \in Cards : debrief.messages.cards[c] = "pending"}
            /\ artifacts' = [artifacts EXCEPT ![LiveArtifact] = NoPacket]
            /\ animated' = FALSE /\ AbortTurn
    /\ UNCHANGED <<persisted, generated, generation, waiting, opening, requests,
                   proposed, posted, crossed>>

Leave ==
    /\ onPage /\ onPage' = FALSE /\ animated' = FALSE /\ AbortTurn
    /\ UNCHANGED <<messageVars, artifacts, generated, generation, waiting, opening, requests, countVars>>

\* "Show earlier": the newest archived session is put above the current one.
LoadEarlier ==
    /\ onPage /\ earlier # <<>>
    /\ LET m == Head(earlier)
           now == debrief.messages
       IN debrief' = [debrief EXCEPT !.messages =
                        [cards |-> [c \in Cards |-> IF now.cards[c] = "absent" THEN m.cards[c]
                                                    ELSE now.cards[c]],
                         pills |-> now.pills \cup m.pills]]
    /\ earlier' = Tail(earlier)
    /\ UNCHANGED <<persisted, artifacts, generated, pageVarsOfDebrief, countVars>>

Current == [messages |-> debrief.messages, earlier |-> earlier]

\* The throttled write to localStorage.
Flush ==
    /\ persisted' = Current
    /\ UNCHANGED <<debrief, earlier, artifacts, generated, pageVarsOfDebrief, countVars>>

\* The page is loaded anew: pagehide has flushed, or the tab died and has not.
ReloadPage ==
    /\ Start
    /\ \E kept \in {Current, persisted} :
          /\ persisted' = kept
          /\ earlier' = Archived(CardsSettled(kept.messages), kept.earlier)
    /\ debrief' = NoDebrief
    /\ artifacts' = [a \in Artifact |-> NoPacket]
    /\ generation' = NoPacket /\ waiting' = {} /\ opening' = {}
    /\ AbortTurn /\ requests' = [s \in Slots |-> NoRequest]
    /\ onPage' = FALSE /\ animated' = FALSE /\ crossed' = FALSE
    /\ UNCHANGED <<generated, proposed, posted, loose>>

-----------------------------------------------------------------------------
(* A comparison. *)

AtStage(stage) == onPage /\ debrief.stage = stage

PickRole(r) ==
    /\ AtStage("role_pick")
    /\ debrief' = [debrief EXCEPT !.role = r, !.stage = "candidate_pick"]
    /\ AbortTurn
    /\ UNCHANGED <<earlier, persisted, artifacts, generated, generation, waiting, opening,
                   requests, onPage, animated, countVars>>

CancelPick ==
    /\ AtStage("candidate_pick")
    /\ debrief' = [debrief EXCEPT !.stage = "role_pick"]
    /\ UNCHANGED <<earlier, persisted, artifacts, generated, pageVarsOfDebrief, countVars>>

ConfirmPick ==
    /\ AtStage("candidate_pick") /\ Len(generated) < MaxPackets /\ Start
    /\ generated' = Append(generated, "running")
    /\ generation' = Len(generated) + 1
    /\ debrief' = [debrief EXCEPT !.stage = "analyzing"]
    /\ animated' = FALSE /\ AbortTurn
    /\ crossed' = (crossed \/ waiting # {})
    /\ UNCHANGED <<earlier, persisted, artifacts, waiting, opening, requests, onPage,
                   proposed, posted, loose>>

\* pollPacket gets the packet, an error, or gives up.
GenerationEnds(k) ==
    /\ k \in DOMAIN generated /\ generated[k] = "running"
    /\ \E st \in {"ready", "failed"} : generated' = [generated EXCEPT ![k] = st]
    /\ UNCHANGED <<messageVars, artifacts, pageVarsOfDebrief, countVars>>

Confirming(s) == requests[s].kind = "action"

\* The packet of a comparison is the one to chat about, shown under the live artifact.
WithPacket(d, k) == [d EXCEPT !.packet = k, !.shownIn = LiveArtifact]

\* completeAnalyzing goes on with comparison k, or without one when k is NoPacket.
ResultOpens(k) ==
    LET d == IF k = NoPacket THEN debrief ELSE WithPacket(debrief, k)
    IN /\ debrief' = [d EXCEPT !.stage = "result"]
       /\ artifacts' = [artifacts EXCEPT ![LiveArtifact] = IF k = NoPacket THEN Blank ELSE k]
       /\ generation' = NoPacket
       /\ opening' = opening \cup ({k} \ {NoPacket})
       /\ animated' = FALSE /\ AbortTurn
       /\ crossed' = \/ crossed
                     \/ \E s \in Slots : \/ Confirming(s)
                                         \/ requests[s].kind = "refetch" /\ requests[s].shownIn = LiveArtifact
       /\ UNCHANGED <<earlier, persisted, generated, requests, onPage,
                      proposed, posted, loose, starts>>

AnimationDone ==
    /\ AtStage("analyzing") /\ ~animated
    /\ IF generation = NoPacket
       THEN ResultOpens(NoPacket) /\ UNCHANGED waiting
       ELSE /\ waiting' = waiting \cup {generation} /\ animated' = TRUE
            /\ UNCHANGED <<messageVars, artifacts, generated, generation, opening, chatTurn,
                           requests, onPage, countVars>>

ComparisonArrives(k) ==
    /\ k \in waiting /\ generated[k] = "ready"
    /\ waiting' = waiting \ {k}
    /\ ResultOpens(k)

FailedSilently(d) == d
Failed(d) == [d EXCEPT !.stage = "failed"]

ComparisonFails(k) ==
    /\ k \in waiting /\ generated[k] = "failed"
    /\ waiting' = waiting \ {k} /\ generation' = NoPacket
    /\ debrief' = Failed(debrief)
    /\ UNCHANGED <<earlier, persisted, artifacts, generated, opening, chatTurn, requests, onPage,
                   animated, countVars>>

\* The result stage's message has been written: the packet's card follows.
PillAppended(k) ==
    /\ k \in opening /\ opening' = opening \ {k}
    /\ debrief' = [debrief EXCEPT !.messages.pills = @ \cup {k}]
    /\ UNCHANGED <<earlier, persisted, artifacts, generated, generation, waiting, chatTurn,
                   requests, onPage, animated, countVars>>

RetryFromFailure ==
    /\ AtStage("failed")
    /\ generation' = NoPacket
    /\ debrief' = [debrief EXCEPT !.stage = "candidate_pick"]
    /\ UNCHANGED <<earlier, persisted, artifacts, generated, waiting, opening, chatTurn, requests,
                   onPage, animated, countVars>>

-----------------------------------------------------------------------------
(* The chat over the packet, and the cards of its proposals. *)

Unpaged == <<artifacts, generated, generation, waiting, opening, onPage>>

SubmitMessage ==
    /\ onPage /\ debrief.packet # NoPacket
    /\ chatTurn' = debrief.packet
    /\ UNCHANGED <<messageVars, Unpaged, requests, animated, countVars>>

TurnEnds ==
    /\ chatTurn # NoPacket /\ AbortTurn
    /\ UNCHANGED <<messageVars, Unpaged, requests, animated, countVars>>

Proposal ==
    /\ chatTurn # NoPacket /\ proposed < MaxCards /\ proposed' = proposed + 1
    /\ debrief' = [debrief EXCEPT !.messages.cards[proposed + 1] = "pending"]
    /\ UNCHANGED <<earlier, persisted, Unpaged, chatTurn, requests, animated,
                   posted, loose, crossed, starts>>

\* propose_new_debrief: back to the pickers, the packet stays.
NewDebrief ==
    /\ chatTurn # NoPacket /\ AbortTurn /\ animated' = FALSE
    /\ \E stage \in {"role_pick", "candidate_pick"} :
          /\ stage = "candidate_pick" => debrief.role # NoRole
          /\ debrief' = [debrief EXCEPT !.stage = stage]
    /\ UNCHANGED <<earlier, persisted, Unpaged, requests, countVars>>

Pending(c) == onPage /\ debrief.messages.cards[c] = "pending"

Dismiss(c) ==
    /\ Pending(c) /\ SetCard(c, "dismissed")
    /\ UNCHANGED <<earlier, persisted, Unpaged, chatTurn, requests, animated, countVars>>

FreeSlot(s) == requests[s].kind = "none" /\ \A t \in Slots : t < s => requests[t].kind # "none"
RequestEnds(s) == requests' = [requests EXCEPT ![s] = NoRequest]

Confirm(c, s) ==
    /\ Pending(c)
    /\ IF debrief.packet = NoPacket
       THEN SetCard(c, "failed") /\ UNCHANGED <<requests, posted>>
       ELSE /\ FreeSlot(s) /\ SetCard(c, "executing")
            /\ posted' = [posted EXCEPT ![c] = @ + 1]
            /\ requests' = [requests EXCEPT ![s] =
                  [NoRequest EXCEPT !.kind = "action", !.packet = debrief.packet, !.card = c]]
    /\ UNCHANGED <<earlier, persisted, Unpaged, chatTurn, animated,
                   proposed, loose, crossed, starts>>

ActionRefused(s) ==
    /\ Confirming(s) /\ SetCard(requests[s].card, "failed") /\ RequestEnds(s)
    /\ UNCHANGED <<earlier, persisted, Unpaged, chatTurn, animated, countVars>>

\* The packet is fetched again, for the artifact of the active packet.  A kind of action that
\* leaves the packet alone is one whose refetch fails.
ActionDone(s) ==
    /\ Confirming(s) /\ SetCard(requests[s].card, "done")
    /\ requests' = [requests EXCEPT ![s] =
          [NoRequest EXCEPT !.kind = "refetch", !.packet = requests[s].packet,
                            !.shownIn = debrief.shownIn]]
    /\ UNCHANGED <<earlier, persisted, Unpaged, chatTurn, animated, countVars>>

RefetchEnds(s) ==
    /\ requests[s].kind = "refetch" /\ RequestEnds(s)
    /\ LET a == requests[s].shownIn
       IN \/ UNCHANGED artifacts                              \* it failed, or the artifact is gone
          \/ /\ artifacts[a] # NoPacket
             /\ artifacts' = [artifacts EXCEPT ![a] = requests[s].packet]
    /\ UNCHANGED <<messageVars, generated, generation, waiting, opening, onPage, chatTurn,
                   animated, countVars>>

-----------------------------------------------------------------------------
(* Reopening a packet from its card. *)

WithPacketInPlace(p) == [debrief EXCEPT !.packet = p, !.stage = "result"]

\* The packet becomes the one to chat about, shown under an artifact of its own.
WithPacketReopened(p) == [debrief EXCEPT !.packet = p, !.shownIn = p, !.stage = "result"]

Resumed(p) ==
    /\ debrief' = WithPacketReopened(p)
    /\ animated' = FALSE
    /\ crossed' = (crossed \/ \E s \in Slots : Confirming(s))

\* A live packet that is still open is only put in front again.
InFront(p) == debrief.packet = p /\ artifacts[debrief.shownIn] # NoPacket

ReopenPacket(p, s) ==
    /\ onPage /\ p \in debrief.messages.pills /\ ~InFront(p)
    /\ IF artifacts[p] # NoPacket
       THEN Resumed(p) /\ UNCHANGED requests
       ELSE /\ FreeSlot(s)
            /\ requests' = [requests EXCEPT ![s] = [NoRequest EXCEPT !.kind = "reopen", !.packet = p]]
            /\ UNCHANGED <<debrief, animated, crossed>>
    /\ UNCHANGED <<earlier, persisted, Unpaged, chatTurn, proposed, posted, loose, starts>>

ReopenArrives(s) ==
    LET p == requests[s].packet
    IN /\ requests[s].kind = "reopen" /\ RequestEnds(s)
       /\ artifacts' = [artifacts EXCEPT ![p] = p]
       /\ Resumed(p)
       /\ UNCHANGED <<earlier, persisted, generated, generation, waiting, opening, onPage,
                      chatTurn, proposed, posted, loose, starts>>

ReopenFails(s) ==
    /\ requests[s].kind = "reopen" /\ RequestEnds(s)
    /\ UNCHANGED <<messageVars, Unpaged, chatTurn, animated, countVars>>

-----------------------------------------------------------------------------
Comparing ==
    \/ AnimationDone
    \/ \E k \in Packets : GenerationEnds(k) \/ ComparisonArrives(k) \/ ComparisonFails(k)

DebriefNext ==
    \/ Visit \/ (\E r \in Roles : VisitRole(r) \/ PickRole(r)) \/ Leave
    \/ LoadEarlier \/ Flush \/ ReloadPage
    \/ CancelPick \/ ConfirmPick \/ Comparing \/ RetryFromFailure
    \/ (\E k \in Packets : PillAppended(k))
    \/ SubmitMessage \/ TurnEnds \/ Proposal \/ NewDebrief
    \/ (\E c \in Cards : Dismiss(c) \/ \E s \in Slots : Confirm(c, s))
    \/ (\E s \in Slots : ActionRefused(s) \/ ActionDone(s) \/ RefetchEnds(s))
    \/ (\E s \in Slots : (\E p \in Packets : ReopenPacket(p, s)) \/ ReopenArrives(s) \/ ReopenFails(s))

\* The animation's timers fire, a generation is polled to its end or its timeout, and a
\* continuation runs once its promise is settled.
DebriefFairness == WF_debriefVars(Comparing)

DebriefSpec == DebriefInit /\ [][DebriefNext]_debriefVars /\ DebriefFairness

-----------------------------------------------------------------------------
DebriefTypeOK ==
    /\ debrief \in [stage : {"none", "role_pick", "candidate_pick", "analyzing", "result", "failed"},
                    role : Roles \cup {NoRole}, packet : Packets \cup {NoPacket},
                    shownIn : Artifact, messages : Messages]
    /\ earlier \in Seq(Messages)
    /\ persisted.messages \in Messages /\ persisted.earlier \in Seq(Messages)
    /\ artifacts \in [Artifact -> Packets \cup {NoPacket, Blank}]
    /\ generation \in Packets \cup {NoPacket}
    /\ generated \in Seq({"running", "ready", "failed"}) /\ Len(generated) <= MaxPackets
    /\ waiting \subseteq DOMAIN generated /\ opening \subseteq DOMAIN generated
    /\ chatTurn \in Packets \cup {NoPacket}
    /\ requests \in [Slots -> [kind : {"none", "action", "refetch", "reopen"},
                               packet : Packets \cup {NoPacket}, card : Cards \cup {0},
                               shownIn : Artifact]]
    /\ {onPage, animated, crossed} \subseteq BOOLEAN
    /\ proposed \in 0..MaxCards /\ posted \in [Cards -> Nat] /\ loose \subseteq Cards
    /\ starts \in 0..MaxStarts

\* A proposed action is sent to be executed once at most, though the page may die before its
\* card's status is persisted and the card comes back with the earlier messages: a page load
\* settles pending cards (archiveAllLiveSessions).  Cards that a link to another role archived
\* while pending are excepted, since endSession does not settle them.
ExecutedOnce == \A c \in Cards \ loose : posted[c] <= 1

\* The artifact beside the chat shows the packet that the chat and its cards act on, however
\* comparisons, reopened packets and refetches after an action interleave.  Excepted until the
\* page is loaded again: a packet that changed under a confirm, and comparisons that overlapped,
\* of which the first to end drops the promise of the second (generationInFlight).
ShowsActivePacket ==
    (debrief.packet # NoPacket /\ artifacts[debrief.shownIn] # NoPacket /\ ~crossed)
       => artifacts[debrief.shownIn] = debrief.packet

\* The analyzing stage is left, for the result or the failure, while the page stays open: also
\* when the recruiter came back to it, or when the comparison waited for was not the latest.
AnalyzingEnds == AtStage("analyzing") ~> ~AtStage("analyzing")
=============================================================================
