------------------------- MODULE DebriefChatProofs -------------------------
(***************************************************************************)
(* Proofs about the debrief page.  An action is sent once because a card   *)
(* that was sent is pending nowhere it could come back from: not on the    *)
(* page, and not in an archive, stored or not.  The artifact follows the   *)
(* chat because every request under way writes to the artifact of the      *)
(* packet it is about.                                                     *)
(***************************************************************************)
EXTENDS DebriefChat, SequenceTheorems, TLAPS

-----------------------------------------------------------------------------
(* The invariants. *)

\* A comparison in flight is one that was asked for.
GenerationKnown == generation \in DOMAIN generated \cup {NoPacket}

TypeInv == DebriefTypeOK /\ GenerationKnown

\* No session of the list has a card still to be decided.
AllDecided(list) ==
    \A i \in DOMAIN list : \A c \in Cards \ loose : list[i].cards[c] # "pending"

PendingUnsent  == \A c \in Cards \ loose : debrief.messages.cards[c] = "pending" => posted[c] = 0

\* What is pending on the page, or was archived so, or sent, was proposed before.
SentIsProposed ==
    \A c \in Cards : c > proposed =>
        posted[c] = 0 /\ debrief.messages.cards[c] # "pending" /\ c \notin loose

OnceInv ==
    /\ ExecutedOnce /\ PendingUnsent /\ SentIsProposed
    /\ AllDecided(earlier) /\ AllDecided(persisted.earlier)

\* A reopened packet has an artifact of its own.
OwnArtifact == debrief.shownIn \in Packets => debrief.packet = debrief.shownIn

\* A request that is under way is about a packet.
RequestsNamed == \A s \in Slots : requests[s].kind # "none" => requests[s].packet \in Packets

\* The analyzing stage waits for the comparison that is in flight.
AnalyzingAwaits ==
    debrief.stage = "analyzing" => generation # NoPacket /\ waiting \subseteq {generation}

\* An action that is being executed is one of the packet under discussion.
ConfirmsActive ==
    \A s \in Slots : Confirming(s) => debrief.packet \in {NoPacket, requests[s].packet}

\* A refetch writes the contents of a packet into the packet's own artifact, or into the live
\* one while it is gone, not shown, or showing that packet.
RefetchesOwn ==
    \A s \in Slots : requests[s].kind = "refetch" =>
        \/ requests[s].shownIn = requests[s].packet
        \/ /\ requests[s].shownIn = LiveArtifact
           /\ \/ artifacts[LiveArtifact] = NoPacket
              \/ debrief.shownIn # LiveArtifact
              \/ debrief.packet \in {NoPacket, requests[s].packet}

ArtifactsOwn == \A p \in Packets : artifacts[p] \in {NoPacket, p}

Uncrossed == AnalyzingAwaits /\ ConfirmsActive /\ RefetchesOwn /\ ArtifactsOwn

ShownInv == ShowsActivePacket /\ OwnArtifact /\ RequestsNamed /\ (~crossed => Uncrossed)
-----------------------------------------------------------------------------
(* Types. *)

LEMMA WithCardType ==
  ASSUME NEW m \in Messages, NEW c, NEW status \in CardStatus
  PROVE  WithCard(m, c, status) \in Messages
  BY DEF WithCard, Messages

LEMMA SettledType ==
  ASSUME NEW m \in Messages
  PROVE  CardsSettled(m) \in Messages
  BY DEF CardsSettled, Messages, CardStatus

LEMMA ArchivedType ==
  ASSUME NEW m \in Messages, NEW list \in Seq(Messages)
  PROVE  Archived(m, list) \in Seq(Messages)
  BY DEF Archived

LEMMA NoMessagesType == NoMessages \in Messages
  BY DEF NoMessages, Messages, CardStatus

LEMMA StartsBounded ==
  ASSUME starts \in 0..MaxStarts, Start
  PROVE  starts' \in 0..MaxStarts
  BY DebriefAssumption DEF Start

Request == [kind : {"none", "action", "refetch", "reopen"}, packet : Packets \cup {NoPacket},
            card : Cards \cup {0}, shownIn : Artifact]

LEMMA NewRequests ==
  ASSUME NEW p \in Packets \cup {NoPacket}, NEW c \in Cards, NEW a \in Artifact
  PROVE  /\ NoRequest \in Request
         /\ [NoRequest EXCEPT !.kind = "action", !.packet = p, !.card = c] \in Request
         /\ [NoRequest EXCEPT !.kind = "refetch", !.packet = p, !.shownIn = a] \in Request
  BY DEF NoRequest, Request, Artifact

LEMMA NewReopen ==
  ASSUME NEW p \in Packets
  PROVE  [NoRequest EXCEPT !.kind = "reopen", !.packet = p] \in Request
  BY DEF NoRequest, Request, Artifact

LEMMA TypeStep ==
  ASSUME TypeInv, [DebriefNext]_debriefVars
  PROVE  TypeInv'
  <1> USE DebriefAssumption
      DEF TypeInv, DebriefTypeOK, GenerationKnown, debriefVars, messageVars, pageVarsOfDebrief,
          countVars, Unpaged, NoPacket, Packets, Cards, Artifact, LiveArtifact, Blank, NoRole
  <1>1. ASSUME Visit PROVE TypeInv'
    BY <1>1, NoMessagesType DEF Visit, Begun, NoDebrief
  <1>2. ASSUME NEW r \in Roles, VisitRole(r) PROVE TypeInv'
    <2>0. starts' \in 0..MaxStarts
      BY <1>2, StartsBounded DEF VisitRole
    <2>1. CASE debrief.role = r
      BY <1>2, <2>0, <2>1 DEF VisitRole
    <2>2. CASE debrief.role # r
      <3>1. Archived(debrief.messages, earlier) \in Seq(Messages)
        BY ArchivedType
      <3>2. debrief' = Begun("candidate_pick", r) /\ earlier' = Archived(debrief.messages, earlier)
        BY <1>2, <2>2 DEF VisitRole
      <3> QED
        BY <1>2, <2>0, <2>2, <3>1, <3>2, NoMessagesType
           DEF VisitRole, Begun, AbortTurn
    <2> QED BY <2>1, <2>2
  <1>3. ASSUME NEW r \in Roles, PickRole(r) PROVE TypeInv'
    BY <1>3 DEF PickRole, AtStage, AbortTurn
  <1>4. ASSUME Leave PROVE TypeInv'
    BY <1>4 DEF Leave, AbortTurn
  <1>5. ASSUME LoadEarlier PROVE TypeInv'
    <2> DEFINE m == Head(earlier)
               now == debrief.messages
               both == [cards |-> [c \in Cards |-> IF now.cards[c] = "absent" THEN m.cards[c]
                                                  ELSE now.cards[c]],
                        pills |-> now.pills \cup m.pills]
    <2>1. m \in Messages /\ Tail(earlier) \in Seq(Messages)
      BY <1>5, HeadTailProperties DEF LoadEarlier
    <2>2. both \in Messages
      BY <2>1 DEF Messages
    <2>3. debrief' = [debrief EXCEPT !.messages = both] /\ earlier' = Tail(earlier)
      BY <1>5 DEF LoadEarlier
    <2> HIDE DEF both
    <2> QED BY <1>5, <2>1, <2>2, <2>3 DEF LoadEarlier
  <1>6. ASSUME Flush PROVE TypeInv'
    BY <1>6 DEF Flush, Current
  <1>7. ASSUME ReloadPage PROVE TypeInv'
    <2>1. PICK kept \in {Current, persisted} :
             /\ persisted' = kept
             /\ earlier' = Archived(CardsSettled(kept.messages), kept.earlier)
      BY <1>7 DEF ReloadPage
    <2>2. kept.messages \in Messages /\ kept.earlier \in Seq(Messages)
      BY DEF Current
    <2>3. earlier' \in Seq(Messages)
      BY <2>1, <2>2, SettledType, ArchivedType
    <2>4. debrief' = Begun("none", NoRole)
      BY <1>7 DEF ReloadPage, NoDebrief
    <2>5. starts' \in 0..MaxStarts
      BY <1>7, StartsBounded DEF ReloadPage
    <2>6. debrief' \in [stage : {"none", "role_pick", "candidate_pick", "analyzing", "result", "failed"},
                       role : Roles \cup {NoRole}, packet : Packets \cup {NoPacket},
                       shownIn : Artifact, messages : Messages]
      BY <2>4, NoMessagesType DEF Begun, Artifact
    <2>7. requests' \in [Slots -> Request]
      BY <1>7 DEF ReloadPage, NoRequest, Request
    <2>8. /\ artifacts' \in [Artifact -> Packets \cup {NoPacket, Blank}]
          /\ generation' = NoPacket /\ waiting' = {} /\ opening' = {} /\ chatTurn' = NoPacket
          /\ onPage' = FALSE /\ animated' = FALSE /\ crossed' = FALSE
          /\ UNCHANGED <<generated, proposed, posted, loose>>
      BY <1>7 DEF ReloadPage, AbortTurn
    <2> QED
      BY <2>1, <2>2, <2>3, <2>5, <2>6, <2>7, <2>8 DEF Request
  <1>8. ASSUME CancelPick PROVE TypeInv'
    BY <1>8 DEF CancelPick, AtStage
  <1>9. ASSUME ConfirmPick PROVE TypeInv'
    <2>1. /\ generated' \in Seq({"running", "ready", "failed"})
          /\ Len(generated') = Len(generated) + 1
          /\ DOMAIN generated \subseteq DOMAIN generated'
          /\ Len(generated') \in DOMAIN generated'
      BY <1>9 DEF ConfirmPick
    <2>2. starts' \in 0..MaxStarts
      BY <1>9, StartsBounded DEF ConfirmPick
    <2>3. /\ generation' = Len(generated) + 1 /\ Len(generated) < MaxPackets
          /\ debrief' = [debrief EXCEPT !.stage = "analyzing"]
          /\ chatTurn' = NoPacket /\ animated' = FALSE
          /\ crossed' = (crossed \/ waiting # {})
          /\ UNCHANGED <<earlier, persisted, artifacts, waiting, opening, requests, onPage,
                         proposed, posted, loose>>
      BY <1>9 DEF ConfirmPick, AbortTurn
    <2>4. generation' \in DOMAIN generated' /\ generation' \in Packets /\ Len(generated') <= MaxPackets
      BY <2>1, <2>3 DEF Packets
    <2>5. crossed' \in BOOLEAN
      BY <2>3
    <2> QED BY <2>1, <2>2, <2>3, <2>4, <2>5
  <1>10. ASSUME AnimationDone PROVE TypeInv'
    <2>1. CASE generation = NoPacket
      <3>1. /\ debrief' = [debrief EXCEPT !.stage = "result"]
            /\ artifacts' = [artifacts EXCEPT ![LiveArtifact] = Blank]
            /\ opening' = opening \cup ({NoPacket} \ {NoPacket})
        BY <1>10, <2>1 DEF AnimationDone, ResultOpens
      <3> QED BY <1>10, <2>1, <3>1 DEF AnimationDone, ResultOpens, AbortTurn
    <2>2. CASE generation # NoPacket
      BY <1>10, <2>2 DEF AnimationDone
    <2> QED BY <2>1, <2>2
  <1>11. ASSUME NEW k \in Packets, GenerationEnds(k) PROVE TypeInv'
    <2>1. /\ DOMAIN generated' = DOMAIN generated /\ Len(generated') = Len(generated)
          /\ generated' \in Seq({"running", "ready", "failed"})
      BY <1>11 DEF GenerationEnds
    <2>2. UNCHANGED <<messageVars, artifacts, pageVarsOfDebrief, countVars>>
      BY <1>11 DEF GenerationEnds
    <2> QED BY <2>1, <2>2
  <1>12. ASSUME NEW k \in Packets, ComparisonArrives(k) PROVE TypeInv'
    BY <1>12 DEF ComparisonArrives, ResultOpens, WithPacket, AbortTurn
  <1>13. ASSUME NEW k \in Packets, ComparisonFails(k) PROVE TypeInv'
    BY <1>13 DEF ComparisonFails, Failed
  <1>14. ASSUME RetryFromFailure PROVE TypeInv'
    BY <1>14 DEF RetryFromFailure, AtStage
  <1>15. ASSUME NEW k \in Packets, PillAppended(k) PROVE TypeInv'
    <2>1. [debrief.messages EXCEPT !.pills = @ \cup {k}] \in Messages
      BY DEF Messages
    <2>2. debrief' = [debrief EXCEPT !.messages = [debrief.messages EXCEPT !.pills = @ \cup {k}]]
      BY <1>15 DEF PillAppended
    <2> QED BY <1>15, <2>1, <2>2 DEF PillAppended
  <1>16. ASSUME SubmitMessage PROVE TypeInv'
    BY <1>16 DEF SubmitMessage
  <1>17. ASSUME TurnEnds PROVE TypeInv'
    BY <1>17 DEF TurnEnds, AbortTurn
  <1>18. ASSUME Proposal PROVE TypeInv'
    <2> DEFINE m == [debrief.messages EXCEPT !.cards[proposed + 1] = "pending"]
    <2>1. m \in Messages
      BY DEF Messages, CardStatus
    <2>2. debrief' = [debrief EXCEPT !.messages = m]
      BY <1>18 DEF Proposal
    <2> HIDE DEF m
    <2>3. proposed' \in 0..MaxCards
      BY <1>18 DEF Proposal
    <2> QED BY <1>18, <2>1, <2>2, <2>3 DEF Proposal
  <1>19. ASSUME NewDebrief PROVE TypeInv'
    BY <1>19 DEF NewDebrief, AbortTurn
  <1>20. ASSUME NEW c \in Cards, Dismiss(c) PROVE TypeInv'
    BY <1>20, WithCardType
       DEF CardStatus, Dismiss, Pending, SetCard
  <1>21. ASSUME NEW c \in Cards, NEW s \in Slots, Confirm(c, s) PROVE TypeInv'
    <2>1. CASE debrief.packet = NoPacket
      <3>1. WithCard(debrief.messages, c, "failed") \in Messages
        BY WithCardType DEF CardStatus
      <3>2. debrief' = [debrief EXCEPT !.messages = WithCard(debrief.messages, c, "failed")]
        BY <1>21, <2>1 DEF Confirm, SetCard
      <3> QED BY <1>21, <2>1, <3>1, <3>2 DEF Confirm
    <2>2. CASE debrief.packet # NoPacket
      <3>1. requests' = [requests EXCEPT ![s] =
               [NoRequest EXCEPT !.kind = "action", !.packet = debrief.packet, !.card = c]]
        BY <1>21, <2>2 DEF Confirm
      <3>2. requests' \in [Slots -> Request]
        BY <3>1, NewRequests DEF Request
      <3>3. WithCard(debrief.messages, c, "executing") \in Messages
        BY WithCardType DEF CardStatus
      <3>4. debrief' = [debrief EXCEPT !.messages = WithCard(debrief.messages, c, "executing")]
        BY <1>21, <2>2 DEF Confirm, SetCard
      <3>5. posted' \in [Cards -> Nat]
        <4>1. posted' = [posted EXCEPT ![c] = @ + 1]
          BY <1>21, <2>2 DEF Confirm
        <4>2. posted \in [Cards -> Nat]
          OBVIOUS
        <4> HIDE DebriefAssumption DEF TypeInv, DebriefTypeOK, GenerationKnown, Cards
        <4> QED BY <4>1, <4>2
      <3> QED BY <1>21, <2>2, <3>2, <3>3, <3>4, <3>5 DEF Confirm, Request
    <2> QED BY <2>1, <2>2
  <1>22. ASSUME NEW s \in Slots, ActionRefused(s) PROVE TypeInv'
    BY <1>22, WithCardType
       DEF CardStatus, ActionRefused, Confirming, SetCard, RequestEnds, NoRequest
  <1>23. ASSUME NEW s \in Slots, ActionDone(s) PROVE TypeInv'
    BY <1>23, WithCardType
       DEF CardStatus, ActionDone, Confirming, SetCard, NoRequest
  <1>24. ASSUME NEW s \in Slots, RefetchEnds(s) PROVE TypeInv'
    BY <1>24 DEF RefetchEnds, RequestEnds, NoRequest
  <1>25. ASSUME NEW k \in Packets, NEW s \in Slots, ReopenPacket(k, s) PROVE TypeInv'
    <2>1. CASE artifacts[k] # NoPacket
      <3>1. /\ debrief' = [debrief EXCEPT !.packet = k, !.shownIn = k, !.stage = "result"]
            /\ crossed' = (crossed \/ \E x \in Slots : Confirming(x)) /\ animated' = FALSE
        BY <1>25, <2>1 DEF ReopenPacket, Resumed, WithPacketReopened
      <3>2. crossed' \in BOOLEAN
        BY <3>1
      <3>3. UNCHANGED <<earlier, persisted, artifacts, generated, generation, waiting, opening, onPage,
                        chatTurn, requests, proposed, posted, loose, starts>>
        BY <1>25, <2>1 DEF ReopenPacket
      <3> QED BY <3>1, <3>2, <3>3
    <2>2. CASE artifacts[k] = NoPacket
      <3>1. requests' = [requests EXCEPT ![s] = [NoRequest EXCEPT !.kind = "reopen", !.packet = k]]
        BY <1>25, <2>2 DEF ReopenPacket
      <3>2. requests' \in [Slots -> Request]
        BY <3>1, NewReopen DEF Request
      <3> QED BY <1>25, <2>2, <3>2 DEF ReopenPacket, Request
    <2> QED BY <2>1, <2>2
  <1>26. ASSUME NEW s \in Slots, ReopenArrives(s) PROVE TypeInv'
    BY <1>26 DEF ReopenArrives, RequestEnds, NoRequest, Resumed, WithPacketReopened
  <1>27. ASSUME NEW s \in Slots, ReopenFails(s) PROVE TypeInv'
    BY <1>27 DEF ReopenFails, RequestEnds, NoRequest
  <1>28. ASSUME UNCHANGED debriefVars PROVE TypeInv'
    BY <1>28
  <1> QED
    BY <1>1, <1>2, <1>3, <1>4, <1>5, <1>6, <1>7, <1>8, <1>9, <1>10, <1>11, <1>12, <1>13, <1>14,
       <1>15, <1>16, <1>17, <1>18, <1>19, <1>20, <1>21, <1>22, <1>23, <1>24, <1>25, <1>26, <1>27, <1>28
       DEF DebriefNext, Comparing

LEMMA TypeInit == ASSUME DebriefInit PROVE TypeInv
  <1> USE DEF NoPacket, Packets, Cards, Artifact, LiveArtifact, Blank, NoRole
  <1>1. debrief.messages \in Messages /\ debrief \in [stage : {"none"}, role : {0}, packet : {0},
                                                     shownIn : {0}, messages : Messages]
    BY NoMessagesType DEF DebriefInit, NoDebrief, Begun
  <1>2. requests \in [Slots -> Request]
    BY DEF DebriefInit, NoRequest, Request
  <1>3. /\ earlier \in Seq(Messages) /\ persisted.messages \in Messages
        /\ persisted.earlier \in Seq(Messages)
    BY NoMessagesType DEF DebriefInit
  <1>4. /\ generated \in Seq({"running", "ready", "failed"}) /\ Len(generated) = 0
        /\ waiting = {} /\ opening = {}
    BY DEF DebriefInit
  <1>5. /\ artifacts \in [Artifact -> Packets \cup {NoPacket, Blank}] /\ posted \in [Cards -> Nat]
        /\ generation = NoPacket /\ chatTurn = NoPacket /\ loose = {} /\ proposed = 0 /\ starts = 0
        /\ onPage = FALSE /\ animated = FALSE /\ crossed = FALSE
    BY DEF DebriefInit
  <1>6. TypeInv
    <2>1. /\ proposed \in 0..MaxCards /\ starts \in 0..MaxStarts /\ Len(generated) <= MaxPackets
      BY DebriefAssumption, <1>4, <1>5
    <2>2. debrief \in [stage : {"none", "role_pick", "candidate_pick", "analyzing", "result", "failed"},
                      role : Roles \cup {NoRole}, packet : Packets \cup {NoPacket},
                      shownIn : Artifact, messages : Messages]
      BY <1>1
    <2> QED
      BY <1>2, <1>3, <1>4, <1>5, <2>1, <2>2 DEF TypeInv, DebriefTypeOK, GenerationKnown, Request
  <1> QED BY <1>6

\* The state of the debrief page is well formed, for any roles and bounds.
THEOREM DebriefTypes == DebriefSpec => []DebriefTypeOK
  <1>1. DebriefInit => TypeInv
    BY TypeInit
  <1>2. TypeInv => DebriefTypeOK
    BY DEF TypeInv
  <1> QED BY <1>1, <1>2, TypeStep, PTL DEF DebriefSpec

-----------------------------------------------------------------------------
(* An action is sent once. *)

\* What a step that leaves the cards, the archives and the counts alone does to the invariant.
LEMMA CardsUntouched ==
  ASSUME OnceInv, debrief'.messages.cards = debrief.messages.cards,
         UNCHANGED <<earlier, persisted, posted, proposed, loose>>
  PROVE  OnceInv'
  BY DEF OnceInv, ExecutedOnce, PendingUnsent, SentIsProposed, AllDecided

\* A card that is not absent from the messages of m gets a status, and none other changes.
LEMMA WithCardIs ==
  ASSUME NEW m \in Messages, NEW c, NEW status \in CardStatus, NEW d \in Cards
  PROVE  /\ WithCard(m, c, status).cards[d] # m.cards[d]
              => d = c /\ WithCard(m, c, status).cards[d] = status
         /\ d = c => WithCard(m, c, status).cards[d] \in {"absent", status}
  BY DEF WithCard, Messages

\* A card of the page gets a status other than pending, and nothing is sent.
LEMMA CardMarked ==
  ASSUME TypeInv, OnceInv, NEW c, NEW status \in CardStatus \ {"pending"}, SetCard(c, status),
         UNCHANGED <<earlier, persisted, posted, proposed, loose>>
  PROVE  OnceInv'
  <1>1. debrief.messages \in Messages /\ debrief'.messages = WithCard(debrief.messages, c, status)
    BY DEF TypeInv, DebriefTypeOK, SetCard
  <1>2. \A d \in Cards : debrief'.messages.cards[d] = "pending" => debrief.messages.cards[d] = "pending"
    BY <1>1, WithCardIs
  <1> QED BY <1>2 DEF OnceInv, ExecutedOnce, PendingUnsent, SentIsProposed, AllDecided

\* An archive stays decided when a session is put on top that is.
LEMMA ArchivedDecided ==
  ASSUME NEW m \in Messages, NEW list \in Seq(Messages), AllDecided(list),
         \A c \in Cards \ loose : m.cards[c] # "pending"
  PROVE  AllDecided(Archived(m, list))
  <1>1. CASE m = NoMessages
    BY <1>1 DEF Archived
  <1>2. CASE m # NoMessages
    <2>1. Archived(m, list) = <<m>> \o list /\ <<m>> \in Seq(Messages) /\ Len(<<m>>) = 1
      BY <1>2 DEF Archived
    <2>2. /\ Len(<<m>> \o list) = 1 + Len(list)
          /\ \A i \in 1..1 + Len(list) : (<<m>> \o list)[i] = IF i <= 1 THEN <<m>>[i] ELSE list[i - 1]
      BY <2>1, ConcatProperties
    <2>3. \A i \in 1..1 + Len(list) : i > 1 => i - 1 \in DOMAIN list
      OBVIOUS
    <2> QED BY <2>1, <2>2, <2>3 DEF AllDecided
  <1> QED BY <1>1, <1>2

LEMMA SettledDecided ==
  ASSUME NEW m \in Messages, NEW c \in Cards
  PROVE  CardsSettled(m).cards[c] # "pending"
  BY DEF CardsSettled, Messages

\* Settled cards are not pending, wherever the page load finds the session.
LEMMA OnceReload ==
  ASSUME TypeInv, OnceInv, ReloadPage
  PROVE  OnceInv'
  <1>1. PICK kept \in {Current, persisted} :
           /\ persisted' = kept
           /\ earlier' = Archived(CardsSettled(kept.messages), kept.earlier)
    BY DEF ReloadPage
  <1>2. kept.messages \in Messages /\ kept.earlier \in Seq(Messages)
    BY DEF Current, TypeInv, DebriefTypeOK
  <1>3. AllDecided(kept.earlier)
    BY DEF Current, OnceInv
  <1>4. AllDecided(earlier')
    BY <1>1, <1>2, <1>3, SettledType, SettledDecided, ArchivedDecided
  <1>5. /\ AllDecided(persisted'.earlier)
        /\ \A c \in Cards : debrief'.messages.cards[c] = "absent"
        /\ UNCHANGED <<posted, proposed, loose>>
    BY <1>1, <1>3 DEF ReloadPage, NoDebrief, Begun, NoMessages
  <1> QED BY <1>4, <1>5 DEF OnceInv, ExecutedOnce, PendingUnsent, SentIsProposed, AllDecided

\* A link to another role archives the session as it is: its pending cards become loose.
LEMMA OnceVisitRole ==
  ASSUME TypeInv, OnceInv, NEW r \in Roles, VisitRole(r)
  PROVE  OnceInv'
  <1>1. UNCHANGED <<persisted, posted, proposed>>
    BY DEF VisitRole
  <1>2. CASE debrief.role = r
    BY <1>1, <1>2, CardsUntouched DEF VisitRole
  <1>3. CASE debrief.role # r
    <2>1. /\ debrief' = Begun("candidate_pick", r)
          /\ earlier' = Archived(debrief.messages, earlier)
          /\ loose' = loose \cup {c \in Cards : debrief.messages.cards[c] = "pending"}
      BY <1>3 DEF VisitRole
    <2>2. debrief.messages \in Messages /\ earlier \in Seq(Messages)
      BY DEF TypeInv, DebriefTypeOK
    <2>3. \A c \in Cards \ loose' : debrief.messages.cards[c] # "pending"
      BY <2>1
    <2>4. \A i \in DOMAIN earlier' : \A c \in Cards \ loose' : earlier'[i].cards[c] # "pending"
      <3>1. CASE debrief.messages = NoMessages
        BY <2>1, <3>1 DEF Archived, OnceInv, AllDecided
      <3>2. CASE debrief.messages # NoMessages
        <4>1. earlier' = <<debrief.messages>> \o earlier
          BY <2>1, <3>2 DEF Archived
        <4>2. /\ Len(earlier') = 1 + Len(earlier) /\ earlier' \in Seq(Messages)
              /\ \A i \in 1..1 + Len(earlier) :
                    earlier'[i] = IF i <= 1 THEN debrief.messages ELSE earlier[i - 1]
          BY <2>2, <4>1, ConcatProperties
        <4>3. \A i \in 1..1 + Len(earlier) : i > 1 => i - 1 \in DOMAIN earlier
          BY <2>2
        <4> QED BY <2>1, <2>3, <4>2, <4>3 DEF OnceInv, AllDecided
      <3> QED BY <3>1, <3>2
    <2>5. \A c \in Cards : debrief'.messages.cards[c] = "absent"
      BY <2>1 DEF Begun, NoMessages
    <2>6. \A i \in DOMAIN persisted'.earlier :
            \A c \in Cards \ loose' : persisted'.earlier[i].cards[c] # "pending"
      BY <1>1, <2>1 DEF OnceInv, AllDecided
    <2> QED
      BY <1>1, <2>1, <2>4, <2>5, <2>6
         DEF OnceInv, ExecutedOnce, PendingUnsent, SentIsProposed, AllDecided
  <1> QED BY <1>2, <1>3

\* What "Show earlier" puts back is decided.
LEMMA OnceLoadEarlier ==
  ASSUME TypeInv, OnceInv, LoadEarlier
  PROVE  OnceInv'
  <1>1. /\ earlier \in Seq(Messages) /\ earlier # <<>> /\ Head(earlier) = earlier[1]
        /\ Tail(earlier) \in Seq(Messages) /\ Len(Tail(earlier)) = Len(earlier) - 1
        /\ \A i \in 1..Len(earlier) - 1 : Tail(earlier)[i] = earlier[i + 1]
        /\ 1 \in DOMAIN earlier
    BY HeadTailProperties DEF LoadEarlier, TypeInv, DebriefTypeOK
  <1>2. \A c \in Cards : debrief'.messages.cards[c] \in {debrief.messages.cards[c], earlier[1].cards[c]}
    BY <1>1 DEF LoadEarlier, TypeInv, DebriefTypeOK
  <1>3. earlier' = Tail(earlier) /\ UNCHANGED <<persisted, posted, proposed, loose>>
    BY DEF LoadEarlier, countVars
  <1>4. AllDecided(earlier')
    <2>1. \A i \in 1..Len(earlier) - 1 : i + 1 \in DOMAIN earlier
      BY <1>1
    <2> QED BY <1>1, <1>3, <2>1 DEF OnceInv, AllDecided
  <1>5. \A c \in Cards \ loose : earlier[1].cards[c] # "pending"
    BY <1>1 DEF OnceInv, AllDecided
  <1> QED BY <1>2, <1>3, <1>4, <1>5 DEF OnceInv, ExecutedOnce, PendingUnsent, SentIsProposed, AllDecided
\* A proposal is new: nothing was sent for it.
LEMMA OnceProposal ==
  ASSUME TypeInv, OnceInv, Proposal
  PROVE  OnceInv'
  <1>1. /\ proposed \in 0..MaxCards /\ proposed' = proposed + 1 /\ proposed + 1 \in Cards
        /\ UNCHANGED <<earlier, persisted, posted, loose>>
    BY DebriefAssumption DEF Proposal, TypeInv, DebriefTypeOK, Cards
  <1>2. posted[proposed + 1] = 0
    BY <1>1 DEF OnceInv, SentIsProposed
  <1>3. \A c \in Cards : c # proposed + 1
           => debrief'.messages.cards[c] = debrief.messages.cards[c]
    BY DEF Proposal, TypeInv, DebriefTypeOK, Messages
  <1>4. PendingUnsent'
    BY <1>1, <1>2, <1>3 DEF OnceInv, PendingUnsent
  <1>5. SentIsProposed'
    <2>1. \A c \in Cards : c > proposed + 1 => c > proposed /\ c # proposed + 1
      BY <1>1 DEF Cards
    <2> QED BY <1>1, <1>3, <2>1 DEF OnceInv, SentIsProposed
  <1> QED BY <1>1, <1>4, <1>5 DEF OnceInv, ExecutedOnce, AllDecided

\* What is sent was pending, so nothing was sent for it; afterwards it is executing.
LEMMA OnceConfirm ==
  ASSUME TypeInv, OnceInv, NEW c \in Cards, NEW s \in Slots, Confirm(c, s)
  PROVE  OnceInv'
  <1>1. CASE debrief.packet = NoPacket
    <2>1. SetCard(c, "failed") /\ UNCHANGED <<earlier, persisted, posted, proposed, loose>>
      BY <1>1 DEF Confirm
    <2> QED BY <2>1, CardMarked DEF CardStatus
  <1>2. CASE debrief.packet # NoPacket
    <2>1. /\ posted' = [posted EXCEPT ![c] = @ + 1]
          /\ debrief.messages.cards[c] = "pending"
          /\ SetCard(c, "executing")
          /\ UNCHANGED <<earlier, persisted, proposed, loose>>
      BY <1>2 DEF Confirm, Pending
    <2>2. debrief.messages \in Messages /\ posted \in [Cards -> Nat]
      BY DEF TypeInv, DebriefTypeOK
    <2>3. debrief'.messages = WithCard(debrief.messages, c, "executing")
      BY <2>1 DEF SetCard, TypeInv, DebriefTypeOK
    <2>4. \A d \in Cards : debrief'.messages.cards[d] = "pending"
                            => d # c /\ debrief.messages.cards[d] = "pending"
      BY <2>2, <2>3, WithCardIs DEF CardStatus
    <2>5. c \notin loose => posted[c] = 0
      BY <2>1 DEF OnceInv, PendingUnsent
    <2>6. ExecutedOnce'
      BY <2>1, <2>2, <2>5 DEF OnceInv, ExecutedOnce
    <2>7. PendingUnsent'
      BY <2>1, <2>2, <2>4 DEF OnceInv, PendingUnsent
    <2>8. SentIsProposed'
      BY <2>1, <2>2, <2>4 DEF OnceInv, SentIsProposed
    <2> QED BY <2>1, <2>6, <2>7, <2>8 DEF OnceInv, AllDecided
  <1> QED BY <1>1, <1>2

LEMMA OnceStep ==
  ASSUME TypeInv, OnceInv, [DebriefNext]_debriefVars
  PROVE  OnceInv'
  <1> USE DEF countVars, messageVars, Unpaged
  <1>1. ASSUME Visit PROVE OnceInv'
    <2>1. CASE debrief = NoDebrief
      <3>1. debrief'.messages.cards = debrief.messages.cards
        BY <1>1, <2>1 DEF Visit, NoDebrief, Begun
      <3> QED BY <1>1, <3>1, CardsUntouched DEF Visit
    <2>2. CASE debrief # NoDebrief
      BY <1>1, <2>2, CardsUntouched DEF Visit
    <2> QED BY <2>1, <2>2
  <1>2. ASSUME NEW r \in Roles, VisitRole(r) PROVE OnceInv'
    BY <1>2, OnceVisitRole
  <1>3. ASSUME NEW r \in Roles, PickRole(r) PROVE OnceInv'
    BY <1>3, CardsUntouched DEF PickRole, TypeInv, DebriefTypeOK
  <1>4. ASSUME Leave PROVE OnceInv'
    BY <1>4, CardsUntouched DEF Leave
  <1>5. ASSUME LoadEarlier PROVE OnceInv'
    BY <1>5, OnceLoadEarlier
  <1>6. ASSUME Flush PROVE OnceInv'
    <2>1. persisted'.earlier = earlier /\ UNCHANGED <<debrief, earlier, posted, proposed, loose>>
      BY <1>6 DEF Flush, Current
    <2> QED BY <2>1 DEF OnceInv, ExecutedOnce, PendingUnsent, SentIsProposed, AllDecided
  <1>7. ASSUME ReloadPage PROVE OnceInv'
    BY <1>7, OnceReload
  <1>8. ASSUME CancelPick \/ ConfirmPick PROVE OnceInv'
    BY <1>8, CardsUntouched DEF CancelPick, ConfirmPick, TypeInv, DebriefTypeOK
  <1>9. ASSUME AnimationDone PROVE OnceInv'
    BY <1>9, CardsUntouched DEF AnimationDone, ResultOpens, WithPacket, TypeInv, DebriefTypeOK
  <1>10. ASSUME NEW k \in Packets, GenerationEnds(k) PROVE OnceInv'
    BY <1>10, CardsUntouched DEF GenerationEnds
  <1>11. ASSUME NEW k \in Packets, ComparisonArrives(k) PROVE OnceInv'
    BY <1>11, CardsUntouched DEF ComparisonArrives, ResultOpens, WithPacket, TypeInv, DebriefTypeOK
  <1>12. ASSUME NEW k \in Packets, ComparisonFails(k) PROVE OnceInv'
    BY <1>12, CardsUntouched DEF ComparisonFails, Failed, TypeInv, DebriefTypeOK
  <1>13. ASSUME RetryFromFailure PROVE OnceInv'
    BY <1>13, CardsUntouched DEF RetryFromFailure, TypeInv, DebriefTypeOK
  <1>14. ASSUME NEW k \in Packets, PillAppended(k) PROVE OnceInv'
    BY <1>14, CardsUntouched DEF PillAppended, TypeInv, DebriefTypeOK, Messages
  <1>15. ASSUME SubmitMessage \/ TurnEnds PROVE OnceInv'
    BY <1>15, CardsUntouched DEF SubmitMessage, TurnEnds
  <1>16. ASSUME Proposal PROVE OnceInv'
    BY <1>16, OnceProposal
  <1>17. ASSUME NewDebrief PROVE OnceInv'
    BY <1>17, CardsUntouched DEF NewDebrief, TypeInv, DebriefTypeOK
  <1>18. ASSUME NEW c \in Cards, Dismiss(c) PROVE OnceInv'
    BY <1>18, CardMarked DEF Dismiss, CardStatus
  <1>19. ASSUME NEW c \in Cards, NEW s \in Slots, Confirm(c, s) PROVE OnceInv'
    BY <1>19, OnceConfirm
  <1>20. ASSUME NEW s \in Slots, ActionRefused(s) \/ ActionDone(s) PROVE OnceInv'
    BY <1>20, CardMarked DEF ActionRefused, ActionDone, CardStatus
  <1>21. ASSUME NEW s \in Slots, RefetchEnds(s) \/ ReopenFails(s) PROVE OnceInv'
    BY <1>21, CardsUntouched DEF RefetchEnds, ReopenFails
  <1>22. ASSUME NEW p \in Packets, NEW s \in Slots, ReopenPacket(p, s) PROVE OnceInv'
    BY <1>22, CardsUntouched DEF ReopenPacket, Resumed, WithPacketReopened, TypeInv, DebriefTypeOK
  <1>23. ASSUME NEW s \in Slots, ReopenArrives(s) PROVE OnceInv'
    BY <1>23, CardsUntouched DEF ReopenArrives, Resumed, WithPacketReopened, TypeInv, DebriefTypeOK
  <1>24. ASSUME UNCHANGED debriefVars PROVE OnceInv'
    BY <1>24, CardsUntouched DEF debriefVars
  <1> QED
    BY <1>1, <1>2, <1>3, <1>4, <1>5, <1>6, <1>7, <1>8, <1>9, <1>10, <1>11, <1>12, <1>13, <1>14,
       <1>15, <1>16, <1>17, <1>18, <1>19, <1>20, <1>21, <1>22, <1>23, <1>24
       DEF DebriefNext, Comparing

LEMMA OnceInit ==
  ASSUME DebriefInit
  PROVE  TypeInv /\ OnceInv
  <1>1. \A c \in Cards : debrief.messages.cards[c] = "absent" /\ posted[c] = 0
    BY DEF DebriefInit, NoDebrief, Begun, NoMessages
  <1>2. DOMAIN earlier = {} /\ DOMAIN persisted.earlier = {} /\ loose = {}
    BY DEF DebriefInit
  <1>3. OnceInv
    BY <1>1, <1>2 DEF OnceInv, ExecutedOnce, PendingUnsent, SentIsProposed, AllDecided
  <1> QED BY <1>3, TypeInit

\* An action proposed in the chat is sent to be executed once at most, whatever the page forgets
\* when it dies and brings back from the archive, unless a link to another role archived its card.
THEOREM ActionsExecutedOnce == DebriefSpec => []ExecutedOnce
  <1>1. DebriefInit => TypeInv /\ OnceInv
    BY OnceInit
  <1>2. TypeInv /\ OnceInv /\ [DebriefNext]_debriefVars => (TypeInv /\ OnceInv)'
    BY TypeStep, OnceStep
  <1>3. OnceInv => ExecutedOnce
    BY DEF OnceInv
  <1> QED BY <1>1, <1>2, <1>3, PTL DEF DebriefSpec

-----------------------------------------------------------------------------
(* The artifact shows the packet of the chat. *)

\* The session's part of the invariant does not read the messages; what a step does to it that
\* leaves the packet, its artifact and the requests alone.
LEMMA PacketUntouched ==
  ASSUME ShownInv,
         debrief'.packet = debrief.packet, debrief'.shownIn = debrief.shownIn,
         debrief'.stage = debrief.stage,
         UNCHANGED <<artifacts, requests, crossed, generation, waiting>>
  PROVE  ShownInv'
  BY DEF ShownInv, ShowsActivePacket, OwnArtifact, RequestsNamed, Uncrossed, AnalyzingAwaits,
         ConfirmsActive, RefetchesOwn, ArtifactsOwn, Confirming

\* A step to another stage than analyzing.
LEMMA StageLeft ==
  ASSUME ShownInv,
         debrief'.packet = debrief.packet, debrief'.shownIn = debrief.shownIn,
         debrief'.stage # "analyzing",
         UNCHANGED <<artifacts, requests, crossed>>
  PROVE  ShownInv'
  BY DEF ShownInv, ShowsActivePacket, OwnArtifact, RequestsNamed, Uncrossed, AnalyzingAwaits,
         ConfirmsActive, RefetchesOwn, ArtifactsOwn, Confirming

\* A request ends, and only that.
LEMMA RequestEnded ==
  ASSUME TypeInv, ShownInv, NEW s \in Slots, RequestEnds(s),
         debrief'.packet = debrief.packet, debrief'.shownIn = debrief.shownIn,
         debrief'.stage = debrief.stage,
         UNCHANGED <<artifacts, crossed, generation, waiting>>
  PROVE  ShownInv'
  <1>1. /\ requests'[s].kind = "none"
        /\ \A t \in Slots : t # s => requests'[t] = requests[t]
    BY DEF RequestEnds, NoRequest, TypeInv, DebriefTypeOK
  <1> QED
    BY <1>1 DEF ShownInv, ShowsActivePacket, OwnArtifact, RequestsNamed, Uncrossed, AnalyzingAwaits,
                ConfirmsActive, RefetchesOwn, ArtifactsOwn, Confirming

\* A comparison that ends writes the live artifact; without one it crosses, or was crossed before.
LEMMA ShownResult ==
  ASSUME TypeInv, ShownInv, NEW k \in Packets \cup {NoPacket}, ResultOpens(k),
         k = NoPacket => crossed
  PROVE  ShownInv'
  <1>1. /\ requests' = requests
        /\ artifacts' = [artifacts EXCEPT ![LiveArtifact] = IF k = NoPacket THEN Blank ELSE k]
        /\ debrief'.stage = "result"
        /\ k # NoPacket => debrief'.packet = k /\ debrief'.shownIn = LiveArtifact
        /\ k = NoPacket => debrief'.packet = debrief.packet /\ debrief'.shownIn = debrief.shownIn
    BY DEF ResultOpens, WithPacket, TypeInv, DebriefTypeOK
  <1>2. LiveArtifact \notin Packets /\ LiveArtifact \in Artifact
    BY DEF LiveArtifact, Packets, Artifact
  <1>3. OwnArtifact' /\ RequestsNamed'
    BY <1>1, <1>2 DEF ShownInv, OwnArtifact, RequestsNamed
  <1>4. CASE crossed'
    BY <1>3, <1>4 DEF ShownInv, ShowsActivePacket
  <1>5. CASE ~crossed'
    <2>1. /\ ~crossed /\ k # NoPacket
          /\ \A s \in Slots : ~Confirming(s)
          /\ \A s \in Slots : ~(requests[s].kind = "refetch" /\ requests[s].shownIn = LiveArtifact)
      BY <1>5 DEF ResultOpens
    <2>2. artifacts'[LiveArtifact] = k /\ \A p \in Packets : artifacts'[p] = artifacts[p]
      BY <1>1, <1>2, <2>1 DEF TypeInv, DebriefTypeOK, Artifact
    <2>3. ShowsActivePacket'
      BY <1>1, <2>1, <2>2 DEF ShowsActivePacket
    <2>4. AnalyzingAwaits' /\ ConfirmsActive' /\ ArtifactsOwn'
      BY <1>1, <2>1, <2>2
         DEF ShownInv, Uncrossed, AnalyzingAwaits, ConfirmsActive, ArtifactsOwn, Confirming
    <2>5. RefetchesOwn'
      BY <1>1, <2>1 DEF ShownInv, Uncrossed, RefetchesOwn
    <2> QED BY <1>3, <2>3, <2>4, <2>5 DEF ShownInv, Uncrossed
  <1> QED BY <1>4, <1>5

\* A packet that is reopened is shown in its own artifact, whether it was there or is new.
LEMMA ShownResumed ==
  ASSUME TypeInv, ShownInv, NEW p \in Packets, Resumed(p),
         artifacts' \in {artifacts, [artifacts EXCEPT ![p] = p]}, artifacts'[p] # NoPacket,
         \A s \in Slots : requests'[s] = requests[s] \/ requests'[s].kind = "none"
  PROVE  ShownInv'
  <1>1. /\ debrief'.packet = p /\ debrief'.shownIn = p /\ debrief'.stage = "result"
        /\ crossed' = (crossed \/ \E s \in Slots : Confirming(s))
    BY DEF Resumed, WithPacketReopened, TypeInv, DebriefTypeOK
  <1>2. p # LiveArtifact /\ p \in Artifact /\ LiveArtifact \in Artifact
    BY DEF LiveArtifact, Packets, Artifact
  <1>3. OwnArtifact' /\ RequestsNamed'
    BY <1>1 DEF ShownInv, OwnArtifact, RequestsNamed
  <1>4. CASE crossed'
    BY <1>3, <1>4 DEF ShownInv, ShowsActivePacket
  <1>5. CASE ~crossed'
    <2>1. ~crossed /\ \A s \in Slots : ~Confirming(s)
      BY <1>1, <1>5
    <2>2. /\ artifacts'[LiveArtifact] = artifacts[LiveArtifact]
          /\ \A q \in Packets : artifacts'[q] \in {artifacts[q], q}
      BY <1>2 DEF TypeInv, DebriefTypeOK, Artifact
    <2>3. ArtifactsOwn'
      BY <2>1, <2>2 DEF ShownInv, Uncrossed, ArtifactsOwn
    <2>4. ShowsActivePacket'
      BY <1>1, <2>3 DEF ShowsActivePacket, ArtifactsOwn
    <2>5. AnalyzingAwaits' /\ ConfirmsActive'
      BY <1>1, <2>1 DEF AnalyzingAwaits, ConfirmsActive, Confirming
    <2>6. RefetchesOwn'
      BY <1>1, <1>2, <2>1, <2>2 DEF ShownInv, Uncrossed, RefetchesOwn
    <2> QED BY <1>3, <2>3, <2>4, <2>5, <2>6 DEF ShownInv, Uncrossed
  <1> QED BY <1>4, <1>5

\* A link to another role forgets the packet, and with it the artifact of the comparison.
LEMMA ShownVisitRole ==
  ASSUME TypeInv, ShownInv, NEW r \in Roles, VisitRole(r)
  PROVE  ShownInv'
  <1>1. UNCHANGED <<generation, waiting, requests, crossed>>
    BY DEF VisitRole
  <1>2. CASE debrief.role = r
    BY <1>1, <1>2, PacketUntouched DEF VisitRole
  <1>3. CASE debrief.role # r
    <2>1. /\ debrief'.packet = NoPacket /\ debrief'.shownIn = LiveArtifact
          /\ debrief'.stage = "candidate_pick"
      BY <1>3 DEF VisitRole, Begun
    <2>2. artifacts' = [artifacts EXCEPT ![LiveArtifact] = NoPacket]
      BY <1>3 DEF VisitRole
    <2>3. LiveArtifact \notin Packets /\ DOMAIN artifacts = {LiveArtifact} \cup Packets
      BY DEF LiveArtifact, Packets, TypeInv, DebriefTypeOK, Artifact
    <2>4. /\ artifacts'[LiveArtifact] = NoPacket
          /\ \A p \in Packets : artifacts'[p] = artifacts[p]
      BY <2>2, <2>3
    <2> QED
      BY <1>1, <2>1, <2>3, <2>4
         DEF ShownInv, ShowsActivePacket, OwnArtifact, RequestsNamed, Uncrossed, AnalyzingAwaits,
             ConfirmsActive, RefetchesOwn, ArtifactsOwn, Confirming
  <1> QED BY <1>2, <1>3

\* A comparison that is asked for while another is awaited crosses it.
LEMMA ShownConfirmPick ==
  ASSUME TypeInv, ShownInv, ConfirmPick
  PROVE  ShownInv'
  <1>1. /\ debrief'.packet = debrief.packet /\ debrief'.shownIn = debrief.shownIn
        /\ UNCHANGED <<artifacts, requests, waiting>>
        /\ crossed' = (crossed \/ waiting # {})
    BY DEF ConfirmPick, TypeInv, DebriefTypeOK
  <1>2. generation' # NoPacket
    BY DEF ConfirmPick, NoPacket, TypeInv, DebriefTypeOK
  <1>3. ~crossed' => AnalyzingAwaits'
    BY <1>1, <1>2 DEF AnalyzingAwaits
  <1> QED
    BY <1>1, <1>3
       DEF ShownInv, ShowsActivePacket, OwnArtifact, RequestsNamed, Uncrossed, ConfirmsActive,
           RefetchesOwn, ArtifactsOwn, Confirming

\* The animation finds its comparison in flight, unless another dropped its promise.
LEMMA ShownAnimationDone ==
  ASSUME TypeInv, ShownInv, AnimationDone
  PROVE  ShownInv'
  <1>1. CASE generation = NoPacket
    <2>1. debrief.stage = "analyzing" /\ ResultOpens(NoPacket)
      BY <1>1 DEF AnimationDone, AtStage
    <2>2. crossed
      BY <1>1, <2>1 DEF ShownInv, Uncrossed, AnalyzingAwaits
    <2> QED BY <2>1, <2>2, ShownResult
  <1>2. CASE generation # NoPacket
    <2>1. /\ waiting' = waiting \cup {generation}
          /\ UNCHANGED <<debrief, artifacts, requests, crossed, generation>>
      BY <1>2 DEF AnimationDone, messageVars, countVars
    <2> QED
      BY <1>2, <2>1
         DEF ShownInv, ShowsActivePacket, OwnArtifact, RequestsNamed, Uncrossed, AnalyzingAwaits,
             ConfirmsActive, RefetchesOwn, ArtifactsOwn, Confirming
  <1> QED BY <1>1, <1>2

\* Marking a card leaves the packet and its artifact alone.
LEMMA MarkKeepsPacket ==
  ASSUME TypeInv, NEW c, NEW status, SetCard(c, status)
  PROVE  /\ debrief'.packet = debrief.packet /\ debrief'.shownIn = debrief.shownIn
         /\ debrief'.stage = debrief.stage
  BY DEF SetCard, TypeInv, DebriefTypeOK

\* What is confirmed is about the packet under discussion.
LEMMA ShownConfirm ==
  ASSUME TypeInv, ShownInv, NEW c \in Cards, NEW s \in Slots, Confirm(c, s)
  PROVE  ShownInv'
  <1>1. /\ debrief'.packet = debrief.packet /\ debrief'.shownIn = debrief.shownIn
        /\ debrief'.stage = debrief.stage
    BY MarkKeepsPacket DEF Confirm
  <1>2. UNCHANGED <<artifacts, crossed, generation, waiting>>
    BY DEF Confirm, Unpaged
  <1>3. CASE debrief.packet = NoPacket
    BY <1>1, <1>2, <1>3, PacketUntouched DEF Confirm
  <1>4. CASE debrief.packet # NoPacket
    <2> DEFINE q == [NoRequest EXCEPT !.kind = "action", !.packet = debrief.packet, !.card = c]
    <2>0. q.kind = "action" /\ q.packet = debrief.packet
      BY DEF NoRequest
    <2>1. requests' = [requests EXCEPT ![s] = q] /\ DOMAIN requests = Slots
      BY <1>4 DEF Confirm, TypeInv, DebriefTypeOK
    <2> HIDE DEF q
    <2>2. /\ requests'[s].kind = "action" /\ requests'[s].packet = debrief.packet
          /\ \A t \in Slots : t # s => requests'[t] = requests[t]
      BY <2>0, <2>1
    <2>3. debrief.packet \in Packets
      BY <1>4 DEF TypeInv, DebriefTypeOK
    <2> QED
      BY <1>1, <1>2, <2>2, <2>3
         DEF ShownInv, ShowsActivePacket, OwnArtifact, RequestsNamed, Uncrossed, AnalyzingAwaits,
             ConfirmsActive, RefetchesOwn, ArtifactsOwn, Confirming
  <1> QED BY <1>3, <1>4

\* An executed action fetches its packet for the artifact that is shown.
LEMMA ShownActionDone ==
  ASSUME TypeInv, ShownInv, NEW s \in Slots, ActionDone(s)
  PROVE  ShownInv'
  <1>1. /\ debrief'.packet = debrief.packet /\ debrief'.shownIn = debrief.shownIn
        /\ debrief'.stage = debrief.stage
    BY MarkKeepsPacket DEF ActionDone
  <1>2. UNCHANGED <<artifacts, crossed, generation, waiting>> /\ Confirming(s)
    BY DEF ActionDone, Unpaged, countVars
  <1>3. /\ requests'[s].kind = "refetch" /\ requests'[s].packet = requests[s].packet
        /\ requests'[s].shownIn = debrief.shownIn
        /\ \A t \in Slots : t # s => requests'[t] = requests[t]
    BY DEF ActionDone, NoRequest, TypeInv, DebriefTypeOK
  <1>4. requests[s].packet \in Packets
    BY <1>2 DEF ShownInv, RequestsNamed, Confirming
  <1>5. ShowsActivePacket' /\ OwnArtifact' /\ RequestsNamed'
    BY <1>1, <1>2, <1>3, <1>4 DEF ShownInv, ShowsActivePacket, OwnArtifact, RequestsNamed
  <1>6. CASE ~crossed
    <2>1. debrief.packet \in {NoPacket, requests[s].packet}
      BY <1>2, <1>6 DEF ShownInv, Uncrossed, ConfirmsActive
    <2>2. debrief.shownIn \in Packets => debrief.packet = debrief.shownIn
      BY DEF ShownInv, OwnArtifact
    <2>3. debrief.shownIn = LiveArtifact \/ debrief.shownIn \in Packets
      BY DEF TypeInv, DebriefTypeOK, Artifact
    <2>4. debrief.shownIn = LiveArtifact \/ debrief.shownIn = requests[s].packet
      BY <2>1, <2>2, <2>3 DEF NoPacket, Packets
    <2>5. RefetchesOwn'
      BY <1>1, <1>2, <1>3, <1>6, <2>1, <2>4 DEF ShownInv, Uncrossed, RefetchesOwn
    <2>6. AnalyzingAwaits' /\ ConfirmsActive' /\ ArtifactsOwn'
      BY <1>1, <1>2, <1>3, <1>6
         DEF ShownInv, Uncrossed, AnalyzingAwaits, ConfirmsActive, ArtifactsOwn, Confirming
    <2> QED BY <1>5, <2>5, <2>6 DEF ShownInv, Uncrossed
  <1>7. CASE crossed
    BY <1>2, <1>5, <1>7 DEF ShownInv
  <1> QED BY <1>6, <1>7

\* A refetch that ends writes its packet where it may be shown.
LEMMA ShownRefetch ==
  ASSUME TypeInv, ShownInv, NEW s \in Slots, RefetchEnds(s)
  PROVE  ShownInv'
  <1> DEFINE a == requests[s].shownIn
             p == requests[s].packet
  <1>1. UNCHANGED <<debrief, generation, waiting, crossed>> /\ RequestEnds(s)
        /\ requests[s].kind = "refetch"
    BY DEF RefetchEnds, messageVars, countVars
  <1>2. CASE UNCHANGED artifacts
    BY <1>1, <1>2, RequestEnded
  <1>3. CASE artifacts[a] # NoPacket /\ artifacts' = [artifacts EXCEPT ![a] = p]
    <2>1. /\ requests'[s].kind = "none"
          /\ \A t \in Slots : t # s => requests'[t] = requests[t]
      BY <1>1 DEF RequestEnds, NoRequest, TypeInv, DebriefTypeOK
    <2>2. a \in Artifact /\ p \in Packets
      BY <1>1 DEF ShownInv, RequestsNamed, TypeInv, DebriefTypeOK
    <2>3. /\ artifacts'[a] = p
          /\ \A b \in Artifact : b # a => artifacts'[b] = artifacts[b]
      BY <1>3, <2>2 DEF TypeInv, DebriefTypeOK
    <2> HIDE DEF a, p
    <2>4. OwnArtifact' /\ RequestsNamed'
      BY <1>1, <2>1 DEF ShownInv, OwnArtifact, RequestsNamed
    <2>5. CASE crossed
      BY <1>1, <2>4, <2>5 DEF ShownInv, ShowsActivePacket
    <2>6. CASE ~crossed
      <3>0. LiveArtifact \in Artifact /\ Packets \subseteq Artifact /\ LiveArtifact \notin Packets
        BY DEF Artifact, LiveArtifact, Packets
      <3>1. \/ a = p
            \/ /\ a = LiveArtifact
               /\ debrief.shownIn # LiveArtifact \/ debrief.packet \in {NoPacket, p}
        BY <1>1, <1>3, <2>6 DEF ShownInv, Uncrossed, RefetchesOwn, a, p
      <3>2. ArtifactsOwn'
        BY <2>2, <2>3, <2>6, <3>0, <3>1 DEF ShownInv, Uncrossed, ArtifactsOwn
      <3>3. debrief.shownIn \in Artifact
        BY DEF TypeInv, DebriefTypeOK
      <3>4. ShowsActivePacket'
        <4>1. CASE debrief.shownIn = a
          BY <1>1, <2>2, <2>3, <3>0, <3>1, <4>1
             DEF ShownInv, ShowsActivePacket, OwnArtifact
        <4>2. CASE debrief.shownIn # a
          BY <1>1, <2>3, <3>3, <4>2 DEF ShownInv, ShowsActivePacket
        <4> QED BY <4>1, <4>2
      <3>5. AnalyzingAwaits' /\ ConfirmsActive'
        BY <1>1, <2>1, <2>6 DEF ShownInv, Uncrossed, AnalyzingAwaits, ConfirmsActive, Confirming
      <3>6. artifacts[LiveArtifact] = NoPacket => artifacts'[LiveArtifact] = NoPacket
        BY <1>3, <2>3, <3>0
      <3>7. RefetchesOwn'
        BY <1>1, <2>1, <2>6, <3>6 DEF ShownInv, Uncrossed, RefetchesOwn
      <3> QED BY <2>4, <3>2, <3>4, <3>5, <3>7 DEF ShownInv, Uncrossed
    <2> QED BY <2>5, <2>6
  <1> QED BY <1>2, <1>3 DEF RefetchEnds

\* A packet is reopened at once when its artifact is there, and asked for otherwise.
LEMMA ShownReopen ==
  ASSUME TypeInv, ShownInv, NEW p \in Packets, NEW s \in Slots, ReopenPacket(p, s)
  PROVE  ShownInv'
  <1>1. UNCHANGED <<artifacts, generation, waiting>>
    BY DEF ReopenPacket, Unpaged
  <1>2. CASE artifacts[p] # NoPacket
    <2>1. Resumed(p) /\ UNCHANGED requests
      BY <1>2 DEF ReopenPacket
    <2> QED BY <1>1, <1>2, <2>1, ShownResumed
  <1>3. CASE artifacts[p] = NoPacket
    <2> DEFINE q == [NoRequest EXCEPT !.kind = "reopen", !.packet = p]
    <2>0. q.kind = "reopen" /\ q.packet = p
      BY DEF NoRequest
    <2>1. /\ requests' = [requests EXCEPT ![s] = q] /\ DOMAIN requests = Slots
          /\ UNCHANGED <<debrief, crossed>>
      BY <1>3 DEF ReopenPacket, TypeInv, DebriefTypeOK
    <2> HIDE DEF q
    <2>2. /\ requests'[s].kind = "reopen" /\ requests'[s].packet = p
          /\ \A t \in Slots : t # s => requests'[t] = requests[t]
      BY <2>0, <2>1
    <2> QED
      BY <1>1, <2>1, <2>2
         DEF ShownInv, ShowsActivePacket, OwnArtifact, RequestsNamed, Uncrossed, AnalyzingAwaits,
             ConfirmsActive, RefetchesOwn, ArtifactsOwn, Confirming
  <1> QED BY <1>2, <1>3

LEMMA ShownReopenArrives ==
  ASSUME TypeInv, ShownInv, NEW s \in Slots, ReopenArrives(s)
  PROVE  ShownInv'
  <1> DEFINE p == requests[s].packet
  <1>1. p \in Packets
    BY DEF ReopenArrives, ShownInv, RequestsNamed
  <1>2. artifacts' = [artifacts EXCEPT ![p] = p] /\ Resumed(p) /\ RequestEnds(s)
    BY DEF ReopenArrives
  <1>3. artifacts'[p] # NoPacket
    BY <1>1, <1>2 DEF TypeInv, DebriefTypeOK, Artifact, Packets, NoPacket
  <1>4. \A t \in Slots : requests'[t] = requests[t] \/ requests'[t].kind = "none"
    BY <1>2 DEF RequestEnds, NoRequest, TypeInv, DebriefTypeOK
  <1> HIDE DEF p
  <1> QED BY <1>1, <1>2, <1>3, <1>4, ShownResumed

\* A page that is loaded, or that was never entered, discusses nothing.
LEMMA ShownFresh ==
  ASSUME debrief = NoDebrief, artifacts = [a \in Artifact |-> NoPacket],
         requests = [s \in Slots |-> NoRequest]
  PROVE  ShownInv
  <1>1. debrief.packet = NoPacket /\ debrief.shownIn = LiveArtifact /\ debrief.stage = "none"
    BY DEF NoDebrief, Begun
  <1>2. \A s \in Slots : requests[s].kind = "none"
    BY DEF NoRequest
  <1>3. LiveArtifact \notin Packets /\ \A p \in Packets : artifacts[p] = NoPacket
    BY DEF LiveArtifact, Packets, Artifact
  <1> QED
    BY <1>1, <1>2, <1>3
       DEF ShownInv, ShowsActivePacket, OwnArtifact, RequestsNamed, Uncrossed, AnalyzingAwaits,
           ConfirmsActive, RefetchesOwn, ArtifactsOwn, Confirming

LEMMA ShownReload ==
  ASSUME ReloadPage
  PROVE  ShownInv'
  <1>1. /\ debrief' = NoDebrief /\ artifacts' = [a \in Artifact |-> NoPacket]
        /\ requests' = [s \in Slots |-> NoRequest]
    BY DEF ReloadPage
  <1>2. debrief'.packet = NoPacket /\ debrief'.shownIn = LiveArtifact /\ debrief'.stage = "none"
    BY <1>1 DEF NoDebrief, Begun
  <1>3. \A s \in Slots : requests'[s].kind = "none"
    BY <1>1 DEF NoRequest
  <1>4. LiveArtifact \notin Packets /\ \A p \in Packets : artifacts'[p] = NoPacket
    BY <1>1 DEF LiveArtifact, Packets, Artifact
  <1> QED
    BY <1>2, <1>3, <1>4
       DEF ShownInv, ShowsActivePacket, OwnArtifact, RequestsNamed, Uncrossed, AnalyzingAwaits,
           ConfirmsActive, RefetchesOwn, ArtifactsOwn, Confirming

LEMMA ShownStep ==
  ASSUME TypeInv, ShownInv, [DebriefNext]_debriefVars
  PROVE  ShownInv'
  <1> USE DEF countVars, messageVars, Unpaged
  <1>1. ASSUME Visit PROVE ShownInv'
    <2>1. CASE debrief = NoDebrief
      <3>1. /\ debrief'.packet = debrief.packet /\ debrief'.shownIn = debrief.shownIn
            /\ debrief'.stage # "analyzing"
        BY <1>1, <2>1 DEF Visit, NoDebrief, Begun
      <3> QED BY <1>1, <3>1, StageLeft DEF Visit
    <2>2. CASE debrief # NoDebrief
      BY <1>1, <2>2, PacketUntouched DEF Visit
    <2> QED BY <2>1, <2>2
  <1>2. ASSUME NEW r \in Roles, VisitRole(r) PROVE ShownInv'
    BY <1>2, ShownVisitRole
  <1>3. ASSUME NEW r \in Roles, PickRole(r) PROVE ShownInv'
    BY <1>3, StageLeft DEF PickRole, TypeInv, DebriefTypeOK
  <1>4. ASSUME Leave PROVE ShownInv'
    BY <1>4, PacketUntouched DEF Leave
  <1>5. ASSUME LoadEarlier PROVE ShownInv'
    <2>1. /\ debrief'.packet = debrief.packet /\ debrief'.shownIn = debrief.shownIn
          /\ debrief'.stage = debrief.stage
      BY <1>5 DEF LoadEarlier, TypeInv, DebriefTypeOK
    <2> QED BY <1>5, <2>1, PacketUntouched DEF LoadEarlier, pageVarsOfDebrief
  <1>6. ASSUME Flush PROVE ShownInv'
    BY <1>6, PacketUntouched DEF Flush, pageVarsOfDebrief
  <1>7. ASSUME ReloadPage PROVE ShownInv'
    BY <1>7, ShownReload
  <1>8. ASSUME CancelPick PROVE ShownInv'
    BY <1>8, StageLeft DEF CancelPick, pageVarsOfDebrief, TypeInv, DebriefTypeOK
  <1>9. ASSUME ConfirmPick PROVE ShownInv'
    BY <1>9, ShownConfirmPick
  <1>10. ASSUME AnimationDone PROVE ShownInv'
    BY <1>10, ShownAnimationDone
  <1>11. ASSUME NEW k \in Packets, GenerationEnds(k) PROVE ShownInv'
    BY <1>11, PacketUntouched DEF GenerationEnds, pageVarsOfDebrief
  <1>12. ASSUME NEW k \in Packets, ComparisonArrives(k) PROVE ShownInv'
    <2>1. k # NoPacket
      BY DEF Packets, NoPacket
    <2> QED BY <1>12, <2>1, ShownResult DEF ComparisonArrives
  <1>13. ASSUME NEW k \in Packets, ComparisonFails(k) PROVE ShownInv'
    BY <1>13, StageLeft DEF ComparisonFails, Failed, TypeInv, DebriefTypeOK
  <1>14. ASSUME RetryFromFailure PROVE ShownInv'
    BY <1>14, StageLeft DEF RetryFromFailure, TypeInv, DebriefTypeOK
  <1>15. ASSUME NEW k \in Packets, PillAppended(k) PROVE ShownInv'
    <2>1. /\ debrief'.packet = debrief.packet /\ debrief'.shownIn = debrief.shownIn
          /\ debrief'.stage = debrief.stage
      BY <1>15 DEF PillAppended, TypeInv, DebriefTypeOK
    <2> QED BY <1>15, <2>1, PacketUntouched DEF PillAppended
  <1>16. ASSUME SubmitMessage \/ TurnEnds PROVE ShownInv'
    BY <1>16, PacketUntouched DEF SubmitMessage, TurnEnds
  <1>17. ASSUME Proposal PROVE ShownInv'
    <2>1. /\ debrief'.packet = debrief.packet /\ debrief'.shownIn = debrief.shownIn
          /\ debrief'.stage = debrief.stage
      BY <1>17 DEF Proposal, TypeInv, DebriefTypeOK
    <2> QED BY <1>17, <2>1, PacketUntouched DEF Proposal
  <1>18. ASSUME NewDebrief PROVE ShownInv'
    BY <1>18, StageLeft DEF NewDebrief, TypeInv, DebriefTypeOK
  <1>19. ASSUME NEW c \in Cards, Dismiss(c) PROVE ShownInv'
    BY <1>19, MarkKeepsPacket, PacketUntouched DEF Dismiss
  <1>20. ASSUME NEW c \in Cards, NEW s \in Slots, Confirm(c, s) PROVE ShownInv'
    BY <1>20, ShownConfirm
  <1>21. ASSUME NEW s \in Slots, ActionRefused(s) PROVE ShownInv'
    BY <1>21, MarkKeepsPacket, RequestEnded DEF ActionRefused
  <1>22. ASSUME NEW s \in Slots, ActionDone(s) PROVE ShownInv'
    BY <1>22, ShownActionDone
  <1>23. ASSUME NEW s \in Slots, RefetchEnds(s) PROVE ShownInv'
    BY <1>23, ShownRefetch
  <1>24. ASSUME NEW p \in Packets, NEW s \in Slots, ReopenPacket(p, s) PROVE ShownInv'
    BY <1>24, ShownReopen
  <1>25. ASSUME NEW s \in Slots, ReopenArrives(s) PROVE ShownInv'
    BY <1>25, ShownReopenArrives
  <1>26. ASSUME NEW s \in Slots, ReopenFails(s) PROVE ShownInv'
    BY <1>26, RequestEnded DEF ReopenFails
  <1>27. ASSUME UNCHANGED debriefVars PROVE ShownInv'
    BY <1>27, PacketUntouched DEF debriefVars, pageVarsOfDebrief
  <1> QED
    BY <1>1, <1>2, <1>3, <1>4, <1>5, <1>6, <1>7, <1>8, <1>9, <1>10, <1>11, <1>12, <1>13, <1>14,
       <1>15, <1>16, <1>17, <1>18, <1>19, <1>20, <1>21, <1>22, <1>23, <1>24, <1>25, <1>26, <1>27
       DEF DebriefNext, Comparing

\* The artifact beside the chat shows the packet that the chat and its cards act on, for any number
\* of comparisons, reopened packets and refetches, until one of the two excepted cases.
THEOREM ArtifactShowsActivePacket == DebriefSpec => []ShowsActivePacket
  <1>1. DebriefInit => TypeInv /\ ShownInv
    BY TypeInit, ShownFresh DEF DebriefInit
  <1>2. TypeInv /\ ShownInv /\ [DebriefNext]_debriefVars => (TypeInv /\ ShownInv)'
    BY TypeStep, ShownStep
  <1>3. ShownInv => ShowsActivePacket
    BY DEF ShownInv
  <1> QED BY <1>1, <1>2, <1>3, PTL DEF DebriefSpec

-----------------------------------------------------------------------------
(* The analyzing stage awaits something. *)

\* Once the animation is over the stage awaits a comparison.
AwaitInv == debrief.stage = "analyzing" /\ animated => waiting # {}

\* A step away from the stage, or to its beginning, or one that leaves it alone.
LEMMA AwaitKept ==
  ASSUME AwaitInv,
         \/ debrief'.stage # "analyzing"
         \/ animated' = FALSE
         \/ debrief'.stage = debrief.stage /\ animated' = animated /\ waiting' = waiting
  PROVE  AwaitInv'
  BY DEF AwaitInv

LEMMA AwaitStep ==
  ASSUME TypeInv, AwaitInv, [DebriefNext]_debriefVars
  PROVE  AwaitInv'
  <1> USE DEF countVars, messageVars, Unpaged, pageVarsOfDebrief
  <1>0. DOMAIN debrief = {"stage", "role", "packet", "shownIn", "messages"}
    BY DEF TypeInv, DebriefTypeOK
  <1>1. CASE Visit \/ \E r \in Roles : VisitRole(r) \/ PickRole(r)
    <2>1. CASE Visit
      <3>1. debrief'.stage = "role_pick" \/ debrief' = debrief
        BY <2>1 DEF Visit, Begun
      <3> QED BY <2>1, <3>1, AwaitKept DEF Visit
    <2>2. ASSUME NEW r \in Roles, VisitRole(r) PROVE AwaitInv'
      <3>1. debrief'.stage = "candidate_pick" \/ (debrief' = debrief /\ animated' = animated)
        BY <2>2 DEF VisitRole, Begun
      <3> QED BY <2>2, <3>1, AwaitKept DEF VisitRole
    <2>3. ASSUME NEW r \in Roles, PickRole(r) PROVE AwaitInv'
      BY <1>0, <2>3, AwaitKept DEF PickRole
    <2> QED BY <1>1, <2>1, <2>2, <2>3
  <1>2. CASE Leave \/ LoadEarlier \/ Flush \/ ReloadPage
    BY <1>0, <1>2, AwaitKept DEF Leave, LoadEarlier, Flush, ReloadPage, NoDebrief, Begun
  <1>3. CASE CancelPick \/ ConfirmPick \/ RetryFromFailure
    BY <1>0, <1>3, AwaitKept DEF CancelPick, ConfirmPick, RetryFromFailure
  <1>4. ASSUME NEW k, ResultOpens(k) PROVE AwaitInv'
    BY <1>4, AwaitKept DEF ResultOpens
  <1>5. CASE AnimationDone
    <2>1. CASE generation = NoPacket
      BY <1>4, <1>5, <2>1 DEF AnimationDone
    <2>2. CASE generation # NoPacket
      BY <1>5, <2>2 DEF AnimationDone, AwaitInv
    <2> QED BY <2>1, <2>2
  <1>6. ASSUME NEW k \in Packets, GenerationEnds(k) \/ ComparisonArrives(k) \/ ComparisonFails(k)
        PROVE  AwaitInv'
    <2>1. CASE GenerationEnds(k)
      BY <2>1, AwaitKept DEF GenerationEnds
    <2>2. CASE ComparisonArrives(k)
      BY <1>4, <2>2 DEF ComparisonArrives
    <2>3. CASE ComparisonFails(k)
      BY <1>0, <2>3, AwaitKept DEF ComparisonFails, Failed
    <2> QED BY <1>6, <2>1, <2>2, <2>3
  <1>7. CASE \/ \E k \in Packets : PillAppended(k)
             \/ SubmitMessage \/ TurnEnds \/ Proposal \/ NewDebrief
    BY <1>0, <1>7, AwaitKept DEF PillAppended, SubmitMessage, TurnEnds, Proposal, NewDebrief, AbortTurn
  <1>8. ASSUME NEW c, NEW status, SetCard(c, status) PROVE debrief'.stage = debrief.stage
    BY <1>8, MarkKeepsPacket
  <1>9. CASE \E c \in Cards : Dismiss(c) \/ \E s \in Slots : Confirm(c, s)
    BY <1>8, <1>9, AwaitKept DEF Dismiss, Confirm
  <1>10. CASE \E s \in Slots : ActionRefused(s) \/ ActionDone(s) \/ RefetchEnds(s) \/ ReopenFails(s)
    BY <1>8, <1>10, AwaitKept DEF ActionRefused, ActionDone, RefetchEnds, ReopenFails
  <1>11. CASE \E s \in Slots : (\E p \in Packets : ReopenPacket(p, s)) \/ ReopenArrives(s)
    BY <1>0, <1>11, AwaitKept DEF ReopenPacket, ReopenArrives, Resumed, WithPacketReopened
  <1>12. CASE UNCHANGED debriefVars
    BY <1>12, AwaitKept DEF debriefVars
  <1> QED
    BY <1>1, <1>2, <1>3, <1>5, <1>6, <1>7, <1>9, <1>10, <1>11, <1>12 DEF DebriefNext, Comparing

\* The analyzing stage that is shown has its animation to end or a comparison that
\* was started to wait for, also when the recruiter left and came back: what
\* AnalyzingEnds needs but fairness.
THEOREM AnalyzingIsAwaited ==
    DebriefSpec => [](AtStage("analyzing") => ~animated \/ \E k \in waiting : k \in DOMAIN generated)
  <1>1. DebriefInit => TypeInv /\ AwaitInv
    BY TypeInit DEF DebriefInit, AwaitInv
  <1>2. TypeInv /\ AwaitInv /\ [DebriefNext]_debriefVars => (TypeInv /\ AwaitInv)'
    BY TypeStep, AwaitStep
  <1>3. TypeInv /\ AwaitInv
           => (AtStage("analyzing") => ~animated \/ \E k \in waiting : k \in DOMAIN generated)
    BY DEF TypeInv, DebriefTypeOK, AwaitInv, AtStage
  <1> QED BY <1>1, <1>2, <1>3, PTL DEF DebriefSpec
=============================================================================
