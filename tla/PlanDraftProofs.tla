-------------------------- MODULE PlanDraftProofs ---------------------------
(***************************************************************************)
(* Proofs about the plan editor and about publishing.  The first invariant *)
(* says that the draft and every plan undo can give back are sound:        *)
(* numbered in order, with question ids of their own that are no higher    *)
(* than the next free one, and of rounds of the session.  The second, for  *)
(* publishing, says who may be writing the rounds and what is written.     *)
(***************************************************************************)
EXTENDS PlanPublish, SequenceTheorems, TLAPS

-----------------------------------------------------------------------------
(* Sequences.                                                              *)

LEMMA RemoveAtIs ==
  ASSUME NEW S, NEW s \in Seq(S), NEW i \in 1..Len(s)
  PROVE  /\ RemoveAt(s, i) \in Seq(S)
         /\ Len(RemoveAt(s, i)) = Len(s) - 1
         /\ \A j \in 1..Len(s) - 1 : RemoveAt(s, i)[j] = IF j < i THEN s[j] ELSE s[j + 1]
  <1> DEFINE a == SubSeq(s, 1, i - 1)
             b == SubSeq(s, i + 1, Len(s))
  <1>1. Len(s) \in Nat /\ \A j \in 1..Len(s) : s[j] \in S
    OBVIOUS
  <1>2. a \in Seq(S) /\ Len(a) = i - 1 /\ \A j \in 1..i - 1 : a[j] = s[j]
    BY <1>1, SubSeqProperties
  <1>3. b \in Seq(S) /\ Len(b) = Len(s) - i /\ \A j \in 1..Len(s) - i : b[j] = s[i + j]
    BY <1>1, SubSeqProperties
  <1> HIDE DEF a, b
  <1>4. /\ a \o b \in Seq(S) /\ Len(a \o b) = Len(a) + Len(b)
        /\ \A j \in 1..Len(a) + Len(b) : (a \o b)[j] = IF j <= Len(a) THEN a[j] ELSE b[j - Len(a)]
    BY <1>2, <1>3, ConcatProperties
  <1>5. Len(a) + Len(b) = Len(s) - 1
    BY <1>1, <1>2, <1>3
  <1>6. ASSUME NEW j \in 1..Len(s) - 1
        PROVE  (a \o b)[j] = IF j < i THEN s[j] ELSE s[j + 1]
    <2>1. CASE j < i
      BY <1>1, <1>2, <1>4, <1>5, <2>1
    <2>2. CASE ~(j < i)
      <3>1. j - (i - 1) \in 1..Len(s) - i /\ i + (j - (i - 1)) = j + 1
        BY <1>1, <2>2
      <3>2. (a \o b)[j] = b[j - (i - 1)]
        BY <1>1, <1>2, <1>4, <1>5, <2>2
      <3> QED BY <1>3, <2>2, <3>1, <3>2
    <2> QED BY <2>1, <2>2
  <1> QED BY <1>4, <1>5, <1>6 DEF RemoveAt, a, b

LEMMA InsertAtIs ==
  ASSUME NEW S, NEW s \in Seq(S), NEW i \in 1..Len(s) + 1, NEW e \in S
  PROVE  /\ InsertAt(s, i, e) \in Seq(S)
         /\ Len(InsertAt(s, i, e)) = Len(s) + 1
         /\ \A j \in 1..Len(s) + 1 :
               InsertAt(s, i, e)[j] = IF j < i THEN s[j] ELSE IF j = i THEN e ELSE s[j - 1]
  <1> DEFINE a == SubSeq(s, 1, i - 1)
             b == SubSeq(s, i, Len(s))
             c == a \o <<e>>
  <1>1. Len(s) \in Nat /\ \A j \in 1..Len(s) : s[j] \in S
    OBVIOUS
  <1>2. a \in Seq(S) /\ Len(a) = i - 1 /\ \A j \in 1..i - 1 : a[j] = s[j]
    BY <1>1, SubSeqProperties
  <1>3. /\ b \in Seq(S) /\ Len(b) = Len(s) - i + 1
        /\ \A j \in 1..Len(s) - i + 1 : b[j] = s[i + j - 1]
    BY <1>1, SubSeqProperties
  <1>4. <<e>> \in Seq(S) /\ Len(<<e>>) = 1 /\ <<e>>[1] = e
    OBVIOUS
  <1> HIDE DEF a, b
  <1>5. /\ c \in Seq(S) /\ Len(c) = i
        /\ \A j \in 1..i : c[j] = IF j <= i - 1 THEN a[j] ELSE <<e>>[j - (i - 1)]
    BY <1>1, <1>2, <1>4, ConcatProperties
  <1>6. \A j \in 1..i : c[j] = IF j < i THEN s[j] ELSE e
    BY <1>1, <1>2, <1>4, <1>5
  <1> HIDE DEF c
  <1>7. /\ c \o b \in Seq(S) /\ Len(c \o b) = Len(c) + Len(b)
        /\ \A j \in 1..Len(c) + Len(b) : (c \o b)[j] = IF j <= Len(c) THEN c[j] ELSE b[j - Len(c)]
    BY <1>3, <1>5, ConcatProperties
  <1>8. Len(c) + Len(b) = Len(s) + 1
    BY <1>1, <1>3, <1>5
  <1>9. ASSUME NEW j \in 1..Len(s) + 1
        PROVE  (c \o b)[j] = IF j < i THEN s[j] ELSE IF j = i THEN e ELSE s[j - 1]
    <2>1. CASE j <= i
      BY <1>1, <1>5, <1>6, <1>7, <1>8, <2>1
    <2>2. CASE ~(j <= i)
      <3>1. j - i \in 1..Len(s) - i + 1 /\ i + (j - i) - 1 = j - 1
        BY <1>1, <2>2
      <3>2. (c \o b)[j] = b[j - i]
        BY <1>1, <1>5, <1>7, <1>8, <2>2
      <3> QED BY <1>3, <2>2, <3>1, <3>2
    <2> QED BY <2>1, <2>2
  <1> QED BY <1>7, <1>8, <1>9 DEF InsertAt, a, b, c

\* What was taken out and put back at its place is as it was.
LEMMA InsertedBack ==
  ASSUME NEW S, NEW s \in Seq(S), NEW i \in 1..Len(s)
  PROVE  InsertAt(RemoveAt(s, i), i, s[i]) = s
  <1> DEFINE t == RemoveAt(s, i)
             e == s[i]
             u == InsertAt(t, i, e)
  <1>1. /\ t \in Seq(S) /\ Len(t) = Len(s) - 1 /\ e \in S /\ Len(s) \in Nat
        /\ \A j \in 1..Len(s) - 1 : t[j] = IF j < i THEN s[j] ELSE s[j + 1]
    BY RemoveAtIs
  <1>a. e = s[i]
    OBVIOUS
  <1> HIDE DEF t, e
  <1>2. i \in 1..Len(t) + 1
    BY <1>1
  <1>3. /\ u \in Seq(S) /\ Len(u) = Len(t) + 1
        /\ \A j \in 1..Len(t) + 1 : u[j] = IF j < i THEN t[j] ELSE IF j = i THEN e ELSE t[j - 1]
    <2>1. t \in Seq(S) /\ i \in 1..Len(t) + 1 /\ e \in S
      BY <1>1, <1>2
    <2>2. u \in Seq(S)
      BY <2>1, InsertAtIs, Zenon
    <2>3. Len(u) = Len(t) + 1
      BY <2>1, InsertAtIs, SMTT(30)
    <2>4. \A j \in 1..Len(t) + 1 : u[j] = IF j < i THEN t[j] ELSE IF j = i THEN e ELSE t[j - 1]
      BY <2>1, InsertAtIs, SMTT(30)
    <2> QED BY <2>2, <2>3, <2>4
  <1> HIDE DEF u
  <1>4. ASSUME NEW j \in 1..Len(s) PROVE u[j] = s[j]
    <2>1. j \in 1..Len(t) + 1
      BY <1>1
    <2>2. CASE j < i
      <3>1. j \in 1..Len(s) - 1
        BY <1>1, <2>2
      <3> QED BY <1>1, <1>3, <2>1, <2>2, <3>1
    <2>3. CASE j = i
      BY <1>a, <1>3, <2>1, <2>3
    <2>4. CASE ~(j <= i)
      <3>1. j - 1 \in 1..Len(s) - 1 /\ ~(j - 1 < i) /\ j - 1 + 1 = j /\ ~(j < i) /\ j # i
        BY <1>1, <2>4
      <3> QED BY <1>1, <1>3, <2>1, <3>1
    <2> QED BY <1>1, <2>2, <2>3, <2>4
  <1>5. u = s
    BY <1>1, <1>3, <1>4, SeqEqual
  <1> QED BY <1>5 DEF t, u, e

LEMMA FrontIs ==
  ASSUME NEW S, NEW s \in Seq(S), s # <<>>
  PROVE  /\ Len(s) \in 1..Len(s) /\ Last(s) = s[Len(s)]
         /\ Front(s) \in Seq(S) /\ Len(Front(s)) = Len(s) - 1
         /\ Front(s) = SubSeq(s, 1, Len(s) - 1)
         /\ \A j \in 1..Len(s) - 1 : Front(s)[j] = s[j]
  <1>1. Len(s) \in Nat /\ Len(s) # 0 /\ \A j \in 1..Len(s) : s[j] \in S
    BY EmptySeq
  <1>2. Front(s) = SubSeq(s, 1, Len(s) - 1) /\ Last(s) = s[Len(s)]
    BY DEF Front, Last
  <1>3. /\ SubSeq(s, 1, Len(s) - 1) \in Seq(S) /\ Len(SubSeq(s, 1, Len(s) - 1)) = Len(s) - 1
        /\ \A j \in 1..Len(s) - 1 : SubSeq(s, 1, Len(s) - 1)[j] = s[j]
    <2> DEFINE n == Len(s) - 1
               t == SubSeq(s, 1, n)
    <2>1. n \in Int /\ 1 \in Int /\ 0 <= n /\ \A j \in 1..n : s[j] \in S
      BY <1>1
    <2> HIDE DEF n
    <2>2. /\ t \in Seq(S) /\ Len(t) = (IF 1 <= n THEN n - 1 + 1 ELSE 0)
          /\ \A j \in 1..n - 1 + 1 : t[j] = s[1 + j - 1]
      BY <2>1, SubSeqProperties
    <2> HIDE DEF t
    <2>3. t \in Seq(S) /\ Len(t) = n /\ \A j \in 1..n : t[j] = s[j]
      BY <2>1, <2>2
    <2> QED BY <2>3 DEF n, t
  <1> QED BY <1>1, <1>2, <1>3

LEMMA FrontOfAppend ==
  ASSUME NEW S, NEW s \in Seq(S), NEW e \in S
  PROVE  Front(Append(s, e)) = s /\ Last(Append(s, e)) = e
  <1> DEFINE t == Append(s, e)
  <1>1. /\ t \in Seq(S) /\ Len(t) = Len(s) + 1 /\ Len(s) \in Nat
        /\ t[Len(s) + 1] = e /\ \A j \in 1..Len(s) : t[j] = s[j]
    OBVIOUS
  <1>2. /\ Front(t) \in Seq(S) /\ Len(Front(t)) = Len(s)
        /\ \A j \in 1..Len(s) : Front(t)[j] = t[j]
    BY <1>1, SubSeqProperties DEF Front
  <1>3. Front(t) = s
    BY <1>1, <1>2, SeqEqual
  <1> QED BY <1>1, <1>3 DEF Last

LEMMA PutBack ==
  ASSUME NEW S, NEW s \in Seq(S), NEW i \in 1..Len(s), NEW e \in S
  PROVE  [[s EXCEPT ![i] = e] EXCEPT ![i] = s[i]] = s
  <1> DEFINE t == [s EXCEPT ![i] = e]
             u == [t EXCEPT ![i] = s[i]]
  <1>1. s[i] \in S
    BY ElementOfSeq
  <1>2. /\ t \in Seq(S) /\ Len(t) = Len(s)
        /\ \A j \in 1..Len(s) : t[j] = IF j = i THEN e ELSE s[j]
    BY ExceptSeq
  <1>3. /\ u \in Seq(S) /\ Len(u) = Len(s)
        /\ \A j \in 1..Len(s) : u[j] = IF j = i THEN s[i] ELSE t[j]
    BY <1>1, <1>2, ExceptSeq
  <1>4. \A j \in 1..Len(s) : u[j] = s[j]
    BY <1>2, <1>3
  <1> HIDE DEF t, u
  <1>5. u = s
    BY <1>3, <1>4, SeqEqual
  <1> QED BY <1>5 DEF t, u

-----------------------------------------------------------------------------
(* Sound plans.                                                            *)

\* Question ids of their own, below the next free one.
OwnIds(qs, f) ==
    \A i, j \in DOMAIN qs : qs[i].id < f /\ (qs[i].id = qs[j].id => i = j)

Sound(p, f) ==
    /\ p \in Seq(Round)
    /\ \A k \in 1..Len(p) : p[k].num = k /\ OwnIds(p[k].questions, f)

LEMMA DeliveredSound ==
  ASSUME NEW p \in Plans
  PROVE  Sound(p, FirstFree)
  <1>1. p \in Seq(Round) /\ Normalized(p)
    BY DraftAssumption
  <1>2. DOMAIN p = 1..Len(p)
    BY <1>1
  <1> QED BY <1>1, <1>2 DEF Sound, OwnIds, Normalized, Numbered

LEMMA SoundLater ==
  ASSUME NEW f \in Nat, NEW g \in Nat, f <= g, NEW p, Sound(p, f)
  PROVE  Sound(p, g)
  <1> SUFFICES ASSUME NEW k \in 1..Len(p) PROVE OwnIds(p[k].questions, g)
    BY DEF Sound
  <1> DEFINE qs == p[k].questions
  <1>1. p[k] \in Round /\ OwnIds(qs, f)
    BY ElementOfSeq DEF Sound
  <1>2. qs \in Seq(Question)
    BY <1>1 DEF Round
  <1> HIDE DEF qs
  <1>3. \A i \in DOMAIN qs : qs[i] \in Question
    BY <1>2
  <1>4. \A i \in DOMAIN qs : qs[i].id \in Nat
    BY <1>3, DraftAssumption DEF Question, Text
  <1>5. OwnIds(qs, g)
    BY <1>1, <1>4 DEF OwnIds
  <1> QED BY <1>5 DEF qs

LEMMA SoundIsNumbered == ASSUME NEW p, NEW f, Sound(p, f) PROVE Numbered(p)
  BY DEF Sound, Numbered

\* Numbering again a plan that was numbered changes nothing.
LEMMA RenumberedSame ==
  ASSUME NEW p, NEW f, Sound(p, f)
  PROVE  Renumbered(p) = p
  <1>1. p \in Seq(Round) /\ DOMAIN p = 1..Len(p)
    BY DEF Sound
  <1>2. \A k \in 1..Len(p) : p[k] \in Round /\ p[k].num = k
    BY <1>1 DEF Sound
  <1>3. \A k \in 1..Len(p) : [p[k] EXCEPT !.num = k] = p[k]
    BY <1>2 DEF Round
  <1> QED BY <1>1, <1>3 DEF Renumbered

\* One round of a sound plan is replaced by a sound version of it.
LEMMA SoundWith ==
  ASSUME NEW p, NEW f, Sound(p, f), NEW k \in 1..Len(p), NEW r \in Round,
         r.num = k, r.id = p[k].id, OwnIds(r.questions, f)
  PROVE  /\ Sound([p EXCEPT ![k] = r], f)
         /\ IdsIn([p EXCEPT ![k] = r]) = IdsIn(p)
  <1> DEFINE t == [p EXCEPT ![k] = r]
  <1>1. /\ t \in Seq(Round) /\ Len(t) = Len(p)
        /\ \A j \in 1..Len(p) : t[j] = IF j = k THEN r ELSE p[j]
    BY ExceptSeq DEF Sound
  <1>2. DOMAIN t = 1..Len(p) /\ DOMAIN p = 1..Len(p)
    BY <1>1 DEF Sound
  <1>3. IdsIn(t) = IdsIn(p)
    BY <1>1, <1>2 DEF IdsIn
  <1>4. Sound(t, f)
    BY <1>1 DEF Sound
  <1> QED BY <1>3, <1>4

LEMMA RenumberedIs ==
  ASSUME NEW q \in Seq(Round), NEW f,
         \A j \in 1..Len(q) : OwnIds(q[j].questions, f)
  PROVE  /\ Sound(Renumbered(q), f)
         /\ Len(Renumbered(q)) = Len(q)
         /\ \A j \in 1..Len(q) : Renumbered(q)[j] = [q[j] EXCEPT !.num = j]
         /\ IdsIn(Renumbered(q)) = IdsIn(q)
  <1> DEFINE e(j) == [q[j] EXCEPT !.num = j]
             t == [j \in 1..Len(q) |-> e(j)]
  <1>1. Len(q) \in Nat /\ DOMAIN q = 1..Len(q) /\ \A j \in 1..Len(q) : q[j] \in Round
    OBVIOUS
  <1>2. Renumbered(q) = t
    BY <1>1 DEF Renumbered
  <1>3. ASSUME NEW j \in 1..Len(q)
        PROVE  /\ e(j) \in Round /\ e(j).num = j /\ e(j).id = q[j].id
               /\ e(j).questions = q[j].questions
    <2>1. q[j] \in Round /\ j \in Nat \ {0}
      BY <1>1
    <2> QED BY <2>1 DEF Round
  <1> HIDE DEF e
  <1>4. t \in Seq(Round) /\ Len(t) = Len(q) /\ DOMAIN t = 1..Len(q)
    BY <1>1, <1>3
  <1>5. \A j \in 1..Len(q) : t[j] = e(j)
    OBVIOUS
  <1> HIDE DEF t
  <1>6. Sound(t, f)
    BY <1>3, <1>4, <1>5 DEF Sound
  <1>7. IdsIn(t) = IdsIn(q)
    BY <1>1, <1>3, <1>4, <1>5 DEF IdsIn
  <1> QED BY <1>2, <1>4, <1>5, <1>6, <1>7 DEF e

\* A round is taken out, and undo puts it back.
LEMMA RoundTakenOut ==
  ASSUME NEW p, NEW f, Sound(p, f), NEW k \in 1..Len(p)
  PROVE  /\ Sound(Renumbered(RemoveAt(p, k)), f)
         /\ IdsIn(Renumbered(RemoveAt(p, k))) \subseteq IdsIn(p)
         /\ Renumbered(InsertAt(Renumbered(RemoveAt(p, k)), k, p[k])) = p
  <1> DEFINE q == RemoveAt(p, k)
             r == Renumbered(q)
             u == InsertAt(r, k, p[k])
             v == Renumbered(u)
  <1>1. /\ p \in Seq(Round) /\ Len(p) \in Nat /\ DOMAIN p = 1..Len(p)
        /\ \A j \in 1..Len(p) : p[j] \in Round /\ p[j].num = j /\ OwnIds(p[j].questions, f)
    BY DEF Sound
  <1>2. /\ q \in Seq(Round) /\ Len(q) = Len(p) - 1
        /\ \A j \in 1..Len(p) - 1 : q[j] = IF j < k THEN p[j] ELSE p[j + 1]
    BY <1>1, RemoveAtIs, Zenon
  <1> HIDE DEF q
  <1>3. \A j \in 1..Len(q) : OwnIds(q[j].questions, f)
    BY <1>1, <1>2
  <1>4. /\ Sound(r, f) /\ Len(r) = Len(q) /\ IdsIn(r) = IdsIn(q)
        /\ \A j \in 1..Len(q) : r[j] = [q[j] EXCEPT !.num = j]
    BY <1>2, <1>3, RenumberedIs
  <1>5. IdsIn(q) \subseteq IdsIn(p)
    <2> SUFFICES ASSUME NEW j \in 1..Len(q) PROVE q[j].id \in IdsIn(p)
      BY <1>2 DEF IdsIn
    <2>1. \E i \in 1..Len(p) : q[j] = p[i]
      BY <1>1, <1>2
    <2> QED BY <1>1, <2>1 DEF IdsIn
  <1> HIDE DEF r
  <1>6. r \in Seq(Round) /\ k \in 1..Len(r) + 1 /\ p[k] \in Round
    BY <1>1, <1>2, <1>4 DEF Sound
  <1>7. /\ u \in Seq(Round) /\ Len(u) = Len(r) + 1
        /\ \A j \in 1..Len(r) + 1 :
              u[j] = IF j < k THEN r[j] ELSE IF j = k THEN p[k] ELSE r[j - 1]
    <2>1. u \in Seq(Round)
      BY <1>6, InsertAtIs, Zenon
    <2>2. Len(u) = Len(r) + 1
      BY <1>6, InsertAtIs, SMTT(30)
    <2>3. \A j \in 1..Len(r) + 1 :
              u[j] = IF j < k THEN r[j] ELSE IF j = k THEN p[k] ELSE r[j - 1]
      BY <1>6, InsertAtIs, SMTT(30)
    <2> QED BY <2>1, <2>2, <2>3
  <1> HIDE DEF u
  <1>8. ASSUME NEW j \in 1..Len(p)
        PROVE  [u[j] EXCEPT !.num = j] = p[j] /\ u[j].questions = p[j].questions
    <2>1. p[j] \in Round /\ p[j].num = j /\ j \in 1..Len(r) + 1
      BY <1>1, <1>2, <1>4
    <2>2. CASE j < k
      <3>1. j \in 1..Len(q) /\ j \in 1..Len(p) - 1
        BY <1>1, <1>2, <2>2
      <3>2. u[j] = r[j] /\ r[j] = [q[j] EXCEPT !.num = j] /\ q[j] = p[j]
        BY <1>2, <1>4, <1>7, <2>1, <2>2, <3>1
      <3>3. u[j] = [p[j] EXCEPT !.num = j]
        BY <3>2
      <3> QED BY <2>1, <3>3 DEF Round
    <2>3. CASE j = k
      <3>1. u[j] = p[j]
        BY <1>7, <2>1, <2>3
      <3> QED BY <2>1, <3>1 DEF Round
    <2>4. CASE ~(j <= k)
      <3>1. /\ j - 1 \in 1..Len(q) /\ j - 1 \in 1..Len(p) - 1 /\ ~(j - 1 < k) /\ j - 1 + 1 = j
            /\ ~(j < k) /\ j # k
        BY <1>1, <1>2, <1>4, <2>4
      <3>2. u[j] = r[j - 1] /\ r[j - 1] = [q[j - 1] EXCEPT !.num = j - 1] /\ q[j - 1] = p[j]
        BY <1>2, <1>4, <1>7, <2>1, <3>1
      <3>3. u[j] = [p[j] EXCEPT !.num = j - 1]
        BY <3>2
      <3> QED BY <2>1, <3>3 DEF Round
    <2> QED BY <1>1, <2>2, <2>3, <2>4
  <1>9. Len(u) = Len(p) /\ \A j \in 1..Len(u) : OwnIds(u[j].questions, f)
    BY <1>1, <1>2, <1>4, <1>7, <1>8
  <1>10. /\ Sound(v, f) /\ Len(v) = Len(p)
         /\ \A j \in 1..Len(p) : v[j] = [u[j] EXCEPT !.num = j]
    BY <1>7, <1>9, RenumberedIs
  <1> HIDE DEF v
  <1>11. \A j \in 1..Len(p) : v[j] = p[j]
    BY <1>8, <1>10
  <1>12. v = p
    BY <1>1, <1>10, <1>11, SeqEqual DEF Sound
  <1> QED BY <1>4, <1>5, <1>12 DEF q, r, u, v

\* A round is moved.
LEMMA RoundMoved ==
  ASSUME NEW p, NEW f, Sound(p, f), NEW from \in 1..Len(p), NEW to \in 1..Len(p)
  PROVE  LET moved == Renumbered(InsertAt(RemoveAt(p, from), to, p[from]))
         IN  Sound(moved, f) /\ IdsIn(moved) \subseteq IdsIn(p)
  <1> DEFINE q == RemoveAt(p, from)
             u == InsertAt(q, to, p[from])
  <1>1. /\ p \in Seq(Round) /\ Len(p) \in Nat /\ DOMAIN p = 1..Len(p)
        /\ \A j \in 1..Len(p) : p[j] \in Round /\ OwnIds(p[j].questions, f)
    BY DEF Sound
  <1>2. /\ q \in Seq(Round) /\ Len(q) = Len(p) - 1
        /\ \A j \in 1..Len(p) - 1 : q[j] = IF j < from THEN p[j] ELSE p[j + 1]
    BY <1>1, RemoveAtIs
  <1> HIDE DEF q
  <1>3. /\ u \in Seq(Round) /\ Len(u) = Len(p) /\ DOMAIN u = 1..Len(u)
        /\ \A j \in 1..Len(p) : u[j] = IF j < to THEN q[j] ELSE IF j = to THEN p[from] ELSE q[j - 1]
    BY <1>1, <1>2, InsertAtIs
  <1> HIDE DEF u
  <1>4. \A j \in 1..Len(u) : \E i \in 1..Len(p) : u[j] = p[i]
    <2> TAKE j \in 1..Len(u)
    <2>1. CASE j < to
      <3>1. j \in 1..Len(p) - 1 /\ u[j] = q[j]
        BY <1>1, <1>3, <2>1
      <3> QED BY <1>1, <1>2, <3>1
    <2>2. CASE j = to
      BY <1>3, <2>2
    <2>3. CASE j > to
      <3>1. j - 1 \in 1..Len(p) - 1 /\ u[j] = q[j - 1]
        BY <1>1, <1>3, <2>3
      <3> QED BY <1>1, <1>2, <3>1
    <2> QED BY <1>1, <1>3, <2>1, <2>2, <2>3
  <1>5. \A j \in 1..Len(u) : OwnIds(u[j].questions, f)
    BY <1>1, <1>4
  <1>6. IdsIn(u) \subseteq IdsIn(p)
    <2> SUFFICES ASSUME NEW j \in 1..Len(u) PROVE u[j].id \in IdsIn(p)
      BY <1>3 DEF IdsIn
    <2> QED BY <1>1, <1>4 DEF IdsIn
  <1>7. Sound(Renumbered(u), f) /\ IdsIn(Renumbered(u)) = IdsIn(u)
    BY <1>3, <1>5, RenumberedIs
  <1> QED BY <1>6, <1>7 DEF q, u

-----------------------------------------------------------------------------
(* Edits of one round.                                                     *)

LEMMA RemoveLast ==
  ASSUME NEW S, NEW s \in Seq(S), NEW e \in S
  PROVE  RemoveAt(Append(s, e), Len(s) + 1) = s
  <1> DEFINE t == Append(s, e)
             n == Len(s) + 1
             u == RemoveAt(t, n)
  <1>1. /\ t \in Seq(S) /\ Len(t) = Len(s) + 1 /\ Len(s) \in Nat /\ n \in 1..Len(t)
        /\ \A j \in 1..Len(s) : t[j] = s[j]
    OBVIOUS
  <1>2. n = Len(s) + 1
    OBVIOUS
  <1> HIDE DEF t, n
  <1>3. /\ u \in Seq(S) /\ Len(u) = Len(t) - 1
        /\ \A j \in 1..Len(t) - 1 : u[j] = IF j < n THEN t[j] ELSE t[j + 1]
    BY <1>1, RemoveAtIs
  <1> HIDE DEF u
  <1>4. \A j \in 1..Len(s) : u[j] = s[j]
    BY <1>1, <1>2, <1>3
  <1>5. u = s
    BY <1>1, <1>3, <1>4, SeqEqual
  <1> QED BY <1>5 DEF t, n, u

\* Ids are unique: the question with the id of the i-th one is the i-th one.
LEMMA WithoutIs ==
  ASSUME NEW qs \in Seq(Question), NEW f, OwnIds(qs, f), NEW i \in 1..Len(qs)
  PROVE  WithoutQuestion(qs, qs[i].id) = RemoveAt(qs, i)
  <1>1. DOMAIN qs = 1..Len(qs)
    OBVIOUS
  <1>2. \A j \in DOMAIN qs : qs[j].id = qs[i].id => j = i
    BY <1>1 DEF OwnIds
  <1>3. (CHOOSE j \in DOMAIN qs : qs[j].id = qs[i].id) = i
    BY <1>1, <1>2
  <1> QED BY <1>1, <1>3 DEF WithoutQuestion

LEMMA OwnIdsRemoved ==
  ASSUME NEW qs \in Seq(Question), NEW f, OwnIds(qs, f), NEW i \in 1..Len(qs)
  PROVE  OwnIds(RemoveAt(qs, i), f)
  <1> DEFINE t == RemoveAt(qs, i)
             at(j) == IF j < i THEN j ELSE j + 1
  <1>1. /\ t \in Seq(Question) /\ Len(t) = Len(qs) - 1 /\ Len(qs) \in Nat
        /\ \A j \in 1..Len(qs) - 1 : t[j] = IF j < i THEN qs[j] ELSE qs[j + 1]
    BY RemoveAtIs
  <1> HIDE DEF t
  <1>2. DOMAIN t = 1..Len(qs) - 1 /\ DOMAIN qs = 1..Len(qs)
    BY <1>1
  <1>3. ASSUME NEW j \in DOMAIN t PROVE at(j) \in DOMAIN qs /\ t[j] = qs[at(j)]
    BY <1>1, <1>2
  <1>4. ASSUME NEW j \in DOMAIN t, NEW k \in DOMAIN t, at(j) = at(k) PROVE j = k
    BY <1>2, <1>4
  <1> HIDE DEF at
  <1>5. OwnIds(t, f)
    BY <1>3, <1>4 DEF OwnIds
  <1> QED BY <1>5 DEF t

LEMMA OwnIdsAppended ==
  ASSUME NEW qs \in Seq(Question), NEW f \in Nat, OwnIds(qs, f), NEW t
  PROVE  OwnIds(Append(qs, [id |-> f, text |-> t]), f + 1)
  <1> DEFINE u == Append(qs, [id |-> f, text |-> t])
  <1>1. DOMAIN u = 1..Len(qs) + 1 /\ DOMAIN qs = 1..Len(qs) /\ Len(qs) \in Nat
    OBVIOUS
  <1>2. \A j \in 1..Len(qs) : u[j] = qs[j]
    OBVIOUS
  <1>3. u[Len(qs) + 1].id = f
    OBVIOUS
  <1>4. \A j \in 1..Len(qs) : qs[j].id \in Nat
    <2>1. \A j \in 1..Len(qs) : qs[j] \in Question
      BY ElementOfSeq
    <2>2. Text \subseteq Nat
      BY DraftAssumption DEF Text
    <2> QED BY <2>1, <2>2 DEF Question
  <1> HIDE DEF u
  <1>5. \A j \in 1..Len(qs) : u[j].id < f /\ u[j].id \in Nat
    BY <1>1, <1>2, <1>4 DEF OwnIds
  <1>6. OwnIds(u, f + 1)
    BY <1>1, <1>2, <1>3, <1>5 DEF OwnIds
  <1> QED BY <1>6 DEF u

\* A sound version of a round stands in its place, and the old one put back
\* gives the plan as it was.
LEMMA RoundEdited ==
  ASSUME NEW p, NEW f \in Nat, NEW g \in Nat, f <= g, Sound(p, f), NEW k \in 1..Len(p),
         NEW r \in Round, r.num = k, r.id = p[k].id, OwnIds(r.questions, g)
  PROVE  /\ Sound([p EXCEPT ![k] = r], g)
         /\ IdsIn([p EXCEPT ![k] = r]) = IdsIn(p)
         /\ [p EXCEPT ![k] = r][k] = r
         /\ [[p EXCEPT ![k] = r] EXCEPT ![k] = p[k]] = p
  <1>1. Sound(p, g)
    BY SoundLater
  <1>2. p \in Seq(Round) /\ DOMAIN p = 1..Len(p)
    BY DEF Sound
  <1>3. [[p EXCEPT ![k] = r] EXCEPT ![k] = p[k]] = p
    BY <1>2, PutBack
  <1>4. [p EXCEPT ![k] = r][k] = r
    BY <1>2
  <1>5. Sound([p EXCEPT ![k] = r], g) /\ IdsIn([p EXCEPT ![k] = r]) = IdsIn(p)
    BY <1>1, SoundWith
  <1> QED BY <1>3, <1>4, <1>5

-----------------------------------------------------------------------------
(* The invariant.                                                          *)

Kinds == {"round", "removed", "moved", "guide+", "guide", "guide-",
          "question+", "question", "question-", "screening"}
Was   == Round \cup Seq(Round) \cup Text \cup Question \cup Screen \cup {NoScreening}
Entry == [kind : Kinds, next : Seq(Round), at : Nat, pos : Nat, was : Was]

AskType == [st : {"asked"}, round : Ids, over : Screen]

DraftInv ==
    /\ Sound(backing, fresh)
    /\ fresh \in FirstFree..MaxFresh
    /\ Sound(draft, fresh) /\ IdsIn(draft) \subseteq IdsIn(backing)
    /\ inverses \in Seq(Entry)
    /\ \A n \in 1..Len(inverses) :
          /\ Sound(Inverted(inverses[n]), fresh)
          /\ IdsIn(Inverted(inverses[n])) \subseteq IdsIn(backing)
    /\ asks \in [Asked -> {NoAsk} \cup AskType]

\* The draft was edited, and the inverse that was pushed gives it back.
Undoable ==
    \E e \in Entry :
       /\ draft' = e.next /\ inverses' = Append(inverses, e)
       /\ Inverted(e) = draft
       /\ Sound(draft', fresh') /\ IdsIn(draft') \subseteq IdsIn(draft)

\* What the lemmas about edits assume.
LEMMA Editing ==
  ASSUME DraftInv, FreshText, NEW k \in DOMAIN draft
  PROVE  /\ fresh \in Nat /\ fresh' \in Nat /\ fresh' = fresh + 1 /\ fresh <= fresh'
         /\ fresh \in Text /\ Empty \in Text /\ 0 \in Nat
         /\ Sound(draft, fresh) /\ draft \in Seq(Round) /\ k \in 1..Len(draft) /\ k \in Nat
         /\ draft[k] \in Round /\ draft[k].num = k
         /\ OwnIds(draft[k].questions, fresh) /\ OwnIds(draft[k].questions, fresh')
         /\ inverses \in Seq(Entry)
  <1>1. fresh \in Nat /\ fresh' = fresh + 1 /\ fresh \in Text /\ Empty \in Text
    BY DraftAssumption DEF DraftInv, FreshText, Text, Empty
  <1>2. Sound(draft, fresh) /\ draft \in Seq(Round) /\ inverses \in Seq(Entry)
    BY DEF DraftInv, Sound
  <1>3. k \in 1..Len(draft) /\ k \in Nat
    BY <1>2
  <1>4. draft[k] \in Round
    BY <1>2, <1>3, ElementOfSeq
  <1>5. Sound(draft, fresh')
    BY <1>1, <1>2, SoundLater
  <1> QED BY <1>1, <1>2, <1>3, <1>4, <1>5 DEF Sound

\* One round is replaced by a sound version, and the inverse puts the old one back.
LEMMA OneRoundUndoable ==
  ASSUME DraftInv, FreshText, NEW k \in DOMAIN draft, NEW r \in Round,
         r.num = k, r.id = draft[k].id, OwnIds(r.questions, fresh'),
         NEW kind \in Kinds, NEW i \in Nat, NEW w \in Was,
         Edit(kind, [draft EXCEPT ![k] = r], k, i, w),
         Inverted([kind |-> kind, next |-> [draft EXCEPT ![k] = r], at |-> k, pos |-> i,
                   was |-> w]) = [[draft EXCEPT ![k] = r] EXCEPT ![k] = draft[k]]
  PROVE  Undoable
  <1> DEFINE nx == [draft EXCEPT ![k] = r]
             e  == [kind |-> kind, next |-> nx, at |-> k, pos |-> i, was |-> w]
  <1>1. /\ fresh \in Nat /\ fresh' \in Nat /\ fresh <= fresh' /\ Sound(draft, fresh)
        /\ k \in 1..Len(draft) /\ k \in Nat
    BY Editing
  <1>2. Sound(nx, fresh') /\ IdsIn(nx) = IdsIn(draft) /\ [nx EXCEPT ![k] = draft[k]] = draft
    <2>1. \A g \in Nat : fresh <= g /\ OwnIds(r.questions, g) => Sound(nx, g)
      BY <1>1, RoundEdited
    <2>2. Sound(nx, fresh')
      BY <1>1, <2>1
    <2>3. IdsIn(nx) = IdsIn(draft)
      <3>1. /\ nx \in Seq(Round) /\ DOMAIN nx = DOMAIN draft
            /\ \A j \in DOMAIN draft : nx[j].id = draft[j].id
        BY <1>1 DEF Sound
      <3> QED BY <3>1 DEF IdsIn
    <2>4. [nx EXCEPT ![k] = draft[k]] = draft
      BY <1>1, RoundEdited
    <2> QED BY <2>2, <2>3, <2>4
  <1>3. nx \in Seq(Round)
    BY <1>2 DEF Sound
  <1>4. Inverted(e) = draft
    BY <1>2
  <1>5. draft' = nx /\ inverses' = Append(inverses, e)
    BY DEF Edit
  <1> HIDE DEF nx
  <1>6. e \in Entry /\ e.next = nx
    BY <1>1, <1>3 DEF Entry
  <1> HIDE DEF e
  <1> QED BY <1>2, <1>4, <1>5, <1>6 DEF Undoable

LEMMA UpdateRoundUndoable ==
  ASSUME DraftInv, NEW k \in DOMAIN draft, NEW field, UpdateRound(k, field)
  PROVE  Undoable
  <1>1. FreshText
    BY DEF UpdateRound
  <1>2. /\ fresh \in Text /\ Empty \in Text /\ draft[k] \in Round /\ draft[k].num = k
        /\ OwnIds(draft[k].questions, fresh')
    BY <1>1, Editing
  <1>3. PICK t \in {fresh, Empty} :
           \/ Edit("round", [draft EXCEPT ![k].name = t], k, 0, draft[k])
           \/ Edit("round", [draft EXCEPT ![k].dur = t], k, 0, draft[k])
    BY DEF UpdateRound
  <1>4. ASSUME NEW r \in Round, r.num = k, r.id = draft[k].id, r.questions = draft[k].questions,
               Edit("round", [draft EXCEPT ![k] = r], k, 0, draft[k])
        PROVE  Undoable
    <2>1. Inverted([kind |-> "round", next |-> [draft EXCEPT ![k] = r], at |-> k, pos |-> 0,
                    was |-> draft[k]]) = [[draft EXCEPT ![k] = r] EXCEPT ![k] = draft[k]]
      BY DEF Inverted
    <2>2. "round" \in Kinds /\ draft[k] \in Was /\ 0 \in Nat /\ OwnIds(r.questions, fresh')
      BY <1>2, <1>4 DEF Kinds, Was
    <2> QED BY <1>1, <1>4, <2>1, <2>2, OneRoundUndoable
  <1>5. CASE Edit("round", [draft EXCEPT ![k].name = t], k, 0, draft[k])
    <2> DEFINE r == [draft[k] EXCEPT !.name = t]
    <2>1. r \in Round /\ r.num = k /\ r.id = draft[k].id /\ r.questions = draft[k].questions
      BY <1>2, <1>3 DEF Round
    <2> QED BY <1>4, <1>5, <2>1
  <1>6. CASE Edit("round", [draft EXCEPT ![k].dur = t], k, 0, draft[k])
    <2> DEFINE r == [draft[k] EXCEPT !.dur = t]
    <2>1. r \in Round /\ r.num = k /\ r.id = draft[k].id /\ r.questions = draft[k].questions
      BY <1>2, <1>3 DEF Round
    <2> QED BY <1>4, <1>6, <2>1
  <1> QED BY <1>3, <1>5, <1>6

LEMMA GuidelineUndoable ==
  ASSUME DraftInv, FreshText, NEW k \in DOMAIN draft, NEW gs \in Seq(Text),
         NEW kind \in Kinds, NEW i \in Nat, NEW w \in Was,
         Edit(kind, [draft EXCEPT ![k].guides = gs], k, i, w),
         Inverted([kind |-> kind, next |-> [draft EXCEPT ![k].guides = gs], at |-> k, pos |-> i,
                   was |-> w]) =
            [[draft EXCEPT ![k].guides = gs] EXCEPT ![k].guides = draft[k].guides]
  PROVE  Undoable
  <1> DEFINE r == [draft[k] EXCEPT !.guides = gs]
  <1>1. /\ draft[k] \in Round /\ draft[k].num = k /\ OwnIds(draft[k].questions, fresh')
        /\ draft \in Seq(Round)
    BY Editing
  <1>2. /\ r \in Round /\ r.num = k /\ r.id = draft[k].id /\ OwnIds(r.questions, fresh')
        /\ [r EXCEPT !.guides = draft[k].guides] = draft[k]
    BY <1>1 DEF Round
  <1>3. [draft EXCEPT ![k].guides = gs] = [draft EXCEPT ![k] = r]
    OBVIOUS
  <1>4. [draft EXCEPT ![k] = r][k] = r
    BY <1>1
  <1> HIDE DEF r
  <1>5. [[draft EXCEPT ![k] = r] EXCEPT ![k].guides = draft[k].guides]
           = [[draft EXCEPT ![k] = r] EXCEPT ![k] = draft[k]]
    BY <1>2, <1>4
  <1>6. /\ Edit(kind, [draft EXCEPT ![k] = r], k, i, w)
        /\ Inverted([kind |-> kind, next |-> [draft EXCEPT ![k] = r], at |-> k, pos |-> i,
                     was |-> w]) = [[draft EXCEPT ![k] = r] EXCEPT ![k] = draft[k]]
    BY <1>3, <1>5
  <1> QED BY <1>2, <1>6, OneRoundUndoable

LEMMA QuestionsUndoable ==
  ASSUME DraftInv, FreshText, NEW k \in DOMAIN draft, NEW qs \in Seq(Question),
         OwnIds(qs, fresh'),
         NEW kind \in Kinds, NEW i \in Nat, NEW w \in Was,
         Edit(kind, [draft EXCEPT ![k].questions = qs], k, i, w),
         Inverted([kind |-> kind, next |-> [draft EXCEPT ![k].questions = qs], at |-> k, pos |-> i,
                   was |-> w]) =
            [[draft EXCEPT ![k].questions = qs] EXCEPT ![k].questions = draft[k].questions]
  PROVE  Undoable
  <1> DEFINE r == [draft[k] EXCEPT !.questions = qs]
  <1>1. draft[k] \in Round /\ draft[k].num = k /\ draft \in Seq(Round)
    BY Editing
  <1>2. /\ r \in Round /\ r.num = k /\ r.id = draft[k].id /\ OwnIds(r.questions, fresh')
        /\ [r EXCEPT !.questions = draft[k].questions] = draft[k]
    BY <1>1 DEF Round
  <1>3. [draft EXCEPT ![k].questions = qs] = [draft EXCEPT ![k] = r]
    OBVIOUS
  <1>4. [draft EXCEPT ![k] = r][k] = r
    BY <1>1
  <1> HIDE DEF r
  <1>5. [[draft EXCEPT ![k] = r] EXCEPT ![k].questions = draft[k].questions]
           = [[draft EXCEPT ![k] = r] EXCEPT ![k] = draft[k]]
    BY <1>2, <1>4
  <1>6. /\ Edit(kind, [draft EXCEPT ![k] = r], k, i, w)
        /\ Inverted([kind |-> kind, next |-> [draft EXCEPT ![k] = r], at |-> k, pos |-> i,
                     was |-> w]) = [[draft EXCEPT ![k] = r] EXCEPT ![k] = draft[k]]
    BY <1>3, <1>5
  <1> QED BY <1>2, <1>6, OneRoundUndoable

LEMMA AddGuidelineUndoable ==
  ASSUME DraftInv, NEW k \in DOMAIN draft, AddGuideline(k)
  PROVE  Undoable
  <1> DEFINE gs == Append(draft[k].guides, fresh)
             nx == [draft EXCEPT ![k].guides = gs]
  <1>1. FreshText /\ Edit("guide+", nx, k, 0, 0)
    BY DEF AddGuideline
  <1>2. fresh \in Text /\ draft[k] \in Round /\ draft \in Seq(Round)
    BY <1>1, Editing
  <1>3. draft[k].guides \in Seq(Text)
    BY <1>2 DEF Round
  <1>4. gs \in Seq(Text) /\ Front(gs) = draft[k].guides
    BY <1>2, <1>3, FrontOfAppend
  <1>5. "guide+" \in Kinds /\ 0 \in Nat /\ 0 \in Was
    BY DraftAssumption DEF Kinds, Was, Text
  <1> HIDE DEF gs
  <1>6. nx[k].guides = gs
    BY <1>2 DEF Round
  <1>7. Inverted([kind |-> "guide+", next |-> nx, at |-> k, pos |-> 0, was |-> 0])
           = [nx EXCEPT ![k].guides = Front(nx[k].guides)]
    BY DEF Inverted
  <1>8. Inverted([kind |-> "guide+", next |-> nx, at |-> k, pos |-> 0, was |-> 0])
           = [nx EXCEPT ![k].guides = draft[k].guides]
    BY <1>4, <1>6, <1>7
  <1> QED BY <1>1, <1>4, <1>5, <1>8, GuidelineUndoable

LEMMA UpdateGuidelineUndoable ==
  ASSUME DraftInv, NEW k \in DOMAIN draft, NEW i \in DOMAIN draft[k].guides, UpdateGuideline(k, i)
  PROVE  Undoable
  <1> DEFINE old == draft[k].guides
             gs  == [old EXCEPT ![i] = fresh]
             nx  == [draft EXCEPT ![k].guides = gs]
  <1>1. FreshText /\ Edit("guide", nx, k, i, old[i])
    BY DEF UpdateGuideline
  <1>2. fresh \in Text /\ draft[k] \in Round /\ draft \in Seq(Round)
    BY <1>1, Editing
  <1>3. old \in Seq(Text) /\ i \in 1..Len(old) /\ i \in Nat /\ old[i] \in Text
    BY <1>2 DEF Round
  <1>4. gs \in Seq(Text) /\ [gs EXCEPT ![i] = old[i]] = old
    BY <1>2, <1>3, ExceptSeq, PutBack
  <1>5. "guide" \in Kinds /\ old[i] \in Was
    BY <1>3 DEF Kinds, Was
  <1> HIDE DEF gs
  <1>6. nx[k].guides = gs
    BY <1>2 DEF Round
  <1>7. Inverted([kind |-> "guide", next |-> nx, at |-> k, pos |-> i, was |-> old[i]])
           = [nx EXCEPT ![k].guides = [nx[k].guides EXCEPT ![i] = old[i]]]
    BY DEF Inverted
  <1>8. Inverted([kind |-> "guide", next |-> nx, at |-> k, pos |-> i, was |-> old[i]])
           = [nx EXCEPT ![k].guides = draft[k].guides]
    BY <1>4, <1>6, <1>7
  <1> QED BY <1>1, <1>3, <1>4, <1>5, <1>8, GuidelineUndoable

LEMMA RemoveGuidelineUndoable ==
  ASSUME DraftInv, NEW k \in DOMAIN draft, NEW i \in DOMAIN draft[k].guides, RemoveGuideline(k, i)
  PROVE  Undoable
  <1> DEFINE old == draft[k].guides
             gs  == RemoveAt(old, i)
             nx  == [draft EXCEPT ![k].guides = gs]
  <1>1. FreshText /\ Edit("guide-", nx, k, i, old[i])
    BY DEF RemoveGuideline
  <1>2. fresh \in Text /\ draft[k] \in Round /\ draft \in Seq(Round)
    BY <1>1, Editing
  <1>3. old \in Seq(Text) /\ i \in 1..Len(old) /\ i \in Nat /\ old[i] \in Text
    BY <1>2 DEF Round
  <1>4. gs \in Seq(Text) /\ InsertAt(gs, i, old[i]) = old
    BY <1>3, RemoveAtIs, InsertedBack
  <1>5. "guide-" \in Kinds /\ old[i] \in Was
    BY <1>3 DEF Kinds, Was
  <1> HIDE DEF gs
  <1>6. nx[k].guides = gs
    BY <1>2 DEF Round
  <1>7. Inverted([kind |-> "guide-", next |-> nx, at |-> k, pos |-> i, was |-> old[i]])
           = [nx EXCEPT ![k].guides = InsertAt(nx[k].guides, i, old[i])]
    BY DEF Inverted
  <1>8. Inverted([kind |-> "guide-", next |-> nx, at |-> k, pos |-> i, was |-> old[i]])
           = [nx EXCEPT ![k].guides = draft[k].guides]
    BY <1>4, <1>6, <1>7
  <1> QED BY <1>1, <1>3, <1>4, <1>5, <1>8, GuidelineUndoable

LEMMA AddQuestionUndoable ==
  ASSUME DraftInv, NEW k \in DOMAIN draft, AddQuestion(k)
  PROVE  Undoable
  <1> DEFINE old == draft[k].questions
             new == [id |-> fresh, text |-> fresh]
             n   == Len(old) + 1
             qs  == Append(old, new)
             nx  == [draft EXCEPT ![k].questions = qs]
  <1>1. FreshText /\ Edit("question+", nx, k, 0, fresh)
    BY DEF AddQuestion
  <1>2. /\ fresh \in Nat /\ fresh' = fresh + 1
        /\ fresh \in Text /\ draft[k] \in Round /\ draft \in Seq(Round) /\ OwnIds(old, fresh)
    BY <1>1, Editing
  <1>3. old \in Seq(Question) /\ new \in Question
    BY <1>2 DEF Round, Question
  <1>4. OwnIds(qs, fresh')
    BY <1>2, <1>3, OwnIdsAppended
  <1>5. qs \in Seq(Question) /\ n \in 1..Len(qs) /\ qs[n].id = fresh /\ RemoveAt(qs, n) = old
    BY <1>3, RemoveLast
  <1> HIDE DEF qs, n
  <1>6. WithoutQuestion(qs, fresh) = old
    BY <1>4, <1>5, WithoutIs
  <1>7. "question+" \in Kinds /\ 0 \in Nat /\ fresh \in Was
    BY <1>2 DEF Kinds, Was
  <1>8. nx[k].questions = qs
    BY <1>2 DEF Round
  <1>9. Inverted([kind |-> "question+", next |-> nx, at |-> k, pos |-> 0, was |-> fresh])
           = [nx EXCEPT ![k].questions = WithoutQuestion(nx[k].questions, fresh)]
    BY DEF Inverted
  <1>10. Inverted([kind |-> "question+", next |-> nx, at |-> k, pos |-> 0, was |-> fresh])
           = [nx EXCEPT ![k].questions = draft[k].questions]
    BY <1>6, <1>8, <1>9
  <1> QED BY <1>1, <1>4, <1>5, <1>7, <1>10, QuestionsUndoable

LEMMA UpdateQuestionUndoable ==
  ASSUME DraftInv, NEW k \in DOMAIN draft, NEW i \in DOMAIN draft[k].questions, UpdateQuestion(k, i)
  PROVE  Undoable
  <1> DEFINE old == draft[k].questions
  <1>1. FreshText
    BY DEF UpdateQuestion
  <1>2. PICK t \in {fresh, Empty} :
           Edit("question", [draft EXCEPT ![k].questions[i].text = t], k, i, old[i])
    BY DEF UpdateQuestion
  <1> DEFINE new == [old[i] EXCEPT !.text = t]
             qs  == [old EXCEPT ![i] = new]
             nx  == [draft EXCEPT ![k].questions = qs]
  <1>3. Edit("question", nx, k, i, old[i])
    BY <1>2
  <1>4. t \in Text /\ draft[k] \in Round /\ draft \in Seq(Round) /\ OwnIds(old, fresh')
    BY <1>1, <1>2, Editing
  <1>5. old \in Seq(Question) /\ i \in 1..Len(old) /\ i \in Nat /\ old[i] \in Question
    BY <1>4 DEF Round
  <1>6. new \in Question /\ new.id = old[i].id
    BY <1>4, <1>5 DEF Question
  <1> HIDE DEF new
  <1>7. qs \in Seq(Question) /\ [qs EXCEPT ![i] = old[i]] = old
    BY <1>5, <1>6, ExceptSeq, PutBack
  <1>8. OwnIds(qs, fresh')
    <2>1. DOMAIN qs = DOMAIN old /\ \A j \in DOMAIN old : qs[j].id = old[j].id
      BY <1>5, <1>6
    <2> QED BY <1>4, <2>1 DEF OwnIds
  <1>9. "question" \in Kinds /\ old[i] \in Was
    BY <1>5 DEF Kinds, Was
  <1> HIDE DEF qs
  <1>10. nx[k].questions = qs
    BY <1>4 DEF Round
  <1>11. Inverted([kind |-> "question", next |-> nx, at |-> k, pos |-> i, was |-> old[i]])
           = [nx EXCEPT ![k].questions = [nx[k].questions EXCEPT ![i] = old[i]]]
    BY DEF Inverted
  <1>12. Inverted([kind |-> "question", next |-> nx, at |-> k, pos |-> i, was |-> old[i]])
           = [nx EXCEPT ![k].questions = draft[k].questions]
    BY <1>7, <1>10, <1>11
  <1> QED BY <1>1, <1>3, <1>5, <1>7, <1>8, <1>9, <1>12, QuestionsUndoable

LEMMA RemoveQuestionUndoable ==
  ASSUME DraftInv, NEW k \in DOMAIN draft, NEW i \in DOMAIN draft[k].questions, RemoveQuestion(k, i)
  PROVE  Undoable
  <1> DEFINE old == draft[k].questions
             qs  == WithoutQuestion(old, old[i].id)
             nx  == [draft EXCEPT ![k].questions = qs]
  <1>1. FreshText /\ Edit("question-", nx, k, i, old[i])
    BY DEF RemoveQuestion
  <1>2. draft[k] \in Round /\ draft \in Seq(Round) /\ OwnIds(old, fresh')
    BY <1>1, Editing
  <1>3. old \in Seq(Question) /\ i \in 1..Len(old) /\ i \in Nat /\ old[i] \in Question
    BY <1>2 DEF Round
  <1>4. qs = RemoveAt(old, i)
    BY <1>2, <1>3, WithoutIs
  <1> HIDE DEF qs
  <1>5. qs \in Seq(Question) /\ InsertAt(qs, i, old[i]) = old /\ OwnIds(qs, fresh')
    BY <1>2, <1>3, <1>4, RemoveAtIs, InsertedBack, OwnIdsRemoved
  <1>6. "question-" \in Kinds /\ old[i] \in Was
    BY <1>3 DEF Kinds, Was
  <1>7. nx[k].questions = qs
    BY <1>2 DEF Round
  <1>8. Inverted([kind |-> "question-", next |-> nx, at |-> k, pos |-> i, was |-> old[i]])
           = [nx EXCEPT ![k].questions = InsertAt(nx[k].questions, i, old[i])]
    BY DEF Inverted
  <1>9. Inverted([kind |-> "question-", next |-> nx, at |-> k, pos |-> i, was |-> old[i]])
           = [nx EXCEPT ![k].questions = draft[k].questions]
    BY <1>5, <1>7, <1>8
  <1> QED BY <1>1, <1>3, <1>5, <1>6, <1>9, QuestionsUndoable

LEMMA RemoveRoundUndoable ==
  ASSUME DraftInv, NEW k \in DOMAIN draft, RemoveRound(k)
  PROVE  Undoable
  <1> DEFINE nx == Renumbered(RemoveAt(draft, k))
             e  == [kind |-> "removed", next |-> nx, at |-> k, pos |-> 0, was |-> draft[k]]
  <1>1. FreshText /\ draft' = nx /\ inverses' = Append(inverses, e)
    BY DEF RemoveRound, Edit
  <1>2. /\ fresh \in Nat /\ fresh' \in Nat /\ fresh <= fresh' /\ Sound(draft, fresh)
        /\ k \in 1..Len(draft) /\ k \in Nat /\ 0 \in Nat /\ draft[k] \in Round
    BY <1>1, Editing
  <1>3. /\ Sound(nx, fresh) /\ IdsIn(nx) \subseteq IdsIn(draft)
        /\ Renumbered(InsertAt(nx, k, draft[k])) = draft
    BY <1>2, RoundTakenOut
  <1>4. Sound(nx, fresh')
    BY <1>2, <1>3, SoundLater
  <1>5. Inverted(e) = draft
    BY <1>3 DEF Inverted
  <1> HIDE DEF nx
  <1>6. e \in Entry /\ e.next = nx
    BY <1>2, <1>4 DEF Entry, Kinds, Was, Sound
  <1> HIDE DEF e
  <1> QED BY <1>1, <1>3, <1>4, <1>5, <1>6 DEF Undoable

LEMMA ReorderRoundsUndoable ==
  ASSUME DraftInv, NEW from \in DOMAIN draft, NEW to \in DOMAIN draft, ReorderRounds(from, to)
  PROVE  Undoable
  <1> DEFINE nx == Renumbered(InsertAt(RemoveAt(draft, from), to, draft[from]))
             e  == [kind |-> "moved", next |-> nx, at |-> from, pos |-> to, was |-> draft]
  <1>1. FreshText /\ draft' = nx /\ inverses' = Append(inverses, e)
    BY DEF ReorderRounds, Edit
  <1>2. /\ fresh \in Nat /\ fresh' \in Nat /\ fresh <= fresh' /\ Sound(draft, fresh)
        /\ from \in 1..Len(draft) /\ from \in Nat /\ draft \in Seq(Round)
    BY <1>1, Editing
  <1>3. to \in 1..Len(draft) /\ to \in Nat
    BY <1>2
  <1>4. Sound(nx, fresh) /\ IdsIn(nx) \subseteq IdsIn(draft)
    BY <1>2, <1>3, RoundMoved
  <1>5. Sound(nx, fresh')
    BY <1>2, <1>4, SoundLater
  <1>6. Inverted(e) = draft
    BY <1>2, RenumberedSame DEF Inverted
  <1> HIDE DEF nx
  <1>7. e \in Entry /\ e.next = nx
    BY <1>2, <1>3, <1>5 DEF Entry, Kinds, Was, Sound
  <1> HIDE DEF e
  <1> QED BY <1>1, <1>4, <1>5, <1>6, <1>7 DEF Undoable

\* The screening of a round that is gone is dropped, and any other can be undone.
LEMMA SetScreeningUndoable ==
  ASSUME DraftInv, FreshText, NEW id, NEW sc \in Screen, SetScreening(id, sc)
  PROVE  Undoable \/ UNCHANGED <<draft, inverses>>
  <1>1. CASE id \notin IdsIn(draft)
    BY <1>1 DEF SetScreening
  <1>2. CASE id \in IdsIn(draft)
    <2> DEFINE k == CHOOSE k \in DOMAIN draft : draft[k].id = id
               old == draft[k].screening
               r == [draft[k] EXCEPT !.screening = sc]
               nx == [draft EXCEPT ![k] = r]
    <2>1. k \in DOMAIN draft
      BY <1>2 DEF IdsIn
    <2>2. Edit("screening", [draft EXCEPT ![k].screening = sc], k, 0, old)
      BY <1>2 DEF SetScreening, Prior
    <2> HIDE DEF k
    <2>3. /\ draft[k] \in Round /\ draft[k].num = k /\ OwnIds(draft[k].questions, fresh')
          /\ draft \in Seq(Round)
      BY <2>1, Editing
    <2>4. /\ r \in Round /\ r.num = k /\ r.id = draft[k].id /\ OwnIds(r.questions, fresh')
          /\ [r EXCEPT !.screening = old] = draft[k]
      BY <2>3 DEF Round
    <2>5. "screening" \in Kinds /\ 0 \in Nat /\ old \in Was
      BY <2>3 DEF Kinds, Was, Round
    <2>6. Edit("screening", nx, k, 0, old)
      BY <2>2
    <2> HIDE DEF r
    <2>7. nx[k] = r
      BY <2>1, <2>3
    <2>8. Inverted([kind |-> "screening", next |-> nx, at |-> k, pos |-> 0, was |-> old])
             = [nx EXCEPT ![k] = [nx[k] EXCEPT !.screening = old]]
      BY DEF Inverted
    <2>9. Inverted([kind |-> "screening", next |-> nx, at |-> k, pos |-> 0, was |-> old])
             = [nx EXCEPT ![k] = draft[k]]
      BY <2>4, <2>7, <2>8
    <2> HIDE DEF old
    <2> QED BY <2>1, <2>4, <2>5, <2>6, <2>9, OneRoundUndoable
  <1> QED BY <1>1, <1>2

LEMMA BaseIs == ASSUME NEW sc \in Screen \cup {NoScreening} PROVE Base(sc) \in Screen
  BY DraftAssumption DEF Base, NewScreening, Screen, Text, Empty

LEMMA ToggleUndoable ==
  ASSUME DraftInv, NEW k \in DOMAIN draft, ToggleScreening(k)
  PROVE  Undoable \/ UNCHANGED <<draft, inverses>>
  <1>1. FreshText
    BY DEF ToggleScreening
  <1>2. Base(draft[k].screening) \in Screen
    <2>1. draft[k] \in Round
      BY <1>1, Editing
    <2> QED BY <2>1, BaseIs DEF Round
  <1> DEFINE sc == [Base(draft[k].screening) EXCEPT !.on = ~@]
  <1>3. sc \in Screen
    BY <1>2 DEF Screen
  <1>4. SetScreening(draft[k].id, sc)
    BY DEF ToggleScreening
  <1> HIDE DEF sc
  <1> QED BY <1>1, <1>3, <1>4, SetScreeningUndoable

LEMMA AskAnsweredUndoable ==
  ASSUME DraftInv, NEW a \in Asked, AskAnswered(a)
  PROVE  Undoable \/ UNCHANGED <<draft, inverses>>
  <1>1. FreshText /\ asks[a] # NoAsk
    BY DEF AskAnswered
  <1>2. asks[a].over \in Screen /\ fresh \in Text
    BY <1>1, DraftAssumption DEF DraftInv, AskType, Text
  <1> DEFINE sc == [asks[a].over EXCEPT ![a] = fresh]
  <1>3. sc \in Screen
    <2>1. CASE a = "questions"
      BY <1>2, <2>1 DEF Screen
    <2>2. CASE a = "persona"
      BY <1>2, <2>2 DEF Screen
    <2> QED BY <2>1, <2>2 DEF Asked
  <1>4. SetScreening(asks[a].round, sc)
    BY DEF AskAnswered
  <1> HIDE DEF sc
  <1> QED BY <1>1, <1>3, <1>4, SetScreeningUndoable

-----------------------------------------------------------------------------
(* The invariant holds in every reachable state.                           *)

\* An edit or an answer: the plan goes on, and something may have been pushed.
Advances ==
    /\ Undoable \/ UNCHANGED <<draft, inverses>>
    /\ fresh' \in fresh..MaxFresh
    /\ backing' = backing
    /\ asks' \in [Asked -> {NoAsk} \cup AskType]

LEMMA DraftInitInv == ASSUME DraftInit PROVE DraftInv
  <1>1. backing \in Plans /\ draft = backing /\ inverses = <<>> /\ fresh = FirstFree
    BY DEF DraftInit
  <1>2. Sound(draft, fresh)
    BY <1>1, DeliveredSound
  <1>3. fresh \in FirstFree..MaxFresh
    BY <1>1, DraftAssumption
  <1>4. inverses \in Seq(Entry) /\ Len(inverses) = 0
    BY <1>1
  <1>5. asks \in [Asked -> {NoAsk} \cup AskType]
    BY DEF DraftInit
  <1> QED BY <1>1, <1>2, <1>3, <1>4, <1>5 DEF DraftInv

LEMMA EditsAdvance == ASSUME DraftInv, Edits PROVE Advances
  <1>1. PICK k \in DOMAIN draft :
           \/ UpdateRound(k, "name") \/ UpdateRound(k, "dur") \/ RemoveRound(k)
           \/ \E to \in DOMAIN draft : ReorderRounds(k, to)
           \/ AddGuideline(k) \/ AddQuestion(k) \/ ToggleScreening(k)
           \/ \E i \in DOMAIN draft[k].guides : UpdateGuideline(k, i) \/ RemoveGuideline(k, i)
           \/ \E i \in DOMAIN draft[k].questions : UpdateQuestion(k, i) \/ RemoveQuestion(k, i)
           \/ \E a \in Asked : Ask(a, k)
    BY DEF Edits
  <1>2. fresh \in Nat /\ fresh \in fresh..MaxFresh /\ asks \in [Asked -> {NoAsk} \cup AskType]
    BY DraftAssumption DEF DraftInv
  <1>3. FreshText => fresh' \in fresh..MaxFresh
    BY <1>2, DraftAssumption DEF FreshText
  <1>4. ASSUME FreshText, Aside, Undoable \/ UNCHANGED <<draft, inverses>> PROVE Advances
    BY <1>2, <1>3, <1>4 DEF Advances, Aside
  <1>5. CASE \E field \in {"name", "dur"} : UpdateRound(k, field)
    BY <1>4, <1>5, UpdateRoundUndoable DEF UpdateRound
  <1>6. CASE RemoveRound(k)
    BY <1>4, <1>6, RemoveRoundUndoable DEF RemoveRound
  <1>7. CASE \E to \in DOMAIN draft : ReorderRounds(k, to)
    BY <1>4, <1>7, ReorderRoundsUndoable DEF ReorderRounds
  <1>8. CASE AddGuideline(k)
    BY <1>4, <1>8, AddGuidelineUndoable DEF AddGuideline
  <1>9. CASE AddQuestion(k)
    BY <1>4, <1>9, AddQuestionUndoable DEF AddQuestion
  <1>10. CASE ToggleScreening(k)
    BY <1>4, <1>10, ToggleUndoable DEF ToggleScreening
  <1>11. CASE \E i \in DOMAIN draft[k].guides : UpdateGuideline(k, i)
    BY <1>4, <1>11, UpdateGuidelineUndoable DEF UpdateGuideline
  <1>12. CASE \E i \in DOMAIN draft[k].guides : RemoveGuideline(k, i)
    BY <1>4, <1>12, RemoveGuidelineUndoable DEF RemoveGuideline
  <1>13. CASE \E i \in DOMAIN draft[k].questions : UpdateQuestion(k, i)
    BY <1>4, <1>13, UpdateQuestionUndoable DEF UpdateQuestion
  <1>14. CASE \E i \in DOMAIN draft[k].questions : RemoveQuestion(k, i)
    BY <1>4, <1>14, RemoveQuestionUndoable DEF RemoveQuestion
  <1>15. CASE \E a \in Asked : Ask(a, k)
    <2>1. PICK a \in Asked : Ask(a, k)
      BY <1>15
    <2>2. draft[k] \in Round
      BY ElementOfSeq DEF DraftInv, Sound
    <2>3. Base(draft[k].screening) \in Screen /\ draft[k].id \in Ids
      BY <2>2, BaseIs DEF Round
    <2>4. [st |-> "asked", round |-> draft[k].id, over |-> Base(draft[k].screening)] \in AskType
      BY <2>3 DEF AskType
    <2>5. asks' \in [Asked -> {NoAsk} \cup AskType]
      BY <1>2, <2>1, <2>4 DEF Ask
    <2> QED BY <1>2, <2>1, <2>5 DEF Ask, Advances
  <1> QED BY <1>1, <1>5, <1>6, <1>7, <1>8, <1>9, <1>10, <1>11, <1>12, <1>13, <1>14, <1>15

LEMMA AnswersAdvance ==
  ASSUME DraftInv, NEW a \in Asked, AskAnswered(a) \/ AskFails(a)
  PROVE  Advances
  <1>1. fresh \in Nat /\ fresh \in fresh..MaxFresh /\ asks \in [Asked -> {NoAsk} \cup AskType]
    BY DraftAssumption DEF DraftInv
  <1>2. CASE AskAnswered(a)
    <2>1. Undoable \/ UNCHANGED <<draft, inverses>>
      BY <1>2, AskAnsweredUndoable
    <2>2. fresh' \in fresh..MaxFresh
      BY <1>1, <1>2, DraftAssumption DEF AskAnswered, FreshText
    <2>3. asks' \in [Asked -> {NoAsk} \cup AskType] /\ backing' = backing
      BY <1>1, <1>2 DEF AskAnswered
    <2> QED BY <2>1, <2>2, <2>3 DEF Advances
  <1>3. CASE AskFails(a)
    BY <1>1, <1>3 DEF AskFails, Advances
  <1> QED BY <1>2, <1>3

LEMMA AdvanceInv == ASSUME DraftInv, Advances PROVE DraftInv'
  <1>1. /\ fresh \in Nat /\ fresh' \in Nat /\ fresh <= fresh' /\ fresh' \in FirstFree..MaxFresh
        /\ backing' = backing /\ asks' \in [Asked -> {NoAsk} \cup AskType]
    BY DraftAssumption DEF DraftInv, Advances
  <1>b. Sound(backing', fresh')
    BY <1>1, SoundLater DEF DraftInv
  <1>2. Sound(draft, fresh) /\ IdsIn(draft) \subseteq IdsIn(backing) /\ inverses \in Seq(Entry)
    BY DEF DraftInv
  <1>3. ASSUME NEW n \in 1..Len(inverses)
        PROVE  /\ Sound(Inverted(inverses[n]), fresh')
               /\ IdsIn(Inverted(inverses[n])) \subseteq IdsIn(backing)
    BY <1>1, SoundLater DEF DraftInv
  <1>4. CASE UNCHANGED <<draft, inverses>>
    <2>1. Sound(draft, fresh')
      BY <1>1, <1>2, SoundLater
    <2> QED BY <1>1, <1>b, <1>2, <1>3, <1>4, <2>1 DEF DraftInv
  <1>5. CASE Undoable
    <2>1. PICK e \in Entry :
             /\ draft' = e.next /\ inverses' = Append(inverses, e)
             /\ Inverted(e) = draft
             /\ Sound(draft', fresh') /\ IdsIn(draft') \subseteq IdsIn(draft)
      BY <1>5 DEF Undoable
    <2>2. /\ inverses' \in Seq(Entry) /\ Len(inverses') = Len(inverses) + 1 /\ Len(inverses) \in Nat
          /\ inverses'[Len(inverses) + 1] = e
          /\ \A n \in 1..Len(inverses) : inverses'[n] = inverses[n]
      BY <1>2, <2>1
    <2>3. ASSUME NEW n \in 1..Len(inverses')
          PROVE  /\ Sound(Inverted(inverses'[n]), fresh')
                 /\ IdsIn(Inverted(inverses'[n])) \subseteq IdsIn(backing)
      <3>1. CASE n \in 1..Len(inverses)
        BY <1>3, <2>2, <3>1
      <3>2. CASE n = Len(inverses) + 1
        <4>1. Inverted(inverses'[n]) = draft
          BY <2>1, <2>2, <3>2
        <4> QED BY <1>1, <1>2, <4>1, SoundLater
      <3> QED BY <2>2, <3>1, <3>2
    <2>4. IdsIn(draft') \subseteq IdsIn(backing)
      BY <1>2, <2>1
    <2> QED BY <1>1, <1>b, <2>1, <2>2, <2>3, <2>4 DEF DraftInv
  <1> QED BY <1>4, <1>5 DEF Advances

LEMMA UndoInv == ASSUME DraftInv, Undo PROVE DraftInv'
  <1>1. inverses \in Seq(Entry) /\ inverses # <<>>
    BY DEF DraftInv, Undo
  <1>2. draft' = Inverted(Last(inverses)) /\ inverses' = Front(inverses)
    BY DEF Undo
  <1>3. /\ inverses' \in Seq(Entry) /\ Len(inverses') = Len(inverses) - 1
        /\ \A n \in 1..Len(inverses) - 1 : inverses'[n] = inverses[n]
        /\ draft' = Inverted(inverses[Len(inverses)])
        /\ Len(inverses) \in 1..Len(inverses)
    BY <1>1, <1>2, FrontIs
  <1>4. Len(inverses) \in 1..Len(inverses) /\ 1..Len(inverses') \subseteq 1..Len(inverses)
    BY <1>1, <1>3
  <1>5. Sound(draft', fresh) /\ IdsIn(draft') \subseteq IdsIn(backing)
    BY <1>3, <1>4 DEF DraftInv
  <1>6. \A n \in 1..Len(inverses') : /\ Sound(Inverted(inverses'[n]), fresh)
                                     /\ IdsIn(Inverted(inverses'[n])) \subseteq IdsIn(backing)
    BY <1>3, <1>4 DEF DraftInv
  <1> QED BY <1>3, <1>5, <1>6 DEF DraftInv, Undo

LEMMA DeliverInv == ASSUME DraftInv, NEW p, Sound(p, fresh), DeliverPlan(p) PROVE DraftInv'
  <1>1. /\ backing' = p /\ fresh' = fresh /\ asks' = asks
        /\ fresh \in FirstFree..MaxFresh /\ fresh \in Nat /\ FirstFree <= fresh /\ FirstFree \in Nat
        /\ asks \in [Asked -> {NoAsk} \cup AskType]
    BY DraftAssumption DEF DraftInv, DeliverPlan
  <1>2. CASE Key(p) = Key(backing)
    <2>1. draft' = draft /\ inverses' = inverses
      BY <1>2 DEF DeliverPlan
    <2>2. IdsIn(p) = IdsIn(backing)
      <3>1. DOMAIN p = DOMAIN backing /\ \A k \in DOMAIN p : p[k].id = backing[k].id
        BY <1>2 DEF Key
      <3> QED BY <3>1 DEF IdsIn
    <2> QED BY <1>1, <2>1, <2>2 DEF DraftInv
  <1>3. CASE Key(p) # Key(backing)
    <2>1. draft' = p /\ inverses' = <<>>
      BY <1>3 DEF DeliverPlan, KeptByReset
    <2>2. inverses' \in Seq(Entry) /\ 1..Len(inverses') = {}
      BY <2>1
    <2> QED BY <1>1, <2>1, <2>2 DEF DraftInv
  <1> QED BY <1>2, <1>3

LEMMA PlansSound == ASSUME DraftInv PROVE \A p \in Plans : Sound(p, fresh)
  <1>1. /\ FirstFree \in Nat /\ fresh \in Nat /\ FirstFree <= fresh
        /\ \A p \in Plans : Sound(p, FirstFree)
    BY DraftAssumption, DeliveredSound DEF DraftInv
  <1> QED BY <1>1, SoundLater

LEMMA DraftNextInv == ASSUME DraftInv, [DraftNext]_draftVars PROVE DraftInv'
  <1>1. CASE Edits
    BY <1>1, EditsAdvance, AdvanceInv
  <1>2. CASE Undo
    BY <1>2, UndoInv
  <1>3. CASE \E a \in Asked : AskAnswered(a) \/ AskFails(a)
    BY <1>3, AnswersAdvance, AdvanceInv
  <1>4. CASE \E p \in Plans : DeliverPlan(p)
    BY <1>4, PlansSound, DeliverInv
  <1>5. CASE UNCHANGED draftVars
    BY <1>5 DEF draftVars, DraftInv
  <1> QED BY <1>1, <1>2, <1>3, <1>4, <1>5 DEF DraftNext

\* The draft and every plan undo can give back are sound, in every state.
THEOREM DraftIsSound == DraftSpec => []DraftInv
  <1>1. DraftInit => DraftInv
    BY DraftInitInv
  <1>2. DraftInv /\ [DraftNext]_draftVars => DraftInv'
    BY DraftNextInv
  <1> QED BY <1>1, <1>2, PTL DEF DraftSpec

LEMMA DraftInvTypes ==
  ASSUME DraftInv
  PROVE  DraftTypeOK
  <1>1. backing \in Seq(Round) /\ draft \in Seq(Round)
    BY DraftAssumption DEF DraftInv, Sound
  <1>2. \A n \in DOMAIN inverses : Inverted(inverses[n]) \in Seq(Round)
    BY DEF DraftInv, Sound
  <1>3. \A a \in Asked : asks[a] # NoAsk => asks[a] \in AskType
    BY DEF DraftInv
  <1> QED BY <1>1, <1>2, <1>3 DEF DraftInv, DraftTypeOK, AskType

\* Type correctness, for every set of plans and every bound.
THEOREM DraftTypes == DraftSpec => []DraftTypeOK
  <1>1. DraftInv => DraftTypeOK
    BY DraftInvTypes
  <1> QED BY <1>1, DraftIsSound, PTL

\* No mix of edits, undos, answers of the panel and resets leaves the rounds
\* out of order: the order in which publishing stores them.
THEOREM RoundsNumbered == DraftSpec => []DraftNumbered
  <1>1. ASSUME DraftInv PROVE DraftNumbered
    BY <1>1, SoundIsNumbered DEF DraftInv, DraftNumbered
  <1> QED BY <1>1, DraftIsSound, PTL

\* No undo and no late answer brings a round of another plan into the draft.
THEOREM RoundsOfSession == DraftSpec => []DraftOfSession
  <1>1. ASSUME DraftInv PROVE DraftOfSession
    BY <1>1 DEF DraftInv, DraftOfSession
  <1> QED BY <1>1, DraftIsSound, PTL

-----------------------------------------------------------------------------
(* The editor implements the history of edits.                             *)

Past == [n \in DOMAIN inverses |-> Inverted(inverses[n])]

LEMMA PastIs ==
  ASSUME NEW s \in Seq(Entry)
  PROVE  LET past == [n \in DOMAIN s |-> Inverted(s[n])]
         IN  /\ \E S : past \in Seq(S)
             /\ Len(past) = Len(s) /\ \A n \in 1..Len(s) : past[n] = Inverted(s[n])
  <1> DEFINE past == [n \in DOMAIN s |-> Inverted(s[n])]
             S == {Inverted(s[n]) : n \in DOMAIN s}
  <1>1. Len(s) \in Nat /\ DOMAIN s = 1..Len(s)
    OBVIOUS
  <1>2. past \in [1..Len(s) -> S]
    BY <1>1
  <1>3. past \in Seq(S) /\ Len(past) = Len(s)
    BY <1>1, <1>2
  <1> QED BY <1>1, <1>3

LEMMA UndoableIsEdit ==
  ASSUME DraftInv, Undoable
  PROVE  Past' = Append(Past, draft)
  <1>1. PICK e \in Entry : inverses' = Append(inverses, e) /\ Inverted(e) = draft
    BY DEF Undoable
  <1>2. inverses \in Seq(Entry)
    BY DEF DraftInv
  <1>3. /\ inverses' \in Seq(Entry) /\ Len(inverses') = Len(inverses) + 1 /\ Len(inverses) \in Nat
        /\ inverses'[Len(inverses) + 1] = e
        /\ \A n \in 1..Len(inverses) : inverses'[n] = inverses[n]
    BY <1>1, <1>2
  <1> DEFINE new == Append(Past, draft)
  <1>4. /\ \E S : Past \in Seq(S)
        /\ Len(Past) = Len(inverses) /\ \A n \in 1..Len(inverses) : Past[n] = Inverted(inverses[n])
    BY <1>2, PastIs DEF Past
  <1>5. /\ DOMAIN new = 1..Len(inverses) + 1
        /\ new = [n \in 1..Len(inverses) + 1 |-> new[n]]
        /\ new[Len(inverses) + 1] = draft /\ \A n \in 1..Len(inverses) : new[n] = Past[n]
    <2>1. PICK S : Past \in Seq(S)
      BY <1>4
    <2> HIDE DEF Past
    <2>2. new \in Seq(S \cup {draft}) /\ Len(new) = Len(inverses) + 1
      BY <1>4, <2>1
    <2>3. new[Len(inverses) + 1] = draft /\ \A n \in 1..Len(inverses) : new[n] = Past[n]
      BY <1>3, <1>4, <2>1
    <2> HIDE DEF new
    <2>4. DOMAIN new = 1..Len(new) /\ new = [n \in 1..Len(new) |-> new[n]]
      BY <2>2
    <2> QED BY <2>2, <2>3, <2>4
  <1>6. /\ DOMAIN Past' = 1..Len(inverses) + 1
        /\ \A n \in 1..Len(inverses) + 1 : Past'[n] = Inverted(inverses'[n])
        /\ Past' = [n \in 1..Len(inverses) + 1 |-> Inverted(inverses'[n])]
    BY <1>3 DEF Past
  <1> HIDE DEF new
  <1>7. ASSUME NEW n \in 1..Len(inverses) + 1 PROVE Past'[n] = new[n]
    <2>1. CASE n = Len(inverses) + 1
      BY <1>1, <1>3, <1>5, <1>6, <2>1
    <2>2. CASE n \in 1..Len(inverses)
      <3>1. Past'[n] = Inverted(inverses[n])
        BY <1>3, <1>6, <2>2
      <3> QED BY <1>4, <1>5, <2>2, <3>1
    <2> QED BY <1>3, <2>1, <2>2
  <1>8. Past' = new
    BY <1>5, <1>6, <1>7
  <1> QED BY <1>8 DEF new

LEMMA UndoIsUndone ==
  ASSUME DraftInv, Undo
  PROVE  /\ Past # <<>> /\ draft' = Past[Len(Past)]
         /\ Past' = SubSeq(Past, 1, Len(Past) - 1)
  <1>1. inverses \in Seq(Entry) /\ inverses # <<>>
    BY DEF DraftInv, Undo
  <1>2. draft' = Inverted(Last(inverses)) /\ inverses' = Front(inverses)
    BY DEF Undo
  <1>3. /\ inverses' \in Seq(Entry) /\ Len(inverses') = Len(inverses) - 1
        /\ \A n \in 1..Len(inverses) - 1 : inverses'[n] = inverses[n]
        /\ draft' = Inverted(inverses[Len(inverses)])
        /\ Len(inverses) \in 1..Len(inverses)
    BY <1>1, <1>2, FrontIs
  <1>4. /\ \E S : Past \in Seq(S)
        /\ Len(Past) = Len(inverses) /\ \A n \in 1..Len(inverses) : Past[n] = Inverted(inverses[n])
    BY <1>1, PastIs DEF Past
  <1>5. Past # <<>> /\ draft' = Past[Len(Past)]
    BY <1>3, <1>4
  <1> DEFINE old == Front(Past)
  <1>6. /\ old = SubSeq(Past, 1, Len(Past) - 1) /\ \E S : old \in Seq(S)
        /\ Len(old) = Len(Past) - 1 /\ \A n \in 1..Len(Past) - 1 : old[n] = Past[n]
    <2>1. PICK S : Past \in Seq(S)
      BY <1>4
    <2> QED BY <1>5, <2>1, FrontIs
  <1>7. /\ \E S : Past' \in Seq(S)
        /\ Len(Past') = Len(inverses')
        /\ \A n \in 1..Len(inverses') : Past'[n] = Inverted(inverses'[n])
    <2>1. Past' = [n \in DOMAIN inverses' |-> Inverted(inverses'[n])]
      BY DEF Past
    <2> QED BY <1>3, <2>1, PastIs
  <1> HIDE DEF old
  <1>8. ASSUME NEW n \in 1..Len(inverses) - 1 PROVE Past'[n] = old[n]
    BY <1>3, <1>4, <1>6, <1>7
  <1>9. Past' = old
    <2>1. PICK S : old \in Seq(S)
      BY <1>6
    <2>2. PICK T : Past' \in Seq(T)
      BY <1>7
    <2>3. /\ old = [n \in 1..Len(old) |-> old[n]] /\ Len(old) = Len(inverses) - 1
          /\ Past' = [n \in 1..Len(Past') |-> Past'[n]] /\ Len(Past') = Len(inverses) - 1
      BY <1>3, <1>4, <1>6, <1>7, <2>1, <2>2
    <2> QED BY <1>8, <2>3
  <1> QED BY <1>5, <1>6, <1>9

LEMMA HistoryInit == ASSUME DraftInit PROVE History!Begins
  <1>1. draft = backing /\ DOMAIN inverses = {}
    BY DEF DraftInit
  <1>2. Past = <<>>
    BY <1>1 DEF Past
  <1> QED BY <1>1, <1>2 DEF History!Begins, Past

LEMMA Replaced == ASSUME draft' = backing', inverses' = <<>> PROVE History!Replaces
  <1>1. DOMAIN inverses' = {}
    OBVIOUS
  <1>2. Past' = <<>>
    BY <1>1 DEF Past
  <1> QED BY <1>2 DEF History!Replaces, Past

LEMMA EditorHistory ==
  ASSUME DraftInv,
         \/ Edits \/ Undo
         \/ \E a \in Asked : AskAnswered(a) \/ AskFails(a)
         \/ \E p : DeliverPlan(p)
  PROVE  [History!Edits \/ History!Undoes \/ History!Replaces]_<<draft, Past>>
  <1>1. ASSUME Advances PROVE History!Edits \/ UNCHANGED <<draft, Past>>
    <2>1. CASE Undoable
      <3>1. Past' = Append(Past, draft)
        BY <2>1, UndoableIsEdit
      <3> QED BY <3>1 DEF History!Edits, Past
    <2>2. CASE UNCHANGED <<draft, inverses>>
      BY <2>2 DEF Past
    <2> QED BY <1>1, <2>1, <2>2 DEF Advances
  <1>2. CASE Edits
    BY <1>1, <1>2, EditsAdvance
  <1>3. CASE \E a \in Asked : AskAnswered(a) \/ AskFails(a)
    BY <1>1, <1>3, AnswersAdvance
  <1>4. CASE Undo
    <2>1. /\ Past # <<>> /\ draft' = Past[Len(Past)]
          /\ Past' = SubSeq(Past, 1, Len(Past) - 1)
      BY <1>4, UndoIsUndone
    <2> QED BY <2>1 DEF History!Undoes, Past
  <1>5. ASSUME NEW p, DeliverPlan(p)
        PROVE  History!Replaces \/ UNCHANGED <<draft, Past>>
    <2>1. CASE Key(p) # Key(backing)
      BY <1>5, <2>1, Replaced DEF DeliverPlan, KeptByReset
    <2>2. CASE Key(p) = Key(backing)
      BY <1>5, <2>2 DEF DeliverPlan, Past
    <2> QED BY <2>1, <2>2
  <1> QED BY <1>2, <1>3, <1>4, <1>5

LEMMA HistoryStep ==
  ASSUME DraftInv, [DraftNext]_draftVars
  PROVE  [History!Edits \/ History!Undoes \/ History!Replaces]_<<draft, Past>>
  <1>1. CASE DraftNext
    BY <1>1, EditorHistory DEF DraftNext
  <1>2. CASE UNCHANGED draftVars
    BY <1>2 DEF draftVars, Past
  <1> QED BY <1>1, <1>2

\* The editor implements the history of edits: what undo gives back is the
\* plan before the last edit that was not undone, whatever was edited, moved,
\* removed or answered since the reset.
THEOREM EditorImplementsHistory == DraftSpec => DraftHistory
  <1>1. DraftInit => History!Begins
    BY HistoryInit
  <1>2. DraftInv /\ [DraftNext]_draftVars
           => [History!Edits \/ History!Undoes \/ History!Replaces]_<<draft, Past>>
    BY HistoryStep
  <1> QED BY <1>1, <1>2, DraftIsSound, PTL DEF DraftSpec, DraftHistory, History!HistorySpec, Past

-----------------------------------------------------------------------------
(* Publishing: the rounds written are those of the plan.                   *)

Contents == {Content(r) : r \in Round}
RowType  == [by : Nat \ {0}, filled : BOOLEAN, round : Contents]
RowsType == [Number -> RowType \cup {NoRound}]
PostType == [st : PublishSt \ {"none"}, plan : Seq(Round), at : Nat, alone : BOOLEAN,
             again : BOOLEAN, found : RowsType, had : SUBSET Number]

\* The rounds a publish has written so far, if no other wrote after it began.
Written(n) ==
    /\ \A k \in Number :
          IF k <= publishes[n].at
          THEN /\ roundRows[k].by = n /\ roundRows[k].filled
               /\ roundRows[k].round = Content(publishes[n].plan[k])
          ELSE IF k = publishes[n].at + 1 /\ publishes[n].st = "filling"
          THEN roundRows[k].by = n /\ roundRows[k].round = Content(publishes[n].plan[k])
          ELSE roundRows[k] = NoRound
    /\ publishes[n].st \in {"inserted", "marked"} => publishes[n].at = Len(publishes[n].plan)

SessionTypes ==
    /\ status \in {"submitted", "published"} /\ Sound(stored, fresh)
    /\ planned \in BOOLEAN /\ editing \in BOOLEAN /\ tornRounds \in BOOLEAN
    /\ roundRows \in RowsType
    /\ booked \subseteq {k \in Number : roundRows[k] # NoRound}
    /\ sentPosts \in 0..MaxPosts /\ awaited \in 0..sentPosts
    /\ ~editing => inverses = <<>>

PostTypes ==
    /\ publishes \in [Post -> PostType \cup {NoPost}]
    /\ \A n \in Post : publishes[n] # NoPost =>
          /\ Sound(publishes[n].plan, fresh)
          /\ publishes[n].at \in 0..Len(publishes[n].plan)
          /\ publishes[n].st = "filling" => publishes[n].at < Len(publishes[n].plan)
          /\ publishes[n].st \in {"sent", "valid"} => publishes[n].at = 0

\* A publish that is alone is the only one writing; when the last one to write
\* was, nobody is writing and the rounds are those of the plan.
WholeInv ==
    /\ \A n \in Post : Writing(n) /\ publishes[n].alone
          => Written(n) /\ \A m \in Post \ {n} : ~Writing(m)
    /\ ~tornRounds => Holds(roundRows, stored) /\ \A n \in Post : ~Writing(n)

PublishInv == DraftInv /\ SessionTypes /\ PostTypes /\ WholeInv

-----------------------------------------------------------------------------
LEMMA PostIs ==
  ASSUME PostTypes, NEW n \in Post, publishes[n].st # "none"
  PROVE  /\ publishes[n] \in PostType /\ publishes[n] # NoPost
         /\ Sound(publishes[n].plan, fresh) /\ publishes[n].plan \in Seq(Round)
         /\ Len(publishes[n].plan) \in Nat /\ DOMAIN publishes[n].plan = 1..Len(publishes[n].plan)
         /\ publishes[n].at \in Nat /\ publishes[n].at <= Len(publishes[n].plan)
         /\ n \in Nat \ {0}
  <1>1. publishes[n] # NoPost
    BY DEF NoPost
  <1>2. publishes[n] \in PostType
    BY <1>1 DEF PostTypes
  <1>3. Sound(publishes[n].plan, fresh) /\ publishes[n].at \in 0..Len(publishes[n].plan)
    BY <1>1 DEF PostTypes
  <1>4. publishes[n].plan \in Seq(Round)
    BY <1>3 DEF Sound
  <1>5. n \in Nat \ {0}
    BY DEF Post
  <1> QED BY <1>1, <1>2, <1>3, <1>4, <1>5

\* A row of the table is a round or none, told apart by who wrote it.
LEMMA RowIs ==
  ASSUME NEW x \in RowType
  PROVE  x # NoRound /\ x.by \in Nat \ {0} /\ x.filled \in BOOLEAN
  <1>1. NoRound.by = 0 /\ x.by # 0
    BY DEF RowType, NoRound
  <1> QED BY <1>1 DEF RowType

LEMMA PlanForPublishSound ==
  ASSUME NEW f \in Nat, NEW p, Sound(p, f)
  PROVE  Sound(PlanForPublish(p), f)
  <1> DEFINE q == PlanForPublish(p)
  <1>1. p \in Seq(Round) /\ DOMAIN p = 1..Len(p) /\ Len(p) \in Nat
    BY DEF Sound
  <1>2. 0 \in Text
    BY DraftAssumption DEF Text
  <1>3. ASSUME NEW k \in 1..Len(p)
        PROVE  /\ q[k] \in Round
               /\ q[k].num = p[k].num /\ q[k].questions = p[k].questions
    <2>1. p[k] \in Round
      BY <1>1, ElementOfSeq
    <2>2. q[k] = [p[k] EXCEPT !.screening = ToWire(@)]
      BY <1>1 DEF PlanForPublish
    <2>3. ToWire(p[k].screening) \in Screen \cup {NoScreening}
      <3>1. p[k].screening \in Screen \cup {NoScreening}
        BY <2>1 DEF Round
      <3> DEFINE sc == p[k].screening
      <3>2. sc \in Screen => [sc EXCEPT !.snapshot = sc.persona, !.persona = Empty] \in Screen
        BY <1>2 DEF Screen, Empty
      <3> QED BY <3>1, <3>2 DEF ToWire
    <2> HIDE DEF q
    <2> QED BY <2>1, <2>2, <2>3 DEF Round
  <1>4. q \in Seq(Round) /\ Len(q) = Len(p)
    <2>1. q = [k \in 1..Len(p) |-> q[k]]
      BY <1>1 DEF PlanForPublish
    <2> HIDE DEF q
    <2>2. q \in [1..Len(p) -> Round]
      BY <1>3, <2>1
    <2> QED BY <1>1, <2>2
  <1> HIDE DEF q
  <1>5. Sound(q, f)
    BY <1>3, <1>4 DEF Sound
  <1> QED BY <1>5 DEF q

-----------------------------------------------------------------------------
(* The draft under publishing, and what leaves the backend alone.          *)

LEMMA PublishInitInv == ASSUME PublishInit PROVE PublishInv
  <1>1. DraftInv /\ backing \in Plans /\ Sound(backing, fresh)
    BY DraftInitInv DEF PublishInit, DraftInv, DraftInit
  <1>2. backing \in Seq(Round) /\ DOMAIN backing = 1..Len(backing)
        /\ \A k \in DOMAIN backing : backing[k] \in Round
    BY <1>1, ElementOfSeq DEF Sound
  <1>3. MaxPosts \in Nat
    BY PublishAssumption
  <1>4. roundRows \in RowsType
    <2> SUFFICES ASSUME NEW k \in Number PROVE FirstRows(backing)[k] \in RowType \cup {NoRound}
      BY DEF PublishInit, FirstRows, RowsType
    <2>1. CASE k \in DOMAIN backing
      <3>1. FirstRows(backing)[k]
              = [by |-> MaxPosts + 1, filled |-> TRUE, round |-> Content(backing[k])]
        BY <2>1 DEF FirstRows
      <3>2. Content(backing[k]) \in Contents /\ MaxPosts + 1 \in Nat \ {0}
        BY <1>2, <1>3, <2>1 DEF Contents
      <3> QED BY <3>1, <3>2 DEF RowType
    <2>2. CASE k \notin DOMAIN backing
      BY <2>2 DEF FirstRows
    <2> QED BY <2>1, <2>2
  <1>5. SessionTypes
    <2>1. 0 \in 0..MaxPosts /\ 0 \in 0..0
      BY <1>3
    <2> QED BY <1>1, <1>4, <2>1 DEF PublishInit, SessionTypes
  <1>6. \A n \in Post : publishes[n] = NoPost /\ ~Writing(n)
    BY DEF PublishInit, NoPost, Writing
  <1>7. PostTypes
    BY <1>6 DEF PublishInit, PostTypes
  <1>8. Holds(roundRows, stored)
    <2> SUFFICES ASSUME NEW k \in Number
                 PROVE  IF k \in DOMAIN backing
                        THEN /\ FirstRows(backing)[k].by > 0 /\ FirstRows(backing)[k].filled
                             /\ FirstRows(backing)[k].round = Content(backing[k])
                        ELSE FirstRows(backing)[k] = NoRound
      BY DEF PublishInit, Holds
    <2> QED BY <1>3 DEF FirstRows
  <1> QED BY <1>1, <1>5, <1>6, <1>7, <1>8 DEF PublishInv, WholeInv

\* Plans that are sound stay so while more texts are used.
LEMMA LaterTypes ==
  ASSUME PublishInv, fresh' \in FirstFree..MaxFresh, fresh <= fresh',
         UNCHANGED <<sessionVars, pageVars, publishes, tornRounds>>, ~editing => inverses' = <<>>
  PROVE  SessionTypes' /\ PostTypes' /\ WholeInv'
  <1>1. fresh \in Nat /\ fresh' \in Nat
    BY DraftAssumption DEF PublishInv, DraftInv
  <1>2. Sound(stored, fresh')
    BY <1>1, SoundLater DEF PublishInv, SessionTypes
  <1>3. \A n \in Post : publishes[n] # NoPost => Sound(publishes[n].plan, fresh')
    BY <1>1, SoundLater DEF PublishInv, PostTypes
  <1>4. SessionTypes'
    BY <1>2 DEF PublishInv, SessionTypes, sessionVars, pageVars
  <1>5. PostTypes'
    BY <1>3 DEF PublishInv, PostTypes
  <1>6. WholeInv'
    BY DEF PublishInv, WholeInv, Writing, Written, Holds, sessionVars, pageVars
  <1> QED BY <1>4, <1>5, <1>6

\* What the editor does on its own, a sound plan delivered by a refetch included.
LEMMA EditorInv ==
  ASSUME PublishInv, editing, UNCHANGED <<sessionVars, pageVars, publishes, tornRounds>>,
         \/ Edits \/ Undo
         \/ \E a \in Asked : AskAnswered(a) \/ AskFails(a)
         \/ \E p : Sound(p, fresh) /\ DeliverPlan(p)
  PROVE  PublishInv'
  <1>0. DraftInv /\ fresh \in FirstFree..MaxFresh /\ fresh \in Nat
    BY DraftAssumption DEF PublishInv, DraftInv
  <1>1. ASSUME Advances PROVE fresh' \in FirstFree..MaxFresh /\ fresh <= fresh'
    BY <1>0, <1>1, DraftAssumption DEF Advances
  <1>2. DraftInv' /\ fresh' \in FirstFree..MaxFresh /\ fresh <= fresh'
    <2>1. CASE Edits \/ \E a \in Asked : AskAnswered(a) \/ AskFails(a)
      BY <1>0, <1>1, <2>1, EditsAdvance, AnswersAdvance, AdvanceInv
    <2>2. CASE Undo
      BY <1>0, <2>2, UndoInv DEF Undo
    <2>3. ASSUME NEW p, Sound(p, fresh), DeliverPlan(p)
          PROVE  DraftInv' /\ fresh' \in FirstFree..MaxFresh /\ fresh <= fresh'
      BY <1>0, <2>3, DeliverInv DEF DeliverPlan
    <2> QED BY <2>1, <2>2, <2>3
  <1> QED BY <1>2, LaterTypes DEF PublishInv

LEMMA DraftEditsInv ==
  ASSUME PublishInv, DraftEdits
  PROVE  PublishInv'
  <1>1. editing /\ UNCHANGED <<sessionVars, pageVars, publishes, tornRounds>>
    BY DEF DraftEdits
  <1>2. Sound(stored, fresh)
    BY DEF PublishInv, SessionTypes
  <1> QED BY <1>1, <1>2, EditorInv DEF DraftEdits

\* The editor opened on the session's plan.
LEMMA PageStepInv ==
  ASSUME PublishInv, PublishAnswered \/ PublishBreaks \/ Reopen
  PROVE  PublishInv'
  <1>0. /\ DraftInv /\ Sound(stored, fresh) /\ fresh' = fresh /\ fresh \in FirstFree..MaxFresh
        /\ fresh \in Nat
    BY DraftAssumption DEF PublishInv, SessionTypes, DraftInv, PublishAnswered, PublishBreaks, Reopen,
       Leaves, draftVars
  <1>1. UNCHANGED <<sessionVars, sentPosts, publishes, tornRounds>>
    BY DEF PublishAnswered, PublishBreaks, Reopen
  <1>2. ASSUME draft' = stored, backing' = stored, inverses' = <<>>,
               asks' \in [Asked -> {NoAsk} \cup AskType]
        PROVE  DraftInv'
    <2>1. inverses' \in Seq(Entry) /\ 1..Len(inverses') = {}
      BY <1>2
    <2> QED BY <1>0, <1>2, <2>1 DEF DraftInv
  <1>3. DraftInv' /\ (~editing' => inverses' = <<>>)
    <2>1. CASE Reopen
      <3>1. /\ draft' = stored /\ backing' = stored /\ inverses' = <<>> /\ editing' = TRUE
            /\ asks' \in [Asked -> {NoAsk} \cup AskType]
        BY <2>1 DEF Reopen, PublishInv, SessionTypes, DraftInv
      <3> QED BY <1>2, <3>1
    <2>2. CASE PublishBreaks \/ (PublishAnswered /\ UNCHANGED <<draftVars, editing>>)
      BY <1>0, <2>2 DEF PublishBreaks, PublishInv, SessionTypes, draftVars, DraftInv
    <2>3. CASE Leaves
      <3>1. /\ draft' = stored /\ backing' = stored /\ inverses' = <<>>
            /\ asks' = [a \in Asked |-> NoAsk]
        BY <2>3 DEF Leaves
      <3>2. asks' \in [Asked -> {NoAsk} \cup AskType]
        BY <3>1
      <3> QED BY <1>2, <3>1, <3>2
    <2> QED BY <2>1, <2>2, <2>3 DEF PublishAnswered
  <1>4. editing' \in BOOLEAN /\ awaited' \in 0..sentPosts
    <2>1. sentPosts \in Nat /\ awaited \in 0..sentPosts /\ editing \in BOOLEAN
      BY PublishAssumption DEF PublishInv, SessionTypes
    <2>2. editing' = editing \/ editing' = TRUE \/ editing' = FALSE
      BY DEF PublishAnswered, PublishBreaks, Reopen, Leaves
    <2>3. awaited' = awaited \/ awaited' = 0
      BY DEF PublishAnswered, PublishBreaks, Reopen
    <2>4. awaited' \in 0..sentPosts
      BY <2>1, <2>3
    <2> QED BY <2>1, <2>2, <2>4
  <1>5. SessionTypes'
    BY <1>0, <1>1, <1>3, <1>4 DEF PublishInv, SessionTypes, sessionVars
  <1>6. PostTypes'
    BY <1>0, <1>1 DEF PublishInv, PostTypes
  <1>7. WholeInv'
    BY <1>1 DEF PublishInv, WholeInv, Writing, Written, Holds, sessionVars
  <1> QED BY <1>3, <1>5, <1>6, <1>7 DEF PublishInv

\* A publish that is sent, and is not writing yet.
LEMMA ClickInv ==
  ASSUME PublishInv, ClickPublish
  PROVE  PublishInv'
  <1> DEFINE new == [st |-> "sent", plan |-> PlanForPublish(draft), at |-> 0, alone |-> FALSE,
                     again |-> status = "published" /\ draft = stored,
                     found |-> roundRows, had |-> booked]
  <1>0. MaxPosts \in Nat /\ fresh \in Nat
    BY PublishAssumption, DraftAssumption DEF PublishInv, DraftInv
  <1>1. /\ sentPosts < MaxPosts /\ sentPosts' = sentPosts + 1 /\ awaited' = sentPosts + 1
        /\ publishes' = [publishes EXCEPT ![sentPosts + 1] = new]
        /\ UNCHANGED <<draftVars, sessionVars, editing, tornRounds>>
    BY DEF ClickPublish
  <1>2. sentPosts \in 0..MaxPosts /\ sentPosts + 1 \in Post
    BY <1>0, <1>1 DEF PublishInv, SessionTypes, Post
  <1>3. Sound(PlanForPublish(draft), fresh)
    BY <1>0, PlanForPublishSound DEF PublishInv, DraftInv
  <1>4. PlanForPublish(draft) \in Seq(Round) /\ 0 \in 0..Len(PlanForPublish(draft))
    BY <1>3 DEF Sound
  <1>5. new \in PostType
    <2>1. (status = "published" /\ draft = stored) \in BOOLEAN
      OBVIOUS
    <2>2. roundRows \in RowsType /\ booked \in SUBSET Number /\ "sent" \in PublishSt \ {"none"}
      BY DEF PublishInv, SessionTypes, PublishSt
    <2>3. FALSE \in BOOLEAN /\ 0 \in Nat
      OBVIOUS
    <2> QED BY <1>4, <2>1, <2>2, <2>3 DEF PostType
  <1>6. new.st = "sent" /\ new.plan = PlanForPublish(draft) /\ new.at = 0
    OBVIOUS
  <1> HIDE DEF new
  <1>7. /\ publishes' \in [Post -> PostType \cup {NoPost}]
        /\ publishes'[sentPosts + 1] = new
        /\ \A n \in Post : n # sentPosts + 1 => publishes'[n] = publishes[n]
    BY <1>1, <1>2, <1>5 DEF PublishInv, PostTypes
  <1>8. DraftInv' /\ fresh' = fresh
    BY <1>1 DEF PublishInv, DraftInv, draftVars
  <1>9. SessionTypes'
    BY <1>0, <1>1, <1>2 DEF PublishInv, SessionTypes, draftVars, sessionVars
  <1>10. PostTypes'
    BY <1>3, <1>4, <1>6, <1>7, <1>8 DEF PublishInv, PostTypes
  <1>11. \A n \in Post : Writing(n)' => n # sentPosts + 1 /\ Writing(n)
    BY <1>6, <1>7 DEF Writing
  <1>12. WholeInv'
    <2>1. UNCHANGED <<roundRows, stored, tornRounds>>
      BY <1>1 DEF sessionVars
    <2>2. \A n \in Post : n # sentPosts + 1 => (Written(n)' <=> Written(n))
      BY <1>7, <2>1 DEF Written
    <2> QED BY <1>7, <1>11, <2>1, <2>2 DEF PublishInv, WholeInv, Holds
  <1> QED BY <1>8, <1>9, <1>10, <1>12 DEF PublishInv

-----------------------------------------------------------------------------
(* The backend's steps.                                                    *)

\* What a step of publish n keeps of the types.
LEMMA StepTypes ==
  ASSUME PublishInv, NEW n \in Post, publishes[n].st # "none",
         publishes' \in [Post -> PostType \cup {NoPost}],
         publishes'[n].plan = publishes[n].plan,
         publishes'[n].at \in 0..Len(publishes[n].plan),
         publishes'[n].st = "filling" => publishes'[n].at < Len(publishes[n].plan),
         publishes'[n].st \in {"sent", "valid"} => publishes'[n].at = 0,
         \A m \in Post \ {n} : publishes'[m] = publishes[m],
         UNCHANGED <<draftVars, pageVars>>,
         roundRows' \in RowsType, booked' \subseteq {k \in Number : roundRows'[k] # NoRound},
         status' \in {"submitted", "published"}, stored' \in {stored, publishes[n].plan},
         planned' \in BOOLEAN, tornRounds' \in BOOLEAN
  PROVE  DraftInv' /\ SessionTypes' /\ PostTypes'
  <1>1. fresh' = fresh /\ inverses' = inverses
    BY DEF draftVars
  <1>2. publishes[n] # NoPost /\ Sound(publishes[n].plan, fresh)
    BY PostIs DEF PublishInv
  <1>3. DraftInv'
    BY DEF PublishInv, DraftInv, draftVars
  <1>4. SessionTypes'
    BY <1>1, <1>2 DEF PublishInv, SessionTypes, pageVars
  <1>5. PostTypes'
    BY <1>1, <1>2 DEF PublishInv, PostTypes
  <1> QED BY <1>3, <1>4, <1>5

LEMMA MoveIs ==
  ASSUME PostTypes, NEW n \in Post, publishes[n].st # "none",
         NEW st \in PublishSt \ {"none"}, PostMoves(n, st)
  PROVE  /\ publishes' \in [Post -> PostType \cup {NoPost}]
         /\ publishes'[n].st = st /\ publishes'[n].plan = publishes[n].plan
         /\ publishes'[n].at = publishes[n].at /\ publishes'[n].alone = publishes[n].alone
         /\ \A m \in Post \ {n} : publishes'[m] = publishes[m]
  <1> DEFINE x == [publishes[n] EXCEPT !.st = st]
  <1>1. x \in PostType /\ x.st = st /\ x.plan = publishes[n].plan
        /\ x.at = publishes[n].at /\ x.alone = publishes[n].alone
    BY PostIs DEF PostType
  <1>2. publishes' = [publishes EXCEPT ![n] = x]
    BY DEF PostMoves
  <1> HIDE DEF x
  <1> QED BY <1>1, <1>2 DEF PostTypes

\* A step that writes no round and makes no publish write.
LEMMA QuietStep ==
  ASSUME WholeInv, UNCHANGED <<roundRows, stored, tornRounds>>,
         \A m \in Post : Writing(m)' => Writing(m) /\ publishes'[m] = publishes[m]
  PROVE  WholeInv'
  <1>1. \A m \in Post : Writing(m)' => (Written(m)' <=> Written(m))
    BY DEF Written
  <1> QED BY <1>1 DEF WholeInv, Holds

\* A step of a publish that is writing.
LEMMA WritingStep ==
  ASSUME WholeInv, NEW n \in Post, Writing(n), tornRounds' = tornRounds,
         \A m \in Post \ {n} : publishes'[m] = publishes[m],
         Writing(n)' /\ publishes'[n].alone => publishes[n].alone /\ Written(n)'
  PROVE  WholeInv'
  <1>1. \A m \in Post \ {n} : Writing(m)' <=> Writing(m)
    BY DEF Writing
  <1>2. tornRounds'
    BY DEF WholeInv
  <1>3. ASSUME NEW m \in Post, Writing(m)', publishes'[m].alone
        PROVE  Written(m)' /\ \A k \in Post \ {m} : ~Writing(k)'
    <2>1. CASE m = n
      BY <1>1, <1>3, <2>1 DEF WholeInv
    <2>2. CASE m # n
      <3>1. Writing(m) /\ publishes[m].alone
        BY <1>1, <1>3, <2>2
      <3> QED BY <2>2, <3>1 DEF WholeInv
    <2> QED BY <2>1, <2>2
  <1> QED BY <1>2, <1>3 DEF WholeInv

LEMMA QuietStepsInv ==
  ASSUME PublishInv, NEW n \in Post, Validate(n) \/ BackendDies(n)
  PROVE  PublishInv'
  <1>1. PICK st \in {"valid", "refused", "dead"} :
           PostMoves(n, st) /\ (st = "valid" => publishes[n].st = "sent")
    BY DEF Validate, BackendDies
  <1>2. publishes[n].st # "none" /\ st \in PublishSt \ {"none"}
    BY DEF Validate, BackendDies, PublishSt
  <1>3. UNCHANGED <<draftVars, sessionVars, pageVars, tornRounds>>
    BY DEF Validate, BackendDies
  <1>4. /\ publishes' \in [Post -> PostType \cup {NoPost}]
        /\ publishes'[n].st = st /\ publishes'[n].plan = publishes[n].plan
        /\ publishes'[n].at = publishes[n].at
        /\ \A m \in Post \ {n} : publishes'[m] = publishes[m]
    BY <1>1, <1>2, MoveIs DEF PublishInv
  <1>5. publishes[n].at \in 0..Len(publishes[n].plan) /\ (st = "valid" => publishes[n].at = 0)
    BY <1>1, <1>2, PostIs DEF PublishInv, PostTypes
  <1>6. DraftInv' /\ SessionTypes' /\ PostTypes'
    <2>1. /\ st # "filling" /\ st # "sent"
          /\ UNCHANGED <<status, stored, planned, roundRows, booked, tornRounds>>
      BY <1>3 DEF sessionVars
    <2>2. /\ roundRows \in RowsType /\ booked \subseteq {k \in Number : roundRows[k] # NoRound}
          /\ status \in {"submitted", "published"}
          /\ planned \in BOOLEAN /\ tornRounds \in BOOLEAN
      BY DEF PublishInv, SessionTypes
    <2> QED BY <1>2, <1>3, <1>4, <1>5, <2>1, <2>2, StepTypes
  <1>7. WholeInv'
    <2>1. \A m \in Post : Writing(m)' => Writing(m) /\ publishes'[m] = publishes[m]
      BY <1>4 DEF Writing
    <2> QED BY <1>3, <2>1, QuietStep DEF PublishInv, sessionVars
  <1> QED BY <1>6, <1>7 DEF PublishInv

\* The delete of the rounds takes the table for one publish.
LEMMA DeleteRoundsInv ==
  ASSUME PublishInv, NEW n \in Post, DeleteRounds(n)
  PROVE  PublishInv'
  <1>1. /\ publishes[n].st = "valid"
        /\ roundRows' = [k \in Number |-> NoRound] /\ booked' = {} /\ tornRounds' = TRUE
        /\ UNCHANGED <<draftVars, status, stored, planned, pageVars>>
    BY DEF DeleteRounds, StillBooked
  <1> DEFINE new(k) ==
          IF k = n THEN [publishes[n] EXCEPT !.st = "inserting", !.found = roundRows, !.had = booked,
                                         !.again = @ /\ ~tornRounds,
                                         !.alone = \A j \in Post : ~Writing(j)]
          ELSE IF Writing(k) THEN [publishes[k] EXCEPT !.alone = FALSE] ELSE publishes[k]
  <1>2. publishes' = [k \in Post |-> new(k)]
    BY DEF DeleteRounds
  <1>3. /\ new(n) \in PostType /\ new(n).st = "inserting"
        /\ new(n).plan = publishes[n].plan /\ new(n).at = publishes[n].at
        /\ new(n).alone = (\A j \in Post : ~Writing(j))
    <2>1. publishes[n] \in PostType
      BY <1>1, PostIs DEF PublishInv
    <2>2. roundRows \in RowsType /\ booked \in SUBSET Number /\ "inserting" \in PublishSt \ {"none"}
      BY DEF PublishInv, SessionTypes, PublishSt
    <2>3. (\A j \in Post : ~Writing(j)) \in BOOLEAN
      OBVIOUS
    <2>4. (publishes[n].again /\ ~tornRounds) \in BOOLEAN
      OBVIOUS
    <2> DEFINE a == \A j \in Post : ~Writing(j)
               g == publishes[n].again /\ ~tornRounds
               x == [publishes[n] EXCEPT !.st = "inserting", !.found = roundRows, !.had = booked,
                                         !.again = g, !.alone = a]
    <2>5. new(n) = x
      OBVIOUS
    <2>6. a \in BOOLEAN /\ g \in BOOLEAN
      BY <2>3, <2>4
    <2> HIDE DEF a, g, new
    <2>7. x \in PostType /\ x.st = "inserting" /\ x.plan = publishes[n].plan
          /\ x.at = publishes[n].at /\ x.alone = a
      BY <2>1, <2>2, <2>6 DEF PostType
    <2> QED BY <2>5, <2>7 DEF a
  <1>4. ASSUME NEW k \in Post, k # n
        PROVE  /\ new(k) \in PostType \cup {NoPost}
               /\ new(k) = NoPost <=> publishes[k] = NoPost
               /\ Writing(k) => new(k).alone = FALSE
               /\ publishes[k] # NoPost => /\ new(k).st = publishes[k].st
                                           /\ new(k).plan = publishes[k].plan
                                           /\ new(k).at = publishes[k].at
    <2>1. CASE Writing(k)
      <3>1. publishes[k] \in PostType /\ publishes[k] # NoPost
        BY <2>1, PostIs DEF PublishInv, Writing
      <3>2. new(k) = [publishes[k] EXCEPT !.alone = FALSE]
        BY <1>4, <2>1
      <3> HIDE DEF new
      <3>3. /\ new(k) \in PostType /\ new(k).alone = FALSE /\ new(k).st = publishes[k].st
            /\ new(k).plan = publishes[k].plan /\ new(k).at = publishes[k].at
        BY <3>1, <3>2 DEF PostType
      <3>4. publishes[k].st # "none"
        BY <2>1 DEF Writing
      <3>5. new(k) # NoPost
        BY <3>3, <3>4 DEF NoPost
      <3> QED BY <3>1, <3>3, <3>5
    <2>2. CASE ~Writing(k)
      BY <1>4, <2>2 DEF PublishInv, PostTypes
    <2> QED BY <2>1, <2>2
  <1> HIDE DEF new
  <1>5. publishes' \in [Post -> PostType \cup {NoPost}] /\ \A k \in Post : publishes'[k] = new(k)
    <2>1. \A k \in Post : new(k) \in PostType \cup {NoPost}
      BY <1>3, <1>4
    <2> QED BY <1>2, <2>1
  <1>6. DraftInv' /\ fresh' = fresh
    BY <1>1 DEF PublishInv, DraftInv, draftVars
  <1>7. SessionTypes'
    BY <1>1 DEF PublishInv, SessionTypes, pageVars, draftVars, RowsType
  <1>8. PostTypes'
    <2>1. publishes[n] # NoPost
      BY <1>1, PostIs DEF PublishInv
    <2>2. /\ Sound(publishes[n].plan, fresh) /\ publishes[n].at \in 0..Len(publishes[n].plan)
          /\ publishes[n].at = 0
      BY <1>1, <2>1 DEF PublishInv, PostTypes
    <2> SUFFICES ASSUME NEW k \in Post, new(k) # NoPost
                 PROVE  /\ Sound(new(k).plan, fresh) /\ new(k).at \in 0..Len(new(k).plan)
                        /\ new(k).st = "filling" => new(k).at < Len(new(k).plan)
                        /\ new(k).st \in {"sent", "valid"} => new(k).at = 0
      BY <1>5, <1>6 DEF PostTypes
    <2>3. CASE k = n
      BY <1>3, <2>2, <2>3
    <2>4. CASE k # n
      BY <1>4, <2>4 DEF PublishInv, PostTypes
    <2> QED BY <2>3, <2>4
  <1>9. \A k \in Post : k # n => (Writing(k)' <=> Writing(k))
    <2> SUFFICES ASSUME NEW k \in Post, k # n PROVE Writing(k)' <=> Writing(k)
      OBVIOUS
    <2>1. CASE publishes[k] = NoPost
      BY <1>4, <1>5, <2>1 DEF Writing
    <2>2. CASE publishes[k] # NoPost
      BY <1>4, <1>5, <2>2 DEF Writing
    <2> QED BY <2>1, <2>2
  <1>10. ASSUME NEW m \in Post, Writing(m)', publishes'[m].alone
         PROVE  Written(m)' /\ \A k \in Post \ {m} : ~Writing(k)'
    <2>1. m = n
      BY <1>4, <1>5, <1>9, <1>10
    <2>2. \A k \in Post \ {n} : ~Writing(k)'
      BY <1>3, <1>5, <1>9, <1>10, <2>1
    <2>3. Written(n)'
      <3>1. publishes[n].at = 0
        BY <1>1, PostIs DEF PublishInv, PostTypes
      <3>2. publishes'[n].at = 0 /\ publishes'[n].st = "inserting"
        BY <1>3, <1>5, <3>1
      <3>3. \A k \in Number : ~(k <= 0)
        BY DEF Number
      <3> QED BY <1>1, <3>2, <3>3 DEF Written
    <2> QED BY <2>1, <2>2, <2>3
  <1>11. WholeInv'
    BY <1>1, <1>10 DEF WholeInv
  <1> QED BY <1>6, <1>7, <1>8, <1>11 DEF PublishInv

\* What the steps of a publish that is writing share.
LEMMA WriterIs ==
  ASSUME PublishInv, NEW n \in Post, Writing(n)
  PROVE  /\ publishes[n] \in PostType /\ publishes[n].st # "none" /\ n \in Nat \ {0}
         /\ publishes[n].plan \in Seq(Round) /\ Len(publishes[n].plan) \in Nat
         /\ publishes[n].at \in Nat /\ publishes[n].at <= Len(publishes[n].plan)
         /\ publishes[n].st = "filling" => publishes[n].at < Len(publishes[n].plan)
         /\ roundRows \in RowsType /\ tornRounds
         /\ booked \subseteq {k \in Number : roundRows[k] # NoRound}
         /\ status \in {"submitted", "published"} /\ planned \in BOOLEAN
  <1>1. publishes[n].st # "none"
    BY DEF Writing
  <1>2. publishes[n].st = "filling" => publishes[n].at < Len(publishes[n].plan)
    BY <1>1, PostIs DEF PublishInv, PostTypes
  <1>3. tornRounds
    BY DEF PublishInv, WholeInv
  <1>4. /\ roundRows \in RowsType /\ booked \subseteq {k \in Number : roundRows[k] # NoRound}
        /\ status \in {"submitted", "published"} /\ planned \in BOOLEAN
    BY DEF PublishInv, SessionTypes
  <1> QED BY <1>1, <1>2, <1>3, <1>4, PostIs DEF PublishInv

\* A publish that gives up writes no more.
LEMMA RefusedInv ==
  ASSUME PublishInv, NEW n \in Post, Writing(n), PostMoves(n, "refused"),
         UNCHANGED <<draftVars, sessionVars, pageVars, tornRounds>>
  PROVE  PublishInv'
  <1>1. /\ publishes' \in [Post -> PostType \cup {NoPost}]
        /\ publishes'[n].st = "refused" /\ publishes'[n].plan = publishes[n].plan
        /\ publishes'[n].at = publishes[n].at
        /\ \A m \in Post \ {n} : publishes'[m] = publishes[m]
    BY WriterIs, MoveIs DEF PublishInv, PublishSt
  <1>2. DraftInv' /\ SessionTypes' /\ PostTypes'
    <2>1. publishes[n].at \in 0..Len(publishes[n].plan)
      BY WriterIs
    <2>2. UNCHANGED <<status, stored, planned, roundRows, booked, tornRounds>>
      BY DEF sessionVars
    <2>3. tornRounds \in BOOLEAN
      BY DEF PublishInv, SessionTypes
    <2> QED BY <1>1, <2>1, <2>2, <2>3, WriterIs, StepTypes
  <1>3. \A m \in Post : Writing(m)' => Writing(m) /\ publishes'[m] = publishes[m]
    BY <1>1 DEF Writing
  <1>4. WholeInv'
    BY <1>3, QuietStep DEF PublishInv, sessionVars
  <1> QED BY <1>2, <1>4 DEF PublishInv

\* A round is inserted where none is.
LEMMA InsertRoundInv ==
  ASSUME PublishInv, NEW n \in Post, InsertRound(n)
  PROVE  PublishInv'
  <1> DEFINE k == publishes[n].at + 1
             new == [by |-> n, filled |-> FALSE, round |-> Content(publishes[n].plan[k])]
  <1>1. /\ publishes[n].st = "inserting" /\ k <= Len(publishes[n].plan)
        /\ UNCHANGED <<draftVars, status, stored, planned, booked, pageVars, tornRounds>>
    BY DEF InsertRound
  <1>2. Writing(n)
    BY <1>1 DEF Writing
  <1>3. CASE ~Storable(n, k)
    <2>1. PostMoves(n, "refused") /\ UNCHANGED roundRows
      BY <1>3 DEF InsertRound
    <2> QED BY <1>1, <1>2, <2>1, RefusedInv DEF sessionVars
  <1>4. CASE Storable(n, k)
    <2>1. roundRows' = [roundRows EXCEPT ![k] = new] /\ PostMoves(n, "filling")
      BY <1>4 DEF InsertRound
    <2>2. /\ publishes' \in [Post -> PostType \cup {NoPost}]
          /\ publishes'[n].st = "filling" /\ publishes'[n].plan = publishes[n].plan
          /\ publishes'[n].at = publishes[n].at /\ publishes'[n].alone = publishes[n].alone
          /\ \A m \in Post \ {n} : publishes'[m] = publishes[m]
      BY <1>2, <2>1, WriterIs, MoveIs DEF PublishInv, PublishSt
    <2>3. k \in 1..Len(publishes[n].plan)
      BY <1>1, <1>2, WriterIs
    <2>4. new \in RowType /\ new # NoRound
      <3>1. publishes[n].plan[k] \in Round
        BY <1>2, <2>3, WriterIs, ElementOfSeq
      <3>2. Content(publishes[n].plan[k]) \in Contents /\ n \in Nat \ {0}
        BY <1>2, <3>1, WriterIs DEF Contents
      <3>3. new \in RowType
        BY <3>2 DEF RowType
      <3> QED BY <3>3, RowIs
    <2>5. new.by = n /\ new.round = Content(publishes[n].plan[k])
      OBVIOUS
    <2> HIDE DEF new
    <2>6. /\ roundRows' \in RowsType
          /\ k \in Number => roundRows'[k] = new
          /\ \A j \in Number : j # k => roundRows'[j] = roundRows[j]
      BY <1>2, <2>1, <2>4, WriterIs DEF RowsType
    <2>7. DraftInv' /\ SessionTypes' /\ PostTypes'
      <3>1. publishes[n].at \in 0..Len(publishes[n].plan) /\ publishes[n].at < Len(publishes[n].plan)
        BY <1>2, <2>3, WriterIs
      <3>2. booked' \subseteq {j \in Number : roundRows'[j] # NoRound}
        BY <1>1, <1>2, <2>4, <2>6, WriterIs
      <3>3. tornRounds \in BOOLEAN
        BY DEF PublishInv, SessionTypes
      <3> QED BY <1>1, <1>2, <2>2, <2>6, <3>1, <3>2, <3>3, WriterIs, StepTypes
    <2>8. publishes[n].alone => Written(n)'
      <3> SUFFICES ASSUME publishes[n].alone PROVE Written(n)'
        OBVIOUS
      <3>1. Written(n)
        BY <1>2 DEF PublishInv, WholeInv
      <3> SUFFICES ASSUME NEW j \in Number
                   PROVE  IF j <= publishes[n].at
                          THEN /\ roundRows'[j].by = n /\ roundRows'[j].filled
                               /\ roundRows'[j].round = Content(publishes[n].plan[j])
                          ELSE IF j = k
                          THEN /\ roundRows'[j].by = n
                               /\ roundRows'[j].round = Content(publishes[n].plan[j])
                          ELSE roundRows'[j] = NoRound
        BY <2>2 DEF Written
      <3>2. publishes[n].at \in Nat /\ j \in Nat
        BY <1>2, WriterIs DEF Number
      <3>3. CASE j = k
        BY <2>5, <2>6, <3>2, <3>3
      <3>4. CASE j # k
        BY <1>1, <2>6, <3>1, <3>4 DEF Written
      <3> QED BY <3>3, <3>4
    <2>9. WholeInv'
      BY <1>1, <1>2, <2>2, <2>8, WritingStep DEF PublishInv
    <2> QED BY <2>7, <2>9 DEF PublishInv
  <1> QED BY <1>3, <1>4

\* Its questions follow, if it is still there.
LEMMA InsertQuestionsInv ==
  ASSUME PublishInv, NEW n \in Post, InsertQuestions(n)
  PROVE  PublishInv'
  <1> DEFINE k == publishes[n].at + 1
             st == IF k = Len(publishes[n].plan) THEN "inserted" ELSE "inserting"
             x == [publishes[n] EXCEPT !.st = st, !.at = k]
  <1>1. /\ publishes[n].st = "filling"
        /\ UNCHANGED <<draftVars, status, stored, planned, booked, pageVars, tornRounds>>
    BY DEF InsertQuestions
  <1>2. Writing(n)
    BY <1>1 DEF Writing
  <1>3. CASE roundRows[k].by # n
    <2>1. PostMoves(n, "refused") /\ UNCHANGED roundRows
      BY <1>3 DEF InsertQuestions
    <2> QED BY <1>1, <1>2, <2>1, RefusedInv DEF sessionVars
  <1>4. CASE roundRows[k].by = n
    <2>1. roundRows' = [roundRows EXCEPT ![k].filled = TRUE] /\ publishes' = [publishes EXCEPT ![n] = x]
      BY <1>4 DEF InsertQuestions
    <2>2. /\ k \in Nat /\ k \in 0..Len(publishes[n].plan) /\ st \in PublishSt \ {"none"}
          /\ st \in {"inserted", "inserting"} /\ (st = "inserted" => k = Len(publishes[n].plan))
      BY <1>1, <1>2, WriterIs DEF PublishSt
    <2> HIDE DEF st
    <2>3. /\ x \in PostType /\ x.st = st /\ x.at = k /\ x.plan = publishes[n].plan
          /\ x.alone = publishes[n].alone
      BY <1>2, <2>2, WriterIs DEF PostType
    <2> HIDE DEF x
    <2>4. /\ publishes' \in [Post -> PostType \cup {NoPost}] /\ publishes'[n] = x
          /\ \A m \in Post \ {n} : publishes'[m] = publishes[m]
      BY <2>1, <2>3 DEF PublishInv, PostTypes
    <2> HIDE DEF k
    <2>5. /\ roundRows' \in RowsType
          /\ k \in Number => /\ roundRows'[k].by = n /\ roundRows'[k].filled
                             /\ roundRows'[k].round = roundRows[k].round /\ roundRows'[k] # NoRound
          /\ \A j \in Number : j # k => roundRows'[j] = roundRows[j]
      <3>1. CASE k \in Number
        <4>1. roundRows[k] \in RowType
          <5>1. roundRows[k] \in RowType \cup {NoRound} /\ n # 0
            BY <1>2, <3>1, WriterIs DEF RowsType
          <5> QED BY <1>4, <5>1 DEF NoRound, k
        <4> DEFINE r == [roundRows[k] EXCEPT !.filled = TRUE]
        <4>2. r \in RowType /\ r.by = n /\ r.filled /\ r.round = roundRows[k].round
          BY <1>4, <4>1 DEF RowType, k
        <4>3. roundRows' = [roundRows EXCEPT ![k] = r]
          BY <2>1
        <4> HIDE DEF r
        <4>4. r # NoRound
          BY <4>2, RowIs
        <4> QED BY <1>2, <3>1, <4>2, <4>3, <4>4, WriterIs DEF RowsType
      <3>2. CASE k \notin Number
        BY <1>2, <2>1, <3>2, WriterIs DEF RowsType
      <3> QED BY <3>1, <3>2
    <2>6. DraftInv' /\ SessionTypes' /\ PostTypes'
      <3>1. booked' \subseteq {j \in Number : roundRows'[j] # NoRound}
        BY <1>1, <1>2, <2>5, WriterIs
      <3>2. tornRounds \in BOOLEAN
        BY DEF PublishInv, SessionTypes
      <3> QED BY <1>1, <1>2, <2>2, <2>3, <2>4, <2>5, <3>1, <3>2, WriterIs, StepTypes
    <2>7. publishes[n].alone => Written(n)'
      <3> SUFFICES ASSUME publishes[n].alone PROVE Written(n)'
        OBVIOUS
      <3>1. Written(n)
        BY <1>2 DEF PublishInv, WholeInv
      <3>2. k = publishes[n].at + 1 /\ publishes[n].at \in Nat
        BY <1>2, WriterIs DEF k
      <3>3. ASSUME NEW j \in Number
            PROVE  IF j <= k
                   THEN /\ roundRows'[j].by = n /\ roundRows'[j].filled
                        /\ roundRows'[j].round = Content(publishes[n].plan[j])
                   ELSE roundRows'[j] = NoRound
        <4>1. j \in Nat
          BY DEF Number
        <4>2. CASE j = k
          BY <1>1, <2>5, <3>1, <3>2, <4>2 DEF Written
        <4>3. CASE j # k
          BY <2>5, <3>1, <3>2, <4>1, <4>3 DEF Written
        <4> QED BY <4>2, <4>3
      <3>4. /\ publishes'[n].at = k /\ publishes'[n].plan = publishes[n].plan
            /\ publishes'[n].st # "filling"
            /\ publishes'[n].st \in {"inserted", "marked"} => k = Len(publishes[n].plan)
        BY <2>2, <2>3, <2>4
      <3> QED BY <3>3, <3>4 DEF Written
    <2>8. WholeInv'
      BY <1>1, <1>2, <2>3, <2>4, <2>7, WritingStep DEF PublishInv
    <2> QED BY <2>6, <2>8 DEF PublishInv
  <1> QED BY <1>3, <1>4

\* The requisition is planned, then the session published with the plan whose
\* rounds are there.
LEMMA MarkInv ==
  ASSUME PublishInv, NEW n \in Post, MarkPlanned(n) \/ MarkPublished(n)
  PROVE  PublishInv'
  <1>1. Writing(n) /\ publishes[n].st \in {"inserted", "marked"}
    BY DEF MarkPlanned, MarkPublished, Writing
  <1>2. UNCHANGED <<draftVars, roundRows, booked, pageVars>>
    BY DEF MarkPlanned, MarkPublished
  <1>3. publishes[n].at \in 0..Len(publishes[n].plan)
    BY <1>1, WriterIs
  <1>4. CASE MarkPlanned(n)
    <2>1. /\ publishes[n].st = "inserted" /\ planned' = TRUE /\ PostMoves(n, "marked")
          /\ UNCHANGED <<status, stored, tornRounds>>
      BY <1>4 DEF MarkPlanned
    <2>2. /\ publishes' \in [Post -> PostType \cup {NoPost}]
          /\ publishes'[n].st = "marked" /\ publishes'[n].plan = publishes[n].plan
          /\ publishes'[n].at = publishes[n].at /\ publishes'[n].alone = publishes[n].alone
          /\ \A m \in Post \ {n} : publishes'[m] = publishes[m]
      BY <1>1, <2>1, WriterIs, MoveIs DEF PublishInv, PublishSt
    <2>3. tornRounds \in BOOLEAN
      BY DEF PublishInv, SessionTypes
    <2>4. DraftInv' /\ SessionTypes' /\ PostTypes'
      BY <1>1, <1>2, <1>3, <2>1, <2>2, <2>3, WriterIs, StepTypes
    <2>5. publishes[n].alone => Written(n)'
      <3>1. publishes[n].alone => Written(n)
        BY <1>1 DEF PublishInv, WholeInv
      <3> QED BY <1>2, <2>1, <2>2, <3>1 DEF Written
    <2>6. WholeInv'
      BY <1>1, <2>1, <2>2, <2>5, WritingStep DEF PublishInv
    <2> QED BY <2>4, <2>6 DEF PublishInv
  <1>5. CASE MarkPublished(n)
    <2>1. /\ publishes[n].st = "marked" /\ status' = "published" /\ stored' = publishes[n].plan
          /\ tornRounds' = ~publishes[n].alone /\ PostMoves(n, "ok") /\ planned' = planned
      BY <1>5 DEF MarkPublished, KeptPlan
    <2>2. /\ publishes' \in [Post -> PostType \cup {NoPost}]
          /\ publishes'[n].st = "ok" /\ publishes'[n].plan = publishes[n].plan
          /\ publishes'[n].at = publishes[n].at
          /\ \A m \in Post \ {n} : publishes'[m] = publishes[m]
      BY <1>1, <2>1, WriterIs, MoveIs DEF PublishInv, PublishSt
    <2>3. tornRounds' \in BOOLEAN
      BY <2>1
    <2>4. DraftInv' /\ SessionTypes' /\ PostTypes'
      BY <1>1, <1>2, <1>3, <2>1, <2>2, <2>3, WriterIs, StepTypes
    <2>5. ~Writing(n)' /\ \A m \in Post \ {n} : Writing(m)' <=> Writing(m)
      BY <2>2 DEF Writing
    <2>6. ASSUME NEW m \in Post, Writing(m)', publishes'[m].alone
          PROVE  Written(m)' /\ \A k \in Post \ {m} : ~Writing(k)'
      <3>1. m # n /\ Writing(m) /\ publishes[m].alone
        BY <2>2, <2>5, <2>6
      <3> QED BY <1>1, <3>1 DEF PublishInv, WholeInv
    <2>7. publishes[n].alone => Holds(roundRows', stored') /\ \A m \in Post : ~Writing(m)'
      <3> SUFFICES ASSUME publishes[n].alone
                   PROVE  Holds(roundRows', stored') /\ \A m \in Post : ~Writing(m)'
        OBVIOUS
      <3>1. Written(n) /\ \A m \in Post \ {n} : ~Writing(m)
        BY <1>1 DEF PublishInv, WholeInv
      <3> DEFINE p == publishes[n].plan
      <3>2. DOMAIN p = 1..Len(p) /\ Len(p) \in Nat /\ publishes[n].at = Len(p) /\ n > 0
        BY <1>1, <3>1, WriterIs DEF Written
      <3>3. ASSUME NEW k \in Number
            PROVE  IF k \in DOMAIN p
                   THEN roundRows[k].by > 0 /\ roundRows[k].filled /\ roundRows[k].round = Content(p[k])
                   ELSE roundRows[k] = NoRound
        <4>1. k \in Nat \ {0}
          BY DEF Number
        <4> QED BY <2>1, <3>1, <3>2, <4>1 DEF Written
      <3>4. Holds(roundRows, p)
        BY <3>3 DEF Holds
      <3> QED BY <1>2, <2>1, <2>5, <3>1, <3>4
    <2>8. WholeInv'
      BY <2>1, <2>6, <2>7 DEF WholeInv
    <2> QED BY <2>4, <2>8 DEF PublishInv
  <1> QED BY <1>4, <1>5

LEMMA BookInv ==
  ASSUME PublishInv, NEW k \in Number, Book(k)
  PROVE  PublishInv'
  <1>1. /\ roundRows[k] # NoRound /\ booked' = booked \cup {k}
        /\ UNCHANGED <<draftVars, status, stored, planned, roundRows, pageVars, publishes, tornRounds>>
    BY DEF Book
  <1>2. DraftInv'
    BY <1>1 DEF PublishInv, DraftInv, draftVars
  <1>3. SessionTypes'
    BY <1>1 DEF PublishInv, SessionTypes, draftVars, pageVars
  <1>4. PostTypes'
    BY <1>1 DEF PublishInv, PostTypes, draftVars
  <1>5. WholeInv'
    BY <1>1 DEF PublishInv, WholeInv, Writing, Written, Holds
  <1> QED BY <1>2, <1>3, <1>4, <1>5 DEF PublishInv

LEMMA PublishStep ==
  ASSUME PublishInv, [PublishNext]_publishVars
  PROVE  PublishInv'
  <1>1. CASE DraftEdits \/ ClickPublish \/ PublishAnswered \/ PublishBreaks \/ Reopen
    BY <1>1, DraftEditsInv, ClickInv, PageStepInv
  <1>2. CASE \E n \in Post : PublishSteps(n)
    BY <1>2, QuietStepsInv, DeleteRoundsInv, InsertRoundInv, InsertQuestionsInv, MarkInv DEF PublishSteps
  <1>3. CASE \E k \in Number : Book(k)
    BY <1>3, BookInv
  <1>4. CASE UNCHANGED publishVars
    <2> USE DEF publishVars, draftVars, sessionVars, pageVars
    <2>1. DraftInv'
      BY <1>4 DEF PublishInv, DraftInv
    <2>2. SessionTypes' /\ PostTypes'
      BY <1>4 DEF PublishInv, SessionTypes, PostTypes
    <2>3. WholeInv'
      BY <1>4 DEF PublishInv, WholeInv, Writing, Written, Holds
    <2> QED BY <2>1, <2>2, <2>3 DEF PublishInv
  <1> QED BY <1>1, <1>2, <1>3, <1>4 DEF PublishNext

\* The invariant of publishing, the draft's included, holds in every state.
THEOREM PublishInvariance == PublishSpec => []PublishInv
  BY PublishInitInv, PublishStep, PTL DEF PublishSpec

LEMMA PublishInvTypes ==
  ASSUME PublishInv
  PROVE  PublishTypeOK
  <1>1. \A k \in Number : roundRows[k] # NoRound
           => roundRows[k].by > 0 /\ roundRows[k].filled \in BOOLEAN
    <2>1. \A k \in Number : roundRows[k] # NoRound => roundRows[k] \in RowType
      BY DEF PublishInv, SessionTypes, RowsType
    <2> QED BY <2>1, RowIs
  <1>2. ASSUME NEW n \in Post
        PROVE  /\ publishes[n].st \in PublishSt
               /\ publishes[n].st # "none" =>
                     publishes[n].plan \in Seq(Round) /\ publishes[n].at \in 0..Len(publishes[n].plan)
    <2>1. CASE publishes[n].st = "none"
      BY <2>1 DEF PublishSt
    <2>2. CASE publishes[n].st # "none"
      BY <2>2, PostIs DEF PublishInv, PostType
    <2> QED BY <2>1, <2>2
  <1>3. stored \in Seq(Round)
    BY DEF PublishInv, SessionTypes, Sound
  <1> QED BY <1>1, <1>2, <1>3 DEF PublishInv, SessionTypes, PublishTypeOK

\* The session, its rounds and the publishes keep their types.
THEOREM PublishTypes == PublishSpec => []PublishTypeOK
  <1>1. PublishInv => PublishTypeOK
    BY PublishInvTypes
  <1> QED BY <1>1, PublishInvariance, PTL

\* When nobody is writing and the last publish to write did so alone and to its
\* end, the rounds of the requisition are those of the session's plan: for any
\* number of publishes that overlap, break, are refused or die half way.
THEOREM RoundsFollowPlan == PublishSpec => []RoundsAreOfPlan
  <1>1. PublishInv => RoundsAreOfPlan
    BY DEF PublishInv, WholeInv, RoundsAreOfPlan
  <1> QED BY <1>1, PublishInvariance, PTL

\* Publishing and opening the editor again keep the drafts of the session and
\* in order, as the editor alone does.
THEOREM RepublishedDraft == PublishSpec => [](DraftNumbered /\ DraftOfSession)
  <1>1. PublishInv => DraftNumbered /\ DraftOfSession
    BY SoundIsNumbered DEF PublishInv, DraftInv, DraftNumbered, DraftOfSession
  <1> QED BY <1>1, PublishInvariance, PTL

LEMMA PublishHistoryStep ==
  ASSUME PublishInv, [PublishNext]_publishVars
  PROVE  [History!Edits \/ History!Undoes \/ History!Replaces]_<<draft, Past>>
  <1>0. DraftInv /\ (~editing => inverses = <<>>)
    BY DEF PublishInv, SessionTypes
  <1>1. CASE DraftEdits
    <2>1. \/ Edits \/ Undo
          \/ \E a \in Asked : AskAnswered(a) \/ AskFails(a)
          \/ \E p : DeliverPlan(p)
      BY <1>1 DEF DraftEdits
    <2> QED BY <1>0, <2>1, EditorHistory
  <1>2. CASE Reopen \/ Leaves
    BY <1>0, <1>2, Replaced DEF Reopen, Leaves
  <1>3. CASE UNCHANGED draftVars
    BY <1>3 DEF draftVars, Past
  <1>4. DraftEdits \/ Reopen \/ Leaves \/ UNCHANGED draftVars
    <2>1. ClickPublish \/ PublishBreaks => UNCHANGED draftVars
      BY DEF ClickPublish, PublishBreaks
    <2>2. PublishAnswered => Leaves \/ UNCHANGED draftVars
      BY DEF PublishAnswered
    <2>3. \A n \in Post : PublishSteps(n) => UNCHANGED draftVars
      BY DEF PublishSteps, Validate, DeleteRounds, InsertRound, InsertQuestions, MarkPlanned,
             MarkPublished, BackendDies
    <2>4. \A k \in Number : Book(k) => UNCHANGED draftVars
      BY DEF Book
    <2> QED BY <2>1, <2>2, <2>3, <2>4 DEF PublishNext, publishVars
  <1> QED BY <1>1, <1>2, <1>3, <1>4

\* The editor keeps the promise of an editor with undo while its plans are
\* published, refused, answered late and opened again: undo never reaches back
\* behind a plan that the page took over from the session.
THEOREM PublishKeepsHistory == PublishSpec => DraftHistory
  <1>1. PublishInit => History!Begins
    BY HistoryInit DEF PublishInit
  <1>2. PublishInv /\ [PublishNext]_publishVars
           => [History!Edits \/ History!Undoes \/ History!Replaces]_<<draft, Past>>
    BY PublishHistoryStep
  <1> QED
    BY <1>1, <1>2, PublishInvariance, PTL DEF PublishSpec, DraftHistory, History!HistorySpec, Past
=============================================================================
