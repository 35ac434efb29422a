--------------------------- MODULE AdminPlanProofs ---------------------------
(***************************************************************************)
(* Proofs about the admin's plan editor, for any number of rounds, texts   *)
(* and handlers: the list on the page and the rounds of the backend, while *)
(* the admin waits for one handler before the next (two at once each put   *)
(* back the plan they started with, and the lists come apart).             *)
(***************************************************************************)
EXTENDS AdminPlan, FiniteSetTheorems, FunctionTheorems, SequenceTheorems, TLAPS

-----------------------------------------------------------------------------
(* Lists of rounds: what get_interview_plan makes of a table of rounds.    *)

\* The slots 1..n are n.
LEMMA UpTo ==
  ASSUME NEW n \in Nat
  PROVE  IsFiniteSet(1..n) /\ Cardinality(1..n) = n
  BY FS_Interval

LiveOf(r)      == {i \in Id : r[i].num > 0}
BeforeOf(r, i) == {j \in LiveOf(r) : r[j].num < r[i].num \/ (r[j].num = r[i].num /\ j <= i)}
StoredOf(r)    == [k \in 1..Cardinality(LiveOf(r)) |->
                     LET i == CHOOSE i \in LiveOf(r) : Cardinality(BeforeOf(r, i)) = k
                     IN  [id |-> i, text |-> r[i].text]]

\* The ids of the rounds of table r, in the order of their numbers.
Lists(r, ids) ==
    /\ ids \in Seq(LiveOf(r))
    /\ \A i \in LiveOf(r) : \E k \in 1..Len(ids) : ids[k] = i
    /\ \A j, k \in 1..Len(ids) : j < k => r[ids[j]].num < r[ids[k]].num

-----------------------------------------------------------------------------
(* The invariant.                                                          *)

Texts == 0..(MaxRounds + MaxEdits)
Item  == [id : Id, text : Texts]
FetchOps == {"fetch", "finishFetch"}
Puts    == {"put", "finishPut"}
OpNames == {"idle", "add", "delete", "save", "reorder", "status"} \cup FetchOps \cup Puts

\* No two rounds of the table have the same number.
Table(r, b) ==
    /\ r \in [Id -> [num : 0..MaxRounds, text : Texts]]
    /\ \A i \in LiveOf(r) : i <= b /\ r[i].num <= b
    /\ \A i, j \in LiveOf(r) : r[i].num = r[j].num => i = j

\* A plan the page may show while b rounds were created: no round comes twice.
OwnPlan(p, b) ==
    /\ p \in Seq(Item) /\ Len(p) \in 1..b
    /\ \A k \in 1..Len(p) : p[k].id <= b
    /\ \A j, k \in 1..Len(p) : p[j].id = p[k].id => j = k

RowsInv ==
    /\ Table(rows, born) /\ born \in 0..MaxRounds
    /\ edits \in 0..MaxEdits /\ begun \in 0..MaxHandlers

PageInv ==
    /\ OwnPlan(plan, born) /\ selected \in 1..MaxRounds
    /\ torn \in BOOLEAN /\ finished \in BOOLEAN

\* The handler that runs, what it was given and what it came to know.
HandlerInv ==
    LET o == ops[1] IN
    /\ DOMAIN ops = Slot /\ DOMAIN o = {"op", "st", "arg", "was", "sel"}
    /\ o.op \in OpNames /\ o.st \in {"sent", "ok", "lost", "refused"}
    /\ o.op # "idle" => OwnPlan(o.was, born) /\ o.sel \in 1..MaxRounds
    /\ o.op = "add" /\ o.st \in {"ok", "lost"} =>
          /\ o.arg \in Id /\ o.arg <= born /\ Len(o.was) < born
          /\ \A k \in 1..Len(o.was) : o.was[k].id # o.arg
    /\ o.op = "delete" => Len(o.was) > 1 /\ \E k \in 1..Len(o.was) : o.was[k].id = o.arg
    /\ o.op = "save" => o.arg \in 1..Len(o.was)
    /\ o.op = "reorder" => {o.arg.from, o.arg.to} \subseteq 1..Len(o.was) /\ o.arg.from # o.arg.to
    /\ o.op \in FetchOps \/ (o.op \in Puts /\ o.st = "ok") => Live # {}
    /\ o.op \in FetchOps /\ o.st = "ok" => IdsOf(o.was) = IdsOf(Stored)

\* The list on the page is the one its handler started with, moved by a drag.
RenderedInv ==
    LET o == ops[1] IN
    /\ o.op \in {"add", "delete", "save"} \cup Puts => IdsOf(plan) = IdsOf(o.was)
    /\ o.op = "reorder" => IdsOf(plan) = IdsOf(Moved(o.was, o.arg.from, o.arg.to))

\* What the backend lists, while no answer was lost and no save of all is to be
\* read back: what the page shows, or what it will once its handler has ended.
ListedInv ==
    LET o == ops[1] IN
    ~torn =>
       /\ o.st # "lost" /\ o.op \notin FetchOps /\ (o.op \in Puts => o.st # "ok")
       /\ Lists(rows,
             IF o.op = "add" /\ o.st = "ok" THEN Append(IdsOf(o.was), o.arg)
             ELSE IF o.op = "delete" /\ o.st = "ok" THEN IdsOf(Without(o.was, o.arg))
             ELSE IF o.op = "reorder" /\ o.st # "ok" THEN IdsOf(o.was)
             ELSE IdsOf(plan))

AdminInv == RowsInv /\ PageInv /\ HandlerInv /\ RenderedInv /\ ListedInv

-----------------------------------------------------------------------------
(* Sequences.                                                              *)

LEMMA RemovedIs ==
  ASSUME NEW S, NEW s \in Seq(S), NEW i \in 1..Len(s)
  PROVE  /\ RemoveAt(s, i) \in Seq(S)
         /\ Len(RemoveAt(s, i)) = Len(s) - 1
         /\ \A j \in 1..Len(s) - 1 : RemoveAt(s, i)[j] = IF j < i THEN s[j] ELSE s[j + 1]
  <1> DEFINE a == SubSeq(s, 1, i - 1)
             b == SubSeq(s, i + 1, Len(s))
  <1>1. Len(s) \in Nat /\ \A j \in 1..Len(s) : s[j] \in S
    OBVIOUS
  <1>2. a \in Seq(S) /\ Len(a) = i - 1 /\ \A j \in 1..i - 1 : a[j] = s[j]
    BY <1>1, SubSeqProperties
  <1>3. b \in Seq(S) /\ Len(b) = Len(s) - i /\ \A j \in 1..Len(s) - i : b[j] = s[i + j]
    BY <1>1, SubSeqProperties
  <1> HIDE DEF a, b
  <1>4. /\ a \o b \in Seq(S) /\ Len(a \o b) = Len(a) + Len(b)
        /\ \A j \in 1..Len(a) + Len(b) : (a \o b)[j] = IF j <= Len(a) THEN a[j] ELSE b[j - Len(a)]
    BY <1>2, <1>3, ConcatProperties
  <1>5. Len(a) + Len(b) = Len(s) - 1
    BY <1>1, <1>2, <1>3
  <1>6. ASSUME NEW j \in 1..Len(s) - 1
        PROVE  (a \o b)[j] = IF j < i THEN s[j] ELSE s[j + 1]
    <2>1. CASE j < i
      BY <1>1, <1>2, <1>4, <1>5, <2>1
    <2>2. CASE ~(j < i)
      <3>1. j - (i - 1) \in 1..Len(s) - i /\ i + (j - (i - 1)) = j + 1
        BY <1>1, <2>2
      <3>2. (a \o b)[j] = b[j - (i - 1)]
        BY <1>1, <1>2, <1>4, <1>5, <2>2
      <3> QED BY <1>3, <2>2, <3>1, <3>2
    <2> QED BY <2>1, <2>2
  <1> QED BY <1>4, <1>5, <1>6 DEF RemoveAt, a, b

LEMMA InsertedIs ==
  ASSUME NEW S, NEW s \in Seq(S), NEW i \in 1..Len(s) + 1, NEW e \in S
  PROVE  /\ InsertAt(s, i, e) \in Seq(S)
         /\ Len(InsertAt(s, i, e)) = Len(s) + 1
         /\ \A j \in 1..Len(s) + 1 :
               InsertAt(s, i, e)[j] = IF j < i THEN s[j] ELSE IF j = i THEN e ELSE s[j - 1]
  <1> DEFINE a == SubSeq(s, 1, i - 1)
             b == SubSeq(s, i, Len(s))
             c == a \o <<e>>
  <1>1. Len(s) \in Nat /\ \A j \in 1..Len(s) : s[j] \in S
    OBVIOUS
  <1>2. a \in Seq(S) /\ Len(a) = i - 1 /\ \A j \in 1..i - 1 : a[j] = s[j]
    BY <1>1, SubSeqProperties
  <1>3. /\ b \in Seq(S) /\ Len(b) = Len(s) - i + 1
        /\ \A j \in 1..Len(s) - i + 1 : b[j] = s[i + j - 1]
    BY <1>1, SubSeqProperties
  <1>4. <<e>> \in Seq(S) /\ Len(<<e>>) = 1 /\ <<e>>[1] = e
    OBVIOUS
  <1> HIDE DEF a, b
  <1>5. /\ c \in Seq(S) /\ Len(c) = i
        /\ \A j \in 1..i : c[j] = IF j <= i - 1 THEN a[j] ELSE <<e>>[j - (i - 1)]
    BY <1>1, <1>2, <1>4, ConcatProperties
  <1>6. \A j \in 1..i : c[j] = IF j < i THEN s[j] ELSE e
    BY <1>1, <1>2, <1>4, <1>5
  <1> HIDE DEF c
  <1>7. /\ c \o b \in Seq(S) /\ Len(c \o b) = Len(c) + Len(b)
        /\ \A j \in 1..Len(c) + Len(b) : (c \o b)[j] = IF j <= Len(c) THEN c[j] ELSE b[j - Len(c)]
    BY <1>3, <1>5, ConcatProperties
  <1>8. Len(c) + Len(b) = Len(s) + 1
    BY <1>1, <1>3, <1>5
  <1>9. ASSUME NEW j \in 1..Len(s) + 1
        PROVE  (c \o b)[j] = IF j < i THEN s[j] ELSE IF j = i THEN e ELSE s[j - 1]
    <2>1. CASE j <= i
      BY <1>1, <1>5, <1>6, <1>7, <1>8, <2>1
    <2>2. CASE ~(j <= i)
      <3>1. j - i \in 1..Len(s) - i + 1 /\ i + (j - i) - 1 = j - 1
        BY <1>1, <2>2
      <3>2. (c \o b)[j] = b[j - i]
        BY <1>1, <1>5, <1>7, <1>8, <2>2
      <3> QED BY <1>3, <2>2, <3>1, <3>2
    <2> QED BY <2>1, <2>2
  <1> QED BY <1>7, <1>8, <1>9 DEF InsertAt, a, b, c

LEMMA IdsIs ==
  ASSUME NEW p \in Seq(Item)
  PROVE  /\ IdsOf(p) \in Seq(Id) /\ Len(IdsOf(p)) = Len(p) /\ Len(p) \in Nat /\ DOMAIN p = 1..Len(p)
         /\ \A k \in 1..Len(p) : IdsOf(p)[k] = p[k].id /\ p[k] \in Item /\ p[k].id \in Id
  <1>1. Len(p) \in Nat /\ DOMAIN p = 1..Len(p) /\ \A k \in 1..Len(p) : p[k] \in Item
    BY ElementOfSeq
  <1>2. \A k \in 1..Len(p) : p[k].id \in Id
    BY <1>1 DEF Item
  <1>3. IdsOf(p) = [k \in 1..Len(p) |-> p[k].id]
    BY <1>1 DEF IdsOf
  <1> QED BY <1>1, <1>2, <1>3

-----------------------------------------------------------------------------
(* Lists.                                                                  *)

LEMMA LiveIs == Live = LiveOf(rows) /\ Live' = LiveOf(rows')
  BY DEF Live, LiveOf

LEMMA StoredIs == Stored = StoredOf(rows) /\ Stored' = StoredOf(rows')
  BY DEF Stored, StoredOf, Live, LiveOf, Before, BeforeOf

LEMMA BoundsAre ==
  /\ MaxRounds \in Nat /\ FirstRounds \in 1..MaxRounds /\ MaxEdits \in Nat /\ MaxHandlers \in Nat
  /\ Id \subseteq Nat \ {0} /\ \A i \in Id : i \in Nat /\ i > 0 /\ i <= MaxRounds
  <1>1. FirstRounds \in Nat /\ MaxRounds \in Nat /\ MaxEdits \in Nat /\ MaxHandlers \in Nat
    BY AdminAssumption, Zenon
  <1> QED BY <1>1, AdminAssumption DEF Id

LEMMA LiveFinite ==
  ASSUME NEW r
  PROVE  /\ IsFiniteSet(LiveOf(r)) /\ Cardinality(LiveOf(r)) \in Nat
         /\ LiveOf(r) \subseteq Id /\ \A i \in LiveOf(r) : i \in Id /\ i \in Nat /\ i > 0
         /\ \A i : /\ BeforeOf(r, i) \subseteq LiveOf(r) /\ IsFiniteSet(BeforeOf(r, i))
                   /\ Cardinality(BeforeOf(r, i)) \in Nat
                   /\ Cardinality(BeforeOf(r, i)) <= Cardinality(LiveOf(r))
  <1>1. IsFiniteSet(Id)
    BY BoundsAre, FS_Interval DEF Id
  <1>2. LiveOf(r) \subseteq Id
    BY DEF LiveOf
  <1>3. IsFiniteSet(LiveOf(r)) /\ Cardinality(LiveOf(r)) \in Nat
    BY <1>1, <1>2, FS_Subset, FS_CardinalityType
  <1>4. ASSUME NEW i
        PROVE  /\ BeforeOf(r, i) \subseteq LiveOf(r) /\ IsFiniteSet(BeforeOf(r, i))
               /\ Cardinality(BeforeOf(r, i)) \in Nat
               /\ Cardinality(BeforeOf(r, i)) <= Cardinality(LiveOf(r))
    <2>1. BeforeOf(r, i) \subseteq LiveOf(r)
      BY DEF BeforeOf
    <2> QED BY <1>3, <2>1, FS_Subset, FS_CardinalityType
  <1>5. \A i \in LiveOf(r) : i \in Id /\ i \in Nat /\ i > 0
    BY <1>2, BoundsAre
  <1> QED BY <1>2, <1>3, <1>4, <1>5

\* What a table says of one of its rounds.
LEMMA RoundIs ==
  ASSUME NEW r, NEW b \in Nat, b <= MaxRounds, Table(r, b), NEW i \in LiveOf(r)
  PROVE  /\ i \in Id /\ i \in Nat /\ i > 0 /\ i <= b
         /\ r[i].num \in Nat /\ r[i].num \in 1..MaxRounds /\ r[i].num <= b
         /\ r[i] \in [num : 0..MaxRounds, text : Texts] /\ r[i].text \in Texts
  <1>1. i \in Id /\ i \in Nat /\ i > 0
    BY LiveFinite
  <1>2. r[i] \in [num : 0..MaxRounds, text : Texts] /\ i <= b /\ r[i].num <= b
    BY <1>1 DEF Table
  <1>3. r[i].num > 0
    BY DEF LiveOf
  <1>4. r[i].num \in 0..MaxRounds /\ r[i].text \in Texts
    BY <1>2
  <1> QED BY <1>1, <1>2, <1>3, <1>4, BoundsAre

\* The rounds up to round i, counted, are its place.
LEMMA RankGrows ==
  ASSUME NEW r, NEW b, Table(r, b), NEW i \in LiveOf(r), NEW j \in LiveOf(r), i # j
  PROVE  /\ Cardinality(BeforeOf(r, i)) \in 1..Cardinality(LiveOf(r))
         /\ Cardinality(BeforeOf(r, i)) < Cardinality(BeforeOf(r, j)) <=> r[i].num < r[j].num
         /\ Cardinality(BeforeOf(r, i)) # Cardinality(BeforeOf(r, j))
  <1>1. ASSUME NEW k \in LiveOf(r) PROVE r[k].num \in Nat
    BY <1>1, LiveFinite DEF Table
  <1>2. ASSUME NEW k \in LiveOf(r)
        PROVE  /\ BeforeOf(r, k) = {m \in LiveOf(r) : r[m].num <= r[k].num}
               /\ k \in BeforeOf(r, k)
    <2>1. \A m \in LiveOf(r) : r[m].num = r[k].num => m = k
      BY DEF Table
    <2>2. \A m \in LiveOf(r) : m \in Nat
      BY LiveFinite
    <2> QED BY <1>1, <2>1, <2>2 DEF BeforeOf
  <1>3. ASSUME NEW x \in LiveOf(r), NEW y \in LiveOf(r), r[x].num < r[y].num
        PROVE  Cardinality(BeforeOf(r, x)) < Cardinality(BeforeOf(r, y))
    <2>1. BeforeOf(r, x) \subseteq BeforeOf(r, y)
      BY <1>1, <1>2, <1>3
    <2>2. y \in BeforeOf(r, y) /\ y \notin BeforeOf(r, x)
      BY <1>1, <1>2, <1>3
    <2>3. /\ Cardinality(BeforeOf(r, x)) <= Cardinality(BeforeOf(r, y))
          /\ Cardinality(BeforeOf(r, x)) # Cardinality(BeforeOf(r, y))
      BY <2>1, <2>2, LiveFinite, FS_Subset
    <2> QED BY <2>3, LiveFinite
  <1>4. r[i].num # r[j].num
    BY DEF Table
  <1>5. Cardinality(BeforeOf(r, i)) # 0
    BY <1>2, LiveFinite, FS_EmptySet
  <1>6. Cardinality(BeforeOf(r, i)) \in Nat /\ Cardinality(BeforeOf(r, j)) \in Nat
        /\ Cardinality(BeforeOf(r, i)) <= Cardinality(LiveOf(r)) /\ Cardinality(LiveOf(r)) \in Nat
    BY LiveFinite
  <1> QED BY <1>1, <1>3, <1>4, <1>5, <1>6

\* The place of a single round, too.
LEMMA RankIs ==
  ASSUME NEW r, NEW b, Table(r, b), NEW i \in LiveOf(r)
  PROVE  Cardinality(BeforeOf(r, i)) \in 1..Cardinality(LiveOf(r))
  <1>1. i \in BeforeOf(r, i)
    <2>1. i \in Nat
      BY LiveFinite
    <2> QED BY <2>1 DEF BeforeOf
  <1>2. Cardinality(BeforeOf(r, i)) # 0
    BY <1>1, LiveFinite, FS_EmptySet
  <1> QED BY <1>2, LiveFinite

LEMMA StoredLists ==
  ASSUME NEW r, NEW b \in Nat, Table(r, b)
  PROVE  /\ StoredOf(r) \in Seq(Item) /\ Len(StoredOf(r)) = Cardinality(LiveOf(r))
         /\ Lists(r, IdsOf(StoredOf(r)))
  <1> DEFINE n == Cardinality(LiveOf(r))
             f == [i \in LiveOf(r) |-> Cardinality(BeforeOf(r, i))]
             at(k) == CHOOSE i \in LiveOf(r) : Cardinality(BeforeOf(r, i)) = k
  <1>1. n \in Nat /\ IsFiniteSet(1..n) /\ Cardinality(1..n) = n /\ IsFiniteSet(LiveOf(r))
    BY LiveFinite, FS_Interval
  <1>2. f \in Injection(LiveOf(r), 1..n)
    <2>1. f \in [LiveOf(r) -> 1..n]
      BY RankIs
    <2>2. \A i, j \in LiveOf(r) : f[i] = f[j] => i = j
      BY RankGrows
    <2> QED BY <2>1, <2>2, Fun_IsInj
  <1>3. f \in Surjection(LiveOf(r), 1..n)
    <2>1. Cardinality(LiveOf(r)) = Cardinality(1..n)
      BY <1>1
    <2> HIDE DEF f, n
    <2> QED BY <1>1, <1>2, <2>1, FS_Injection
  <1>4. ASSUME NEW k \in 1..n
        PROVE  at(k) \in LiveOf(r) /\ Cardinality(BeforeOf(r, at(k))) = k
    <2>1. \E i \in LiveOf(r) : f[i] = k
      BY <1>3 DEF Surjection
    <2> QED BY <2>1
  <1>5. StoredOf(r) = [k \in 1..n |-> [id |-> at(k), text |-> r[at(k)].text]]
    BY DEF StoredOf
  <1>6. ASSUME NEW i \in LiveOf(r) PROVE at(f[i]) = i /\ f[i] \in 1..n
    <2>1. f[i] \in 1..n
      BY RankIs
    <2>2. at(f[i]) \in LiveOf(r) /\ Cardinality(BeforeOf(r, at(f[i]))) = Cardinality(BeforeOf(r, i))
      BY <1>4, <2>1
    <2> HIDE DEF at, f
    <2> QED BY <2>1, <2>2, RankGrows
  <1> HIDE DEF at, n, f
  <1>7. \A k \in 1..n : at(k) \in Id /\ [id |-> at(k), text |-> r[at(k)].text] \in Item
    BY <1>4, LiveFinite DEF Table, Item
  <1>8. StoredOf(r) \in Seq(Item) /\ Len(StoredOf(r)) = n
    BY <1>1, <1>5, <1>7
  <1>9. /\ Len(IdsOf(StoredOf(r))) = n
        /\ \A k \in 1..n : IdsOf(StoredOf(r))[k] = at(k)
        /\ IdsOf(StoredOf(r)) \in Seq(Id)
    <2>1. \A k \in 1..n : StoredOf(r)[k].id = at(k)
      BY <1>5
    <2>2. /\ Len(IdsOf(StoredOf(r))) = n /\ IdsOf(StoredOf(r)) \in Seq(Id)
          /\ \A k \in 1..n : IdsOf(StoredOf(r))[k] = StoredOf(r)[k].id
      BY <1>8, IdsIs
    <2> QED BY <2>1, <2>2
  <1>10. IdsOf(StoredOf(r)) \in Seq(LiveOf(r))
    <2> DEFINE s == IdsOf(StoredOf(r))
    <2>1. s = [k \in 1..n |-> s[k]]
      BY <1>9
    <2>2. \A k \in 1..n : s[k] \in LiveOf(r)
      BY <1>4, <1>9
    <2> HIDE DEF s
    <2> QED BY <1>1, <2>1, <2>2 DEF s
  <1>11. \A i \in LiveOf(r) : \E k \in 1..n : at(k) = i
    BY <1>6
  <1>12. ASSUME NEW j \in 1..n, NEW k \in 1..n, j < k PROVE r[at(j)].num < r[at(k)].num
    <2>1. at(j) # at(k)
      BY <1>4, <1>12
    <2> QED BY <1>4, <1>12, <2>1, RankGrows
  <1> QED BY <1>8, <1>9, <1>10, <1>11, <1>12 DEF Lists, n

\* A list has every round at its place.
LEMMA ListRanks ==
  ASSUME NEW r, NEW b, Table(r, b), NEW ids, Lists(r, ids)
  PROVE  /\ Len(ids) = Cardinality(LiveOf(r)) /\ Len(ids) \in Nat
         /\ \A k \in 1..Len(ids) : ids[k] \in LiveOf(r) /\ Cardinality(BeforeOf(r, ids[k])) = k
  <1>1. ids \in Seq(LiveOf(r)) /\ Len(ids) \in Nat /\ \A k \in 1..Len(ids) : ids[k] \in LiveOf(r)
    BY ElementOfSeq DEF Lists
  <1>2. \A k \in 1..Len(ids) : r[ids[k]].num \in Nat
    BY <1>1, LiveFinite DEF Table
  <1>3. ASSUME NEW j \in 1..Len(ids), NEW k \in 1..Len(ids)
        PROVE  /\ ids[j] = ids[k] => j = k
               /\ r[ids[j]].num <= r[ids[k]].num <=> j <= k
    <2>1. j < k => r[ids[j]].num < r[ids[k]].num
      BY DEF Lists
    <2>2. k < j => r[ids[k]].num < r[ids[j]].num
      BY DEF Lists
    <2> QED BY <1>2, <2>1, <2>2
  <1>4. Len(ids) = Cardinality(LiveOf(r))
    <2> DEFINE g == [j \in 1..Len(ids) |-> ids[j]]
    <2>1. g \in Bijection(1..Len(ids), LiveOf(r))
      <3>1. g \in [1..Len(ids) -> LiveOf(r)]
        BY <1>1
      <3>2. \A j, k \in 1..Len(ids) : g[j] = g[k] => j = k
        BY <1>3
      <3>3. \A i \in LiveOf(r) : \E k \in 1..Len(ids) : g[k] = i
        BY DEF Lists
      <3> HIDE DEF g
      <3> QED BY <3>1, <3>2, <3>3, Fun_IsBij
    <2>2. IsFiniteSet(1..Len(ids)) /\ Cardinality(1..Len(ids)) = Len(ids)
      BY <1>1, UpTo
    <2> HIDE DEF g
    <2> QED BY <2>1, <2>2, FS_Bijection DEF ExistsBijection
  <1>5. ASSUME NEW k \in 1..Len(ids)
        PROVE  Cardinality(BeforeOf(r, ids[k])) = k
    <2> DEFINE g == [j \in 1..k |-> ids[j]]
    <2>1. \A m \in LiveOf(r) : m \in BeforeOf(r, ids[k]) <=> r[m].num <= r[ids[k]].num
      <3>1. \A m \in LiveOf(r) : r[m].num \in Nat /\ m \in Nat
        BY LiveFinite DEF Table
      <3>2. \A m \in LiveOf(r) : r[m].num = r[ids[k]].num => m = ids[k]
        BY <1>1 DEF Table
      <3> QED BY <1>1, <3>1, <3>2 DEF BeforeOf
    <2>2. g \in Bijection(1..k, BeforeOf(r, ids[k]))
      <3>1. g \in [1..k -> BeforeOf(r, ids[k])]
        BY <1>1, <1>3, <2>1
      <3>2. \A i, j \in 1..k : g[i] = g[j] => i = j
        BY <1>1, <1>3
      <3>3. \A i \in BeforeOf(r, ids[k]) : \E j \in 1..k : g[j] = i
        <4> SUFFICES ASSUME NEW i \in BeforeOf(r, ids[k]) PROVE \E j \in 1..k : g[j] = i
          OBVIOUS
        <4>1. i \in LiveOf(r)
          BY LiveFinite
        <4>2. PICK j \in 1..Len(ids) : ids[j] = i
          BY <4>1 DEF Lists
        <4>3. j <= k
          BY <1>3, <2>1, <4>1, <4>2
        <4> QED BY <4>2, <4>3
      <3> HIDE DEF g
      <3> QED BY <3>1, <3>2, <3>3, Fun_IsBij
    <2>3. IsFiniteSet(1..k) /\ Cardinality(1..k) = k
      BY <1>1, FS_Interval
    <2> HIDE DEF g
    <2> QED BY <2>2, <2>3, FS_Bijection DEF ExistsBijection
  <1> QED BY <1>1, <1>4, <1>5

\* There is one list of a table: what get_interview_plan returns.
LEMMA OneList ==
  ASSUME NEW r, NEW b \in Nat, Table(r, b), NEW ids, Lists(r, ids)
  PROVE  IdsOf(StoredOf(r)) = ids
  <1> DEFINE s == IdsOf(StoredOf(r))
  <1>1. Lists(r, s)
    BY StoredLists
  <1> HIDE DEF s
  <1>2. /\ Len(ids) = Len(s) /\ Len(ids) \in Nat
        /\ ids \in Seq(LiveOf(r)) /\ s \in Seq(LiveOf(r))
    BY <1>1, ListRanks DEF Lists
  <1>3. ASSUME NEW k \in 1..Len(ids) PROVE s[k] = ids[k]
    <2>1. /\ ids[k] \in LiveOf(r) /\ s[k] \in LiveOf(r)
          /\ Cardinality(BeforeOf(r, ids[k])) = k /\ Cardinality(BeforeOf(r, s[k])) = k
      BY <1>1, <1>2, ListRanks
    <2> QED BY <2>1, RankGrows
  <1>4. s = ids
    BY <1>2, <1>3, SeqEqual
  <1> QED BY <1>4 DEF s

\* Texts that change leave the list.
LEMMA SameNumbers ==
  ASSUME NEW r, NEW q, LiveOf(q) = LiveOf(r), \A i \in LiveOf(r) : q[i].num = r[i].num,
         NEW ids, Lists(r, ids)
  PROVE  Lists(q, ids)
  <1>1. \A k \in 1..Len(ids) : ids[k] \in LiveOf(r)
    BY ElementOfSeq DEF Lists
  <1> QED BY <1>1 DEF Lists

\* Numbers without a gap: each of them is a round's.
LEMMA EveryNumber ==
  ASSUME NEW r, NEW b, Table(r, b), \A i \in LiveOf(r) : r[i].num <= Cardinality(LiveOf(r))
  PROVE  \A k \in 1..Cardinality(LiveOf(r)) : \E i \in LiveOf(r) : r[i].num = k
  <1> DEFINE n == Cardinality(LiveOf(r))
             f == [i \in LiveOf(r) |-> r[i].num]
  <1>1. n \in Nat /\ IsFiniteSet(1..n) /\ Cardinality(1..n) = n /\ IsFiniteSet(LiveOf(r))
    BY LiveFinite, FS_Interval
  <1>2. \A i \in LiveOf(r) : r[i].num \in 1..n
    <2>1. \A i \in LiveOf(r) : r[i].num \in Nat
      BY LiveFinite DEF Table
    <2> QED BY <1>1, <2>1 DEF LiveOf
  <1>3. f \in Injection(LiveOf(r), 1..n)
    <2>1. f \in [LiveOf(r) -> 1..n]
      BY <1>2
    <2>2. \A i, j \in LiveOf(r) : f[i] = f[j] => i = j
      BY DEF Table
    <2> HIDE DEF f
    <2> QED BY <2>1, <2>2, Fun_IsInj
  <1>4. f \in Surjection(LiveOf(r), 1..n)
    <2>1. Cardinality(LiveOf(r)) = Cardinality(1..n)
      BY <1>1
    <2> HIDE DEF f, n
    <2> QED BY <1>1, <1>3, <2>1, FS_Injection
  <1> QED BY <1>4 DEF Surjection

-----------------------------------------------------------------------------
(* What each endpoint makes of the table.                                  *)

LEMMA AddRowIs ==
  ASSUME RowsInv, AddRow
  PROVE  /\ born' = born + 1 /\ born' \in 0..MaxRounds /\ born' \in Id /\ born' \in Nat
         /\ Table(rows', born') /\ born' \notin LiveOf(rows)
         /\ \A ids : Lists(rows, ids) => Lists(rows', Append(ids, born'))
  <1> DEFINE L == LiveOf(rows)
             Highest(n) == /\ \A i \in L : rows[i].num <= n
                           /\ n = 0 \/ \E i \in L : rows[i].num = n
             last == CHOOSE n \in 0..MaxRounds : Highest(n)
             b == born + 1
             new == [num |-> last + 1, text |-> NewText(born + 1)]
  <1>1. /\ born \in Nat /\ MaxRounds \in Nat /\ MaxEdits \in Nat /\ born < MaxRounds
        /\ b \in Id /\ b \in Nat /\ b <= MaxRounds /\ Table(rows, born)
        /\ born' = b /\ rows' = [rows EXCEPT ![b] = new]
    BY BoundsAre DEF RowsInv, AddRow, Live, LiveOf, Id
  <1>2. \A i \in L : /\ i \in Id /\ i \in Nat /\ i <= born /\ rows[i].num \in Nat
                     /\ rows[i].num \in 1..MaxRounds /\ rows[i].num <= born
    BY <1>1, RoundIs
  <1>3. \E n \in 0..MaxRounds : Highest(n)
    <2> DEFINE s == IdsOf(StoredOf(rows))
    <2>1. Lists(rows, s)
      BY <1>1, StoredLists
    <2> HIDE DEF s
    <2>2. CASE L = {}
      BY <1>1, <2>2
    <2>3. CASE L # {}
      <3>1. PICK i \in L : TRUE
        BY <2>3
      <3>2. Len(s) \in Nat /\ \A k \in 1..Len(s) : s[k] \in L
        BY <1>1, <2>1, ListRanks
      <3>3. Len(s) \in 1..Len(s)
        BY <3>1, <3>2, <2>1 DEF Lists
      <3>4. \A j \in L : rows[j].num <= rows[s[Len(s)]].num
        <4> SUFFICES ASSUME NEW j \in L PROVE rows[j].num <= rows[s[Len(s)]].num
          OBVIOUS
        <4>1. PICK k \in 1..Len(s) : s[k] = j
          BY <2>1 DEF Lists
        <4>2. k < Len(s) => rows[s[k]].num < rows[s[Len(s)]].num
          BY <2>1, <3>3 DEF Lists
        <4> QED BY <1>2, <3>2, <3>3, <4>1, <4>2
      <3>5. s[Len(s)] \in L
        BY <3>2, <3>3
      <3>6. Highest(rows[s[Len(s)]].num) /\ rows[s[Len(s)]].num \in 0..MaxRounds
        BY <1>1, <1>2, <3>4, <3>5
      <3> HIDE DEF Highest
      <3> QED BY <3>6
    <2> QED BY <2>2, <2>3
  <1>4. last \in 0..MaxRounds /\ Highest(last)
    BY <1>3
  <1>5. last \in Nat /\ last <= born /\ \A i \in L : rows[i].num < last + 1
    BY <1>1, <1>2, <1>4
  <1> HIDE DEF last, Highest
  <1>6. new \in [num : 0..MaxRounds, text : Texts] /\ new.num = last + 1
    BY <1>1, <1>5 DEF NewText, Texts
  <1> HIDE DEF new
  <1>7. b \notin L
    BY <1>1, <1>2
  <1>8. /\ rows' \in [Id -> [num : 0..MaxRounds, text : Texts]]
        /\ rows'[b].num = last + 1 /\ \A i \in Id : i # b => rows'[i] = rows[i]
    BY <1>1, <1>6 DEF Table
  <1>9. LiveOf(rows') = L \cup {b}
    BY <1>1, <1>5, <1>8 DEF LiveOf
  <1>10. \A i \in L : rows'[i] = rows[i]
    BY <1>2, <1>7, <1>8
  <1>11. Table(rows', b)
    <2>1. \A i \in LiveOf(rows') : i <= b /\ rows'[i].num <= b
      BY <1>1, <1>2, <1>5, <1>8, <1>9, <1>10
    <2>2. \A i, j \in LiveOf(rows') : rows'[i].num = rows'[j].num => i = j
      <3>1. \A i, j \in L : rows[i].num = rows[j].num => i = j
        BY <1>1 DEF Table
      <3>2. \A i \in L : rows'[i].num # rows'[b].num
        BY <1>2, <1>5, <1>8, <1>10
      <3> QED BY <1>9, <1>10, <3>1, <3>2
    <2> QED BY <1>8, <2>1, <2>2 DEF Table
  <1>12. ASSUME NEW ids, Lists(rows, ids) PROVE Lists(rows', Append(ids, b))
    <2> DEFINE a == Append(ids, b)
    <2>1. /\ ids \in Seq(L) /\ Len(ids) \in Nat /\ \A k \in 1..Len(ids) : ids[k] \in L
      BY <1>1, <1>12, ListRanks DEF Lists
    <2>2. ids \in Seq(LiveOf(rows'))
      BY <1>9, <2>1
    <2>3. /\ a \in Seq(LiveOf(rows')) /\ Len(a) = Len(ids) + 1
          /\ a[Len(ids) + 1] = b /\ \A k \in 1..Len(ids) : a[k] = ids[k]
      BY <1>9, <2>1, <2>2
    <2> HIDE DEF a
    <2>4. \A i \in LiveOf(rows') : \E k \in 1..Len(a) : a[k] = i
      <3>1. \A i \in L : \E k \in 1..Len(ids) : ids[k] = i
        BY <1>12 DEF Lists
      <3> SUFFICES ASSUME NEW i \in LiveOf(rows') PROVE \E k \in 1..Len(a) : a[k] = i
        OBVIOUS
      <3>2. CASE i = b
        <4>1. Len(ids) + 1 \in 1..Len(a)
          BY <2>1, <2>3
        <4> QED BY <2>3, <3>2, <4>1
      <3>3. CASE i \in L
        <4>1. PICK k \in 1..Len(ids) : ids[k] = i
          BY <3>1, <3>3
        <4>2. k \in 1..Len(a) /\ a[k] = i
          BY <2>1, <2>3, <4>1
        <4> QED BY <4>2
      <3> QED BY <1>9, <3>2, <3>3
    <2>5. ASSUME NEW j \in 1..Len(a), NEW k \in 1..Len(a), j < k
          PROVE  rows'[a[j]].num < rows'[a[k]].num
      <3>1. j \in 1..Len(ids) /\ a[j] = ids[j] /\ ids[j] \in L /\ rows'[a[j]].num = rows[ids[j]].num
        BY <1>10, <2>1, <2>3, <2>5
      <3>2. CASE k \in 1..Len(ids)
        <4>1. rows[ids[j]].num < rows[ids[k]].num
          BY <1>12, <2>5, <3>1, <3>2 DEF Lists
        <4> QED BY <1>10, <2>1, <2>3, <3>1, <3>2, <4>1
      <3>3. CASE k = Len(ids) + 1
        BY <1>5, <1>8, <2>3, <3>1, <3>3
      <3> QED BY <2>1, <2>3, <3>2, <3>3
    <2> QED BY <2>3, <2>4, <2>5 DEF Lists, a
  <1>13. born' \in 0..MaxRounds
    BY <1>1
  <1> QED BY <1>1, <1>7, <1>11, <1>12, <1>13

LEMMA DeleteRowIs ==
  ASSUME RowsInv, NEW d, DeleteRow(d)
  PROVE  /\ born' = born /\ Table(rows', born') /\ d \in LiveOf(rows)
         /\ \A ids : Lists(rows, ids) =>
               \A m \in 1..Len(ids) : ids[m] = d => Lists(rows', RemoveAt(ids, m))
  <1> DEFINE L == LiveOf(rows)
  <1>1. /\ born' = born /\ d \in L /\ d \in Id /\ Table(rows, born)
        /\ rows' = [rows EXCEPT ![d] = Gone]
    BY LiveIs, LiveFinite DEF RowsInv, DeleteRow
  <1>2. /\ rows' \in [Id -> [num : 0..MaxRounds, text : Texts]]
        /\ rows'[d].num = 0 /\ \A i \in Id : i # d => rows'[i] = rows[i]
    <2>1. Gone \in [num : 0..MaxRounds, text : Texts] /\ Gone.num = 0
      BY BoundsAre DEF Gone, Texts
    <2> QED BY <1>1, <2>1 DEF Table
  <1>3. LiveOf(rows') = L \ {d}
    BY <1>1, <1>2 DEF LiveOf
  <1>4. \A i \in LiveOf(rows') : i \in L /\ rows'[i] = rows[i]
    BY <1>2, <1>3, LiveFinite
  <1>5. Table(rows', born')
    <2>1. \A i \in LiveOf(rows') : i <= born /\ rows'[i].num <= born
      BY <1>1, <1>4 DEF Table
    <2>2. \A i, j \in LiveOf(rows') : rows'[i].num = rows'[j].num => i = j
      BY <1>1, <1>4 DEF Table
    <2>3. /\ rows' \in [Id -> [num : 0..MaxRounds, text : Texts]]
          /\ \A i \in LiveOf(rows') : i <= born' /\ rows'[i].num <= born'
      BY <1>1, <1>2, <2>1
    <2> QED BY <2>2, <2>3, Zenon DEF Table
  <1>6. ASSUME NEW ids, Lists(rows, ids), NEW m \in 1..Len(ids), ids[m] = d
        PROVE  Lists(rows', RemoveAt(ids, m))
    <2> DEFINE a == RemoveAt(ids, m)
    <2>1. /\ ids \in Seq(L) /\ Len(ids) \in Nat
          /\ \A k \in 1..Len(ids) : ids[k] \in L /\ Cardinality(BeforeOf(rows, ids[k])) = k
      <3>1. ids \in Seq(L)
        BY <1>6 DEF Lists
      <3> QED BY <1>1, <1>6, <3>1, ListRanks
    <2>2. \A k \in 1..Len(ids) : ids[k] = d => k = m
      BY <1>6, <2>1
    <2>3. /\ a \in Seq(L) /\ Len(a) = Len(ids) - 1
          /\ \A j \in 1..Len(ids) - 1 : a[j] = IF j < m THEN ids[j] ELSE ids[j + 1]
      BY <2>1, RemovedIs
    <2> HIDE DEF a
    <2>4. \A j \in 1..Len(a) : a[j] \in LiveOf(rows')
      <3> SUFFICES ASSUME NEW j \in 1..Len(a) PROVE a[j] \in LiveOf(rows')
        OBVIOUS
      <3>1. CASE j < m
        BY <1>3, <2>1, <2>2, <2>3, <3>1
      <3>2. CASE ~(j < m)
        BY <1>3, <2>1, <2>2, <2>3, <3>2
      <3> QED BY <3>1, <3>2
    <2>5. a \in Seq(LiveOf(rows'))
      <3>1. a = [j \in 1..Len(a) |-> a[j]] /\ Len(a) \in Nat
        BY <2>1, <2>3
      <3> QED BY <2>4, <3>1
    <2>6. ASSUME NEW i \in LiveOf(rows') PROVE \E k \in 1..Len(a) : a[k] = i
      <3>1. PICK k \in 1..Len(ids) : ids[k] = i
        BY <1>4, <1>6 DEF Lists
      <3>2. k # m
        BY <1>3, <1>6, <3>1
      <3>3. CASE k < m
        BY <2>1, <2>3, <3>1, <3>3
      <3>4. CASE k > m
        <4>1. k - 1 \in 1..Len(a) /\ ~(k - 1 < m) /\ k - 1 + 1 = k
          BY <2>1, <2>3, <3>4
        <4> QED BY <2>3, <3>1, <4>1
      <3> QED BY <3>2, <3>3, <3>4
    <2>7. ASSUME NEW j \in 1..Len(a), NEW k \in 1..Len(a), j < k
          PROVE  rows'[a[j]].num < rows'[a[k]].num
      <3> DEFINE up(x) == IF x < m THEN x ELSE x + 1
      <3>1. /\ up(j) \in 1..Len(ids) /\ up(k) \in 1..Len(ids) /\ up(j) < up(k)
            /\ a[j] = ids[up(j)] /\ a[k] = ids[up(k)]
        BY <2>1, <2>3, <2>7
      <3> HIDE DEF up
      <3>2. rows[ids[up(j)]].num < rows[ids[up(k)]].num
        BY <1>6, <3>1 DEF Lists
      <3> QED BY <1>4, <2>4, <3>1, <3>2
    <2> QED BY <2>5, <2>6, <2>7 DEF Lists, a
  <1> QED BY <1>1, <1>5, <1>6

LEMMA UpdateRowIs ==
  ASSUME RowsInv, NEW e, e.text \in Texts, UpdateRow(e)
  PROVE  /\ born' = born /\ Table(rows', born')
         /\ \A ids : Lists(rows, ids) => Lists(rows', ids)
  <1>1. /\ born' = born /\ e.id \in Id /\ Table(rows, born)
        /\ rows' = [rows EXCEPT ![e.id].text = e.text]
    BY LiveIs, LiveFinite DEF RowsInv, UpdateRow
  <1>2. /\ rows' \in [Id -> [num : 0..MaxRounds, text : Texts]]
        /\ \A i \in Id : rows'[i].num = rows[i].num
    BY <1>1 DEF Table
  <1>3. LiveOf(rows') = LiveOf(rows)
    BY <1>2 DEF LiveOf
  <1>4. Table(rows', born')
    <2>1. \A i \in LiveOf(rows') : i \in LiveOf(rows) /\ rows'[i].num = rows[i].num
      BY <1>2, <1>3, LiveFinite
    <2>2. \A i \in LiveOf(rows') : i <= born /\ rows'[i].num <= born
      BY <1>1, <2>1 DEF Table
    <2>3. \A i, j \in LiveOf(rows') : rows'[i].num = rows'[j].num => i = j
      BY <1>1, <2>1 DEF Table
    <2>4. /\ rows' \in [Id -> [num : 0..MaxRounds, text : Texts]]
          /\ \A i \in LiveOf(rows') : i <= born' /\ rows'[i].num <= born'
      BY <1>1, <1>2, <2>2
    <2> QED BY <2>3, <2>4, Zenon DEF Table
  <1>5. ASSUME NEW ids, Lists(rows, ids) PROVE Lists(rows', ids)
    BY <1>2, <1>3, <1>5, LiveFinite, SameNumbers
  <1> QED BY <1>1, <1>4, <1>5

\* An order names every round once: it becomes the list.
LEMMA ReorderRowsIs ==
  ASSUME RowsInv, NEW ids \in Seq(Id), Len(ids) <= born,
         \A j, k \in 1..Len(ids) : ids[j] = ids[k] => j = k,
         ReorderRows(ids)
  PROVE  born' = born /\ Table(rows', born') /\ Lists(rows', ids)
  <1> DEFINE L == LiveOf(rows)
             place(i) == CHOOSE k \in DOMAIN ids : ids[k] = i
  <1>1. /\ born' = born /\ born \in Nat /\ born <= MaxRounds /\ Table(rows, born)
        /\ Len(ids) \in Nat /\ DOMAIN ids = 1..Len(ids)
    BY BoundsAre, ElementOfSeq DEF RowsInv, ReorderRows
  <1>2. /\ ToSet(ids) = L
        /\ rows' = [i \in Id |-> IF i \in L THEN [rows[i] EXCEPT !.num = place(i)] ELSE rows[i]]
    BY LiveIs DEF ReorderRows
  <1>3. L = {ids[k] : k \in 1..Len(ids)}
    BY <1>1, <1>2 DEF ToSet
  <1>4. \A k \in 1..Len(ids) : place(ids[k]) = k
    BY <1>1
  <1>5. \A i \in L : place(i) \in 1..Len(ids) /\ place(i) \in Nat /\ place(i) > 0
    <2>1. \A i \in L : place(i) \in 1..Len(ids)
      BY <1>3, <1>4
    <2> HIDE DEF place
    <2> QED BY <1>1, <2>1
  <1> HIDE DEF place
  <1>6. /\ rows' \in [Id -> [num : 0..MaxRounds, text : Texts]]
        /\ \A i \in L : rows'[i].num = place(i)
        /\ \A i \in Id : i \notin L => rows'[i] = rows[i]
    <2>1. MaxRounds \in Nat
      BY BoundsAre
    <2>2. \A i \in L : place(i) \in 0..MaxRounds
      BY <1>1, <1>5, <2>1
    <2>3. rows \in [Id -> [num : 0..MaxRounds, text : Texts]]
      BY <1>1 DEF Table
    <2>4. ASSUME NEW i \in L
          PROVE  /\ [rows[i] EXCEPT !.num = place(i)] \in [num : 0..MaxRounds, text : Texts]
                 /\ [rows[i] EXCEPT !.num = place(i)].num = place(i)
      <3>1. rows[i] \in [num : 0..MaxRounds, text : Texts]
        BY <2>3, LiveFinite
      <3> QED BY <2>2, <3>1
    <2>5. L \subseteq Id
      BY LiveFinite
    <2> QED BY <1>2, <2>3, <2>4, <2>5
  <1>7. LiveOf(rows') = L
    BY <1>5, <1>6, <1>1, LiveFinite DEF LiveOf
  <1>8. \A k \in 1..Len(ids) : ids[k] \in L /\ rows'[ids[k]].num = k
    BY <1>3, <1>4, <1>6
  <1>9. Table(rows', born')
    <2>1. \A i \in L : i <= born /\ rows'[i].num <= born
      BY <1>1, <1>5, <1>6 DEF Table
    <2>2. \A i, j \in L : rows'[i].num = rows'[j].num => i = j
      BY <1>3, <1>8
    <2> QED BY <1>1, <1>6, <1>7, <2>1, <2>2 DEF Table
  <1>10. Lists(rows', ids)
    <2>1. ids \in Seq(LiveOf(rows'))
      <3>1. ids = [k \in 1..Len(ids) |-> ids[k]]
        BY <1>1
      <3> QED BY <1>1, <1>7, <1>8, <3>1
    <2>2. \A i \in LiveOf(rows') : \E k \in 1..Len(ids) : ids[k] = i
      BY <1>3, <1>7
    <2> QED BY <1>8, <2>1, <2>2 DEF Lists
  <1> QED BY <1>1, <1>9, <1>10

\* The contents stored up to a place: rounds that have a number keep it, and
\* the new ones get the numbers no round has.
LEMMA PutRowsIs ==
  ASSUME RowsInv, NEW texts, Len(texts) \in 1..born, \A k \in 1..Len(texts) : texts[k] \in Texts,
         NEW upTo \in 1..Len(texts), PutRows(texts, upTo)
  PROVE  /\ born' \in 0..MaxRounds /\ born' >= born /\ Table(rows', born')
         /\ upTo = Len(texts) => LiveOf(rows') # {}
         /\ (/\ \A i \in LiveOf(rows) : rows[i].num <= upTo
             /\ \A k \in 1..upTo : \E i \in LiveOf(rows) : rows[i].num = k)
               => \A ids : Lists(rows, ids) => Lists(rows', ids)
  <1> DEFINE L == LiveOf(rows)
             missing == Unmatched(upTo)
             NewId(k) == born + Cardinality({j \in missing : j <= k})
             row(i) ==
               IF i \in L /\ rows[i].num <= upTo THEN [rows[i] EXCEPT !.text = texts[rows[i].num]]
               ELSE IF \E k \in missing : NewId(k) = i
                    THEN LET k == CHOOSE k \in missing : NewId(k) = i
                         IN  [num |-> k, text |-> texts[k]]
               ELSE IF upTo = Len(texts) /\ i \notin KeptOf(texts) THEN Gone
               ELSE rows[i]
  <1>1. /\ born \in Nat /\ MaxRounds \in Nat /\ MaxEdits \in Nat /\ born <= MaxRounds
        /\ Table(rows, born) /\ Len(texts) \in Nat /\ upTo \in Nat /\ upTo > 0
        /\ upTo <= Len(texts) /\ Len(texts) <= born
    BY BoundsAre DEF RowsInv
  <1>2. \A i \in L : /\ i \in Id /\ i \in Nat /\ i > 0 /\ i <= born
                     /\ rows[i].num \in Nat /\ rows[i].num \in 1..MaxRounds /\ rows[i].num <= born
                     /\ rows[i] \in [num : 0..MaxRounds, text : Texts] /\ rows[i].text \in Texts
    BY <1>1, RoundIs
  <1>3. /\ born + Cardinality(missing) <= MaxRounds /\ born' = born + Cardinality(missing)
        /\ rows' = [i \in Id |-> row(i)]
    BY LiveIs DEF PutRows
  <1>4. /\ missing \subseteq 1..upTo
        /\ \A k \in missing : \A i \in L : rows[i].num # k
        /\ \A k \in 1..upTo : k \in missing \/ \E i \in L : rows[i].num = k
    BY LiveIs DEF Unmatched
  <1>5. \A i \in L : i \in KeptOf(texts) <=> rows[i].num <= Len(texts)
    BY LiveIs DEF KeptOf
  <1> HIDE DEF missing
  <1>6. /\ IsFiniteSet(missing) /\ Cardinality(missing) \in Nat
        /\ \A k \in missing : k \in Nat /\ k > 0 /\ k <= upTo
    <2>1. IsFiniteSet(1..upTo)
      BY <1>1, FS_Interval
    <2>2. IsFiniteSet(missing) /\ Cardinality(missing) \in Nat
      BY <1>4, <2>1, FS_Subset, FS_CardinalityType
    <2>3. \A k \in missing : k \in 1..upTo
      BY <1>4
    <2> QED BY <1>1, <2>2, <2>3
  <1>7. ASSUME NEW k \in missing
        PROVE  /\ NewId(k) \in Id /\ NewId(k) \in Nat /\ NewId(k) > born
               /\ NewId(k) <= born + Cardinality(missing)
    <2> DEFINE u == {j \in missing : j <= k}
    <2>1. u \subseteq missing /\ k \in u
      BY <1>6
    <2>2. IsFiniteSet(u) /\ Cardinality(u) \in Nat /\ Cardinality(u) <= Cardinality(missing)
      BY <1>6, <2>1, FS_Subset, FS_CardinalityType
    <2>3. Cardinality(u) # 0
      BY <2>1, <2>2, FS_EmptySet
    <2> HIDE DEF u
    <2>4. born + Cardinality(u) \in 1..MaxRounds /\ born + Cardinality(u) > born
          /\ born + Cardinality(u) <= born + Cardinality(missing)
      BY <1>1, <1>3, <1>6, <2>2, <2>3
    <2> QED BY <2>4 DEF u, Id
  <1>8. ASSUME NEW j \in missing, NEW k \in missing, j < k PROVE NewId(j) # NewId(k)
    <2> DEFINE u(x) == {y \in missing : y <= x}
    <2>1. u(j) \subseteq u(k) /\ k \in u(k) /\ k \notin u(j) /\ u(k) \subseteq missing
      BY <1>6, <1>8
    <2>2. IsFiniteSet(u(k)) /\ Cardinality(u(k)) \in Nat
      BY <1>6, <2>1, FS_Subset, FS_CardinalityType
    <2>3. Cardinality(u(j)) \in Nat /\ Cardinality(u(j)) # Cardinality(u(k))
      BY <2>1, <2>2, FS_Subset, FS_CardinalityType
    <2> HIDE DEF u
    <2>4. born + Cardinality(u(j)) # born + Cardinality(u(k))
      BY <1>1, <2>2, <2>3
    <2> QED BY <2>4 DEF u
  <1>9. \A j, k \in missing : NewId(j) = NewId(k) => j = k
    <2>1. \A j, k \in missing : j < k \/ k < j \/ j = k
      BY <1>6
    <2> HIDE DEF NewId
    <2> QED BY <1>8, <2>1
  <1> HIDE DEF NewId
  <1>10. ASSUME NEW i \in L, rows[i].num <= upTo
         PROVE  row(i) \in [num : 0..MaxRounds, text : Texts] /\ row(i).num = rows[i].num
    <2>1. texts[rows[i].num] \in Texts
      BY <1>1, <1>2, <1>10
    <2>2. row(i) = [rows[i] EXCEPT !.text = texts[rows[i].num]]
      BY <1>10
    <2>3. rows[i] \in [num : 0..MaxRounds, text : Texts]
      BY <1>2
    <2> HIDE DEF row
    <2> QED BY <2>1, <2>2, <2>3
  <1>11. ASSUME NEW k \in missing
         PROVE  /\ row(NewId(k)) \in [num : 0..MaxRounds, text : Texts]
                /\ row(NewId(k)).num = k
    <2>1. NewId(k) \notin L
      BY <1>1, <1>2, <1>7
    <2>2. (CHOOSE j \in missing : NewId(j) = NewId(k)) = k
      BY <1>9
    <2>3. row(NewId(k)) = [num |-> k, text |-> texts[k]]
      BY <2>1, <2>2
    <2>4. k \in 1..Len(texts) /\ k \in 0..MaxRounds
      BY <1>1, <1>6
    <2> QED BY <2>3, <2>4
  <1>12. ASSUME NEW i \in Id, ~(i \in L /\ rows[i].num <= upTo), \A k \in missing : NewId(k) # i
         PROVE  /\ row(i) \in [num : 0..MaxRounds, text : Texts]
                /\ row(i).num > 0 => i \in L /\ row(i).num = rows[i].num /\ row(i).num > upTo
    <2>1. row(i) = Gone \/ row(i) = rows[i]
      BY <1>12
    <2>2. Gone \in [num : 0..MaxRounds, text : Texts] /\ Gone.num = 0
      BY <1>1 DEF Gone, Texts
    <2>3. rows[i] \in [num : 0..MaxRounds, text : Texts]
      BY <1>1 DEF Table
    <2>4. rows[i].num > 0 => i \in L
      BY DEF LiveOf
    <2>5. i \in L => rows[i].num > upTo
      BY <1>1, <1>2, <1>12
    <2> HIDE DEF row
    <2> QED BY <2>1, <2>2, <2>3, <2>4, <2>5
  <1> HIDE DEF row
  <1>13. \A i \in Id : rows'[i] = row(i)
    BY <1>3
  <1>14. rows' \in [Id -> [num : 0..MaxRounds, text : Texts]]
    <2>1. \A i \in Id : row(i) \in [num : 0..MaxRounds, text : Texts]
      BY <1>10, <1>11, <1>12
    <2> QED BY <1>3, <2>1
  \* A round that is there afterwards keeps its number, or is a new one.
  <1>15. ASSUME NEW i \in LiveOf(rows')
         PROVE  /\ i \in Id
                /\ \/ i \in L /\ rows'[i].num = rows[i].num
                   \/ /\ \E k \in missing : i = NewId(k)
                      /\ i \notin L /\ rows'[i].num \in missing /\ NewId(rows'[i].num) = i
    <2>1. i \in Id /\ rows'[i].num > 0
      BY DEF LiveOf
    <2>2. CASE i \in L /\ rows[i].num <= upTo
      BY <1>10, <1>13, <2>1, <2>2
    <2>3. CASE \E k \in missing : NewId(k) = i
      <3>1. PICK k \in missing : NewId(k) = i
        BY <2>3
      <3>2. i \notin L
        BY <1>1, <1>2, <1>7, <3>1
      <3> QED BY <1>11, <1>13, <2>1, <3>1, <3>2
    <2>4. CASE ~(i \in L /\ rows[i].num <= upTo) /\ \A k \in missing : NewId(k) # i
      BY <1>12, <1>13, <2>1, <2>4
    <2> QED BY <2>2, <2>3, <2>4
  <1>16. born' \in 0..MaxRounds /\ born' >= born /\ born' \in Nat
    BY <1>1, <1>3, <1>6
  <1>17. Table(rows', born')
    <2>1. ASSUME NEW i \in LiveOf(rows') PROVE i <= born' /\ rows'[i].num <= born'
      <3>1. CASE i \in L /\ rows'[i].num = rows[i].num
        BY <1>1, <1>2, <1>16, <3>1
      <3>2. CASE rows'[i].num \in missing /\ NewId(rows'[i].num) = i
        BY <1>1, <1>3, <1>6, <1>7, <1>16, <3>2
      <3> QED BY <1>15, <3>1, <3>2
    <2>2. ASSUME NEW i \in LiveOf(rows'), NEW j \in LiveOf(rows'), rows'[i].num = rows'[j].num
          PROVE  i = j
      <3>1. CASE i \in L /\ j \in L
        <4>1. rows'[i].num = rows[i].num /\ rows'[j].num = rows[j].num
          BY <1>15, <3>1
        <4> QED BY <1>1, <2>2, <3>1, <4>1 DEF Table
      <3>2. CASE i \in L /\ j \notin L
        BY <1>4, <1>15, <2>2, <3>2
      <3>3. CASE i \notin L /\ j \in L
        BY <1>4, <1>15, <2>2, <3>3
      <3>4. CASE i \notin L /\ j \notin L
        BY <1>15, <2>2, <3>4
      <3> QED BY <3>1, <3>2, <3>3, <3>4
    <2> QED BY <1>14, <2>1, <2>2 DEF Table
  <1>18. LiveOf(rows') # {}
    <2>1. 1 \in 1..upTo
      BY <1>1
    <2>2. CASE 1 \in missing
      <3>1. NewId(1) \in Id /\ rows'[NewId(1)].num = 1
        BY <1>7, <1>11, <1>13, <2>2
      <3> QED BY <3>1 DEF LiveOf
    <2>3. CASE \E i \in L : rows[i].num = 1
      <3>1. PICK i \in L : rows[i].num = 1
        BY <2>3
      <3>2. rows'[i].num = 1 /\ i \in Id
        BY <1>1, <1>2, <1>10, <1>13, <3>1
      <3> QED BY <3>2 DEF LiveOf
    <2> QED BY <1>4, <2>1, <2>2, <2>3
  <1>19. ASSUME \A i \in L : rows[i].num <= upTo,
                \A k \in 1..upTo : \E i \in L : rows[i].num = k,
                NEW ids, Lists(rows, ids)
         PROVE  Lists(rows', ids)
    <2>1. missing = {}
      BY <1>4, <1>19
    <2>2. \A i \in L : i \in Id /\ rows'[i].num = rows[i].num
      BY <1>2, <1>10, <1>13, <1>19
    <2>3. LiveOf(rows') \subseteq L
      BY <1>15, <2>1
    <2>4. L \subseteq LiveOf(rows')
      BY <1>2, <2>2 DEF LiveOf
    <2>5. LiveOf(rows') = L
      BY <2>3, <2>4
    <2> QED BY <1>19, <2>2, <2>5, SameNumbers
  <1> QED BY <1>16, <1>17, <1>18, <1>19

-----------------------------------------------------------------------------
(* What the handlers make of the plan they were given.                     *)

LEMMA OwnIs ==
  ASSUME NEW b \in 0..MaxRounds, NEW p, OwnPlan(p, b)
  PROVE  /\ p \in Seq(Item) /\ Len(p) \in Nat /\ Len(p) \in 1..b /\ DOMAIN p = 1..Len(p)
         /\ \A k \in 1..Len(p) : p[k] \in Item /\ p[k].id \in Id /\ p[k].id <= b
         /\ IdsOf(p) \in Seq(Id) /\ Len(IdsOf(p)) = Len(p)
         /\ \A k \in 1..Len(p) : IdsOf(p)[k] = p[k].id
         /\ \A j, k \in 1..Len(p) : IdsOf(p)[j] = IdsOf(p)[k] => j = k
         /\ Len(TextsOf(p)) = Len(p) /\ \A k \in 1..Len(p) : TextsOf(p)[k] \in Texts
  <1>1. /\ p \in Seq(Item) /\ Len(p) \in 1..b /\ \A k \in 1..Len(p) : p[k].id <= b
        /\ \A j, k \in 1..Len(p) : p[j].id = p[k].id => j = k
    BY DEF OwnPlan
  <1>2. /\ Len(p) \in Nat /\ DOMAIN p = 1..Len(p)
        /\ IdsOf(p) \in Seq(Id) /\ Len(IdsOf(p)) = Len(p)
        /\ \A k \in 1..Len(p) : IdsOf(p)[k] = p[k].id /\ p[k] \in Item /\ p[k].id \in Id
    BY <1>1, IdsIs
  <1>3. TextsOf(p) = [k \in 1..Len(p) |-> p[k].text]
    BY <1>2 DEF TextsOf
  <1>4. \A k \in 1..Len(p) : p[k].text \in Texts
    BY <1>2 DEF Item
  <1>5. Len(TextsOf(p)) = Len(p) /\ \A k \in 1..Len(p) : TextsOf(p)[k] \in Texts
    BY <1>2, <1>3, <1>4
  <1> QED BY <1>1, <1>2, <1>5

LEMMA OwnGrows ==
  ASSUME NEW b \in 0..MaxRounds, NEW c \in 0..MaxRounds, b <= c, NEW p, OwnPlan(p, b)
  PROVE  OwnPlan(p, c)
  <1>1. MaxRounds \in Nat /\ Len(p) \in 1..b /\ \A k \in 1..Len(p) : p[k].id \in Id /\ p[k].id <= b
    BY BoundsAre, OwnIs
  <1>2. \A k \in 1..Len(p) : p[k].id \in Nat
    BY <1>1, BoundsAre
  <1>3. \A k \in 1..Len(p) : p[k].id <= c
    BY <1>1, <1>2
  <1> QED BY <1>1, <1>3 DEF OwnPlan

\* A typed text changes no id.
LEMMA EditOwn ==
  ASSUME NEW b \in 0..MaxRounds, NEW p, OwnPlan(p, b), NEW k \in DOMAIN p, NEW t \in Texts
  PROVE  /\ OwnPlan([p EXCEPT ![k].text = t], b)
         /\ IdsOf([p EXCEPT ![k].text = t]) = IdsOf(p)
  <1> DEFINE q == [p EXCEPT ![k].text = t]
  <1>1. /\ p \in Seq(Item) /\ Len(p) \in Nat /\ Len(p) \in 1..b /\ DOMAIN p = 1..Len(p)
        /\ \A j \in 1..Len(p) : p[j] \in Item
    BY OwnIs
  <1>2. /\ q \in Seq(Item) /\ Len(q) = Len(p) /\ DOMAIN q = 1..Len(p)
        /\ \A j \in 1..Len(p) : q[j].id = p[j].id
    BY <1>1 DEF Item
  <1> HIDE DEF q
  <1>3. OwnPlan(q, b)
    BY <1>1, <1>2 DEF OwnPlan
  <1>4. IdsOf(q) = IdsOf(p)
    BY <1>1, <1>2 DEF IdsOf
  <1> QED BY <1>3, <1>4 DEF q

LEMMA AppendOwn ==
  ASSUME NEW b \in 0..MaxRounds, NEW p, OwnPlan(p, b), Len(p) < b,
         NEW i \in Id, i <= b, \A k \in 1..Len(p) : p[k].id # i
  PROVE  LET q == Append(p, [id |-> i, text |-> NewText(i)])
         IN  OwnPlan(q, b) /\ Len(q) = Len(p) + 1 /\ IdsOf(q) = Append(IdsOf(p), i)
  <1> DEFINE e == [id |-> i, text |-> NewText(i)]
             q == Append(p, e)
  <1>1. /\ p \in Seq(Item) /\ Len(p) \in Nat /\ DOMAIN p = 1..Len(p) /\ b \in Nat
        /\ IdsOf(p) \in Seq(Id) /\ Len(IdsOf(p)) = Len(p)
        /\ \A k \in 1..Len(p) : IdsOf(p)[k] = p[k].id /\ p[k].id <= b
        /\ \A j, k \in 1..Len(p) : p[j].id = p[k].id => j = k
    BY OwnIs, BoundsAre DEF OwnPlan
  <1>2. e \in Item /\ e.id = i
    BY BoundsAre DEF Item, Texts, NewText, Id
  <1> HIDE DEF e
  <1>3. /\ q \in Seq(Item) /\ Len(q) = Len(p) + 1
        /\ q[Len(p) + 1] = e /\ \A k \in 1..Len(p) : q[k] = p[k]
    BY <1>1, <1>2
  <1> HIDE DEF q
  <1>4. OwnPlan(q, b)
    <2>1. \A k \in 1..Len(q) : k \in 1..Len(p) \/ k = Len(p) + 1
      BY <1>1, <1>3
    <2>2. \A k \in 1..Len(q) : q[k].id <= b
      BY <1>1, <1>2, <1>3, <2>1
    <2>3. \A j, k \in 1..Len(q) : q[j].id = q[k].id => j = k
      BY <1>1, <1>2, <1>3, <2>1
    <2>4. Len(q) \in 1..b
      BY <1>1, <1>3
    <2> QED BY <1>3, <2>2, <2>3, <2>4 DEF OwnPlan
  <1>5. IdsOf(q) = Append(IdsOf(p), i)
    <2> DEFINE a == Append(IdsOf(p), i)
    <2>1. /\ a \in Seq(Id) /\ Len(a) = Len(p) + 1
          /\ a[Len(p) + 1] = i /\ \A k \in 1..Len(p) : a[k] = p[k].id
      BY <1>1
    <2> HIDE DEF a
    <2>2. IdsOf(q) \in Seq(Id) /\ Len(IdsOf(q)) = Len(q) /\ \A k \in 1..Len(q) : IdsOf(q)[k] = q[k].id
      BY <1>3, IdsIs
    <2>3. \A k \in 1..Len(q) : IdsOf(q)[k] = a[k]
      BY <1>1, <1>2, <1>3, <2>1, <2>2
    <2>4. IdsOf(q) = a
      BY <1>3, <2>1, <2>2, <2>3, SeqEqual
    <2> QED BY <2>4 DEF a
  <1> QED BY <1>3, <1>4, <1>5 DEF q, e

LEMMA WithoutOwn ==
  ASSUME NEW b \in 0..MaxRounds, NEW p, OwnPlan(p, b), Len(p) > 1,
         NEW i, \E k \in 1..Len(p) : p[k].id = i
  PROVE  /\ At(p, i) \in 1..Len(p) /\ p[At(p, i)].id = i
         /\ OwnPlan(Without(p, i), b) /\ Len(Without(p, i)) = Len(p) - 1
         /\ \A j \in 1..Len(p) - 1 :
               Without(p, i)[j] = IF j < At(p, i) THEN p[j] ELSE p[j + 1]
         /\ IdsOf(p)[At(p, i)] = i /\ IdsOf(Without(p, i)) = RemoveAt(IdsOf(p), At(p, i))
  <1> DEFINE m == At(p, i)
             q == Without(p, i)
             up(x) == IF x < m THEN x ELSE x + 1
  <1>1. /\ p \in Seq(Item) /\ Len(p) \in Nat /\ DOMAIN p = 1..Len(p) /\ b \in Nat
        /\ Len(p) <= b /\ IdsOf(p) \in Seq(Id) /\ Len(IdsOf(p)) = Len(p)
        /\ \A k \in 1..Len(p) : IdsOf(p)[k] = p[k].id /\ p[k].id <= b
        /\ \A j, k \in 1..Len(p) : p[j].id = p[k].id => j = k
    BY OwnIs, BoundsAre DEF OwnPlan
  <1>2. m \in 1..Len(p) /\ p[m].id = i
    BY <1>1 DEF At
  <1>3. q = RemoveAt(p, m)
    BY DEF Without
  <1> HIDE DEF m, q
  <1>4. /\ q \in Seq(Item) /\ Len(q) = Len(p) - 1
        /\ \A j \in 1..Len(p) - 1 : q[j] = IF j < m THEN p[j] ELSE p[j + 1]
    <2>1. p \in Seq(Item) /\ m \in 1..Len(p)
      BY <1>1, <1>2
    <2>2. /\ RemoveAt(p, m) \in Seq(Item) /\ Len(RemoveAt(p, m)) = Len(p) - 1
          /\ \A j \in 1..Len(p) - 1 : RemoveAt(p, m)[j] = IF j < m THEN p[j] ELSE p[j + 1]
      BY <2>1, RemovedIs, Zenon
    <2> QED BY <1>3, <2>2, Zenon
  <1>5. \A j \in 1..Len(q) : up(j) \in 1..Len(p) /\ q[j] = p[up(j)]
    BY <1>1, <1>2, <1>4
  <1>6. \A j, k \in 1..Len(q) : up(j) = up(k) => j = k
    BY <1>1, <1>2, <1>4
  <1> HIDE DEF up
  <1>7. OwnPlan(q, b)
    <2>1. Len(q) \in 1..b
      BY <1>1, <1>4
    <2>2. \A j \in 1..Len(q) : q[j].id <= b
      BY <1>1, <1>5
    <2>3. \A j, k \in 1..Len(q) : q[j].id = q[k].id => j = k
      BY <1>1, <1>5, <1>6
    <2> QED BY <1>4, <2>1, <2>2, <2>3 DEF OwnPlan
  <1>8. IdsOf(q) = RemoveAt(IdsOf(p), m)
    <2> DEFINE a == RemoveAt(IdsOf(p), m)
               ids == IdsOf(p)
    <2>1. ids \in Seq(Id) /\ Len(ids) = Len(p) /\ m \in 1..Len(ids)
      BY <1>1, <1>2
    <2> HIDE DEF ids
    <2>2. /\ RemoveAt(ids, m) \in Seq(Id) /\ Len(RemoveAt(ids, m)) = Len(ids) - 1
          /\ \A j \in 1..Len(ids) - 1 : RemoveAt(ids, m)[j] = IF j < m THEN ids[j] ELSE ids[j + 1]
      BY <2>1, RemovedIs
    <2>3. /\ a \in Seq(Id) /\ Len(a) = Len(q)
          /\ \A j \in 1..Len(q) : a[j] = ids[up(j)]
      BY <1>4, <2>1, <2>2 DEF ids, up
    <2> HIDE DEF a
    <2>4. \A j \in 1..Len(q) : a[j] = q[j].id
      BY <1>1, <1>5, <2>3 DEF ids
    <2>5. IdsOf(q) \in Seq(Id) /\ Len(IdsOf(q)) = Len(q) /\ \A k \in 1..Len(q) : IdsOf(q)[k] = q[k].id
      BY <1>4, IdsIs
    <2>6. IdsOf(q) = a
      BY <2>3, <2>4, <2>5, SeqEqual
    <2> QED BY <2>6 DEF a
  <1> QED BY <1>1, <1>2, <1>4, <1>7, <1>8 DEF m, q

\* Where the round that a drag brings to place j comes from.
Source(from, to, j) ==
    IF j = to THEN from
    ELSE LET k == IF j < to THEN j ELSE j - 1 IN IF k < from THEN k ELSE k + 1

LEMMA MovedOwn ==
  ASSUME NEW b \in 0..MaxRounds, NEW p, OwnPlan(p, b),
         NEW from \in 1..Len(p), NEW to \in 1..Len(p), from # to
  PROVE  /\ OwnPlan(Moved(p, from, to), b) /\ Len(Moved(p, from, to)) = Len(p)
         /\ \A j \in 1..Len(p) : /\ Source(from, to, j) \in 1..Len(p)
                                 /\ Moved(p, from, to)[j] = p[Source(from, to, j)]
  <1> DEFINE q == RemoveAt(p, from)
             e == p[from]
             r == InsertAt(q, to, e)
             src(j) == Source(from, to, j)
  <1>1. /\ p \in Seq(Item) /\ Len(p) \in Nat /\ Len(p) \in 1..b
        /\ \A k \in 1..Len(p) : p[k] \in Item /\ p[k].id <= b
        /\ \A j, k \in 1..Len(p) : p[j].id = p[k].id => j = k
    BY OwnIs DEF OwnPlan
  <1>2. /\ q \in Seq(Item) /\ Len(q) = Len(p) - 1
        /\ \A j \in 1..Len(p) - 1 : q[j] = IF j < from THEN p[j] ELSE p[j + 1]
    BY <1>1, RemovedIs
  <1>3. e \in Item
    BY <1>1
  <1> HIDE DEF q, e
  <1>4. /\ InsertAt(q, to, e) \in Seq(Item) /\ Len(InsertAt(q, to, e)) = Len(q) + 1
        /\ \A j \in 1..Len(q) + 1 :
              InsertAt(q, to, e)[j] = IF j < to THEN q[j] ELSE IF j = to THEN e ELSE q[j - 1]
    <2>1. to \in 1..Len(q) + 1
      BY <1>1, <1>2
    <2> QED BY <1>2, <1>3, <2>1, InsertedIs
  <1>5. r \in Seq(Item) /\ Len(r) = Len(p)
    BY <1>1, <1>2, <1>4
  <1>6. ASSUME NEW j \in 1..Len(p) PROVE src(j) \in 1..Len(p) /\ r[j] = p[src(j)]
    <2>1. CASE j < to
      BY <1>1, <1>2, <1>4, <2>1 DEF Source
    <2>2. CASE j = to
      BY <1>1, <1>2, <1>4, <2>2 DEF Source, e
    <2>3. CASE j > to
      <3>1. j - 1 \in 1..Len(p) - 1 /\ r[j] = q[j - 1]
        BY <1>1, <1>2, <1>4, <2>3
      <3>2. src(j) = (IF j - 1 < from THEN j - 1 ELSE j - 1 + 1)
        BY <1>1, <2>3 DEF Source
      <3> QED BY <1>1, <1>2, <3>1, <3>2
    <2> QED BY <1>1, <2>1, <2>2, <2>3
  <1>7. \A j, k \in 1..Len(p) : src(j) = src(k) => j = k
    BY <1>1 DEF Source
  <1> HIDE DEF r, src
  <1>8. OwnPlan(r, b)
    <2>1. \A j \in 1..Len(r) : r[j].id <= b
      BY <1>1, <1>5, <1>6
    <2>2. \A j, k \in 1..Len(r) : r[j].id = r[k].id => j = k
      <3> SUFFICES ASSUME NEW j \in 1..Len(p), NEW k \in 1..Len(p), r[j].id = r[k].id
                   PROVE  j = k
        BY <1>5
      <3>1. src(j) \in 1..Len(p) /\ src(k) \in 1..Len(p) /\ p[src(j)].id = p[src(k)].id
        BY <1>6
      <3>2. src(j) = src(k)
        BY <1>1, <3>1
      <3> QED BY <1>7, <3>2
    <2> QED BY <1>1, <1>5, <2>1, <2>2 DEF OwnPlan
  <1>9. Moved(p, from, to) = r
    BY DEF Moved, r, q, e
  <1> QED BY <1>5, <1>6, <1>8, <1>9 DEF src

\* Where each round of a dragged plan comes from.
LEMMA MovedAt ==
  ASSUME NEW p, NEW from \in 1..Len(p), NEW to \in 1..Len(p), from # to,
         \E b \in 0..MaxRounds : OwnPlan(p, b)
  PROVE  \A j \in 1..Len(p) : Moved(p, from, to)[j] = p[Source(from, to, j)]
  <1>1. PICK b \in 0..MaxRounds : OwnPlan(p, b)
    OBVIOUS
  <1> QED BY <1>1, MovedOwn

LEMMA StoredOwn ==
  ASSUME NEW b \in 0..MaxRounds, NEW r, Table(r, b), LiveOf(r) # {}
  PROVE  OwnPlan(StoredOf(r), b)
  <1> DEFINE p == StoredOf(r)
             ids == IdsOf(p)
  <1>1. /\ p \in Seq(Item) /\ Len(p) = Cardinality(LiveOf(r)) /\ Lists(r, ids)
    BY StoredLists, BoundsAre
  <1>2. /\ Len(ids) = Len(p) /\ Len(p) \in Nat /\ \A k \in 1..Len(p) : ids[k] = p[k].id
    BY <1>1, IdsIs
  <1> HIDE DEF ids, p
  <1>3. \A k \in 1..Len(p) : ids[k] \in LiveOf(r) /\ Cardinality(BeforeOf(r, ids[k])) = k
    BY <1>1, <1>2, ListRanks
  <1>4. Len(p) \in 1..b
    <2>1. b \in Nat /\ IsFiniteSet(1..b) /\ Cardinality(1..b) = b
      BY BoundsAre, FS_Interval
    <2>2. LiveOf(r) \subseteq 1..b
      <3>1. \A i \in LiveOf(r) : i \in Nat /\ i > 0 /\ i <= b
        BY LiveFinite DEF Table
      <3> QED BY <2>1, <3>1
    <2>3. Cardinality(LiveOf(r)) <= b
      BY <2>1, <2>2, FS_Subset
    <2>4. Cardinality(LiveOf(r)) # 0
      BY LiveFinite, FS_EmptySet
    <2> QED BY <1>1, <1>2, <2>1, <2>3, <2>4
  <1>5. \A k \in 1..Len(p) : p[k].id <= b
    BY <1>2, <1>3 DEF Table
  <1>6. \A j, k \in 1..Len(p) : p[j].id = p[k].id => j = k
    BY <1>2, <1>3
  <1>7. OwnPlan(p, b)
    BY <1>1, <1>4, <1>5, <1>6 DEF OwnPlan
  <1> QED BY <1>7 DEF p

-----------------------------------------------------------------------------
(* The invariant is kept.                                                  *)

LEMMA OneSlot ==
  ASSUME MaxInFlight = 1
  PROVE  1 \in Slot /\ \A s \in Slot : s = 1
  BY DEF Slot

LEMMA InvFirst ==
  ASSUME MaxInFlight = 1, AdminInit
  PROVE  AdminInv
  <1>1. /\ MaxRounds \in Nat /\ FirstRounds \in Nat /\ FirstRounds > 0 /\ FirstRounds <= MaxRounds
        /\ MaxEdits \in Nat /\ MaxHandlers \in Nat
        /\ \A i \in Id : i \in Nat /\ i > 0 /\ i <= MaxRounds
    BY BoundsAre
  <1>2. /\ rows = [i \in Id |-> IF i <= FirstRounds THEN [num |-> i, text |-> NewText(i)] ELSE Gone]
        /\ born = FirstRounds
        /\ plan = [i \in 1..FirstRounds |-> [id |-> i, text |-> NewText(i)]]
        /\ selected = 1 /\ edits = 0 /\ begun = 0 /\ ops = [s \in Slot |-> Idle]
        /\ torn = FALSE /\ finished = FALSE
    BY DEF AdminInit
  <1>3. /\ \A i \in Id : i <= FirstRounds => rows[i].num = i
        /\ \A i \in Id : ~(i <= FirstRounds) => rows[i].num = 0
    BY <1>2 DEF Gone
  <1>4. rows \in [Id -> [num : 0..MaxRounds, text : Texts]]
    <2>1. \A i \in Id : /\ [num |-> i, text |-> NewText(i)] \in [num : 0..MaxRounds, text : Texts]
                        /\ Gone \in [num : 0..MaxRounds, text : Texts]
      BY <1>1 DEF Gone, Texts, NewText
    <2> QED BY <1>2, <2>1
  <1>5. \A i : i \in LiveOf(rows) <=> i \in 1..FirstRounds
    BY <1>1, <1>3 DEF LiveOf, Id
  <1>6. Table(rows, born)
    <2>1. \A i \in LiveOf(rows) : i \in Id /\ i <= FirstRounds /\ rows[i].num = i
      BY <1>1, <1>3, <1>5 DEF LiveOf
    <2> QED BY <1>2, <1>4, <2>1 DEF Table
  <1>7. /\ plan \in Seq(Item) /\ Len(plan) = FirstRounds /\ DOMAIN plan = 1..FirstRounds
        /\ \A k \in 1..FirstRounds : plan[k].id = k
    <2>1. \A k \in 1..FirstRounds : [id |-> k, text |-> NewText(k)] \in Item
      BY <1>1 DEF Item, Texts, NewText, Id
    <2> QED BY <1>1, <1>2, <2>1
  <1>8. OwnPlan(plan, born)
    BY <1>1, <1>2, <1>7 DEF OwnPlan
  <1>9. Lists(rows, IdsOf(plan))
    <2>1. IdsOf(plan) = [k \in 1..FirstRounds |-> k]
      BY <1>7 DEF IdsOf
    <2>2. IdsOf(plan) \in Seq(LiveOf(rows)) /\ Len(IdsOf(plan)) = FirstRounds
      BY <1>1, <1>5, <2>1
    <2>3. \A k \in 1..FirstRounds : IdsOf(plan)[k] = k /\ k \in Id /\ rows[k].num = k
      BY <1>1, <1>3, <2>1 DEF Id
    <2> QED BY <1>5, <2>2, <2>3 DEF Lists
  <1>10. DOMAIN ops = Slot /\ ops[1] = Idle
    BY <1>2, OneSlot
  <1>11. RowsInv /\ PageInv
    <2>1. born \in 0..MaxRounds /\ edits \in 0..MaxEdits /\ begun \in 0..MaxHandlers
      BY <1>1, <1>2
    <2>2. selected \in 1..MaxRounds
      BY <1>1, <1>2
    <2>3. torn \in BOOLEAN /\ finished \in BOOLEAN
      BY <1>2, Zenon
    <2> QED BY <1>6, <1>8, <2>1, <2>2, <2>3 DEF RowsInv, PageInv
  <1>12. HandlerInv
    BY <1>10 DEF HandlerInv, Idle, OpNames, FetchOps, Puts
  <1>13. RenderedInv
    BY <1>10 DEF RenderedInv, Idle, Puts
  <1>14. ListedInv
    BY <1>9, <1>10 DEF ListedInv, Idle, FetchOps, Puts
  <1> QED BY <1>11, <1>12, <1>13, <1>14 DEF AdminInv

\* A handler starts with the plan and the selection on the page.
LEMMA BeginIs ==
  ASSUME MaxInFlight = 1, AdminInv, NEW s \in Slot, NEW op, NEW arg, Begin(s, op, arg),
         UNCHANGED <<rows, born, torn>>,
         op \in {"add", "delete", "save", "reorder"} \cup Puts,
         op = "delete" => Len(plan) > 1 /\ \E k \in 1..Len(plan) : plan[k].id = arg,
         op = "save" => arg \in 1..Len(plan),
         op = "reorder" => {arg.from, arg.to} \subseteq 1..Len(plan) /\ arg.from # arg.to,
         op # "reorder" => plan' = plan,
         op = "reorder" => IdsOf(plan') = IdsOf(Moved(plan, arg.from, arg.to))
  PROVE  HandlerInv' /\ RenderedInv' /\ ListedInv' /\ begun' \in 0..MaxHandlers
  <1>1. /\ s = 1 /\ ops[1].op = "idle" /\ begun < MaxHandlers /\ begun' = begun + 1
        /\ DOMAIN ops = Slot /\ 1 \in Slot
        /\ ops' = [ops EXCEPT ![s] =
                      [op |-> op, st |-> "sent", arg |-> arg, was |-> plan, sel |-> selected]]
    BY OneSlot DEF Begin, AdminInv, HandlerInv
  <1>2. /\ DOMAIN ops' = Slot /\ DOMAIN ops'[1] = {"op", "st", "arg", "was", "sel"}
        /\ ops'[1].op = op /\ ops'[1].st = "sent" /\ ops'[1].arg = arg
        /\ ops'[1].was = plan /\ ops'[1].sel = selected
    BY <1>1
  <1>3. begun' \in 0..MaxHandlers
    BY <1>1, BoundsAre DEF AdminInv, RowsInv
  <1>4. HandlerInv'
    BY <1>2 DEF AdminInv, PageInv, HandlerInv, OpNames, FetchOps, Puts
  <1>5. RenderedInv'
    BY <1>2 DEF RenderedInv, Puts
  <1>6. ListedInv'
    <2>1. ~torn => Lists(rows, IdsOf(plan))
      BY <1>1 DEF AdminInv, ListedInv
    <2> QED BY <1>2, <2>1 DEF ListedInv, FetchOps, Puts
  <1> QED BY <1>3, <1>4, <1>5, <1>6

\* A handler that ends leaves its list to the page.
LEMMA EndIs ==
  ASSUME MaxInFlight = 1, AdminInv, NEW s \in Slot, End(s),
         torn' \/ Lists(rows', IdsOf(plan'))
  PROVE  HandlerInv' /\ RenderedInv' /\ ListedInv'
  <1>1. s = 1 /\ DOMAIN ops = Slot /\ 1 \in Slot /\ ops' = [ops EXCEPT ![s] = Idle]
    BY OneSlot DEF End, AdminInv, HandlerInv
  <1>2. DOMAIN ops' = Slot /\ ops'[1] = Idle
    BY <1>1
  <1>3. HandlerInv'
    BY <1>2 DEF HandlerInv, Idle, OpNames, FetchOps, Puts
  <1>4. RenderedInv'
    BY <1>2 DEF RenderedInv, Idle, Puts
  <1>5. ListedInv'
    BY <1>2 DEF ListedInv, Idle, FetchOps, Puts
  <1> QED BY <1>3, <1>4, <1>5

LEMMA InvEdit ==
  ASSUME MaxInFlight = 1, AdminInv, NEW k \in DOMAIN plan, EditRound(k) \/ SelectRound(k)
  PROVE  AdminInv'
  <1>1. OwnPlan(plan, born) /\ born \in 0..MaxRounds /\ MaxRounds \in Nat /\ MaxEdits \in Nat
    BY BoundsAre DEF AdminInv, RowsInv, PageInv
  <1>2. UNCHANGED <<rows, born, begun, ops, torn, finished>>
    BY DEF EditRound, SelectRound
  <1>3. OwnPlan(plan', born) /\ IdsOf(plan') = IdsOf(plan) /\ edits' \in 0..MaxEdits
    <2>1. CASE EditRound(k)
      <3>1. edits \in Nat /\ edits < MaxEdits /\ edits' = edits + 1
        BY <1>1, <2>1 DEF EditRound, AdminInv, RowsInv
      <3>2. Typed(edits + 1) \in Texts
        BY <1>1, <3>1 DEF Typed, Texts
      <3>3. plan' = [plan EXCEPT ![k].text = Typed(edits + 1)]
        BY <2>1 DEF EditRound
      <3>4. OwnPlan(plan', born) /\ IdsOf(plan') = IdsOf(plan)
        <4>1. /\ OwnPlan([plan EXCEPT ![k].text = Typed(edits + 1)], born)
              /\ IdsOf([plan EXCEPT ![k].text = Typed(edits + 1)]) = IdsOf(plan)
          BY <1>1, <3>2, EditOwn
        <4> QED BY <3>3, <4>1, Zenon
      <3>5. edits' \in 0..MaxEdits
        BY <1>1, <3>1
      <3> QED BY <3>4, <3>5
    <2>2. CASE SelectRound(k)
      BY <1>1, <2>2 DEF SelectRound, AdminInv, RowsInv
    <2> QED BY <2>1, <2>2
  <1>4. selected' \in 1..MaxRounds
    <2>1. CASE EditRound(k)
      BY <2>1 DEF EditRound, AdminInv, PageInv
    <2>2. CASE SelectRound(k)
      <3>1. k \in 1..Len(plan) /\ Len(plan) \in 1..born /\ born \in Nat
        BY <1>1, OwnIs
      <3> QED BY <1>1, <2>2, <3>1 DEF SelectRound
    <2> QED BY <2>1, <2>2
  <1>5. RowsInv'
    BY <1>2, <1>3 DEF AdminInv, RowsInv
  <1>6. PageInv'
    BY <1>2, <1>3, <1>4 DEF AdminInv, PageInv
  <1>7. HandlerInv'
    BY <1>2, LiveIs, StoredIs DEF AdminInv, HandlerInv
  <1>8. RenderedInv'
    BY <1>2, <1>3 DEF AdminInv, RenderedInv
  <1>9. ListedInv'
    BY <1>2, <1>3 DEF AdminInv, ListedInv
  <1> QED BY <1>5, <1>6, <1>7, <1>8, <1>9 DEF AdminInv

LEMMA InvBegin ==
  ASSUME MaxInFlight = 1, AdminInv, NEW s \in Slot,
         \/ AddRound(s)
         \/ \E k \in DOMAIN plan : DeleteRound(s, k) \/ SaveRound(s, k)
         \/ \E op \in Puts : SaveAll(s, op)
  PROVE  AdminInv'
  <1>1. UNCHANGED <<rows, born, plan, selected, edits, torn, finished>>
    BY DEF AddRound, DeleteRound, SaveRound, SaveAll
  <1>2. DOMAIN plan = 1..Len(plan)
    BY OwnIs DEF AdminInv, RowsInv, PageInv
  <1>3. HandlerInv' /\ RenderedInv' /\ ListedInv' /\ begun' \in 0..MaxHandlers
    <2>1. CASE AddRound(s)
      <3>1. Begin(s, "add", 0)
        BY <2>1 DEF AddRound
      <3> QED BY <1>1, <3>1, BeginIs
    <2>2. ASSUME NEW k \in DOMAIN plan, DeleteRound(s, k)
          PROVE  HandlerInv' /\ RenderedInv' /\ ListedInv' /\ begun' \in 0..MaxHandlers
      <3>1. Begin(s, "delete", plan[k].id) /\ Len(plan) > 1
        BY <2>2 DEF DeleteRound, MayDelete
      <3> QED BY <1>1, <1>2, <3>1, BeginIs
    <2>3. ASSUME NEW k \in DOMAIN plan, SaveRound(s, k)
          PROVE  HandlerInv' /\ RenderedInv' /\ ListedInv' /\ begun' \in 0..MaxHandlers
      <3>1. Begin(s, "save", k)
        BY <2>3 DEF SaveRound
      <3> QED BY <1>1, <1>2, <3>1, BeginIs
    <2>4. ASSUME NEW op \in Puts, SaveAll(s, op)
          PROVE  HandlerInv' /\ RenderedInv' /\ ListedInv' /\ begun' \in 0..MaxHandlers
      <3>1. Begin(s, op, 0) /\ op \notin {"delete", "save", "reorder"}
        BY <2>4 DEF SaveAll, Puts
      <3> QED BY <1>1, <3>1, BeginIs
    <2> QED BY <2>1, <2>2, <2>3, <2>4
  <1>4. RowsInv'
    BY <1>1, <1>3 DEF AdminInv, RowsInv
  <1>5. PageInv'
    BY <1>1 DEF AdminInv, PageInv
  <1> QED BY <1>3, <1>4, <1>5 DEF AdminInv

LEMMA InvDrag ==
  ASSUME MaxInFlight = 1, AdminInv, NEW s \in Slot,
         NEW from \in DOMAIN plan, NEW to \in DOMAIN plan, DragRound(s, from, to)
  PROVE  AdminInv'
  <1> DEFINE arg == [from |-> from, to |-> to]
  <1>1. /\ UNCHANGED <<rows, born, edits, torn, finished>> /\ from # to
        /\ Begin(s, "reorder", arg) /\ plan' = Moved(plan, from, to)
        /\ selected' = SelectedAfterMove(from, to)
    BY DEF DragRound
  <1>2. /\ OwnPlan(plan, born) /\ born \in 0..MaxRounds /\ MaxRounds \in Nat
        /\ selected \in 1..MaxRounds
    BY BoundsAre DEF AdminInv, RowsInv, PageInv
  <1>3. DOMAIN plan = 1..Len(plan) /\ Len(plan) \in 1..born /\ born \in Nat
    BY <1>2, OwnIs
  <1>4. arg.from = from /\ arg.to = to
    OBVIOUS
  <1> HIDE DEF arg
  <1>5. HandlerInv' /\ RenderedInv' /\ ListedInv' /\ begun' \in 0..MaxHandlers
    <2>1. /\ {arg.from, arg.to} \subseteq 1..Len(plan) /\ arg.from # arg.to
          /\ IdsOf(plan') = IdsOf(Moved(plan, arg.from, arg.to))
      BY <1>1, <1>3, <1>4
    <2> QED BY <1>1, <2>1, BeginIs
  <1>6. RowsInv'
    BY <1>1, <1>5 DEF AdminInv, RowsInv
  <1>7. PageInv'
    <2>1. OwnPlan(plan', born')
      BY <1>1, <1>2, <1>3, MovedOwn
    <2>2. selected' \in 1..MaxRounds
      BY <1>1, <1>2, <1>3 DEF SelectedAfterMove
    <2> QED BY <1>1, <2>1, <2>2 DEF AdminInv, PageInv
  <1> QED BY <1>5, <1>6, <1>7 DEF AdminInv

\* What carrying out a handler's request makes of the rounds.
LEMMA StoresIs ==
  ASSUME AdminInv, ops[1].op # "idle", ops[1].st = "sent", Stores(ops[1])
  PROVE  /\ born' \in 0..MaxRounds /\ born' >= born /\ Table(rows', born')
         /\ ops[1].op \in FetchOps \cup {"status"} => rows' = rows /\ born' = born
         /\ ops[1].op = "add" => born' \in Id /\ born' = born + 1
         /\ ops[1].op \in Puts => LiveOf(rows') # {}
         /\ ~torn /\ ops[1].op \notin Puts =>
               Lists(rows', IF ops[1].op = "add" THEN Append(IdsOf(ops[1].was), born')
                            ELSE IF ops[1].op = "delete" THEN IdsOf(Without(ops[1].was, ops[1].arg))
                            ELSE IdsOf(plan))
  <1> DEFINE o == ops[1]
             Goal ==
               /\ born' \in 0..MaxRounds /\ born' >= born /\ Table(rows', born')
               /\ o.op \in FetchOps \cup {"status"} => rows' = rows /\ born' = born
               /\ o.op = "add" => born' \in Id /\ born' = born + 1
               /\ o.op \in Puts => LiveOf(rows') # {}
               /\ ~torn /\ o.op \notin Puts =>
                     Lists(rows', IF o.op = "add" THEN Append(IdsOf(o.was), born')
                                  ELSE IF o.op = "delete" THEN IdsOf(Without(o.was, o.arg))
                                  ELSE IdsOf(plan))
  <1>1. /\ RowsInv /\ Table(rows, born) /\ born \in 0..MaxRounds /\ born \in Nat
        /\ OwnPlan(o.was, born) /\ o.op \in OpNames
    BY BoundsAre DEF AdminInv, RowsInv, HandlerInv
  <1>2. ~torn => Lists(rows, IF o.op = "reorder" THEN IdsOf(o.was) ELSE IdsOf(plan))
    BY DEF AdminInv, ListedInv
  <1>3. o.op \in {"add", "delete", "save"} \cup Puts => IdsOf(plan) = IdsOf(o.was)
    BY DEF AdminInv, RenderedInv
  <1>4. CASE o.op = "add"
    <2>1. AddRow
      BY <1>4 DEF Stores
    <2>2. /\ born' = born + 1 /\ born' \in 0..MaxRounds /\ born' \in Id
          /\ Table(rows', born')
          /\ \A ids : Lists(rows, ids) => Lists(rows', Append(ids, born'))
      BY <1>1, <2>1, AddRowIs
    <2>3. ~torn => Lists(rows', Append(IdsOf(o.was), born'))
      BY <1>2, <1>3, <1>4, <2>2
    <2>4. born' >= born
      BY <1>1, <2>2
    <2> HIDE DEF o
    <2>5. Goal
      BY <1>4, <2>2, <2>3, <2>4 DEF FetchOps, Puts
    <2> QED BY <2>5 DEF o
  <1>5. CASE o.op = "delete"
    <2>1. DeleteRow(o.arg)
      BY <1>5 DEF Stores
    <2>2. /\ born' = born /\ Table(rows', born')
          /\ \A ids : Lists(rows, ids) =>
                \A m \in 1..Len(ids) : ids[m] = o.arg => Lists(rows', RemoveAt(ids, m))
      BY <1>1, <2>1, DeleteRowIs
    <2>3. Len(o.was) > 1 /\ \E k \in 1..Len(o.was) : o.was[k].id = o.arg
      BY <1>5 DEF AdminInv, HandlerInv
    <2>4. /\ At(o.was, o.arg) \in 1..Len(o.was) /\ IdsOf(o.was)[At(o.was, o.arg)] = o.arg
          /\ IdsOf(Without(o.was, o.arg)) = RemoveAt(IdsOf(o.was), At(o.was, o.arg))
          /\ Len(IdsOf(o.was)) = Len(o.was)
      BY <1>1, <2>3, WithoutOwn, OwnIs
    <2>5. ~torn => Lists(rows', IdsOf(Without(o.was, o.arg)))
      BY <1>2, <1>3, <1>5, <2>2, <2>4
    <2>6. born' >= born /\ born' \in 0..MaxRounds
      BY <1>1, <2>2
    <2> HIDE DEF o
    <2>7. Goal
      BY <1>5, <2>2, <2>5, <2>6 DEF FetchOps, Puts
    <2> QED BY <2>7 DEF o
  <1>6. CASE o.op = "save"
    <2>1. UpdateRow(o.was[o.arg]) /\ o.arg \in 1..Len(o.was)
      BY <1>6 DEF Stores, AdminInv, HandlerInv
    <2>2. o.was[o.arg].text \in Texts
      BY <1>1, <2>1, OwnIs DEF Item
    <2>3. born' = born /\ Table(rows', born') /\ \A ids : Lists(rows, ids) => Lists(rows', ids)
      BY <1>1, <2>1, <2>2, UpdateRowIs
    <2>4. ~torn => Lists(rows', IdsOf(plan))
      BY <1>2, <1>6, <2>3
    <2>5. born' >= born /\ born' \in 0..MaxRounds
      BY <1>1, <2>3
    <2> HIDE DEF o
    <2>6. Goal
      BY <1>6, <2>3, <2>4, <2>5 DEF FetchOps, Puts
    <2> QED BY <2>6 DEF o
  <1>7. CASE o.op = "reorder"
    <2> DEFINE q == Moved(o.was, o.arg.from, o.arg.to)
    <2>1. ReorderRows(IdsOf(q))
      BY <1>7 DEF Stores
    <2>2. o.arg.from \in 1..Len(o.was) /\ o.arg.to \in 1..Len(o.was) /\ o.arg.from # o.arg.to
      BY <1>7 DEF AdminInv, HandlerInv
    <2>3. OwnPlan(q, born)
      BY <1>1, <2>2, MovedOwn
    <2>4. IdsOf(plan) = IdsOf(q)
      BY <1>7 DEF AdminInv, RenderedInv
    <2> HIDE DEF q
    <2>5. /\ IdsOf(q) \in Seq(Id) /\ Len(IdsOf(q)) <= born
          /\ \A j, k \in 1..Len(IdsOf(q)) : IdsOf(q)[j] = IdsOf(q)[k] => j = k
      BY <1>1, <2>3, OwnIs
    <2>6. born' = born /\ Table(rows', born') /\ Lists(rows', IdsOf(plan))
      BY <1>1, <2>1, <2>4, <2>5, ReorderRowsIs
    <2>7. born' >= born /\ born' \in 0..MaxRounds
      BY <1>1, <2>6
    <2> HIDE DEF o
    <2>8. Goal
      BY <1>7, <2>6, <2>7 DEF FetchOps, Puts
    <2> QED BY <2>8 DEF o
  <1>8. CASE o.op \in Puts
    <2>1. PutRows(TextsOf(o.was), Len(o.was))
      BY <1>8 DEF Stores, Puts
    <2>2. /\ Len(TextsOf(o.was)) = Len(o.was) /\ Len(o.was) \in 1..born /\ Len(o.was) \in Nat
          /\ \A k \in 1..Len(o.was) : TextsOf(o.was)[k] \in Texts
      BY <1>1, OwnIs
    <2>3. Len(o.was) \in 1..Len(o.was)
      BY <1>1, <2>2
    <2>4. born' \in 0..MaxRounds /\ born' >= born /\ Table(rows', born') /\ LiveOf(rows') # {}
      BY <1>1, <2>1, <2>2, <2>3, PutRowsIs
    <2> HIDE DEF o
    <2>5. Goal
      BY <1>8, <2>4 DEF FetchOps, Puts
    <2> QED BY <2>5 DEF o
  <1>9. CASE o.op \in FetchOps \cup {"status"}
    <2>1. rows' = rows /\ born' = born
      BY <1>9 DEF Stores, FetchOps
    <2>2. ~torn => Lists(rows', IdsOf(plan))
      BY <1>2, <1>9, <2>1 DEF FetchOps
    <2>3. born' >= born
      BY <1>1, <2>1
    <2> HIDE DEF o
    <2>4. Goal
      BY <1>1, <1>9, <2>1, <2>2, <2>3 DEF FetchOps, Puts
    <2> QED BY <2>4 DEF o
  <1> QED BY <1>1, <1>4, <1>5, <1>6, <1>7, <1>8, <1>9 DEF OpNames

LEMMA InvServe ==
  ASSUME MaxInFlight = 1, AdminInv, NEW s \in Slot, NEW st \in {"ok", "lost"}, Serve(s, st)
  PROVE  AdminInv'
  <1> DEFINE o == ops[1]
             n == ops'[1]
  <1>1. /\ s = 1 /\ o.op # "idle" /\ o.st = "sent" /\ Stores(o) /\ DOMAIN ops = Slot /\ 1 \in Slot
        /\ ops' = [ops EXCEPT ![1] = [Answered(o) EXCEPT !.st = st]]
        /\ UNCHANGED <<plan, selected, edits, begun, finished>>
        /\ DOMAIN o = {"op", "st", "arg", "was", "sel"}
        /\ o.op \in OpNames
    BY OneSlot DEF Serve, AdminInv, HandlerInv
  <1>2. torn' = (torn \/ st = "lost" \/ o.op \in Puts)
    BY <1>1 DEF Serve, Puts
  <1>3. /\ DOMAIN ops' = Slot /\ DOMAIN n = {"op", "st", "arg", "was", "sel"}
        /\ n.op = o.op /\ n.st = st /\ n.sel = o.sel
        /\ o.op = "add" => n.arg = born'
        /\ o.op # "add" => n.arg = o.arg
        /\ o.op \in FetchOps => n.was = Stored
        /\ o.op \notin FetchOps => n.was = o.was
    BY <1>1 DEF Answered, FetchOps
  <1>4. /\ born' \in 0..MaxRounds /\ born' >= born /\ Table(rows', born')
        /\ o.op \in FetchOps \cup {"status"} => rows' = rows /\ born' = born
        /\ o.op = "add" => born' \in Id /\ born' = born + 1
        /\ o.op \in Puts => LiveOf(rows') # {}
        /\ ~torn /\ o.op \notin Puts =>
              Lists(rows', IF o.op = "add" THEN Append(IdsOf(o.was), born')
                           ELSE IF o.op = "delete" THEN IdsOf(Without(o.was, o.arg))
                           ELSE IdsOf(plan))
    BY <1>1, StoresIs
  <1>5. /\ Table(rows, born) /\ born \in 0..MaxRounds /\ born \in Nat /\ OwnPlan(plan, born)
        /\ OwnPlan(o.was, born) /\ o.sel \in 1..MaxRounds
    BY <1>1, BoundsAre DEF AdminInv, RowsInv, PageInv, HandlerInv
  <1>6. RowsInv'
    BY <1>1, <1>4 DEF AdminInv, RowsInv
  <1>7. PageInv'
    <2>1. OwnPlan(plan, born')
      BY <1>4, <1>5, OwnGrows
    <2>2. torn' \in BOOLEAN
      BY <1>2
    <2> QED BY <1>1, <2>1, <2>2 DEF AdminInv, PageInv
  <1>8. o.op \in FetchOps => LiveOf(rows) # {} /\ LiveOf(rows') # {} /\ Stored' = Stored
    BY <1>4, LiveIs, StoredIs DEF AdminInv, HandlerInv
  <1>9. OwnPlan(n.was, born')
    <2>1. CASE o.op \in FetchOps
      <3>1. OwnPlan(StoredOf(rows), born)
        BY <1>5, <1>8, <2>1, StoredOwn
      <3> QED BY <1>3, <1>4, <2>1, <3>1, StoredIs
    <2>2. CASE o.op \notin FetchOps
      BY <1>3, <1>4, <1>5, <2>2, OwnGrows
    <2> QED BY <2>1, <2>2
  <1>10. o.op = "add" =>
            /\ n.arg \in Id /\ n.arg <= born' /\ Len(n.was) < born'
            /\ \A k \in 1..Len(n.was) : n.was[k].id # n.arg
    <2> SUFFICES ASSUME o.op = "add"
                 PROVE  /\ n.arg \in Id /\ n.arg <= born' /\ Len(n.was) < born'
                        /\ \A k \in 1..Len(n.was) : n.was[k].id # n.arg
      OBVIOUS
    <2>1. n.arg = born' /\ n.was = o.was /\ born' = born + 1 /\ born' \in Id
      BY <1>3, <1>4 DEF FetchOps
    <2>2. Len(o.was) \in 1..born /\ \A k \in 1..Len(o.was) : o.was[k].id \in Id /\ o.was[k].id <= born
      BY <1>5, OwnIs
    <2>3. \A k \in 1..Len(o.was) : o.was[k].id \in Nat
      BY <2>2, BoundsAre
    <2>4. n.arg <= born' /\ Len(n.was) < born'
      BY <1>5, <2>1, <2>2
    <2>5. \A k \in 1..Len(n.was) : n.was[k].id # n.arg
      BY <1>5, <2>1, <2>2, <2>3
    <2> QED BY <2>1, <2>4, <2>5
  <1>11. /\ o.op = "delete" => Len(o.was) > 1 /\ \E k \in 1..Len(o.was) : o.was[k].id = o.arg
         /\ o.op = "save" => o.arg \in 1..Len(o.was)
         /\ o.op = "reorder" => {o.arg.from, o.arg.to} \subseteq 1..Len(o.was) /\ o.arg.from # o.arg.to
    BY DEF AdminInv, HandlerInv
  <1>12. /\ n.op = "delete" => Len(n.was) > 1 /\ \E k \in 1..Len(n.was) : n.was[k].id = n.arg
         /\ n.op = "save" => n.arg \in 1..Len(n.was)
         /\ n.op = "reorder" => {n.arg.from, n.arg.to} \subseteq 1..Len(n.was) /\ n.arg.from # n.arg.to
    <2>1. n.op \in {"delete", "save", "reorder"} => n.op = o.op /\ n.arg = o.arg /\ n.was = o.was
      BY <1>3 DEF FetchOps
    <2> HIDE DEF o, n
    <2> QED BY <1>11, <2>1
  <1>13. /\ n.op \in FetchOps \/ (n.op \in Puts /\ n.st = "ok") => LiveOf(rows') # {}
         /\ n.op \in FetchOps /\ n.st = "ok" => IdsOf(n.was) = IdsOf(Stored')
    BY <1>3, <1>4, <1>8
  <1> HIDE DEF o, n
  <1>14. HandlerInv'
    <2>1. n.op \in OpNames /\ n.st \in {"sent", "ok", "lost", "refused"} /\ n.sel \in 1..MaxRounds
      BY <1>1, <1>3, <1>5
    <2>2. n.op = "add" => o.op = "add"
      BY <1>3
    <2> QED BY <1>3, <1>9, <1>10, <1>12, <1>13, <2>1, <2>2, LiveIs DEF HandlerInv, n
  <1>15. RenderedInv'
    <2>1. /\ o.op \in {"add", "delete", "save"} \cup Puts => IdsOf(plan) = IdsOf(o.was)
          /\ o.op = "reorder" => IdsOf(plan) = IdsOf(Moved(o.was, o.arg.from, o.arg.to))
      BY DEF AdminInv, RenderedInv, o
    <2>2. /\ n.op \in {"add", "delete", "save"} \cup Puts => IdsOf(plan) = IdsOf(n.was)
          /\ n.op = "reorder" => IdsOf(plan) = IdsOf(Moved(n.was, n.arg.from, n.arg.to))
      BY <1>3, <2>1 DEF FetchOps, Puts
    <2> QED BY <1>1, <2>2 DEF RenderedInv, n
  <1>16. ListedInv'
    <2> SUFFICES ASSUME ~torn' PROVE ListedInv'
      BY DEF ListedInv
    <2>1. ~torn /\ st # "lost" /\ o.op \notin Puts
      BY <1>2
    <2>2. o.op \notin FetchOps
      BY <2>1 DEF AdminInv, ListedInv, o
    <2>3. Lists(rows', IF n.op = "add" /\ n.st = "ok" THEN Append(IdsOf(n.was), n.arg)
                       ELSE IF n.op = "delete" /\ n.st = "ok" THEN IdsOf(Without(n.was, n.arg))
                       ELSE IF n.op = "reorder" /\ n.st # "ok" THEN IdsOf(n.was)
                       ELSE IdsOf(plan))
      BY <1>3, <1>4, <2>1, <2>2
    <2> QED BY <1>1, <1>3, <2>1, <2>2, <2>3 DEF ListedInv, n
  <1> QED BY <1>6, <1>7, <1>14, <1>15, <1>16 DEF AdminInv

\* A refused request, also one whose save broke off half way.
LEMMA InvRefuse ==
  ASSUME MaxInFlight = 1, AdminInv, NEW s \in Slot,
         Refuse(s) \/ \E k \in 1..MaxRounds : BreakOff(s, k)
  PROVE  AdminInv'
  <1> DEFINE o == ops[1]
             n == ops'[1]
  <1>1. /\ s = 1 /\ o.op # "idle" /\ o.st = "sent" /\ DOMAIN ops = Slot /\ 1 \in Slot
        /\ ops' = [ops EXCEPT ![1].st = "refused"]
        /\ UNCHANGED <<plan, selected, edits, begun, finished>>
        /\ DOMAIN o = {"op", "st", "arg", "was", "sel"}
    BY OneSlot DEF Refuse, BreakOff, AdminInv, HandlerInv
  <1>2. /\ DOMAIN ops' = Slot /\ DOMAIN n = {"op", "st", "arg", "was", "sel"}
        /\ n.op = o.op /\ n.st = "refused" /\ n.arg = o.arg /\ n.was = o.was /\ n.sel = o.sel
    BY <1>1
  <1>3. /\ RowsInv /\ Table(rows, born) /\ born \in 0..MaxRounds /\ born \in Nat
        /\ OwnPlan(plan, born) /\ OwnPlan(o.was, born)
    BY <1>1, BoundsAre DEF AdminInv, RowsInv, PageInv, HandlerInv
  <1>4. \/ rows' = rows /\ born' = born /\ torn' = torn
        \/ torn' = TRUE /\ o.op \in Puts /\ \E k \in 1..Len(o.was) - 1 : PutRows(TextsOf(o.was), k)
    BY <1>1 DEF Refuse, BreakOff, Puts
  <1>5. /\ born' \in 0..MaxRounds /\ born' >= born /\ Table(rows', born')
    <2>1. CASE rows' = rows /\ born' = born
      BY <1>3, <2>1
    <2>2. CASE \E k \in 1..Len(o.was) - 1 : PutRows(TextsOf(o.was), k)
      <3>1. PICK k \in 1..Len(o.was) - 1 : PutRows(TextsOf(o.was), k)
        BY <2>2
      <3>2. /\ Len(TextsOf(o.was)) = Len(o.was) /\ Len(o.was) \in 1..born /\ Len(o.was) \in Nat
            /\ \A j \in 1..Len(o.was) : TextsOf(o.was)[j] \in Texts
        BY <1>3, OwnIs
      <3>3. k \in 1..Len(TextsOf(o.was))
        BY <3>2
      <3> QED BY <1>3, <3>1, <3>2, <3>3, PutRowsIs
    <2> QED BY <1>4, <2>1, <2>2
  <1>6. RowsInv'
    BY <1>1, <1>5 DEF AdminInv, RowsInv
  <1>7. PageInv'
    <2>1. OwnPlan(plan, born')
      BY <1>3, <1>5, OwnGrows
    <2>2. torn' \in BOOLEAN
      BY <1>4 DEF AdminInv, PageInv
    <2> QED BY <1>1, <2>1, <2>2 DEF AdminInv, PageInv
  <1>8. HandlerInv'
    <2>1. OwnPlan(n.was, born')
      BY <1>2, <1>3, <1>5, OwnGrows
    <2>2. n.op \in FetchOps => LiveOf(rows') # {}
      BY <1>2, <1>4, LiveIs DEF AdminInv, HandlerInv, FetchOps, Puts
    <2>3. /\ n.op \in OpNames /\ n.sel \in 1..MaxRounds
          /\ n.op = "delete" => Len(n.was) > 1 /\ \E k \in 1..Len(n.was) : n.was[k].id = n.arg
          /\ n.op = "save" => n.arg \in 1..Len(n.was)
          /\ n.op = "reorder" =>
                {n.arg.from, n.arg.to} \subseteq 1..Len(n.was) /\ n.arg.from # n.arg.to
      BY <1>1, <1>2 DEF AdminInv, HandlerInv
    <2> HIDE DEF o
    <2>4. n.op \in FetchOps \/ (n.op \in Puts /\ n.st = "ok") => Live' # {}
      BY <1>2, <2>2, LiveIs
    <2> HIDE DEF n
    <2> QED BY <1>2, <2>1, <2>3, <2>4 DEF HandlerInv, n
  <1>9. RenderedInv'
    BY <1>1, <1>2 DEF AdminInv, RenderedInv
  <1>10. ListedInv'
    <2> SUFFICES ASSUME ~torn' PROVE ListedInv'
      BY DEF ListedInv
    <2>1. rows' = rows /\ ~torn
      BY <1>4
    <2>2. o.op \notin FetchOps
          /\ Lists(rows, IF o.op = "reorder" THEN IdsOf(o.was) ELSE IdsOf(plan))
      BY <1>1, <2>1 DEF AdminInv, ListedInv
    <2> QED BY <1>1, <1>2, <2>1, <2>2 DEF ListedInv
  <1> QED BY <1>6, <1>7, <1>8, <1>9, <1>10 DEF AdminInv

LEMMA InvAdded ==
  ASSUME MaxInFlight = 1, AdminInv, NEW s \in Slot, RoundAdded(s)
  PROVE  AdminInv'
  <1> DEFINE o == ops[1]
  <1>1. /\ s = 1 /\ o.op = "add" /\ o.st = "ok" /\ End(s)
        /\ plan' = Append(o.was, [id |-> o.arg, text |-> NewText(o.arg)])
        /\ selected' = Len(plan')
        /\ UNCHANGED <<rows, born, edits, begun, torn, finished>>
    BY OneSlot DEF RoundAdded
  <1>2. /\ born \in 0..MaxRounds /\ born \in Nat /\ MaxRounds \in Nat /\ OwnPlan(o.was, born)
        /\ o.arg \in Id /\ o.arg <= born /\ Len(o.was) < born
        /\ \A k \in 1..Len(o.was) : o.was[k].id # o.arg
    BY <1>1, BoundsAre DEF AdminInv, RowsInv, HandlerInv
  <1>3. OwnPlan(plan', born) /\ IdsOf(plan') = Append(IdsOf(o.was), o.arg)
    BY <1>1, <1>2, AppendOwn
  <1>4. selected' \in 1..MaxRounds
    <2>1. Len(plan') \in 1..born
      BY <1>2, <1>3, OwnIs
    <2> QED BY <1>1, <1>2, <2>1
  <1>5. RowsInv'
    BY <1>1 DEF AdminInv, RowsInv
  <1>6. PageInv'
    BY <1>1, <1>3, <1>4 DEF AdminInv, PageInv
  <1>7. torn' \/ Lists(rows', IdsOf(plan'))
    BY <1>1, <1>3 DEF AdminInv, ListedInv
  <1>8. HandlerInv' /\ RenderedInv' /\ ListedInv'
    BY <1>1, <1>7, EndIs
  <1> QED BY <1>5, <1>6, <1>8 DEF AdminInv

LEMMA InvDeleted ==
  ASSUME MaxInFlight = 1, AdminInv, NEW s \in Slot, RoundDeleted(s)
  PROVE  AdminInv'
  <1> DEFINE o == ops[1]
  <1>1. /\ s = 1 /\ o.op = "delete" /\ o.st = "ok" /\ End(s)
        /\ plan' = Without(o.was, o.arg)
        /\ selected' = IF o.sel > Len(plan') THEN (IF plan' = <<>> THEN 1 ELSE Len(plan'))
                       ELSE IF o.sel > At(o.was, o.arg) THEN o.sel - 1
                       ELSE selected
        /\ UNCHANGED <<rows, born, edits, begun, torn, finished>>
    BY OneSlot DEF RoundDeleted
  <1>2. /\ born \in 0..MaxRounds /\ born \in Nat /\ MaxRounds \in Nat /\ OwnPlan(o.was, born)
        /\ Len(o.was) > 1 /\ \E k \in 1..Len(o.was) : o.was[k].id = o.arg
        /\ o.sel \in 1..MaxRounds /\ selected \in 1..MaxRounds
    BY <1>1, BoundsAre DEF AdminInv, RowsInv, PageInv, HandlerInv
  <1>3. OwnPlan(plan', born) /\ At(o.was, o.arg) \in 1..Len(o.was)
    BY <1>1, <1>2, WithoutOwn
  <1>4. selected' \in 1..MaxRounds
    <2>1. Len(plan') \in 1..born /\ Len(o.was) \in Nat
      BY <1>2, <1>3, OwnIs
    <2> QED BY <1>1, <1>2, <1>3, <2>1
  <1>5. RowsInv'
    BY <1>1 DEF AdminInv, RowsInv
  <1>6. PageInv'
    BY <1>1, <1>3, <1>4 DEF AdminInv, PageInv
  <1>7. torn' \/ Lists(rows', IdsOf(plan'))
    BY <1>1 DEF AdminInv, ListedInv
  <1>8. HandlerInv' /\ RenderedInv' /\ ListedInv'
    BY <1>1, <1>7, EndIs
  <1> QED BY <1>5, <1>6, <1>8 DEF AdminInv

\* A drag that was refused leaves the list it had found.
LEMMA InvReorderFailed ==
  ASSUME MaxInFlight = 1, AdminInv, NEW s \in Slot, ReorderFailed(s)
  PROVE  AdminInv'
  <1> DEFINE o == ops[1]
  <1>1. /\ s = 1 /\ o.op = "reorder" /\ o.st \in {"refused", "lost"} /\ End(s)
        /\ plan' = o.was /\ selected' = o.sel
        /\ UNCHANGED <<rows, born, edits, begun, torn, finished>>
    BY OneSlot DEF ReorderFailed, Restored
  <1>2. OwnPlan(o.was, born) /\ o.sel \in 1..MaxRounds
    BY <1>1 DEF AdminInv, HandlerInv
  <1>3. RowsInv'
    BY <1>1 DEF AdminInv, RowsInv
  <1>4. PageInv'
    BY <1>1, <1>2 DEF AdminInv, PageInv
  <1>5. torn' \/ Lists(rows', IdsOf(plan'))
    BY <1>1 DEF AdminInv, ListedInv
  <1>6. HandlerInv' /\ RenderedInv' /\ ListedInv'
    BY <1>1, <1>5, EndIs
  <1> QED BY <1>3, <1>4, <1>6 DEF AdminInv

LEMMA InvEnded ==
  ASSUME MaxInFlight = 1, AdminInv, NEW s \in Slot, Told(s) \/ Finish(s)
  PROVE  AdminInv'
  <1> DEFINE o == ops[1]
  <1>1. /\ s = 1 /\ End(s) /\ UNCHANGED <<rows, born, plan, selected, edits, begun, torn>>
        /\ finished' \in {finished, TRUE}
        /\ \/ o.op \in {"add", "delete"} /\ o.st \in {"refused", "lost"}
           \/ o.op = "reorder" /\ o.st = "ok"
           \/ o.op \in {"save", "fetch", "status"}
           \/ o.op = "put" /\ o.st \in {"refused", "lost"}
    BY OneSlot DEF Told, Finish
  <1>2. RowsInv'
    BY <1>1 DEF AdminInv, RowsInv
  <1>3. PageInv'
    <2>1. finished' \in BOOLEAN
      BY <1>1 DEF AdminInv, PageInv
    <2> QED BY <1>1, <2>1 DEF AdminInv, PageInv
  <1>4. torn' \/ Lists(rows', IdsOf(plan'))
    <2>1. torn \/ Lists(rows, IdsOf(plan))
      BY <1>1 DEF AdminInv, ListedInv
    <2> QED BY <1>1, <2>1
  <1>5. HandlerInv' /\ RenderedInv' /\ ListedInv'
    BY <1>1, <1>4, EndIs
  <1> QED BY <1>2, <1>3, <1>5 DEF AdminInv

\* A save that goes on: to the reading of the plan, or to the status.
LEMMA InvGoesOn ==
  ASSUME MaxInFlight = 1, AdminInv, NEW s \in Slot, SavedAll(s) \/ FinishGoesOn(s)
  PROVE  AdminInv'
  <1> DEFINE o == ops[1]
             n == ops'[1]
  <1>1. /\ s = 1 /\ DOMAIN ops = Slot /\ 1 \in Slot
        /\ UNCHANGED <<rows, born, plan, selected, edits, begun, torn, finished>>
        /\ DOMAIN o = {"op", "st", "arg", "was", "sel"}
    BY OneSlot DEF SavedAll, FinishGoesOn, AdminInv, HandlerInv
  <1>2. \/ o.op \in Puts /\ o.st = "ok" /\ (Goes(1, "fetch") \/ Goes(1, "finishFetch"))
        \/ o.op \in {"finishPut", "finishFetch"} /\ o.st \in {"refused", "lost"} /\ Goes(1, "status")
    BY <1>1 DEF SavedAll, FinishGoesOn, Puts
  <1>3. /\ DOMAIN ops' = Slot /\ DOMAIN n = {"op", "st", "arg", "was", "sel"}
        /\ n.st = "sent" /\ n.arg = o.arg /\ n.was = o.was /\ n.sel = o.sel
        /\ n.op \in FetchOps \cup {"status"}
        /\ n.op \in FetchOps => o.op \in Puts /\ o.st = "ok"
    BY <1>1, <1>2 DEF Goes, FetchOps
  <1>4. o.op \in Puts \cup FetchOps
    BY <1>2 DEF Puts, FetchOps
  <1>5. HandlerInv'
    <2>1. OwnPlan(n.was, born') /\ n.sel \in 1..MaxRounds
      BY <1>1, <1>3, <1>4 DEF AdminInv, HandlerInv, Puts, FetchOps
    <2>2. n.op \in FetchOps => Live' # {}
      BY <1>1, <1>3, LiveIs DEF AdminInv, HandlerInv
    <2> HIDE DEF n, o
    <2> QED BY <1>3, <2>1, <2>2 DEF HandlerInv, n, OpNames, Puts, FetchOps
  <1>6. RowsInv' /\ PageInv'
    <2>1. RowsInv'
      BY <1>1 DEF AdminInv, RowsInv
    <2>2. PageInv'
      BY <1>1 DEF AdminInv, PageInv
    <2> QED BY <2>1, <2>2
  <1>7. RenderedInv'
    BY <1>3 DEF RenderedInv, FetchOps, Puts
  <1>8. ListedInv'
    <2> SUFFICES ASSUME ~torn' PROVE ListedInv'
      BY DEF ListedInv
    <2>1. ~torn /\ o.op \notin FetchOps /\ (o.op \in Puts => o.st # "ok")
      BY <1>1 DEF AdminInv, ListedInv
    <2>2. Lists(rows, IdsOf(plan))
      BY <1>4, <2>1 DEF AdminInv, ListedInv, Puts
    <2> HIDE DEF o
    <2> QED BY <1>1, <1>3, <2>1, <2>2 DEF ListedInv, FetchOps, Puts
  <1> QED BY <1>5, <1>6, <1>7, <1>8 DEF AdminInv

\* The plan that is read again is the list of the rounds.
LEMMA InvFetched ==
  ASSUME MaxInFlight = 1, AdminInv, NEW s \in Slot, PlanFetched(s)
  PROVE  AdminInv'
  <1> DEFINE o == ops[1]
             n == ops'[1]
  <1>1. /\ s = 1 /\ o.op \in FetchOps /\ o.st = "ok" /\ DOMAIN ops = Slot /\ 1 \in Slot
        /\ plan' = o.was /\ torn' = FALSE /\ (End(s) \/ Goes(s, "status"))
        /\ UNCHANGED <<rows, born, selected, edits, begun, finished>>
        /\ DOMAIN o = {"op", "st", "arg", "was", "sel"}
    BY OneSlot DEF PlanFetched, FetchOps, AdminInv, HandlerInv
  <1>2. /\ Table(rows, born) /\ born \in Nat /\ OwnPlan(o.was, born) /\ o.sel \in 1..MaxRounds
        /\ IdsOf(o.was) = IdsOf(Stored)
    BY <1>1, BoundsAre DEF AdminInv, RowsInv, HandlerInv, FetchOps
  <1>3. Lists(rows', IdsOf(plan'))
    BY <1>1, <1>2, StoredLists, StoredIs
  <1>4. RowsInv'
    BY <1>1 DEF AdminInv, RowsInv
  <1>5. PageInv'
    <2>1. torn' \in BOOLEAN
      BY <1>1
    <2> QED BY <1>1, <1>2, <2>1 DEF AdminInv, PageInv
  <1>6. HandlerInv' /\ RenderedInv' /\ ListedInv'
    <2>1. CASE End(s)
      BY <1>3, <2>1, EndIs
    <2>2. CASE Goes(s, "status")
      <3>1. /\ DOMAIN ops' = Slot /\ DOMAIN n = {"op", "st", "arg", "was", "sel"}
            /\ n.op = "status" /\ n.st = "sent" /\ n.arg = o.arg /\ n.was = o.was /\ n.sel = o.sel
        BY <1>1, <2>2 DEF Goes
      <3> HIDE DEF n, o
      <3>2. HandlerInv'
        BY <1>1, <1>2, <3>1 DEF HandlerInv, n, OpNames, FetchOps, Puts
      <3>3. RenderedInv'
        BY <3>1 DEF RenderedInv, n, Puts
      <3>4. ListedInv'
        BY <1>3, <3>1 DEF ListedInv, n, FetchOps, Puts
      <3> QED BY <3>2, <3>3, <3>4
    <2> QED BY <1>1, <2>1, <2>2
  <1> QED BY <1>4, <1>5, <1>6 DEF AdminInv

LEMMA InvStutter ==
  ASSUME AdminInv, UNCHANGED adminVars
  PROVE  AdminInv'
  <1>1. UNCHANGED <<rows, born, plan, selected, edits, begun, ops, torn, finished>>
    BY DEF adminVars
  <1>2. RowsInv'
    BY <1>1 DEF AdminInv, RowsInv
  <1>3. PageInv'
    BY <1>1 DEF AdminInv, PageInv
  <1>4. HandlerInv'
    BY <1>1, LiveIs, StoredIs DEF AdminInv, HandlerInv
  <1>5. RenderedInv'
    BY <1>1 DEF AdminInv, RenderedInv
  <1>6. ListedInv'
    BY <1>1 DEF AdminInv, ListedInv
  <1> QED BY <1>2, <1>3, <1>4, <1>5, <1>6 DEF AdminInv

LEMMA AdminStep ==
  ASSUME MaxInFlight = 1, AdminInv, [AdminNext]_adminVars
  PROVE  AdminInv'
  <1>1. CASE UNCHANGED adminVars
    BY <1>1, InvStutter
  <1>2. CASE \E k \in DOMAIN plan : EditRound(k) \/ SelectRound(k)
    BY <1>2, InvEdit
  <1>3. ASSUME NEW s \in Slot,
               \/ AddRound(s)
               \/ \E k \in DOMAIN plan : DeleteRound(s, k) \/ SaveRound(s, k)
               \/ \E op \in {"put", "finishPut"} : SaveAll(s, op)
        PROVE  AdminInv'
    BY <1>3, InvBegin DEF Puts
  <1>4. ASSUME NEW s \in Slot, \E from, to \in DOMAIN plan : DragRound(s, from, to)
        PROVE  AdminInv'
    BY <1>4, InvDrag
  <1>5. ASSUME NEW s \in Slot, Answers(s) PROVE AdminInv'
    BY <1>5, InvServe, InvRefuse DEF Answers
  <1>6. ASSUME NEW s \in Slot, Ends(s) PROVE AdminInv'
    BY <1>6, InvAdded, InvDeleted, InvReorderFailed, InvEnded, InvGoesOn, InvFetched DEF Ends
  <1> QED BY <1>1, <1>2, <1>3, <1>4, <1>5, <1>6 DEF AdminNext, AdminActs

-----------------------------------------------------------------------------
(* What the page and the backend promise.                                  *)

\* The inductive invariant of the admin's plan editor, for every number of
\* rounds, texts and handlers, while one handler runs at a time: the rounds of
\* the table have different numbers, and the page shows what they list.
THEOREM AdminInvariance ==
  ASSUME MaxInFlight = 1
  PROVE  AdminSpec => []AdminInv
  <1>1. AdminInit => AdminInv
    BY InvFirst
  <1>2. AdminInv /\ [AdminNext]_adminVars => AdminInv'
    BY AdminStep
  <1> QED BY <1>1, <1>2, PTL DEF AdminSpec

LEMMA AdminInvTypes ==
  ASSUME AdminInv
  PROVE  AdminTypeOK
  <1>1. /\ rows \in [Id -> [num : 0..MaxRounds, text : 0..(MaxRounds + MaxEdits)]]
        /\ born \in 0..MaxRounds /\ edits \in 0..MaxEdits /\ begun \in 0..MaxHandlers
    BY DEF AdminInv, RowsInv, Table, Texts
  <1>2. OwnPlan(plan, born) /\ selected \in 1..MaxRounds
    BY DEF AdminInv, PageInv
  <1>3. {torn, finished} \subseteq BOOLEAN
    BY Zenon DEF AdminInv, PageInv
  <1>4. Len(plan) \in 1..MaxRounds /\ \A k \in DOMAIN plan : plan[k].id \in Id
    BY <1>1, <1>2, OwnIs, BoundsAre
  <1> QED BY <1>1, <1>2, <1>3, <1>4 DEF AdminTypeOK

\* The page's plan and the rounds of the backend keep their types.
THEOREM AdminTypes ==
  ASSUME MaxInFlight = 1
  PROVE  AdminSpec => []AdminTypeOK
  <1>1. AdminInv => AdminTypeOK
    BY AdminInvTypes
  <1> QED BY <1>1, AdminInvariance, PTL

LEMMA AdminInvLists ==
  ASSUME MaxInFlight = 1, AdminInv
  PROVE  QuietListsAgree
  <1> SUFFICES ASSUME Rest, ~torn PROVE IdsOf(plan) = IdsOf(Stored)
    BY DEF QuietListsAgree
  <1>1. ops[1].op = "idle"
    BY OneSlot DEF Rest
  <1>2. Lists(rows, IdsOf(plan))
    BY <1>1 DEF AdminInv, ListedInv
  <1>3. Table(rows, born) /\ born \in Nat
    BY BoundsAre DEF AdminInv, RowsInv
  <1> QED BY <1>2, <1>3, OneList, StoredIs

\* Between requests the page shows the rounds the backend has, in its order,
\* after any sequence of additions, deletes and drags, refused ones too.
THEOREM ListsAgree ==
  ASSUME MaxInFlight = 1
  PROVE  AdminSpec => []QuietListsAgree
  <1>1. AdminInv => QuietListsAgree
    BY AdminInvLists
  <1> QED BY <1>1, AdminInvariance, PTL

\* What SaveAllKeepsRounds asks of a step.
Kept ==
    NoGap /\ ~torn =>
      \A s \in Slot :
         ops[s].op \in {"put", "finishPut"} /\ ops'[s].st = "ok" /\ ops[s].st = "sent"
            => IdsOf(Stored') = IdsOf(ops[s].was)

LEMMA SaveAllStep ==
  ASSUME MaxInFlight = 1, AdminInv, [AdminNext]_adminVars
  PROVE  [Kept]_adminVars
  <1> SUFFICES ASSUME AdminNext, NoGap, ~torn, NEW s \in Slot,
                      ops[s].op \in {"put", "finishPut"}, ops'[s].st = "ok", ops[s].st = "sent"
               PROVE  IdsOf(Stored') = IdsOf(ops[s].was)
    BY DEF Kept
  <1> DEFINE o == ops[1]
  <1>1. /\ s = 1 /\ o.op \in Puts /\ o.st = "sent" /\ ops'[1].st = "ok" /\ DOMAIN ops = Slot
        /\ 1 \in Slot
    BY OneSlot DEF Puts, AdminInv, HandlerInv
  <1>2. Stores(o)
    <2>1. \A t \in Slot : ops[t].op # "idle" /\ ops[t].st = "sent"
      BY <1>1, OneSlot DEF Puts
    <2>2. ~AdminActs
      <3>1. AdminActs => ops' = ops \/ \E t \in Slot : ops[t].op = "idle"
        BY DEF AdminActs, EditRound, SelectRound, AddRound, DeleteRound, SaveRound, SaveAll,
               DragRound, Begin
      <3> QED BY <1>1, <2>1, <3>1
    <2>3. \A t \in Slot : ~Ends(t)
      BY <1>1, <2>1, OneSlot
         DEF Puts, Ends, RoundAdded, RoundDeleted, ReorderFailed, Told, SavedAll, PlanFetched,
             FinishGoesOn, Finish
    <2>4. \A t \in Slot : ~Refuse(t) /\ \A k \in 1..MaxRounds : ~BreakOff(t, k)
      <3> SUFFICES ASSUME NEW t \in Slot, Refuse(t) \/ \E k \in 1..MaxRounds : BreakOff(t, k)
                   PROVE  FALSE
        OBVIOUS
      <3>1. t = 1 /\ ops' = [ops EXCEPT ![1].st = "refused"]
        BY OneSlot DEF Refuse, BreakOff
      <3>2. DOMAIN o = {"op", "st", "arg", "was", "sel"}
        BY DEF AdminInv, HandlerInv
      <3>3. ops'[1].st = "refused"
        BY <1>1, <3>1, <3>2
      <3> QED BY <1>1, <3>3
    <2>5. PICK t \in Slot : \E st \in {"ok", "lost"} : Serve(t, st)
      BY <2>2, <2>3, <2>4 DEF AdminNext, Answers
    <2> QED BY <2>5, OneSlot DEF Serve
  <1>3. PutRows(TextsOf(o.was), Len(o.was))
    BY <1>1, <1>2 DEF Stores, Puts
  <1>4. /\ RowsInv /\ Table(rows, born) /\ born \in 0..MaxRounds /\ born \in Nat
        /\ OwnPlan(o.was, born)
    BY <1>1, BoundsAre DEF AdminInv, RowsInv, HandlerInv, Puts
  <1>5. /\ Len(TextsOf(o.was)) = Len(o.was) /\ Len(o.was) \in 1..born /\ Len(o.was) \in Nat
        /\ Len(IdsOf(o.was)) = Len(o.was)
        /\ \A k \in 1..Len(o.was) : TextsOf(o.was)[k] \in Texts
    BY <1>4, OwnIs
  <1>6. Lists(rows, IdsOf(o.was))
    <2>1. Lists(rows, IdsOf(plan))
      BY <1>1 DEF AdminInv, ListedInv, Puts
    <2>2. IdsOf(plan) = IdsOf(o.was)
      BY <1>1 DEF AdminInv, RenderedInv
    <2> QED BY <2>1, <2>2
  <1> HIDE DEF o
  <1>7. Cardinality(LiveOf(rows)) = Len(o.was)
    BY <1>4, <1>5, <1>6, ListRanks
  <1>8. \A i \in LiveOf(rows) : rows[i].num <= Len(o.was)
    BY <1>7, LiveIs DEF NoGap
  <1>9. \A k \in 1..Len(o.was) : \E i \in LiveOf(rows) : rows[i].num = k
    BY <1>4, <1>7, <1>8, EveryNumber
  <1>10. Len(o.was) \in 1..Len(o.was)
    BY <1>4, <1>5
  <1>11. /\ born' \in 0..MaxRounds /\ Table(rows', born')
         /\ Lists(rows', IdsOf(o.was))
    BY <1>3, <1>4, <1>5, <1>6, <1>8, <1>9, <1>10, PutRowsIs
  <1>12. IdsOf(StoredOf(rows')) = IdsOf(o.was)
    BY <1>11, OneList, BoundsAre
  <1> QED BY <1>1, <1>12, StoredIs DEF o

\* "Save all" stores every content in the round it was written for, while the
\* numbers of the rounds have no gap.
THEOREM SaveAllKeeps ==
  ASSUME MaxInFlight = 1
  PROVE  AdminSpec => SaveAllKeepsRounds
  <1>1. AdminInv /\ [AdminNext]_adminVars => [Kept]_adminVars
    BY SaveAllStep
  <1> QED BY <1>1, AdminInvariance, PTL DEF AdminSpec, SaveAllKeepsRounds, Kept

\* What SelectionFollows asks of a step.
Follows ==
    (plan' # plan /\ selected \in DOMAIN plan) =>
      \A s \in Slot :
         \/ ops[s].op = "idle" /\ ops'[s].op = "reorder"
         \/ ops[s].op = "delete" /\ ops[s].sel = selected /\ ops[s].arg # plan[selected].id
         => plan'[selected'].id = plan[selected].id

LEMMA SelectionStep ==
  ASSUME MaxInFlight = 1, AdminInv, [AdminNext]_adminVars
  PROVE  [Follows]_adminVars
  <1> SUFFICES ASSUME AdminNext, plan' # plan, selected \in DOMAIN plan, NEW s \in Slot,
                      \/ ops[s].op = "idle" /\ ops'[s].op = "reorder"
                      \/ /\ ops[s].op = "delete" /\ ops[s].sel = selected
                         /\ ops[s].arg # plan[selected].id
               PROVE  plan'[selected'].id = plan[selected].id
    BY DEF Follows
  <1> DEFINE o == ops[1]
  <1>1. s = 1 /\ 1 \in Slot /\ DOMAIN ops = Slot
    BY OneSlot DEF AdminInv, HandlerInv
  <1>2. /\ born \in 0..MaxRounds /\ born \in Nat /\ MaxRounds \in Nat /\ OwnPlan(plan, born)
    BY BoundsAre DEF AdminInv, RowsInv, PageInv
  <1>3. /\ DOMAIN plan = 1..Len(plan) /\ Len(plan) \in Nat /\ plan \in Seq(Item)
        /\ Len(IdsOf(plan)) = Len(plan)
        /\ \A k \in 1..Len(plan) : plan[k] \in Item /\ IdsOf(plan)[k] = plan[k].id
    BY <1>2, OwnIs
  <1>4. ASSUME NEW k \in DOMAIN plan, EditRound(k) PROVE plan'[selected'].id = plan[selected].id
    <2>1. plan' = [plan EXCEPT ![k].text = Typed(edits + 1)] /\ selected' = selected
      BY <1>4 DEF EditRound
    <2> QED BY <1>3, <2>1 DEF Item
  <1>5. ASSUME NEW t \in Slot, NEW from \in DOMAIN plan, NEW to \in DOMAIN plan,
               DragRound(t, from, to)
        PROVE  plan'[selected'].id = plan[selected].id
    <2>1. /\ plan' = Moved(plan, from, to) /\ from # to
          /\ selected' = SelectedAfterMove(from, to)
      BY <1>5 DEF DragRound
    <2>2. \A j \in 1..Len(plan) : plan'[j] = plan[Source(from, to, j)]
      <3>1. from \in 1..Len(plan) /\ to \in 1..Len(plan)
        BY <1>3
      <3>2. from # to /\ OwnPlan(plan, born) /\ born \in 0..MaxRounds
        BY <1>2, <2>1
      <3>3. \A j \in 1..Len(plan) : Moved(plan, from, to)[j] = plan[Source(from, to, j)]
        BY <3>1, <3>2, MovedAt
      <3> QED BY <2>1, <3>3, Zenon
    <2>3. /\ SelectedAfterMove(from, to) \in 1..Len(plan)
          /\ Source(from, to, SelectedAfterMove(from, to)) = selected
      BY <1>3, <2>1 DEF Source, SelectedAfterMove
    <2> QED BY <2>1, <2>2, <2>3
  <1>6. ASSUME NEW t \in Slot, RoundDeleted(t) PROVE plan'[selected'].id = plan[selected].id
    <2>1. /\ o.op = "delete" /\ plan' = Without(o.was, o.arg)
          /\ selected' = IF o.sel > Len(plan') THEN (IF plan' = <<>> THEN 1 ELSE Len(plan'))
                         ELSE IF o.sel > At(o.was, o.arg) THEN o.sel - 1
                         ELSE selected
          /\ o.sel = selected /\ o.arg # plan[selected].id
      BY <1>1, <1>6, OneSlot DEF RoundDeleted
    <2>2. /\ OwnPlan(o.was, born) /\ Len(o.was) > 1
          /\ \E k \in 1..Len(o.was) : o.was[k].id = o.arg
          /\ IdsOf(plan) = IdsOf(o.was)
      BY <2>1 DEF AdminInv, HandlerInv, RenderedInv
    <2> HIDE DEF o
    <2>3. /\ Len(o.was) = Len(plan)
          /\ \A k \in 1..Len(plan) : o.was[k].id = plan[k].id
      BY <1>2, <1>3, <2>2, OwnIs
    <2>4. /\ At(o.was, o.arg) \in 1..Len(plan) /\ o.was[At(o.was, o.arg)].id = o.arg
          /\ Len(plan') = Len(plan) - 1
          /\ \A j \in 1..Len(plan) - 1 :
                plan'[j] = IF j < At(o.was, o.arg) THEN o.was[j] ELSE o.was[j + 1]
      <3>1. born \in 0..MaxRounds /\ OwnPlan(o.was, born) /\ Len(o.was) > 1
        BY <1>2, <2>2
      <3>2. /\ At(o.was, o.arg) \in 1..Len(o.was) /\ o.was[At(o.was, o.arg)].id = o.arg
            /\ Len(Without(o.was, o.arg)) = Len(o.was) - 1
            /\ \A j \in 1..Len(o.was) - 1 :
                  Without(o.was, o.arg)[j] = IF j < At(o.was, o.arg) THEN o.was[j] ELSE o.was[j + 1]
        BY <2>2, <3>1, WithoutOwn
      <3>3. plan' = Without(o.was, o.arg)
        BY <2>1
      <3> QED BY <2>3, <3>2, <3>3, Zenon
    <2>5. selected \in 1..Len(plan) /\ At(o.was, o.arg) # selected
      BY <1>3, <2>1, <2>3, <2>4
    <2>6. plan' # <<>>
      BY <1>3, <2>2, <2>3, <2>4
    <2> DEFINE m == At(o.was, o.arg)
    <2> HIDE DEF m
    <2>7. /\ selected' \in 1..Len(plan) - 1
          /\ selected = IF selected' < m THEN selected' ELSE selected' + 1
      BY <1>3, <2>1, <2>2, <2>3, <2>4, <2>5, <2>6 DEF m
    <2>8. plan'[selected'] = o.was[selected]
      BY <2>4, <2>7 DEF m
    <2> QED BY <2>3, <2>5, <2>8
  <1>7. \/ \E k \in DOMAIN plan : EditRound(k)
        \/ \E t \in Slot : \E from, to \in DOMAIN plan : DragRound(t, from, to)
        \/ \E t \in Slot : RoundDeleted(t)
    <2>1. o.op \in {"idle", "delete"}
      BY <1>1
    <2>2. \A t \in Slot : ~RoundAdded(t) /\ ~ReorderFailed(t) /\ ~PlanFetched(t)
      BY <2>1, OneSlot DEF RoundAdded, ReorderFailed, PlanFetched
    <2>3. /\ \A k \in DOMAIN plan : ~SelectRound(k) /\ \A t \in Slot : ~SaveRound(t, k)
          /\ \A k \in DOMAIN plan : \A t \in Slot : ~DeleteRound(t, k)
          /\ \A t \in Slot : ~AddRound(t) /\ \A op \in {"put", "finishPut"} : ~SaveAll(t, op)
      BY DEF SelectRound, SaveRound, DeleteRound, AddRound, SaveAll
    <2>4. \A t \in Slot : ~Answers(t)
      BY DEF Answers, Serve, Refuse, BreakOff
    <2>5. \A t \in Slot : ~Told(t) /\ ~SavedAll(t) /\ ~FinishGoesOn(t) /\ ~Finish(t)
      BY DEF Told, SavedAll, FinishGoesOn, Finish
    <2> QED BY <2>2, <2>3, <2>4, <2>5 DEF AdminNext, AdminActs, Ends
  <1> QED BY <1>4, <1>5, <1>6, <1>7

\* The selection stays with its round through a drag, and through the end of a
\* delete when nothing else was selected meanwhile.
THEOREM SelectionStays ==
  ASSUME MaxInFlight = 1
  PROVE  AdminSpec => SelectionFollows
  <1>1. AdminInv /\ [AdminNext]_adminVars => [Follows]_adminVars
    BY SelectionStep
  <1> QED BY <1>1, AdminInvariance, PTL DEF AdminSpec, SelectionFollows, Follows
=============================================================================
