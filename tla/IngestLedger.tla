---------------------------- MODULE IngestLedger ----------------------------
(***************************************************************************)
(* What the cortex event queue promises about one ledger row per source,   *)
(* with no lease, attempt, worker or graph in sight: every edit of a       *)
(* source is owed to the knowledge graph, and the debt is written off only *)
(* once content at least as new as the latest edit has been ingested.      *)
(***************************************************************************)
EXTENDS Naturals

CONSTANT Events          \* the (event_type, source_id) rows of cortex_events

VARIABLES
    edited,              \* edited[e]: version of the source's current content
    covered,             \* covered[e]: newest version ever ingested with success
    owed                 \* the rows that still want work

ledgerVars == <<edited, covered, owed>>

Init ==
    /\ edited = [e \in Events |-> 1]
    /\ covered = [e \in Events |-> 0]
    /\ owed = Events

\* A user edits the source: whatever was ingested is now out of date.
Edit(e) ==
    /\ edited'[e] > edited[e]
    /\ edited' = [edited EXCEPT ![e] = edited'[e]]
    /\ owed' = owed \cup {e}
    /\ UNCHANGED covered

\* Some version between the last one covered and the current one is ingested.
Ingest(e) ==
    /\ covered'[e] >= covered[e]
    /\ covered'[e] <= edited[e]
    /\ covered' = [covered EXCEPT ![e] = covered'[e]]
    /\ UNCHANGED <<edited, owed>>

\* The debt is written off only when the current content is in the graph.
WriteOff(e) ==
    /\ covered[e] = edited[e]
    /\ owed' = owed \ {e}
    /\ UNCHANGED <<edited, covered>>

\* A row may be asked for again at any time; redoing work loses nothing.
Reopen(e) ==
    /\ owed' = owed \cup {e}
    /\ UNCHANGED <<edited, covered>>

Next == \E e \in Events : Edit(e) \/ Ingest(e) \/ WriteOff(e) \/ Reopen(e)

Spec == Init /\ [][Next]_ledgerVars
=============================================================================
