----------------------------- MODULE AsyncList ------------------------------
(***************************************************************************)
(* The data hook of the recruiter app (useAsyncList): a mounted component  *)
(* loads its data, loads it again on every service event, keeps only the   *)
(* answer of the latest load and paints a remount from a cache that every  *)
(* answer refreshes.  Answers come back in any order, or not at all.       *)
(***************************************************************************)
EXTENDS Naturals

CONSTANTS
    MaxLoads,         \* bound on the loads issued
    NoData            \* nothing loaded or cached

ASSUME ListAssumption == MaxLoads \in Nat \ {0}

VARIABLES
    server,           \* what a load is answered with
    open,             \* the component is mounted
    view,             \* state.data
    failed,           \* state.error # null
    loading,          \* state.loading
    cache,            \* the entry of __asyncCache under the component's key
    current,          \* runIdRef: the load whose answer is shown, 0 for none
    issued,           \* loads issued
    loads             \* loads[n]: the n-th load

listVars == <<open, view, failed, loading, cache, current, issued, loads>>

Load   == 1..MaxLoads
NoLoad == [st |-> "none", data |-> NoData]

ListInit ==
    /\ open = FALSE
    /\ view = NoData /\ cache = NoData
    /\ failed = FALSE /\ loading = FALSE
    /\ current = 0 /\ issued = 0
    /\ loads = [n \in Load |-> NoLoad]

-----------------------------------------------------------------------------
(* reload() supersedes every load before it.                               *)
Reload ==
    /\ issued < MaxLoads
    /\ issued' = issued + 1
    /\ current' = issued + 1
    /\ loads' = [loads EXCEPT ![issued + 1].st = "sent"]
    /\ loading' = TRUE

\* Mutant: nobody listens to the event.
EmittedUnheard == UNCHANGED listVars

\* A service event reloads whatever is mounted.
Emitted ==
    IF open THEN Reload /\ UNCHANGED <<open, view, failed, cache>>
            ELSE UNCHANGED listVars

Mount ==
    /\ ~open
    /\ open' = TRUE
    /\ view' = cache
    /\ failed' = FALSE
    /\ Reload
    /\ UNCHANGED cache

Unmount ==
    /\ open
    /\ open' = FALSE
    /\ view' = NoData /\ failed' = FALSE /\ loading' = FALSE
    /\ current' = 0
    /\ UNCHANGED <<cache, issued, loads>>

\* The backend reads the data for load n.
Answer(n) ==
    /\ loads[n].st = "sent"
    /\ loads' = [loads EXCEPT ![n] = [st |-> "answered", data |-> server]]
    /\ UNCHANGED <<open, view, failed, loading, cache, current, issued>>

Applied(n) == current = n

\* The answer arrives: it is cached, and shown unless it was superseded.
Deliver(n) ==
    /\ loads[n].st = "answered"
    /\ loads' = [loads EXCEPT ![n].st = "over"]
    /\ cache' = loads[n].data
    /\ IF open /\ Applied(n)
       THEN view' = loads[n].data /\ failed' = FALSE /\ loading' = FALSE
       ELSE UNCHANGED <<view, failed, loading>>
    /\ UNCHANGED <<open, current, issued>>

\* The load fails: data already shown stay, an error shows when there are none.
Fail(n) ==
    /\ loads[n].st \in {"sent", "answered"}
    /\ loads' = [loads EXCEPT ![n].st = "failed"]
    /\ IF Applied(n)
       THEN loading' = FALSE /\ failed' = (view = NoData)
       ELSE UNCHANGED <<failed, loading>>
    /\ UNCHANGED <<open, view, cache, current, issued>>
=============================================================================
