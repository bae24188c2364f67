----------------------------- MODULE AtomicStore -----------------------------
(***************************************************************************)
(* What the store promises its callers, with no storage in sight: a        *)
(* history of datasets that only grows, one of them published, and readers *)
(* whose view is chosen once, when they take a snapshot, and never moves.  *)
(***************************************************************************)
EXTENDS Integers, Sequences

CONSTANTS Quads, Readers, NoView

VARIABLES
    log,   \* log[e + 1] is the dataset committed at epoch e
    cur,   \* the published epoch
    now,   \* the dataset a query at the published epoch reads
    view   \* what each reader's snapshot reads, NoView when it holds none

vars == <<log, cur, now, view>>

Init ==
    /\ log \in {<<D>> : D \in SUBSET Quads}
    /\ cur = 0
    /\ now = log[1]
    /\ view = [r \in Readers |-> NoView]

\* Deletes, then adds; the caller may keep the snapshot it is handed.
Apply(dels, adds) ==
    LET D == (log[Len(log)] \ dels) \cup adds
    IN  /\ log' = Append(log, D)
        /\ \/ view' = view
           \/ \E r \in Readers : view[r] = NoView /\ view' = [view EXCEPT ![r] = D]
        /\ UNCHANGED <<cur, now>>

Publish ==
    /\ cur < Len(log) - 1
    /\ cur' = Len(log) - 1
    /\ now' = log[Len(log)]
    /\ UNCHANGED <<log, view>>

Acquire(r) ==
    /\ view[r] = NoView
    /\ view' = [view EXCEPT ![r] = now]
    /\ UNCHANGED <<log, cur, now>>

Release(r) ==
    /\ view[r] # NoView
    /\ view' = [view EXCEPT ![r] = NoView]
    /\ UNCHANGED <<log, cur, now>>

Next ==
    \/ \E dels, adds \in SUBSET Quads : Apply(dels, adds)
    \/ Publish
    \/ \E r \in Readers : Acquire(r) \/ Release(r)

Spec == Init /\ [][Next]_vars
=============================================================================
