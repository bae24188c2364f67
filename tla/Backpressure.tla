---------------------------- MODULE Backpressure ----------------------------
(***************************************************************************)
(* The delta budget of graphy-store: the backpressure gate that holds      *)
(* writers back at the hard limit (Store::wait_for_capacity), and those    *)
(* that can let them go: the background MergeScheduler (scheduler.rs), a   *)
(* caller of Store::merge, Store::gc and Store::set_delta_budget.          *)
(*                                                                         *)
(* The delta is its number of events.  Write leadership is a lock here     *)
(* (GroupCommit shows it is one), a merge the suffix it leaves in the new  *)
(* delta (SnapshotStore shows what that suffix holds).                     *)
(***************************************************************************)
EXTENDS Integers, FiniteSets

CONSTANTS
    Writers,        \* threads calling apply_with
    Sched,          \* the thread of the MergeScheduler
    Manual,         \* a thread calling Store::merge
    Gc,             \* a thread calling Store::gc
    Admin,          \* a thread calling Store::set_delta_budget
    Nobody,         \* "the lock is free"
    Soft,           \* budget_soft
    HardLimits,     \* the values budget_hard may be set to
    OnSoft,         \* SchedulerConfig::on_soft_budget
    TombstoneRatio, \* SchedulerConfig::tombstone_ratio is Some(_)
    Actors,         \* which of Manual, Gc and Admin there are
    MaxTx           \* bound: delta events of one transaction

ASSUME BudgetAssumption ==
    /\ Soft \in Nat /\ MaxTx \in Nat
    /\ Actors \subseteq {Manual, Gc, Admin}
    /\ HardLimits \subseteq Nat \ {0} /\ HardLimits # {}
    /\ IsFiniteSet(Writers) /\ Writers # {}
    /\ Cardinality({Sched, Manual, Gc, Admin, Nobody}) = 5
    /\ Writers \cap {Sched, Manual, Gc, Admin, Nobody} = {}

Mergers == {Sched, Manual}
Signalers == {Sched, Manual, Gc, Admin}

VARIABLES
    wpc,            \* where each writer is in apply_with
    expired,        \* whether its backpressure deadline has passed
    gate_lock,      \* the holder of Store::gate_lock
    lead,           \* the holder of write leadership
    events,         \* current.delta.events()
    hard,           \* Store::budget_hard
    merge_needed,   \* Store::merge_needed
    merger,         \* Store::merger, "a merger is attached"
    merging,        \* the holder of Store::merge_lock
    mpc,            \* where each merge is
    suffix,         \* events recorded since the running merge froze
    sig,            \* where each thread is in notify_gate
    spc,            \* where the scheduler thread is
    explicit,       \* its local `forced`
    kicked,         \* Shared::kicked
    stop            \* Shared::stop

wvars == <<wpc, expired, gate_lock>>
svars == <<spc, explicit, kicked, stop>>
mvars == <<merging, mpc, suffix>>
vars == <<wvars, svars, mvars, lead, events, hard, merge_needed, merger, sig>>

Init ==
    /\ wpc = [w \in Writers |-> "idle"]
    /\ expired = [w \in Writers |-> FALSE]
    /\ gate_lock = Nobody
    /\ lead = Nobody
    /\ events = 0
    /\ hard \in HardLimits
    /\ merge_needed = FALSE
    /\ merger = FALSE
    /\ merging = Nobody
    /\ mpc = [m \in Mergers |-> "none"]
    /\ suffix = 0
    /\ sig = [s \in Signalers |-> "none"]
    /\ spc = "none"
    /\ explicit = FALSE
    /\ kicked = FALSE
    /\ stop = FALSE

-----------------------------------------------------------------------------
(* A writer: wait_for_capacity, then a commit group of its own.            *)

\* Mutant: the gate is never consulted.
CallSkipsGate(w) ==
    /\ wpc[w] = "idle"
    /\ wpc' = [wpc EXCEPT ![w] = "go"]
    /\ UNCHANGED <<expired, gate_lock, svars, mvars, lead, events, hard, merge_needed, merger, sig>>

\* The unlocked look at the budget; the deadline starts to run.
Call(w) ==
    /\ wpc[w] = "idle"
    /\ wpc' = [wpc EXCEPT ![w] = IF events >= hard THEN "gate" ELSE "go"]
    /\ UNCHANGED <<expired, gate_lock, svars, mvars, lead, events, hard, merge_needed, merger, sig>>

\* gate_lock taken, at first or back from the condition variable.
GateLock(w) ==
    /\ wpc[w] = "gate"
    /\ gate_lock = Nobody
    /\ gate_lock' = w
    /\ wpc' = [wpc EXCEPT ![w] = "check"]
    /\ UNCHANGED <<expired, svars, mvars, lead, events, hard, merge_needed, merger, sig>>

\* Release the gate's lock and go to pc; only a sleeper's deadline is still
\* of use, and it has not passed.
Leave(w, pc) ==
    /\ gate_lock' = Nobody
    /\ wpc' = [wpc EXCEPT ![w] = pc]
    /\ expired' = [expired EXCEPT ![w] = FALSE]
    /\ UNCHANGED <<svars, mvars, lead, events, hard, merge_needed, merger, sig>>

\* The three checks of the loop, in order, under the lock: capacity, a
\* merger to wait for, the deadline.
CheckBudget(w) ==
    /\ wpc[w] = "check"
    /\ \/ /\ events < hard
          /\ Leave(w, "go")
       \/ /\ events >= hard
          /\ wpc' = [wpc EXCEPT ![w] = "over"]
          /\ UNCHANGED <<expired, gate_lock, svars, mvars, lead, events, hard,
                         merge_needed, merger, sig>>

CheckMerger(w) ==
    /\ wpc[w] = "over"
    /\ \/ /\ ~merger
          /\ Leave(w, "idle")
       \/ /\ merger
          /\ wpc' = [wpc EXCEPT ![w] = "late"]
          /\ UNCHANGED <<expired, gate_lock, svars, mvars, lead, events, hard,
                         merge_needed, merger, sig>>

\* Mutant: every wait gets the whole timeout anew.
CheckDeadlineRestarts(w) ==
    /\ wpc[w] = "late"
    /\ Leave(w, "asleep")

CheckDeadline(w) ==
    /\ wpc[w] = "late"
    /\ Leave(w, IF expired[w] THEN "idle" ELSE "asleep")

\* The clock passes the writer's deadline; wait_timeout wakes it.
Expire(w) ==
    /\ wpc[w] \in {"gate", "check", "over", "late", "asleep"}
    /\ ~expired[w]
    /\ expired' = [expired EXCEPT ![w] = TRUE]
    /\ wpc' = [wpc EXCEPT ![w] = IF @ = "asleep" THEN "gate" ELSE @]
    /\ UNCHANGED <<gate_lock, svars, mvars, lead, events, hard, merge_needed, merger, sig>>

TakeLead(w) ==
    /\ wpc[w] = "go"
    /\ lead = Nobody
    /\ lead' = w
    /\ wpc' = [wpc EXCEPT ![w] = "commit"]
    /\ UNCHANGED <<expired, gate_lock, svars, mvars, events, hard, merge_needed, merger, sig>>

\* run_group: without a merger the budget is enforced here, with one a
\* transaction past the gate always goes through.
Commit(w) ==
    /\ wpc[w] = "commit"
    /\ \/ /\ events >= hard /\ ~merger
          /\ wpc' = [wpc EXCEPT ![w] = "idle"]
          /\ lead' = Nobody
          /\ UNCHANGED <<events, suffix>>
       \/ /\ events < hard \/ merger
          /\ \E n \in 0..MaxTx :
                /\ events' = events + n
                /\ suffix' = IF merging = Nobody THEN suffix ELSE suffix + n
                /\ wpc' = [wpc EXCEPT ![w] = IF n > 0 THEN "recorded" ELSE "idle"]
                /\ lead' = IF n > 0 THEN lead ELSE Nobody
    /\ UNCHANGED <<expired, gate_lock, svars, merging, mpc, hard, merge_needed, merger, sig>>

\* The recorded group is compared with the soft budget and published.
Publish(w) ==
    /\ wpc[w] = "recorded"
    /\ wpc' = [wpc EXCEPT ![w] = "idle"]
    /\ lead' = Nobody
    /\ merge_needed' = (merge_needed \/ events > Soft)
    /\ UNCHANGED <<expired, gate_lock, svars, mvars, events, hard, merger, sig>>

-----------------------------------------------------------------------------
(* notify_gate, by any thread that may have lowered the pressure.          *)

\* Mutant: the signaller does not pass through the gate's lock.
SignalLockSkipped(s) ==
    /\ sig[s] = "lock"
    /\ sig' = [sig EXCEPT ![s] = "wake"]
    /\ UNCHANGED <<wvars, svars, mvars, lead, events, hard, merge_needed, merger>>

SignalLock(s) ==
    /\ sig[s] = "lock"
    /\ gate_lock = Nobody
    /\ sig' = [sig EXCEPT ![s] = "wake"]
    /\ UNCHANGED <<wvars, svars, mvars, lead, events, hard, merge_needed, merger>>

SignalWake(s) ==
    /\ sig[s] = "wake"
    /\ sig' = [sig EXCEPT ![s] = "none"]
    /\ wpc' = [w \in Writers |-> IF wpc[w] = "asleep" THEN "gate" ELSE wpc[w]]
    /\ UNCHANGED <<expired, gate_lock, svars, mvars, lead, events, hard, merge_needed, merger>>

\* Store::gc reclaims some of the events recorded before the freeze.
GcReclaim ==
    /\ Gc \in Actors
    /\ sig[Gc] = "none"
    /\ \E n \in 1..events :
          /\ merging # Nobody => n <= events - suffix
          /\ events' = events - n
    /\ sig' = [sig EXCEPT ![Gc] = "lock"]
    /\ UNCHANGED <<wvars, svars, mvars, lead, hard, merge_needed, merger>>

SetBudget ==
    /\ Admin \in Actors
    /\ sig[Admin] = "none"
    /\ hard' \in HardLimits
    /\ sig' = [sig EXCEPT ![Admin] = "lock"]
    /\ UNCHANGED <<wvars, svars, mvars, lead, events, merge_needed, merger>>

-----------------------------------------------------------------------------
(* merge_with, by the scheduler or by another caller.                      *)

\* Only the scheduler looks at what its merge returned.
Returns(m, result) == IF m = Sched THEN result ELSE "none"

\* merge_lock.try_lock: one merge at a time, a second one fails.
MergeBegin(m) ==
    /\ mpc[m] = "want"
    /\ \/ /\ merging = Nobody
          /\ merging' = m
          /\ suffix' = 0
          /\ mpc' = [mpc EXCEPT ![m] = "build"]
       \/ /\ merging # Nobody
          /\ mpc' = [mpc EXCEPT ![m] = Returns(m, "failed")]
          /\ UNCHANGED <<merging, suffix>>
    /\ UNCHANGED <<wvars, svars, lead, events, hard, merge_needed, merger, sig>>

\* The build, the staging or the swap fails; nothing was published, and the
\* gate is not signalled.
MergeFails(m) ==
    /\ mpc[m] \in {"build", "swap"}
    /\ merging' = Nobody
    /\ suffix' = 0
    /\ lead' = IF lead = m THEN Nobody ELSE lead
    /\ mpc' = [mpc EXCEPT ![m] = Returns(m, "failed")]
    /\ UNCHANGED <<wvars, svars, events, hard, merge_needed, merger, sig>>

SwapLead(m) ==
    /\ mpc[m] = "build"
    /\ lead = Nobody
    /\ lead' = m
    /\ mpc' = [mpc EXCEPT ![m] = "swap"]
    /\ UNCHANGED <<wvars, svars, merging, suffix, events, hard, merge_needed, merger, sig>>

\* Mutant: a finished merge clears the signal whatever its suffix holds.
SwapPublishClears(m) ==
    /\ mpc[m] = "swap"
    /\ events' = suffix
    /\ merge_needed' = FALSE
    /\ sig' = [sig EXCEPT ![m] = "lock"]
    /\ mpc' = [mpc EXCEPT ![m] = "signal"]
    /\ UNCHANGED <<wvars, svars, merging, suffix, lead, hard, merger>>

\* swap_generation publishes the new delta, which holds the suffix only.
SwapPublish(m) ==
    /\ mpc[m] = "swap"
    /\ events' = suffix
    /\ merge_needed' = (suffix > Soft)
    /\ sig' = [sig EXCEPT ![m] = "lock"]
    /\ mpc' = [mpc EXCEPT ![m] = "signal"]
    /\ UNCHANGED <<wvars, svars, merging, suffix, lead, hard, merger>>

\* notify_gate done: leadership and merge_lock are released.
MergeEnds(m) ==
    /\ mpc[m] = "signal"
    /\ sig[m] = "none"
    /\ lead' = Nobody
    /\ merging' = Nobody
    /\ suffix' = 0
    /\ mpc' = [mpc EXCEPT ![m] = Returns(m, "done")]
    /\ UNCHANGED <<wvars, svars, events, hard, merge_needed, merger, sig>>

ManualMerge ==
    /\ Manual \in Actors
    /\ mpc[Manual] = "none"
    /\ mpc' = [mpc EXCEPT ![Manual] = "want"]
    /\ UNCHANGED <<wvars, svars, merging, suffix, lead, events, hard,
                   merge_needed, merger, sig>>

-----------------------------------------------------------------------------
(* MergeScheduler: spawn, request_merge, drop, and the loop of run.        *)

Spawn ==
    /\ spc = "none"
    /\ ~merger
    /\ merger' = TRUE
    /\ spc' = "sleep"
    /\ explicit' = FALSE
    /\ kicked' = FALSE
    /\ stop' = FALSE
    /\ UNCHANGED <<wvars, mvars, lead, events, hard, merge_needed, sig>>

RequestMerge ==
    /\ spc # "none"
    /\ ~stop
    /\ kicked' = TRUE
    /\ UNCHANGED <<wvars, mvars, spc, explicit, stop, lead, events, hard, merge_needed,
                   merger, sig>>

Drop ==
    /\ spc # "none"
    /\ ~stop
    /\ stop' = TRUE
    /\ UNCHANGED <<wvars, mvars, spc, explicit, kicked, lead, events, hard, merge_needed,
                   merger, sig>>

\* Mutant: a request that came during a merge is cleared with the old one.
SchedWakeForgets ==
    /\ spc = "sleep"
    /\ explicit' = FALSE
    /\ kicked' = FALSE
    /\ spc' = IF stop THEN "detach" ELSE "decide"
    /\ UNCHANGED <<wvars, mvars, stop, lead, events, hard, merge_needed, merger, sig>>

\* The interval elapses, or a kick or a stop cuts it short.
SchedWake ==
    /\ spc = "sleep"
    /\ explicit' = (kicked /\ ~stop)
    /\ kicked' = FALSE
    /\ spc' = IF stop THEN "detach" ELSE "decide"
    /\ UNCHANGED <<wvars, mvars, stop, lead, events, hard, merge_needed, merger, sig>>

\* Mutant: the hard limit is a trigger only when the soft one is.
should_merge_soft_only == events > 0 /\ OnSoft /\ (events >= hard \/ merge_needed)

\* The triggers of should_merge that do not depend on tombstones.
should_merge == events > 0 /\ (events >= hard \/ (OnSoft /\ merge_needed))

\* Mutant: the loop does not look at stop.
SchedDecideNoStop ==
    /\ spc = "decide"
    /\ \/ /\ explicit \/ should_merge \/ (TombstoneRatio /\ events > 0)
          /\ explicit' = FALSE
          /\ spc' = "merge"
          /\ mpc' = [mpc EXCEPT ![Sched] = "want"]
       \/ /\ ~(explicit \/ should_merge)
          /\ spc' = "sleep"
          /\ UNCHANGED <<explicit, mpc>>
    /\ UNCHANGED <<wvars, merging, suffix, kicked, stop, lead, events, hard,
                   merge_needed, merger, sig>>

\* One test of the inner loop.  The share of tombstones may or may not have
\* reached the configured ratio.
SchedDecide ==
    /\ spc = "decide"
    /\ \/ /\ ~stop
          /\ explicit \/ should_merge \/ (TombstoneRatio /\ events > 0)
          /\ explicit' = FALSE
          /\ spc' = "merge"
          /\ mpc' = [mpc EXCEPT ![Sched] = "want"]
       \/ /\ stop \/ ~(explicit \/ should_merge)
          /\ spc' = "sleep"
          /\ UNCHANGED <<explicit, mpc>>
    /\ UNCHANGED <<wvars, merging, suffix, kicked, stop, lead, events, hard,
                   merge_needed, merger, sig>>

\* merge_with returned: go round again, or back to sleep after an error.
SchedMerged ==
    /\ spc = "merge"
    /\ mpc[Sched] \in {"done", "failed"}
    /\ spc' = IF mpc[Sched] = "done" THEN "decide" ELSE "sleep"
    /\ mpc' = [mpc EXCEPT ![Sched] = "none"]
    /\ UNCHANGED <<wvars, merging, suffix, explicit, kicked, stop, lead, events, hard, merge_needed,
                   merger, sig>>

Detach ==
    /\ spc = "detach"
    /\ merger' = FALSE
    /\ sig' = [sig EXCEPT ![Sched] = "lock"]
    /\ spc' = "exit"
    /\ UNCHANGED <<wvars, mvars, explicit, kicked, stop, lead, events, hard, merge_needed>>

\* The thread is joined.
Joined ==
    /\ spc = "exit"
    /\ sig[Sched] = "none"
    /\ spc' = "none"
    /\ stop' = FALSE
    /\ kicked' = FALSE
    /\ UNCHANGED <<wvars, mvars, explicit, lead, events, hard, merge_needed, merger, sig>>

-----------------------------------------------------------------------------

AtGate(w) == GateLock(w) \/ CheckBudget(w) \/ CheckMerger(w) \/ CheckDeadline(w)
Signal(s) == SignalLock(s) \/ SignalWake(s)
Merge(m) == MergeBegin(m) \/ SwapPublish(m) \/ MergeEnds(m)
Schedule == SchedWake \/ SchedDecide \/ SchedMerged \/ Detach \/ Joined

Next ==
    \/ \E w \in Writers : Call(w) \/ AtGate(w) \/ Expire(w)
                           \/ TakeLead(w) \/ Commit(w) \/ Publish(w)
    \/ \E s \in Signalers : Signal(s)
    \/ GcReclaim \/ SetBudget \/ ManualMerge
    \/ \E m \in Mergers : Merge(m) \/ MergeFails(m) \/ SwapLead(m)
    \/ Spawn \/ RequestMerge \/ Drop
    \/ Schedule

\* A thread inside a call keeps running, and gets a lock that is free again
\* and again; leadership comes to a merge that waits for it (GroupCommit),
\* and not every merge fails; the clock advances.  Nobody has to start a
\* call, a request, gc or a scheduler.
Fairness ==
    /\ \A w \in Writers : /\ SF_vars(AtGate(w) \/ Commit(w) \/ Publish(w))
                          /\ WF_vars(Expire(w))
    /\ SF_vars(Schedule \/ Merge(Sched) \/ Signal(Sched))
    /\ Manual \in Actors => SF_vars(Merge(Manual) \/ Signal(Manual))
    /\ \A m \in {Sched} \cup (Actors \cap {Manual}) :
          SF_vars(SwapLead(m)) /\ SF_vars(SwapPublish(m))
    /\ \A s \in Actors \cap {Gc, Admin} : SF_vars(Signal(s))

Spec == Init /\ [][Next]_vars

FairSpec == Spec /\ Fairness

-----------------------------------------------------------------------------
(* Properties.                                                             *)

\* "so a waiter's check-then-wait can't miss the wakeup": a writer asleep at
\* the gate still has something to wait for, or is about to be woken.
NoLostWakeup ==
    \A w \in Writers : wpc[w] = "asleep" =>
        \/ events >= hard /\ merger
        \/ \E s \in Signalers : sig[s] # "none"

\* "may overshoot": the writers past the gate can carry the delta over the
\* limit, by at most one transaction each, however often gc and merges let
\* others through meanwhile.
Past == {w \in Writers : wpc[w] \in {"go", "commit"}}
BoundedOvershoot ==
    \E h \in HardLimits :
        events + MaxTx * Cardinality(Past) <= h - 1 + MaxTx * Cardinality(Writers)

\* "sticky until the M5 merger clears it": but for a group between its record
\* and its publish, a delta over the soft budget is never without the signal,
\* although merges rewrite both and gc lowers the count meanwhile.
NeedsMergeSound ==
    events > Soft => merge_needed \/ \E w \in Writers : wpc[w] = "recorded"

\* "Waits are bounded": a gated writer returns or is let through.
GatedReturns == \A w \in Writers : wpc[w] = "gate" ~> wpc[w] \in {"idle", "go"}

\* "gated writers depend on it": at the hard limit with a merger attached,
\* the pressure is relieved or the merger leaves.
PressureRelieved == events >= hard /\ merger ~> events < hard \/ ~merger

\* Dropping the scheduler detaches it, whatever merge is in flight and
\* whoever holds the locks.
DropDetaches == stop ~> ~merger

\* An explicit request is followed by an attempt to merge, unless the
\* scheduler is dropped first.
RequestServed == kicked ~> (spc = "merge" /\ mpc[Sched] = "want") \/ stop
=============================================================================
