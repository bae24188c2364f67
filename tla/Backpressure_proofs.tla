------------------------ MODULE Backpressure_proofs -------------------------
(***************************************************************************)
(* The safety of the backpressure gate, for any writers, budgets and sizes *)
(* of a transaction.                                                       *)
(***************************************************************************)
EXTENDS Backpressure, FiniteSetTheorems, TLAPS

WriterPcs == {"idle", "gate", "check", "over", "late", "asleep", "go", "commit", "recorded"}
MergePcs == {"none", "want", "build", "swap", "signal", "done", "failed"}

\* The values the variables take, and what the suffix of a merge is part of.
TypeInv ==
    /\ wpc \in [Writers -> WriterPcs]
    /\ gate_lock \in Writers \cup {Nobody}
    /\ events \in Nat /\ hard \in HardLimits /\ suffix \in Nat
    /\ merging \in Mergers \cup {Nobody}
    /\ mpc \in [Mergers -> MergePcs]
    /\ sig \in [Signalers -> {"none", "lock", "wake"}]
    /\ suffix <= events /\ (merging = Nobody => suffix = 0)

\* A writer at one of its checks holds the gate's lock, so that whoever has
\* relieved the pressure behind its back is still waiting for the lock.
Held(w) == wpc[w] \in {"check", "over", "late"}
Coming == \E s \in Signalers : sig[s] = "lock"
GateInv ==
    /\ \A w \in Writers : Held(w) => gate_lock = w
    /\ \A w \in Writers : wpc[w] \in {"over", "late"} => events >= hard \/ Coming
    /\ \A w \in Writers : wpc[w] = "late" => merger \/ Coming
    /\ NoLostWakeup

-----------------------------------------------------------------------------

LEMMA InitTypeInv == Init => TypeInv
  BY BudgetAssumption DEF Init, TypeInv, WriterPcs, MergePcs

LEMMA NextTypeInv == ASSUME TypeInv, [Next]_vars PROVE TypeInv'
<1> USE BudgetAssumption DEF TypeInv, WriterPcs, MergePcs, Mergers, Signalers
<1>1. ASSUME NEW w \in Writers, Call(w) \/ GateLock(w) \/ CheckBudget(w) \/ CheckMerger(w) \/ CheckDeadline(w) \/ Expire(w)
      PROVE TypeInv'
  BY <1>1 DEF Call, GateLock, CheckBudget, CheckMerger, CheckDeadline, Leave, Expire, svars, mvars
<1>2. ASSUME NEW w \in Writers, TakeLead(w) \/ Commit(w) \/ Publish(w) PROVE TypeInv'
  BY <1>2 DEF TakeLead, Commit, Publish, svars, mvars
<1>3. ASSUME NEW s \in Signalers, SignalLock(s) \/ SignalWake(s) PROVE TypeInv'
  BY <1>3 DEF SignalLock, SignalWake, wvars, svars, mvars
<1>4. CASE GcReclaim \/ SetBudget \/ ManualMerge
  BY <1>4 DEF GcReclaim, SetBudget, ManualMerge, wvars, svars, mvars
<1>5. ASSUME NEW m \in Mergers, MergeBegin(m) \/ SwapPublish(m) \/ MergeEnds(m) \/ MergeFails(m) \/ SwapLead(m)
      PROVE TypeInv'
  BY <1>5 DEF MergeBegin, SwapPublish, MergeEnds, MergeFails, SwapLead, Returns, wvars, svars, mvars
<1>6. CASE Spawn \/ RequestMerge \/ Drop \/ Schedule
  BY <1>6 DEF Spawn, RequestMerge, Drop, Schedule, SchedWake, SchedDecide, SchedMerged, Detach, Joined, wvars, svars, mvars
<1>7. CASE UNCHANGED vars
  BY <1>7 DEF vars, wvars, svars, mvars
<1>8. QED
  BY <1>1, <1>2, <1>3, <1>4, <1>5, <1>6, <1>7 DEF Next, AtGate, Signal, Merge

LEMMA TypeAlways == Spec => []TypeInv
  BY InitTypeInv, NextTypeInv, PTL DEF Spec

-----------------------------------------------------------------------------
(* No wakeup is lost.                                                      *)

LEMMA GateLeave ==
    ASSUME TypeInv, GateInv, NEW w \in Writers, Held(w), NEW pc \in WriterPcs \ {"check", "over", "late"}, Leave(w, pc),
           pc = "asleep" => (events >= hard /\ merger) \/ Coming
    PROVE  GateInv'
  BY BudgetAssumption DEF TypeInv, GateInv, Held, Coming, NoLostWakeup, Leave, Signalers, svars, mvars

LEMMA GateStep == ASSUME TypeInv, TypeInv', GateInv, [Next]_vars PROVE GateInv'
<1> USE BudgetAssumption
<1>1. ASSUME NEW w \in Writers, Call(w) \/ TakeLead(w) \/ Commit(w) \/ Publish(w) PROVE GateInv'
  BY <1>1 DEF TypeInv, WriterPcs, GateInv, Held, Coming, NoLostWakeup, Call, TakeLead, Commit, Publish, Signalers, svars, mvars
<1>2. ASSUME NEW w \in Writers, GateLock(w) \/ Expire(w) PROVE GateInv'
  BY <1>2 DEF TypeInv, WriterPcs, GateInv, Held, Coming, NoLostWakeup, GateLock, Expire, Signalers, svars, mvars
<1>3. ASSUME NEW w \in Writers, CheckBudget(w) \/ CheckMerger(w) \/ CheckDeadline(w) PROVE GateInv'
  <2>1. CASE \E pc \in {"idle", "go"} : Held(w) /\ Leave(w, pc)
    BY <2>1, GateLeave DEF WriterPcs
  <2>2. CASE CheckDeadline(w)
    BY <2>2, GateLeave DEF CheckDeadline, GateInv, Held, Coming, WriterPcs
  <2>3. CASE (CheckBudget(w) \/ CheckMerger(w)) /\ wpc[w] # wpc'[w] /\ wpc'[w] \in {"over", "late"}
    BY <2>3 DEF CheckBudget, CheckMerger, Leave, TypeInv, WriterPcs, GateInv, Held, Coming, NoLostWakeup, Signalers, svars, mvars
  <2>4. QED
    BY <1>3, <2>1, <2>2, <2>3 DEF CheckBudget, CheckMerger, Held, TypeInv, WriterPcs
<1>4. ASSUME NEW s \in Signalers, SignalLock(s) PROVE GateInv'
  BY <1>4 DEF SignalLock, TypeInv, GateInv, Held, Coming, NoLostWakeup, Signalers, wvars, svars, mvars
<1>5. ASSUME NEW s \in Signalers, SignalWake(s) PROVE GateInv'
  BY <1>5 DEF SignalWake, TypeInv, WriterPcs, GateInv, Held, Coming, NoLostWakeup, Signalers, svars, mvars
<1>6. CASE GcReclaim \/ SetBudget \/ ManualMerge
  BY <1>6 DEF GcReclaim, SetBudget, ManualMerge, TypeInv, GateInv, Held, Coming, NoLostWakeup, Signalers, wvars, svars, mvars
<1>7. ASSUME NEW m \in Mergers, MergeBegin(m) \/ SwapPublish(m) \/ MergeEnds(m) \/ MergeFails(m) \/ SwapLead(m)
      PROVE GateInv'
  BY <1>7 DEF MergeBegin, SwapPublish, MergeEnds, MergeFails, SwapLead, TypeInv, GateInv, Held, Coming, NoLostWakeup,
              Mergers, Signalers, wvars, svars, mvars
<1>8. CASE Spawn \/ RequestMerge \/ Drop \/ Schedule
  BY <1>8 DEF Spawn, RequestMerge, Drop, Schedule, SchedWake, SchedDecide, SchedMerged, Detach, Joined, TypeInv,
              GateInv, Held, Coming, NoLostWakeup, Signalers, wvars, svars, mvars
<1>9. CASE UNCHANGED vars
  BY <1>9 DEF vars, GateInv, Held, Coming, NoLostWakeup, wvars, svars, mvars
<1>10. QED
  BY <1>1, <1>2, <1>3, <1>4, <1>5, <1>6, <1>7, <1>8, <1>9 DEF Next, AtGate, Signal, Merge

\* A writer asleep at the gate still waits for something, or is about to be
\* woken (wait_for_capacity, "so a waiter's check-then-wait can't miss the
\* wakeup").
THEOREM NoWakeupLost == Spec => []NoLostWakeup
<1>1. Init => GateInv
  BY DEF Init, GateInv, Held, Coming, NoLostWakeup
<1>2. TypeInv /\ TypeInv' /\ GateInv /\ [Next]_vars => GateInv'
  BY GateStep
<1>3. GateInv => NoLostWakeup
  BY DEF GateInv
<1>4. QED
  BY <1>1, <1>2, <1>3, TypeAlways, PTL DEF Spec

-----------------------------------------------------------------------------
(* The overshoot.                                                          *)

LEMMA Scaled ==
    ASSUME NEW a \in Nat, NEW b \in Nat, a <= b, NEW m \in Nat
    PROVE  m * a \in Nat /\ m * b \in Nat /\ m * a <= m * b
<1>1. PICK d \in Nat : b = a + d
  BY b - a \in Nat
<1>2. m * b = m * a + m * d /\ m * d \in Nat /\ m * a \in Nat
  BY <1>1
<1>3. QED
  BY <1>1, <1>2

LEMMA Sized == ASSUME NEW S \in SUBSET Writers
               PROVE  /\ IsFiniteSet(S) /\ Cardinality(S) \in Nat /\ Cardinality(Writers) \in Nat
                      /\ Cardinality(S) <= Cardinality(Writers)
                      /\ MaxTx * Cardinality(S) \in Nat
                      /\ MaxTx * Cardinality(S) <= MaxTx * Cardinality(Writers)
  BY BudgetAssumption, FS_Subset, FS_CardinalityType, Scaled

\* The steps that let nobody past the gate and record nothing.
LEMMA NobodyPasses ==
    ASSUME TypeInv, TypeInv', BoundedOvershoot, Past' \subseteq Past, events' <= events
    PROVE  BoundedOvershoot'
<1>1. Past \in SUBSET Writers /\ Past' \in SUBSET Writers
  BY DEF Past
<1>2. IsFiniteSet(Past) /\ Cardinality(Past) \in Nat /\ Cardinality(Past') \in Nat
      /\ Cardinality(Past') <= Cardinality(Past)
  BY <1>1, Sized, FS_Subset
<1>3. MaxTx * Cardinality(Past') <= MaxTx * Cardinality(Past)
      /\ MaxTx * Cardinality(Past') \in Nat /\ MaxTx * Cardinality(Past) \in Nat
  BY <1>2, Scaled, BudgetAssumption
<1>4. PICK h \in HardLimits : events + MaxTx * Cardinality(Past) <= h - 1 + MaxTx * Cardinality(Writers)
  BY DEF BoundedOvershoot
<1>5. h \in Nat /\ MaxTx * Cardinality(Writers) \in Nat /\ events \in Nat /\ events' \in Nat
  BY BudgetAssumption, <1>1, Sized DEF TypeInv
<1>6. events' + MaxTx * Cardinality(Past') <= h - 1 + MaxTx * Cardinality(Writers)
  BY <1>3, <1>4, <1>5
<1>7. QED
  BY <1>6 DEF BoundedOvershoot

\* Below the limit everybody may pass.
LEMMA BelowTheLimit ==
    ASSUME TypeInv, events < hard, events' = events, hard' = hard
    PROVE  BoundedOvershoot'
<1>1. Past' \in SUBSET Writers
  BY DEF Past
<1>2. /\ hard \in Nat /\ events \in Nat /\ MaxTx * Cardinality(Past') \in Nat
      /\ MaxTx * Cardinality(Writers) \in Nat
      /\ MaxTx * Cardinality(Past') <= MaxTx * Cardinality(Writers)
  BY <1>1, Sized, BudgetAssumption DEF TypeInv
<1>3. events' + MaxTx * Cardinality(Past') <= hard - 1 + MaxTx * Cardinality(Writers)
  BY <1>2
<1>4. QED
  BY <1>3, hard \in HardLimits DEF BoundedOvershoot, TypeInv

\* A writer past the gate records its transaction and is past no more.
LEMMA OnePassed ==
    ASSUME TypeInv, BoundedOvershoot, NEW w \in Writers, Commit(w)
    PROVE  BoundedOvershoot'
<1>1. /\ w \in Past /\ Past' = Past \ {w} /\ Past \in SUBSET Writers
  BY DEF Commit, Past, TypeInv
<1>2. Cardinality(Past') = Cardinality(Past) - 1 /\ Cardinality(Past) \in Nat /\ Cardinality(Past') \in Nat
  BY <1>1, Sized, FS_RemoveElement
<1>3. MaxTx * Cardinality(Past') + MaxTx = MaxTx * Cardinality(Past)
      /\ MaxTx * Cardinality(Past) \in Nat /\ MaxTx * Cardinality(Past') \in Nat
  BY <1>2, BudgetAssumption
<1>4. PICK h \in HardLimits : events + MaxTx * Cardinality(Past) <= h - 1 + MaxTx * Cardinality(Writers)
  BY DEF BoundedOvershoot
<1>5. h \in Nat /\ MaxTx * Cardinality(Writers) \in Nat /\ events \in Nat /\ events' \in Nat /\ events' <= events + MaxTx
  BY BudgetAssumption, <1>1, Sized DEF TypeInv, Commit
<1>6. events' + MaxTx * Cardinality(Past') <= h - 1 + MaxTx * Cardinality(Writers)
  BY <1>3, <1>4, <1>5, BudgetAssumption
<1>7. QED
  BY <1>6 DEF BoundedOvershoot

LEMMA OvershootStep == ASSUME TypeInv, TypeInv', BoundedOvershoot, [Next]_vars PROVE BoundedOvershoot'
<1> USE BudgetAssumption
<1>1. ASSUME NEW w \in Writers, Call(w) \/ CheckBudget(w) \/ CheckMerger(w) \/ CheckDeadline(w) PROVE BoundedOvershoot'
  <2>1. CASE events < hard
    BY <1>1, <2>1, BelowTheLimit DEF Call, CheckBudget, CheckMerger, CheckDeadline, Leave, mvars
  <2>2. CASE ~(events < hard)
    BY <1>1, <2>2, NobodyPasses DEF Past, Call, CheckBudget, CheckMerger, CheckDeadline, Leave, TypeInv, WriterPcs
  <2>3. QED
    BY <2>1, <2>2
<1>2. ASSUME NEW w \in Writers, Commit(w) PROVE BoundedOvershoot'
  BY <1>2, OnePassed
<1>3. ASSUME NEW w \in Writers, GateLock(w) \/ Expire(w) \/ TakeLead(w) \/ Publish(w) PROVE BoundedOvershoot'
  BY <1>3, NobodyPasses DEF Past, GateLock, Expire, TakeLead, Publish, TypeInv, WriterPcs, mvars
<1>4. ASSUME NEW s \in Signalers, SignalLock(s) \/ SignalWake(s) PROVE BoundedOvershoot'
  BY <1>4, NobodyPasses DEF Past, SignalLock, SignalWake, TypeInv, WriterPcs, wvars
<1>5. CASE GcReclaim \/ SetBudget \/ ManualMerge
  BY <1>5, NobodyPasses DEF Past, GcReclaim, SetBudget, ManualMerge, TypeInv, wvars
<1>6. ASSUME NEW m \in Mergers, MergeBegin(m) \/ SwapPublish(m) \/ MergeEnds(m) \/ MergeFails(m) \/ SwapLead(m)
      PROVE BoundedOvershoot'
  BY <1>6, NobodyPasses DEF Past, MergeBegin, SwapPublish, MergeEnds, MergeFails, SwapLead, TypeInv, wvars
<1>7. CASE Spawn \/ RequestMerge \/ Drop \/ Schedule \/ UNCHANGED vars
  BY <1>7, NobodyPasses DEF Past, Spawn, RequestMerge, Drop, Schedule, SchedWake, SchedDecide, SchedMerged, Detach,
                            Joined, TypeInv, wvars, vars
<1>8. QED
  BY <1>1, <1>2, <1>3, <1>4, <1>5, <1>6, <1>7 DEF Next, AtGate, Signal, Merge

\* However many writers passed the gate before the limit was reached, they
\* carry the delta over it by at most a transaction each (apply_with, "may
\* overshoot").
THEOREM OvershootBounded == Spec => []BoundedOvershoot
<1>1. Init => BoundedOvershoot
  <2> SUFFICES ASSUME Init PROVE BoundedOvershoot
    OBVIOUS
  <2>1. /\ Past \in SUBSET Writers /\ events = 0 /\ hard \in HardLimits /\ hard \in Nat \ {0}
    BY BudgetAssumption DEF Init, Past
  <2>2. events + MaxTx * Cardinality(Past) <= hard - 1 + MaxTx * Cardinality(Writers)
    BY <2>1, Sized
  <2>3. QED
    BY <2>1, <2>2 DEF BoundedOvershoot
<1>2. TypeInv /\ TypeInv' /\ BoundedOvershoot /\ [Next]_vars => BoundedOvershoot'
  BY OvershootStep
<1>3. QED
  BY <1>1, <1>2, TypeAlways, PTL DEF Spec

-----------------------------------------------------------------------------
(* The merge signal.                                                       *)

\* The signal to merge is never missing from a published delta over the soft
\* budget, whatever merges and gc did to both (needs_merge, "sticky until the
\* M5 merger clears it").
THEOREM SignalSound == Spec => []NeedsMergeSound
<1>1. Init => NeedsMergeSound
  BY BudgetAssumption DEF Init, NeedsMergeSound
<1>2. ASSUME TypeInv, TypeInv', NeedsMergeSound, [Next]_vars PROVE NeedsMergeSound'
  <2> USE <1>2, BudgetAssumption DEF NeedsMergeSound, TypeInv
  <2>1. ASSUME NEW w \in Writers, Call(w) \/ AtGate(w) \/ Expire(w) \/ TakeLead(w) PROVE NeedsMergeSound'
    BY <2>1 DEF AtGate, Call, GateLock, CheckBudget, CheckMerger, CheckDeadline, Leave, Expire, TakeLead, mvars
  <2>2. ASSUME NEW w \in Writers, Commit(w) PROVE NeedsMergeSound'
    <3>1. CASE events' = events /\ \A v \in Writers : wpc[v] = "recorded" => wpc'[v] = "recorded"
      BY <2>2, <3>1 DEF Commit
    <3>2. CASE wpc'[w] = "recorded"
      BY <3>2
    <3>3. QED
      BY <2>2, <3>1, <3>2 DEF Commit
  <2>8. ASSUME NEW w \in Writers, Publish(w) PROVE NeedsMergeSound'
    <3>1. (events > Soft => merge_needed') /\ events' = events
      BY <2>8, Zenon DEF Publish
    <3>2. QED
      BY <3>1
  <2>3. ASSUME NEW s \in Signalers, Signal(s) PROVE NeedsMergeSound'
    BY <2>3 DEF Signal, SignalLock, SignalWake, wvars
  <2>4. CASE GcReclaim \/ SetBudget \/ ManualMerge
    BY <2>4 DEF GcReclaim, SetBudget, ManualMerge, wvars
  <2>5. ASSUME NEW m \in Mergers, Merge(m) \/ MergeFails(m) \/ SwapLead(m) PROVE NeedsMergeSound'
    BY <2>5 DEF Merge, MergeBegin, SwapPublish, MergeEnds, MergeFails, SwapLead, wvars
  <2>6. CASE Spawn \/ RequestMerge \/ Drop \/ Schedule \/ UNCHANGED vars
    BY <2>6 DEF Spawn, RequestMerge, Drop, Schedule, SchedWake, SchedDecide, SchedMerged, Detach, Joined, wvars, vars
  <2>7. QED
    BY <1>2, <2>1, <2>2, <2>3, <2>4, <2>5, <2>6, <2>8 DEF Next
<1>3. QED
  BY <1>1, <1>2, TypeAlways, PTL DEF Spec
=============================================================================
