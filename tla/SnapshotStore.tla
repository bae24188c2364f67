---------------------------- MODULE SnapshotStore ----------------------------
(***************************************************************************)
(* The in-memory half of graphy-store's Store (store.rs): epoch-stamped    *)
(* snapshots over (base, delta) pairs, commit groups, epoch GC, the merge  *)
(* that folds the delta into a new base while commits keep flowing, and    *)
(* the in-memory compaction of ephemeral stores.  Files, the log and the   *)
(* leadership protocol have modules of their own.                          *)
(***************************************************************************)
EXTENDS DeltaLog, FiniteSets

CONSTANTS
    Quads,        \* the quads the transactions are made of
    Readers,      \* callers that may hold a snapshot
    NoSnap,       \* "holds no snapshot"
    MaxEpoch,     \* bound on commits
    MaxGroup,     \* bound on the transactions of one commit group
    MaxStorage    \* bound on the (base, delta) pairs ever published

ASSUME ConstantsAssumption ==
    /\ MaxEpoch \in Nat /\ MaxGroup \in Nat /\ MaxStorage \in Nat
    /\ NoSnap \notin [sid : Nat, epoch : Nat]

VARIABLES
    storage,   \* every (base, delta) pair published, oldest first
    current,   \* Store::current
    reader,    \* the snapshot each caller holds
    group,     \* the leader's locals in run_group
    merge,     \* the merger's locals in merge_with / swap_generation
    gcs,       \* the locals of a Store::gc call
    hist       \* history variable: hist[e + 1] is the dataset of epoch e

vars == <<storage, current, reader, group, merge, gcs, hist>>

Snap == [sid : Nat, epoch : Nat]

NoCarry == [q \in Quads |-> NoEvent]
EmptyDelta == [q \in Quads |-> <<>>]

IdleGroup == [phase |-> "idle", start |-> NoSnap, last |-> NoSnap,
              carry |-> NoCarry, planned |-> <<>>]
IdleMerge == [phase |-> "idle", snap |-> NoSnap, base |-> {},
              delta |-> EmptyDelta, mark |-> 0]
\* An ephemeral store (no directory) compacts and never merges.
NoMerger == [IdleMerge EXCEPT !.phase = "never"]
IdleGc == [phase |-> "idle", snap |-> NoSnap, min |-> 0]

\* The dataset a snapshot reads: base and delta zipped at its epoch.
View(s) ==
    {q \in Quads : contains_key(q \in storage[s.sid].base,
                                storage[s.sid].delta[q], s.epoch)}

\* The snapshots alive somewhere; each one pins its epoch for its lifetime.
Live ==
    ({current, group.start, group.last, merge.snap, gcs.snap}
        \cup {reader[r] : r \in Readers}) \ {NoSnap}

\* EpochPins: the epochs registered by live snapshots.
Pinned == {s.epoch : s \in Live}

\* The last epoch recorded in the delta (published or about to be).
Tip == Len(hist) - 1

Init ==
    /\ \E B \in SUBSET Quads :
          /\ storage = <<[base |-> B, delta |-> EmptyDelta]>>
          /\ hist = <<B>>
    /\ current = [sid |-> 1, epoch |-> 0]
    /\ reader = [r \in Readers |-> NoSnap]
    /\ group = IdleGroup
    /\ merge \in {IdleMerge, NoMerger}
    /\ gcs = IdleGc

-----------------------------------------------------------------------------
(* Readers.                                                                *)

\* Mutant: a reader is handed a recorded but unpublished snapshot.
AcquireUnpublished(r) ==
    /\ reader[r] = NoSnap
    /\ reader' = [reader EXCEPT ![r] = IF group.last = NoSnap THEN current ELSE group.last]
    /\ UNCHANGED <<storage, current, group, merge, gcs, hist>>

\* Store::snapshot.  Also what a transaction without effect returns.
AcquireSnapshot(r) ==
    /\ reader[r] = NoSnap
    /\ reader' = [reader EXCEPT ![r] = current]
    /\ UNCHANGED <<storage, current, group, merge, gcs, hist>>

ReleaseSnapshot(r) ==
    /\ reader[r] # NoSnap
    /\ reader' = [reader EXCEPT ![r] = NoSnap]
    /\ UNCHANGED <<storage, current, group, merge, gcs, hist>>

-----------------------------------------------------------------------------
(* Commit groups.  Leadership keeps one group, swap or compaction at a     *)
(* time; every transaction is planned against the group's start snapshot   *)
(* and the effects carried from the ones before it.                        *)

BeginGroup ==
    /\ group.phase = "idle"
    /\ merge.phase # "swapping"
    /\ group' = [IdleGroup EXCEPT !.phase = "plan", !.start = current]
    /\ UNCHANGED <<storage, current, reader, merge, gcs, hist>>

\* commit_core's `present`.
Present(carry, s, q) ==
    IF carry[q] # NoEvent THEN carry[q] = "Add" ELSE q \in View(s)

\* Mutant: transactions do not see the earlier ones of their group.
commit_core_no_carry(carry, s, dels, adds) ==
    LET tombs == dels \cap View(s)
        fresh == adds \ (View(s) \ tombs)
    IN  [tombs |-> tombs, adds |-> fresh, carry |-> carry]

\* commit_core: the effective deletes, then the effective adds.
commit_core(carry, s, dels, adds) ==
    LET tombs == {q \in dels : Present(carry, s, q)}
        mid == [q \in Quads |-> IF q \in tombs THEN "Tombstone" ELSE carry[q]]
        fresh == {q \in adds : ~Present(mid, s, q)}
    IN  [tombs |-> tombs, adds |-> fresh,
         carry |-> [q \in Quads |-> IF q \in fresh THEN "Add" ELSE mid[q]]]

\* plan_one for a transaction with an effect.
PlanTx(dels, adds) ==
    LET plan == commit_core(group.carry, group.start, dels, adds)
    IN  /\ group.phase = "plan"
        /\ Len(group.planned) < MaxGroup
        /\ group.start.epoch + Len(group.planned) < MaxEpoch
        /\ plan.tombs \cup plan.adds # {}
        /\ group' = [group EXCEPT
                !.carry = plan.carry,
                !.planned = Append(@, [tombs |-> plan.tombs, adds |-> plan.adds,
                                       want |-> [dels |-> dels, adds |-> adds]])]
        /\ UNCHANGED <<storage, current, reader, merge, gcs, hist>>

\* The group write succeeded: the plan will be recorded and published.
GroupDurable ==
    /\ group.phase = "plan"
    /\ group.planned # <<>>
    /\ group' = [group EXCEPT !.phase = "record"]
    /\ UNCHANGED <<storage, current, reader, merge, gcs, hist>>

\* The group write failed, or no transaction had an effect.
GroupDropped ==
    /\ group.phase = "plan"
    /\ group' = IdleGroup
    /\ UNCHANGED <<storage, current, reader, merge, gcs, hist>>

\* Record the next transaction at its epoch and hand its caller a snapshot,
\* which the caller keeps (some free reader) or drops.
RecordNext ==
    LET tx == Head(group.planned)
        epoch == Tip + 1
        snap == [sid |-> group.start.sid, epoch |-> epoch]
    IN  /\ group.phase = "record"
        /\ group.planned # <<>>
        /\ storage' = [storage EXCEPT ![group.start.sid].delta =
                [q \in Quads |-> record(@[q], tx, q, epoch)]]
        /\ hist' = Append(hist, (hist[Tip + 1] \ tx.want.dels) \cup tx.want.adds)
        /\ group' = [group EXCEPT !.planned = Tail(@), !.last = snap]
        /\ \/ reader' = reader
           \/ \E r \in Readers : /\ reader[r] = NoSnap
                                 /\ reader' = [reader EXCEPT ![r] = snap]
        /\ UNCHANGED <<current, merge, gcs>>

Publish ==
    /\ group.phase = "record"
    /\ group.planned = <<>>
    /\ current' = group.last
    /\ group' = IdleGroup
    /\ UNCHANGED <<storage, reader, merge, gcs, hist>>

-----------------------------------------------------------------------------
(* Epoch GC: the snapshot, the floor and the sweep are three reads of      *)
(* shared state.                                                           *)

GcSnapshot ==
    /\ gcs.phase = "idle"
    /\ gcs' = [IdleGc EXCEPT !.phase = "floor", !.snap = current]
    /\ UNCHANGED <<storage, current, reader, group, merge, hist>>

\* Mutant: the floor ignores the snapshots callers hold.
GcFloorAtCurrent ==
    /\ gcs.phase = "floor"
    /\ gcs' = [gcs EXCEPT !.phase = "sweep", !.min = current.epoch]
    /\ UNCHANGED <<storage, current, reader, group, merge, hist>>

\* EpochPins::min.
GcFloor ==
    /\ gcs.phase = "floor"
    /\ gcs' = [gcs EXCEPT !.phase = "sweep",
                          !.min = CHOOSE m \in Pinned : \A e \in Pinned : m <= e]
    /\ UNCHANGED <<storage, current, reader, group, merge, hist>>

GcSweep ==
    /\ gcs.phase = "sweep"
    /\ storage' = [storage EXCEPT ![gcs.snap.sid].delta =
            [q \in Quads |-> gc(@[q], gcs.min, q \in storage[gcs.snap.sid].base)]]
    /\ gcs' = IdleGc
    /\ UNCHANGED <<current, reader, group, merge, hist>>

-----------------------------------------------------------------------------
(* The merge: freeze, build, shadow passes, exclusive swap.                *)

MergeFreeze ==
    /\ merge.phase = "idle"
    /\ Len(storage) < MaxStorage
    /\ merge' = [IdleMerge EXCEPT !.phase = "frozen", !.snap = current]
    /\ UNCHANGED <<storage, current, reader, group, gcs, hist>>

\* The new base is the freeze snapshot's scan.
MergeBuild ==
    /\ merge.phase = "frozen"
    /\ merge' = [merge EXCEPT !.phase = "built", !.base = View(merge.snap),
                              !.mark = merge.snap.epoch]
    /\ UNCHANGED <<storage, current, reader, group, gcs, hist>>

\* Mutant: every pass starts over from the freeze epoch.
pass_from_freeze(sid, upto) ==
    [q \in Quads |->
        merge.delta[q]
            \o collect_suffix(storage[sid].delta[q], merge.snap.epoch, upto)]

\* SuffixRemap::pass over the old delta `sid`.
pass(sid, upto) ==
    [q \in Quads |->
        merge.delta[q] \o collect_suffix(storage[sid].delta[q], merge.mark, upto)]

\* One shadow pass up to the published epoch; commits keep flowing.
ShadowPass ==
    /\ merge.phase \in {"built", "shadow"}
    /\ merge.phase = "shadow" => current.epoch > merge.mark
    /\ merge' = [merge EXCEPT !.phase = "shadow", !.mark = current.epoch,
                              !.delta = pass(merge.snap.sid, current.epoch)]
    /\ UNCHANGED <<storage, current, reader, group, gcs, hist>>

\* acquire_leadership, then the tail pass of swap_generation.
SwapTail ==
    /\ merge.phase = "shadow"
    /\ group.phase = "idle"
    /\ merge' = [merge EXCEPT !.phase = "swapping", !.mark = current.epoch,
                              !.delta = pass(current.sid, current.epoch)]
    /\ UNCHANGED <<storage, current, reader, group, gcs, hist>>

\* Mutant: the new generation is published at the freeze epoch.
SwapPublishAtFreeze ==
    /\ merge.phase = "swapping"
    /\ storage' = Append(storage, [base |-> merge.base, delta |-> merge.delta])
    /\ current' = [sid |-> Len(storage) + 1, epoch |-> merge.snap.epoch]
    /\ merge' = IdleMerge
    /\ UNCHANGED <<reader, group, gcs, hist>>

SwapPublish ==
    /\ merge.phase = "swapping"
    /\ storage' = Append(storage, [base |-> merge.base, delta |-> merge.delta])
    /\ current' = [sid |-> Len(storage) + 1, epoch |-> current.epoch]
    /\ merge' = IdleMerge
    /\ UNCHANGED <<reader, group, gcs, hist>>

\* Any step of a merge may fail with an error; nothing was published.
MergeFail ==
    /\ merge.phase \notin {"idle", "never"}
    /\ merge' = IdleMerge
    /\ UNCHANGED <<storage, current, reader, group, gcs, hist>>

-----------------------------------------------------------------------------
(* Ephemeral compaction: the net delta at the tip over the same base.      *)

net_delta(s) ==
    [q \in Quads |->
        LET kind == probe(storage[s.sid].delta[q], s.epoch)
            in_base == q \in storage[s.sid].base
        IN  IF \/ kind = "Tombstone" /\ in_base
               \/ kind = "Add" /\ ~in_base
            THEN <<[epoch |-> s.epoch, kind |-> kind]>>
            ELSE <<>>]

CompactEphemeral ==
    /\ merge.phase = "never"
    /\ group.phase = "idle"
    /\ Len(storage) < MaxStorage
    /\ storage' = Append(storage, [base |-> storage[current.sid].base,
                                   delta |-> net_delta(current)])
    /\ current' = [sid |-> Len(storage) + 1, epoch |-> current.epoch]
    /\ UNCHANGED <<reader, group, merge, gcs, hist>>

-----------------------------------------------------------------------------

Next ==
    \/ \E r \in Readers : AcquireSnapshot(r) \/ ReleaseSnapshot(r)
    \/ BeginGroup
    \/ \E dels, adds \in SUBSET Quads : PlanTx(dels, adds)
    \/ GroupDurable
    \/ GroupDropped
    \/ RecordNext
    \/ Publish
    \/ GcSnapshot
    \/ GcFloor
    \/ GcSweep
    \/ MergeFreeze
    \/ MergeBuild
    \/ ShadowPass
    \/ SwapTail
    \/ SwapPublish
    \/ MergeFail
    \/ CompactEphemeral

Spec == Init /\ [][Next]_vars

-----------------------------------------------------------------------------
(* Properties.                                                             *)

\* Every variable has its type.  Stated of the running store: event lists
\* hold events, snapshots name a published pair and a recorded epoch.
TypeOK ==
    /\ \A i \in DOMAIN storage :
          /\ storage[i].base \subseteq Quads
          /\ DOMAIN storage[i].delta = Quads
          /\ \A q \in Quads : \A k \in DOMAIN storage[i].delta[q] :
                storage[i].delta[q][k] \in Event
    /\ \A s \in Live : s.sid \in DOMAIN storage /\ s.epoch \in 0 .. Tip
    /\ \A e \in DOMAIN hist : hist[e] \subseteq Quads

\* Snapshot isolation: every snapshot anybody still holds (a reader, the
\* leader, a running merge, a running GC, the store itself) reads exactly the
\* dataset committed at its epoch, whatever was committed, reclaimed, merged
\* or compacted since it was taken.
SnapshotIsolation == \A s \in Live : View(s) = hist[s.epoch + 1]

\* The dataset after the first i transactions planned, had each of them been
\* applied as asked, and after all of them.
After[i \in 0 .. Len(group.planned)] ==
    IF i = 0 THEN hist[Tip + 1]
    ELSE (After[i - 1] \ group.planned[i].want.dels) \cup group.planned[i].want.adds

PlannedData == After[Len(group.planned)]

\* Every transaction sees the effects of the ones before it in its group:
\* whatever comes next, its effective entries do what it asks for and none of
\* them restates what is there, so a transaction dropped as a no-op is one.
PlanFaithful ==
    group.phase = "plan" =>
        \A dels, adds \in SUBSET Quads :
            LET plan == commit_core(group.carry, group.start, dels, adds)
            IN  /\ (PlannedData \ plan.tombs) \cup plan.adds = (PlannedData \ dels) \cup adds
                /\ plan.tombs \subseteq PlannedData
                /\ plan.adds \cap (PlannedData \ plan.tombs) = {}

\* "Event lists are epoch-sorted (single writer, monotone)" (Delta::gc): the
\* partition point of gc and the skip/take of collect_suffix rely on it, and
\* the merge's shadow passes must preserve it in the new delta.
EventsSorted ==
    /\ \A i \in DOMAIN storage : \A q \in Quads : Sorted(storage[i].delta[q])
    /\ \A q \in Quads : Sorted(merge.delta[q])

\* The generation a merge is about to swap in reads, at every epoch from the
\* freeze to the last remapped one, what was committed there: shadow passes
\* neither lose, repeat nor reorder a commit that landed while they ran.
MergeFaithful ==
    merge.phase \in {"built", "shadow", "swapping"} =>
        /\ \A e \in merge.snap.epoch .. merge.mark :
              hist[e + 1] = {q \in Quads : contains_key(q \in merge.base, merge.delta[q], e)}
        /\ \A q \in Quads : Sorted(merge.delta[q])

\* A commit becomes current only after it is recorded, and neither the epoch
\* nor the storage behind Store::current ever goes back.
NeverRegresses ==
    [][current'.epoch >= current.epoch /\ current'.sid >= current.sid]_vars

-----------------------------------------------------------------------------
(* Refinement: GC, merging and compaction are invisible.                   *)

Atomic == INSTANCE AtomicStore WITH
    NoView <- NoSnap,
    log <- hist,
    cur <- current.epoch,
    now <- View(current),
    view <- [r \in Readers |-> IF reader[r] = NoSnap THEN NoSnap ELSE View(reader[r])]

\* The store implements the atomic store: every commit appends one dataset,
\* and no step but a reader's own changes what that reader sees.
RefinesAtomicStore == Atomic!Spec
=============================================================================
