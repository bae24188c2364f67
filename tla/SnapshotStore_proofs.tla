------------------------ MODULE SnapshotStore_proofs ------------------------
(***************************************************************************)
(* Snapshot isolation of SnapshotStore, for any number of quads, readers,  *)
(* epochs, group sizes and merges.                                         *)
(***************************************************************************)
EXTENDS SnapshotStore, DeltaLog_proofs

Storage == [base : SUBSET Quads, delta : [Quads -> Seq(Event)]]
MaybeSnap == Snap \cup {NoSnap}
Tx == [tombs : SUBSET Quads, adds : SUBSET Quads,
       want : [dels : SUBSET Quads, adds : SUBSET Quads]]

TypeInv ==
    /\ storage \in Seq(Storage)
    /\ current \in Snap
    /\ reader \in [Readers -> MaybeSnap]
    /\ group \in [phase : {"idle", "plan", "record"}, start : MaybeSnap, last : MaybeSnap,
                  carry : [Quads -> Kinds \cup {NoEvent}], planned : Seq(Tx)]
    /\ merge \in [phase : {"never", "idle", "frozen", "built", "shadow", "swapping"},
                  snap : MaybeSnap, base : SUBSET Quads,
                  delta : [Quads -> Seq(Event)], mark : Nat]
    /\ gcs \in [phase : {"idle", "floor", "sweep"}, snap : MaybeSnap, min : Nat]
    /\ hist \in Seq(SUBSET Quads)
    /\ hist # <<>>

\* Every live snapshot names a published pair and a recorded epoch.
LiveInv == \A s \in Live : s.sid \in 1 .. Len(storage) /\ s.epoch \in 0 .. Tip

\* Event lists are sorted and hold nothing newer than the last commit.
ListsInv ==
    \A i \in 1 .. Len(storage) : \A q \in Quads :
        /\ Sorted(storage[i].delta[q])
        /\ \A k \in 1 .. Len(storage[i].delta[q]) : storage[i].delta[q][k].epoch <= Tip

\* A plan's effective entries do, one transaction after the other, what the
\* transactions asked for; ds is the dataset before and after each of them.
PlanInv ==
    \E ds \in [1 .. Len(group.planned) + 1 -> SUBSET Quads] :
        /\ ds[1] = hist[Tip + 1]
        /\ \A i \in 1 .. Len(group.planned) :
              /\ ds[i + 1] = (ds[i] \ group.planned[i].tombs) \cup group.planned[i].adds
              /\ ds[i + 1] = (ds[i] \ group.planned[i].want.dels)
                                \cup group.planned[i].want.adds
        /\ group.phase = "plan" =>
              \A q \in Quads : q \in ds[Len(group.planned) + 1]
                                <=> Present(group.carry, group.start, q)

GroupInv ==
    /\ group.phase = "idle" => group = IdleGroup
    /\ group.phase # "idle" => group.start = current
    /\ group.phase \in {"idle", "plan"} => group.last = NoSnap
    /\ group.last = NoSnap => current.epoch = Tip
    /\ group.last # NoSnap => group.last = [sid |-> current.sid, epoch |-> Tip]
    /\ group.phase = "record" => group.last # NoSnap \/ group.planned # <<>>
    /\ group.phase # "idle" => PlanInv

MergeInv ==
    /\ merge.phase = "idle" => merge = IdleMerge
    /\ merge.phase = "never" => merge = NoMerger
    /\ merge.phase \notin {"idle", "never"} =>
          /\ merge.snap \in Snap
          /\ merge.snap.sid = current.sid
          /\ merge.snap.epoch <= current.epoch
    /\ merge.phase = "frozen" => merge.delta = EmptyDelta
    /\ merge.phase \in {"built", "shadow", "swapping"} =>
          /\ merge.mark \in merge.snap.epoch .. current.epoch
          /\ merge.base = hist[merge.snap.epoch + 1]
          /\ \A q \in Quads : merge.delta[q] =
                collect_suffix(storage[current.sid].delta[q], merge.snap.epoch, merge.mark)
    /\ merge.phase = "swapping" => group.phase = "idle" /\ merge.mark = current.epoch

GcInv ==
    /\ gcs.phase = "idle" => gcs = IdleGc
    /\ gcs.phase # "idle" => gcs.snap \in Snap
    /\ gcs.phase = "sweep" => \A s \in Live : gcs.min <= s.epoch

\* The inductive invariant.
IInv ==
    /\ TypeInv
    /\ LiveInv
    /\ ListsInv
    /\ SnapshotIsolation
    /\ GroupInv
    /\ MergeInv
    /\ GcInv

-----------------------------------------------------------------------------

\* The record of a store that never merges, field by field.
LEMMA NoMergerFields ==
    NoMerger = [phase |-> "never", snap |-> NoSnap, base |-> {},
                delta |-> EmptyDelta, mark |-> 0]
BY DEF NoMerger, IdleMerge

\* Every initial state, persistent or ephemeral, satisfies the inductive
\* invariant.
LEMMA InitIInv == Init => IInv
<1> SUFFICES ASSUME Init PROVE IInv
  OBVIOUS
<1> USE DEF Init
<1>1. PICK B \in SUBSET Quads : storage = <<[base |-> B, delta |-> EmptyDelta]>> /\ hist = <<B>>
  OBVIOUS
<1>2. EmptyDelta \in [Quads -> Seq(Event)] /\ NoCarry \in [Quads -> Kinds \cup {NoEvent}]
  BY DEF EmptyDelta, NoCarry
<1>3. TypeInv
  <2>1. storage \in Seq(Storage) /\ hist \in Seq(SUBSET Quads) /\ hist # <<>>
    BY <1>1, <1>2 DEF Storage
  <2>2. current \in Snap /\ reader \in [Readers -> MaybeSnap]
    BY DEF Snap, MaybeSnap
  <2>3. group \in [phase : {"idle", "plan", "record"}, start : MaybeSnap, last : MaybeSnap,
                  carry : [Quads -> Kinds \cup {NoEvent}], planned : Seq(Tx)]
    BY <1>2 DEF IdleGroup, MaybeSnap
  <2>4. merge \in [phase : {"never", "idle", "frozen", "built", "shadow", "swapping"},
                  snap : MaybeSnap, base : SUBSET Quads,
                  delta : [Quads -> Seq(Event)], mark : Nat]
    BY <1>2, NoMergerFields DEF IdleMerge, MaybeSnap
  <2>5. gcs \in [phase : {"idle", "floor", "sweep"}, snap : MaybeSnap, min : Nat]
    BY DEF IdleGc, MaybeSnap
  <2> QED BY <2>1, <2>2, <2>3, <2>4, <2>5 DEF TypeInv
<1>4. Live = {current} /\ Tip = 0 /\ Len(storage) = 1
  <2>1. current # NoSnap
    BY ConstantsAssumption
  <2>2. Live = {current}
    BY <2>1 DEF Live, IdleGroup, IdleMerge, NoMerger, IdleGc
  <2> QED BY <1>1, <2>2 DEF Tip
<1>5. LiveInv
  BY <1>4 DEF LiveInv
<1>6. storage[1].base = B /\ \A q \in Quads : storage[1].delta[q] = <<>>
  BY <1>1 DEF EmptyDelta
<1>7. ListsInv
  BY <1>4, <1>6 DEF ListsInv, Sorted
<1>8. SnapshotIsolation
  <2>1. \A q \in Quads : probe(<<>>, 0) = NoEvent
    BY DEF probe, UpTo
  <2>2. \A q \in Quads : contains_key(q \in B, <<>>, 0) <=> q \in B
    BY <2>1 DEF contains_key, NoEvent
  <2>3. View(current) = B
    BY <1>6, <2>2 DEF View
  <2> QED BY <1>1, <1>4, <2>3 DEF SnapshotIsolation
<1>9. GroupInv /\ MergeInv /\ GcInv
  BY <1>4, NoMergerFields DEF GroupInv, MergeInv, GcInv, IdleGroup, IdleMerge, IdleGc
<1> QED BY <1>3, <1>5, <1>7, <1>8, <1>9 DEF IInv

\* A step that changes neither storage nor history and creates no snapshot
\* disturbs no snapshot.
LEMMA QuietStep ==
    ASSUME IInv, UNCHANGED <<storage, hist>>, Live' \subseteq Live
    PROVE  LiveInv' /\ ListsInv' /\ SnapshotIsolation'
<1>1. Tip' = Tip /\ \A s : View(s)' = View(s)
  BY DEF Tip, View
<1>2. LiveInv'
  BY <1>1 DEF IInv, LiveInv
<1>3. ListsInv'
  BY <1>1 DEF IInv, ListsInv
<1>4. SnapshotIsolation'
  BY <1>1 DEF IInv, SnapshotIsolation
<1> QED BY <1>2, <1>3, <1>4

\* A step that leaves a plan, its carry and the delta alone keeps the plan valid.
LEMMA QuietPlan ==
    ASSUME PlanInv, UNCHANGED <<storage, hist>>,
           group'.planned = group.planned,
           group'.phase = "plan" => group.phase = "plan" /\ group'.carry = group.carry
                                      /\ group'.start = group.start
    PROVE  PlanInv'
<1>1. Tip' = Tip /\ \A s : View(s)' = View(s)
  BY DEF Tip, View
<1>2. \A q : group'.phase = "plan" =>
        (Present(group.carry, group.start, q)' <=> Present(group.carry, group.start, q))
  BY <1>1 DEF Present
<1> QED BY <1>1, <1>2 DEF PlanInv

\* What every live snapshot is, by name.
LEMMA LiveMembers ==
    ASSUME TypeInv
    PROVE  /\ Live \subseteq Snap
           /\ current \in Live
           /\ \A r \in Readers : reader[r] # NoSnap => reader[r] \in Live
           /\ group.start # NoSnap => group.start \in Live
           /\ group.last # NoSnap => group.last \in Live
           /\ merge.snap # NoSnap => merge.snap \in Live
           /\ gcs.snap # NoSnap => gcs.snap \in Live
<1>1. current # NoSnap
  BY ConstantsAssumption DEF TypeInv, Snap
<1>2. Live \subseteq Snap
  BY DEF TypeInv, Live, MaybeSnap
<1> QED BY <1>1, <1>2 DEF Live

\* Taking or releasing a snapshot keeps the inductive invariant.
LEMMA ReaderSteps ==
    ASSUME IInv, NEW r \in Readers, AcquireSnapshot(r) \/ ReleaseSnapshot(r)
    PROVE  IInv'
<1> USE DEF AcquireSnapshot, ReleaseSnapshot
<1>1. TypeInv'
  BY DEF IInv, TypeInv, MaybeSnap
<1>2. Live' \subseteq Live
  <2>1. current \in Live
    BY LiveMembers DEF IInv
  <2>2. \A t \in Readers : reader'[t] \in {NoSnap, current} \cup {reader[x] : x \in Readers}
    BY DEF IInv, TypeInv
  <2> QED BY <2>1, <2>2 DEF Live
<1>3. LiveInv' /\ ListsInv' /\ SnapshotIsolation'
  BY <1>2, QuietStep
<1>4. GroupInv'
  <2>1. PlanInv => PlanInv'
    BY QuietPlan
  <2> QED BY <2>1 DEF IInv, GroupInv, Tip
<1>5. MergeInv'
  BY DEF IInv, MergeInv
<1>6. GcInv'
  BY <1>2 DEF IInv, GcInv
<1> QED BY <1>1, <1>3, <1>4, <1>5, <1>6 DEF IInv

\* A group that starts from the published snapshot has an empty, faithful plan.
LEMMA BeginGroupStep == ASSUME IInv, BeginGroup PROVE IInv'
<1> DEFINE g == [phase |-> "plan", start |-> current, last |-> NoSnap,
                 carry |-> NoCarry, planned |-> <<>>]
<1>0. /\ group' = g
      /\ group = IdleGroup
      /\ merge.phase # "swapping"
      /\ UNCHANGED <<storage, current, reader, merge, gcs, hist>>
  BY DEF IdleGroup, BeginGroup, IInv, GroupInv
<1>1. TypeInv'
  <2>1. NoCarry \in [Quads -> Kinds \cup {NoEvent}]
    BY DEF NoCarry
  <2>2. g \in [phase : {"idle", "plan", "record"}, start : MaybeSnap, last : MaybeSnap,
                  carry : [Quads -> Kinds \cup {NoEvent}], planned : Seq(Tx)]
    BY <2>1 DEF IInv, TypeInv, MaybeSnap
  <2> QED BY <1>0, <2>2 DEF IInv, TypeInv
<1>2. Live' \subseteq Live
  <2>1. current \in Live
    BY LiveMembers DEF IInv
  <2>2. group'.start = current /\ group'.last = NoSnap
    BY <1>0
  <2> QED BY <1>0, <2>1, <2>2 DEF Live
<1>3. LiveInv' /\ ListsInv' /\ SnapshotIsolation'
  BY <1>0, <1>2, QuietStep
<1>4. GroupInv'
  <2>0. current \in Live /\ current.epoch = Tip /\ Tip' = Tip
    BY <1>0, LiveMembers DEF IInv, GroupInv, IdleGroup, Tip
  <2>1. PlanInv'
    <3> DEFINE ds == [i \in 1 .. 1 |-> hist[Tip + 1]]
    <3>1. View(current) = hist[Tip + 1] /\ View(current) \subseteq Quads
      BY <2>0 DEF IInv, SnapshotIsolation, View
    <3>2. /\ group'.carry = NoCarry /\ group'.start = current
          /\ group'.planned = <<>> /\ Len(group'.planned) = 0
      BY <1>0
    <3>3. \A q \in Quads : Present(group.carry, group.start, q)' <=> q \in View(current)
      <4>1. View(current)' = View(current)
        BY <1>0 DEF View
      <4>2. \A q \in Quads : NoCarry[q] = NoEvent
        BY DEF NoCarry
      <4>3. \A q \in Quads : Present(group.carry, group.start, q)' <=> q \in View(group.start)'
        BY <3>2, <4>2 DEF Present
      <4>4. View(group.start)' = View(current)'
        BY <1>0, <3>2 DEF View
      <4> QED BY <4>1, <4>3, <4>4
    <3>4. ds \in [1 .. 1 -> SUBSET Quads] /\ ds[1] = hist[Tip + 1] /\ hist' = hist
      BY <1>0, <3>1
    <3> HIDE DEF ds, g
    <3> QED BY <2>0, <3>1, <3>2, <3>3, <3>4 DEF PlanInv
  <2> QED BY <1>0, <2>0, <2>1 DEF GroupInv
<1>5. MergeInv'
  BY <1>0 DEF IInv, MergeInv
<1>6. GcInv'
  BY <1>0, <1>2 DEF IInv, GcInv
<1> QED BY <1>1, <1>3, <1>4, <1>5, <1>6 DEF IInv

\* Moving from planning to recording keeps the plan.
LEMMA GroupDurableStep == ASSUME IInv, GroupDurable PROVE IInv'
<1> USE DEF GroupDurable
<1>1. TypeInv'
  BY DEF IInv, TypeInv
<1>2. Live' \subseteq Live
  BY DEF IInv, TypeInv, Live
<1>3. LiveInv' /\ ListsInv' /\ SnapshotIsolation'
  BY <1>2, QuietStep
<1>4. GroupInv'
  <2>1. group'.phase = "record" /\ group'.planned = group.planned
    BY DEF IInv, TypeInv
  <2>2. PlanInv'
    BY <2>1, QuietPlan DEF IInv, GroupInv
  <2> QED BY <2>1, <2>2 DEF IInv, TypeInv, GroupInv, Tip
<1>5. MergeInv'
  BY DEF IInv, MergeInv
<1>6. GcInv'
  BY <1>2 DEF IInv, GcInv
<1> QED BY <1>1, <1>3, <1>4, <1>5, <1>6 DEF IInv

\* A dropped group leaves no trace.
LEMMA GroupDroppedStep == ASSUME IInv, GroupDropped PROVE IInv'
<1> USE DEF GroupDropped
<1>1. TypeInv'
  <2>1. NoCarry \in [Quads -> Kinds \cup {NoEvent}]
    BY DEF NoCarry
  <2> QED BY <2>1 DEF IInv, TypeInv, IdleGroup, MaybeSnap
<1>2. Live' \subseteq Live
  BY DEF IInv, TypeInv, Live, IdleGroup
<1>3. LiveInv' /\ ListsInv' /\ SnapshotIsolation'
  BY <1>2, QuietStep
<1>4. GroupInv'
  BY DEF IInv, GroupInv, Tip, IdleGroup
<1>5. MergeInv'
  BY DEF IInv, MergeInv, IdleGroup
<1>6. GcInv'
  BY <1>2 DEF IInv, GcInv
<1> QED BY <1>1, <1>3, <1>4, <1>5, <1>6 DEF IInv

\* Publishing the last recorded snapshot: it is live already.
LEMMA PublishStep == ASSUME IInv, Publish PROVE IInv'
<1> USE DEF Publish
<1>0. group.last = [sid |-> current.sid, epoch |-> Tip] /\ group.last \in Live
  BY LiveMembers DEF IInv, GroupInv
<1>1. TypeInv'
  <2>1. NoCarry \in [Quads -> Kinds \cup {NoEvent}]
    BY DEF NoCarry
  <2>2. group.last \in Snap
    BY <1>0, LiveMembers DEF IInv
  <2> QED BY <2>1, <2>2 DEF IInv, TypeInv, IdleGroup, MaybeSnap
<1>2. Live' \subseteq Live
  BY <1>0 DEF IInv, TypeInv, Live, IdleGroup
<1>3. LiveInv' /\ ListsInv' /\ SnapshotIsolation'
  BY <1>2, QuietStep
<1>4. GroupInv'
  BY <1>0 DEF IInv, GroupInv, Tip, IdleGroup
<1>5. MergeInv'
  <2>1. current'.sid = current.sid /\ current'.epoch = Tip /\ Tip \in Nat
    BY <1>0 DEF Tip, IInv, TypeInv
  <2>2. current.epoch \in 0 .. Tip
    BY LiveMembers DEF IInv, LiveInv
  <2>3. merge.phase \notin {"idle", "never"} => merge.snap.epoch \in Nat
    BY DEF IInv, MergeInv, Snap
  <2> QED BY <2>1, <2>2, <2>3 DEF IInv, MergeInv, TypeInv
<1>6. GcInv'
  BY <1>2 DEF IInv, GcInv
<1> QED BY <1>1, <1>3, <1>4, <1>5, <1>6 DEF IInv

\* Planning one more transaction extends the witness of PlanInv by the dataset
\* after it.
LEMMA PlanTxStep ==
    ASSUME IInv, NEW dels \in SUBSET Quads, NEW adds \in SUBSET Quads, PlanTx(dels, adds)
    PROVE  IInv'
<1> DEFINE c == group.carry
           st == group.start
           tombs == {q \in dels : Present(c, st, q)}
           mid == [q \in Quads |-> IF q \in tombs THEN "Tombstone" ELSE c[q]]
           fresh == {q \in adds : ~Present(mid, st, q)}
           carry == [q \in Quads |-> IF q \in fresh THEN "Add" ELSE mid[q]]
           tx == [tombs |-> tombs, adds |-> fresh, want |-> [dels |-> dels, adds |-> adds]]
           n == Len(group.planned)
<1>0. /\ group.phase = "plan"
      /\ group' = [group EXCEPT !.carry = carry, !.planned = Append(group.planned, tx)]
      /\ UNCHANGED <<storage, current, reader, merge, gcs, hist>>
  BY DEF PlanTx, commit_core
<1>a. tx \in Tx
  BY DEF Tx
<1>b. c \in [Quads -> Kinds \cup {NoEvent}] /\ group.planned \in Seq(Tx) /\ n \in Nat
  BY DEF IInv, TypeInv
<1>c. carry \in [Quads -> Kinds \cup {NoEvent}]
  BY <1>b DEF Kinds
<1>d. \A q \in Quads : Present(mid, st, q) <=> Present(c, st, q) /\ q \notin tombs
  <2> HIDE DEF tombs
  <2> QED BY DEF Present, NoEvent
<1>e. \A q \in Quads : Present(carry, st, q) <=> q \in fresh \/ Present(mid, st, q)
  <2> HIDE DEF fresh, mid
  <2> QED BY DEF Present, NoEvent
<1> HIDE DEF carry, mid, tx
<1>f. /\ group'.carry = carry /\ group'.planned = Append(group.planned, tx)
      /\ group'.phase = "plan" /\ group'.start = st /\ group'.last = group.last
  BY <1>0 DEF IInv, TypeInv
<1>1. TypeInv'
  <2>1. Append(group.planned, tx) \in Seq(Tx)
    BY <1>a, <1>b
  <2> QED BY <1>0, <1>c, <2>1 DEF IInv, TypeInv
<1>2. Live' \subseteq Live
  BY <1>0, <1>f DEF Live
<1>3. LiveInv' /\ ListsInv' /\ SnapshotIsolation'
  BY <1>0, <1>2, QuietStep
<1>4. GroupInv'
  <2>1. PICK ds \in [1 .. n + 1 -> SUBSET Quads] :
          /\ ds[1] = hist[Tip + 1]
          /\ \A i \in 1 .. n :
                /\ ds[i + 1] = (ds[i] \ group.planned[i].tombs) \cup group.planned[i].adds
                /\ ds[i + 1] = (ds[i] \ group.planned[i].want.dels)
                                  \cup group.planned[i].want.adds
          /\ \A q \in Quads : q \in ds[n + 1] <=> Present(c, st, q)
    BY <1>0 DEF IInv, GroupInv, PlanInv
  <2> DEFINE D == ds[n + 1]
             E == (D \ tombs) \cup fresh
             es == [i \in 1 .. n + 2 |-> IF i = n + 2 THEN E ELSE ds[i]]
  <2>2. D \in SUBSET Quads
    BY <1>b
  <2>3. tombs = dels \cap D /\ \A q \in Quads : q \in fresh <=> q \in adds /\ q \notin D \ tombs
    BY <1>d, <2>1, <2>2
  <2>4. E = (D \ dels) \cup adds
    BY <2>2, <2>3
  <2>5. \A q \in Quads : q \in E <=> Present(carry, st, q)
    BY <1>d, <1>e, <2>1, <2>2, <2>3
  <2>6. E \in SUBSET Quads
    BY <2>2
  <2>7. es \in [1 .. n + 2 -> SUBSET Quads]
    BY <1>b, <2>6
  <2>8. es[n + 2] = E /\ \A i \in 1 .. n + 1 : es[i] = ds[i]
    BY <1>b
  <2>9. tx.tombs = tombs /\ tx.adds = fresh /\ tx.want.dels = dels /\ tx.want.adds = adds
    BY DEF tx
  <2>10. /\ Len(group'.planned) = n + 1
         /\ group'.planned[n + 1] = tx
         /\ \A i \in 1 .. n : group'.planned[i] = group.planned[i]
    BY <1>a, <1>b, <1>f
  <2> HIDE DEF E, es, n, tombs, fresh
  <2>11. ASSUME NEW i \in 1 .. n + 1
         PROVE  /\ es[i + 1] = (es[i] \ group'.planned[i].tombs) \cup group'.planned[i].adds
                /\ es[i + 1] = (es[i] \ group'.planned[i].want.dels)
                                  \cup group'.planned[i].want.adds
    <3>1. CASE i = n + 1
      <4>1. es[i + 1] = E /\ es[i] = D
        BY <1>b, <2>8, <3>1
      <4>2. E = (D \ tombs) \cup fresh
        BY DEF E
      <4> QED BY <2>4, <2>9, <2>10, <3>1, <4>1, <4>2
    <3>2. CASE i # n + 1
      <4>1. i \in 1 .. n /\ i + 1 \in 1 .. n + 1 /\ i \in 1 .. n + 1
        BY <1>b, <3>2
      <4> QED BY <2>1, <2>8, <2>10, <4>1
    <3> QED BY <3>1, <3>2
  <2>12. \A q \in Quads : Present(group.carry, group.start, q)' <=> Present(carry, st, q)
    <3>1. View(group.start)' = View(st)
      BY <1>0, <1>f DEF View
    <3> QED BY <1>f, <3>1 DEF Present
  <2>13. Tip' = Tip /\ hist' = hist /\ 1 \in 1 .. n + 1 /\ (n + 1) + 1 = n + 2
    BY <1>0, <1>b DEF Tip
  <2>14. PlanInv'
    <3>1. es \in [1 .. Len(group'.planned) + 1 -> SUBSET Quads]
      BY <2>7, <2>10, <2>13
    <3>2. es[1] = hist'[Tip' + 1]
      BY <2>1, <2>8, <2>13
    <3>3. \A q \in Quads : q \in es[Len(group'.planned) + 1]
                            <=> Present(group.carry, group.start, q)'
      BY <2>5, <2>8, <2>10, <2>12, <2>13
    <3> QED BY <2>10, <2>11, <3>1, <3>2, <3>3 DEF PlanInv
  <2> QED BY <1>0, <1>f, <2>13, <2>14 DEF IInv, GroupInv
<1>5. MergeInv'
  BY <1>0, <1>f DEF IInv, MergeInv
<1>6. GcInv'
  BY <1>0, <1>2 DEF IInv, GcInv
<1> QED BY <1>1, <1>3, <1>4, <1>5, <1>6 DEF IInv

\* The lists of a published pair, typed.
LEMMA StorageLists ==
    ASSUME TypeInv, NEW i \in 1 .. Len(storage)
    PROVE  /\ storage[i].base \in SUBSET Quads
           /\ storage[i].delta \in [Quads -> Seq(Event)]
           /\ \A q \in Quads : storage[i].delta[q] \in Seq(Event)
<1>1. storage[i] \in Storage
  BY DEF TypeInv
<1> QED BY <1>1 DEF Storage

\* The collector's snapshot is a copy of the published one.
LEMMA GcSnapshotStep == ASSUME IInv, GcSnapshot PROVE IInv'
<1> DEFINE g == [phase |-> "floor", snap |-> current, min |-> 0]
<1>0. gcs' = g /\ UNCHANGED <<storage, current, reader, group, merge, hist>>
  BY DEF GcSnapshot, IdleGc
<1>1. TypeInv'
  BY <1>0 DEF IInv, TypeInv, MaybeSnap
<1>2. Live' \subseteq Live
  <2>1. current \in Live /\ gcs'.snap = current
    BY <1>0, LiveMembers DEF IInv
  <2> QED BY <1>0, <2>1 DEF Live
<1>3. LiveInv' /\ ListsInv' /\ SnapshotIsolation'
  BY <1>0, <1>2, QuietStep
<1>4. GroupInv'
  <2>1. PlanInv => PlanInv'
    BY <1>0, QuietPlan
  <2> QED BY <1>0, <2>1 DEF IInv, GroupInv, Tip
<1>5. MergeInv'
  BY <1>0 DEF IInv, MergeInv
<1>6. GcInv'
  BY <1>0 DEF IInv, TypeInv, GcInv
<1> QED BY <1>1, <1>3, <1>4, <1>5, <1>6 DEF IInv

\* The floor is at most every live epoch when it is read.
LEMMA GcFloorStep == ASSUME IInv, GcFloor PROVE IInv'
<1> DEFINE m == CHOOSE m \in Pinned : \A e \in Pinned : m <= e
<1>0. /\ gcs.phase = "floor"
      /\ gcs' = [gcs EXCEPT !.phase = "sweep", !.min = m]
      /\ UNCHANGED <<storage, current, reader, group, merge, hist>>
  BY DEF GcFloor
<1>a. m \in Pinned /\ (\A e \in Pinned : m <= e) /\ m \in Nat
  <2>1. Pinned \in SUBSET Nat /\ Pinned # {}
    BY LiveMembers DEF IInv, Pinned, Snap
  <2>2. \E x \in Pinned : \A e \in Pinned : x <= e
    BY <2>1, LeastNumber
  <2> QED BY <2>1, <2>2
<1> HIDE DEF m
<1>b. gcs'.phase = "sweep" /\ gcs'.min = m /\ gcs'.snap = gcs.snap
  BY <1>0 DEF IInv, TypeInv
<1>1. TypeInv'
  BY <1>0, <1>a DEF IInv, TypeInv
<1>2. Live' = Live
  BY <1>0, <1>b DEF Live
<1>3. LiveInv' /\ ListsInv' /\ SnapshotIsolation'
  BY <1>0, <1>2, QuietStep
<1>4. GroupInv'
  <2>1. PlanInv => PlanInv'
    BY <1>0, QuietPlan
  <2> QED BY <1>0, <2>1 DEF IInv, GroupInv, Tip
<1>5. MergeInv'
  BY <1>0 DEF IInv, MergeInv
<1>6. GcInv'
  BY <1>0, <1>a, <1>b, <1>2 DEF IInv, GcInv, Pinned
<1> QED BY <1>1, <1>3, <1>4, <1>5, <1>6 DEF IInv

\* The freeze snapshot is a copy of the published one.
LEMMA MergeFreezeStep == ASSUME IInv, MergeFreeze PROVE IInv'
<1> DEFINE g == [phase |-> "frozen", snap |-> current, base |-> {},
                 delta |-> EmptyDelta, mark |-> 0]
<1>0. /\ merge' = g
      /\ UNCHANGED <<storage, current, reader, group, gcs, hist>>
  BY DEF MergeFreeze, IdleMerge
<1>1. TypeInv'
  <2>1. EmptyDelta \in [Quads -> Seq(Event)]
    BY DEF EmptyDelta
  <2> QED BY <1>0, <2>1 DEF IInv, TypeInv, MaybeSnap
<1>2. Live' \subseteq Live
  <2>1. current \in Live /\ merge'.snap = current
    BY <1>0, LiveMembers DEF IInv
  <2> QED BY <1>0, <2>1 DEF Live
<1>3. LiveInv' /\ ListsInv' /\ SnapshotIsolation'
  BY <1>0, <1>2, QuietStep
<1>4. GroupInv'
  <2>1. PlanInv => PlanInv'
    BY <1>0, QuietPlan
  <2> QED BY <1>0, <2>1 DEF IInv, GroupInv, Tip
<1>5. MergeInv'
  BY <1>0 DEF IInv, TypeInv, MergeInv, Snap
<1>6. GcInv'
  BY <1>0, <1>2 DEF IInv, GcInv
<1> QED BY <1>1, <1>3, <1>4, <1>5, <1>6 DEF IInv

\* A failed merge leaves no trace.
LEMMA MergeFailStep == ASSUME IInv, MergeFail PROVE IInv'
<1>0. merge' = IdleMerge /\ UNCHANGED <<storage, current, reader, group, gcs, hist>>
  BY DEF MergeFail
<1>1. TypeInv'
  <2>1. EmptyDelta \in [Quads -> Seq(Event)]
    BY DEF EmptyDelta
  <2> QED BY <1>0, <2>1 DEF IInv, TypeInv, MaybeSnap, IdleMerge
<1>2. Live' \subseteq Live
  BY <1>0 DEF Live, IdleMerge
<1>3. LiveInv' /\ ListsInv' /\ SnapshotIsolation'
  BY <1>0, <1>2, QuietStep
<1>4. GroupInv'
  <2>1. PlanInv => PlanInv'
    BY <1>0, QuietPlan
  <2> QED BY <1>0, <2>1 DEF IInv, GroupInv, Tip
<1>5. MergeInv'
  BY <1>0 DEF MergeInv, IdleMerge
<1>6. GcInv'
  BY <1>0, <1>2 DEF IInv, GcInv
<1> QED BY <1>1, <1>3, <1>4, <1>5, <1>6 DEF IInv

\* The built base is the dataset of the freeze epoch, the new delta empty.
LEMMA MergeBuildStep == ASSUME IInv, MergeBuild PROVE IInv'
<1> DEFINE f == merge.snap.epoch
           sd == storage[current.sid].delta
<1>0. /\ merge.phase = "frozen"
      /\ merge' = [merge EXCEPT !.phase = "built", !.base = View(merge.snap), !.mark = f]
      /\ UNCHANGED <<storage, current, reader, group, gcs, hist>>
  BY DEF MergeBuild
<1>a. /\ merge.snap \in Snap /\ merge.snap.sid = current.sid /\ f \in Nat
      /\ f <= current.epoch /\ merge.delta = EmptyDelta
  BY <1>0 DEF IInv, MergeInv, Snap
<1>b. merge.snap \in Live /\ View(merge.snap) = hist[f + 1] /\ View(merge.snap) \in SUBSET Quads
  <2>1. merge.snap \in Live
    BY <1>a, LiveMembers, ConstantsAssumption DEF IInv, Snap
  <2> QED BY <2>1 DEF IInv, SnapshotIsolation, View
<1>c. /\ merge'.phase = "built" /\ merge'.snap = merge.snap /\ merge'.mark = f
      /\ merge'.base = View(merge.snap) /\ merge'.delta = EmptyDelta
  BY <1>0, <1>a DEF IInv, TypeInv
<1>1. TypeInv'
  BY <1>0, <1>a, <1>b DEF IInv, TypeInv
<1>2. Live' \subseteq Live
  BY <1>0, <1>c DEF Live
<1>3. LiveInv' /\ ListsInv' /\ SnapshotIsolation'
  BY <1>0, <1>2, QuietStep
<1>4. GroupInv'
  <2>1. PlanInv => PlanInv'
    BY <1>0, QuietPlan
  <2> QED BY <1>0, <2>1 DEF IInv, GroupInv, Tip
<1>5. MergeInv'
  <2>1. current.sid \in 1 .. Len(storage)
    BY LiveMembers DEF IInv, LiveInv
  <2>2. ASSUME NEW q \in Quads PROVE collect_suffix(sd[q], f, f) = <<>>
    <3>1. sd[q] \in Seq(Event) /\ Sorted(sd[q])
      BY <2>1, StorageLists DEF IInv, ListsInv
    <3> HIDE DEF sd
    <3>2. collect_suffix(sd[q], f, f) \in Seq(Event)
          /\ Len(collect_suffix(sd[q], f, f)) = Lead(sd[q], f) - Lead(sd[q], f)
          /\ Lead(sd[q], f) \in 0 .. Len(sd[q])
      BY <1>a, <3>1, SuffixSpec
    <3>3. Len(collect_suffix(sd[q], f, f)) = 0
      BY <3>1, <3>2, ListElements
    <3> QED BY <3>2, <3>3
  <2>3. \A q \in Quads : merge'.delta[q] = collect_suffix(sd[q], f, f)
    BY <1>c, <2>2 DEF EmptyDelta
  <2>4. f \in f .. current.epoch
    BY <1>a DEF IInv, TypeInv, Snap
  <2> QED BY <1>0, <1>a, <1>b, <1>c, <2>3, <2>4 DEF MergeInv
<1>6. GcInv'
  BY <1>0, <1>2 DEF IInv, GcInv
<1> QED BY <1>1, <1>3, <1>4, <1>5, <1>6 DEF IInv

\* One remap pass up to the published epoch extends the new delta to it.
LEMMA PassSpec ==
    ASSUME IInv, merge.phase \in {"built", "shadow", "swapping"}
    PROVE  /\ pass(current.sid, current.epoch) \in [Quads -> Seq(Event)]
           /\ \A q \in Quads :
                 pass(current.sid, current.epoch)[q] =
                    collect_suffix(storage[current.sid].delta[q], merge.snap.epoch, current.epoch)
<1> DEFINE f == merge.snap.epoch
           u == current.epoch
           sd == storage[current.sid].delta
<1>1. /\ f \in Nat /\ u \in Nat /\ merge.mark \in Nat /\ f <= merge.mark /\ merge.mark <= u
      /\ \A q \in Quads : merge.delta[q] = collect_suffix(sd[q], f, merge.mark)
  BY DEF IInv, TypeInv, MergeInv, Snap
<1>2. current.sid \in 1 .. Len(storage)
  BY LiveMembers DEF IInv, LiveInv
<1>3. \A q \in Quads : sd[q] \in Seq(Event) /\ Sorted(sd[q])
  BY <1>2, StorageLists DEF IInv, ListsInv
<1>4. \A q \in Quads : pass(current.sid, u)[q] = merge.delta[q] \o collect_suffix(sd[q], merge.mark, u)
  BY DEF pass
<1>5. pass(current.sid, u) = [q \in Quads |-> pass(current.sid, u)[q]]
  BY DEF pass
<1> HIDE DEF sd, f, u
<1>6. ASSUME NEW q \in Quads
      PROVE  pass(current.sid, u)[q] = collect_suffix(sd[q], f, u)
             /\ collect_suffix(sd[q], f, u) \in Seq(Event)
  <2>1. collect_suffix(sd[q], f, merge.mark) \o collect_suffix(sd[q], merge.mark, u)
          = collect_suffix(sd[q], f, u)
    BY <1>1, <1>3, SuffixesConcatenate
  <2>2. f <= u
    BY <1>1
  <2>3. collect_suffix(sd[q], f, u) \in Seq(Event)
    BY <1>1, <1>3, <2>2, SuffixSpec
  <2> QED BY <1>1, <1>4, <2>1, <2>3
<1> QED BY <1>5, <1>6 DEF sd, f, u

\* A remap pass, shadow or tail, brings the new delta up to the published epoch.
LEMMA PassStep ==
    ASSUME IInv, ShadowPass \/ SwapTail PROVE IInv'
<1> DEFINE d == pass(current.sid, current.epoch)
<1>0. /\ merge.phase \in {"built", "shadow"}
      /\ UNCHANGED <<storage, current, reader, group, gcs, hist>>
      /\ \E ph \in {"shadow", "swapping"} :
            /\ ph = "swapping" => group.phase = "idle"
            /\ merge' = [merge EXCEPT !.phase = ph, !.mark = current.epoch, !.delta = d]
  BY DEF ShadowPass, SwapTail, IInv, MergeInv
<1>a. PICK ph \in {"shadow", "swapping"} :
            /\ ph = "swapping" => group.phase = "idle"
            /\ merge' = [merge EXCEPT !.phase = ph, !.mark = current.epoch, !.delta = d]
  BY <1>0
<1>b. /\ d \in [Quads -> Seq(Event)]
      /\ \A q \in Quads : d[q] =
            collect_suffix(storage[current.sid].delta[q], merge.snap.epoch, current.epoch)
  BY <1>0, PassSpec
<1> HIDE DEF d
<1>c. /\ merge'.phase = ph /\ merge'.mark = current.epoch /\ merge'.delta = d
      /\ merge'.snap = merge.snap /\ merge'.base = merge.base
  BY <1>a DEF IInv, TypeInv
<1>1. TypeInv'
  BY <1>0, <1>a, <1>b DEF IInv, TypeInv, Snap
<1>2. Live' \subseteq Live
  BY <1>0, <1>c DEF Live
<1>3. LiveInv' /\ ListsInv' /\ SnapshotIsolation'
  BY <1>0, <1>2, QuietStep
<1>4. GroupInv'
  <2>1. PlanInv => PlanInv'
    BY <1>0, QuietPlan
  <2> QED BY <1>0, <2>1 DEF IInv, GroupInv, Tip
<1>5. MergeInv'
  <2>1. /\ merge.snap \in Snap /\ merge.snap.sid = current.sid
        /\ merge.snap.epoch <= current.epoch /\ merge.base = hist[merge.snap.epoch + 1]
    BY <1>0 DEF IInv, MergeInv
  <2>2. current.epoch \in merge.snap.epoch .. current.epoch
    BY <2>1 DEF IInv, TypeInv, Snap
  <2> QED BY <1>0, <1>a, <1>b, <1>c, <2>1, <2>2 DEF MergeInv
<1>6. GcInv'
  BY <1>0, <1>2 DEF IInv, GcInv
<1> QED BY <1>1, <1>3, <1>4, <1>5, <1>6 DEF IInv

\* Publishing a new pair that reads, at the current epoch, what the current
\* pair reads: the common part of the swap and the compaction.
LEMMA NewPair ==
    ASSUME IInv, NEW B \in SUBSET Quads, NEW D \in [Quads -> Seq(Event)],
           \A q \in Quads :
              /\ Sorted(D[q])
              /\ \A k \in 1 .. Len(D[q]) : D[q][k].epoch <= Tip
              /\ contains_key(q \in B, D[q], current.epoch) <=> q \in hist[current.epoch + 1],
           group.phase = "idle",
           storage' = Append(storage, [base |-> B, delta |-> D]),
           current' = [sid |-> Len(storage) + 1, epoch |-> current.epoch],
           merge' \in {IdleMerge, NoMerger},
           UNCHANGED <<reader, group, gcs, hist>>
    PROVE  IInv'
<1>a. /\ Len(storage') = Len(storage) + 1 /\ Len(storage) \in Nat
      /\ \A i \in 1 .. Len(storage) : storage'[i] = storage[i]
      /\ storage'[Len(storage) + 1].base = B /\ storage'[Len(storage) + 1].delta = D
  BY DEF IInv, TypeInv
<1>b. Tip' = Tip /\ current \in Live /\ current.epoch \in 0 .. Tip /\ current.epoch \in Nat
  BY LiveMembers DEF IInv, TypeInv, LiveInv, Tip, Snap
<1>c. current'.epoch = current.epoch /\ current'.sid = Len(storage) + 1
  OBVIOUS
<1>d. Live' \subseteq Live \cup {current'}
  BY DEF Live, IdleMerge, NoMerger
<1>1. TypeInv'
  <2>1. storage' \in Seq(Storage)
    BY DEF IInv, TypeInv, Storage
  <2>2. EmptyDelta \in [Quads -> Seq(Event)]
    BY DEF EmptyDelta
  <2>3. current' \in Snap
    BY <1>a, <1>b DEF Snap
  <2> QED BY <2>1, <2>2, <2>3, NoMergerFields DEF IInv, TypeInv, MaybeSnap, IdleMerge
<1>2. LiveInv'
  BY <1>a, <1>b, <1>c, <1>d DEF IInv, LiveInv
<1>3. ListsInv'
  <2>1. \A i \in 1 .. Len(storage') : i \in 1 .. Len(storage) \/ i = Len(storage) + 1
    BY <1>a
  <2> QED BY <1>a, <1>b, <2>1 DEF IInv, ListsInv
<1>4. SnapshotIsolation'
  <2>1. ASSUME NEW s \in Live PROVE View(s)' = hist'[s.epoch + 1]
    <3>1. s.sid \in 1 .. Len(storage) /\ View(s) = hist[s.epoch + 1]
      BY DEF IInv, LiveInv, SnapshotIsolation
    <3>2. View(s)' = View(s)
      BY <1>a, <3>1 DEF View
    <3> QED BY <3>1, <3>2
  <2>2. View(current)' = hist[current.epoch + 1]
    <3>1. hist[current.epoch + 1] \in SUBSET Quads
      BY <1>b DEF IInv, TypeInv, Tip
    <3>2. View(current)' = {q \in Quads : contains_key(q \in B, D[q], current.epoch)}
      BY <1>a, <1>c DEF View
    <3> QED BY <3>1, <3>2
  <2> QED BY <1>c, <1>d, <2>1, <2>2 DEF SnapshotIsolation
<1>5. GroupInv'
  BY <1>b, <1>c DEF IInv, GroupInv, IdleGroup
<1>6. MergeInv'
  BY NoMergerFields DEF MergeInv, IdleMerge
<1>7. GcInv'
  BY <1>b, <1>c, <1>d DEF IInv, GcInv
<1> QED BY <1>1, <1>2, <1>3, <1>4, <1>5, <1>6, <1>7 DEF IInv

\* The swapped-in pair reads like the old one at the published epoch: the
\* FoldFaithful argument applied to every quad.
LEMMA SwapPublishStep == ASSUME IInv, SwapPublish PROVE IInv'
<1> DEFINE f == merge.snap.epoch
           u == current.epoch
           sb == storage[current.sid].base
           sd == storage[current.sid].delta
<1>1. /\ merge.snap \in Snap /\ merge.snap.sid = current.sid /\ f \in Nat /\ u \in Nat /\ f <= u
      /\ merge.base = hist[f + 1] /\ group.phase = "idle"
      /\ \A q \in Quads : merge.delta[q] = collect_suffix(sd[q], f, u)
  BY DEF SwapPublish, IInv, TypeInv, MergeInv, Snap
<1>2. current.sid \in 1 .. Len(storage) /\ u \in 0 .. Tip /\ Tip \in Nat
  BY LiveMembers DEF IInv, LiveInv, TypeInv, Tip
<1>3. \A q \in Quads : sd[q] \in Seq(Event) /\ Sorted(sd[q])
  BY <1>2, StorageLists DEF IInv, ListsInv
<1>4. View(merge.snap) = hist[f + 1] /\ View(current) = hist[u + 1]
  <2>1. merge.snap \in Live /\ current \in Live
    BY <1>1, LiveMembers, ConstantsAssumption DEF IInv, Snap
  <2> QED BY <2>1 DEF IInv, SnapshotIsolation
<1>5. \A q \in Quads :
         /\ q \in hist[f + 1] <=> contains_key(q \in sb, sd[q], f)
         /\ q \in hist[u + 1] <=> contains_key(q \in sb, sd[q], u)
  BY <1>1, <1>4 DEF View
<1> HIDE DEF f, u, sb, sd
<1>6. ASSUME NEW q \in Quads
      PROVE  /\ Sorted(merge.delta[q])
             /\ \A k \in 1 .. Len(merge.delta[q]) : merge.delta[q][k].epoch <= Tip
             /\ contains_key(q \in merge.base, merge.delta[q], u) <=> q \in hist[u + 1]
  <2> DEFINE md == collect_suffix(sd[q], f, u)
             b == q \in sb
             w == contains_key(b, sd[q], f)
  <2>1. /\ md \in Seq(Event) /\ Sorted(md)
        /\ \A k \in 1 .. Len(md) : md[k].epoch <= u
    BY <1>1, <1>3, SuffixSpec
  <2>2. contains_key(w, md, u) <=> contains_key(b, sd[q], u)
    <3>1. b \in BOOLEAN
      OBVIOUS
    <3>2. u <= u
      BY <1>1
    <3> HIDE DEF b
    <3> QED BY <1>1, <1>3, <3>1, <3>2, FoldFaithful
  <2>3. md = merge.delta[q]
    BY <1>1
  <2> HIDE DEF md
  <2>4. \A k \in 1 .. Len(md) : md[k].epoch <= Tip
    BY <1>2, <2>1, ListElements
  <2>5. (q \in merge.base) <=> w
    BY <1>1, <1>5
  <2>6. contains_key(b, sd[q], u) <=> q \in hist[u + 1]
    BY <1>5
  <2> HIDE DEF w, b
  <2>7. contains_key(q \in merge.base, md, u) <=> contains_key(w, md, u)
    BY <2>5 DEF contains_key
  <2>8. contains_key(q \in merge.base, md, u) <=> q \in hist[u + 1]
    BY <2>2, <2>6, <2>7
  <2> QED BY <2>1, <2>3, <2>4, <2>8
<1>7. merge.base \in SUBSET Quads /\ merge.delta \in [Quads -> Seq(Event)]
  BY DEF IInv, TypeInv
<1>8. /\ storage' = Append(storage, [base |-> merge.base, delta |-> merge.delta])
      /\ current' = [sid |-> Len(storage) + 1, epoch |-> current.epoch]
      /\ merge' = IdleMerge
      /\ UNCHANGED <<reader, group, gcs, hist>>
  BY DEF SwapPublish
<1> QED BY <1>1, <1>6, <1>7, <1>8, NewPair DEF u

\* The net delta reads like the full one at the published epoch.
LEMMA CompactStep == ASSUME IInv, CompactEphemeral PROVE IInv'
<1> DEFINE u == current.epoch
           sb == storage[current.sid].base
           sd == storage[current.sid].delta
           nd == net_delta(current)
<1>1. current.sid \in 1 .. Len(storage) /\ u \in 0 .. Tip /\ u \in Nat /\ Tip \in Nat
  BY LiveMembers DEF IInv, LiveInv, TypeInv, Tip, Snap
<1>2. sb \in SUBSET Quads /\ \A q \in Quads : sd[q] \in Seq(Event) /\ Sorted(sd[q])
  BY <1>1, StorageLists DEF IInv, ListsInv
<1>3. View(current) = hist[u + 1]
  BY LiveMembers DEF IInv, SnapshotIsolation
<1>4. \A q \in Quads : q \in hist[u + 1] <=> contains_key(q \in sb, sd[q], u)
  BY <1>3 DEF View
<1>5. nd = [q \in Quads |->
              IF \/ probe(sd[q], u) = "Tombstone" /\ q \in sb
                 \/ probe(sd[q], u) = "Add" /\ q \notin sb
              THEN <<[epoch |-> u, kind |-> probe(sd[q], u)]>> ELSE <<>>]
  BY DEF net_delta
<1> HIDE DEF u, sb, sd, nd
<1>6. ASSUME NEW q \in Quads
      PROVE  /\ nd[q] \in Seq(Event)
             /\ Sorted(nd[q])
             /\ \A k \in 1 .. Len(nd[q]) : nd[q][k].epoch <= Tip
             /\ contains_key(q \in sb, nd[q], u) <=> q \in hist[u + 1]
  <2> DEFINE p == probe(sd[q], u)
             one == Append(<<>>, [epoch |-> u, kind |-> p])
  <2>1. p \in {"Add", "Tombstone", NoEvent}
    <3>1. Lead(sd[q], u) \in 0 .. Len(sd[q])
      BY <1>1, <1>2, LeadSpec
    <3>2. p = IF Lead(sd[q], u) = 0 THEN NoEvent ELSE sd[q][Lead(sd[q], u)].kind
      BY <1>1, <1>2, ProbeAtLead
    <3> QED BY <1>2, <3>1, <3>2, ListElements DEF Kinds
  <2>2. <<>> \in Seq(Event) /\ Sorted(<<>>) /\ probe(<<>>, u) = NoEvent
    BY DEF Sorted, probe, UpTo
  <2> HIDE DEF p
  <2>3. CASE (p = "Tombstone" /\ q \in sb) \/ (p = "Add" /\ q \notin sb)
    <3>1. nd[q] = one
      BY <1>5, <2>3 DEF p
    <3>2. p \in Kinds
      BY <2>3 DEF Kinds
    <3>3. \A i \in 1 .. Len(<<>>) : <<>>[i].epoch <= u
      OBVIOUS
    <3>4. /\ one \in Seq(Event) /\ Sorted(one) /\ \A k \in 1 .. Len(one) : one[k].epoch <= u
          /\ probe(one, u) = p
      <4> DEFINE nil == <<>>
      <4>1. nil \in Seq(Event) /\ Sorted(nil) /\ \A i \in 1 .. Len(nil) : nil[i].epoch <= u
        BY <2>2
      <4>2. one = Append(nil, [epoch |-> u, kind |-> p])
        OBVIOUS
      <4> HIDE DEF nil, one
      <4>3. /\ one \in Seq(Event) /\ Sorted(one)
            /\ \A k \in 1 .. Len(one) : one[k].epoch <= u
            /\ \A e \in Nat : e >= u => probe(one, e) = p
        BY <1>1, <3>2, <4>1, <4>2, AppendEvent
      <4> QED BY <1>1, <4>3
    <3> HIDE DEF one
    <3>5. \A k \in 1 .. Len(one) : one[k].epoch <= Tip
      BY <1>1, <3>4, ListElements
    <3>6. contains_key(q \in sb, one, u) <=> contains_key(q \in sb, sd[q], u)
      BY <3>4 DEF contains_key, p
    <3> QED BY <1>4, <3>1, <3>4, <3>5, <3>6
  <2>4. CASE ~((p = "Tombstone" /\ q \in sb) \/ (p = "Add" /\ q \notin sb))
    <3>1. nd[q] = <<>>
      BY <1>5, <2>4 DEF p
    <3>2. contains_key(q \in sb, <<>>, u) <=> contains_key(q \in sb, sd[q], u)
      BY <2>1, <2>2, <2>4 DEF contains_key, p, NoEvent
    <3> QED BY <1>4, <2>2, <3>1, <3>2
  <2> QED BY <2>3, <2>4
<1>7. nd \in [Quads -> Seq(Event)]
  BY <1>5, <1>6
<1>8. /\ storage' = Append(storage, [base |-> sb, delta |-> nd])
      /\ current' = [sid |-> Len(storage) + 1, epoch |-> current.epoch]
      /\ group.phase = "idle"
      /\ merge' = NoMerger
      /\ UNCHANGED <<reader, group, gcs, hist>>
  BY DEF CompactEphemeral, sb, nd, IInv, MergeInv
<1> QED BY <1>2, <1>6, <1>7, <1>8, NewPair DEF u

\* A sweep is invisible to every live snapshot, all of them at or above its
\* floor, and to the suffix a running merge still has to copy.
LEMMA GcSweepStep == ASSUME IInv, GcSweep PROVE IInv'
<1> DEFINE sid == gcs.snap.sid
           min == gcs.min
           sb == storage[sid].base
           sd == storage[sid].delta
           nd == [q \in Quads |-> gc(sd[q], min, q \in sb)]
<1>0. /\ gcs.phase = "sweep"
      /\ storage' = [storage EXCEPT ![sid].delta = nd]
      /\ gcs' = IdleGc
      /\ UNCHANGED <<current, reader, group, merge, hist>>
  BY DEF GcSweep
<1>a. /\ gcs.snap \in Snap /\ gcs.snap \in Live /\ min \in Nat /\ Tip \in Nat
      /\ \A s \in Live : min <= s.epoch /\ s.epoch \in Nat
  <2>1. gcs.snap \in Snap
    BY <1>0 DEF IInv, GcInv
  <2>2. gcs.snap \in Live
    BY <2>1, LiveMembers, ConstantsAssumption DEF IInv, Snap
  <2> QED BY <1>0, <2>1, <2>2, LiveMembers DEF IInv, TypeInv, GcInv, Snap, Tip
<1>b. sid \in 1 .. Len(storage) /\ Len(storage) \in Nat
  BY <1>a DEF IInv, LiveInv, TypeInv
<1>c. \A q \in Quads : /\ sd[q] \in Seq(Event)
                        /\ Sorted(sd[q])
                        /\ \A k \in 1 .. Len(sd[q]) : sd[q][k].epoch <= Tip
  BY <1>b, StorageLists DEF IInv, ListsInv
<1>d. /\ Len(storage') = Len(storage)
      /\ \A i \in 1 .. Len(storage) : i # sid => storage'[i] = storage[i]
      /\ storage'[sid].base = sb /\ storage'[sid].delta = nd
  <2>1. storage[sid] \in Storage /\ storage \in Seq(Storage)
    BY <1>b DEF IInv, TypeInv
  <2> HIDE DEF nd, sid
  <2> QED BY <1>0, <1>b, <2>1 DEF Storage, sid
<1> HIDE DEF sid, min, sb, sd
<1>e. ASSUME NEW q \in Quads
      PROVE  /\ nd[q] \in Seq(Event)
             /\ Sorted(nd[q])
             /\ \A k \in 1 .. Len(nd[q]) : nd[q][k].epoch <= Tip
             /\ \A e \in Nat : e >= min =>
                   (contains_key(q \in sb, nd[q], e) <=> contains_key(q \in sb, sd[q], e))
             /\ \A a, u \in Nat : min <= a /\ a <= u =>
                   collect_suffix(nd[q], a, u) = collect_suffix(sd[q], a, u)
  <2> DEFINE b == q \in sb
             new == gc(sd[q], min, b)
  <2>1. b \in BOOLEAN /\ nd[q] = new
    OBVIOUS
  <2> HIDE DEF b, nd
  <2>2. /\ new \in Seq(Event) /\ Sorted(new)
        /\ \A e \in Nat : e >= min => (contains_key(b, new, e) <=> contains_key(b, sd[q], e))
    BY <1>a, <1>c, <2>1, GcInvisible DEF min
  <2>3. \A a, u \in Nat : min <= a /\ a <= u =>
          collect_suffix(new, a, u) = collect_suffix(sd[q], a, u)
    BY <1>a, <1>c, <2>1, GcKeepsSuffix DEF min
  <2>4. \A k \in 1 .. Len(new) : new[k].epoch <= Tip
    BY <1>a, <1>c, <2>1, GcBounded DEF min
  <2> HIDE DEF new
  <2> QED BY <2>1, <2>2, <2>3, <2>4 DEF b
<1> HIDE DEF nd
<1>f. nd \in [Quads -> Seq(Event)]
  BY <1>e DEF nd
<1>1. TypeInv'
  <2>1. storage' \in Seq(Storage)
    <3>1. storage \in Seq(Storage) /\ storage[sid] \in Storage
      BY <1>b DEF IInv, TypeInv
    <3>2. [storage[sid] EXCEPT !.delta = nd] \in Storage
      BY <1>f, <3>1 DEF Storage
    <3>3. storage' = [storage EXCEPT ![sid] = [storage[sid] EXCEPT !.delta = nd]]
      BY <1>0, <1>b, <3>1 DEF sid, nd, sd, sb, min
    <3> QED BY <1>b, <3>1, <3>2, <3>3
  <2> QED BY <1>0, <2>1 DEF IInv, TypeInv, IdleGc, MaybeSnap
<1>2. Live' \subseteq Live /\ Tip' = Tip
  BY <1>0 DEF Live, IdleGc, Tip
<1>3. LiveInv'
  BY <1>2, <1>d DEF IInv, LiveInv
<1>4. ListsInv'
  <2>1. ASSUME NEW i \in 1 .. Len(storage'), NEW q \in Quads
        PROVE  /\ Sorted(storage'[i].delta[q])
               /\ \A k \in 1 .. Len(storage'[i].delta[q]) : storage'[i].delta[q][k].epoch <= Tip'
    <3>1. CASE i = sid
      BY <1>2, <1>d, <1>e, <3>1
    <3>2. CASE i # sid
      BY <1>2, <1>d, <3>2 DEF IInv, ListsInv
    <3> QED BY <3>1, <3>2
  <2> QED BY <2>1 DEF ListsInv
<1>5. \A s \in Live : View(s)' = View(s)
  <2>1. ASSUME NEW s \in Live PROVE View(s)' = View(s)
    <3>1. s.sid \in 1 .. Len(storage) /\ s.epoch \in Nat /\ s.epoch >= min
      BY <1>a DEF IInv, LiveInv, min
    <3>2. CASE s.sid # sid
      BY <1>d, <3>1, <3>2 DEF View
    <3>3. CASE s.sid = sid
      <4>1. View(s)' = {q \in Quads : contains_key(q \in sb, nd[q], s.epoch)}
        BY <1>d, <3>3 DEF View
      <4>2. View(s) = {q \in Quads : contains_key(q \in sb, sd[q], s.epoch)}
        BY <3>3 DEF View, sb, sd
      <4> QED BY <1>e, <3>1, <4>1, <4>2
    <3> QED BY <3>2, <3>3
  <2> QED BY <2>1
<1>6. SnapshotIsolation'
  BY <1>0, <1>2, <1>5 DEF IInv, SnapshotIsolation
<1>7. GroupInv'
  <2>1. group.phase # "idle" => PlanInv'
    <3>1. SUFFICES ASSUME group.phase # "idle" PROVE PlanInv'
      OBVIOUS
    <3>2. group.start = current /\ current \in Live
      BY <3>1, LiveMembers DEF IInv, GroupInv
    <3>3. View(group.start)' = View(group.start)
      <4>1. \A s : s = current => View(s)' = View(s)
        BY <1>5, <3>2
      <4> QED BY <1>0, <3>2, <4>1 DEF View
    <3>4. \A q : Present(group.carry, group.start, q)' <=> Present(group.carry, group.start, q)
      BY <1>0, <3>3 DEF Present
    <3>5. PlanInv
      BY <3>1 DEF IInv, GroupInv
    <3>6. group' = group /\ hist' = hist /\ Tip' = Tip
      BY <1>0, <1>2
    <3> QED BY <3>4, <3>5, <3>6 DEF PlanInv
  <2> QED BY <1>0, <1>2, <2>1 DEF IInv, GroupInv
<1>8. MergeInv'
  <2>1. SUFFICES ASSUME merge.phase \in {"built", "shadow", "swapping"}, NEW q \in Quads
                 PROVE  collect_suffix(storage'[current.sid].delta[q], merge.snap.epoch, merge.mark)
                          = collect_suffix(storage[current.sid].delta[q], merge.snap.epoch, merge.mark)
    BY <1>0 DEF IInv, MergeInv
  <2>2. merge.snap \in Snap /\ merge.snap \in Live /\ current \in Live
    BY <2>1, LiveMembers, ConstantsAssumption DEF IInv, MergeInv, Snap
  <2>3. /\ merge.snap.epoch \in Nat /\ merge.mark \in Nat
        /\ merge.snap.epoch <= merge.mark /\ min <= merge.snap.epoch
    BY <1>a, <2>1, <2>2 DEF IInv, TypeInv, MergeInv, Snap, min
  <2>4. CASE current.sid = sid
    BY <1>d, <1>e, <2>3, <2>4 DEF sd
  <2>5. CASE current.sid # sid
    <3>1. current.sid \in 1 .. Len(storage)
      BY <2>2 DEF IInv, LiveInv
    <3> QED BY <1>d, <2>5, <3>1
  <2> QED BY <2>4, <2>5
<1>9. GcInv'
  BY <1>0 DEF GcInv, IdleGc
<1> QED BY <1>1, <1>3, <1>4, <1>6, <1>7, <1>8, <1>9 DEF IInv

\* Recording the next transaction of the group: earlier epochs keep their reads,
\* the new epoch reads the next dataset of the plan.
LEMMA RecordNextStep == ASSUME IInv, RecordNext PROVE IInv'
<1> DEFINE tx == Head(group.planned)
           n == Tip + 1
           sid == group.start.sid
           snap == [sid |-> sid, epoch |-> n]
           sb == storage[sid].base
           sd == storage[sid].delta
           nd == [q \in Quads |-> record(sd[q], tx, q, n)]
           D == hist[n]
           N == (D \ tx.want.dels) \cup tx.want.adds
<1>0. /\ group.phase = "record" /\ group.planned # <<>>
      /\ storage' = [storage EXCEPT ![sid].delta = nd]
      /\ hist' = Append(hist, N)
      /\ group' = [group EXCEPT !.planned = Tail(group.planned), !.last = snap]
      /\ \/ reader' = reader
         \/ \E r \in Readers : reader' = [reader EXCEPT ![r] = snap]
      /\ UNCHANGED <<current, merge, gcs>>
  BY DEF RecordNext
<1>a. /\ group.planned \in Seq(Tx) /\ tx \in Tx /\ Tail(group.planned) \in Seq(Tx)
      /\ Len(group.planned) \in Nat /\ Len(group.planned) >= 1
      /\ Len(Tail(group.planned)) = Len(group.planned) - 1
      /\ tx = group.planned[1]
      /\ \A i \in 1 .. Len(group.planned) - 1 : Tail(group.planned)[i] = group.planned[i + 1]
  <2>1. group.planned \in Seq(Tx)
    BY DEF IInv, TypeInv
  <2> QED BY <1>0, <2>1
<1>b. /\ hist \in Seq(SUBSET Quads) /\ Len(hist) = n /\ n \in Nat /\ Tip \in Nat /\ Tip = n - 1
      /\ D \in SUBSET Quads /\ N \in SUBSET Quads
  <2>1. hist \in Seq(SUBSET Quads) /\ hist # <<>>
    BY DEF IInv, TypeInv
  <2>2. Len(hist) = n /\ n \in Nat /\ Tip \in Nat /\ n \in 1 .. Len(hist) /\ Tip = n - 1
    BY <2>1 DEF Tip
  <2>3. D \in SUBSET Quads
    BY <2>1, <2>2
  <2> QED BY <1>a, <2>1, <2>2, <2>3 DEF Tx
<1>c. group.start = current /\ current \in Live /\ sid = current.sid
      /\ sid \in 1 .. Len(storage) /\ Len(storage) \in Nat /\ sid \in Nat
  <2>1. group.start = current /\ current \in Live
    BY <1>0, LiveMembers DEF IInv, GroupInv
  <2> QED BY <2>1 DEF IInv, LiveInv, TypeInv
<1>d. \A q \in Quads : /\ sd[q] \in Seq(Event)
                        /\ Sorted(sd[q])
                        /\ \A k \in 1 .. Len(sd[q]) : sd[q][k].epoch <= Tip /\ sd[q][k].epoch < n
  <2>1. \A q \in Quads : /\ sd[q] \in Seq(Event)
                          /\ Sorted(sd[q])
                          /\ \A k \in 1 .. Len(sd[q]) : sd[q][k].epoch <= Tip
    BY <1>c, StorageLists DEF IInv, ListsInv
  <2> HIDE DEF sd
  <2>2. \A q \in Quads : \A k \in 1 .. Len(sd[q]) : sd[q][k].epoch \in Nat
    BY <2>1, ListElements
  <2> QED BY <1>b, <2>1, <2>2
<1>e. /\ Len(storage') = Len(storage)
      /\ \A i \in 1 .. Len(storage) : i # sid => storage'[i] = storage[i]
      /\ storage'[sid].base = sb /\ storage'[sid].delta = nd
  <2>1. storage[sid] \in Storage /\ storage \in Seq(Storage)
    BY <1>c DEF IInv, TypeInv
  <2> HIDE DEF nd, sid
  <2> QED BY <1>0, <1>c, <2>1 DEF Storage, sid
<1>f. /\ Len(hist') = n + 1 /\ Tip' = n /\ hist'[n + 1] = N
      /\ \A i \in 1 .. n : hist'[i] = hist[i]
  <2> HIDE DEF N, n
  <2>1. Len(hist') = n + 1 /\ hist'[n + 1] = N /\ \A i \in 1 .. n : hist'[i] = hist[i]
    BY <1>0, <1>b
  <2> QED BY <1>b, <2>1 DEF Tip
<1>g. /\ group'.phase = "record" /\ group'.start = group.start /\ group'.last = snap
      /\ group'.planned = Tail(group.planned) /\ group'.carry = group.carry
  BY <1>0 DEF IInv, TypeInv
<1>h. snap \in Snap /\ snap # NoSnap
  BY <1>b, <1>c, ConstantsAssumption DEF Snap
<1> HIDE DEF tx, n, sid, sb, sd, D, N
<1>i. ASSUME NEW q \in Quads
      PROVE  /\ nd[q] \in Seq(Event)
             /\ Sorted(nd[q])
             /\ \A k \in 1 .. Len(nd[q]) : nd[q][k].epoch <= n
             /\ \A e \in Nat : e < n => probe(nd[q], e) = probe(sd[q], e)
             /\ probe(nd[q], n) = IF q \in tx.adds THEN "Add"
                                  ELSE IF q \in tx.tombs THEN "Tombstone"
                                  ELSE probe(sd[q], Tip)
             /\ \A a, u \in Nat : a <= u /\ u < n =>
                   collect_suffix(nd[q], a, u) = collect_suffix(sd[q], a, u)
  <2> DEFINE new == record(sd[q], tx, q, n)
  <2>1. nd[q] = new
    OBVIOUS
  <2> HIDE DEF nd
  <2>2. /\ new \in Seq(Event) /\ Sorted(new) /\ \A i \in 1 .. Len(new) : new[i].epoch <= n
        /\ \A e \in Nat : e < n => probe(new, e) = probe(sd[q], e)
        /\ \A e \in Nat : e >= n =>
              probe(new, e) = IF q \in tx.adds THEN "Add"
                              ELSE IF q \in tx.tombs THEN "Tombstone"
                              ELSE probe(sd[q], e)
        /\ \A a, u \in Nat : a <= u /\ u < n =>
              collect_suffix(new, a, u) = collect_suffix(sd[q], a, u)
    <3>1. /\ sd[q] \in Seq(Event) /\ Sorted(sd[q]) /\ n \in Nat
          /\ \A i \in 1 .. Len(sd[q]) : sd[q][i].epoch < n
      BY <1>b, <1>d
    <3> DEFINE evs == sd[q]
    <3> HIDE DEF evs
    <3>2. \A entries, x :
            LET nw == record(evs, entries, x, n)
            IN  /\ nw \in Seq(Event)
                /\ Sorted(nw)
                /\ \A i \in 1 .. Len(nw) : nw[i].epoch <= n
                /\ \A e \in Nat : e < n => probe(nw, e) = probe(evs, e)
                /\ \A e \in Nat : e >= n =>
                      probe(nw, e) = IF x \in entries.adds THEN "Add"
                                     ELSE IF x \in entries.tombs THEN "Tombstone"
                                     ELSE probe(evs, e)
                /\ \A a, u \in Nat : a <= u /\ u < n =>
                      collect_suffix(nw, a, u) = collect_suffix(evs, a, u)
      BY <3>1, RecordSpec DEF evs
    <3> QED BY <3>2 DEF evs
  <2>3. probe(sd[q], n) = probe(sd[q], Tip)
    BY <1>b, <1>d, ProbePastEnd
  <2> HIDE DEF new
  <2>4. n >= n
    BY <1>b
  <2> QED BY <1>b, <2>1, <2>2, <2>3, <2>4
<1> HIDE DEF nd
<1>j. nd \in [Quads -> Seq(Event)]
  BY <1>i DEF nd
<1>k. Live' \subseteq Live \cup {snap}
  <2>1. \A r \in Readers : reader'[r] \in {reader[x] : x \in Readers} \cup {snap}
    BY <1>0 DEF IInv, TypeInv
  <2> HIDE DEF snap
  <2> QED BY <1>0, <1>g, <2>1 DEF Live
<1>1. TypeInv'
  <2>1. storage' \in Seq(Storage)
    <3>1. storage \in Seq(Storage) /\ storage[sid] \in Storage
      BY <1>c DEF IInv, TypeInv
    <3>2. [storage[sid] EXCEPT !.delta = nd] \in Storage
      BY <1>j, <3>1 DEF Storage
    <3>3. storage' = [storage EXCEPT ![sid] = [storage[sid] EXCEPT !.delta = nd]]
      BY <1>0, <1>c, <3>1 DEF sid, nd, sd, tx, n
    <3> QED BY <1>c, <3>1, <3>2, <3>3
  <2>2. hist' \in Seq(SUBSET Quads) /\ hist' # <<>>
    BY <1>0, <1>b, <1>f
  <2>3. reader' \in [Readers -> MaybeSnap]
    BY <1>0, <1>h DEF IInv, TypeInv, MaybeSnap
  <2>4. group' \in [phase : {"idle", "plan", "record"}, start : MaybeSnap, last : MaybeSnap,
                    carry : [Quads -> Kinds \cup {NoEvent}], planned : Seq(Tx)]
    <3> HIDE DEF snap
    <3> QED BY <1>0, <1>a, <1>h DEF IInv, TypeInv, MaybeSnap
  <2> QED BY <1>0, <2>1, <2>2, <2>3, <2>4 DEF IInv, TypeInv
<1>2. LiveInv'
  <2>1. \A s \in Live : s.sid \in 1 .. Len(storage') /\ s.epoch \in 0 .. Tip'
    BY <1>b, <1>e, <1>f DEF IInv, LiveInv
  <2>2. snap.sid \in 1 .. Len(storage') /\ snap.epoch \in 0 .. Tip'
    BY <1>b, <1>c, <1>e, <1>f
  <2> HIDE DEF snap
  <2> QED BY <1>k, <2>1, <2>2 DEF LiveInv
<1>3. ListsInv'
  <2>1. ASSUME NEW i \in 1 .. Len(storage'), NEW q \in Quads
        PROVE  /\ Sorted(storage'[i].delta[q])
               /\ \A k \in 1 .. Len(storage'[i].delta[q]) : storage'[i].delta[q][k].epoch <= Tip'
    <3>1. CASE i = sid
      BY <1>e, <1>f, <1>i, <3>1
    <3>2. CASE i # sid
      <4>1. i \in 1 .. Len(storage) /\ storage'[i] = storage[i]
        BY <1>e, <3>2
      <4>2. /\ Sorted(storage[i].delta[q]) /\ storage[i].delta[q] \in Seq(Event)
            /\ \A k \in 1 .. Len(storage[i].delta[q]) : storage[i].delta[q][k].epoch <= Tip
        BY <4>1, StorageLists DEF IInv, ListsInv
      <4>3. \A k \in 1 .. Len(storage[i].delta[q]) : storage[i].delta[q][k].epoch \in Nat
        BY <4>2, ListElements
      <4> QED BY <1>b, <1>f, <4>1, <4>2, <4>3
    <3> QED BY <3>1, <3>2
  <2> QED BY <2>1 DEF ListsInv
<1>4. \A s \in Live : View(s)' = View(s)
  <2>1. ASSUME NEW s \in Live PROVE View(s)' = View(s)
    <3>1. s.sid \in 1 .. Len(storage) /\ s.epoch \in Nat /\ s.epoch < n
      BY <1>b DEF IInv, LiveInv
    <3>2. CASE s.sid # sid
      BY <1>e, <3>1, <3>2 DEF View
    <3>3. CASE s.sid = sid
      <4>1. View(s)' = {q \in Quads : contains_key(q \in sb, nd[q], s.epoch)}
        BY <1>e, <3>3 DEF View
      <4>2. View(s) = {q \in Quads : contains_key(q \in sb, sd[q], s.epoch)}
        BY <3>3 DEF View, sb, sd
      <4>3. \A q \in Quads : contains_key(q \in sb, nd[q], s.epoch)
                               <=> contains_key(q \in sb, sd[q], s.epoch)
        BY <1>i, <3>1 DEF contains_key
      <4> QED BY <4>1, <4>2, <4>3
    <3> QED BY <3>2, <3>3
  <2> QED BY <2>1
<1>5. PICK ds \in [1 .. Len(group.planned) + 1 -> SUBSET Quads] :
        /\ ds[1] = D
        /\ \A i \in 1 .. Len(group.planned) :
              /\ ds[i + 1] = (ds[i] \ group.planned[i].tombs) \cup group.planned[i].adds
              /\ ds[i + 1] = (ds[i] \ group.planned[i].want.dels)
                                \cup group.planned[i].want.adds
  BY <1>0 DEF IInv, GroupInv, PlanInv, D, n
<1>6. ds[2] = (D \ tx.tombs) \cup tx.adds /\ ds[2] = N
  <2>1. 1 \in 1 .. Len(group.planned) /\ 1 + 1 = 2
    BY <1>a
  <2> QED BY <1>5, <1>a, <2>1 DEF N
<1>7. \A s : s = snap => View(s)' = N
  <2>1. View([sid |-> sid, epoch |-> Tip]) = D
    <3>1. CASE group.last = NoSnap
      <4>1. current.epoch = Tip /\ current \in Snap
        BY <3>1 DEF IInv, GroupInv, TypeInv
      <4>2. View([sid |-> sid, epoch |-> Tip]) = View(current)
        BY <1>c, <4>1 DEF View
      <4>3. View(current) = hist[Tip + 1]
        BY <1>c, <4>1 DEF IInv, SnapshotIsolation
      <4> QED BY <4>2, <4>3 DEF D, n
    <3>2. CASE group.last # NoSnap
      <4>1. group.last = [sid |-> sid, epoch |-> Tip] /\ group.last \in Live
        BY <1>c, <3>2, LiveMembers DEF IInv, GroupInv
      <4>2. View(group.last) = hist[Tip + 1]
        BY <4>1 DEF IInv, SnapshotIsolation
      <4> QED BY <4>1, <4>2 DEF D, n
    <3> QED BY <3>1, <3>2
  <2>2. \A q \in Quads : q \in D <=> contains_key(q \in sb, sd[q], Tip)
    BY <2>1 DEF View, sb, sd
  <2>3. \A s : s = snap => View(s)' = {q \in Quads : contains_key(q \in sb, nd[q], n)}
    <3>1. snap.sid = sid /\ snap.epoch = n
      OBVIOUS
    <3> HIDE DEF snap
    <3> QED BY <1>e, <3>1 DEF View
  <2>4. ASSUME NEW q \in Quads
        PROVE  contains_key(q \in sb, nd[q], n) <=> q \in (D \ tx.tombs) \cup tx.adds
    <3>1. CASE q \in tx.adds
      BY <1>i, <3>1 DEF contains_key
    <3>2. CASE q \notin tx.adds /\ q \in tx.tombs
      <4>1. probe(nd[q], n) = "Tombstone"
        BY <1>i, <3>2
      <4> QED BY <3>2, <4>1 DEF contains_key, NoEvent
    <3>3. CASE q \notin tx.adds /\ q \notin tx.tombs
      <4>1. probe(nd[q], n) = probe(sd[q], Tip)
        BY <1>i, <3>3
      <4>2. contains_key(q \in sb, nd[q], n) <=> contains_key(q \in sb, sd[q], Tip)
        BY <4>1 DEF contains_key
      <4> QED BY <2>2, <3>3, <4>2
    <3> QED BY <3>1, <3>2, <3>3
  <2> QED BY <1>6, <1>b, <2>3, <2>4
<1>8. SnapshotIsolation'
  <2>1. \A s \in Live : View(s)' = hist'[s.epoch + 1]
    <3>1. \A s \in Live : s.epoch + 1 \in 1 .. n /\ View(s) = hist[s.epoch + 1]
      BY <1>b DEF IInv, LiveInv, SnapshotIsolation
    <3> QED BY <1>4, <1>f, <3>1
  <2>2. \A s : s = snap => View(s)' = hist'[s.epoch + 1]
    BY <1>7, <1>f
  <2> HIDE DEF snap
  <2> QED BY <1>k, <2>1, <2>2 DEF SnapshotIsolation
<1>9. PlanInv'
  <2> DEFINE k == Len(group.planned) - 1
             es == [i \in 1 .. k + 1 |-> ds[i + 1]]
  <2>1. k \in Nat /\ Len(group'.planned) = k /\ k + 1 = Len(group.planned)
    BY <1>a, <1>g
  <2>2. es \in [1 .. k + 1 -> SUBSET Quads] /\ \A i \in 1 .. k + 1 : es[i] = ds[i + 1]
    BY <1>a
  <2> HIDE DEF k, es
  <2>3. es[1] = hist'[Tip' + 1]
    BY <1>6, <1>f, <2>1, <2>2
  <2>4. ASSUME NEW i \in 1 .. k
        PROVE  /\ es[i + 1] = (es[i] \ group'.planned[i].tombs) \cup group'.planned[i].adds
               /\ es[i + 1] = (es[i] \ group'.planned[i].want.dels)
                                 \cup group'.planned[i].want.adds
    <3>1. /\ i \in 1 .. k + 1 /\ i + 1 \in 1 .. k + 1 /\ i + 1 \in 1 .. Len(group.planned)
          /\ i \in 1 .. Len(group.planned) - 1
      BY <2>1
    <3>2. group'.planned[i] = group.planned[i + 1]
      BY <1>a, <1>g, <3>1
    <3>3. es[i] = ds[i + 1] /\ es[i + 1] = ds[(i + 1) + 1]
      BY <2>2, <3>1
    <3> QED BY <1>5, <3>1, <3>2, <3>3
  <2> QED BY <1>g, <2>1, <2>2, <2>3, <2>4 DEF PlanInv
<1>10. GroupInv'
  <2>1. group'.last = [sid |-> current.sid, epoch |-> Tip']
    BY <1>c, <1>f, <1>g
  <2> QED BY <1>0, <1>9, <1>c, <1>g, <1>h, <2>1 DEF GroupInv
<1>11. MergeInv'
  <2>1. merge.phase # "swapping"
    BY <1>0 DEF IInv, MergeInv
  <2>2. SUFFICES ASSUME merge.phase \in {"built", "shadow"}
                 PROVE  /\ hist'[merge.snap.epoch + 1] = hist[merge.snap.epoch + 1]
                        /\ \A q \in Quads :
                              collect_suffix(storage'[current.sid].delta[q],
                                             merge.snap.epoch, merge.mark)
                              = collect_suffix(storage[current.sid].delta[q],
                                               merge.snap.epoch, merge.mark)
    BY <1>0, <2>1 DEF IInv, TypeInv, MergeInv
  <2>3. /\ merge.snap.epoch \in Nat /\ merge.mark \in Nat /\ current.epoch \in 0 .. Tip
        /\ merge.snap.epoch <= merge.mark /\ merge.mark <= current.epoch
    BY <1>c, <2>2 DEF IInv, TypeInv, MergeInv, LiveInv, Snap
  <2>4. merge.snap.epoch + 1 \in 1 .. n /\ merge.mark < n
    BY <1>b, <2>3
  <2>5. \A q \in Quads : /\ storage'[current.sid].delta[q] = nd[q]
                          /\ storage[current.sid].delta[q] = sd[q]
    BY <1>c, <1>e DEF sd
  <2> QED BY <1>f, <1>i, <2>3, <2>4, <2>5
<1>12. GcInv'
  <2>1. gcs.phase = "sweep" => gcs.min <= snap.epoch
    <3>1. gcs.phase = "sweep" => gcs.min <= current.epoch
      BY <1>c DEF IInv, GcInv
    <3>2. current.epoch \in 0 .. Tip /\ gcs.min \in Nat
      BY <1>c DEF IInv, LiveInv, TypeInv
    <3> QED BY <1>b, <3>1, <3>2
  <2> HIDE DEF snap
  <2> QED BY <1>0, <1>k, <2>1 DEF IInv, GcInv
<1> QED BY <1>1, <1>2, <1>3, <1>8, <1>10, <1>11, <1>12 DEF IInv
-----------------------------------------------------------------------------

\* Every step keeps the inductive invariant.
LEMMA NextIInv == ASSUME IInv, [Next]_vars PROVE IInv'
<1>1. CASE UNCHANGED vars
  <2>1. UNCHANGED <<storage, current, reader, group, merge, gcs, hist>>
    BY <1>1 DEF vars
  <2>2. Live' = Live /\ Tip' = Tip
    BY <2>1 DEF Live, Tip
  <2>3. TypeInv'
    BY <2>1 DEF IInv, TypeInv
  <2>4. LiveInv' /\ ListsInv' /\ SnapshotIsolation'
    BY <2>1, <2>2, QuietStep
  <2>5. GroupInv'
    <3>1. group.phase # "idle" => PlanInv'
      BY <2>1, QuietPlan DEF IInv, GroupInv
    <3> QED BY <2>1, <2>2, <3>1 DEF IInv, GroupInv
  <2>6. MergeInv' /\ GcInv'
    BY <2>1, <2>2 DEF IInv, MergeInv, GcInv
  <2> QED BY <2>3, <2>4, <2>5, <2>6 DEF IInv
<1>2. CASE \E r \in Readers : AcquireSnapshot(r) \/ ReleaseSnapshot(r)
  BY <1>2, ReaderSteps
<1>3. CASE \E dels, adds \in SUBSET Quads : PlanTx(dels, adds)
  BY <1>3, PlanTxStep
<1>4. CASE BeginGroup \/ GroupDurable \/ GroupDropped \/ RecordNext \/ Publish
  BY <1>4, BeginGroupStep, GroupDurableStep, GroupDroppedStep, RecordNextStep, PublishStep
<1>5. CASE GcSnapshot \/ GcFloor \/ GcSweep
  BY <1>5, GcSnapshotStep, GcFloorStep, GcSweepStep
<1>6. CASE MergeFreeze \/ MergeBuild \/ ShadowPass \/ SwapTail \/ SwapPublish \/ MergeFail
  BY <1>6, MergeFreezeStep, MergeBuildStep, PassStep, SwapPublishStep, MergeFailStep
<1>7. CASE CompactEphemeral
  BY <1>7, CompactStep
<1> QED BY <1>1, <1>2, <1>3, <1>4, <1>5, <1>6, <1>7 DEF Next

\* The inductive invariant holds in every reachable state.
LEMMA Inductive == Spec => []IInv
<1>1. Init => IInv
  BY InitIInv
<1>2. IInv /\ [Next]_vars => IInv'
  BY NextIInv
<1> QED BY <1>1, <1>2, PTL DEF Spec

\* The variables have their types: event lists hold events, and every live
\* snapshot names a pair that was published and an epoch that was recorded.
THEOREM TypeCorrect == Spec => []TypeOK
<1>1. ASSUME IInv PROVE TypeOK
  <2>1. TypeInv
    BY <1>1 DEF IInv
  <2>2. ASSUME NEW i \in DOMAIN storage
        PROVE  /\ storage[i].base \subseteq Quads
               /\ DOMAIN storage[i].delta = Quads
               /\ \A q \in Quads : \A k \in DOMAIN storage[i].delta[q] :
                     storage[i].delta[q][k] \in Event
    <3>1. i \in 1 .. Len(storage)
      BY <2>1 DEF TypeInv
    <3> QED BY <2>1, <3>1, StorageLists
  <2>3. \A s \in Live : s.sid \in DOMAIN storage /\ s.epoch \in 0 .. Tip
    BY <1>1, <2>1 DEF IInv, LiveInv, TypeInv
  <2>4. \A e \in DOMAIN hist : hist[e] \subseteq Quads
    BY <2>1 DEF TypeInv
  <2> QED BY <2>2, <2>3, <2>4 DEF TypeOK
<1> QED BY <1>1, Inductive, PTL

\* Every snapshot anybody holds keeps reading the dataset committed at its
\* epoch, however commits, epoch GC, merges and compactions interleave.
THEOREM Isolation == Spec => []SnapshotIsolation
<1>1. IInv => SnapshotIsolation
  BY DEF IInv
<1> QED BY <1>1, Inductive, PTL

\* Every event list, the remapped lists of a running merge included, stays
\* epoch-sorted: the premise of Delta::gc and Delta::collect_suffix.
THEOREM ListsSorted == Spec => []EventsSorted
<1>1. ASSUME IInv PROVE EventsSorted
  <2>1. TypeInv
    BY <1>1 DEF IInv
  <2>2. \A i \in DOMAIN storage : \A q \in Quads : Sorted(storage[i].delta[q])
    <3>1. DOMAIN storage = 1 .. Len(storage)
      BY <2>1 DEF TypeInv
    <3> QED BY <1>1, <3>1 DEF IInv, ListsInv
  <2>3. ASSUME NEW q \in Quads PROVE Sorted(merge.delta[q])
    <3>1. CASE merge.phase \in {"never", "idle", "frozen"}
      <4>1. merge.delta[q] = <<>>
        BY <1>1, <3>1 DEF IInv, MergeInv, IdleMerge, NoMerger, EmptyDelta
      <4> QED BY <4>1 DEF Sorted
    <3>2. CASE merge.phase \in {"built", "shadow", "swapping"}
      <4> DEFINE evs == storage[current.sid].delta[q]
                 f == merge.snap.epoch
                 m == merge.mark
      <4>1. current.sid \in 1 .. Len(storage)
        BY <1>1, <2>1, LiveMembers DEF IInv, LiveInv
      <4>2. evs \in Seq(Event) /\ Sorted(evs)
        BY <1>1, <2>1, <4>1, StorageLists DEF IInv, ListsInv
      <4>3. f \in Nat /\ m \in Nat /\ f <= m
        BY <1>1, <2>1, <3>2 DEF IInv, MergeInv, TypeInv, Snap
      <4>4. merge.delta[q] = collect_suffix(evs, f, m)
        BY <1>1, <3>2 DEF IInv, MergeInv
      <4> HIDE DEF evs, f, m
      <4> QED BY <4>2, <4>3, <4>4, SuffixSpec
    <3> QED BY <2>1, <3>1, <3>2 DEF TypeInv
  <2> QED BY <2>2, <2>3 DEF EventsSorted
<1> QED BY <1>1, Inductive, PTL

\* Neither a commit, a swap nor a compaction moves Store::current back to an
\* older epoch or an older storage.
THEOREM CurrentMonotone == Spec => NeverRegresses
<1> DEFINE Forward == current'.epoch >= current.epoch /\ current'.sid >= current.sid
<1>1. ASSUME IInv, [Next]_vars PROVE [Forward]_vars
  <2>1. /\ current \in Live /\ current.sid \in 1 .. Len(storage) /\ current.epoch \in 0 .. Tip
        /\ Len(storage) \in Nat /\ Tip \in Nat
    <3>1. TypeInv /\ LiveInv
      BY <1>1 DEF IInv
    <3>2. current \in Live
      BY <3>1, LiveMembers
    <3>3. Len(storage) \in Nat /\ Tip \in Nat
      BY <3>1 DEF TypeInv, Tip
    <3> QED BY <3>1, <3>2, <3>3 DEF LiveInv
  <2>2. CASE current' = current
    BY <2>1, <2>2
  <2>3. CASE Publish
    <3>1. current' = group.last /\ group.last = [sid |-> current.sid, epoch |-> Tip]
      BY <1>1, <2>3 DEF Publish, IInv, GroupInv
    <3> QED BY <2>1, <3>1
  <2>4. CASE SwapPublish \/ CompactEphemeral
    BY <2>1, <2>4 DEF SwapPublish, CompactEphemeral
  <2>5. current' = current \/ Publish \/ SwapPublish \/ CompactEphemeral
    BY <1>1 DEF Next, vars, AcquireSnapshot, ReleaseSnapshot, BeginGroup, PlanTx, GroupDurable,
         GroupDropped, RecordNext, GcSnapshot, GcFloor, GcSweep, MergeFreeze, MergeBuild,
         ShadowPass, SwapTail, MergeFail
  <2> QED BY <2>2, <2>3, <2>4, <2>5
<1> QED BY <1>1, Inductive, PTL DEF Spec, NeverRegresses

-----------------------------------------------------------------------------
(* The new generation of a merge reads every epoch since the freeze.       *)

\* What pair `sid` reads at epoch e, snapshot or not.
ReadsAt(sid, e) ==
    {q \in Quads : contains_key(q \in storage[sid].base, storage[sid].delta[q], e)}

\* From the epoch of any live snapshot of the published pair on, that pair
\* reads the history: its epoch floor covers the epochs nobody holds, too.
EpochsInv ==
    \A s \in Live : s.sid = current.sid =>
        \A e \in s.epoch .. Tip : ReadsAt(current.sid, e) = hist[e + 1]

\* A snapshot reads its pair at its epoch.
LEMMA ViewReads == \A s : View(s) = ReadsAt(s.sid, s.epoch)
BY DEF View, ReadsAt

\* A step that changes no pair and makes no new snapshot keeps it.
LEMMA QuietEpochs ==
    ASSUME EpochsInv, UNCHANGED <<storage, hist>>, Live' \subseteq Live, current'.sid = current.sid
    PROVE  EpochsInv'
<1>1. Tip' = Tip /\ \A sid, e : ReadsAt(sid, e)' = ReadsAt(sid, e)
  BY DEF Tip, ReadsAt
<1> QED BY <1>1 DEF EpochsInv

\* Recording changes what a pair reads at the new epoch only.
LEMMA RecordReads ==
    ASSUME IInv, RecordNext, NEW e \in Nat, e <= Tip
    PROVE  ReadsAt(current.sid, e)' = ReadsAt(current.sid, e)
<1> DEFINE sid == current.sid
           n == Tip + 1
           sd == storage[sid].delta
           entries == Head(group.planned)
<1>1. group.start = current /\ sid \in 1 .. Len(storage) /\ UNCHANGED current
  BY LiveMembers DEF RecordNext, IInv, GroupInv, LiveInv
<1>2. storage[sid] \in Storage /\ storage \in Seq(Storage) /\ n \in Nat /\ e < n /\ Tip \in Nat
  BY <1>1 DEF IInv, TypeInv, Tip
<1>3. storage'[sid].base = storage[sid].base
      /\ \A q \in Quads : storage'[sid].delta[q] = record(sd[q], entries, q, n)
  BY <1>1, <1>2 DEF RecordNext, Storage
<1> HIDE DEF n, entries
<1>4. ASSUME NEW q \in Quads PROVE probe(record(sd[q], entries, q, n), e) = probe(sd[q], e)
  <2>1. sd[q] \in Seq(Event) /\ Sorted(sd[q]) /\ \A k \in 1 .. Len(sd[q]) : sd[q][k].epoch <= Tip
    BY <1>1, StorageLists DEF IInv, ListsInv
  <2> DEFINE evs == sd[q]
  <2> HIDE DEF evs
  <2>2. \A k \in 1 .. Len(evs) : evs[k].epoch \in Nat
    BY <2>1, ListElements DEF evs
  <2>3. evs \in Seq(Event) /\ Sorted(evs) /\ \A k \in 1 .. Len(evs) : evs[k].epoch < n
    BY <1>2, <2>1, <2>2 DEF evs, n
  <2>4. \A x, y : probe(record(evs, x, y, n), e) = probe(evs, e)
    BY <1>2, <2>3, RecordSpec
  <2> QED BY <2>4 DEF evs
<1>5. \A q \in Quads : contains_key(q \in storage'[sid].base, storage'[sid].delta[q], e)
                         <=> contains_key(q \in storage[sid].base, sd[q], e)
  BY <1>3, <1>4 DEF contains_key
<1> QED BY <1>1, <1>5 DEF ReadsAt

\* The collector changes nothing a pair reads from its floor on.
LEMMA SweepReads ==
    ASSUME IInv, GcSweep, NEW e \in Nat, e >= gcs.min
    PROVE  ReadsAt(current.sid, e)' = ReadsAt(current.sid, e)
<1> DEFINE g == gcs.snap.sid
           min == gcs.min
<1>1. gcs.snap \in Snap /\ gcs.snap \in Live
  <2>1. gcs.snap \in Snap
    BY DEF GcSweep, IInv, GcInv
  <2> QED BY <2>1, LiveMembers, ConstantsAssumption DEF IInv, Snap
<1>2. /\ g \in 1 .. Len(storage) /\ current.sid \in 1 .. Len(storage)
      /\ storage \in Seq(Storage) /\ storage[g] \in Storage /\ min \in Nat /\ UNCHANGED current
  BY <1>1, LiveMembers DEF GcSweep, IInv, LiveInv, TypeInv
<1>3. CASE current.sid # g
  <2>1. storage'[current.sid] = storage[current.sid]
    BY <1>2, <1>3 DEF GcSweep
  <2> QED BY <1>2, <2>1 DEF ReadsAt
<1>4. CASE current.sid = g
  <2>1. storage'[g].base = storage[g].base
        /\ \A q \in Quads : storage'[g].delta[q] = gc(storage[g].delta[q], min, q \in storage[g].base)
    BY <1>2 DEF GcSweep, Storage
  <2>2. ASSUME NEW q \in Quads
        PROVE  contains_key(q \in storage[g].base, storage'[g].delta[q], e)
                 <=> contains_key(q \in storage[g].base, storage[g].delta[q], e)
    <3> DEFINE evs == storage[g].delta[q]
               b == q \in storage[g].base
    <3>1. evs \in Seq(Event) /\ Sorted(evs) /\ b \in BOOLEAN
      BY <1>2, StorageLists DEF IInv, ListsInv
    <3>2. storage'[g].delta[q] = gc(evs, min, b)
      BY <2>1
    <3> HIDE DEF evs, b
    <3>3. contains_key(b, gc(evs, min, b), e) <=> contains_key(b, evs, e)
      BY <1>2, <3>1, GcInvisible
    <3> QED BY <3>2, <3>3 DEF evs, b
  <2> QED BY <1>2, <1>4, <2>1, <2>2 DEF ReadsAt
<1> QED BY <1>3, <1>4

\* Every step keeps the published pair's epochs readable.
LEMMA EpochsStep == ASSUME IInv, IInv', EpochsInv, [Next]_vars PROVE EpochsInv'
<1>0. /\ current \in Live /\ Live \subseteq Snap /\ current' \in Live' /\ Live' \subseteq Snap
      /\ Tip \in Nat /\ current.epoch \in 0 .. Tip
  <2>1. current \in Live /\ Live \subseteq Snap
    BY LiveMembers DEF IInv
  <2>2. current' # NoSnap /\ Live' \subseteq Snap
    BY ConstantsAssumption DEF IInv, TypeInv, Snap, Live, MaybeSnap
  <2>3. current' \in Live'
    BY <2>2 DEF Live
  <2> QED BY <2>1, <2>2, <2>3 DEF IInv, TypeInv, LiveInv, Tip
<1>1. CASE UNCHANGED <<storage, hist, current>> /\ Live' \subseteq Live
  BY <1>1, QuietEpochs
<1>2. CASE RecordNext
  <2> DEFINE snap == [sid |-> current.sid, epoch |-> Tip + 1]
  <2>1. /\ group.start = current /\ UNCHANGED <<current, merge, gcs>>
        /\ group' = [group EXCEPT !.planned = Tail(@), !.last = snap]
        /\ \/ reader' = reader
           \/ \E r \in Readers : reader' = [reader EXCEPT ![r] = snap]
    BY <1>2 DEF RecordNext, IInv, GroupInv
  <2>2. group'.last = snap /\ group'.start = group.start
    BY <2>1 DEF IInv, TypeInv
  <2>3. snap \in Live'
    <3>1. snap \in Snap
      BY <1>0, <2>1, <2>2 DEF Snap
    <3> HIDE DEF snap
    <3> QED BY <2>2, <3>1, ConstantsAssumption DEF Live, Snap
  <2>4. Live' \subseteq Live \cup {snap}
    <3>1. \A r \in Readers : reader'[r] \in {reader[x] : x \in Readers} \cup {snap}
      BY <2>1 DEF IInv, TypeInv
    <3> HIDE DEF snap
    <3> QED BY <2>1, <2>2, <3>1 DEF Live
  <2>5. /\ Tip' = Tip + 1
        /\ \A e \in 0 .. Tip : hist'[e + 1] = hist[e + 1]
    BY <1>2 DEF RecordNext, IInv, TypeInv, Tip
  <2>6. \A e : e = Tip + 1 => ReadsAt(current.sid, e)' = hist'[e + 1]
    <3>1. \A t : t = snap => View(t)' = ReadsAt(t.sid, t.epoch)'
      BY DEF View, ReadsAt
    <3>2. \A t : t = snap => View(t)' = hist'[t.epoch + 1]
      <4> HIDE DEF snap
      <4> QED BY <2>3 DEF IInv, SnapshotIsolation
    <3>3. snap.sid = current'.sid /\ snap.epoch = Tip + 1
      BY <2>1
    <3> HIDE DEF snap
    <3> QED BY <3>1, <3>2, <3>3
  <2>7. \A e \in 0 .. Tip : ReadsAt(current.sid, e)' = ReadsAt(current.sid, e)
    BY <1>0, <1>2, RecordReads
  <2>8. ASSUME NEW s \in Live', s.sid = current'.sid, NEW e \in s.epoch .. Tip'
        PROVE  ReadsAt(current.sid, e)' = hist'[e + 1]
    <3>1. CASE e = Tip + 1
      BY <2>6, <3>1
    <3>2. CASE e # Tip + 1
      <4>1. s \in Snap /\ s.epoch \in Nat
        BY <1>0 DEF Snap
      <4>2. e \in 0 .. Tip /\ e \in s.epoch .. Tip
        BY <1>0, <2>5, <3>2, <4>1
      <4>3. s \in Live
        <5>1. s # snap
          BY <1>0, <4>1, <4>2
        <5> QED BY <2>4, <5>1
      <4>4. ReadsAt(current.sid, e) = hist[e + 1]
        BY <2>1, <2>8, <4>2, <4>3 DEF EpochsInv
      <4> QED BY <2>5, <2>7, <4>2, <4>4
    <3> QED BY <3>1, <3>2
  <2> QED BY <2>8 DEF EpochsInv
<1>3. CASE GcSweep
  <2>1. /\ UNCHANGED <<current, hist, reader, group, merge>> /\ gcs' = IdleGc
        /\ \A s \in Live : gcs.min <= s.epoch /\ gcs.min \in Nat
    BY <1>3 DEF GcSweep, IInv, GcInv, TypeInv
  <2>2. Live' \subseteq Live /\ Tip' = Tip
    BY <2>1 DEF Live, IdleGc, Tip
  <2>3. ASSUME NEW s \in Live', s.sid = current'.sid, NEW e \in s.epoch .. Tip'
        PROVE  ReadsAt(current.sid, e)' = hist'[e + 1]
    <3>1. s \in Live /\ e \in s.epoch .. Tip /\ s.epoch \in Nat
      BY <1>0, <2>2, <2>3 DEF Snap
    <3>2. e \in Nat /\ e >= gcs.min
      BY <1>0, <2>1, <3>1
    <3>3. ReadsAt(current.sid, e)' = ReadsAt(current.sid, e)
      BY <1>3, <3>2, SweepReads
    <3> QED BY <2>1, <2>3, <3>1, <3>3 DEF EpochsInv
  <2> QED BY <2>3 DEF EpochsInv
<1>4. CASE SwapPublish \/ CompactEphemeral
  <2>1. /\ current' = [sid |-> Len(storage) + 1, epoch |-> current.epoch]
        /\ UNCHANGED <<reader, group, gcs, hist>> /\ merge' \in {merge, IdleMerge}
        /\ group.phase = "idle"
    BY <1>4 DEF SwapPublish, CompactEphemeral, IInv, MergeInv
  <2>2. current.epoch = Tip /\ Tip' = Tip
    BY <2>1 DEF IInv, GroupInv, IdleGroup, Tip
  <2>3. Live' \subseteq Live \cup {current'}
    BY <2>1 DEF Live, IdleMerge
  <2>4. ASSUME NEW s \in Live', s.sid = current'.sid, NEW e \in s.epoch .. Tip'
        PROVE  ReadsAt(current.sid, e)' = hist'[e + 1]
    <3>1. s = current'
      <4>1. ASSUME s \in Live PROVE FALSE
        <5>1. s.sid \in 1 .. Len(storage) /\ Len(storage) \in Nat
          BY <4>1 DEF IInv, LiveInv, TypeInv
        <5> QED BY <2>1, <2>4, <5>1
      <4> QED BY <2>3, <4>1
    <3>2. e = current'.epoch
      BY <1>0, <2>1, <2>2, <2>4, <3>1
    <3>3. View(current)' = hist'[current'.epoch + 1]
      BY <1>0 DEF IInv, SnapshotIsolation
    <3>4. View(current)' = ReadsAt(current.sid, current.epoch)'
      BY DEF View, ReadsAt
    <3> QED BY <3>2, <3>3, <3>4
  <2> QED BY <2>4 DEF EpochsInv
<1>5. CASE Publish
  <2>1. /\ group.last \in Live /\ group.last.sid = current.sid /\ current' = group.last
        /\ group' = IdleGroup /\ UNCHANGED <<storage, reader, merge, gcs, hist>>
    BY <1>5, LiveMembers DEF Publish, IInv, GroupInv
  <2>2. Live' \subseteq Live
    BY <2>1 DEF Live, IdleGroup
  <2> QED BY <2>1, <2>2, QuietEpochs
<1>6. CASE \E r \in Readers : AcquireSnapshot(r) \/ ReleaseSnapshot(r)
  <2>1. UNCHANGED <<storage, current, group, merge, gcs, hist>>
        /\ \A t \in Readers : reader'[t] \in {NoSnap, current} \cup {reader[x] : x \in Readers}
    BY <1>6 DEF AcquireSnapshot, ReleaseSnapshot, IInv, TypeInv
  <2>2. Live' \subseteq Live
    BY <1>0, <2>1 DEF Live
  <2> QED BY <1>1, <2>1, <2>2
<1>7. CASE BeginGroup \/ GroupDropped \/ GroupDurable \/ \E dels, adds \in SUBSET Quads : PlanTx(dels, adds)
  <2>1. /\ UNCHANGED <<storage, current, reader, merge, gcs, hist>>
        /\ group'.start \in {NoSnap, current, group.start} /\ group'.last \in {NoSnap, group.last}
    <3>1. CASE BeginGroup
      <4>1. group' = [phase |-> "plan", start |-> current, last |-> NoSnap,
                      carry |-> NoCarry, planned |-> <<>>]
        BY <3>1 DEF BeginGroup, IdleGroup
      <4>2. UNCHANGED <<storage, current, reader, merge, gcs, hist>>
        BY <3>1 DEF BeginGroup
      <4>3. group'.start = current /\ group'.last = NoSnap
        BY <4>1
      <4> QED BY <4>2, <4>3
    <3>4. CASE GroupDropped
      BY <3>4 DEF GroupDropped, IdleGroup
    <3>2. CASE GroupDurable
      BY <3>2 DEF GroupDurable, IInv, TypeInv
    <3>3. ASSUME NEW dels \in SUBSET Quads, NEW adds \in SUBSET Quads, PlanTx(dels, adds)
          PROVE  UNCHANGED <<storage, current, reader, merge, gcs, hist>>
                 /\ group'.start = group.start /\ group'.last = group.last
      <4>1. PICK c, p : group' = [group EXCEPT !.carry = c, !.planned = p]
        BY <3>3 DEF PlanTx
      <4> QED BY <3>3, <4>1 DEF PlanTx, IInv, TypeInv
    <3> QED BY <1>7, <3>1, <3>2, <3>3, <3>4
  <2>2. Live' \subseteq Live
    BY <1>0, <2>1 DEF Live
  <2> QED BY <1>1, <2>1, <2>2
<1>8. CASE GcSnapshot \/ GcFloor
  <2>1. /\ UNCHANGED <<storage, current, reader, merge, group, hist>>
        /\ gcs'.snap \in {current, gcs.snap}
    BY <1>8 DEF GcSnapshot, GcFloor, IdleGc, IInv, TypeInv
  <2>2. Live' \subseteq Live
    BY <1>0, <2>1 DEF Live
  <2> QED BY <1>1, <2>1, <2>2
<1>9. CASE MergeFreeze \/ MergeBuild \/ ShadowPass \/ SwapTail \/ MergeFail
  <2>1. /\ UNCHANGED <<storage, current, reader, gcs, group, hist>>
        /\ merge'.snap \in {NoSnap, current, merge.snap}
    <3>1. CASE MergeFreeze
      <4>1. merge' = [phase |-> "frozen", snap |-> current, base |-> {},
                      delta |-> EmptyDelta, mark |-> 0]
        BY <3>1 DEF MergeFreeze, IdleMerge
      <4>2. merge'.snap = current
        BY <4>1
      <4> QED BY <3>1, <4>2 DEF MergeFreeze
    <3>5. CASE MergeFail
      BY <3>5 DEF MergeFail, IdleMerge
    <3>2. CASE MergeBuild
      BY <3>2 DEF MergeBuild, IInv, TypeInv
    <3>3. CASE ShadowPass
      BY <3>3 DEF ShadowPass, IInv, TypeInv
    <3>4. CASE SwapTail
      BY <3>4 DEF SwapTail, IInv, TypeInv
    <3> QED BY <1>9, <3>1, <3>2, <3>3, <3>4, <3>5
  <2>2. Live' \subseteq Live
    BY <1>0, <2>1 DEF Live
  <2> QED BY <1>1, <2>1, <2>2
<1>10. CASE UNCHANGED vars
  <2>1. Live' = Live /\ UNCHANGED <<storage, hist, current>>
    BY <1>10 DEF vars, Live
  <2> QED BY <1>1, <2>1
<1> QED BY <1>2, <1>3, <1>4, <1>5, <1>6, <1>7, <1>8, <1>9, <1>10 DEF Next

\* Both invariants hold in every reachable state.
LEMMA EpochsAlways == Spec => [](IInv /\ EpochsInv)
<1>1. Init => EpochsInv
  <2> SUFFICES ASSUME Init, NEW s \in Live, NEW e \in s.epoch .. Tip
               PROVE  ReadsAt(current.sid, e) = hist[e + 1]
    BY DEF EpochsInv
  <2>1. IInv
    BY InitIInv
  <2>2. Live = {current} /\ Tip = 0 /\ current.epoch = 0
    BY <2>1, LiveMembers DEF Init, Live, IdleGroup, IdleMerge, NoMerger, IdleGc, IInv, Tip
  <2>3. e = current.epoch /\ View(current) = hist[current.epoch + 1]
    BY <2>1, <2>2, LiveMembers DEF IInv, SnapshotIsolation
  <2> QED BY <2>3, ViewReads
<1> QED BY <1>1, InitIInv, NextIInv, EpochsStep, PTL DEF Spec

\* The generation a merge is about to swap in reads, at every epoch from the
\* freeze to the last remapped one, what was committed there.
THEOREM FoldReadsHistory == Spec => []MergeFaithful
<1>1. ASSUME IInv, EpochsInv PROVE MergeFaithful
  <2> SUFFICES ASSUME merge.phase \in {"built", "shadow", "swapping"} PROVE MergeFaithful
    BY DEF MergeFaithful
  <2> DEFINE f == merge.snap.epoch
             m == merge.mark
             sb == storage[current.sid].base
             sd == storage[current.sid].delta
  <2>1. /\ f \in Nat /\ m \in f .. current.epoch /\ merge.base = hist[f + 1]
        /\ merge.snap.sid = current.sid /\ merge.snap \in Live
        /\ \A q \in Quads : merge.delta[q] = collect_suffix(sd[q], f, m)
    <3>1. merge.snap \in Snap
      BY <1>1 DEF IInv, MergeInv
    <3>2. merge.snap \in Live
      BY <1>1, <3>1, LiveMembers, ConstantsAssumption DEF IInv, Snap
    <3> QED BY <1>1, <3>1, <3>2 DEF IInv, MergeInv, Snap
  <2>2. current.sid \in 1 .. Len(storage) /\ current.epoch \in 0 .. Tip /\ Tip \in Nat
    BY <1>1, LiveMembers DEF IInv, LiveInv, TypeInv, Tip
  <2>3. \A q \in Quads : sd[q] \in Seq(Event) /\ Sorted(sd[q])
    BY <1>1, <2>2, StorageLists DEF IInv, ListsInv
  <2>4. \A e \in f .. Tip : hist[e + 1] = {q \in Quads : contains_key(q \in sb, sd[q], e)}
    BY <1>1, <2>1 DEF EpochsInv, ReadsAt
  <2> HIDE DEF f, m, sb, sd
  <2>5. \A q \in Quads : q \in hist[f + 1] <=> contains_key(q \in sb, sd[q], f)
    <3>1. f \in f .. Tip
      BY <2>1, <2>2
    <3> QED BY <2>4, <3>1
  <2>6. ASSUME NEW e \in f .. m, NEW q \in Quads
        PROVE  contains_key(q \in merge.base, merge.delta[q], e) <=> q \in hist[e + 1]
    <3>1. e \in Nat /\ f <= e /\ e <= m /\ f <= m /\ m \in Nat /\ e \in f .. Tip
      BY <2>1, <2>2
    <3> DEFINE b == q \in sb
    <3>2. b \in BOOLEAN /\ sd[q] \in Seq(Event) /\ Sorted(sd[q])
      BY <2>3
    <3> HIDE DEF b
    <3>3. contains_key(contains_key(b, sd[q], f), collect_suffix(sd[q], f, m), e)
            <=> contains_key(b, sd[q], e)
      BY <2>1, <3>1, <3>2, FoldFaithful
    <3>4. (q \in merge.base) <=> contains_key(b, sd[q], f)
      BY <2>1, <2>5 DEF b
    <3>5. contains_key(b, sd[q], e) <=> q \in hist[e + 1]
      BY <2>4, <3>1 DEF b
    <3> QED BY <2>1, <3>3, <3>4, <3>5 DEF contains_key
  <2>7. ASSUME NEW e \in f .. m
        PROVE  hist[e + 1] = {q \in Quads : contains_key(q \in merge.base, merge.delta[q], e)}
    <3>1. e \in f .. Tip
      BY <2>1, <2>2
    <3>2. hist[e + 1] \subseteq Quads
      BY <2>4, <3>1
    <3> QED BY <2>6, <3>2
  <2>8. ASSUME NEW q \in Quads PROVE Sorted(merge.delta[q])
    <3>1. m \in Nat /\ f <= m
      BY <2>1, <2>2
    <3> DEFINE evs == sd[q]
    <3>2. evs \in Seq(Event) /\ Sorted(evs)
      BY <2>3
    <3>3. merge.delta[q] = collect_suffix(evs, f, m)
      BY <2>1
    <3> HIDE DEF evs
    <3> QED BY <2>1, <3>1, <3>2, <3>3, SuffixSpec
  <2> QED BY <2>7, <2>8 DEF MergeFaithful, f, m
<1> QED BY <1>1, EpochsAlways, PTL

-----------------------------------------------------------------------------
(* A group's transactions see the ones before them.                        *)

\* The datasets a plan goes through are the ones its transactions ask for:
\* the witness of PlanInv satisfies the equation that defines After, and two
\* sequences that satisfy it agree, or else at a least index.
LEMMA PlannedWitness ==
    ASSUME TypeInv, NEW ds \in [1 .. Len(group.planned) + 1 -> SUBSET Quads],
           ds[1] = hist[Tip + 1],
           \A i \in 1 .. Len(group.planned) :
              ds[i + 1] = (ds[i] \ group.planned[i].want.dels) \cup group.planned[i].want.adds
    PROVE  PlannedData = ds[Len(group.planned) + 1]
<1> DEFINE n == Len(group.planned)
           Step(f, i) == IF i = 0 THEN hist[Tip + 1]
                         ELSE (f[i - 1] \ group.planned[i].want.dels)
                                \cup group.planned[i].want.adds
           F == [i \in 0 .. n |-> ds[i + 1]]
<1>1. n \in Nat
  BY DEF TypeInv
<1>2. F = [i \in 0 .. n |-> Step(F, i)]
  <2>1. ASSUME NEW i \in 0 .. n PROVE F[i] = Step(F, i)
    <3>1. CASE i = 0
      BY <1>1, <3>1
    <3>2. CASE i # 0
      <4>1. i \in 1 .. n /\ i - 1 \in 0 .. n /\ (i - 1) + 1 = i
        BY <1>1, <3>2
      <4>2. F[i - 1] = ds[i]
        BY <4>1
      <4> QED BY <3>2, <4>1, <4>2
    <3> QED BY <3>1, <3>2
  <2> QED BY <2>1
<1>3. After = [i \in 0 .. n |-> Step(After, i)]
  BY <1>2 DEF After
<1>4. ASSUME NEW k \in 0 .. n, After[k] # F[k] PROVE FALSE
  <2> DEFINE Differ == {i \in 0 .. n : After[i] # F[i]}
  <2>1. Differ \in SUBSET Nat /\ Differ # {}
    <3> HIDE DEF F
    <3>1. k \in Differ
      BY <1>4
    <3>2. Differ \subseteq 0 .. n
      OBVIOUS
    <3> QED BY <1>1, <3>1, <3>2
  <2>2. PICK x \in Differ : \A y \in Differ : x <= y
    <3> HIDE DEF Differ
    <3> QED BY <2>1, LeastNumber
  <2>3. After[x] = Step(After, x) /\ F[x] = Step(F, x)
    <3> HIDE DEF F, Step
    <3> QED BY <1>2, <1>3, <2>2
  <2>4. x # 0
    BY <2>2, <2>3
  <2>5. x - 1 \in 0 .. n /\ ~(x <= x - 1)
    BY <1>1, <2>2, <2>4
  <2>6. After[x - 1] = F[x - 1]
    BY <2>2, <2>5
  <2>7. Step(After, x) = Step(F, x)
    BY <2>4, <2>6
  <2> QED BY <2>2, <2>3, <2>7
<1>5. n \in 0 .. n
  BY <1>1
<1>6. PlannedData = After[n]
  BY DEF PlannedData
<1> HIDE DEF n
<1>7. F[n] = ds[n + 1]
  BY <1>5
<1> QED BY <1>4, <1>5, <1>6, <1>7 DEF n

\* Whatever transaction comes next, its effective deletes and adds do to the
\* dataset so far what it asks for, and none of them restates what is there.
THEOREM PlansSeeTheirGroup == Spec => []PlanFaithful
<1>1. ASSUME IInv PROVE PlanFaithful
  <2> SUFFICES ASSUME group.phase = "plan", NEW dels \in SUBSET Quads, NEW adds \in SUBSET Quads
               PROVE  LET plan == commit_core(group.carry, group.start, dels, adds)
                      IN  /\ (PlannedData \ plan.tombs) \cup plan.adds = (PlannedData \ dels) \cup adds
                          /\ plan.tombs \subseteq PlannedData
                          /\ plan.adds \cap (PlannedData \ plan.tombs) = {}
    BY DEF PlanFaithful
  <2> DEFINE c == group.carry
             st == group.start
             tombs == {q \in dels : Present(c, st, q)}
             mid == [q \in Quads |-> IF q \in tombs THEN "Tombstone" ELSE c[q]]
             fresh == {q \in adds : ~Present(mid, st, q)}
             D == PlannedData
  <2>1. \A q \in Quads : q \in D <=> Present(c, st, q)
    <3>1. PICK ds \in [1 .. Len(group.planned) + 1 -> SUBSET Quads] :
            /\ ds[1] = hist[Tip + 1]
            /\ \A i \in 1 .. Len(group.planned) :
                  ds[i + 1] = (ds[i] \ group.planned[i].want.dels) \cup group.planned[i].want.adds
            /\ \A q \in Quads : q \in ds[Len(group.planned) + 1] <=> Present(c, st, q)
      BY <1>1 DEF IInv, GroupInv, PlanInv
    <3>2. D = ds[Len(group.planned) + 1]
      BY <1>1, <3>1, PlannedWitness DEF IInv
    <3> QED BY <3>1, <3>2
  <2>2. \A q \in Quads : Present(mid, st, q) <=> Present(c, st, q) /\ q \notin tombs
    <3> HIDE DEF tombs
    <3> QED BY DEF Present, NoEvent
  <2>3. commit_core(c, st, dels, adds).tombs = tombs
        /\ commit_core(c, st, dels, adds).adds = fresh
    BY DEF commit_core
  <2>4. tombs = dels \cap D
    BY <2>1
  <2>5. \A q \in Quads : q \in fresh <=> q \in adds /\ ~(q \in D /\ q \notin tombs)
    BY <2>1, <2>2
  <2>6. fresh \subseteq adds /\ \A q \in adds : q \in fresh <=> q \notin D \ tombs
    BY <2>5
  <2> HIDE DEF tombs, fresh, mid, D
  <2>7. /\ (D \ tombs) \cup fresh = (D \ dels) \cup adds
        /\ tombs \subseteq D
        /\ fresh \cap (D \ tombs) = {}
    BY <2>4, <2>6
  <2> QED BY <2>3, <2>7 DEF D
<1> QED BY <1>1, Inductive, PTL

-----------------------------------------------------------------------------
(* SnapshotStore implements AtomicStore.                                   *)

\* What the callers see of the store, the mapping of the refinement.
Views == [r \in Readers |-> IF reader[r] = NoSnap THEN NoSnap ELSE View(reader[r])]

\* A snapshot held before and after a step reads the same, as long as the
\* step only extends the history.
LEMMA ViewKept ==
    ASSUME IInv, IInv', NEW s \in Live, s \in Live',
           \A e \in 0 .. Tip : hist'[e + 1] = hist[e + 1]
    PROVE  View(s)' = View(s)
<1>1. View(s) = hist[s.epoch + 1] /\ s.epoch \in 0 .. Tip
  BY DEF IInv, SnapshotIsolation, LiveInv
<1>2. View(s)' = hist'[s.epoch + 1]
  BY DEF IInv, SnapshotIsolation
<1> QED BY <1>1, <1>2

\* A step that extends the history and moves neither the published epoch nor
\* a reader changes nothing a caller sees.
LEMMA Unseen ==
    ASSUME IInv, IInv', UNCHANGED reader, current'.epoch = current.epoch,
           \A e \in 0 .. Tip : hist'[e + 1] = hist[e + 1]
    PROVE  View(current)' = View(current) /\ Views' = Views
<1>1. /\ current \in Live /\ current' \in Live' /\ current.epoch \in 0 .. Tip
  <2>1. current \in Live /\ current.epoch \in 0 .. Tip
    BY LiveMembers DEF IInv, LiveInv
  <2>2. current' # NoSnap
    BY ConstantsAssumption DEF IInv, TypeInv, Snap
  <2> QED BY <2>1, <2>2 DEF Live
<1>2. View(current)' = View(current)
  <2>1. View(current) = hist[current.epoch + 1]
    BY <1>1 DEF IInv, SnapshotIsolation
  <2>2. View(current)' = hist'[current'.epoch + 1]
    BY <1>1 DEF IInv, SnapshotIsolation
  <2> QED BY <1>1, <2>1, <2>2
<1>3. ASSUME NEW r \in Readers, reader[r] # NoSnap PROVE View(reader[r])' = View(reader[r])
  <2> DEFINE s == reader[r]
  <2>1. s \in Live /\ reader'[r] \in Live' /\ reader'[r] = reader[r]
    BY <1>3 DEF Live
  <2>2. \A t : t = reader[r] => View(t)' = View(t)
    BY <2>1, ViewKept
  <2>3. \A t : t = reader'[r] => View(reader[r])' = View(t)'
    OBVIOUS
  <2> QED BY <2>1, <2>2, <2>3
<1> QED BY <1>2, <1>3 DEF Views

\* The initial states are initial states of the atomic store.
LEMMA RefinesInit == Init => Atomic!Init
<1> SUFFICES ASSUME Init PROVE Atomic!Init
  OBVIOUS
<1>1. IInv
  BY InitIInv
<1>2. PICK B \in SUBSET Quads : hist = <<B>>
  BY DEF Init
<1>3. View(current) = hist[1] /\ current.epoch = 0
  BY <1>1, LiveMembers DEF Init, IInv, SnapshotIsolation
<1>4. hist \in {<<D>> : D \in SUBSET Quads}
  BY <1>2
<1>5. \A r \in Readers : reader[r] = NoSnap
  BY DEF Init
<1> QED BY <1>3, <1>4, <1>5 DEF Atomic!Init

\* A reader that takes or drops a snapshot does so in the atomic store; a
\* reader cannot tell a dropped snapshot from one it never took.
LEMMA ReadersRefine ==
    ASSUME IInv, NEW r \in Readers, AcquireSnapshot(r) \/ ReleaseSnapshot(r)
    PROVE  [Atomic!Next]_Atomic!vars
<1>1. /\ UNCHANGED <<storage, current, hist>> /\ reader \in [Readers -> MaybeSnap]
      /\ \A s : View(s)' = View(s)
  BY DEF AcquireSnapshot, ReleaseSnapshot, IInv, TypeInv, View
<1>2. View(current)' = View(current) /\ \A t \in Readers : View(reader[t])' = View(reader'[t])
  BY <1>1
<1>3. CASE AcquireSnapshot(r)
  <2>1. reader[r] = NoSnap /\ reader' = [reader EXCEPT ![r] = current] /\ current # NoSnap
    BY <1>3, ConstantsAssumption DEF AcquireSnapshot, IInv, TypeInv, Snap
  <2>2. reader'[r] = current /\ \A t \in Readers : t # r => reader'[t] = reader[t]
    BY <1>1, <2>1
  <2>3. Views' = [Views EXCEPT ![r] = View(current)] /\ Views[r] = NoSnap
    <3>1. Views'[r] = View(current) /\ Views[r] = NoSnap
      BY <1>2, <2>1, <2>2 DEF Views
    <3>2. \A t \in Readers : t # r => Views'[t] = Views[t]
      BY <1>1, <1>2, <2>2 DEF Views
    <3> QED BY <3>1, <3>2 DEF Views
  <2> QED BY <1>1, <1>2, <2>3 DEF Atomic!Next, Atomic!Acquire, Views
<1>4. CASE ReleaseSnapshot(r)
  <2>1. reader' = [reader EXCEPT ![r] = NoSnap]
    BY <1>4 DEF ReleaseSnapshot
  <2>2. reader'[r] = NoSnap /\ \A t \in Readers : t # r => reader'[t] = reader[t]
    BY <1>1, <2>1
  <2>3. Views' = [Views EXCEPT ![r] = NoSnap]
    <3>1. Views'[r] = NoSnap
      BY <2>2 DEF Views
    <3>2. \A t \in Readers : t # r => Views'[t] = Views[t]
      BY <1>1, <1>2, <2>2 DEF Views
    <3> QED BY <3>1, <3>2 DEF Views
  <2>4. CASE Views[r] = NoSnap
    <3>1. Views' = Views
      BY <2>3, <2>4 DEF Views
    <3> QED BY <1>1, <1>2, <3>1 DEF Atomic!vars, Views
  <2>5. CASE Views[r] # NoSnap
    BY <1>1, <1>2, <2>3, <2>5 DEF Atomic!Next, Atomic!Release, Views
  <2> QED BY <2>4, <2>5
<1> QED BY <1>3, <1>4

\* Recording a transaction appends one dataset; a free reader may keep the
\* snapshot after it.
LEMMA RecordRefines ==
    ASSUME IInv, IInv', RecordNext PROVE [Atomic!Next]_Atomic!vars
<1> DEFINE tx == Head(group.planned)
           snap == [sid |-> group.start.sid, epoch |-> Tip + 1]
           D == (hist[Tip + 1] \ tx.want.dels) \cup tx.want.adds
<1>1. /\ hist' = Append(hist, D) /\ UNCHANGED current
      /\ group' = [group EXCEPT !.planned = Tail(@), !.last = snap]
      /\ \/ reader' = reader
         \/ \E r \in Readers : reader[r] = NoSnap /\ reader' = [reader EXCEPT ![r] = snap]
  BY DEF RecordNext
<1>2. /\ tx.want.dels \in SUBSET Quads /\ tx.want.adds \in SUBSET Quads
      /\ hist \in Seq(SUBSET Quads) /\ Len(hist) = Tip + 1 /\ Tip \in Nat
      /\ reader \in [Readers -> MaybeSnap]
  <2>1. tx \in Tx
    BY DEF RecordNext, IInv, TypeInv
  <2> QED BY <2>1 DEF Tx, IInv, TypeInv, Tip
<1>3. hist'[(Tip + 1) + 1] = D /\ \A e \in 0 .. Tip : hist'[e + 1] = hist[e + 1]
  <2> HIDE DEF D
  <2> QED BY <1>1, <1>2
<1>4. snap \in Live' /\ snap # NoSnap
  <2>1. group'.last = snap
    BY <1>1 DEF IInv, TypeInv
  <2>2. group.start = current
    BY DEF RecordNext, IInv, GroupInv
  <2>3. snap # NoSnap
    BY <1>2, <2>2, ConstantsAssumption DEF IInv, TypeInv, Snap
  <2> HIDE DEF snap
  <2> QED BY <2>1, <2>3 DEF Live
<1>5. \A s : s = snap => View(s)' = D
  <2>1. \A s : s = snap => View(s)' = hist'[s.epoch + 1]
    <3> HIDE DEF snap
    <3> QED BY <1>4 DEF IInv, SnapshotIsolation
  <2>2. snap.epoch = Tip + 1
    OBVIOUS
  <2> HIDE DEF snap, D
  <2> QED BY <1>3, <2>1, <2>2
<1>6. \A s \in Live : s \in Live' => View(s)' = View(s)
  BY <1>3, ViewKept
<1>7. View(current)' = View(current)
  <2>1. current \in Live /\ current # NoSnap
    BY LiveMembers, ConstantsAssumption DEF IInv, TypeInv, Snap
  <2>2. current \in Live'
    BY <1>1, <2>1 DEF Live
  <2>3. \A s : s = current => View(s)' = View(s)
    BY <1>6, <2>1, <2>2
  <2>4. \A s : s = current => View(current)' = View(s)'
    BY <1>1
  <2> QED BY <2>3, <2>4
<1>8. ASSUME NEW t \in Readers, reader'[t] = reader[t] PROVE Views'[t] = Views[t]
  <2>1. CASE reader[t] = NoSnap
    BY <1>8, <2>1 DEF Views
  <2>2. CASE reader[t] # NoSnap
    <3>1. \A s : s = reader[t] => View(s)' = View(s)
      BY <1>6, <1>8, <2>2 DEF Live
    <3>2. \A s : s = reader[t] => View(reader[t])' = View(s)'
      BY <1>8
    <3> QED BY <1>8, <2>2, <3>1, <3>2 DEF Views
  <2> QED BY <2>1, <2>2
<1>9. Views' = Views \/ \E r \in Readers : Views[r] = NoSnap /\ Views' = [Views EXCEPT ![r] = D]
  <2>1. CASE reader' = reader
    <3>1. \A t \in Readers : Views'[t] = Views[t]
      BY <1>8, <2>1
    <3> QED BY <3>1 DEF Views
  <2>2. ASSUME NEW r \in Readers, reader[r] = NoSnap, reader' = [reader EXCEPT ![r] = snap]
        PROVE  Views[r] = NoSnap /\ Views' = [Views EXCEPT ![r] = D]
    <3> HIDE DEF snap, D
    <3>1. reader'[r] = snap /\ \A t \in Readers : t # r => reader'[t] = reader[t]
      BY <1>2, <2>2
    <3>2. \A s : s = reader'[r] => View(reader[r])' = View(s)'
      OBVIOUS
    <3>3. Views'[r] = D
      BY <1>4, <1>5, <3>1, <3>2 DEF Views
    <3>4. \A t \in Readers : t # r => Views'[t] = Views[t]
      BY <1>8, <3>1
    <3>5. Views[r] = NoSnap /\ DOMAIN Views = Readers /\ DOMAIN Views' = Readers
          /\ Views = [t \in Readers |-> Views[t]] /\ Views' = [t \in Readers |-> Views'[t]]
      BY <2>2 DEF Views
    <3> QED BY <3>3, <3>4, <3>5
  <2> QED BY <1>1, <2>1, <2>2
<1>10. D = (hist[Len(hist)] \ tx.want.dels) \cup tx.want.adds
  BY <1>2
<1> HIDE DEF tx, snap, D
<1>11. \E dels, adds \in SUBSET Quads : D = (hist[Len(hist)] \ dels) \cup adds
  BY <1>2, <1>10
<1>12. \E dels, adds \in SUBSET Quads : Atomic!Apply(dels, adds)
  BY <1>1, <1>7, <1>9, <1>11 DEF Atomic!Apply, Views
<1> QED BY <1>12 DEF Atomic!Next

\* Publishing makes the last recorded dataset the one a query reads.
LEMMA PublishRefines ==
    ASSUME IInv, IInv', Publish PROVE [Atomic!Next]_Atomic!vars
<1>1. /\ current' = group.last /\ current'.epoch = Tip /\ current'.sid = current.sid
      /\ UNCHANGED <<storage, reader, hist>>
  BY DEF Publish, IInv, GroupInv
<1>2. \A s : View(s)' = View(s)
  BY <1>1 DEF View
<1>3. Views' = Views
  BY <1>1, <1>2 DEF Views
<1>4. current.epoch \in 0 .. Tip /\ Tip \in Nat /\ Len(hist) = Tip + 1 /\ current \in Live
  BY LiveMembers DEF IInv, LiveInv, TypeInv, Tip
<1>5. View(current)' = hist[Tip + 1]
  <2>1. current' \in Live'
    BY ConstantsAssumption DEF Live, IInv, TypeInv, Snap
  <2> QED BY <1>1, <2>1 DEF IInv, SnapshotIsolation
<1>6. CASE current.epoch = Tip
  <2>1. View(current) = hist[Tip + 1]
    BY <1>4, <1>6 DEF IInv, SnapshotIsolation
  <2> QED BY <1>1, <1>3, <1>5, <1>6, <2>1 DEF Atomic!vars, Views
<1>7. CASE current.epoch < Tip
  BY <1>1, <1>3, <1>4, <1>5, <1>7 DEF Atomic!Next, Atomic!Publish, Views
<1> QED BY <1>4, <1>6, <1>7

\* Every step is a step of the atomic store or one it does not show.
LEMMA RefinesNext ==
    ASSUME IInv, IInv', [Next]_vars PROVE [Atomic!Next]_Atomic!vars
<1>1. CASE UNCHANGED <<reader, hist>> /\ current'.epoch = current.epoch
  <2>1. View(current)' = View(current) /\ Views' = Views
    BY <1>1, Unseen
  <2> QED BY <1>1, <2>1 DEF Atomic!vars, Views
<1>2. CASE \E r \in Readers : AcquireSnapshot(r) \/ ReleaseSnapshot(r)
  BY <1>2, ReadersRefine
<1>3. CASE SwapPublish \/ CompactEphemeral
  <2>1. UNCHANGED <<reader, hist>> /\ current'.epoch = current.epoch
    BY <1>3 DEF SwapPublish, CompactEphemeral
  <2> QED BY <1>1, <2>1
<1>4. \/ UNCHANGED <<reader, hist, current>> \/ RecordNext \/ Publish \/ SwapPublish \/ CompactEphemeral
      \/ \E r \in Readers : AcquireSnapshot(r) \/ ReleaseSnapshot(r)
  BY DEF Next, vars, BeginGroup, PlanTx, GroupDurable, GroupDropped, GcSnapshot, GcFloor, GcSweep,
         MergeFreeze, MergeBuild, ShadowPass, SwapTail, MergeFail
<1> QED BY <1>1, <1>2, <1>3, <1>4, RecordRefines, PublishRefines

\* The store implements the atomic store: every commit appends one dataset to
\* the history, and no step of a group, a collection, a merge or a compaction
\* shows in what a query or a snapshot reads.
THEOREM Refinement == Spec => RefinesAtomicStore
BY RefinesInit, RefinesNext, Inductive, PTL DEF Spec, RefinesAtomicStore, Atomic!Spec
=============================================================================
