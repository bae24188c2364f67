---------------------------- MODULE DurableStore ----------------------------
(***************************************************************************)
(* The durable half of graphy-store: the write-ahead log (wal.rs), the     *)
(* merge's fsync schedule (merge_with, swap_generation, write_current,     *)
(* RotationStage, activate_rotated) and recovery (open_with, replay,       *)
(* clean_debris), under process kills, power losses and I/O errors.        *)
(*                                                                         *)
(* A log is a sequence of records of which a prefix is synced; a directory *)
(* is the sequence of its states since the last directory fsync.  A power  *)
(* loss keeps at least what was synced; what follows a torn frame never    *)
(* replays, so a cut log is a prefix of its records.                       *)
(***************************************************************************)
EXTENDS Integers, Sequences, FiniteSets, Functions

CONSTANTS
    Absent,     \* no such generation directory
    Partial,    \* a generation directory whose build has not completed
    Envs        \* the environments: [quads, crashes, faults, maxEpoch, maxGen, maxCrash]

ASSUME ConstantsAssumption ==
    /\ Absent # Partial
    /\ \A e \in Envs :
          /\ e.crashes \subseteq {"kill", "power"}
          /\ e.faults \subseteq {"write", "rollback", "flip", "activate"}
          /\ e.maxEpoch \in Nat /\ e.maxGen \in Nat /\ e.maxCrash \in Nat
          /\ \A S \in SUBSET e.quads : S # Absent /\ S # Partial

VARIABLES
    dirs,      \* the store directory: last state live, first state durable
    logs,      \* the two log files, wal.log and the one staged to replace it
    mem,       \* the open Store handle
    merge,     \* the locals of merge_with and swap_generation
    hist,      \* history variable: hist[e + 1] is the dataset of epoch e
    acked,     \* history variable: the last epoch acknowledged as Strict
    crashes,   \* crashes so far
    env        \* the environment, one for a whole behaviour

vars == <<dirs, logs, mem, merge, hist, acked, crashes, env>>

Quads == env.quads          \* the quads the transactions are made of
Crashes == env.crashes      \* which of "kill" and "power" may happen
Faults == env.faults        \* which of "write", "rollback", "flip", "activate" may fail
MaxEpoch == env.maxEpoch    \* bound on commits
MaxGen == env.maxGen        \* bound on generations
MaxCrash == env.maxCrash    \* bound on crashes

Gens == 0 .. MaxGen
dir == dirs[Len(dirs)]
Prefix(s, n) == SubSeq(s, 1, n)

\* The elements of a sequence at some of its indices, in order.
Keeping(s, I) ==
    LET kept[i \in 0 .. Len(s)] ==
            IF i = 0 THEN <<>>
            ELSE IF i \in I THEN Append(kept[i - 1], s[i]) ELSE kept[i - 1]
    IN  kept
Keep(s, I) == Keeping(s, I)[Len(s)]

\* The transactions of the epochs above f.
After(txs, f) == Keep(txs, {i \in DOMAIN txs : txs[i].epoch > f})

Built(d, g) == d.base[g] \notin {Absent, Partial}

\* The directory after a change that has not been fsynced.
Changed(d) == IF d = dir THEN dirs ELSE Append(dirs, d)

Tx(e, dels, adds) == [kind |-> "tx", epoch |-> e, dels |-> dels, adds |-> adds]
Checkpoint(f) == [kind |-> "checkpoint", epoch |-> f, dels |-> {}, adds |-> {}]

\* The dataset of a base and a list of transactions: the last transaction
\* that names a quad decides (a transaction deletes before it adds).
Data(base, txs) ==
    {q \in Quads :
        LET I == {i \in DOMAIN txs : q \in txs[i].dels \cup txs[i].adds}
        IN  IF I = {} THEN q \in base
            ELSE q \in txs[CHOOSE i \in I : \A j \in I : j <= i].adds}

ClosedMem == [up |-> FALSE, gen |-> 0, epoch |-> 0, base |-> {}, delta |-> <<>>,
              wal |-> 0, written |-> 0, broken |-> FALSE, poisoned |-> FALSE,
              retired |-> {}]
IdleMerge == [phase |-> "idle", f |-> 0, data |-> {}, mark |-> 0, header |-> FALSE]
EmptyLog == [recs |-> <<>>, synced |-> 0]

View == Data(mem.base, mem.delta)
new_gen == mem.gen + 1
stage == 1 - mem.wal

Init ==
    /\ env \in Envs
    /\ \E B \in SUBSET Quads :
          /\ dirs = <<[current |-> 0, wal |-> 0,
                       base |-> [g \in Gens |-> IF g = 0 THEN B ELSE Absent]]>>
          /\ hist = <<B>>
    /\ logs = [i \in {0, 1} |-> EmptyLog]
    /\ mem = ClosedMem
    /\ merge = IdleMerge
    /\ acked = 0
    /\ crashes = 0

-----------------------------------------------------------------------------
(* Commit groups: written as one unit, acknowledged after the fsync a      *)
(* Strict member asks for.  The group in flight is what hist has beyond    *)
(* mem.epoch.                                                              *)

InFlight == Len(hist) - 1 > mem.epoch

\* Leadership and the log are free: no swap between its tail pass and its
\* end, and check_poisoned passed, or the swap drains the queue it kept.
CanCommit ==
    /\ mem.up
    /\ ~mem.broken
    /\ merge.phase \notin {"staged", "flipped", "pointed", "renamed"}
    /\ ~mem.poisoned \/ merge.phase = "drain"

\* append_tx_terms and the part of write_all that covers it.
WriteTx(dels, adds) ==
    LET before == hist[Len(hist)]
        after == (before \ dels) \cup adds
    IN  /\ CanCommit
        /\ Len(hist) <= MaxEpoch
        /\ dels \subseteq before
        /\ adds \cap (before \ dels) = {}
        /\ dels \cup adds # {}
        /\ hist' = Append(hist, after)
        /\ logs' = [logs EXCEPT ![mem.wal].recs = Append(@, Tx(Len(hist), dels, adds))]
        /\ UNCHANGED <<dirs, mem, merge, acked, crashes>>

\* commit_group returned Ok: recorded, published, acknowledged.
GroupDone(strict) ==
    LET recs == logs[mem.wal].recs
    IN  /\ CanCommit
        /\ InFlight
        /\ mem' = [mem EXCEPT !.epoch = Len(hist) - 1, !.written = Len(recs),
                              !.delta = @ \o SubSeq(recs, mem.written + 1, Len(recs))]
        /\ logs' = [logs EXCEPT ![mem.wal].synced = IF strict THEN Len(recs) ELSE @]
        /\ acked' = IF strict THEN Len(hist) - 1 ELSE acked
        /\ UNCHANGED <<dirs, merge, hist, crashes>>

\* The write or the fsync failed and the file was cut back.
GroupFails ==
    /\ "write" \in Faults
    /\ CanCommit
    /\ InFlight
    /\ logs' = [logs EXCEPT ![mem.wal].recs = Prefix(@, mem.written)]
    /\ hist' = Prefix(hist, mem.epoch + 1)
    /\ UNCHANGED <<dirs, mem, merge, acked, crashes>>

\* It could not be cut back: the Wal handle is poisoned, and the failed
\* transactions stay in the file.
GroupStuck ==
    /\ "rollback" \in Faults
    /\ CanCommit
    /\ InFlight
    /\ mem' = [mem EXCEPT !.broken = TRUE]
    /\ UNCHANGED <<dirs, logs, merge, hist, acked, crashes>>

-----------------------------------------------------------------------------
(* The merge.                                                              *)

\* The freeze snapshot, and MergeStart logged with an fsync.
MergeStart ==
    /\ mem.up /\ ~mem.poisoned /\ ~mem.broken /\ ~InFlight
    /\ merge.phase = "idle"
    /\ mem.gen < MaxGen
    /\ logs' = [logs EXCEPT ![mem.wal].synced = Len(logs[mem.wal].recs)]
    /\ merge' = [IdleMerge EXCEPT !.phase = "started", !.f = mem.epoch,
                                  !.data = View, !.mark = mem.epoch]
    /\ UNCHANGED <<dirs, mem, hist, acked, crashes>>

\* Mutant: the build goes to the live generation's directory.
BuildBeginInPlace ==
    /\ merge.phase = "started"
    /\ merge' = [merge EXCEPT !.phase = "building"]
    /\ dirs' = Changed([dir EXCEPT !.base[mem.gen] = Partial])
    /\ UNCHANGED <<logs, mem, hist, acked, crashes>>

\* A leftover generation directory of the same name is removed first.
BuildBegin ==
    /\ merge.phase = "started"
    /\ merge' = [merge EXCEPT !.phase = "building"]
    /\ dirs' = Changed([dir EXCEPT !.base[new_gen] = Partial])
    /\ UNCHANGED <<logs, mem, hist, acked, crashes>>

\* Components fsynced, manifest last, then the store directory fsynced;
\* SuffixRemap::new creates the staged log, its header still buffered.
BuildDone ==
    /\ merge.phase = "building"
    /\ merge' = [merge EXCEPT !.phase = "shadow"]
    /\ dirs' = <<[dir EXCEPT !.base[new_gen] = merge.data]>>
    /\ logs' = [logs EXCEPT ![stage] = EmptyLog]
    /\ UNCHANGED <<mem, hist, acked, crashes>>

\* SuffixRemap::pass: nothing for an empty range, else the buffered header
\* and the suffix's transactions are written, not fsynced.
Staged(upto) ==
    IF upto <= merge.mark THEN logs[stage].recs
    ELSE logs[stage].recs \o (IF merge.header THEN <<>> ELSE <<Checkpoint(merge.f)>>)
            \o Keep(mem.delta, {i \in DOMAIN mem.delta :
                                merge.mark < mem.delta[i].epoch /\ mem.delta[i].epoch <= upto})

ShadowPass ==
    /\ merge.phase = "shadow"
    /\ mem.epoch > merge.mark
    /\ merge' = [merge EXCEPT !.mark = mem.epoch, !.header = TRUE]
    /\ logs' = [logs EXCEPT ![stage].recs = Staged(mem.epoch)]
    /\ UNCHANGED <<dirs, mem, hist, acked, crashes>>

\* RotationStage::finish is commit_group(Strict): it fsyncs what is still
\* buffered, and returns at once when nothing is.
finish(recs, buffered) ==
    IF buffered
    THEN [recs |-> Append(recs, Checkpoint(merge.f)), synced |-> Len(recs) + 1]
    ELSE [recs |-> recs, synced |-> logs[stage].synced]

\* Mutant: the exclusive section does no tail pass.
SwapTailSkipped ==
    /\ merge.phase = "shadow"
    /\ ~InFlight \/ mem.broken
    /\ merge' = [merge EXCEPT !.phase = "staged", !.header = TRUE]
    /\ logs' = [logs EXCEPT ![stage] = finish(logs[stage].recs, ~merge.header)]
    /\ UNCHANGED <<dirs, mem, hist, acked, crashes>>

\* acquire_leadership, the tail pass, finish.
SwapTail ==
    LET header == merge.header \/ mem.epoch > merge.mark
    IN  /\ merge.phase = "shadow"
        /\ ~InFlight \/ mem.broken
        /\ merge' = [merge EXCEPT !.phase = "staged", !.mark = mem.epoch, !.header = TRUE]
        /\ logs' = [logs EXCEPT ![stage] = finish(Staged(mem.epoch), ~header)]
        /\ UNCHANGED <<dirs, mem, hist, acked, crashes>>

\* write_current up to its rename.
Flip ==
    /\ merge.phase = "staged"
    /\ merge' = [merge EXCEPT !.phase = "flipped"]
    /\ dirs' = Changed([dir EXCEPT !.current = new_gen])
    /\ UNCHANGED <<logs, mem, hist, acked, crashes>>

FlipSync ==
    /\ merge.phase = "flipped"
    /\ merge' = [merge EXCEPT !.phase = "pointed"]
    /\ dirs' = <<dir>>
    /\ UNCHANGED <<logs, mem, hist, acked, crashes>>

\* The directory fsync of write_current fails: the merge returns the error.
FlipFails ==
    /\ "flip" \in Faults
    /\ merge.phase = "flipped"
    /\ merge' = [IdleMerge EXCEPT !.phase = "drain"]
    /\ UNCHANGED <<dirs, logs, mem, hist, acked, crashes>>

\* activate_rotated up to its rename.
Rename ==
    /\ merge.phase = "pointed"
    /\ merge' = [merge EXCEPT !.phase = "renamed"]
    /\ dirs' = Changed([dir EXCEPT !.wal = stage])
    /\ UNCHANGED <<logs, mem, hist, acked, crashes>>

\* Mutant: the new generation starts with an empty delta.
ActivateLosesSuffix ==
    /\ merge.phase = "renamed"
    /\ dirs' = <<dir>>
    /\ mem' = [mem EXCEPT !.wal = stage, !.written = Len(logs[stage].recs),
                          !.broken = FALSE, !.gen = new_gen, !.base = merge.data,
                          !.delta = <<>>, !.retired = @ \cup {mem.gen}]
    /\ hist' = Prefix(hist, mem.epoch + 1)
    /\ merge' = [IdleMerge EXCEPT !.phase = "drain"]
    /\ UNCHANGED <<logs, acked, crashes>>

\* Its directory fsync and reopen, then the publish of the new generation.
Activate ==
    /\ merge.phase = "renamed"
    /\ dirs' = <<dir>>
    /\ mem' = [mem EXCEPT !.wal = stage, !.written = Len(logs[stage].recs),
                          !.broken = FALSE, !.gen = new_gen, !.base = merge.data,
                          !.delta = After(@, merge.f),
                          !.retired = @ \cup {mem.gen}]
    /\ hist' = Prefix(hist, mem.epoch + 1)
    /\ merge' = [IdleMerge EXCEPT !.phase = "drain"]
    /\ UNCHANGED <<logs, acked, crashes>>

\* activate_rotated fails, before or after the rename: the handle is poisoned.
ActivateFails ==
    /\ "activate" \in Faults
    /\ merge.phase \in {"pointed", "renamed"}
    /\ mem' = [mem EXCEPT !.poisoned = TRUE]
    /\ merge' = [IdleMerge EXCEPT !.phase = "drain"]
    /\ UNCHANGED <<dirs, logs, hist, acked, crashes>>

\* drain_leadership has emptied the queue the swap kept waiting.
EndDrain ==
    /\ merge.phase = "drain"
    /\ ~InFlight \/ mem.broken
    /\ merge' = IdleMerge
    /\ UNCHANGED <<dirs, logs, mem, hist, acked, crashes>>

\* Any earlier step of a merge fails; what it wrote is debris.
MergeAbort ==
    /\ merge.phase \in {"started", "building", "shadow", "staged"}
    /\ merge' = [IdleMerge EXCEPT !.phase = IF merge.phase = "staged" THEN "drain" ELSE "idle"]
    /\ UNCHANGED <<dirs, logs, mem, hist, acked, crashes>>

\* sweep_retired, once the last snapshot of a generation is gone.
Sweep(g) ==
    /\ g \in mem.retired
    /\ mem' = [mem EXCEPT !.retired = @ \ {g}]
    /\ dirs' = Changed([dir EXCEPT !.base[g] = Absent])
    /\ UNCHANGED <<logs, merge, hist, acked, crashes>>

-----------------------------------------------------------------------------
(* Crashes and recovery.                                                   *)

CutTo(i, n) == [recs |-> Prefix(logs[i].recs, n),
                synced |-> IF logs[i].synced < n THEN logs[i].synced ELSE n]

\* The process dies: the system keeps what was written, but a group write in
\* progress may be cut anywhere.
Kill ==
    /\ "kill" \in Crashes
    /\ mem.up /\ crashes < MaxCrash
    /\ \E n \in mem.written .. Len(logs[mem.wal].recs) :
          logs' = [logs EXCEPT ![mem.wal] = CutTo(mem.wal, n)]
    /\ mem' = ClosedMem
    /\ merge' = IdleMerge
    /\ crashes' = crashes + 1
    /\ UNCHANGED <<dirs, hist, acked>>

\* The machine dies: unsynced log tails and directory changes may be lost.
PowerLoss ==
    /\ "power" \in Crashes
    /\ crashes < MaxCrash
    /\ \E d \in Range(dirs) : dirs' = <<d>>
    /\ \E n \in logs[0].synced .. Len(logs[0].recs), m \in logs[1].synced .. Len(logs[1].recs) :
          logs' = [i \in {0, 1} |-> IF i = 0 THEN CutTo(0, n) ELSE CutTo(1, m)]
    /\ mem' = ClosedMem
    /\ merge' = IdleMerge
    /\ crashes' = crashes + 1
    /\ UNCHANGED <<hist, acked>>

\* The transactions no later checkpoint folds away.
Surviving(recs) ==
    {i \in DOMAIN recs :
        /\ recs[i].kind = "tx"
        /\ \A j \in DOMAIN recs :
              j > i /\ recs[j].kind = "checkpoint" => recs[j].epoch < recs[i].epoch}

\* Mutant: the checkpoint's epoch is not restored.
replay_no_floor(recs) == [txs |-> Keep(recs, Surviving(recs)), checkpoint |-> 0]

\* replay_bytes: what survives, and the newest checkpoint.
replay(recs) ==
    LET folded == {recs[i].epoch : i \in {j \in DOMAIN recs : recs[j].kind = "checkpoint"}}
    IN  [txs |-> Keep(recs, Surviving(recs)),
         checkpoint |-> IF folded = {} THEN 0
                        ELSE CHOOSE f \in folded : \A g \in folded : g <= f]

\* "WAL epochs not increasing" refuses the log.
Increasing(txs) ==
    \A i \in DOMAIN txs : txs[i].epoch > (IF i = 1 THEN 0 ELSE txs[i - 1].epoch)

\* The commit core re-run on the i-th transaction.
Effective(base, txs, i) ==
    LET before == Data(base, Prefix(txs, i - 1))
    IN  [txs[i] EXCEPT !.dels = @ \cap before,
                       !.adds = @ \ (before \ txs[i].dels)]

\* What it leaves in the delta: the transactions that still change something.
Applied(base, txs) ==
    LET effective == [i \in DOMAIN txs |-> Effective(base, txs, i)]
    IN  Keep(effective, {i \in DOMAIN txs : effective[i].dels \cup effective[i].adds # {}})

\* open_with on directory d can succeed.
Opens(d) ==
    /\ Built(d, d.current)
    /\ Increasing(replay(logs[d.wal].recs).txs)

\* open_with: resolve CURRENT, clean_debris, replay, reopen the log.  The
\* other log's contents go when no directory state a power loss could bring
\* back names it.
Open ==
    LET recs == logs[dir.wal].recs
        r == replay(recs)
        base == dir.base[dir.current]
        delta == Applied(base, r.txs)
        last == IF r.txs = <<>> THEN 0 ELSE r.txs[Len(r.txs)].epoch
        epoch == IF last > r.checkpoint THEN last ELSE r.checkpoint
        clean == [dir EXCEPT !.base = [g \in Gens |->
                                          IF g = dir.current THEN base ELSE Absent]]
    IN  /\ ~mem.up
        /\ Opens(dir)
        /\ mem' = [ClosedMem EXCEPT
                !.up = TRUE, !.gen = dir.current, !.epoch = epoch, !.base = base,
                !.delta = delta, !.wal = dir.wal, !.written = Len(recs)]
        /\ dirs' = Changed(clean)
        /\ logs' = [logs EXCEPT ![1 - dir.wal] =
                IF \E d \in Range(dirs) : d.wal # dir.wal THEN @ ELSE EmptyLog]
        /\ hist' = Append(Prefix(hist, epoch), Data(base, delta))
        /\ UNCHANGED <<merge, acked, crashes>>

-----------------------------------------------------------------------------

Next ==
    /\ UNCHANGED env
    /\ \/ \E dels, adds \in SUBSET Quads : WriteTx(dels, adds)
       \/ \E strict \in BOOLEAN : GroupDone(strict)
       \/ GroupFails
       \/ GroupStuck
       \/ MergeStart
       \/ BuildBegin
       \/ BuildDone
       \/ ShadowPass
       \/ SwapTail
       \/ Flip
       \/ FlipSync
       \/ FlipFails
       \/ Rename
       \/ Activate
       \/ ActivateFails
       \/ EndDrain
       \/ MergeAbort
       \/ \E g \in Gens : Sweep(g)
       \/ Kill
       \/ PowerLoss
       \/ Open

Spec == Init /\ [][Next]_vars

-----------------------------------------------------------------------------
(* Properties.                                                             *)

Recovers == ~mem.up /\ mem'.up
Recovered == Data(mem'.base, mem'.delta)

\* The handle reads what was committed at its epoch: through commits, failed
\* groups, folds, rotations and every recovery.
ReadsHistory == mem.up => View = hist[mem.epoch + 1]

\* Processes die but the machine stays up, and the steps of a merge that
\* switch generations and logs do not fail half-way.
KillsOnly == Crashes = {"kill"} /\ Faults \subseteq {"write", "rollback"}

\* Whatever is lost, a reopened store reads some dataset that was committed,
\* never a mixture; after a kill, exactly the one of the epoch it reports: the
\* old log over the new base is a "no-op-safe re-application", and a
\* checkpoint restores the epoch of what it folded.
RecoveryExact ==
    [][Recovers => /\ Recovered \in Range(hist)
                   /\ KillsOnly => /\ mem'.epoch < Len(hist)
                                   /\ Recovered = hist[mem'.epoch + 1]]_vars

\* A commit acknowledged as Strict is there after any crash.
StrictSurvives == [][Recovers => mem'.epoch >= acked]_vars

\* The same after kills only; and under power losses and I/O errors of the
\* merge, for as long as no rotated log has taken over: the first log holds
\* every Strict commit, be it read over the generation it was written for or
\* over the next.
StrictKept ==
    [][Recovers /\ (KillsOnly \/ (dir.wal = 0 /\ dir.current <= 1)) => mem'.epoch >= acked]_vars

\* "CURRENT never points at an uncommitted generation", and the live log is
\* one that replays: the store opens again after a crash at any point.
AlwaysOpens == \A d \in Range(dirs) : Opens(d)

\* The same as long as no directory fsync of CURRENT fails.
OpensUnlessFlipFails == "flip" \notin Faults => AlwaysOpens
=============================================================================
