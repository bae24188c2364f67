------------------------------ MODULE DeltaLog ------------------------------
(***************************************************************************)
(* The per-quad event list of the in-memory delta (graphy-store delta.rs): *)
(* an append-only list of epoch-stamped Add / Tombstone events over an     *)
(* immutable base.  The six scan-order indexes of the code hold the same   *)
(* lists under permuted keys; this module is about one list.               *)
(***************************************************************************)
EXTENDS Integers, Sequences

Kinds == {"Add", "Tombstone"}

Event == [epoch : Nat, kind : Kinds]

NoEvent == "none"

\* The positions a reader at epoch e may look at.
UpTo(evs, e) == {i \in 1 .. Len(evs) : evs[i].epoch <= e}

\* The last of them: what the reverse search of the code stops at.
LastUpTo(evs, e) == CHOOSE i \in UpTo(evs, e) : \A j \in UpTo(evs, e) : j <= i

\* Delta::probe: the effective kind at epoch e, if the list has one.
probe(evs, e) ==
    IF UpTo(evs, e) = {} THEN NoEvent ELSE evs[LastUpTo(evs, e)].kind

\* Snapshot::contains_key: the delta's verdict, else the base's.
contains_key(inBase, evs, e) ==
    \/ probe(evs, e) = "Add"
    \/ probe(evs, e) = NoEvent /\ inBase

\* "Event lists are epoch-sorted (single writer, monotone)": the premise of
\* the partition point of gc and of the skip/take of collect_suffix.
Sorted(evs) ==
    \A i, j \in 1 .. Len(evs) : i <= j => evs[i].epoch <= evs[j].epoch

\* The number of leading events with epoch <= e: partition_point in gc,
\* skip_while and take_while in collect_suffix.
Lead(evs, e) ==
    CHOOSE c \in 0 .. Len(evs) :
        /\ \A i \in 1 .. c : evs[i].epoch <= e
        /\ c < Len(evs) => evs[c + 1].epoch > e

\* Delta::gc on one list: drop what precedes the effective event at `min`,
\* and that event too when it only restates the base.
gc(evs, min, inBase) ==
    LET cut == Lead(evs, min)
        restates_base == (evs[cut].kind = "Add") <=> inBase
    IN  IF cut = 0 THEN evs
        ELSE SubSeq(evs, IF restates_base THEN cut + 1 ELSE cut, Len(evs))

\* Delta::collect_suffix on one list: the events with after < epoch <= upto.
collect_suffix(evs, after, upto) ==
    SubSeq(evs, Lead(evs, after) + 1, Lead(evs, upto))

\* Delta::record on one list: a commit's tombstone precedes its add.
record(evs, entries, q, e) ==
    LET t == IF q \in entries.tombs
             THEN Append(evs, [epoch |-> e, kind |-> "Tombstone"]) ELSE evs
    IN  IF q \in entries.adds
        THEN Append(t, [epoch |-> e, kind |-> "Add"]) ELSE t
=============================================================================
