----------------------------- MODULE GroupCommit -----------------------------
(***************************************************************************)
(* Group commit and write leadership of graphy-store's Store (store.rs):   *)
(* concurrent apply_with calls elect a leader, the others queue behind it  *)
(* and wait on a slot; a merge swap, a compaction or an ordering swap      *)
(* takes the same leadership with priority over later commits.             *)
(*                                                                         *)
(* A transaction adds or deletes one quad; a snapshot is the dataset it    *)
(* reads.  Epochs and the delta are SnapshotStore's subject, the bytes of  *)
(* the log DurableStore's: here the log is the dataset a reopen yields.    *)
(***************************************************************************)
EXTENDS Integers, Sequences, FiniteSets, Functions

CONSTANTS
    Writers,    \* threads calling apply_with
    Swapper,    \* the holder of merge_lock: merge, compaction, add_ordering
    Quads,      \* the quads the transactions touch
    NoReply,    \* "the call has no result yet"
    Failed      \* the result Err(_)

ASSUME ConstantsAssumption ==
    /\ Swapper \notin Writers
    /\ NoReply # Failed
    /\ \A S \in SUBSET Quads : S # NoReply /\ S # Failed

VARIABLES
    pc,             \* where each thread is
    req,            \* the transaction each writer is committing
    reply,          \* its result: NoReply, Failed, or the snapshot it is handed
    pending,        \* WriterQueue::pending, the queued writers
    leader,         \* WriterQueue::leader
    swap_waiting,   \* WriterQueue::swap_waiting
    run,            \* the locals of the one running run_group
    now,            \* Store::current
    disk,           \* what the log of the store directory replays to
    poisoned        \* Store::poisoned

vars == <<pc, req, reply, pending, leader, swap_waiting, run, now, disk, poisoned>>

Threads == Writers \cup {Swapper}
Req == [op : {"add", "del"}, quad : Quads]

Perform(r, ds) == IF r.op = "add" THEN ds \cup {r.quad} ELSE ds \ {r.quad}

\* The locals of run_group: transactions still to plan, start + carry, the
\* planned ones with the dataset after each, the last one recorded.
IdleRun == [todo |-> <<>>, work |-> {}, planned |-> <<>>, last |-> {}]
StartRun(todo) == [todo |-> todo, work |-> now, planned |-> <<>>, last |-> now]

Init ==
    /\ pc = [t \in Threads |-> "idle"]
    /\ req \in [Writers -> Req]
    /\ reply = [w \in Writers |-> NoReply]
    /\ pending = <<>>
    /\ leader = FALSE
    /\ swap_waiting = FALSE
    /\ run = IdleRun
    /\ now \in SUBSET Quads
    /\ disk = now
    /\ poisoned = FALSE

-----------------------------------------------------------------------------
(* apply_with.                                                             *)

\* check_poisoned: a poisoned handle refuses the call at the door.
Call(w, r) ==
    /\ pc[w] = "idle"
    /\ req' = [req EXCEPT ![w] = r]
    /\ \/ /\ ~poisoned
          /\ pc' = [pc EXCEPT ![w] = "enter"]
          /\ reply' = [reply EXCEPT ![w] = NoReply]
       \/ /\ poisoned
          /\ reply' = [reply EXCEPT ![w] = Failed]
          /\ pc' = pc
    /\ UNCHANGED <<pending, leader, swap_waiting, run, now, disk, poisoned>>

\* Mutant: the flag of a waiting swap is checked, the leader's is not.
EnterIgnoresLeader(w) ==
    /\ pc[w] = "enter"
    /\ IF swap_waiting
       THEN /\ pending' = Append(pending, w)
            /\ pc' = [pc EXCEPT ![w] = "wait"]
            /\ leader' = leader
       ELSE /\ leader' = TRUE
            /\ pc' = [pc EXCEPT ![w] = "lead"]
            /\ pending' = pending
    /\ UNCHANGED <<req, reply, swap_waiting, run, now, disk, poisoned>>

\* Queue behind a leader or a waiting swap, or else lead.
Enter(w) ==
    /\ pc[w] = "enter"
    /\ IF leader \/ swap_waiting
       THEN /\ pending' = Append(pending, w)
            /\ pc' = [pc EXCEPT ![w] = "wait"]
            /\ leader' = leader
       ELSE /\ leader' = TRUE
            /\ pc' = [pc EXCEPT ![w] = "lead"]
            /\ pending' = pending
    /\ UNCHANGED <<req, reply, swap_waiting, run, now, disk, poisoned>>

\* Mutant: the queue is read, not taken.
TakeFirstKeepsQueue(w) ==
    /\ pc[w] = "lead"
    /\ run' = StartRun(<<w>> \o pending)
    /\ pc' = [pc EXCEPT ![w] = "plan"]
    /\ UNCHANGED <<req, reply, pending, leader, swap_waiting, now, disk, poisoned>>

\* The leader's first group: its own transaction and what queued meanwhile.
TakeFirst(w) ==
    /\ pc[w] = "lead"
    /\ run' = StartRun(<<w>> \o pending)
    /\ pending' = <<>>
    /\ pc' = [pc EXCEPT ![w] = "plan"]
    /\ UNCHANGED <<req, reply, leader, swap_waiting, now, disk, poisoned>>

\* Slot::wait returns.
Return(w) ==
    /\ pc[w] = "wait"
    /\ reply[w] # NoReply
    /\ pc' = [pc EXCEPT ![w] = "idle"]
    /\ UNCHANGED <<req, reply, pending, leader, swap_waiting, run, now, disk, poisoned>>

-----------------------------------------------------------------------------
(* run_group, by whichever thread t leads.                                 *)

\* plan_one for the head of the group.  A transaction without effect on
\* start + carry is answered at once with the published snapshot.
PlanNext(t) ==
    LET w == Head(run.todo)
        after == Perform(req[w], run.work)
    IN  /\ pc[t] = "plan"
        /\ run.todo # <<>>
        /\ \/ /\ after # run.work
              /\ run' = [run EXCEPT !.todo = Tail(@), !.work = after,
                                    !.planned = Append(@, [w |-> w, view |-> after])]
              /\ reply' = reply
           \/ /\ after = run.work
              /\ run' = [run EXCEPT !.todo = Tail(@)]
              /\ reply' = [reply EXCEPT ![w] = now]
        /\ UNCHANGED <<pc, req, pending, leader, swap_waiting, now, disk, poisoned>>

\* plan_one fails: an invalid quad, or the hard budget without a merger.
PlanRejects(t) ==
    /\ pc[t] = "plan"
    /\ run.todo # <<>>
    /\ run' = [run EXCEPT !.todo = Tail(@)]
    /\ reply' = [reply EXCEPT ![Head(run.todo)] = Failed]
    /\ UNCHANGED <<pc, req, pending, leader, swap_waiting, now, disk, poisoned>>

\* Mutant: only the first transaction of the group reaches the log.
GroupWrittenShort(t) ==
    /\ pc[t] = "plan"
    /\ run.todo = <<>>
    /\ run.planned # <<>>
    /\ pc' = [pc EXCEPT ![t] = "record"]
    /\ disk' = run.planned[1].view
    /\ UNCHANGED <<req, reply, pending, leader, swap_waiting, run, now, poisoned>>

\* Wal::commit_group succeeds; with nothing planned it does nothing.
GroupWritten(t) ==
    /\ pc[t] = "plan"
    /\ run.todo = <<>>
    /\ \/ /\ run.planned = <<>>
          /\ pc' = [pc EXCEPT ![t] = "drain"]
          /\ run' = IdleRun
          /\ disk' = disk
       \/ /\ run.planned # <<>>
          /\ pc' = [pc EXCEPT ![t] = "record"]
          /\ disk' = run.work
          /\ run' = run
    /\ UNCHANGED <<req, reply, pending, leader, swap_waiting, now, poisoned>>

\* Mutant: the failed group is recorded and published all the same.
GroupFailedPublishes(t) ==
    /\ pc[t] = "plan"
    /\ run.todo = <<>>
    /\ run.planned # <<>>
    /\ pc' = [pc EXCEPT ![t] = "record"]
    /\ UNCHANGED <<req, reply, pending, leader, swap_waiting, run, now, disk, poisoned>>

\* Mutant: only the first transaction of the failed group is told.
GroupFailedTellsFirst(t) ==
    /\ pc[t] = "plan"
    /\ run.todo = <<>>
    /\ run.planned # <<>>
    /\ reply' = [reply EXCEPT ![run.planned[1].w] = Failed]
    /\ run' = IdleRun
    /\ pc' = [pc EXCEPT ![t] = "drain"]
    /\ UNCHANGED <<req, pending, leader, swap_waiting, now, disk, poisoned>>

\* It fails: every planned transaction fails with it.
GroupFailed(t) ==
    /\ pc[t] = "plan"
    /\ run.todo = <<>>
    /\ run.planned # <<>>
    /\ reply' = [w \in Writers |->
            IF w \in {p.w : p \in Range(run.planned)} THEN Failed ELSE reply[w]]
    /\ run' = IdleRun
    /\ pc' = [pc EXCEPT ![t] = "drain"]
    /\ UNCHANGED <<req, pending, leader, swap_waiting, now, disk, poisoned>>

\* Record the next transaction and hand its caller the snapshot after it.
RecordNext(t) ==
    LET p == Head(run.planned)
    IN  /\ pc[t] = "record"
        /\ run.planned # <<>>
        /\ reply' = [reply EXCEPT ![p.w] = p.view]
        /\ run' = [run EXCEPT !.planned = Tail(@), !.last = p.view]
        /\ UNCHANGED <<pc, req, pending, leader, swap_waiting, now, disk, poisoned>>

Publish(t) ==
    /\ pc[t] = "record"
    /\ run.planned = <<>>
    /\ now' = run.last
    /\ run' = IdleRun
    /\ pc' = [pc EXCEPT ![t] = "drain"]
    /\ UNCHANGED <<req, reply, pending, leader, swap_waiting, disk, poisoned>>

\* notify_all on leader_cv: the swap is the only thread that sleeps there.
Notify(p) == [p EXCEPT ![Swapper] = IF @ = "asleep" THEN "woken" ELSE @]

\* Mutant: leadership is released after one group, whatever queued.
DrainOnce(t) ==
    /\ pc[t] = "drain"
    /\ leader' = FALSE
    /\ pc' = Notify([pc EXCEPT ![t] = "idle"])
    /\ UNCHANGED <<req, reply, pending, run, swap_waiting, now, disk, poisoned>>

\* Mutant: the drain does not yield to a waiting swap.
DrainWhileQueued(t) ==
    /\ pc[t] = "drain"
    /\ IF pending = <<>>
       THEN /\ leader' = FALSE
            /\ pc' = Notify([pc EXCEPT ![t] = "idle"])
            /\ UNCHANGED <<pending, run>>
       ELSE /\ run' = StartRun(pending)
            /\ pending' = <<>>
            /\ pc' = [pc EXCEPT ![t] = "plan"]
            /\ UNCHANGED leader
    /\ UNCHANGED <<req, reply, swap_waiting, now, disk, poisoned>>

\* One turn of drain_leadership: release leadership when nothing is queued or
\* a swap waits, else run the queue as the next group.
Drain(t) ==
    /\ pc[t] = "drain"
    /\ IF pending = <<>> \/ swap_waiting
       THEN /\ leader' = FALSE
            /\ pc' = Notify([pc EXCEPT ![t] = "idle"])
            /\ UNCHANGED <<pending, run>>
       ELSE /\ run' = StartRun(pending)
            /\ pending' = <<>>
            /\ pc' = [pc EXCEPT ![t] = "plan"]
            /\ UNCHANGED leader
    /\ UNCHANGED <<req, reply, swap_waiting, now, disk, poisoned>>

-----------------------------------------------------------------------------
(* The swap: acquire_leadership, an exclusive section, drain_leadership.   *)

SwapRequest ==
    /\ pc[Swapper] = "idle"
    /\ ~poisoned
    /\ \/ /\ leader
          /\ swap_waiting' = TRUE
          /\ pc' = [pc EXCEPT ![Swapper] = "asleep"]
          /\ leader' = leader
       \/ /\ ~leader
          /\ leader' = TRUE
          /\ pc' = [pc EXCEPT ![Swapper] = "swap"]
          /\ swap_waiting' = swap_waiting
    /\ UNCHANGED <<req, reply, pending, run, now, disk, poisoned>>

\* Back from the condition variable.
SwapAcquire ==
    /\ pc[Swapper] = "woken"
    /\ IF leader
       THEN /\ pc' = [pc EXCEPT ![Swapper] = "asleep"]
            /\ UNCHANGED <<leader, swap_waiting>>
       ELSE /\ pc' = [pc EXCEPT ![Swapper] = "swap"]
            /\ leader' = TRUE
            /\ swap_waiting' = FALSE
    /\ UNCHANGED <<req, reply, pending, run, now, disk, poisoned>>

\* The exclusive section ends: swapped, or failed with nothing changed.
SwapEnds ==
    /\ pc[Swapper] = "swap"
    /\ pc' = [pc EXCEPT ![Swapper] = "drain"]
    /\ UNCHANGED <<req, reply, pending, leader, swap_waiting, run, now, disk, poisoned>>

\* The swap fails past its point of no return; the queue is drained all the
\* same.  Where the drained groups are written is DurableStore's subject.
SwapPoisons ==
    /\ pc[Swapper] = "swap"
    /\ pc' = [pc EXCEPT ![Swapper] = "drain"]
    /\ poisoned' = TRUE
    /\ UNCHANGED <<req, reply, pending, leader, swap_waiting, run, now, disk>>

-----------------------------------------------------------------------------

Progress(t) ==
    \/ PlanNext(t)
    \/ PlanRejects(t)
    \/ GroupWritten(t)
    \/ GroupFailed(t)
    \/ RecordNext(t)
    \/ Publish(t)
    \/ Drain(t)

Next ==
    \/ \E w \in Writers : \E r \in Req : Call(w, r)
    \/ \E w \in Writers : Enter(w) \/ TakeFirst(w) \/ Return(w)
    \/ \E t \in Threads : Progress(t)
    \/ SwapRequest
    \/ SwapAcquire
    \/ SwapEnds
    \/ SwapPoisons

\* A thread inside a call keeps running; nobody has to make a call.
Fairness ==
    /\ \A w \in Writers : WF_vars(Enter(w)) /\ WF_vars(TakeFirst(w)) /\ WF_vars(Return(w))
    /\ \A t \in Threads : WF_vars(Progress(t))
    /\ WF_vars(SwapAcquire)
    /\ WF_vars(SwapEnds \/ SwapPoisons)

Spec == Init /\ [][Next]_vars

FairSpec == Spec /\ Fairness

-----------------------------------------------------------------------------
(* Properties.                                                             *)

Leading == {"lead", "plan", "record", "drain", "swap"}
Leaders == {t \in Threads : pc[t] \in Leading}

\* The writers somebody has to answer: queued, or in the running group.
Queued == Range(pending)
InGroup == Range(run.todo) \cup {p.w : p \in Range(run.planned)}

TypeOK ==
    /\ pc \in [Threads -> {"idle", "enter", "wait", "asleep", "woken"} \cup Leading]
    /\ req \in [Writers -> Req]
    /\ reply \in [Writers -> {NoReply, Failed} \cup SUBSET Quads]
    /\ pending \in Seq(Writers)
    /\ leader \in BOOLEAN /\ swap_waiting \in BOOLEAN
    /\ poisoned \in BOOLEAN
    /\ run.todo \in Seq(Writers)
    /\ run.planned \in Seq([w : Writers, view : SUBSET Quads])
    /\ run.work \subseteq Quads /\ run.last \subseteq Quads
    /\ now \subseteq Quads /\ disk \subseteq Quads

\* Leadership is mutual exclusion: "while held, no commit plans against the
\* old generation and no publish races the generation swap".
OneLeader ==
    /\ \A t, u \in Leaders : t = u
    /\ leader <=> Leaders # {}

\* No queued transaction is ever left behind: while the queue holds one, a
\* leader will look at the queue again or a swap will.
NoOrphans ==
    /\ pending # <<>> => leader \/ swap_waiting
    /\ swap_waiting <=> pc[Swapper] \in {"asleep", "woken"}
    /\ pc[Swapper] = "asleep" => leader

\* Every unanswered follower is in the queue or in the running group, and
\* in one of them once.
EachAnsweredOnce ==
    /\ \A w \in Writers :
          pc[w] = "wait" /\ reply[w] = NoReply <=> w \in Queued \cup (InGroup \ Leaders)
    /\ Len(pending) = Cardinality(Queued)
    /\ Queued \cap InGroup = {}

\* "WAL-logged and fsynced before the delta applies": what readers see is
\* what a reopen recovers, except while a written group is being recorded.
VisibleIsLogged ==
    (\A t \in Threads : pc[t] # "record") => now = disk

\* A failed group leaves nothing behind and a successful one everything: the
\* log moves from one published dataset to the dataset after the last
\* planned transaction, in the order of the queue.
GroupAtomic ==
    [][disk' # disk => /\ run.planned # <<>>
                       /\ disk' = run.planned[Len(run.planned)].view
                       /\ disk = now]_vars

\* A queued follower is answered, whoever leads and however often a swap
\* takes over.
FollowersReturn == \A w \in Writers : pc[w] = "wait" ~> pc[w] = "idle"

\* A waiting swap gets leadership although commits keep arriving: "or
\* sustained write load starves the swap indefinitely".
SwapNotStarved == pc[Swapper] = "asleep" ~> pc[Swapper] = "swap"

\* "atomically visible at the returned snapshot's epoch": a call that returns
\* Ok holds a snapshot in which its transaction has happened.
AckedVisible ==
    \A w \in Writers : reply[w] \notin {NoReply, Failed} =>
        Perform(req[w], reply[w]) = reply[w]
=============================================================================
