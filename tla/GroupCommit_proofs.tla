------------------------- MODULE GroupCommit_proofs -------------------------
(***************************************************************************)
(* Leadership is exclusive, no queued call is forgotten, and what readers  *)
(* see is what the log holds, for any number of writers and quads.         *)
(***************************************************************************)
EXTENDS GroupCommit, SequenceTheorems, FiniteSetTheorems, TLAPS

PCs == {"idle", "enter", "wait", "asleep", "woken"} \cup Leading

\* The queue's fields and where the threads are.
LeadInv ==
    /\ pc \in [Threads -> PCs]
    /\ leader \in BOOLEAN
    /\ swap_waiting \in BOOLEAN
    /\ pending \in Seq(Writers)
    /\ \A w \in Writers : pc[w] \notin {"asleep", "woken"}
    /\ OneLeader
    /\ NoOrphans

-----------------------------------------------------------------------------
(* What the actions do to leadership, one lemma per kind of step.          *)

\* A thread that leads goes on leading; the queue may be taken.
LEMMA LeadsOn ==
    ASSUME LeadInv, NEW t \in Threads, NEW x \in Leading, pc[t] \in Leading,
           pc' = [pc EXCEPT ![t] = x], pending' \in {pending, <<>>},
           UNCHANGED <<leader, swap_waiting>>
    PROVE  LeadInv'
<1>1. Leaders' = Leaders
  BY DEF LeadInv, Leaders, Leading
<1>2. OneLeader'
  BY <1>1 DEF LeadInv, OneLeader
<1>3. NoOrphans'
  BY DEF LeadInv, NoOrphans, Leading, Threads
<1>4. pc' \in [Threads -> PCs] /\ \A w \in Writers : pc'[w] \notin {"asleep", "woken"}
  BY DEF LeadInv, PCs, Leading, Threads
<1>5. pending' \in Seq(Writers)
  <2>1. << >> \in Seq(Writers)
    OBVIOUS
  <2>2. pending \in Seq(Writers)
    BY DEF LeadInv
  <2> QED BY <2>1, <2>2
<1> QED BY <1>2, <1>3, <1>4, <1>5 DEF LeadInv

\* A thread that does not lead goes somewhere else outside.
LEMMA StaysOut ==
    ASSUME LeadInv, NEW w \in Writers, NEW x \in {"idle", "enter", "wait"},
           pc[w] \notin Leading, pc' = [pc EXCEPT ![w] = x],
           pending' \in Seq(Writers), pending' = pending \/ leader \/ swap_waiting,
           UNCHANGED <<leader, swap_waiting>>
    PROVE  LeadInv'
<1>1. Leaders' = Leaders
  BY DEF LeadInv, Leaders, Leading, Threads
<1>2. OneLeader'
  BY <1>1 DEF LeadInv, OneLeader
<1>3. NoOrphans'
  BY ConstantsAssumption DEF LeadInv, NoOrphans, Leading, Threads
<1> QED BY <1>2, <1>3 DEF LeadInv, PCs, Leading, Threads

\* A thread takes leadership that is free; a waiting swap stops waiting when
\* it is the one.
LEMMA TakesLead ==
    ASSUME LeadInv, NEW t \in Threads, NEW x \in {"lead", "swap"},
           ~leader, leader' = TRUE, pc' = [pc EXCEPT ![t] = x],
           swap_waiting' = FALSE, t = Swapper \/ ~swap_waiting,
           UNCHANGED pending
    PROVE  LeadInv'
<1>1. Leaders' = {t}
  BY DEF LeadInv, OneLeader, Leaders, Leading
<1>2. OneLeader'
  BY <1>1 DEF LeadInv, OneLeader
<1>3. NoOrphans'
  BY DEF LeadInv, NoOrphans, Leading, Threads
<1>4. pc' \in [Threads -> PCs] /\ \A w \in Writers : pc'[w] \notin {"asleep", "woken"}
  BY DEF LeadInv, PCs, Leading, Threads
<1> QED BY <1>2, <1>3, <1>4 DEF LeadInv

\* The leader lets go, with the queue empty or a swap waiting, and wakes it.
LEMMA LetsGo ==
    ASSUME LeadInv, NEW t \in Threads, pc[t] \in Leading,
           pending = <<>> \/ swap_waiting,
           leader' = FALSE, pc' = Notify([pc EXCEPT ![t] = "idle"]),
           UNCHANGED <<pending, swap_waiting>>
    PROVE  LeadInv'
<1>1. /\ pc' \in [Threads -> PCs]
      /\ pc'[t] = "idle"
      /\ \A u \in Threads : u # t => \/ pc'[u] = pc[u] /\ ~(u = Swapper /\ pc[u] = "asleep")
                                     \/ u = Swapper /\ pc[u] = "asleep" /\ pc'[u] = "woken"
  BY DEF LeadInv, Notify, PCs, Leading, Threads
<1>2. Leaders' = {}
  BY <1>1 DEF LeadInv, OneLeader, Leaders, Leading
<1>3. OneLeader'
  BY <1>2 DEF OneLeader
<1>4. NoOrphans'
  BY <1>1 DEF LeadInv, NoOrphans, Leading, Threads
<1> QED BY <1>1, <1>3, <1>4 DEF LeadInv, Threads, Leading

-----------------------------------------------------------------------------

\* Every step keeps the leadership invariant.
LEMMA LeadStep == ASSUME LeadInv, [Next]_vars PROVE LeadInv'
<1>1. CASE UNCHANGED vars
  BY <1>1 DEF vars, LeadInv, OneLeader, NoOrphans, Leaders
<1>2. ASSUME NEW w \in Writers, NEW r \in Req, Call(w, r) PROVE LeadInv'
  <2>1. pc[w] = "idle" /\ UNCHANGED <<pending, leader, swap_waiting>>
        /\ pc' = [pc EXCEPT ![w] = IF poisoned THEN "idle" ELSE "enter"]
    BY <1>2 DEF Call, LeadInv, Threads
  <2> QED BY <2>1, StaysOut DEF Leading, LeadInv
<1>3. ASSUME NEW w \in Writers, Enter(w) PROVE LeadInv'
  <2>1. CASE leader \/ swap_waiting
    <3>1. /\ pc[w] = "enter" /\ pc' = [pc EXCEPT ![w] = "wait"]
          /\ UNCHANGED <<leader, swap_waiting>> /\ pending' = Append(pending, w)
      BY <1>3, <2>1 DEF Enter
    <3>2. pending' \in Seq(Writers)
      BY <3>1 DEF LeadInv
    <3> QED BY <2>1, <3>1, <3>2, StaysOut DEF Leading
  <2>2. CASE ~(leader \/ swap_waiting)
    <3>1. /\ leader' = TRUE /\ pc' = [pc EXCEPT ![w] = "lead"]
          /\ UNCHANGED <<pending, swap_waiting>>
      BY <1>3, <2>2 DEF Enter
    <3>2. swap_waiting' = FALSE
      BY <2>2, <3>1 DEF LeadInv
    <3> QED BY <2>2, <3>1, <3>2, TakesLead DEF Threads
  <2> QED BY <2>1, <2>2
<1>4. ASSUME NEW w \in Writers, TakeFirst(w) PROVE LeadInv'
  BY <1>4, LeadsOn DEF TakeFirst, Leading, Threads
<1>5. ASSUME NEW w \in Writers, Return(w) PROVE LeadInv'
  BY <1>5, StaysOut DEF Return, Leading, LeadInv
<1>6. ASSUME NEW t \in Threads, PlanNext(t) \/ PlanRejects(t) \/ RecordNext(t) PROVE LeadInv'
  <2>1. UNCHANGED <<pc, pending, leader, swap_waiting>>
    BY <1>6 DEF PlanNext, PlanRejects, RecordNext
  <2> QED BY <2>1 DEF LeadInv, OneLeader, NoOrphans, Leaders
<1>7. ASSUME NEW t \in Threads, GroupWritten(t) PROVE LeadInv'
  <2>1. PICK x \in Leading : pc' = [pc EXCEPT ![t] = x]
    BY <1>7 DEF GroupWritten, Leading
  <2> QED BY <1>7, <2>1, LeadsOn DEF GroupWritten, Leading
<1>8. ASSUME NEW t \in Threads, GroupFailed(t) \/ Publish(t) PROVE LeadInv'
  <2>1. /\ pc[t] \in Leading /\ pc' = [pc EXCEPT ![t] = "drain"]
        /\ UNCHANGED <<pending, leader, swap_waiting>>
    BY <1>8 DEF GroupFailed, Publish, Leading
  <2> QED BY <2>1, LeadsOn DEF Leading
<1>9. ASSUME NEW t \in Threads, Drain(t) PROVE LeadInv'
  <2>1. CASE pending = <<>> \/ swap_waiting
    BY <1>9, <2>1, LetsGo DEF Drain, Leading
  <2>2. CASE ~(pending = <<>> \/ swap_waiting)
    BY <1>9, <2>2, LeadsOn DEF Drain, Leading
  <2> QED BY <2>1, <2>2
<1>10. CASE SwapRequest
  <2>1. Swapper \in Threads
    BY DEF Threads
  <2>2. CASE leader
    <3>1. /\ pc[Swapper] = "idle" /\ swap_waiting' = TRUE /\ UNCHANGED <<leader, pending>>
          /\ pc' = [pc EXCEPT ![Swapper] = "asleep"]
      BY <1>10, <2>2 DEF SwapRequest
    <3>2. Leaders' = Leaders
      BY <2>1, <3>1 DEF LeadInv, Leaders, Leading
    <3>3. OneLeader'
      BY <3>1, <3>2 DEF LeadInv, OneLeader
    <3>4. NoOrphans'
      BY <2>1, <2>2, <3>1 DEF LeadInv, NoOrphans
    <3> QED BY <3>1, <3>3, <3>4, ConstantsAssumption DEF LeadInv, PCs, Threads
  <2>3. CASE ~leader
    <3>1. ~swap_waiting
      BY <1>10 DEF SwapRequest, LeadInv, NoOrphans
    <3>2. /\ leader' = TRUE /\ pc' = [pc EXCEPT ![Swapper] = "swap"]
          /\ UNCHANGED <<pending, swap_waiting>>
      BY <1>10, <2>3 DEF SwapRequest
    <3>3. swap_waiting' = FALSE
      BY <3>1, <3>2 DEF LeadInv
    <3> QED BY <2>1, <2>3, <3>2, <3>3, TakesLead
  <2> QED BY <2>2, <2>3
<1>11. CASE SwapAcquire
  <2>1. Swapper \in Threads
    BY DEF Threads
  <2>2. CASE leader
    <3>1. /\ pc[Swapper] = "woken" /\ UNCHANGED <<leader, pending, swap_waiting>>
          /\ pc' = [pc EXCEPT ![Swapper] = "asleep"]
      BY <1>11, <2>2 DEF SwapAcquire
    <3>2. Leaders' = Leaders
      BY <2>1, <3>1 DEF LeadInv, Leaders, Leading
    <3>3. OneLeader'
      BY <3>1, <3>2 DEF LeadInv, OneLeader
    <3>4. NoOrphans'
      BY <2>1, <2>2, <3>1 DEF LeadInv, NoOrphans
    <3> QED BY <3>1, <3>3, <3>4, ConstantsAssumption DEF LeadInv, PCs, Threads
  <2>3. CASE ~leader
    BY <1>11, <2>1, <2>3, TakesLead DEF SwapAcquire
  <2> QED BY <2>2, <2>3
<1>12. CASE SwapEnds \/ SwapPoisons
  <2>1. /\ pc[Swapper] = "swap" /\ pc' = [pc EXCEPT ![Swapper] = "drain"]
        /\ UNCHANGED <<pending, leader, swap_waiting>>
    BY <1>12 DEF SwapEnds, SwapPoisons
  <2> QED BY <2>1, LeadsOn DEF Leading, Threads
<1> QED BY <1>1, <1>2, <1>3, <1>4, <1>5, <1>6, <1>7, <1>8, <1>9, <1>10, <1>11, <1>12
        DEF Next, Progress

\* The leadership invariant holds initially.
LEMMA LeadInit == Init => LeadInv
<1> SUFFICES ASSUME Init PROVE LeadInv
  OBVIOUS
<1>1. Leaders = {}
  BY DEF Init, Leaders, Leading
<1>2. OneLeader
  BY <1>1 DEF Init, OneLeader
<1>3. NoOrphans
  BY DEF Init, NoOrphans, Threads
<1>4. pending \in Seq(Writers)
  BY DEF Init
<1>5. pc \in [Threads -> PCs] /\ \A w \in Writers : pc[w] \notin {"asleep", "woken"}
  BY DEF Init, PCs, Threads
<1> QED BY <1>2, <1>3, <1>4, <1>5 DEF Init, LeadInv

\* The leadership invariant holds in every reachable state.
LEMMA LeadAlways == Spec => []LeadInv
BY LeadInit, LeadStep, PTL DEF Spec

\* Write leadership is mutual exclusion between callers of apply_with and the
\* swap, and the flag says whether somebody holds it.
THEOREM Exclusive == Spec => []OneLeader
<1>1. LeadInv => OneLeader
  BY DEF LeadInv
<1> QED BY <1>1, LeadAlways, PTL

\* While transactions are queued somebody leads or a swap is about to, and a
\* sleeping swap has a leader that will wake it.
THEOREM NobodyForgotten == Spec => []NoOrphans
<1>1. LeadInv => NoOrphans
  BY DEF LeadInv
<1> QED BY <1>1, LeadAlways, PTL

-----------------------------------------------------------------------------
(* The running group and the log.                                          *)

PlannedTx == [w : Writers, view : SUBSET Quads]
Runs == [todo : Seq(Writers), work : SUBSET Quads,
         planned : Seq(PlannedTx), last : SUBSET Quads]

\* While a group is planned, start + carry is the dataset after the last
\* planned transaction; while it is recorded, the log is already there.
PlanInv ==
    \A t \in Threads : pc[t] = "plan" =>
        IF run.planned = <<>> THEN run.work = now
        ELSE run.planned[Len(run.planned)].view = run.work
RecordInv ==
    \A t \in Threads : pc[t] = "record" =>
        IF run.planned = <<>> THEN run.last = disk
        ELSE run.planned[Len(run.planned)].view = disk

RunInv ==
    /\ req \in [Writers -> Req]
    /\ run \in Runs
    /\ now \in SUBSET Quads
    /\ PlanInv
    /\ RecordInv
    /\ VisibleIsLogged

\* A transaction of a typed request keeps a dataset a set of quads.
LEMMA PerformType ==
    ASSUME NEW r \in Req, NEW ds \in SUBSET Quads PROVE Perform(r, ds) \in SUBSET Quads
BY DEF Perform, Req

\* The leader is alone: while t leads, no other thread plans or records.
LEMMA Alone ==
    ASSUME LeadInv, NEW t \in Threads, pc[t] \in Leading,
           NEW u \in Threads, pc[u] \in Leading
    PROVE  u = t
BY DEF LeadInv, OneLeader, Leaders

\* A step that neither plans nor records leaves the group's facts alone.
LEMMA Bystander ==
    ASSUME RunInv, UNCHANGED <<run, now, disk>>, req' \in [Writers -> Req],
           \A u \in Threads : /\ pc'[u] = "plan" <=> pc[u] = "plan"
                              /\ pc'[u] = "record" <=> pc[u] = "record"
    PROVE  RunInv'
BY DEF RunInv, PlanInv, RecordInv, VisibleIsLogged

\* A leader that is not recording starts the next group on the published
\* snapshot.
LEMMA Starts ==
    ASSUME LeadInv, RunInv, NEW t \in Threads, pc[t] \in {"lead", "drain"},
           NEW todo \in Seq(Writers), run' = StartRun(todo),
           pc' = [pc EXCEPT ![t] = "plan"], UNCHANGED <<req, now, disk>>
    PROVE  RunInv'
<1>1. \A u \in Threads : u # t => pc'[u] \notin {"plan", "record"}
  BY Alone DEF LeadInv, Leading
<1>2. pc'[t] = "plan"
  BY DEF LeadInv
<1>3. run' \in Runs /\ run'.planned = <<>> /\ run'.work = now
  <2>1. << >> \in Seq(PlannedTx)
    OBVIOUS
  <2> QED BY <2>1 DEF StartRun, Runs, RunInv
<1>4. now = disk
  BY Alone DEF RunInv, VisibleIsLogged, Leading
<1> QED BY <1>1, <1>2, <1>3, <1>4 DEF RunInv, PlanInv, RecordInv, VisibleIsLogged

\* A leader stops running its group with the log published.
LEMMA Stops ==
    ASSUME LeadInv, RunInv, NEW t \in Threads, pc[t] \in Leading,
           pc' = [pc EXCEPT ![t] = "drain"], run' = IdleRun,
           now' \in SUBSET Quads, now' = disk', UNCHANGED req
    PROVE  RunInv'
<1>1. \A u \in Threads : pc'[u] \notin {"plan", "record"}
  BY Alone DEF LeadInv, Leading
<1>2. run' \in Runs
  <2>1. << >> \in Seq(PlannedTx) /\ << >> \in Seq(Writers)
    OBVIOUS
  <2> QED BY <2>1 DEF IdleRun, Runs
<1> QED BY <1>1, <1>2 DEF RunInv, PlanInv, RecordInv, VisibleIsLogged

\* plan_one extends start + carry by the transaction's effect, or leaves both.
LEMMA Plans ==
    ASSUME LeadInv, RunInv, NEW t \in Threads, PlanNext(t) \/ PlanRejects(t)
    PROVE  RunInv'
<1> DEFINE w == Head(run.todo)
           after == Perform(req[w], run.work)
<1>1. /\ pc[t] = "plan" /\ run.todo # <<>> /\ UNCHANGED <<pc, req, now, disk>>
      /\ \/ run' = [run EXCEPT !.todo = Tail(@)]
         \/ run' = [run EXCEPT !.todo = Tail(@), !.work = after,
                               !.planned = Append(@, [w |-> w, view |-> after])]
  BY DEF PlanNext, PlanRejects
<1>2. run.todo \in Seq(Writers) /\ run.work \in SUBSET Quads /\ run.planned \in Seq(PlannedTx)
  BY DEF RunInv, Runs
<1>3. w \in Writers /\ Tail(run.todo) \in Seq(Writers)
  BY <1>1, <1>2
<1>4. after \in SUBSET Quads
  <2>1. req[w] \in Req
    BY <1>3 DEF RunInv
  <2> QED BY <2>1, <1>2, PerformType
<1>5. CASE run' = [run EXCEPT !.todo = Tail(@)]
  <2>1. run' \in Runs /\ run'.planned = run.planned /\ run'.work = run.work /\ run'.last = run.last
    BY <1>3, <1>5 DEF RunInv, Runs
  <2> QED BY <1>1, <2>1 DEF RunInv, PlanInv, RecordInv, VisibleIsLogged
<1>6. CASE run' = [run EXCEPT !.todo = Tail(@), !.work = after,
                              !.planned = Append(@, [w |-> w, view |-> after])]
  <2> DEFINE tx == [w |-> w, view |-> after]
  <2>1. tx \in PlannedTx
    BY <1>3, <1>4 DEF PlannedTx
  <2>2. /\ Append(run.planned, tx) \in Seq(PlannedTx)
        /\ Append(run.planned, tx) # <<>>
        /\ Append(run.planned, tx)[Len(Append(run.planned, tx))] = tx
    BY <1>2, <2>1
  <2> HIDE DEF w, after
  <2>3. run' \in Runs /\ run'.planned = Append(run.planned, tx) /\ run'.work = after
    BY <1>3, <1>4, <1>6, <2>2 DEF RunInv, Runs
  <2>4. PlanInv'
    BY <2>2, <2>3 DEF PlanInv
  <2>5. \A u \in Threads : pc'[u] # "record"
    BY <1>1, Alone DEF Leading
  <2> QED BY <1>1, <2>3, <2>4, <2>5 DEF RunInv, RecordInv, VisibleIsLogged
<1> QED BY <1>1, <1>5, <1>6

\* Dropping the first element of a sequence keeps its last, unless that was it.
LEMMA LastOfTail ==
    ASSUME NEW S, NEW s \in Seq(S), s # << >>
    PROVE  IF Tail(s) = << >> THEN Head(s) = s[Len(s)]
           ELSE Tail(s)[Len(Tail(s))] = s[Len(s)]
<1>1. Len(s) \in Nat \ {0} /\ s[1] = Head(s)
  BY HeadTailProperties, EmptySeq
<1>2. Tail(s) \in Seq(S) /\ Len(Tail(s)) = Len(s) - 1
  BY HeadTailProperties
<1>3. \A i \in 1 .. Len(Tail(s)) : Tail(s)[i] = s[i + 1]
  BY HeadTailProperties
<1>4. Tail(s) = << >> <=> Len(Tail(s)) = 0
  BY <1>2, EmptySeq
<1> QED BY <1>1, <1>2, <1>3, <1>4

\* Recording the next transaction keeps the last planned one last.
LEMMA Records ==
    ASSUME LeadInv, RunInv, NEW t \in Threads, RecordNext(t)
    PROVE  RunInv'
<1> DEFINE s == run.planned
<1>1. /\ pc[t] = "record" /\ s # <<>> /\ UNCHANGED <<pc, req, now, disk>>
      /\ run' = [run EXCEPT !.planned = Tail(@), !.last = Head(s).view]
  BY DEF RecordNext
<1>2. s \in Seq(PlannedTx)
  BY DEF RunInv, Runs
<1>3. Head(s) \in PlannedTx /\ Tail(s) \in Seq(PlannedTx)
  BY <1>1, <1>2
<1>4. run' \in Runs /\ run'.planned = Tail(s) /\ run'.last = Head(s).view
  BY <1>1, <1>3 DEF RunInv, Runs, PlannedTx
<1>5. s[Len(s)].view = disk
  BY <1>1 DEF RunInv, RecordInv
<1>6. IF Tail(s) = <<>> THEN Head(s) = s[Len(s)] ELSE Tail(s)[Len(Tail(s))] = s[Len(s)]
  BY <1>1, <1>2, LastOfTail
<1>7. RecordInv'
  BY <1>1, <1>4, <1>5, <1>6 DEF RecordInv
<1>8. \A u \in Threads : pc'[u] # "plan"
  BY <1>1, Alone DEF Leading
<1> QED BY <1>1, <1>4, <1>7, <1>8 DEF RunInv, PlanInv, VisibleIsLogged

\* commit_group succeeds: with nothing planned the group ends, else the log
\* moves to the dataset after the last planned transaction.
LEMMA Written ==
    ASSUME LeadInv, RunInv, NEW t \in Threads, GroupWritten(t)
    PROVE  RunInv'
<1>1. pc[t] = "plan" /\ UNCHANGED <<req, now>>
  BY DEF GroupWritten
<1>2. \A u \in Threads : pc[u] \in {"plan", "record"} => u = t
  BY <1>1, Alone DEF Leading
<1>3. now = disk
  BY <1>1, <1>2 DEF RunInv, VisibleIsLogged
<1>4. CASE run.planned = <<>>
  BY <1>1, <1>3, <1>4, Stops DEF GroupWritten, Leading, RunInv
<1>5. CASE run.planned # <<>>
  <2>1. pc' = [pc EXCEPT ![t] = "record"] /\ disk' = run.work /\ run' = run
    BY <1>5 DEF GroupWritten
  <2>2. run.planned[Len(run.planned)].view = run.work
    BY <1>1, <1>5 DEF RunInv, PlanInv
  <2>3. pc'[t] = "record" /\ \A u \in Threads : pc'[u] # "plan"
    BY <1>2, <2>1 DEF LeadInv
  <2> QED BY <1>1, <1>5, <2>1, <2>2, <2>3 DEF RunInv, PlanInv, RecordInv, VisibleIsLogged
<1> QED BY <1>4, <1>5

\* Every step keeps the group's facts.
LEMMA RunStep == ASSUME LeadInv, LeadInv', RunInv, [Next]_vars PROVE RunInv'
<1>1. CASE UNCHANGED vars
  BY <1>1, Bystander DEF vars, RunInv
<1>2. ASSUME NEW w \in Writers, NEW r \in Req, Call(w, r) PROVE RunInv'
  <2>1. /\ pc[w] = "idle" /\ UNCHANGED <<run, now, disk>>
        /\ pc' \in {pc, [pc EXCEPT ![w] = "enter"]}
    BY <1>2 DEF Call
  <2>2. req' \in [Writers -> Req]
    BY <1>2 DEF Call, RunInv
  <2> QED BY <2>1, <2>2, Bystander DEF LeadInv
<1>3. ASSUME NEW w \in Writers, Enter(w) \/ Return(w) PROVE RunInv'
  <2>1. /\ pc[w] \in {"enter", "wait"} /\ UNCHANGED <<req, run, now, disk>>
        /\ \/ pc' = [pc EXCEPT ![w] = "wait"]
           \/ pc' = [pc EXCEPT ![w] = "lead"]
           \/ pc' = [pc EXCEPT ![w] = "idle"]
    BY <1>3 DEF Enter, Return
  <2> QED BY <2>1, Bystander DEF LeadInv, RunInv
<1>4. ASSUME NEW w \in Writers, TakeFirst(w) PROVE RunInv'
  <2>1. <<w>> \o pending \in Seq(Writers)
    BY DEF LeadInv
  <2> QED BY <1>4, <2>1, Starts DEF TakeFirst, Threads
<1>5. ASSUME NEW t \in Threads, GroupFailed(t) PROVE RunInv'
  <2>1. now = disk
    BY <1>5, Alone DEF GroupFailed, Leading, RunInv, VisibleIsLogged
  <2> QED BY <1>5, <2>1, Stops DEF GroupFailed, Leading, RunInv
<1>6. ASSUME NEW t \in Threads, Publish(t) PROVE RunInv'
  <2>1. run.last = disk /\ run.last \in SUBSET Quads
    BY <1>6 DEF Publish, RunInv, RecordInv, Runs
  <2> QED BY <1>6, <2>1, Stops DEF Publish, Leading
<1>7. ASSUME NEW t \in Threads, Drain(t) PROVE RunInv'
  <2>1. CASE pending = <<>> \/ swap_waiting
    <3>1. /\ pc[t] = "drain" /\ UNCHANGED <<req, run, now, disk>>
          /\ pc' = Notify([pc EXCEPT ![t] = "idle"])
      BY <1>7, <2>1 DEF Drain
    <3>2. \A u \in Threads : /\ pc'[u] = "plan" <=> pc[u] = "plan"
                             /\ pc'[u] = "record" <=> pc[u] = "record"
      BY <3>1 DEF Notify, LeadInv, Threads
    <3> QED BY <3>1, <3>2, Bystander DEF RunInv
  <2>2. CASE ~(pending = <<>> \/ swap_waiting)
    BY <1>7, <2>2, Starts DEF Drain, LeadInv
  <2> QED BY <2>1, <2>2
<1>8. CASE SwapRequest \/ SwapAcquire \/ SwapEnds \/ SwapPoisons
  <2>1. /\ pc[Swapper] \in {"idle", "woken", "swap"} /\ UNCHANGED <<req, run, now, disk>>
        /\ \/ pc' = [pc EXCEPT ![Swapper] = "asleep"]
           \/ pc' = [pc EXCEPT ![Swapper] = "swap"]
           \/ pc' = [pc EXCEPT ![Swapper] = "drain"]
    BY <1>8 DEF SwapRequest, SwapAcquire, SwapEnds, SwapPoisons
  <2> QED BY <2>1, Bystander DEF LeadInv, RunInv
<1> QED BY <1>1, <1>2, <1>3, <1>4, <1>5, <1>6, <1>7, <1>8, Plans, Records, Written
        DEF Next, Progress

\* The group's facts hold initially: nothing runs and the log is published.
LEMMA RunInit == Init => RunInv
<1> SUFFICES ASSUME Init PROVE RunInv
  OBVIOUS
<1>1. run \in Runs
  <2>1. << >> \in Seq(PlannedTx) /\ << >> \in Seq(Writers)
    OBVIOUS
  <2> QED BY <2>1 DEF Init, IdleRun, Runs
<1> QED BY <1>1 DEF Init, RunInv, PlanInv, RecordInv, VisibleIsLogged

\* Both invariants hold in every reachable state.
LEMMA RunAlways == Spec => [](LeadInv /\ RunInv)
BY LeadInit, LeadStep, RunInit, RunStep, PTL DEF Spec

\* Outside the recording of a written group, what readers see is what the
\* log replays to, whatever fails.
THEOREM LoggedFirst == Spec => []VisibleIsLogged
<1>1. RunInv => VisibleIsLogged
  BY DEF RunInv
<1> QED BY <1>1, RunAlways, PTL

\* The log only ever moves from the published dataset to the one after the
\* last planned transaction of the group.
THEOREM AllOrNothing == Spec => GroupAtomic
<1> DEFINE Whole == disk' # disk => /\ run.planned # <<>>
                                    /\ disk' = run.planned[Len(run.planned)].view
                                    /\ disk = now
<1>1. LeadInv /\ RunInv /\ [Next]_vars => [Whole]_vars
  <2> SUFFICES ASSUME LeadInv, RunInv, Next, disk' # disk PROVE Whole
    OBVIOUS
  <2>1. PICK t \in Threads : GroupWritten(t)
    BY DEF Next, Progress, Call, Enter, TakeFirst, Return, PlanNext, PlanRejects, GroupFailed,
           RecordNext, Publish, Drain, SwapRequest, SwapAcquire, SwapEnds, SwapPoisons
  <2>2. pc[t] = "plan" /\ run.planned # <<>> /\ disk' = run.work
    BY <2>1 DEF GroupWritten
  <2>3. run.planned[Len(run.planned)].view = run.work
    BY <2>2 DEF RunInv, PlanInv
  <2>4. disk = now
    BY <2>2, Alone DEF Leading, RunInv, VisibleIsLogged
  <2> QED BY <2>2, <2>3, <2>4
<1> QED BY <1>1, RunAlways, PTL DEF Spec, GroupAtomic

-----------------------------------------------------------------------------
(* Every call is answered once.                                            *)

Inj(s) == \A i, j \in DOMAIN s : s[i] = s[j] => i = j
PlannedBy == {p.w : p \in Range(run.planned)}

\* A writer is in the queue or in the group, at one place; what the group
\* left over belongs to a leader that plans or records it.
GroupOnce ==
    /\ Inj(pending) /\ Inj(run.todo)
    /\ Inj(run.planned)
    /\ \A p, q \in Range(run.planned) : p.w = q.w => p = q
    /\ Range(run.todo) \cap PlannedBy = {}
    /\ Queued \cap InGroup = {}
Unanswered(w) == pc[w] = "wait" /\ reply[w] = NoReply
AnswerInv ==
    /\ reply \in [Writers -> {NoReply, Failed} \cup SUBSET Quads]
    /\ GroupOnce
    /\ InGroup # {} => \E t \in Threads : pc[t] \in {"plan", "record"}
    /\ \A t \in Threads : pc[t] = "record" => run.todo = <<>>
    /\ \A w \in Writers : pc[w] = "enter" => reply[w] = NoReply
    /\ \A w \in Writers : Unanswered(w) <=> w \in Queued \cup (InGroup \ Leaders)

\* Taking the head off a sequence, and putting an element at either end.
LEMMA TailParts ==
    ASSUME NEW S, NEW s \in Seq(S), s # <<>>
    PROVE  /\ Range(s) = {Head(s)} \cup Range(Tail(s))
           /\ Inj(s) => Inj(Tail(s)) /\ Head(s) \notin Range(Tail(s))
<1>1. /\ Len(s) \in Nat \ {0} /\ DOMAIN s = 1..Len(s) /\ s[1] = Head(s)
      /\ DOMAIN Tail(s) = 1..(Len(s) - 1) /\ \A i \in 1..(Len(s) - 1) : Tail(s)[i] = s[i + 1]
  BY HeadTailProperties, EmptySeq, LenProperties
<1> DEFINE n == Len(s)
           u == Tail(s)
<1> HIDE DEF n, u
<1>2. ASSUME NEW i \in DOMAIN s, i # 1 PROVE i - 1 \in DOMAIN u /\ s[i] = u[i - 1]
  <2>1. i \in 1..n /\ i - 1 \in 1..(n - 1) /\ (i - 1) + 1 = i
    BY <1>1, <1>2 DEF n
  <2> QED BY <1>1, <2>1 DEF n, u
<1>3. ASSUME NEW i \in DOMAIN u PROVE i + 1 \in DOMAIN s /\ i + 1 # 1 /\ u[i] = s[i + 1]
  BY <1>1 DEF n, u
<1> USE DEF u
<1>4. 1 \in DOMAIN s
  BY <1>1
<1>5. Range(s) = {Head(s)} \cup Range(Tail(s))
  BY <1>1, <1>2, <1>3, <1>4 DEF Range
<1>6. ASSUME Inj(s) PROVE Inj(Tail(s)) /\ Head(s) \notin Range(Tail(s))
  <2>1. Head(s) \notin Range(Tail(s))
    BY <1>1, <1>3, <1>4, <1>6 DEF Inj, Range
  <2>2. ASSUME NEW i \in DOMAIN Tail(s), NEW j \in DOMAIN Tail(s), Tail(s)[i] = Tail(s)[j] PROVE i = j
    <3>1. i + 1 = j + 1
      BY <1>3, <1>6, <2>2 DEF Inj
    <3> QED BY <1>1, <3>1
  <2> QED BY <2>1, <2>2 DEF Inj
<1> QED BY <1>5, <1>6

LEMMA AppendParts ==
    ASSUME NEW S, NEW s \in Seq(S), NEW x \in S
    PROVE  /\ Range(Append(s, x)) = Range(s) \cup {x}
           /\ Inj(s) /\ x \notin Range(s) => Inj(Append(s, x))
<1>1. /\ Len(s) \in Nat /\ DOMAIN s = 1..Len(s) /\ DOMAIN Append(s, x) = 1..(Len(s) + 1)
      /\ Append(s, x)[Len(s) + 1] = x /\ \A i \in 1..Len(s) : Append(s, x)[i] = s[i]
  BY AppendProperties, LenProperties
<1>2. Range(Append(s, x)) = Range(s) \cup {x}
  BY <1>1 DEF Range
<1>3. ASSUME Inj(s), x \notin Range(s) PROVE Inj(Append(s, x))
  BY <1>1, <1>3 DEF Inj, Range
<1> QED BY <1>2, <1>3

LEMMA ConsParts ==
    ASSUME NEW S, NEW s \in Seq(S), NEW x \in S
    PROVE  /\ Range(<<x>> \o s) = Range(s) \cup {x}
           /\ Inj(s) /\ x \notin Range(s) => Inj(<<x>> \o s)
<1> DEFINE c == <<x>> \o s
<1>1. /\ Len(s) \in Nat /\ DOMAIN s = 1..Len(s) /\ DOMAIN c = 1..(Len(s) + 1)
      /\ c[1] = x /\ \A i \in 1..Len(s) : c[i + 1] = s[i]
  <2>1. <<x>> \in Seq(S) /\ Len(<<x>>) = 1 /\ <<x>>[1] = x /\ Len(s) \in Nat /\ DOMAIN s = 1..Len(s)
    BY LenProperties
  <2>2. c \in Seq(S) /\ Len(c) = Len(s) + 1
    BY <2>1, ConcatProperties
  <2>3. \A i \in 1..Len(c) : c[i] = IF i <= 1 THEN <<x>>[i] ELSE s[i - 1]
    BY <2>1, <2>2, ConcatProperties
  <2>4. DOMAIN c = 1..(Len(s) + 1)
    BY <2>2, LenProperties
  <2> HIDE DEF c
  <2> QED BY <2>1, <2>2, <2>3, <2>4
<1> HIDE DEF c
<1>2. ASSUME NEW i \in DOMAIN c, i # 1 PROVE i - 1 \in DOMAIN s /\ c[i] = s[i - 1]
  <2>1. i - 1 \in 1..Len(s) /\ (i - 1) + 1 = i
    BY <1>1, <1>2
  <2> QED BY <1>1, <2>1
<1>3. 1 \in DOMAIN c /\ \A i \in DOMAIN s : i + 1 \in DOMAIN c /\ c[i + 1] = s[i]
  BY <1>1
<1>4. Range(c) = Range(s) \cup {x}
  BY <1>1, <1>2, <1>3 DEF Range
<1>5. ASSUME Inj(s), x \notin Range(s) PROVE Inj(c)
  <2> SUFFICES ASSUME NEW i \in DOMAIN c, NEW j \in DOMAIN c, c[i] = c[j] PROVE i = j
    BY DEF Inj
  <2>1. CASE i = 1 /\ j = 1
    BY <2>1
  <2>2. CASE i # 1 /\ j # 1
    <3>1. i - 1 = j - 1
      BY <1>2, <1>5, <2>2 DEF Inj
    <3> QED BY <1>1, <3>1
  <2>3. CASE ~(i = 1 <=> j = 1)
    BY <1>1, <1>2, <1>5, <2>3 DEF Range
  <2> QED BY <2>1, <2>2, <2>3
<1> QED BY <1>4, <1>5 DEF c

\* A queue without repetitions is as long as it has members.
LEMMA InjLen == ASSUME NEW S, NEW s \in Seq(S), Inj(s) PROVE Len(s) = Cardinality(Range(s))
<1>1. Len(s) \in Nat /\ s \in [1..Len(s) -> Range(s)] /\ DOMAIN s = 1..Len(s)
  BY LenProperties DEF Range
<1>2. s \in Bijection(1..Len(s), Range(s))
  BY <1>1 DEF Inj, Bijection, Injection, Surjection, IsInjective, Range
<1> QED BY <1>1, <1>2, FS_CountingElements DEF ExistsBijection

\* The empty queue.
LEMMA EmptyParts == Range(<<>>) = {} /\ Inj(<<>>) /\ {p.w : p \in Range(<<>>)} = {}
<1>1. DOMAIN <<>> = {}
  OBVIOUS
<1> QED BY <1>1 DEF Range, Inj

\* While one thread leads without planning or recording, no group is open.
LEMMA NoGroup ==
    ASSUME LeadInv, AnswerInv,
           \/ \E t \in Threads : pc[t] \in Leading \ {"plan", "record"}
           \/ ~leader
    PROVE  InGroup = {}
<1> SUFFICES ASSUME InGroup # {} PROVE FALSE
  OBVIOUS
<1>1. PICK u \in Threads : pc[u] \in {"plan", "record"}
  BY DEF AnswerInv
<1>2. u \in Leaders
  BY <1>1 DEF Leaders, Leading
<1>3. leader
  BY <1>2 DEF LeadInv, OneLeader
<1>4. PICK t \in Threads : pc[t] \in Leading \ {"plan", "record"}
  BY <1>3
<1>5. t = u
  BY <1>1, <1>4, Alone DEF Leading
<1> QED BY <1>1, <1>4, <1>5

\* A step that moves threads without touching the queue, the group or who
\* waits for an answer.
LEMMA AnswersKept ==
    ASSUME AnswerInv, UNCHANGED <<reply, pending, run>>,
           \A w \in Writers : /\ pc'[w] = "wait" <=> pc[w] = "wait"
                              /\ pc'[w] = "enter" => reply[w] = NoReply,
           \A w \in InGroup : w \in Leaders' <=> w \in Leaders,
           InGroup # {} => \E t \in Threads : pc'[t] \in {"plan", "record"},
           \A t \in Threads : pc'[t] = "record" => run.todo = <<>>
    PROVE  AnswerInv'
<1>1. Queued' = Queued /\ InGroup' = InGroup /\ PlannedBy' = PlannedBy
  BY DEF Queued, InGroup, PlannedBy
<1>2. GroupOnce'
  BY <1>1 DEF AnswerInv, GroupOnce
<1>3. \A w \in Writers : Unanswered(w)' <=> Unanswered(w)
  BY DEF Unanswered
<1>4. \A w \in Writers : Unanswered(w)' <=> w \in (Queued \cup (InGroup \ Leaders))'
  BY <1>1, <1>3 DEF AnswerInv
<1> QED BY <1>1, <1>2, <1>4 DEF AnswerInv

\* The group is over: the members' answers are out.
LEMMA GroupOver ==
    ASSUME LeadInv, AnswerInv, NEW t \in Threads, pc[t] \in Leading,
           run' = IdleRun, pc' = [pc EXCEPT ![t] = "drain"], UNCHANGED pending,
           reply' \in [Writers -> {NoReply, Failed} \cup SUBSET Quads],
           \A w \in Writers \ InGroup : reply'[w] = reply[w],
           \A w \in InGroup : reply'[w] # NoReply
    PROVE  AnswerInv'
<1>1. InGroup' = {} /\ PlannedBy' = {} /\ run'.todo = <<>> /\ run'.planned = <<>>
  BY EmptyParts DEF InGroup, PlannedBy, IdleRun
<1>2. GroupOnce'
  BY <1>1, EmptyParts DEF AnswerInv, GroupOnce, Queued
<1>3. \A w \in Writers : w # t => pc'[w] = pc[w]
  BY DEF LeadInv
<1>4. pc'[t] = "drain"
  BY DEF LeadInv
<1>5. ASSUME NEW w \in Writers PROVE pc'[w] = "wait" <=> pc[w] = "wait"
  BY <1>3, <1>4 DEF Leading
<1>6. ASSUME NEW w \in Writers PROVE Unanswered(w)' <=> w \in (Queued \cup (InGroup \ Leaders))'
  <2>1. Queued' = Queued
    BY DEF Queued
  <2>2. CASE w \in InGroup
    <3>1. w \notin Queued
      BY <2>2 DEF AnswerInv, GroupOnce
    <3>2. ~Unanswered(w)'
      BY <2>2 DEF Unanswered
    <3> QED BY <1>1, <2>1, <3>1, <3>2
  <2>3. CASE w \notin InGroup
    <3>1. Unanswered(w)' <=> Unanswered(w)
      BY <1>5, <2>3 DEF Unanswered
    <3>2. Unanswered(w) <=> w \in Queued
      BY <2>3 DEF AnswerInv
    <3> QED BY <1>1, <2>1, <3>1, <3>2
  <2> QED BY <2>2, <2>3
<1>7. \A w \in Writers : pc'[w] = "enter" => reply'[w] = NoReply
  <2> SUFFICES ASSUME NEW w \in Writers, pc'[w] = "enter" PROVE reply'[w] = NoReply
    OBVIOUS
  <2>1. w # t /\ pc[w] = "enter"
    BY <1>3, <1>4
  <2>2. reply[w] = NoReply
    BY <2>1 DEF AnswerInv
  <2>3. w \notin InGroup
    <3>1. CASE w \in Leaders
      BY <2>1, <3>1 DEF Leaders, Leading
    <3>2. CASE w \notin Leaders
      BY <2>1, <3>2 DEF AnswerInv, Unanswered
    <3> QED BY <3>1, <3>2
  <2> QED BY <2>2, <2>3
<1> QED BY <1>1, <1>2, <1>6, <1>7 DEF AnswerInv

\* One of the group's members is answered; the others stay in it.
LEMMA OneAnswered ==
    ASSUME LeadInv, AnswerInv, NEW w \in InGroup, w \in Writers, NEW x \in {Failed} \cup SUBSET Quads,
           reply' = [reply EXCEPT ![w] = x], UNCHANGED <<pc, pending>>,
           InGroup' = InGroup \ {w}, GroupOnce',
           \A t \in Threads : pc[t] = "record" => run'.todo = <<>>
    PROVE  AnswerInv'
<1>1. x # NoReply
  BY ConstantsAssumption
<1>2. reply' \in [Writers -> {NoReply, Failed} \cup SUBSET Quads] /\ reply'[w] # NoReply
      /\ \A v \in Writers : v # w => reply'[v] = reply[v]
  BY <1>1 DEF AnswerInv
<1>3. w \notin Queued /\ Queued' = Queued /\ Leaders' = Leaders
  BY DEF AnswerInv, GroupOnce, Queued, Leaders
<1>4. pc[w] # "enter"
  <2>1. w \in Leaders \/ Unanswered(w)
    BY DEF AnswerInv
  <2> QED BY <2>1 DEF Leaders, Leading, Unanswered
<1>5. ASSUME NEW v \in Writers PROVE Unanswered(v)' <=> v \in (Queued \cup (InGroup \ Leaders))'
  <2>1. CASE v = w
    BY <1>2, <1>3, <2>1 DEF Unanswered
  <2>2. CASE v # w
    <3>1. Unanswered(v)' <=> Unanswered(v)
      BY <1>2, <2>2 DEF Unanswered
    <3> QED BY <1>3, <2>2, <3>1 DEF AnswerInv
  <2> QED BY <2>1, <2>2
<1>6. \A v \in Writers : pc'[v] = "enter" => reply'[v] = NoReply
  BY <1>2, <1>4 DEF AnswerInv
<1> QED BY <1>2, <1>5, <1>6 DEF AnswerInv

-----------------------------------------------------------------------------

\* A leader takes the queue as its group, in front of it its own call if that
\* is still to be committed.
LEMMA Opens ==
    ASSUME LeadInv, AnswerInv, NEW t \in Threads, pc[t] \in {"lead", "drain"},
           NEW todo \in Seq(Writers), Inj(todo), Range(todo) \ {t} = Queued \ {t},
           run' = StartRun(todo), pending' = <<>>,
           pc' = [pc EXCEPT ![t] = "plan"], UNCHANGED reply
    PROVE  AnswerInv'
<1>1. InGroup = {}
  BY NoGroup DEF Leading
<1>2. InGroup' = Range(todo) /\ PlannedBy' = {} /\ Queued' = {}
      /\ run'.todo = todo /\ run'.planned = <<>>
  BY EmptyParts DEF InGroup, PlannedBy, Queued, StartRun
<1>3. GroupOnce'
  BY <1>2, EmptyParts DEF GroupOnce
<1>4. pc'[t] = "plan" /\ \A u \in Threads : u # t => pc'[u] = pc[u] /\ pc[u] \notin Leading
  BY Alone DEF LeadInv, Leading
<1>5. Leaders' = {t} /\ \A u \in Threads : pc'[u] # "record"
  BY <1>4 DEF Leaders, Leading
<1>6. ASSUME NEW w \in Writers PROVE Unanswered(w)' <=> w \in (Queued \cup (InGroup \ Leaders))'
  <2>1. Unanswered(w)' <=> w # t /\ Unanswered(w)
    BY <1>4 DEF Unanswered, Threads
  <2>2. Unanswered(w) <=> w \in Queued
    BY <1>1 DEF AnswerInv
  <2> QED BY <1>2, <1>5, <2>1, <2>2
<1>7. \A w \in Writers : pc'[w] = "enter" => reply'[w] = NoReply
  BY <1>4 DEF AnswerInv, Threads
<1> QED BY <1>3, <1>4, <1>5, <1>6, <1>7 DEF AnswerInv

\* A call joins the queue.
LEMMA Joins ==
    ASSUME LeadInv, AnswerInv, NEW w \in Writers, pc[w] = "enter",
           pending' = Append(pending, w), pc' = [pc EXCEPT ![w] = "wait"],
           UNCHANGED <<reply, run>>
    PROVE  AnswerInv'
<1>1. pending \in Seq(Writers) /\ pc'[w] = "wait" /\ \A u \in Threads : u # w => pc'[u] = pc[u]
  BY DEF LeadInv, Threads
<1>2. w \notin Queued /\ w \notin InGroup
  BY DEF AnswerInv, Unanswered, Leaders, Leading
<1>3. Queued' = Queued \cup {w} /\ InGroup' = InGroup /\ PlannedBy' = PlannedBy
  BY <1>1, AppendParts DEF Queued, InGroup, PlannedBy
<1>4. Inj(pending')
  BY <1>1, <1>2, AppendParts DEF AnswerInv, GroupOnce, Queued
<1>5. GroupOnce'
  BY <1>2, <1>3, <1>4 DEF AnswerInv, GroupOnce
<1>6. Leaders' = Leaders
  BY <1>1 DEF Leaders, Leading
<1>7. ASSUME NEW v \in Writers PROVE Unanswered(v)' <=> v \in (Queued \cup (InGroup \ Leaders))'
  <2>1. CASE v = w
    <3>1. reply[w] = NoReply
      BY DEF AnswerInv
    <3> QED BY <1>1, <1>3, <2>1, <3>1 DEF Unanswered
  <2>2. CASE v # w
    <3>1. Unanswered(v)' <=> Unanswered(v)
      BY <1>1, <2>2 DEF Unanswered, Threads
    <3> QED BY <1>3, <1>6, <2>2, <3>1 DEF AnswerInv
  <2> QED BY <2>1, <2>2
<1>8. InGroup' # {} => \E t \in Threads : pc'[t] \in {"plan", "record"}
  BY <1>1, <1>3 DEF AnswerInv
<1>9. /\ \A t \in Threads : pc'[t] = "record" => run'.todo = <<>>
      /\ \A v \in Writers : pc'[v] = "enter" => reply'[v] = NoReply
  BY <1>1 DEF AnswerInv, Threads
<1> QED BY <1>5, <1>7, <1>8, <1>9 DEF AnswerInv

\* plan_one moves the head of the group to the planned ones or answers it.
LEMMA PlanAnswers ==
    ASSUME LeadInv, RunInv, AnswerInv, NEW t \in Threads, PlanNext(t) \/ PlanRejects(t)
    PROVE  AnswerInv'
<1> DEFINE w == Head(run.todo)
<1>1. /\ run \in Runs /\ run.todo \in Seq(Writers) /\ run.planned \in Seq(PlannedTx)
      /\ run.todo # <<>> /\ w \in Writers /\ pc[t] = "plan"
      /\ UNCHANGED <<pc, pending>> /\ now \in SUBSET Quads
  BY DEF PlanNext, PlanRejects, RunInv, Runs
<1>2. /\ Range(run.todo) = {w} \cup Range(Tail(run.todo)) /\ Inj(Tail(run.todo))
      /\ w \notin Range(Tail(run.todo)) /\ w \notin PlannedBy /\ w \notin Queued
      /\ w \in InGroup
  BY <1>1, TailParts DEF AnswerInv, GroupOnce, InGroup
<1>3. \A u \in Threads : pc[u] # "record"
  BY <1>1, Alone DEF Leading
<1> DEFINE tx == [w |-> w, view |-> Perform(req[w], run.work)]
<1>4. \/ run' = [run EXCEPT !.todo = Tail(@), !.work = tx.view, !.planned = Append(@, tx)]
         /\ reply' = reply
      \/ run' = [run EXCEPT !.todo = Tail(@)]
         /\ \E x \in {Failed} \cup SUBSET Quads : reply' = [reply EXCEPT ![w] = x]
  BY <1>1 DEF PlanNext, PlanRejects
<1>5. tx \in PlannedTx /\ tx.w = w
  <2>1. req[w] \in Req /\ run.work \in SUBSET Quads
    BY <1>1 DEF RunInv, Runs
  <2>2. Perform(req[w], run.work) \in SUBSET Quads
    BY <2>1, PerformType
  <2> QED BY <1>1, <2>2 DEF PlannedTx
<1> HIDE DEF tx, w
<1>6. CASE run' = [run EXCEPT !.todo = Tail(@), !.work = tx.view, !.planned = Append(@, tx)]
           /\ reply' = reply
  <2>1. run'.todo = Tail(run.todo) /\ run'.planned = Append(run.planned, tx)
    BY <1>1, <1>6 DEF Runs
  <2>2. tx \notin Range(run.planned)
    BY <1>2, <1>5 DEF PlannedBy
  <2>3. Range(run'.planned) = Range(run.planned) \cup {tx} /\ Inj(run'.planned)
    BY <1>1, <1>5, <2>1, <2>2, AppendParts DEF AnswerInv, GroupOnce
  <2>4. PlannedBy' = PlannedBy \cup {w}
    BY <1>5, <2>3 DEF PlannedBy
  <2>5. InGroup' = InGroup /\ Queued' = Queued /\ Leaders' = Leaders
    BY <1>1, <1>2, <2>1, <2>4 DEF InGroup, PlannedBy, Queued, Leaders
  <2>6. \A p, q \in Range(run'.planned) : p.w = q.w => p = q
    BY <1>2, <1>5, <2>3 DEF PlannedBy, AnswerInv, GroupOnce
  <2>7. GroupOnce'
    BY <1>1, <1>2, <2>1, <2>3, <2>4, <2>5, <2>6 DEF AnswerInv, GroupOnce
  <2>8. \A v \in Writers : Unanswered(v)' <=> Unanswered(v)
    BY <1>1, <1>6 DEF Unanswered
  <2> QED BY <1>1, <1>3, <1>6, <2>5, <2>7, <2>8 DEF AnswerInv
<1>7. CASE run' = [run EXCEPT !.todo = Tail(@)]
           /\ \E x \in {Failed} \cup SUBSET Quads : reply' = [reply EXCEPT ![w] = x]
  <2>1. run'.todo = Tail(run.todo) /\ run'.planned = run.planned
    BY <1>1, <1>7 DEF Runs
  <2>2. PlannedBy' = PlannedBy /\ Queued' = Queued
    BY <1>1, <2>1 DEF PlannedBy, Queued
  <2>3. InGroup' = InGroup \ {w}
    BY <1>2, <2>1, <2>2 DEF InGroup, PlannedBy
  <2>4. GroupOnce'
    BY <1>1, <1>2, <2>1, <2>2, <2>3 DEF AnswerInv, GroupOnce
  <2> QED BY <1>1, <1>2, <1>3, <1>7, <2>3, <2>4, OneAnswered
<1> QED BY <1>4, <1>6, <1>7

\* Recording answers the first of the planned ones.
LEMMA RecordAnswers ==
    ASSUME LeadInv, RunInv, AnswerInv, NEW t \in Threads, RecordNext(t)
    PROVE  AnswerInv'
<1> DEFINE p == Head(run.planned)
<1>1. /\ run \in Runs /\ run.planned \in Seq(PlannedTx) /\ run.planned # <<>> /\ p \in PlannedTx
      /\ pc[t] = "record" /\ reply' = [reply EXCEPT ![p.w] = p.view]
      /\ run' = [run EXCEPT !.planned = Tail(@), !.last = p.view]
      /\ UNCHANGED <<pc, pending>>
  BY DEF RecordNext, RunInv, Runs
<1> HIDE DEF p
<1>2. p.w \in Writers /\ p.view \in SUBSET Quads
  BY <1>1 DEF PlannedTx
<1>3. run'.todo = run.todo /\ run.todo = <<>> /\ run'.planned = Tail(run.planned)
  BY <1>1 DEF Runs, AnswerInv
<1>4. /\ Range(run.planned) = {p} \cup Range(Tail(run.planned)) /\ Inj(Tail(run.planned))
      /\ p \notin Range(Tail(run.planned))
  BY <1>1, TailParts DEF AnswerInv, GroupOnce, p
<1>5. PlannedBy' = PlannedBy \ {p.w} /\ p.w \in PlannedBy
  <2>1. \A q \in Range(run.planned) : q.w = p.w => q = p
    BY <1>4 DEF AnswerInv, GroupOnce
  <2> QED BY <1>3, <1>4, <2>1 DEF PlannedBy
<1>6. InGroup' = InGroup \ {p.w} /\ p.w \in InGroup /\ Queued' = Queued
  BY <1>1, <1>3, <1>5, EmptyParts DEF InGroup, PlannedBy, Queued
<1>7. GroupOnce'
  BY <1>1, <1>3, <1>4, <1>5, <1>6 DEF AnswerInv, GroupOnce
<1> QED BY <1>1, <1>2, <1>3, <1>6, <1>7, OneAnswered

-----------------------------------------------------------------------------

\* Every step keeps each call in one place until it is answered.
LEMMA AnswerStep ==
    ASSUME LeadInv, LeadInv', RunInv, AnswerInv, [Next]_vars PROVE AnswerInv'
<1>1. CASE UNCHANGED vars
  <2>1. Leaders' = Leaders /\ UNCHANGED <<pc, reply, pending, run>>
    BY <1>1 DEF vars, Leaders
  <2> QED BY <2>1, AnswersKept DEF AnswerInv
<1>2. ASSUME NEW w \in Writers, NEW r \in Req, Call(w, r) PROVE AnswerInv'
  <2>1. pc[w] = "idle" /\ w \notin Leaders /\ UNCHANGED <<pending, run>>
    BY <1>2 DEF Call, Leaders, Leading
  <2>2. w \notin Queued /\ w \notin InGroup
    BY <2>1 DEF AnswerInv, Unanswered
  <2>3. /\ reply' \in [Writers -> {NoReply, Failed} \cup SUBSET Quads]
        /\ \A v \in Writers : v # w => reply'[v] = reply[v]
    BY <1>2 DEF Call, AnswerInv
  <2>4. /\ \A u \in Threads : u # w => pc'[u] = pc[u]
        /\ pc'[w] = "idle" \/ (pc'[w] = "enter" /\ reply'[w] = NoReply)
    <3>1. \/ pc' = pc
          \/ pc' = [pc EXCEPT ![w] = "enter"] /\ reply' = [reply EXCEPT ![w] = NoReply]
      BY <1>2 DEF Call
    <3>2. w \in Threads /\ DOMAIN pc = Threads /\ DOMAIN reply = Writers
      BY DEF LeadInv, AnswerInv, Threads
    <3> QED BY <2>1, <3>1, <3>2
  <2>5. /\ Leaders' = Leaders /\ Queued' = Queued /\ InGroup' = InGroup /\ PlannedBy' = PlannedBy
    BY <2>1, <2>4 DEF Leaders, Leading, Queued, InGroup, PlannedBy
  <2>6. GroupOnce'
    BY <2>1, <2>5 DEF AnswerInv, GroupOnce
  <2>7. ASSUME NEW v \in Writers PROVE Unanswered(v)' <=> v \in (Queued \cup (InGroup \ Leaders))'
    <3>1. CASE v = w
      BY <2>2, <2>4, <2>5, <3>1 DEF Unanswered
    <3>2. CASE v # w
      <4>1. Unanswered(v)' <=> Unanswered(v)
        BY <2>3, <2>4, <3>2 DEF Unanswered, Threads
      <4> QED BY <2>5, <4>1 DEF AnswerInv
    <3> QED BY <3>1, <3>2
  <2>8. InGroup' # {} => \E t \in Threads : pc'[t] \in {"plan", "record"}
    BY <2>1, <2>4, <2>5 DEF AnswerInv
  <2>9. /\ \A t \in Threads : pc'[t] = "record" => run'.todo = <<>>
        /\ \A v \in Writers : pc'[v] = "enter" => reply'[v] = NoReply
    BY <2>1, <2>3, <2>4 DEF AnswerInv, Threads
  <2> QED BY <2>3, <2>6, <2>7, <2>8, <2>9 DEF AnswerInv
<1>3. ASSUME NEW w \in Writers, Enter(w) PROVE AnswerInv'
  <2>1. CASE leader \/ swap_waiting
    BY <1>3, <2>1, Joins DEF Enter
  <2>2. CASE ~(leader \/ swap_waiting)
    <3>1. InGroup = {}
      BY <2>2, NoGroup
    <3>2. /\ pc[w] = "enter" /\ pc' = [pc EXCEPT ![w] = "lead"] /\ UNCHANGED <<reply, pending, run>>
      BY <1>3, <2>2 DEF Enter
    <3>3. pc'[w] = "lead" /\ \A u \in Threads : u # w => pc'[u] = pc[u]
      BY <3>2 DEF LeadInv, Threads
    <3> QED BY <3>1, <3>2, <3>3, AnswersKept DEF AnswerInv, Threads
  <2> QED BY <2>1, <2>2
<1>4. ASSUME NEW w \in Writers, TakeFirst(w) PROVE AnswerInv'
  <2>1. pc[w] = "lead" /\ w \in Threads /\ pending \in Seq(Writers)
    BY <1>4 DEF TakeFirst, Threads, LeadInv
  <2>2. InGroup = {}
    BY <2>1, NoGroup DEF Leading
  <2>3. w \notin Queued
    BY <2>1, <2>2 DEF AnswerInv, Unanswered
  <2>4. /\ Range(<<w>> \o pending) = Queued \cup {w} /\ Inj(<<w>> \o pending)
        /\ <<w>> \o pending \in Seq(Writers)
    BY <2>1, <2>3, ConsParts DEF AnswerInv, GroupOnce, Queued
  <2> QED BY <1>4, <2>1, <2>4, Opens DEF TakeFirst
<1>5. ASSUME NEW w \in Writers, Return(w) PROVE AnswerInv'
  <2>1. /\ pc[w] = "wait" /\ reply[w] # NoReply /\ UNCHANGED <<reply, pending, run>>
        /\ pc'[w] = "idle" /\ \A u \in Threads : u # w => pc'[u] = pc[u]
    BY <1>5 DEF Return, LeadInv, Threads
  <2>2. Leaders' = Leaders /\ Queued' = Queued /\ InGroup' = InGroup /\ PlannedBy' = PlannedBy
    BY <2>1 DEF Leaders, Leading, Queued, InGroup, PlannedBy
  <2>3. GroupOnce'
    BY <2>1, <2>2 DEF AnswerInv, GroupOnce
  <2>4. \A v \in Writers : Unanswered(v)' <=> Unanswered(v)
    BY <2>1 DEF Unanswered, Threads
  <2>5. \A v \in Writers : pc'[v] = "enter" => reply'[v] = NoReply
    BY <2>1 DEF AnswerInv, Threads
  <2>6. InGroup' # {} => \E t \in Threads : pc'[t] \in {"plan", "record"}
    BY <2>1, <2>2 DEF AnswerInv
  <2>7. \A t \in Threads : pc'[t] = "record" => run'.todo = <<>>
    BY <2>1 DEF AnswerInv
  <2> QED BY <2>1, <2>2, <2>3, <2>4, <2>5, <2>6, <2>7 DEF AnswerInv
<1>6. ASSUME NEW t \in Threads, GroupWritten(t) PROVE AnswerInv'
  <2>1. pc[t] = "plan" /\ run.todo = <<>> /\ UNCHANGED <<reply, pending>>
    BY <1>6 DEF GroupWritten
  <2>2. CASE run.planned = <<>>
    <3>1. InGroup = {}
      BY <2>1, <2>2, EmptyParts DEF InGroup
    <3>2. run' = IdleRun /\ pc' = [pc EXCEPT ![t] = "drain"]
      BY <1>6, <2>2 DEF GroupWritten
    <3> QED BY <2>1, <3>1, <3>2, GroupOver DEF AnswerInv, Leading
  <2>3. CASE run.planned # <<>>
    <3>1. run' = run /\ pc' = [pc EXCEPT ![t] = "record"]
      BY <1>6, <2>3 DEF GroupWritten
    <3>2. pc'[t] = "record" /\ \A u \in Threads : u # t => pc'[u] = pc[u]
      BY <3>1 DEF LeadInv
    <3> QED BY <2>1, <3>1, <3>2, AnswersKept DEF AnswerInv, Leaders, Leading, Threads
  <2> QED BY <2>2, <2>3
<1>7. ASSUME NEW t \in Threads, GroupFailed(t) PROVE AnswerInv'
  <2>1. /\ pc[t] = "plan" /\ run.todo = <<>> /\ run' = IdleRun /\ UNCHANGED pending
        /\ pc' = [pc EXCEPT ![t] = "drain"]
        /\ reply' = [w \in Writers |-> IF w \in PlannedBy THEN Failed ELSE reply[w]]
    BY <1>7 DEF GroupFailed, PlannedBy
  <2>2. InGroup = PlannedBy
    BY <2>1, EmptyParts DEF InGroup, PlannedBy
  <2>3. PlannedBy \subseteq Writers
    <3>1. run.planned \in Seq(PlannedTx)
      BY DEF RunInv, Runs
    <3>2. \A p \in Range(run.planned) : p \in PlannedTx
      BY <3>1 DEF Range
    <3> QED BY <3>2 DEF PlannedBy, PlannedTx
  <2>4. reply' \in [Writers -> {NoReply, Failed} \cup SUBSET Quads]
    BY <2>1 DEF AnswerInv
  <2> QED BY <2>1, <2>2, <2>3, <2>4, GroupOver, ConstantsAssumption DEF Leading
<1>8. ASSUME NEW t \in Threads, Publish(t) PROVE AnswerInv'
  <2>1. /\ pc[t] = "record" /\ run.todo = <<>> /\ run.planned = <<>>
        /\ run' = IdleRun /\ pc' = [pc EXCEPT ![t] = "drain"] /\ UNCHANGED <<reply, pending>>
    BY <1>8 DEF Publish, AnswerInv
  <2>2. InGroup = {}
    BY <2>1, EmptyParts DEF InGroup
  <2> QED BY <2>1, <2>2, GroupOver DEF AnswerInv, Leading
<1>9. ASSUME NEW t \in Threads, Drain(t) PROVE AnswerInv'
  <2>1. pc[t] = "drain" /\ InGroup = {}
    BY <1>9, NoGroup DEF Drain, Leading
  <2>2. CASE pending = <<>> \/ swap_waiting
    <3>1. UNCHANGED <<reply, pending, run>> /\ pc' = Notify([pc EXCEPT ![t] = "idle"])
      BY <1>9, <2>2 DEF Drain
    <3>2. /\ \A w \in Writers : pc'[w] = IF w = t THEN "idle" ELSE pc[w]
          /\ \A u \in Threads : pc'[u] = "record" => pc[u] = "record"
      BY <3>1, ConstantsAssumption DEF Notify, LeadInv, Threads
    <3> QED BY <2>1, <3>1, <3>2, AnswersKept DEF AnswerInv
  <2>3. CASE ~(pending = <<>> \/ swap_waiting)
    <3>1. Inj(pending) /\ Range(pending) = Queued /\ pending \in Seq(Writers)
      BY DEF AnswerInv, GroupOnce, Queued, LeadInv
    <3> QED BY <1>9, <2>1, <2>3, <3>1, Opens DEF Drain
  <2> QED BY <2>2, <2>3
<1>10. CASE SwapRequest \/ SwapAcquire \/ SwapEnds \/ SwapPoisons
  <2>1. /\ UNCHANGED <<reply, pending, run>> /\ pc[Swapper] \in {"idle", "woken", "swap"}
        /\ \E x \in {"asleep", "swap", "drain"} : pc' = [pc EXCEPT ![Swapper] = x]
    BY <1>10 DEF SwapRequest, SwapAcquire, SwapEnds, SwapPoisons
  <2>2. /\ pc'[Swapper] \in {"asleep", "swap", "drain"}
        /\ \A u \in Threads : u # Swapper => pc'[u] = pc[u]
    BY <2>1 DEF LeadInv, Threads
  <2>3. \A w \in Writers : w # Swapper /\ w \in Threads
    BY ConstantsAssumption DEF Threads
  <2>4. InGroup \subseteq Writers
    <3>1. run.planned \in Seq(PlannedTx) /\ run.todo \in Seq(Writers)
      BY DEF RunInv, Runs
    <3>2. (\A p \in Range(run.planned) : p \in PlannedTx) /\ Range(run.todo) \subseteq Writers
      BY <3>1 DEF Range
    <3> QED BY <3>2 DEF InGroup, PlannedTx
  <2>5. \A w \in InGroup : w \in Leaders' <=> w \in Leaders
    BY <2>2, <2>3, <2>4 DEF Leaders
  <2>6. InGroup # {} => \E t \in Threads : pc'[t] \in {"plan", "record"}
    BY <2>1, <2>2 DEF AnswerInv
  <2>7. /\ \A w \in Writers : /\ pc'[w] = "wait" <=> pc[w] = "wait"
                              /\ pc'[w] = "enter" => reply[w] = NoReply
        /\ \A t \in Threads : pc'[t] = "record" => run.todo = <<>>
    BY <2>2, <2>3 DEF AnswerInv
  <2> QED BY <2>1, <2>5, <2>6, <2>7, AnswersKept
<1> QED BY <1>1, <1>2, <1>3, <1>4, <1>5, <1>6, <1>7, <1>8, <1>9, <1>10, PlanAnswers, RecordAnswers
        DEF Next, Progress

\* Nobody has called at the start.
LEMMA AnswerInit == Init => AnswerInv
<1> SUFFICES ASSUME Init PROVE AnswerInv
  OBVIOUS
<1>1. Queued = {} /\ InGroup = {} /\ PlannedBy = {} /\ pending = <<>> /\ run.todo = <<>> /\ run.planned = <<>>
  BY EmptyParts DEF Init, IdleRun, Queued, InGroup, PlannedBy
<1>2. GroupOnce
  BY <1>1, EmptyParts DEF GroupOnce
<1>3. \A t \in Threads : pc[t] = "idle"
  BY DEF Init
<1> QED BY <1>1, <1>2, <1>3 DEF Init, AnswerInv, Unanswered, Threads

\* The three invariants together.
LEMMA AnswerAlways == Spec => [](LeadInv /\ RunInv /\ AnswerInv)
BY LeadInit, LeadStep, RunInit, RunStep, AnswerInit, AnswerStep, PTL DEF Spec

\* A waiting call without an answer is in the queue or in the running group,
\* in one of them and once: it is neither forgotten nor committed twice.
THEOREM OnceEach == Spec => []EachAnsweredOnce
<1>1. LeadInv /\ RunInv /\ AnswerInv => EachAnsweredOnce
  <2> SUFFICES ASSUME LeadInv, AnswerInv PROVE EachAnsweredOnce
    OBVIOUS
  <2>1. Len(pending) = Cardinality(Queued)
    BY InjLen DEF LeadInv, AnswerInv, GroupOnce, Queued
  <2> QED BY <2>1 DEF AnswerInv, GroupOnce, EachAnsweredOnce, Unanswered
<1> QED BY <1>1, AnswerAlways, PTL

\* The fields of the queue, the slots and run_group's locals keep their types.
THEOREM GroupTyped == Spec => []TypeOK
<1>1. Init => poisoned \in BOOLEAN /\ disk \subseteq Quads
  BY DEF Init
<1>2. RunInv /\ poisoned \in BOOLEAN /\ disk \subseteq Quads /\ [Next]_vars
        => (poisoned \in BOOLEAN /\ disk \subseteq Quads)'
  <2> SUFFICES ASSUME RunInv, poisoned \in BOOLEAN, disk \subseteq Quads, [Next]_vars
               PROVE  (poisoned \in BOOLEAN /\ disk \subseteq Quads)'
    OBVIOUS
  <2>1. UNCHANGED poisoned \/ poisoned' = TRUE
    BY DEF Next, vars, Progress, Call, Enter, TakeFirst, Return, PlanNext, PlanRejects, GroupWritten,
           GroupFailed, RecordNext, Publish, Drain, SwapRequest, SwapAcquire, SwapEnds, SwapPoisons
  <2>2. UNCHANGED disk \/ disk' = run.work
    BY DEF Next, vars, Progress, Call, Enter, TakeFirst, Return, PlanNext, PlanRejects, GroupWritten,
           GroupFailed, RecordNext, Publish, Drain, SwapRequest, SwapAcquire, SwapEnds, SwapPoisons
  <2> QED BY <2>1, <2>2 DEF RunInv, Runs
<1>3. LeadInv /\ RunInv /\ AnswerInv /\ poisoned \in BOOLEAN /\ disk \subseteq Quads => TypeOK
  BY DEF LeadInv, RunInv, AnswerInv, TypeOK, PCs, Runs, PlannedTx
<1> QED BY <1>1, <1>2, <1>3, AnswerAlways, PTL DEF Spec
=============================================================================
