----------------------------- MODULE MorselPool -----------------------------
(***************************************************************************)
(* The parallel bind-join of the engine (graphy-engine/src/exec/           *)
(* scheduler.rs, Ctl of exec/mod.rs): the batches of the driving scan are  *)
(* morsels, a scoped pool of workers takes them off a shared counter and   *)
(* joins each one with every pattern, under a cancel flag, a deadline and  *)
(* a memory budget they all draw on.                                       *)
(* scan_rows is left out: a pattern is a function from a row to the rows   *)
(* it extends to.  A row costs one unit of the budget.                     *)
(***************************************************************************)
EXTENDS Integers, Sequences, FiniteSets, SequencesExt

CONSTANTS
    Joins,      \* the calls: [morsels, pats, threads, budget]; budget -1 is none
    NoRows      \* the value of rows before there is a result

VARIABLES
    join,           \* the call being run
    budget,         \* what is left of it, possibly negative
    stopped,        \* the query was cancelled or its deadline has passed
    collected,      \* morsels read from the driving scan
    next_morsel,    \* the shared counter
    workers,        \* <<>> until the scope is entered
    results,        \* what finished workers handed in: <<index, rows>>
    failure,        \* the slot: some worker failed
    outcome, out    \* "", "ok" or "err"; the rows of an "ok"
pvars == <<join, budget, stopped, collected, next_morsel, workers, results, failure, outcome, out>>

PoolInit ==
    /\ join \in Joins /\ budget = join.budget /\ stopped = FALSE
    /\ collected = 0 /\ next_morsel = 1 /\ workers = <<>> /\ results = {}
    /\ failure = FALSE /\ outcome = "" /\ out = NoRows

\* The caller cancels, or the deadline passes: for good, at any time.
Interrupt ==
    /\ ~stopped /\ outcome = "" /\ stopped' = TRUE
    /\ UNCHANGED <<join, budget, collected, next_morsel, workers, results, failure, outcome, out>>

Limited == join.budget >= 0
\* charge: fetch_sub, refused when what is left is negative; it stays taken.
charge(n) == budget' = IF Limited THEN budget - n ELSE budget
Overdrawn(n) == Limited /\ budget - n < 0

Finished(result, rows) == outcome' = result /\ out' = rows

\* The coordinator reads the driving scan, a charge per batch; an overdraft
\* ends the call before any worker exists.
Collect ==
    LET n == Len(join.morsels[collected + 1])
    IN /\ outcome = "" /\ collected < Len(join.morsels)
       /\ charge(n) /\ collected' = collected + 1
       /\ IF Overdrawn(n) THEN Finished("err", NoRows) ELSE UNCHANGED <<outcome, out>>
       /\ UNCHANGED <<join, stopped, next_morsel, workers, results, failure>>

LesserOf(a, b) == IF a < b THEN a ELSE b
Spawn ==
    /\ outcome = "" /\ workers = <<>> /\ collected = Len(join.morsels)
    /\ workers' = [w \in 1..(IF collected = 0 THEN 1 ELSE LesserOf(join.threads, collected)) |->
                     [pc |-> "take", idx |-> 0, rows |-> <<>>, pat |-> 1, local |-> {}]]
    /\ UNCHANGED <<join, budget, stopped, collected, next_morsel, results, failure, outcome, out>>

Step(w, to) == workers' = [workers EXCEPT ![w] = to]

\* fetch_add; past the end the worker is through.
Take(w) ==
    /\ workers[w].pc = "take"
    /\ next_morsel' = next_morsel + 1
    /\ Step(w, [workers[w] EXCEPT !.idx = next_morsel,
                                  !.pc = IF next_morsel > Len(join.morsels) THEN "extend" ELSE "check"])
    /\ UNCHANGED <<join, budget, stopped, collected, results, failure, outcome, out>>

\* ctl.check: an interrupted worker leaves without a failure.
Begin(w) ==
    LET me == workers[w]
    IN /\ me.pc = "check"
       /\ Step(w, IF stopped THEN [me EXCEPT !.pc = "extend"]
                  ELSE [me EXCEPT !.pc = "scan", !.rows = join.morsels[me.idx], !.pat = 1])
       /\ UNCHANGED <<join, budget, stopped, collected, next_morsel, results, failure, outcome, out>>

\* One pattern over the rows of the morsel, charged for what it produced; the
\* morsel is done when no pattern or no row is left.
Joined(rows, pat) == FlattenSeq([i \in DOMAIN rows |-> pat[rows[i]]])
ScanPattern(w) ==
    LET me == workers[w]
        next == Joined(me.rows, join.pats[me.pat])
    IN /\ me.pc = "scan" /\ me.pat <= Len(join.pats)
       /\ charge(Len(next))
       /\ Step(w, IF Overdrawn(Len(next)) THEN [me EXCEPT !.pc = "fail"]
                  ELSE [me EXCEPT !.rows = next, !.pat = IF next = <<>> THEN Len(join.pats) + 1 ELSE @ + 1])
       /\ UNCHANGED <<join, stopped, collected, next_morsel, results, failure, outcome, out>>
MorselDone(w) ==
    LET me == workers[w]
    IN /\ me.pc = "scan" /\ me.pat > Len(join.pats)
       /\ Step(w, [me EXCEPT !.pc = "take", !.local = @ \cup {<<me.idx, me.rows>>}])
       /\ UNCHANGED <<join, budget, stopped, collected, next_morsel, results, failure, outcome, out>>
Fail(w) ==
    /\ workers[w].pc = "fail" /\ failure' = TRUE
    /\ Step(w, [workers[w] EXCEPT !.pc = "extend"])
    /\ UNCHANGED <<join, budget, stopped, collected, next_morsel, results, outcome, out>>
Extend(w) ==
    /\ workers[w].pc = "extend" /\ results' = results \cup workers[w].local
    /\ Step(w, [workers[w] EXCEPT !.pc = "done", !.local = {}])
    /\ UNCHANGED <<join, budget, stopped, collected, next_morsel, failure, outcome, out>>

\* A mutant: only failures are looked at.
NeverInterrupted == failure
Interrupted == failure \/ stopped
\* After the scope: a failure, an interruption, or the rows in morsel order.
InOrder(R) == SetToSortSeq(R, LAMBDA a, b : a[1] < b[1])
Join ==
    LET sorted == InOrder(results)
    IN /\ outcome = "" /\ workers # <<>> /\ \A w \in DOMAIN workers : workers[w].pc = "done"
       /\ IF Interrupted THEN Finished("err", NoRows)
          ELSE Finished("ok", FlattenSeq([i \in DOMAIN sorted |-> sorted[i][2]]))
       /\ UNCHANGED <<join, budget, stopped, collected, next_morsel, workers, results, failure>>

PoolNext ==
    \/ Interrupt \/ Collect \/ Spawn \/ Join
    \/ \E w \in DOMAIN workers : Take(w) \/ Begin(w) \/ ScanPattern(w) \/ MorselDone(w) \/ Fail(w) \/ Extend(w)

-----------------------------------------------------------------------------
(* Properties.                                                             *)

\* The same join without workers, and what it costs.
Sequential == FoldLeft(Joined, FlattenSeq(join.morsels), join.pats)
Cost ==
    LET after(k) == Len(FoldLeft(Joined, FlattenSeq(join.morsels), SubSeq(join.pats, 1, k)))
        sum[k \in 0..Len(join.pats)] == after(k) + (IF k = 0 THEN 0 ELSE sum[k - 1])
    IN sum[Len(join.pats)]

\* Whatever the schedule: a result handed out is the whole sequential one in
\* its order, however early workers left; and a query nobody interrupted is
\* refused exactly when its rows exceed the budget.
PoolComplete ==
    /\ outcome = "ok" => out = Sequential
    /\ outcome # "" /\ ~stopped => ((outcome = "err") <=> Limited /\ Cost > join.budget)
=============================================================================
