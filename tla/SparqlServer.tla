---------------------------- MODULE SparqlServer ----------------------------
(***************************************************************************)
(* The SPARQL endpoint over one store: requests of concurrent clients      *)
(* (graphy-server/src/lib.rs on its blocking pool), the update executor's  *)
(* read-then-apply (graphy-engine/src/update.rs), the plan cache           *)
(* (exec/cache.rs) and the two background folds that rebuild the overlay   *)
(* dictionary, merge and ephemeral compaction (graphy-store/src/store.rs). *)
(*                                                                         *)
(* A commit is one atomic step here: SnapshotStore and GroupCommit show    *)
(* what happens inside it.  What an update operation plans over a snapshot *)
(* and what a query answers are parameters, given by SparqlUpdate and      *)
(* SparqlExec.                                                             *)
(***************************************************************************)
EXTENDS Integers, Sequences, FiniteSets, Functions

CONSTANTS Client,
          Request,            \* client -> the requests it may send
          GraphOf(_),         \* the graph of a quad
          Unnamed,
          FirstQuads,         \* the dataset at start
          PlanOf(_, _, _),    \* (store, operation, ordinal) -> [ok, dels, adds]
          AnswerOf(_, _),     \* (store, query) -> answer
          Capacity,           \* CAPACITY, plans the cache holds
          MaxOps, MaxFold     \* bounds: write operations, merges and compactions

ASSUME ServerAssumption == Capacity \in Nat /\ MaxOps \in Nat /\ MaxFold \in Nat
\* Datasets and bodies are finite, and a query's id stands for its text: two
\* requests that share it name the same graphs.
ASSUME RequestAssumption ==
    /\ IsFiniteSet(FirstQuads)
    /\ \A c \in Client : \A r \in Request[c] : r.kind \in {"query", "update"} \/ IsFiniteSet(r.body)
    /\ \A c, d \in Client : \A r \in Request[c], s \in Request[d] :
         r.kind = "query" /\ s.kind = "query" /\ r.id = s.id => r.names = s.names

VARIABLES
    quads,      \* the dataset of the published snapshot
    delta,      \* identity of its delta (storage_identity)
    gen, epoch, \* its generation and epoch
    dict,       \* delta -> graph names in column order; shared by its snapshots
    base,       \* how many of the names are the base segment's
    ephemeral,  \* an in-memory store is compacted, a directory is merged
    minted,     \* FRESH: the ordinal of the next operation's labels
    cache,      \* CACHE: the plans, by key
    client      \* client -> what its request is doing

vars == <<quads, delta, gen, epoch, dict, base, ephemeral, minted, cache, client>>

Etag(view) == <<view.gen, view.epoch>>
Published == [quads |-> quads, delta |-> delta, gen |-> gen, epoch |-> epoch]
NoView == [quads |-> {}, delta |-> 0, gen |-> 0, epoch |-> 0]
Names(s) == {s[i] : i \in 1..Len(s)}
GraphsIn(qs) == {GraphOf(q) : q \in qs} \ {Unnamed}
NoPlan == [ok |-> FALSE]
NoneReq == [kind |-> "none"]
Idle == [pc |-> "idle", req |-> NoneReq, at |-> 0, view |-> NoView, plan |-> NoPlan,
         status |-> 0, etag |-> <<>>, body |-> {}, seen |-> 0, ordinal |-> 0]

\* Sequences without repetition of the elements of a set.
Orders(S) == {s \in [1..Cardinality(S) -> S] : \A i, j \in DOMAIN s : s[i] = s[j] => i = j}

Init ==
    /\ quads = FirstQuads
    /\ delta = 1 /\ gen = 0 /\ epoch = 0
    /\ dict \in {<<s>> : s \in Orders(GraphsIn(FirstQuads))}
    /\ ephemeral \in BOOLEAN
    /\ base = IF ephemeral THEN 0 ELSE Len(dict[1])
    /\ minted = 0
    /\ cache = {}
    /\ client = [c \in Client |-> Idle]

Set(c, f) == client' = [client EXCEPT ![c] = f]
\* The response; of the finished request only what it leaves with the
\* client is kept.
Reply(c, k, status) ==
    Set(c, [k EXCEPT !.pc = "done", !.status = status, !.plan = NoPlan, !.seen = 0, !.ordinal = 0,
                     !.view = IF status = 304 THEN @ ELSE NoView])

-----------------------------------------------------------------------------
(* run_query.                                                              *)

\* Operations the requests under way have still to read.
OpsOf(r) == IF r.kind = "query" THEN 0 ELSE IF r.kind = "update" THEN Len(r.ops) ELSE 1
OpsLeft(k) == IF k.pc = "read" THEN OpsOf(k.req) - k.at + 1
              ELSE IF k.pc = "commit" THEN OpsOf(k.req) - k.at ELSE 0
Budget(r) == minted + FoldFunction(+, 0, [c \in Client |-> OpsLeft(client[c])]) + OpsOf(r) <= MaxOps

\* A client sends a request; it keeps the validator and body of the last
\* answer it got.
Send(c, r) ==
    /\ client[c].pc \in {"idle", "done"}
    /\ Budget(r)
    /\ Set(c, [client[c] EXCEPT !.pc = IF r.kind = "query" THEN "snap" ELSE "read",
                                !.req = r, !.at = 1, !.status = 0, !.view = NoView,
                                !.etag = IF client[c].req = r THEN @ ELSE <<>>,
                                !.body = IF client[c].req = r THEN @ ELSE {}])
    /\ UNCHANGED <<quads, delta, gen, epoch, dict, base, ephemeral, minted, cache>>

\* Pin a snapshot; answer 304 when it still has the client's validator.
Snap(c) ==
    LET k == client[c]
    IN /\ k.pc = "snap"
       /\ IF k.etag = Etag(Published) THEN Reply(c, [k EXCEPT !.view = Published], 304)
          ELSE Set(c, [k EXCEPT !.pc = "plan", !.view = Published])
       /\ UNCHANGED <<quads, delta, gen, epoch, dict, base, ephemeral, minted, cache>>

\* plan_cached: the key, and the plan, which holds the columns the query's
\* graph names resolve to (0: not in the dictionary, pruned).  A full cache
\* is emptied first.
KeyWithoutIdentity(view, q) == <<view.gen, view.epoch, q.id>>
key(view, q) == <<view.delta, view.gen, view.epoch, q.id>>
Column(s, n) == IF n \in Names(s) THEN CHOOSE i \in 1..Len(s) : s[i] = n ELSE 0
PlanColumns(view, q) == [n \in q.names |-> Column(dict[view.delta], n)]
CachedPlan(view, q) ==
    LET hits == {e \in cache : e.key = key(view, q)}
    IN IF hits # {} THEN (CHOOSE e \in hits : TRUE).columns ELSE PlanColumns(view, q)

plan_cached(c) ==
    LET k == client[c]
        cols == CachedPlan(k.view, k.req)
    IN /\ k.pc = "plan"
       /\ Set(c, [k EXCEPT !.pc = "eval", !.plan = cols])
       /\ cache' = IF \E e \in cache : e.key = key(k.view, k.req) THEN cache
                   ELSE (IF Cardinality(cache) >= Capacity THEN {} ELSE cache)
                        \cup {[key |-> key(k.view, k.req), columns |-> cols]}
       /\ UNCHANGED <<quads, delta, gen, epoch, dict, base, ephemeral, minted>>

\* evaluate_with over the pinned snapshot; its dictionary is the delta's,
\* as long as it has grown by now.
Evaluate(c) ==
    LET k == client[c]
        store == [quads |-> k.view.quads, graphs |-> dict[k.view.delta]]
    IN /\ k.pc = "eval"
       /\ Reply(c, [k EXCEPT !.body = AnswerOf(store, k.req), !.etag = Etag(k.view)], 200)
       /\ UNCHANGED <<quads, delta, gen, epoch, dict, base, ephemeral, minted, cache>>

-----------------------------------------------------------------------------
(* Writes: an update's operations one by one, or one Graph Store write.    *)

\* gsp_write and dataset_write: what a PUT, POST or DELETE of a graph (or of
\* the whole dataset) deletes and adds, and its status.
gsp_plan(view, r) ==
    LET here == {q \in view.quads : r.whole \/ GraphOf(q) = r.graph}
        dels == IF r.method = "post" THEN {} ELSE here
        named == ~r.whole /\ r.graph # Unnamed
        new == named /\ r.graph \notin Names(dict[view.delta])
    IN [ok |-> TRUE, dels |-> dels, adds |-> r.body,
        status |-> CASE r.method = "delete" /\ dels = {} /\ named -> 404
                     [] r.method # "delete" /\ new -> 201
                     [] OTHER -> 204]

\* The snapshot an operation works on: a fresh one for each.
PinnedOnce(k) == IF k.at > 1 THEN k.view ELSE Published
Pinned(k) == Published

\* execute_op, first half: pin a snapshot and compute the plan over it.  A
\* failed operation ends the request; the ones before it stay committed.
Read(c) ==
    LET k == client[c]
        r == k.req
        view == Pinned(k)
        store == [quads |-> view.quads, graphs |-> dict[view.delta]]
        next == [k EXCEPT !.view = view, !.ordinal = minted]
        done(p) == IF r.kind = "update" THEN ~p.ok ELSE r.method = "delete" /\ p.dels = {}
        take(p) == IF done(p) THEN Reply(c, [next EXCEPT !.plan = p], IF r.kind = "update" THEN 500 ELSE p.status)
                   ELSE Set(c, [next EXCEPT !.plan = p, !.pc = "commit"])
    IN /\ k.pc = "read"
       /\ take(IF r.kind = "update" THEN PlanOf(store, r.ops[k.at], minted) ELSE gsp_plan(view, r))
       /\ minted' = minted + 1
       /\ UNCHANGED <<quads, delta, gen, epoch, dict, base, ephemeral, cache>>

\* Store::apply at the tip: deletes before adds; nothing effective commits
\* nothing, but the names of the adds are interned either way.
AfterApply(p) == (quads \ p.dels) \cup p.adds
Interned(p) == {s \in Orders(Names(dict[delta]) \cup GraphsIn(p.adds)) :
                  SubSeq(s, 1, Len(dict[delta])) = dict[delta]}
EpochOfGrowth(after) == IF after \subseteq quads THEN epoch ELSE epoch + 1
EpochAfter(after) == IF after = quads THEN epoch ELSE epoch + 1
Commit(c) ==
    LET k == client[c]
        after == AfterApply(k.plan)
        last == k.req.kind # "update" \/ k.at = Len(k.req.ops)
        now == EpochAfter(after)
        next == [k EXCEPT !.at = @ + 1, !.seen = now]
    IN /\ k.pc = "commit"
       /\ quads' = after
       /\ epoch' = now
       /\ \E s \in Interned(k.plan) : dict' = [dict EXCEPT ![delta] = s]
       /\ IF last THEN Reply(c, next, IF k.req.kind = "update" THEN 204 ELSE k.plan.status)
          ELSE Set(c, [next EXCEPT !.pc = "read"])
       /\ UNCHANGED <<delta, gen, base, ephemeral, minted, cache>>

-----------------------------------------------------------------------------
(* The folds: a fresh delta, whose dictionary drops the names of graphs    *)
(* that hold nothing.                                                      *)

Fold(newGen, kept) ==
    /\ delta <= MaxFold
    /\ delta' = delta + 1
    /\ gen' = newGen
    /\ \E s \in Orders(GraphsIn(quads) \cup Names(kept)) :
         SubSeq(s, 1, Len(kept)) = kept /\ dict' = Append(dict, s)
    /\ UNCHANGED <<quads, epoch, ephemeral, minted, cache, client>>
\* merge rebuilds the base, so every name may move.
Merge == ~ephemeral /\ Fold(gen + 1, <<>>) /\ base' = Len(dict'[delta'])
\* compact_ephemeral renumbers the overlay above the base, at the same epoch.
compact_ephemeral == ephemeral /\ Fold(gen, SubSeq(dict[delta], 1, base)) /\ UNCHANGED base

Next ==
    \/ \E c \in Client :
         \/ \E r \in Request[c] : Send(c, r)
         \/ Snap(c) \/ plan_cached(c) \/ Evaluate(c) \/ Read(c) \/ Commit(c)
    \/ Merge \/ compact_ephemeral

Spec == Init /\ [][Next]_vars

-----------------------------------------------------------------------------
(* Properties.                                                             *)

StoreOf(view) == [quads |-> view.quads, graphs |-> dict[view.delta]]

\* A 304 is true: the body the client kept is what the query would answer
\* now (run_query's If-None-Match against "G<generation>.E<epoch>").
NotModifiedSound ==
    \A c \in Client : LET k == client[c] IN
        k.pc = "done" /\ k.status = 304 => k.body = AnswerOf(StoreOf(k.view), k.req)

\* A cached plan fits the snapshot it is run on: every resolved column is
\* that graph's column there, and what was pruned as absent holds nothing
\* (plan_cached's key of storage identity, generation and epoch).
PlanFits ==
    \A c \in Client : LET k == client[c] IN
        k.pc = "eval" => \A n \in k.req.names :
            IF k.plan[n] = 0 THEN n \notin GraphsIn(k.view.quads)
            ELSE k.plan[n] = Column(dict[k.view.delta], n)

\* When nothing was committed since an operation's snapshot was pinned, or
\* since the operation before it in its request, its commit has the effect the
\* operation has on the tip, however the store was folded in between: the
\* loop of execute_update pins a snapshot per operation.
UncontendedAtomic ==
    [][\A c \in Client :
        LET k == client[c]
            now == PlanOf([quads |-> quads, graphs |-> dict[delta]], k.req.ops[k.at], k.ordinal)
        IN Commit(c) /\ k.req.kind = "update" /\ epoch \in {k.view.epoch, k.seen} /\ now.ok
             => quads' = (quads \ now.dels) \cup now.adds]_vars
=============================================================================
