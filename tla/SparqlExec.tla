----------------------------- MODULE SparqlExec -----------------------------
(***************************************************************************)
(* The vectorised engine (graphy-engine/src/exec): the planner turns an    *)
(* algebra tree into physical operators, ordering each basic graph pattern *)
(* by cost, and the operators pull batches of rows from one another.       *)
(*                                                                         *)
(* A stream is the sequence of non-empty batches an operator's next calls  *)
(* return before None, so where an operator keeps state between calls (the *)
(* rows a DISTINCT has seen, what OFFSET still skips, a join's overflow)   *)
(* the batch boundaries are there to get it wrong.  Rows within a hash     *)
(* bucket keep their order; buckets are visited in one fixed order.        *)
(* Metering is left out, the memory budget, cancellation and the morsel    *)
(* pool are in MorselPool.                                                 *)
(***************************************************************************)
EXTENDS SparqlEval

CONSTANT BatchCap       \* BATCH_CAP, rows per batch
-----------------------------------------------------------------------------
(* Planning.                                                               *)

VarsOf(ps) == {ps[i][2] : i \in {j \in 1..Len(ps) : IsVar(ps[j])}}
pat_vars(t) == VarsOf(t)

\* certain: the variables bound in every row a plan node emits.
RECURSIVE certain(_)
certain(p) ==
    CASE p.op \in {"unit", "empty"} -> {}
      [] p.op = "scan" -> pat_vars(p.pat)
      [] p.op = "bindjoin" -> certain(p.l) \cup pat_vars(p.pat)
      [] p.op = "bindpath" -> certain(p.l) \cup VarsOf(<<p.s, p.o>>)
      [] p.op = "hashjoin" -> certain(p.l) \cup certain(p.r)
      [] p.op = "union" -> certain(p.l) \cap certain(p.r)
      [] p.op = "graphvar" -> certain(p.l) \cup {p.v}
      [] p.op = "table" -> {p.vars[k] : k \in {i \in 1..Len(p.vars) :
                               \A j \in 1..Len(p.rows) : p.rows[j][i] # Err}}
      [] p.op = "group" -> {p.keys[i][1] : i \in {j \in 1..Len(p.keys) :
                               p.keys[j][2] = NoExpr /\ p.keys[j][1] \in certain(p.l)}}
      [] p.op = "project" -> certain(p.l) \cap ToSet(p.vars)
      [] OTHER -> certain(p.l)   \* leftjoin, minus, filter, extend, graphconst, sort, distinct, slice

\* key_vars: hash on the variables certainly bound on both sides.
key_vars(l, r) == certain(l) \cap certain(r)

\* leaf_count: GRAPH ?g counts across every graph (no graph is fixed yet).
AnyGraph == Err
leaf_count(D, t, scope) ==
    IF scope = AnyGraph THEN Cardinality({q \in D.quads : MatchTriple(t, q, NoRow) # {}})
    ELSE pattern_count(D, t, scope)

\* order_greedy: connected patterns first, then the smaller count.
order_greedy(D, pats, scope, outer) ==
    LET n == Len(pats)
        rank(i, bound) == <<IF bound # {} /\ pat_vars(pats[i]) \cap bound # {} THEN 0 ELSE 1,
                            leaf_count(D, pats[i], scope), i>>
        less(x, y) == LexCompare(x, y) = "lt"
        step(st, k) ==
            LET left == (1..n) \ ToSet(st.order)
                i == CHOOSE a \in left : \A b \in left \ {a} : less(rank(a, st.bound), rank(b, st.bound))
            IN [order |-> Append(st.order, i), bound |-> st.bound \cup pat_vars(pats[i])]
    IN FoldLeft(step, [order |-> <<>>, bound |-> outer], [k \in 1..n |-> k]).order

\* order_dp: cheapest order of every subset, built from one pattern less.
\* Costs are thousandths of a row; a shared variable damps by a decade, two
\* for the first.  Of equal costs the first subset visited wins, which is
\* the one whose last pattern has the largest index.
Milli(x) == MaxOf({x, 1000})
order_dp(D, pats, scope, outer) ==
    LET n == Len(pats)
        count(i) == leaf_count(D, pats[i], scope)
        all == UNION {pat_vars(pats[i]) : i \in 1..n}
        vars(S) == UNION {pat_vars(pats[i]) : i \in S} \cup (outer \cap all)
        shared(j, V) == Cardinality(pat_vars(pats[j]) \cap V)
        best[S \in (SUBSET (1..n)) \ {{}}] ==
            IF Cardinality(S) = 1
            THEN LET i == CHOOSE x \in S : TRUE
                     est == Milli((1000 * count(i)) \div 10^shared(i, outer))
                 IN [cost |-> est, est |-> est, order |-> <<i>>]
            ELSE LET last(j) == LET cur == best[S \ {j}]
                                    k == shared(j, vars(S \ {j}))
                                    est == Milli((cur.est * count(j)) \div
                                                 (IF k > 0 THEN 10^(k + 1) ELSE 1))
                                IN [cost |-> cur.cost + est, est |-> est, order |-> Append(cur.order, j)]
                     j0 == CHOOSE j \in S : \A i \in S \ {j} :
                             \/ last(j).cost < last(i).cost
                             \/ last(j).cost = last(i).cost /\ j > i
                 IN last(j0)
    IN best[1..n].order

DpLimit == 10
\* plan_bgp: the ordered patterns as a scan and bind joins onto the input.
plan_bgp(D, input, pats, scope, outer) ==
    LET order == IF Len(pats) <= DpLimit THEN order_dp(D, pats, scope, outer)
                 ELSE order_greedy(D, pats, scope, outer)
        add(phys, i) == IF phys.op = "unit" THEN [op |-> "scan", pat |-> pats[i]]
                        ELSE [op |-> "bindjoin", l |-> phys, pat |-> pats[i]]
    IN IF pats = <<>> THEN input ELSE FoldLeft(add, input, order)

\* plan: one physical node per algebra node; a pattern or path on the right
\* of a join is fused into the left pipeline as bind joins.
RECURSIVE plan(_, _, _)
plan(D, a, scope) ==
    LET unit == [op |-> "unit"]
        sub(x) == plan(D, x, scope)
        one(op, rest) == [op |-> op, l |-> sub(a.l)] @@ rest
    IN CASE a.op = "bgp" -> plan_bgp(D, unit, a.pats, scope, {})
         [] a.op = "path" -> [op |-> "bindpath", l |-> unit, s |-> a.s, path |-> a.path, o |-> a.o]
         [] a.op = "join" /\ a.r.op = "bgp" ->
               plan_bgp(D, sub(a.l), a.r.pats, scope, certain(sub(a.l)))
         [] a.op = "join" /\ a.r.op = "path" ->
               [op |-> "bindpath", l |-> sub(a.l), s |-> a.r.s, path |-> a.r.path, o |-> a.r.o]
         [] a.op = "join" /\ a.r.op \notin {"bgp", "path"} ->
               [op |-> "hashjoin", l |-> sub(a.l), r |-> sub(a.r),
                keys |-> key_vars(sub(a.l), sub(a.r))]
         [] a.op = "leftjoin" -> [op |-> "leftjoin", l |-> sub(a.l), r |-> sub(a.r), e |-> a.e,
                                  keys |-> key_vars(sub(a.l), sub(a.r))]
         [] a.op \in {"minus", "union"} -> [op |-> a.op, l |-> sub(a.l), r |-> sub(a.r)]
         [] a.op = "filter" -> one("filter", [e |-> a.e])
         [] a.op = "extend" -> one("extend", [v |-> a.v, e |-> a.e])
         [] a.op = "graph" /\ ~IsVar(a.g) ->
               IF GraphExists(D, a.g) /\ Visible(D, a.g)
               THEN [op |-> "graphconst", g |-> a.g, l |-> plan(D, a.l, a.g)]
               ELSE [op |-> "empty"]
         [] a.op = "graph" /\ IsVar(a.g) -> [op |-> "graphvar", v |-> a.g[2], l |-> plan(D, a.l, AnyGraph)]
         [] a.op = "table" -> a
         [] a.op \in {"multiset", "reduced"} -> sub(a.l)
         [] a.op = "group" -> one("group", [keys |-> a.keys, aggs |-> a.aggs])
         [] a.op = "order" -> one("sort", [conds |-> a.conds])
         [] a.op = "project" -> one("project", [vars |-> a.vars])
         [] a.op = "distinct" -> one("distinct", <<>>)
         [] a.op = "slice" -> one("slice", [offset |-> a.offset, limit |-> a.limit])

-----------------------------------------------------------------------------
(* Compiled filters: a comparison of a variable with a variable or a       *)
(* constant goes by the inline ids when both have one.                     *)

\* Which terms carry their value in the id (graphy-core id.rs): canonical
\* numerals, booleans and zoned dateTimes.
IsInline(t) ==
    \/ t[1] = "bool" /\ t[3] = "-"
    \/ t[1] = "num" /\ t[3] \in {"int", "dec", "dbl", "nan"}
    \/ t[1] = "dt"

\* cmp_int_dec: against the decimal's floor, ties broken by its fraction.
cmp_int_dec(i, u, s) ==
    LET floorU == u \div (10^s)
    IN IF i = floorU /\ u % (10^s) # 0 THEN "lt" ELSE Compare(i, floorU)
\* cmp_dec_dec: the smaller scale is multiplied up.
cmp_dec_dec(u1, s1, u2, s2) ==
    IF s1 > s2 THEN Compare(u1, u2 * 10^(s1 - s2)) ELSE Compare(u1 * 10^(s2 - s1), u2)

partial_cmp_value(a, b) ==
    CASE ~IsInline(a) \/ ~IsInline(b) -> "none"
      [] a[3] = "int" /\ b[3] = "int" -> Compare(a[2], b[2])
      [] a[3] = "int" /\ b[3] = "dec" -> cmp_int_dec(a[2], b[2], b[4])
      [] a[3] = "dec" /\ b[3] = "int" -> Reversed(cmp_int_dec(b[2], a[2], a[4]))
      [] a[3] = "dec" /\ b[3] = "dec" -> cmp_dec_dec(a[2], a[4], b[2], b[4])
      [] IsNum(a) /\ IsNum(b) -> IF "nan" \in {a[3], b[3]} THEN "none"
                                 ELSE cmp_dec_dec(a[2], a[4], b[2], b[4])
      [] a[1] = "bool" /\ b[1] = "bool" -> Compare(a[2], b[2])
      [] OTHER -> "none"

\* flip: the operator with its operands exchanged.
flip(f) == CASE f = "<" -> ">" [] f = "<=" -> ">=" [] f = ">" -> "<" [] f = ">=" -> "<=" [] OTHER -> f
apply(f, o) == CASE f = "=" -> o = "eq" [] f = "!=" -> o # "eq" [] f = "<" -> o = "lt"
                 [] f = "<=" -> o # "gt" [] f = ">" -> o = "gt" [] f = ">=" -> o # "lt"

\* Prog::compile and Prog::truthy.
ProgTruthy(D, e, scope, row) ==
    LET varConst == e.op = "cmp" /\ e.b.op = "term" /\ e.a.op = "var"
        constVar == e.op = "cmp" /\ e.a.op = "term" /\ e.b.op = "var"
        varVar == e.op = "cmp" /\ e.a.op = "var" /\ e.b.op = "var"
        val(x) == IF x.op = "term" THEN x.t ELSE IF x.v \in DOMAIN row THEN row[x.v] ELSE Err
        fast(x, y, f) == LET o == IF "dt" \in {val(x)[1], val(y)[1]} THEN "none"
                                  ELSE partial_cmp_value(val(x), val(y))
                         IN IF o = "none" THEN truthy(D, e, scope, row) ELSE apply(f, o)
    IN CASE varVar \/ varConst -> fast(e.a, e.b, e.f)
         [] constVar -> fast(e.b, e.a, flip(e.f))
         [] OTHER -> truthy(D, e, scope, row)

-----------------------------------------------------------------------------
(* Operators over batch streams.                                           *)

\* Fill batches to capacity: scans, joins, sorts and groups.
Rebatch(rows) ==
    [i \in 1..((Len(rows) + BatchCap - 1) \div BatchCap) |->
        SubSeq(rows, (i - 1) * BatchCap + 1, MinOf({i * BatchCap, Len(rows)}))]
\* Transform batch by batch, dropping the ones left empty.
PerBatch(F(_), bs) == Keep(LAMBDA b : b # <<>>, MapSeq(F, bs))
Rows(bs) == FlattenSeq(bs)

\* key_of and the probe shared by the two hash joins: a row with every key
\* bound meets its bucket, one without meets every bucket, both the loose
\* rows of the build side.
HasKey(row, keys) == keys # {} /\ keys \subseteq DOMAIN row
Probe(row, build, keys) ==
    LET bucket == Keep(LAMBDA r : HasKey(r, keys)
                         /\ (HasKey(row, keys) => \A v \in keys : r[v] = row[v]), build)
        loose == Keep(LAMBDA r : ~HasKey(r, keys), build)
    IN MergeAll(row, bucket) \o MergeAll(row, loose)

\* A mutant: each batch on its own.
DistinctPerBatch(bs) == PerBatch(Distinct, bs)
\* DistinctOp: what earlier batches emitted is remembered.
DistinctStream(bs) ==
    FoldLeft(LAMBDA st, b : LET fresh == Keep(LAMBDA r : r \notin st.seen, Distinct(b))
                            IN [seen |-> st.seen \cup ToSet(b),
                                out |-> IF fresh = <<>> THEN st.out ELSE Append(st.out, fresh)],
             [seen |-> {}, out |-> <<>>], bs).out

\* SliceOp: skip and remain are counted down across batches.
SliceStream(bs, offset, limit) ==
    FoldLeft(LAMBDA st, b :
                LET drop == MinOf({st.skip, Len(b)})
                    rest == SubSeq(b, drop + 1, Len(b))
                    take == IF st.remain = -1 THEN Len(rest) ELSE MinOf({st.remain, Len(rest)})
                IN IF st.remain = 0 THEN st
                   ELSE [skip |-> st.skip - drop,
                         remain |-> IF st.remain = -1 THEN -1 ELSE st.remain - take,
                         out |-> IF take = 0 THEN st.out ELSE Append(st.out, SubSeq(rest, 1, take))],
             [skip |-> offset, remain |-> limit, out |-> <<>>], bs).out

\* The operators, each over the batches or the rows it pulls.
ScanOp(D, pat, scope) == Rebatch(scan_rows(D, pat, scope, NoRow))
BindJoinOp(D, pat, scope, rows) == Rebatch(BindScan(D, pat, scope, rows))
BindPathOp(D, p, scope, rows) ==
    Rebatch(FlatMap(LAMBDA r : eval_path(D, p.s, p.path, p.o, scope, r), rows))
HashJoinOp(rows, build, keys) == Rebatch(FlatMap(LAMBDA r : Probe(r, build, keys), rows))
LeftJoinOp(D, p, scope, rows, build) ==
    LET pass(m) == p.e = NoExpr \/ truthy(D, p.e, scope, m)
        ext(r) == LET ms == Keep(pass, Probe(r, build, p.keys)) IN IF ms = <<>> THEN <<r>> ELSE ms
    IN Rebatch(FlatMap(ext, rows))
MinusOp(bs, build) ==
    PerBatch(LAMBDA b : Keep(LAMBDA x : ~\E i \in 1..Len(build) : excludes(x, build[i]), b), bs)
FilterOp(D, e, scope, bs) == PerBatch(LAMBDA b : Keep(LAMBDA r : ProgTruthy(D, e, scope, r), b), bs)
ExtendOp(D, p, scope, bs) ==
    PerBatch(LAMBDA b : MapSeq(LAMBDA r : Bind(r, p.v, eval_expr(D, p.e, scope, r)), b), bs)
TableOp(p) ==
    LET rows == FlatMap(LAMBDA c : TableRow(p.vars, c, NoRow), p.rows)
    IN IF rows = <<>> THEN <<>> ELSE <<rows>>
\* One run of the body per visible named graph, joined with its name.
GraphVarOp(v, g, bs) == PerBatch(LAMBDA b : MergeAll(v :> g, b), bs)
GroupOp(D, p, scope, rows) == Rebatch(group_rows(D, p.keys, p.aggs, scope, rows, NoRow))
SortOp(D, conds, scope, rows) == Rebatch(sort_rows(D, conds, scope, rows))
ProjectOp(vs, bs) == PerBatch(LAMBDA b : MapSeq(LAMBDA r : Restrict2(r, vs), b), bs)

\* build_node: the stream of a plan node under a scope.
RECURSIVE build_node(_, _, _)
build_node(D, p, scope) ==
    LET left == build_node(D, p.l, scope)
        right == Rows(build_node(D, p.r, scope))
    IN CASE p.op = "unit" -> <<<<NoRow>>>>
         [] p.op = "empty" -> <<>>
         [] p.op = "scan" -> ScanOp(D, p.pat, scope)
         [] p.op = "bindjoin" -> BindJoinOp(D, p.pat, scope, Rows(left))
         [] p.op = "bindpath" -> BindPathOp(D, p, scope, Rows(left))
         [] p.op = "hashjoin" -> HashJoinOp(Rows(left), right, p.keys)
         [] p.op = "leftjoin" -> LeftJoinOp(D, p, scope, Rows(left), right)
         [] p.op = "minus" -> MinusOp(left, right)
         [] p.op = "filter" -> FilterOp(D, p.e, scope, left)
         [] p.op = "extend" -> ExtendOp(D, p, scope, left)
         [] p.op = "union" -> left \o build_node(D, p.r, scope)
         [] p.op = "graphconst" -> build_node(D, p.l, p.g)
         [] p.op = "graphvar" -> FlatMap(LAMBDA g : GraphVarOp(p.v, g, build_node(D, p.l, g)), named_graph_cols(D))
         [] p.op = "table" -> TableOp(p)
         [] p.op = "group" -> GroupOp(D, p, scope, Rows(left))
         [] p.op = "sort" -> SortOp(D, p.conds, scope, Rows(left))
         [] p.op = "project" -> ProjectOp(ToSet(p.vars), left)
         [] p.op = "distinct" -> DistinctStream(left)
         [] p.op = "slice" -> SliceStream(left, p.offset, p.limit)

\* run_vectorized: plan, pull to the end (ASK stops at the first row), form
\* the output.
run_vectorized(store, q) ==
    LET D == dataset_view(store, q.dataset)
        bs == build_node(D, plan(D, q.root, DefaultGraph), DefaultGraph)
    IN finish(D, q, IF q.form = "ask" /\ bs # <<>> THEN Head(bs) ELSE Rows(bs))
=============================================================================
