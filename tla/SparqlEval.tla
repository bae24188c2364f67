----------------------------- MODULE SparqlEval -----------------------------
(***************************************************************************)
(* The reference evaluator (graphy-engine/src/eval.rs): a recursive walk   *)
(* of the algebra tree that returns a sequence of solution rows.           *)
(*                                                                         *)
(* A row is a function from the variables it binds to terms, so unbound is *)
(* absence from its domain.  Terms are compared by identity: the code's    *)
(* position-local ids are canonicalised before they reach a row.  A scan   *)
(* yields the matching quads in one fixed order.  A dataset D is           *)
(*   [quads |-> set of <<s,p,o,g>>, graphs |-> the graph names of the      *)
(*    store's dictionary in column order, from |-> whether FROM clauses    *)
(*    build the dataset, union |-> the default graphs, named |-> the       *)
(*    visible named graphs, all three as sequences].                       *)
(* A named graph is one whose name the dictionary holds, quads or not.     *)
(* Algebra and expression nodes are records tagged by op; paths are tagged *)
(* tuples.  The query-local evaluation state (regex cache, RAND, NOW) is   *)
(* left out, and with it the builtins that need it.                        *)
(***************************************************************************)
EXTENDS SparqlValues, SequencesExt

\* A variable is its interned number; the ones the translation makes up (its
\* fresh ones and pattern blank nodes) are at HiddenBase and above.
\* The column 0 of graph position: the store's own default graph.
DefaultGraph == Iri(0)
Var(x) == <<"var", x, "-", 0>>
IsVar(p) == p[1] = "var"
NoRow == [x \in {} |-> Err]

\* The elements of a set in one fixed order.
Listed(S) == FoldSet(LAMBDA x, s : Append(s, x), <<>>, S)
FlatMap(F(_), s) == FlattenSeq([i \in 1..Len(s) |-> F(s[i])])
MapSeq(F(_), s) == [i \in 1..Len(s) |-> F(s[i])]
Keep(Test(_), s) == SelectSeq(s, Test)
Distinct(s) == [k \in 1..Cardinality(ToSet(s)) |->
    s[CHOOSE i \in 1..Len(s) :
        /\ \A j \in 1..(i - 1) : s[j] # s[i]
        /\ Cardinality({s[j] : j \in 1..i}) = k]]

\* merge: compatible rows agree wherever both bind.
compatible(a, b) == \A v \in DOMAIN a \cap DOMAIN b : a[v] = b[v]
merge(a, b) == a @@ b
MergeAll(a, rows) == MapSeq(LAMBDA b : merge(a, b), Keep(LAMBDA b : compatible(a, b), rows))

\* MINUS excludes a row compatible with one it shares a bound variable with.
excludes(a, b) == compatible(a, b) /\ DOMAIN a \cap DOMAIN b # {}

-----------------------------------------------------------------------------
(* Triple patterns against the quads.                                      *)

\* match_pattern_ref / match_pattern_col: a pattern component against a
\* term, under and extending the row; {} when it does not match.
RECURSIVE Match(_, _, _)
Match(p, term, row) ==
    CASE IsVar(p) -> IF p[2] \in DOMAIN row
                     THEN IF row[p[2]] = term THEN {row} ELSE {}
                     ELSE {row @@ (p[2] :> term)}
      [] p[1] = "tri" /\ term[1] = "tri" ->
            UNION {UNION {Match(p[4], term[4], r2) : r2 \in Match(p[3], term[3], r1)} :
                     r1 \in Match(p[2], term[2], row)}
      [] OTHER -> IF p = term THEN {row} ELSE {}

MatchTriple(t, q, row) == Match(Triple(t[1], t[2], t[3]), Triple(q[1], q[2], q[3]), row)

\* scan_rows_in: one graph; scan_rows: the members of a FROM default graph
\* one after another, a triple counted once.
InGraph(D, g) == Listed({<<q[1], q[2], q[3]>> : q \in {r \in D.quads : r[4] = g}})
ScopeTriples(D, scope) ==
    IF scope = DefaultGraph /\ D.from
    THEN Distinct(FlatMap(LAMBDA g : InGraph(D, g), D.union))
    ELSE InGraph(D, scope)
scan_rows(D, t, scope, row) ==
    FlatMap(LAMBDA q : Listed(MatchTriple(t, q, row)), ScopeTriples(D, scope))

\* pattern_count: a costing estimate; union members are overcounted.
CountIn(D, t, g) ==
    Cardinality({q \in D.quads : q[4] = g /\ MatchTriple(t, q, NoRow) # {}})
pattern_count(D, t, scope) ==
    IF scope = DefaultGraph /\ D.from
    THEN FoldLeft(LAMBDA n, g : n + CountIn(D, t, g), 0, D.union)
    ELSE CountIn(D, t, scope)

\* A stable sort by a total preorder given as Less.
StableSort(s, Less(_, _)) ==
    LET before(i) == {j \in 1..Len(s) : Less(s[j], s[i]) \/ (j < i /\ ~Less(s[i], s[j]))}
    IN [k \in 1..Len(s) |-> s[CHOOSE i \in 1..Len(s) : Cardinality(before(i)) = k - 1]]

BindScan(D, t, scope, rows) == FlatMap(LAMBDA r : scan_rows(D, t, scope, r), rows)

\* eval_bgp: patterns in ascending count, each bind-scanned per row.
eval_bgp(D, pats, scope, seed) ==
    LET order == IF Len(pats) <= 1 THEN pats
                 ELSE StableSort(pats, LAMBDA a, b :
                        pattern_count(D, a, scope) < pattern_count(D, b, scope))
    IN FoldLeft(LAMBDA rows, t : BindScan(D, t, scope, rows), <<seed>>, order)

-----------------------------------------------------------------------------
(* Property paths.  Both take the default graph as column 0 whatever the   *)
(* dataset clauses say.                                                    *)

GraphTriples(D, scope) == {q \in D.quads : q[4] = scope}

\* all_nodes: the domain of the zero-length path.
all_nodes(D, scope) == UNION {{q[1], q[3]} : q \in GraphTriples(D, scope)}

Predicates(D) == {q[2] : q \in D.quads}
\* neighbors: one predicate, or all but an excluded set.
neighbors(D, from, scope, reverse, allowed) ==
    LET es == {q \in GraphTriples(D, scope) : q[2] \in allowed}
    IN IF reverse THEN {q[1] : q \in {e \in es : e[3] = from}}
       ELSE {q[3] : q \in {e \in es : e[1] = from}}

RECURSIVE path_nullable(_)
path_nullable(p) ==
    CASE p[1] \in {"star", "opt"} -> TRUE
      [] p[1] \in {"plus", "inv"} -> path_nullable(p[2])
      [] p[1] = "alt" -> path_nullable(p[2]) \/ path_nullable(p[3])
      [] p[1] = "seq" -> path_nullable(p[2]) /\ path_nullable(p[3])
      [] OTHER -> FALSE

\* reach, closure and step: what a path reaches from a term.  An inverse is
\* pushed towards the links.
RECURSIVE reach(_, _, _, _), Frontier(_, _, _, _, _)
Frontier(D, p, scope, frontier, visited) ==
    LET next == UNION {reach(D, p, x, scope) : x \in frontier} \ visited
    IN IF next = {} THEN visited ELSE Frontier(D, p, scope, next, visited \cup next)
closure(D, p, from, scope, include) ==
    Frontier(D, p, scope, {from}, IF include THEN {from} ELSE {})

Inverted(p) ==
    CASE p[1] = "inv" -> p[2]
      [] p[1] = "seq" -> <<"seq", <<"inv", p[3]>>, <<"inv", p[2]>>>>
      [] p[1] = "alt" -> <<"alt", <<"inv", p[2]>>, <<"inv", p[3]>>>>
      [] p[1] \in {"star", "plus", "opt"} -> <<p[1], <<"inv", p[2]>>>>
      [] p[1] = "nps" -> <<"nps", p[3], p[2]>>
reach(D, p, from, scope) ==
    CASE p[1] = "link" -> neighbors(D, from, scope, FALSE, {p[2]})
      [] p[1] = "inv" /\ p[2][1] = "link" ->
            neighbors(D, from, scope, TRUE, {p[2][2]})
      [] p[1] = "inv" -> reach(D, Inverted(p[2]), from, scope)
      [] p[1] = "seq" -> UNION {reach(D, p[3], m, scope) : m \in reach(D, p[2], from, scope)}
      [] p[1] = "alt" -> reach(D, p[2], from, scope) \cup reach(D, p[3], from, scope)
      [] p[1] = "star" -> closure(D, p[2], from, scope, TRUE)
      [] p[1] = "plus" -> closure(D, p[2], from, scope, FALSE)
      [] p[1] = "opt" -> {from} \cup reach(D, p[2], from, scope)
      [] p[1] = "nps" ->
            (IF p[2] # {} \/ p[3] = {}
             THEN neighbors(D, from, scope, FALSE, Predicates(D) \ p[2]) ELSE {})
            \cup (IF p[3] # {}
                  THEN neighbors(D, from, scope, TRUE, Predicates(D) \ p[3]) ELSE {})

\* Whether the store holds the term at all (B::Id rather than B::Ext).
InStore(D, t) == \E q \in D.quads : t \in {q[1], q[2], q[3], q[4]} \ {DefaultGraph}

\* reachable: a bound variable that names no node of the graph has no
\* zero-length path, a constant keeps its own.
reachable(D, p, from, scope, constant) ==
    CASE ~InStore(D, from) -> IF constant /\ path_nullable(p) THEN {from} ELSE {}
      [] ~constant /\ path_nullable(p) /\ from \notin all_nodes(D, scope) -> {}
      [] OTHER -> reach(D, p, from, scope)

\* eval_path: by which endpoints the row already fixes.
Endpoint(e, row) == IF ~IsVar(e) THEN e ELSE IF e[2] \in DOMAIN row THEN row[e[2]] ELSE Err
eval_path(D, s, p, o, scope, row) ==
    LET from == Endpoint(s, row)
        to == Endpoint(o, row)
    IN CASE from # Err /\ to # Err ->
              IF to \in reachable(D, p, from, scope, ~IsVar(s)) THEN <<row>> ELSE <<>>
         [] from # Err /\ to = Err ->
              Listed({row @@ (o[2] :> x) : x \in reachable(D, p, from, scope, ~IsVar(s))})
         [] from = Err /\ to # Err ->
              Listed({row @@ (s[2] :> x) :
                          x \in reachable(D, <<"inv", p>>, to, scope, ~IsVar(o))})
         [] OTHER ->
              Listed(UNION {UNION {Match(o, y, r) : r \in Match(s, x, row)} :
                          <<x, y>> \in {<<a, b>> \in all_nodes(D, scope) \X all_nodes(D, scope) :
                                          b \in reach(D, p, a, scope)}})

-----------------------------------------------------------------------------
(* Expressions, three-valued: a term or Err.                               *)

\* The effective boolean value of an evaluated operand; Err has none.
EbvOf(t) == IF t = Err THEN "none" ELSE ebv(decode_value(t))
Lift(o) == IF o = "none" THEN Err ELSE Bool(o = "yes")

LogicalOr(x, y) == IF "yes" \in {x, y} THEN True ELSE IF "none" \in {x, y} THEN Err ELSE Bool(FALSE)
LogicalAnd(x, y) == IF "no" \in {x, y} THEN Bool(FALSE) ELSE IF "none" \in {x, y} THEN Err ELSE True

CompareOp(op, x, y) ==
    IF op \in {"=", "!="}
    THEN LET e == eq_values(x, y) IN IF e = "none" THEN Err ELSE Bool((e = "yes") = (op = "="))
    ELSE LET o == cmp_values(x, y)
         IN IF o = "none" THEN Err
            ELSE Bool(CASE op = "<" -> o = "lt" [] op = "<=" -> o # "gt"
                        [] op = ">" -> o = "gt" [] op = ">=" -> o # "lt")

\* IN: an error anywhere matters only when no member is equal.
InList(x, items, negated) ==
    LET es == [i \in 1..Len(items) |->
                 IF items[i] = Err THEN "none" ELSE eq_values(x, decode_value(items[i]))]
        found == \E i \in 1..Len(items) : es[i] = "yes"
    IN IF ~found /\ \E i \in 1..Len(items) : es[i] = "none" THEN Err ELSE Bool(found # negated)

DatatypeOf(v) ==
    CASE v[1] = "str" -> IF v[3] = "-" THEN Iri(90) ELSE Iri(91)
      [] v[1] = "num" -> Iri(CASE v[3] = "int" -> 92 [] v[3] = "sub" -> 93
                               [] v[3] = "dec" -> 94 [] OTHER -> 95)
      [] v[1] = "bool" -> Iri(96)
      [] v[1] = "dt" -> Iri(97)
      [] v[1] = "typed" -> Iri(IF v[3] = "d1" THEN 98 ELSE 99)
      [] OTHER -> Err

\* The builtins that look at one decoded argument.
Unary(f, v) ==
    CASE f = "STR" -> str_of(v)
      [] f = "LANG" -> IF v[1] = "str" /\ v[3] # "-" THEN Str(50) ELSE IF is_literal(v) THEN Str(0) ELSE Err
      [] f = "DATATYPE" -> DatatypeOf(v)
      [] f = "ISIRI" -> Bool(v[1] = "iri")
      [] f = "ISBLANK" -> Bool(v[1] = "blank")
      [] f = "ISLITERAL" -> Bool(is_literal(v))
      [] f = "ISNUMERIC" -> Bool(IsNum(v))
      [] f = "ISTRIPLE" -> Bool(v[1] = "tri")
      [] f = "ABS" -> IF ~IsExact(v) THEN Err ELSE <<v[1], Abs(v[2]), IF v[3] = "sub" THEN "int" ELSE v[3], v[4]>>
      [] f \in {"CEIL", "FLOOR", "ROUND"} ->
            IF ~IsExact(v) THEN Err
            ELSE IF v[3] # "dec" THEN v
            ELSE CASE f = "CEIL" -> ceil(v) [] f = "FLOOR" -> floor(v) [] f = "ROUND" -> round(v)

\* cast_xsd over the exact kinds (a string here is no numeral).
cast_xsd(to, v) ==
    CASE to = "string" -> str_of(v)
      [] to = "boolean" -> IF v[1] = "bool" THEN v
                           ELSE IF IsNum(v) THEN Bool(v[2] # 0 /\ v[3] # "nan") ELSE Err
      [] to = "integer" -> IF v[1] = "bool" THEN IntV(v[2])
                           ELSE IF ~IsExact(v) THEN Err
                           ELSE IF v[3] # "dec" THEN IntV(v[2])
                           ELSE IF Trunc(v) \in -(IntMax + 1)..IntMax THEN IntV(Trunc(v)) ELSE Err
      [] to = "decimal" -> IF v[1] = "bool" THEN Dec(v[2], 0)
                           ELSE IF IsExact(v) THEN as_dec(v) ELSE Err
      [] to = "dateTime" -> IF v[1] = "dt" THEN v ELSE Err
      [] OTHER -> Err

\* A triple term needs an IRI or blank subject and an IRI predicate.
TripleOf(s, p, o) ==
    IF Err \in {s, p, o} \/ s[1] \notin {"iri", "blank"} \/ p[1] # "iri" THEN Err
    ELSE Triple(s, p, o)

\* eval_expr and eval call each other: EXISTS evaluates its pattern under
\* the row, in the graph scope the expression is evaluated in.
RECURSIVE eval_expr(_, _, _, _), eval(_, _, _, _)
eval_expr(D, e, scope, row) ==
    LET at(x) == eval_expr(D, x, scope, row)
        value(x) == LET t == at(x) IN IF t = Err THEN Err ELSE decode_value(t)
        Both(x, y, F(_, _)) == LET u == value(x) w == value(y)
                               IN IF Err \in {u, w} THEN Err ELSE F(u, w)
    IN CASE e.op = "term" -> e.t
         [] e.op = "var" -> IF e.v \in DOMAIN row THEN row[e.v] ELSE Err
         [] e.op = "or" -> LogicalOr(EbvOf(at(e.a)), EbvOf(at(e.b)))
         [] e.op = "and" -> LogicalAnd(EbvOf(at(e.a)), EbvOf(at(e.b)))
         [] e.op = "not" -> LET b == EbvOf(at(e.a)) IN IF b = "none" THEN Err ELSE Bool(b = "no")
         [] e.op = "cmp" -> Both(e.a, e.b, LAMBDA x, y : CompareOp(e.f, x, y))
         [] e.op = "in" -> LET x == value(e.a)
                           IN IF x = Err THEN Err ELSE InList(x, MapSeq(at, e.list), e.neg)
         [] e.op = "arith" -> Both(e.a, e.b, LAMBDA x, y : arith(e.f, x, y))
         [] e.op = "neg" -> LET x == value(e.a) IN IF x = Err THEN Err ELSE arith("sub", IntV(0), x)
         [] e.op = "plus" -> LET x == value(e.a) IN IF x = Err \/ ~IsNum(x) THEN Err ELSE at(e.a)
         [] e.op = "bound" -> Bool(at(e.a) # Err)
         [] e.op = "coalesce" ->
               LET ok == {i \in 1..Len(e.list) : at(e.list[i]) # Err}
               IN IF ok = {} THEN Err ELSE at(e.list[MinOf(ok)])
         [] e.op = "if" -> LET c == EbvOf(at(e.a))
                           IN IF c = "none" THEN Err ELSE IF c = "yes" THEN at(e.b) ELSE at(e.c)
         [] e.op = "sameterm" -> LET x == at(e.a) y == at(e.b)
                                 IN IF Err \in {x, y} THEN Err ELSE Bool(x = y)
         [] e.op = "unary" -> LET x == value(e.a) IN IF x = Err THEN Err ELSE Unary(e.f, x)
         [] e.op = "cast" -> LET x == value(e.a) IN IF x = Err THEN Err ELSE cast_xsd(e.f, x)
         [] e.op = "triple" -> TripleOf(at(e.a), at(e.b), at(e.c))
         [] e.op = "exists" -> Bool((eval(D, e.pattern, scope, row) = <<>>) = e.neg)

truthy(D, e, scope, row) == EbvOf(eval_expr(D, e, scope, row)) = "yes"

-----------------------------------------------------------------------------
(* Aggregation and ordering over materialised rows.                        *)

\* Bind a variable unless the value is an error.
Bind(row, v, t) == IF t = Err THEN row ELSE (v :> t) @@ row

Fold(F(_, _), init, s) == FoldLeft(F, init, s)
NoExpr == [op |-> "none"]

Extreme(args, wanted) ==
    Fold(LAMBDA best, v : IF best = Err \/ order_cmp(v, best) = wanted THEN v ELSE best, Err, args)

Total(args) == Fold(LAMBDA acc, v : IF acc = Err THEN Err ELSE arith("add", acc, v), IntV(0), args)

\* eval_aggregate: errors are skipped, COUNT(*) counts rows, a failed sum
\* leaves the variable unbound (Err).
eval_aggregate(D, agg, scope, rows) ==
    LET all == MapSeq(LAMBDA r : eval_expr(D, agg.expr, scope, r), rows)
        ok == Keep(LAMBDA t : t # Err, all)
        terms == IF agg.distinct THEN Distinct(ok) ELSE ok
        args == MapSeq(decode_value, terms)
    IN CASE agg.expr = NoExpr -> IntV(Len(rows))
         [] agg.func = "count" -> IntV(Len(args))
         [] agg.func = "sample" -> IF args = <<>> THEN Err ELSE terms[1]
         [] agg.func = "sum" -> Total(args)
         [] agg.func = "avg" -> IF args = <<>> THEN IntV(0)
                                ELSE LET t == Total(args)
                                     IN IF t = Err THEN Err ELSE arith("div", t, IntV(Len(args)))
         [] agg.func = "min" -> Extreme(args, "lt")
         [] agg.func = "max" -> Extreme(args, "gt")

\* group_rows: groups in order of first appearance; no keys and no rows is
\* still one group.
group_rows(D, keys, aggs, scope, rows, seed) ==
    LET keyOf(r) == [i \in 1..Len(keys) |->
                       IF keys[i][2] # NoExpr THEN eval_expr(D, keys[i][2], scope, r)
                       ELSE IF keys[i][1] \in DOMAIN r THEN r[keys[i][1]] ELSE Err]
        groups == IF keys = <<>> THEN <<(<<>>)>> ELSE Distinct(MapSeq(keyOf, rows))
        row(k) == LET keyed == Fold(LAMBDA r, i : IF k[i] = Err
                                                  THEN [v \in DOMAIN r \ {keys[i][1]} |-> r[v]]
                                                  ELSE Bind(r, keys[i][1], k[i]),
                                    seed, [i \in 1..Len(keys) |-> i])
                      members == Keep(LAMBDA r : keyOf(r) = k, rows)
                  IN Fold(LAMBDA r, g : Bind(r, g[1], eval_aggregate(D, g[2], scope, members)),
                          keyed, aggs)
    IN MapSeq(row, groups)

\* sort_rows: lexicographic over the conditions, unbound first, reversed by
\* DESC, stable.
sort_rows(D, conds, scope, rows) ==
    LET key(r, i) == LET t == eval_expr(D, conds[i][1], scope, r)
                     IN IF t = Err THEN Err ELSE decode_value(t)
        ord(a, b) == IF a = Err /\ b = Err THEN "eq" ELSE IF a = Err THEN "lt"
                     ELSE IF b = Err THEN "gt" ELSE order_cmp(a, b)
        at(x, y, i) == LET o == ord(key(x, i), key(y, i))
                       IN IF conds[i][2] THEN Reversed(o) ELSE o
        less(x, y) == LET d == {i \in 1..Len(conds) : at(x, y, i) # "eq"}
                      IN d # {} /\ at(x, y, MinOf(d)) = "lt"
    IN StableSort(rows, less)

-----------------------------------------------------------------------------
(* The evaluator, and the query forms built on it.                         *)

Restrict2(row, vs) == [v \in DOMAIN row \cap vs |-> row[v]]
Visible(D, g) == ~D.from \/ g \in ToSet(D.named)

\* named_graph_cols: the graphs GRAPH ?g enumerates.
named_graph_cols(D) ==
    IF D.from THEN D.named ELSE D.graphs
GraphExists(D, g) == g \in ToSet(D.graphs)

\* VALUES: a row whose cells agree with the seed; Err is UNDEF.
TableRow(vars, cells, seed) ==
    LET r == [v \in {vars[i] : i \in {j \in 1..Len(vars) : cells[j] # Err}} |->
                cells[CHOOSE i \in 1..Len(vars) : vars[i] = v]]
    IN IF compatible(seed, r) THEN <<seed @@ r>> ELSE <<>>

eval(D, a, scope, seed) ==
    LET sub(x) == eval(D, x, scope, seed)
        under(g, x) == eval(D, x, g, seed)
    IN CASE a.op = "bgp" -> eval_bgp(D, a.pats, scope, seed)
         [] a.op = "path" -> eval_path(D, a.s, a.path, a.o, scope, seed)
         [] a.op = "join" -> LET r == sub(a.r) IN FlatMap(LAMBDA x : MergeAll(x, r), sub(a.l))
         [] a.op = "leftjoin" ->
               LET r == sub(a.r)
                   ext(x) == Keep(LAMBDA m : a.e = NoExpr \/ truthy(D, a.e, scope, m), MergeAll(x, r))
               IN FlatMap(LAMBDA x : LET m == ext(x) IN IF m = <<>> THEN <<x>> ELSE m, sub(a.l))
         [] a.op = "filter" -> Keep(LAMBDA x : truthy(D, a.e, scope, x), sub(a.l))
         [] a.op = "union" -> sub(a.l) \o sub(a.r)
         [] a.op = "graph" /\ ~IsVar(a.g) ->
               IF GraphExists(D, a.g) /\ Visible(D, a.g) THEN under(a.g, a.l) ELSE <<>>
         [] a.op = "graph" /\ IsVar(a.g) ->
               LET v == a.g[2]
               IN IF v \in DOMAIN seed
                  THEN IF GraphExists(D, seed[v]) /\ Visible(D, seed[v])
                       THEN under(seed[v], a.l) ELSE <<>>
                  ELSE FlatMap(LAMBDA g : MergeAll(v :> g, under(g, a.l)), named_graph_cols(D))
         [] a.op = "extend" ->
               MapSeq(LAMBDA x : Bind(x, a.v, eval_expr(D, a.e, scope, x)), sub(a.l))
         [] a.op = "minus" ->
               LET r == sub(a.r)
               IN Keep(LAMBDA x : ~\E i \in 1..Len(r) : excludes(x, r[i]), sub(a.l))
         [] a.op = "table" -> FlatMap(LAMBDA cells : TableRow(a.vars, cells, seed), a.rows)
         [] a.op \in {"multiset", "reduced"} -> sub(a.l)
         [] a.op = "group" -> group_rows(D, a.keys, a.aggs, scope, sub(a.l), seed)
         [] a.op = "order" -> sort_rows(D, a.conds, scope, sub(a.l))
         [] a.op = "project" -> MapSeq(LAMBDA x : Restrict2(x, ToSet(a.vars)), sub(a.l))
         [] a.op = "distinct" -> Distinct(sub(a.l))
         [] a.op = "slice" ->
               LET r == sub(a.l)
                   last == IF a.limit = -1 THEN Len(r) ELSE MinOf({Len(r), a.offset + a.limit})
               IN SubSeq(r, a.offset + 1, last)

\* dataset_view: FROM and FROM NAMED build the dataset; graphs the store
\* does not hold contribute nothing.
dataset_view(store, clauses) ==
    LET held == Keep(LAMBDA c : c[2] \in ToSet(store.graphs), clauses)
        col(isDefault) == MapSeq(LAMBDA c : c[2], Keep(LAMBDA c : c[1] = isDefault, held))
    IN [quads |-> store.quads, graphs |-> store.graphs, from |-> clauses # <<>>,
        union |-> col(TRUE), named |-> col(FALSE)]

\* projection_of: the outermost projection under the modifiers.
RECURSIVE projection_of(_)
projection_of(a) ==
    CASE a.op = "project" -> a.vars
      [] a.op \in {"distinct", "reduced", "slice", "order"} -> projection_of(a.l)
      [] OTHER -> <<>>

\* CONSTRUCT: a template term under a row; a hidden variable is a blank
\* node fresh for the row.
HiddenBase == 100
Hidden(v) == v >= HiddenBase
FreshBlank(v, n) == <<"blank", v, "fresh", n>>
RECURSIVE template_term(_, _, _)
template_term(p, row, n) ==
    CASE IsVar(p) -> IF p[2] \in DOMAIN row THEN row[p[2]]
                     ELSE IF Hidden(p[2]) THEN FreshBlank(p[2], n) ELSE Err
      [] p[1] = "tri" -> TripleOf(template_term(p[2], row, n), template_term(p[3], row, n),
                                  template_term(p[4], row, n))
      [] OTHER -> p
Construct(template, rows) ==
    {<<t[2], t[3], t[4]>> : t \in
        {TripleOf(template_term(template[j][1], rows[i], i), template_term(template[j][2], rows[i], i),
                  template_term(template[j][3], rows[i], i)) :
           i \in 1..Len(rows), j \in 1..Len(template)} \ {Err}}

\* DESCRIBE: the concise bounded description over the active default graph.
RECURSIVE Described(_, _, _)
Described(D, todo, done) ==
    IF todo \subseteq done THEN {<<q[1], q[2], q[3]>> : q \in
            {q \in D.quads : q[1] \in done /\ q[4] \in (IF D.from THEN ToSet(D.union) ELSE {DefaultGraph})}}
    ELSE Described(D, todo \cup {o \in {q[3] : q \in {q \in D.quads : q[1] \in todo
              /\ q[4] \in (IF D.from THEN ToSet(D.union) ELSE {DefaultGraph})}} : o[1] = "blank"},
            done \cup todo)

\* finish: the output of a query from its root rows.
finish(D, q, rows) ==
    CASE q.form = "ask" -> [boolean |-> rows # <<>>]
      [] q.form = "select" -> [vars |-> projection_of(q.root),
                               rows |-> MapSeq(LAMBDA r : Restrict2(r, ToSet(projection_of(q.root))), rows)]
      [] q.form = "construct" -> [triples |-> Construct(q.template, rows)]
      [] q.form = "describe" ->
            [triples |-> Described(D, UNION {IF IsVar(t) THEN {r[t[2]] : r \in {x \in ToSet(rows) : t[2] \in DOMAIN x}}
                                            ELSE {t} : t \in ToSet(q.targets)}, {})]

evaluate_ref(store, q) ==
    LET D == dataset_view(store, q.dataset) IN finish(D, q, eval(D, q.root, DefaultGraph, NoRow))
=============================================================================
