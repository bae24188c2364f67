--------------------------- MODULE SparqlTranslate ---------------------------
(***************************************************************************)
(* From the syntax tree to the algebra (graphy-algebra/src/translate.rs).  *)
(*                                                                         *)
(* A group is a sequence of elements, records tagged by el; expressions    *)
(* and paths have the shapes of the algebra's, plus aggregate calls ("agg")*)
(* and EXISTS over a group.  A query record holds the clauses of a query   *)
(* or a subquery.  Instead of a counter for fresh variables, every node    *)
(* has an address, and a fresh variable is named by the node that needed   *)
(* it.  The input is a tree the parser accepts: what the translation would *)
(* refuse (a path in a template, an aggregate in a WHERE filter) is not    *)
(* among the inputs.                                                       *)
(***************************************************************************)
EXTENDS SparqlRewrite

FreshBase == 1000
Kid(at, i) == at * 16 + i
FreshVar(at) == FreshBase + at

\* term: a blank node of a pattern is a variable no projection can name.
BlankVar(label) == Var(HiddenBase + label)
RECURSIVE term(_)
term(t) ==
    CASE t[1] = "bnode" -> BlankVar(t[2])
      [] t[1] = "tri" -> Triple(term(t[2]), term(t[3]), term(t[4]))
      [] OTHER -> t
triple_pat(t) == <<term(t[1]), term(t[2]), term(t[3])>>

join(a, b) ==
    CASE a = Unit -> b
      [] a # Unit /\ b = Unit -> a
      [] a # Unit /\ b # Unit /\ a.op = "bgp" /\ b.op = "bgp" -> [a EXCEPT !.pats = @ \o b.pats]
      [] OTHER -> [op |-> "join", l |-> a, r |-> b]

Bgp(ts) == [op |-> "bgp", pats |-> ts]

\* path_triple: fixed-length forms decompose, the closures stay paths.
RECURSIVE path_triple(_, _, _, _)
path_triple(s, p, o, at) ==
    CASE p[1] = "link" -> Bgp(<<<<s, p[2], o>>>>)
      [] p[1] = "inv" -> path_triple(o, p[2], s, Kid(at, 1))
      [] p[1] = "seq" -> LET mid == Var(FreshVar(at))
                         IN join(path_triple(s, p[2], mid, Kid(at, 1)),
                                 path_triple(mid, p[3], o, Kid(at, 2)))
      [] p[1] = "alt" -> [op |-> "union", l |-> path_triple(s, p[2], o, Kid(at, 1)),
                                          r |-> path_triple(s, p[3], o, Kid(at, 2))]
      [] OTHER -> [op |-> "path", s |-> s, path |-> p, o |-> o]

\* triples_run: plain patterns gather in one basic graph pattern until a
\* path interrupts them.  A verb that is a path is tagged "path".
triples_run(ts, at) ==
    LET one(i) == IF ts[i][2][1] = "path"
                  THEN path_triple(term(ts[i][1]), ts[i][2][2], term(ts[i][3]), Kid(at, i))
                  ELSE Bgp(<<triple_pat(ts[i])>>)
        step(st, i) ==
            IF ts[i][2][1] = "path" THEN [acc |-> join(join(st.acc, st.run), one(i)), run |-> Unit]
            ELSE [st EXCEPT !.run = join(@, one(i))]
        last == FoldLeft(step, [acc |-> Unit, run |-> Unit], [i \in 1..Len(ts) |-> i])
    IN join(last.acc, last.run)

values(v) == [op |-> "table", vars |-> v.vars, rows |-> v.rows]

RECURSIVE contains_aggregate(_)
contains_aggregate(e) ==
    e.op = "agg" \/ (e.op # "exists" /\ \E x \in Operands(e) : contains_aggregate(x))

RECURSIVE AggCalls(_, _), expr(_, _), group(_, _), select_level(_, _, _)
\* expr: an aggregate call becomes the variable its group will bind.
expr(e, at) ==
    CASE e.op = "agg" -> [op |-> "var", v |-> FreshVar(at)]
      [] e.op = "exists" -> [e EXCEPT !.pattern = group(@, Kid(at, 1))]
      [] e.op = "term" -> LET t == term(e.t) IN IF IsVar(t) THEN [op |-> "var", v |-> t[2]] ELSE e
      [] OTHER -> LET xs == OperandSeq(e)
                 IN WithOperands(e, [i \in 1..Len(xs) |-> expr(xs[i], Kid(at, i))])

\* The aggregate calls of an expression, in the order they are extracted.
AggCalls(e, at) ==
    IF e.op = "agg" THEN <<<<FreshVar(at), [func |-> e.func, distinct |-> e.distinct, expr |-> expr(e.a, Kid(at, 1))]>>>>
    ELSE IF e.op = "exists" THEN <<>>
    ELSE LET ks == OperandSeq(e) IN FlattenSeq([i \in 1..Len(ks) |-> AggCalls(ks[i], Kid(at, i))])

LeftJoinOf(acc, t) ==
    IF t.op = "filter" THEN [op |-> "leftjoin", l |-> acc, r |-> t.l, e |-> t.e]
    ELSE [op |-> "leftjoin", l |-> acc, r |-> t, e |-> NoExpr]

\* One element of a group onto what came before it.  A lone braced group
\* is a barrier: its filter stays out of an enclosing OPTIONAL's condition.
element(acc, x, at) ==
    CASE x.el = "triples" -> join(acc, triples_run(x.ts, at))
      [] x.el = "filter" -> acc
      [] x.el = "optional" -> LeftJoinOf(acc, group(x.g, at))
      [] x.el = "minus" -> [op |-> "minus", l |-> acc, r |-> group(x.g, at)]
      [] x.el = "union" ->
            LET branch == [i \in 1..Len(x.gs) |-> group(x.gs[i], Kid(at, i))]
                u == FoldLeft(LAMBDA l, r : [op |-> "union", l |-> l, r |-> r],
                              branch[1], Tail(branch))
            IN join(acc, IF Len(branch) = 1 /\ u.op # "multiset"
                         THEN [op |-> "multiset", l |-> u] ELSE u)
      [] x.el = "graph" -> join(acc, [op |-> "graph", g |-> term(x.t), l |-> group(x.g, at)])
      [] x.el = "bind" -> [op |-> "extend", l |-> acc, v |-> x.v, e |-> expr(x.e, at)]
      [] x.el = "values" -> join(acc, values(x))
      [] x.el = "select" ->
            join(acc, [op |-> "multiset", l |-> select_level(group(x.q.pattern, Kid(at, 1)), x.q, at)])

\* group: left to right, the filters of the whole group around the result.
group(g, at) ==
    LET idx == [i \in 1..Len(g) |-> i]
        acc == FoldLeft(LAMBDA a, i : element(a, g[i], Kid(at, i)), Unit, idx)
        fs == MapSeq(LAMBDA i : expr(g[i].e, Kid(at, i)), Keep(LAMBDA i : g[i].el = "filter", idx))
    IN IF fs = <<>> THEN acc
       ELSE FilterNode(FoldLeft(LAMBDA a, b : [op |-> "and", a |-> a, b |-> b], fs[1], Tail(fs)), acc)

NoValues == [vars |-> <<>>, rows |-> <<>>]

\* select_level: grouping, HAVING, VALUES, select expressions, ORDER BY,
\* projection, DISTINCT or REDUCED, and the slice, innermost first.
select_level(pattern, q, at) ==
    LET idx(s) == [i \in 1..Len(s) |-> i]
        having(i) == Kid(at, 2 + i)
        item(i) == Kid(at, 5 + i)
        cond(i) == Kid(at, 9 + i)
        aggs == FlatMap(LAMBDA i : AggCalls(q.having[i], having(i)), idx(q.having))
                \o FlatMap(LAMBDA i : AggCalls(q.projection[i].e, item(i)), idx(q.projection))
                \o FlatMap(LAMBDA i : AggCalls(q.order_by[i][1], cond(i)), idx(q.order_by))
        keys == MapSeq(LAMBDA i : LET k == q.group_by[i]
                                  IN <<IF k.v = 0 THEN FreshVar(Kid(at, 12 + i)) ELSE k.v, expr(k.e, Kid(at, 12 + i))>>,
                       idx(q.group_by))
        grouped == IF q.group_by # <<>> \/ aggs # <<>>
                   THEN [op |-> "group", keys |-> keys, aggs |-> aggs, l |-> pattern] ELSE pattern
        filtered == FoldLeft(LAMBDA a, i : FilterNode(expr(q.having[i], having(i)), a),
                             grouped, idx(q.having))
        valued == IF q.values = NoValues THEN filtered ELSE join(filtered, values(q.values))
        extended == FoldLeft(LAMBDA a, i : [op |-> "extend", l |-> a, v |-> q.projection[i].v,
                                            e |-> expr(q.projection[i].e, item(i))],
                             valued, Keep(LAMBDA i : q.projection[i].e # NoExpr, idx(q.projection)))
        ordered == IF q.order_by = <<>> THEN extended
                   ELSE [op |-> "order", l |-> extended,
                         conds |-> MapSeq(LAMBDA i : <<expr(q.order_by[i][1], cond(i)),
                                                      q.order_by[i][2]>>, idx(q.order_by))]
        star == Listed({v \in visible_vars(ordered) : ~Hidden(v)})
        projected == [op |-> "project", l |-> ordered,
                      vars |-> IF q.projection = <<>> THEN star
                               ELSE MapSeq(LAMBDA p : p.v, q.projection)]
        unique == IF q.distinct THEN [op |-> "distinct", l |-> projected]
                  ELSE IF q.reduced THEN [op |-> "reduced", l |-> projected] ELSE projected
    IN IF q.limit = -1 /\ q.offset = -1 THEN unique
       ELSE [op |-> "slice", l |-> unique, limit |-> q.limit, offset |-> MaxOf({q.offset, 0})]

translate_query(q) ==
    LET pattern == group(q.pattern, 1)
    IN [form |-> q.form, dataset |-> q.dataset,
        root |-> select_level(pattern, q, 2),
        template |-> MapSeq(triple_pat, q.template),
        targets |-> IF q.star THEN MapSeq(Var, Listed(visible_vars(pattern)))
                    ELSE MapSeq(term, q.targets)]

-----------------------------------------------------------------------------
(* Updates: quads <<s, p, o, g>> with NoGraph where no GRAPH encloses them.*)

NoGraph == Err
quad_pat(q) == <<term(q[1]), term(q[2]), term(q[3]), IF q[4] = NoGraph THEN NoGraph ELSE term(q[4])>>

\* ground_term: in data a blank node keeps its label.
RECURSIVE ground_term(_)
ground_term(t) ==
    CASE t[1] = "bnode" -> Blank(t[2])
      [] t[1] = "tri" -> Triple(ground_term(t[2]), ground_term(t[3]), ground_term(t[4]))
      [] OTHER -> t
ground_quad(q) == <<ground_term(q[1]), ground_term(q[2]), ground_term(q[3]),
                    IF q[4] = NoGraph THEN NoGraph ELSE ground_term(q[4])>>

translate_op(op) ==
    CASE op.kind \in {"insertdata", "deletedata"} -> [op EXCEPT !.quads = MapSeq(ground_quad, @)]
      [] op.kind = "deletewhere" -> [op EXCEPT !.quads = MapSeq(quad_pat, @)]
      [] op.kind = "modify" -> [op EXCEPT !.pattern = group(@, 1), !.delete = MapSeq(quad_pat, @),
                                          !.insert = MapSeq(quad_pat, @)]
      [] OTHER -> op    \* load, clear, drop, create, add, move, copy
=============================================================================
