---------------------------- MODULE SparqlRewrite ----------------------------
(***************************************************************************)
(* The engine-independent rewrites (graphy-algebra/src/rewrite.rs):        *)
(* constant folding with trivial eliminations, filter pushdown and the     *)
(* canonical order of basic graph patterns, in that pipeline order, and    *)
(* the well-designedness test.                                             *)
(***************************************************************************)
EXTENDS SparqlEval

UnaryOps == {"filter", "graph", "extend", "multiset", "group", "order", "project", "distinct",
             "reduced", "slice"}
BinaryOps == {"join", "leftjoin", "union", "minus"}

\* Rebuild a node over transformed children (map_tree, transform_bottom_up).
Kids(a) == IF a.op \in BinaryOps THEN <<a.l, a.r>> ELSE IF a.op \in UnaryOps THEN <<a.l>> ELSE <<>>
WithKids(a, ks) ==
    CASE a.op \in BinaryOps -> [a EXCEPT !.l = ks[1], !.r = ks[2]]
      [] a.op \in UnaryOps -> [a EXCEPT !.l = ks[1]]
      [] OTHER -> a

\* The operand expressions of a node, and a node over mapped operands.
OperandSeq(e) ==
    CASE e.op \in {"term", "var", "exists", "none"} -> <<>>
      [] e.op \in {"or", "and", "cmp", "arith", "sameterm"} -> <<e.a, e.b>>
      [] e.op = "in" -> <<e.a>> \o e.list
      [] e.op = "coalesce" -> e.list
      [] e.op \in {"if", "triple"} -> <<e.a, e.b, e.c>>
      [] OTHER -> <<e.a>>   \* not, neg, plus, bound, unary, cast, agg
WithOperands(e, ks) ==
    CASE e.op \in {"term", "var", "exists", "none"} -> e
      [] e.op \in {"or", "and", "cmp", "arith", "sameterm"} -> [e EXCEPT !.a = ks[1], !.b = ks[2]]
      [] e.op = "in" -> [e EXCEPT !.a = ks[1], !.list = Tail(ks)]
      [] e.op = "coalesce" -> [e EXCEPT !.list = ks]
      [] e.op \in {"if", "triple"} -> [e EXCEPT !.a = ks[1], !.b = ks[2], !.c = ks[3]]
      [] OTHER -> [e EXCEPT !.a = ks[1]]

EmptyTable == [op |-> "table", vars |-> <<>>, rows |-> <<>>]
Unit == [op |-> "bgp", pats |-> <<>>]
is_empty(a) == a.op = "table" /\ a.rows = <<>>
is_unit(a) == a.op = "bgp" /\ a.pats = <<>>

PVars(p) == IF IsVar(p) THEN {p[2]} ELSE {}
RECURSIVE PatternVars(_)
PatternVars(p) == IF p[1] = "tri" THEN UNION {PatternVars(p[i]) : i \in 2..4} ELSE PVars(p)
TripleVars(t) == UNION {PatternVars(t[i]) : i \in 1..3}
BgpVars(pats) == UNION {TripleVars(pats[i]) : i \in 1..Len(pats)}

\* visible_vars (translate.rs): what a node may bind for its parent.
RECURSIVE visible_vars(_)
visible_vars(a) ==
    CASE a.op = "bgp" -> BgpVars(a.pats)
      [] a.op = "path" -> PatternVars(a.s) \cup PatternVars(a.o)
      [] a.op \in {"join", "leftjoin", "union"} -> visible_vars(a.l) \cup visible_vars(a.r)
      [] a.op = "graph" -> PVars(a.g) \cup visible_vars(a.l)
      [] a.op = "extend" -> visible_vars(a.l) \cup {a.v}
      [] a.op = "table" -> ToSet(a.vars)
      [] a.op = "group" -> {a.keys[i][1] : i \in 1..Len(a.keys)} \cup {a.aggs[i][1] : i \in 1..Len(a.aggs)}
      [] a.op = "project" -> ToSet(a.vars)
      [] OTHER -> visible_vars(a.l)   \* minus, filter, multiset, order, distinct, reduced, slice

-----------------------------------------------------------------------------
(* Constant folding.                                                       *)

TermE(t) == [op |-> "term", t |-> t]
BoolE(b) == TermE(Bool(b))

\* ebv_const: unlike ebv, a language-tagged constant has a truth value.
ebv_const(e) ==
    IF e.op # "term" THEN "none"
    ELSE LET v == decode_value(e.t)
         IN IF v[1] = "str" THEN YesNo(v[2] # 0) ELSE IF v[1] = "num" /\ v[3] = "sub" THEN "none" ELSE ebv(v)

int_const(e) == e.op = "term" /\ decode_value(e.t)[1] = "num" /\ decode_value(e.t)[3] = "int"
IntOf(e) == decode_value(e.t)

RECURSIVE fold(_)
fold(e) ==
    LET n == WithOperands(e, MapSeq(fold, OperandSeq(e)))
        ints == int_const(n.a) /\ int_const(n.b)
        ba == ebv_const(n.a)
        bb == ebv_const(n.b)
    IN CASE e.op = "and" -> IF "no" \in {ba, bb} THEN BoolE(FALSE)
                            ELSE IF ba = "yes" THEN n.b ELSE IF bb = "yes" THEN n.a ELSE n
         [] e.op = "or" -> IF "yes" \in {ba, bb} THEN BoolE(TRUE)
                           ELSE IF ba = "no" THEN n.b ELSE IF bb = "no" THEN n.a ELSE n
         [] e.op = "not" -> IF ba # "none" THEN BoolE(ba = "no") ELSE n
         [] e.op = "cmp" -> IF ints THEN TermE(CompareOp(e.f, IntOf(n.a), IntOf(n.b))) ELSE n
         [] e.op = "arith" -> IF e.f # "div" /\ ints /\ arith(e.f, IntOf(n.a), IntOf(n.b)) # Err
                              THEN TermE(arith(e.f, IntOf(n.a), IntOf(n.b))) ELSE n
         [] e.op = "neg" -> IF int_const(n.a) /\ IntOf(n.a)[2] # -(IntMax + 1)
                            THEN TermE(IntV(-IntOf(n.a)[2])) ELSE n
         [] e.op = "plus" -> IF int_const(n.a) THEN n.a ELSE n
         [] OTHER -> n

FoldOpt(e) == IF e = NoExpr THEN NoExpr ELSE fold(e)

\* simplify: fold and drop what can bind nothing or changes nothing.
RECURSIVE simplify(_)
simplify(a) ==
    LET n == WithKids(a, MapSeq(simplify, Kids(a)))
        e == FoldOpt(n.e)
    IN CASE a.op = "join" -> IF is_empty(n.l) \/ is_empty(n.r) THEN EmptyTable
                             ELSE IF is_unit(n.l) THEN n.r ELSE IF is_unit(n.r) THEN n.l ELSE n
         [] a.op = "leftjoin" ->
              IF is_empty(n.l) THEN EmptyTable
              ELSE IF is_empty(n.r) \/ ebv_const(e) = "no" THEN n.l
              ELSE [n EXCEPT !.e = IF ebv_const(e) = "yes" THEN NoExpr ELSE e]
         [] a.op = "filter" ->
              IF is_empty(n.l) \/ ebv_const(e) = "no" THEN EmptyTable
              ELSE IF ebv_const(e) = "yes" THEN n.l ELSE [n EXCEPT !.e = e]
         [] a.op = "union" -> IF is_empty(n.l) THEN n.r ELSE IF is_empty(n.r) THEN n.l ELSE n
         [] a.op = "minus" -> IF is_empty(n.l) THEN EmptyTable ELSE IF is_empty(n.r) THEN n.l ELSE n
         [] a.op = "extend" -> IF is_empty(n.l) THEN EmptyTable ELSE [n EXCEPT !.e = e]
         [] a.op = "order" -> IF is_empty(n.l) THEN EmptyTable
                              ELSE [n EXCEPT !.conds = MapSeq(LAMBDA c : <<fold(c[1]), c[2]>>, @)]
         [] a.op = "group" -> [n EXCEPT !.keys = MapSeq(LAMBDA k : <<k[1], FoldOpt(k[2])>>, @)]
         [] a.op \in {"graph", "distinct", "reduced"} -> IF is_empty(n.l) THEN EmptyTable ELSE n
         [] a.op = "slice" -> IF is_empty(n.l) /\ n.limit # 0 THEN EmptyTable ELSE n
         [] OTHER -> n

-----------------------------------------------------------------------------
(* Filter pushdown.                                                        *)

RECURSIVE split_and(_)
split_and(e) == IF e.op = "and" THEN split_and(e.a) \o split_and(e.b) ELSE <<e>>

\* pushable_vars: the variables of a conjunct, or Immovable for one that
\* contains EXISTS.
Operands(e) == ToSet(OperandSeq(e))
\* A mutant: a conjunct with EXISTS sinks like any other.
NeverExists(e) == FALSE
RECURSIVE HasExists(_), ExprVars(_)
HasExists(e) == e.op = "exists" \/ \E x \in Operands(e) : HasExists(x)
ExprVars(e) == IF e.op = "var" THEN {e.v} ELSE UNION {ExprVars(x) : x \in Operands(e)}

FilterNode(e, a) == [op |-> "filter", e |-> e, l |-> a]

\* try_push: sink a conjunct as far as it goes; the result is the tree and
\* whether the conjunct was absorbed.
RECURSIVE try_push(_, _)
wrap(c, t) == IF t.absorbed THEN t.tree ELSE FilterNode(c, t.tree)
try_push(c, a) ==
    LET cv == ExprVars(c)
        into(x) == wrap(c, try_push(c, x))
        kept == [absorbed |-> FALSE, tree |-> a]
        done(t) == [absorbed |-> TRUE, tree |-> t]
    IN CASE HasExists(c) -> kept
         [] ~HasExists(c) /\ a.op = "join" ->
              IF cv \subseteq visible_vars(a.l) THEN done([a EXCEPT !.l = into(@)])
              ELSE IF cv \subseteq visible_vars(a.r) THEN done([a EXCEPT !.r = into(@)])
              ELSE kept
         [] ~HasExists(c) /\ a.op = "union" -> done([a EXCEPT !.l = into(@), !.r = into(@)])
         [] ~HasExists(c) /\ a.op = "graph" ->
              IF PVars(a.g) \cap cv # {} THEN kept ELSE done([a EXCEPT !.l = into(@)])
         [] ~HasExists(c) /\ a.op = "leftjoin" ->
              IF cv \subseteq visible_vars(a.l) THEN done([a EXCEPT !.l = into(@)]) ELSE kept
         [] ~HasExists(c) /\ a.op = "extend" ->
              IF a.v \notin cv THEN done([a EXCEPT !.l = into(@)]) ELSE kept
         [] ~HasExists(c) /\ a.op = "minus" -> done([a EXCEPT !.l = into(@)])
         [] OTHER -> kept

\* push_filters: a stack of filters is one list of conjuncts; what cannot
\* sink is wrapped around again in its order.
RECURSIVE FilterStack(_), UnderFilters(_), push_filters(_)
FilterStack(a) == IF a.op = "filter" THEN split_and(a.e) \o FilterStack(a.l) ELSE <<>>
UnderFilters(a) == IF a.op = "filter" THEN UnderFilters(a.l) ELSE a
push_filters(a) ==
    IF a.op # "filter" THEN WithKids(a, MapSeq(push_filters, Kids(a)))
    ELSE LET step(st, c) == LET t == try_push(c, st.tree)
                            IN [tree |-> t.tree,
                                kept |-> IF t.absorbed THEN st.kept ELSE Append(st.kept, c)]
             st == FoldLeft(step, [tree |-> push_filters(UnderFilters(a)), kept |-> <<>>],
                            FilterStack(a))
         IN FoldRight(FilterNode, st.kept, st.tree)

\* canonicalize: patterns in one fixed order (duplicates stay).
SortPatterns(pats) ==
    FlatMap(LAMBDA t : Keep(LAMBDA u : u = t, pats), Listed(ToSet(pats)))
RECURSIVE canonicalize(_)
canonicalize(a) ==
    LET n == WithKids(a, MapSeq(canonicalize, Kids(a)))
    IN IF n.op = "bgp" THEN [n EXCEPT !.pats = SortPatterns(@)] ELSE n

rewrite(root) == canonicalize(push_filters(simplify(root)))

-----------------------------------------------------------------------------
(* Well-designed patterns: a variable of an optional part that occurs      *)
(* outside the left join occurs in its mandatory part.                     *)

RECURSIVE all_vars(_), expr_vars(_)
expr_vars(e) ==
    CASE e.op = "var" -> {e.v}
      [] e.op = "exists" -> all_vars(e.pattern)
      [] OTHER -> UNION {expr_vars(x) : x \in Operands(e)}
all_vars(a) ==
    LET kids == (IF a.op \in BinaryOps THEN all_vars(a.l) \cup all_vars(a.r)
                 ELSE IF a.op \in UnaryOps THEN all_vars(a.l) ELSE {})
        own == CASE a.op = "bgp" -> BgpVars(a.pats)
                 [] a.op = "path" -> PatternVars(a.s) \cup PatternVars(a.o)
                 [] a.op \in {"leftjoin", "filter"} -> expr_vars(a.e)
                 [] a.op = "graph" -> PVars(a.g)
                 [] a.op = "extend" -> {a.v} \cup expr_vars(a.e)
                 [] a.op \in {"table", "project"} -> ToSet(a.vars)
                 [] a.op = "group" ->
                      UNION {{a.keys[i][1]} \cup expr_vars(a.keys[i][2]) : i \in 1..Len(a.keys)}
                      \cup UNION {{a.aggs[i][1]} \cup expr_vars(a.aggs[i][2].expr) : i \in 1..Len(a.aggs)}
                 [] a.op = "order" -> UNION {expr_vars(a.conds[i][1]) : i \in 1..Len(a.conds)}
                 [] OTHER -> {}
    IN kids \cup own

RECURSIVE DesignCheck(_, _)
DesignCheck(a, outside) ==
    CASE a.op = "leftjoin" ->
           LET av == all_vars(a.l)
               bv == all_vars(a.r) \cup expr_vars(a.e)
           IN /\ bv \cap outside \subseteq av
              /\ DesignCheck(a.l, outside \cup bv)
              /\ DesignCheck(a.r, outside \cup av)
      [] a.op \in {"join", "union", "minus"} ->
           /\ DesignCheck(a.l, outside \cup all_vars(a.r))
           /\ DesignCheck(a.r, outside \cup all_vars(a.l))
      [] a.op = "filter" -> DesignCheck(a.l, outside \cup expr_vars(a.e))
      [] a.op \in UnaryOps \ {"filter"} -> DesignCheck(a.l, outside)
      [] OTHER -> TRUE
well_designed(root) == DesignCheck(root, {})
=============================================================================
