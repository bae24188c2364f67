----------------------------- MODULE SparqlPrint -----------------------------
(***************************************************************************)
(* The canonical printer of SPARQL trees (graphy-sparql-syntax/src/        *)
(* print.rs), on tokens: layout is left out, so the multi-line and the     *)
(* single-line printers coincide, except where spacing decides how the     *)
(* text lexes (unary_sign).                                                *)
(*                                                                         *)
(* A user blank label is <<k, n>> (k underscores before the name n) and a  *)
(* fresh label of the parser a number n, so a label left without its sugar *)
(* takes a name <<k, n>> with k > 0 that no user label of the unit has.    *)
(* An environment e holds the declared prefixes and what the count pass    *)
(* found: the fresh labels, once per occurrence, and the user labels.      *)
(***************************************************************************)
EXTENDS SparqlParser

\* A character that is neither legal nor escapable in a local name.
NotLocal == "^"

Punct(k) == <<<<k>>>>
Join(parts, sep) ==
    IF parts = <<>> THEN <<>>
    ELSE FoldLeft(LAMBDA acc, p : acc \o sep \o p, parts[1], Tail(parts))
MapTo(Op(_), s) == [i \in 1..Len(s) |-> Op(s[i])]
Each(Op(_), s) == FlattenSeq(MapTo(Op, s))
\* Brackets around nothing lex as one token: () is "nil", [] is "anon".
Parens(toks) == IF toks = <<>> THEN Punct("nil") ELSE Punct("(") \o toks \o Punct(")")
Braces(toks) == Punct("{") \o toks \o Punct("}")
When(c, toks) == IF c THEN toks ELSE <<>>

-----------------------------------------------------------------------------
(* The count pass: the blank labels of a unit, once per occurrence.        *)

RECURSIVE count_term(_), count_expr(_), count_group(_)
count_term(t) ==
    CASE t[1] = "bnode" -> <<t[2]>>
      [] t[1] = "triple" -> Each(count_term, t[2])
      [] OTHER -> <<>>
count_triple(t) == count_term(t[1]) \o count_term(t[2]) \o count_term(t[3])
count_expr(x) ==
    CASE x.op = "bin" -> count_expr(x.a) \o count_expr(x.b)
      [] x.op = "un" -> count_expr(x.a)
      [] x.op = "in" -> count_expr(x.a) \o Each(count_expr, x.list)
      [] x.op \in {"builtin", "function"} -> Each(count_expr, x.args)
      [] x.op = "exists" -> count_group(x.pattern)
      [] x.op = "agg" -> count_expr(x.a)
      [] x.op = "term" -> count_term(x.t)
      [] x.op = "none" -> <<>>
count_modifiers(m) ==
    Each(LAMBDA c : count_expr(c.e), m.group_by) \o Each(count_expr, m.having)
    \o Each(LAMBDA c : count_expr(c[1]), m.order_by)
count_element(x) ==
    CASE x.el = "triples" -> Each(count_triple, x.ts)
      [] x.el \in {"filter", "bind"} -> count_expr(x.e)
      [] x.el \in {"optional", "minus"} -> count_group(x.g)
      [] x.el = "union" -> Each(count_group, x.gs)
      [] x.el \in {"graph", "service"} -> count_term(x.t) \o count_group(x.g)
      [] x.el = "values" -> <<>>
      [] x.el = "select" -> Each(LAMBDA p : count_expr(p.e), x.q.projection)
                            \o count_group(x.q.pattern) \o count_modifiers(x.q)
count_group(g) == Each(count_element, g)
count_query(q) ==
    Each(LAMBDA p : count_expr(p.e), q.projection) \o Each(count_triple, q.template)
    \o Each(count_term, q.targets) \o count_group(q.pattern) \o count_modifiers(q)
count_quads(qs) == Each(LAMBDA q : count_triple(q.triple), qs)
count_op(op) ==
    CASE op.op \in {"insertdata", "deletedata", "deletewhere"} -> count_quads(op.quads)
      [] op.op = "modify" -> count_quads(op.delete) \o count_quads(op.insert) \o count_group(op.pattern)
      [] OTHER -> <<>>
count_update(u) == Each(count_op, u.operations)

is_fresh(t) == t[1] = "bnode" /\ t[2][1] = "fresh"

\* Printer::new: the last declaration of a prefix wins, in the place of the
\* first; `labels` is what the count pass saw.
Declared(prefixes) ==
    LET first == SelectSeq([i \in 1..Len(prefixes) |-> i],
                           LAMBDA i : \A j \in 1..i - 1 : prefixes[j][1] # prefixes[i][1])
        last(p) == CHOOSE i \in 1..Len(prefixes) :
                        prefixes[i][1] = p /\ \A j \in i + 1..Len(prefixes) : prefixes[j][1] # p
    IN MapTo(LAMBDA i : <<prefixes[i][1], prefixes[last(prefixes[i][1])][2]>>, first)
Printer(prefixes, labels) ==
    [decls |-> Declared(prefixes), labels |-> labels,
     taken |-> {l[2] : l \in {x \in ToSet(labels) : x[1] = "user"}}]

-----------------------------------------------------------------------------
(* Terms.                                                                  *)

\* The longest namespace whose rest is a local name; the first prefix of it.
Covers(d, i) == IsPrefix(d[2], i) /\ ~Contains(SubSeq(i, Len(d[2]) + 1, Len(i)), NotLocal)
PnIri(e, i) ==
    LET fits == {k \in 1..Len(e.decls) : Covers(e.decls[k], i)}
        best == CHOOSE k \in fits : \A j \in fits :
                    \/ Len(e.decls[j][2]) < Len(e.decls[k][2])
                    \/ Len(e.decls[j][2]) = Len(e.decls[k][2]) /\ k <= j
    IN IF fits = {} THEN <<<<"iriref", i>>>>
       ELSE <<<<"pname", e.decls[best][1], SubSeq(i, Len(e.decls[best][2]) + 1, Len(i))>>>>

\* blank: the first underscored candidate no user label claims.
blank(e, l) ==
    IF l[1] = "user" THEN <<<<"bnode", l[2]>>>>
    ELSE LET k == CHOOSE k \in 1..Cardinality(e.taken) + 1 :
                    <<k, l[2]>> \notin e.taken /\ \A j \in 1..k - 1 : <<j, l[2]>> \in e.taken
         IN <<<<"bnode", <<k, l[2]>>>>>>

IsBare(t) == t[1] = "lit" /\ t[3] = "typed" /\ t[4] = Xsd(t[2][1])
IsBoolean(t) == t[1] = "lit" /\ t[3] = "typed" /\ t[4] = Xsd("boolean") /\ t[2][3] \in {"true", "false"}
PnLiteral(e, t) ==
    CASE t[3] = "plain" -> <<<<"string", t[2]>>>>
      [] t[3] = "lang" -> <<<<"string", t[2]>>, <<"langtag", t[4]>>>>
      [] t[3] = "typed" /\ IsBare(t) -> <<<<t[2][1], t[2]>>>>
      [] t[3] = "typed" /\ IsBoolean(t) -> Punct(t[2][3])
      [] OTHER -> <<<<"string", t[2]>>, <<"^^">>>> \o PnIri(e, t[4])

\* Path levels: | 1, / 2, ^ 3, postfix 4, primary 5.
PathLevel(p) == CASE p[1] = "alt" -> 1 [] p[1] = "seq" -> 2 [] p[1] = "inv" -> 3
                  [] p[1] \in {"star", "plus", "opt"} -> 4 [] OTHER -> 5
Bracketed(level, min, toks) == IF level < min THEN Punct("(") \o toks \o Punct(")") ELSE toks
path_iri(e, i) == IF i = Rdf("type") THEN Punct("a") ELSE PnIri(e, i)
RECURSIVE path_prec(_, _, _)
path_prec(e, p, min) ==
    Bracketed(PathLevel(p), min,
        CASE p[1] = "alt" -> path_prec(e, p[2], 1) \o Punct("|") \o path_prec(e, p[3], 2)
          [] p[1] = "seq" -> path_prec(e, p[2], 2) \o Punct("/") \o path_prec(e, p[3], 3)
          [] p[1] = "inv" -> Punct("^") \o path_prec(e, p[2], 4)
          [] p[1] = "star" -> path_prec(e, p[2], 5) \o Punct("*")
          [] p[1] = "plus" -> path_prec(e, p[2], 5) \o Punct("+")
          [] p[1] = "opt" -> path_prec(e, p[2], 5) \o Punct("?")
          [] p[1] = "link" -> path_iri(e, p[2])
          [] p[1] = "nps" -> Punct("!") \o Parens(Join(MapTo(LAMBDA n : When(n[2], Punct("^")) \o path_iri(e, n[1]),
                                                            p[2]), Punct("|"))))

RECURSIVE PnTerm(_, _)
verb(e, v) ==
    CASE v[1] = "path" -> path_prec(e, v[2], 1)
      [] v = IriT(Rdf("type")) -> Punct("a")
      [] OTHER -> PnTerm(e, v)
PnTriple(e, t) == PnTerm(e, t[1]) \o verb(e, t[2]) \o PnTerm(e, t[3])
PnTerm(e, t) ==
    CASE t[1] = "iri" -> PnIri(e, t[2])
      [] t[1] = "bnode" -> blank(e, t[2])
      [] t[1] = "lit" -> PnLiteral(e, t)
      [] t[1] = "var" -> <<<<"var", t[2]>>>>
      [] t[1] = "triple" -> Punct("<<(") \o PnTriple(e, t[2]) \o Punct(")>>")

-----------------------------------------------------------------------------
(* Sugar reconstruction over one run ts of triples.  A fresh node whose    *)
(* every occurrence lies in the run comes back as the brackets it was      *)
(* parsed from; anything else keeps a label.                               *)

Count(s, x) == Cardinality({i \in 1..Len(s) : s[i] = x})
\* RunView: the triples a node is the subject of, its plain object
\* positions, and all its occurrences in the run.
subj(ts, n) == SelectSeq([i \in 1..Len(ts) |-> i], LAMBDA i : ts[i][1] = n)
obj_at(ts, n) == Cardinality({i \in 1..Len(ts) : ts[i][3] = n})
local(ts, n) == Len(subj(ts, n)) + Count(Each(LAMBDA t : count_term(t[3]), ts), n[2])
Owned(e, ts, n) == Count(e.labels, n[2]) = local(ts, n)

obj_inline_shape(e, ts, n) ==
    Owned(e, ts, n) /\ obj_at(ts, n) = 1 /\ local(ts, n) = Len(subj(ts, n)) + 1
stmt_anon_ok(e, ts, n) ==
    Owned(e, ts, n) /\ obj_at(ts, n) = 0 /\ local(ts, n) = Len(subj(ts, n))

\* Gathering idxs must not carry them over a foreign statement.
span_clean(e, ts, idxs) ==
    idxs # <<>> =>
        \A j \in idxs[1]..idxs[Len(idxs)] :
            Contains(idxs, j) \/ (is_fresh(ts[j][1]) /\ obj_inline_shape(e, ts, ts[j][1]))
obj_inline_ok(e, ts, n) == obj_inline_shape(e, ts, n) /\ span_clean(e, ts, subj(ts, n))

\* The first rdf:first and rdf:rest triples of a node and its others, or <<>>.
head_split(ts, n) ==
    LET idxs == subj(ts, n)
        of(p) == SelectSeq(idxs, LAMBDA i : ts[i][2] = IriT(Rdf(p)))
        fs == of("first")
        rs == of("rest")
    IN IF fs = <<>> \/ rs = <<>> THEN <<>>
       ELSE <<fs[1], rs[1], SelectSeq(idxs, LAMBDA i : i # fs[1] /\ i # rs[1])>>
pure_pair(ts, n) == LET h == head_split(ts, n) IN IF h # <<>> /\ h[3] = <<>> THEN h ELSE <<>>

\* The (first, rest) pairs from one pair to rdf:nil, or <<>>.
RECURSIVE chain_from(_, _, _)
chain_from(e, ts, pairs) ==
    LET tail == ts[pairs[Len(pairs)][2]][3]
        next == pure_pair(ts, tail)
    IN CASE tail = IriT(Rdf("nil")) -> pairs
         [] is_fresh(tail) -> IF ~obj_inline_ok(e, ts, tail) \/ Len(pairs) > Len(ts) \/ next = <<>> THEN <<>>
                              ELSE chain_from(e, ts, Append(pairs, next))
         [] OTHER -> <<>>

\* What these three return: the tokens, and the triples consumed so far.
RECURSIVE prop_groups(_, _, _, _, _), pat_term(_, _, _, _), chain_items(_, _, _, _)
chain_items(e, ts, done, pairs) ==
    IF pairs = <<>> THEN <<<<>>, done>>
    ELSE LET one == pat_term(e, ts, done, ts[pairs[1][1]][3])
             rest == chain_items(e, ts, one[2], Tail(pairs))
         IN <<one[1] \o rest[1], rest[2]>>
ChainTriples(pairs) == UNION {{pairs[i][1], pairs[i][2]} : i \in 1..Len(pairs)}

pat_term(e, ts, done, t) ==
    LET pair == pure_pair(ts, t)
        pairs == chain_from(e, ts, <<pair>>)
        list == chain_items(e, ts, done \cup ChainTriples(pairs), pairs)
        props == prop_groups(e, ts, done, subj(ts, t), None)
        label == <<PnTerm(e, t), done>>
    IN CASE t = IriT(Rdf("nil")) -> <<Punct("nil"), done>>
         [] is_fresh(t) ->
                IF ~obj_inline_ok(e, ts, t) THEN label
                ELSE IF pair # <<>>
                     THEN (IF pairs = <<>> THEN label ELSE <<Parens(list[1]), list[2]>>)
                ELSE IF props[1] = <<>> THEN <<Punct("anon"), props[2]>>
                ELSE <<Punct("[") \o props[1] \o Punct("]"), props[2]>>
         [] OTHER -> label

prop_groups(e, ts, done, idxs, prev) ==
    IF idxs = <<>> THEN <<<<>>, done>>
    ELSE IF idxs[1] \in done THEN prop_groups(e, ts, done, Tail(idxs), prev)
    ELSE LET t == ts[idxs[1]]
             object == pat_term(e, ts, done \cup {idxs[1]}, t[3])
             rest == prop_groups(e, ts, object[2], Tail(idxs), t[2])
             lead == CASE prev = None -> verb(e, t[2])
                       [] prev # None /\ prev = t[2] -> Punct(",")
                       [] OTHER -> Punct(";") \o verb(e, t[2])
         IN <<lead \o object[1] \o rest[1], rest[2]>>

\* A fresh node that nothing refers to: ( items ) props, or [ props ].
stmt_fresh_sentence(e, ts, done, n) ==
    LET h == head_split(ts, n)
        pairs == IF h = <<>> THEN <<>> ELSE chain_from(e, ts, <<h>>)
        list == chain_items(e, ts, done \cup ChainTriples(pairs), pairs)
        extras == prop_groups(e, ts, list[2], h[3], None)
        props == prop_groups(e, ts, done, subj(ts, n), None)
    IN IF pairs # <<>> THEN <<Parens(list[1]) \o extras[1], extras[2]>>
       ELSE <<Punct("[") \o props[1] \o Punct("]"), props[2]>>

\* Two passes: the first leaves inlinable nodes to the triple that refers
\* to them, the second prints what no reference consumed.
Deferred(e, ts, defer, i) == defer /\ is_fresh(ts[i][1]) /\ obj_inline_ok(e, ts, ts[i][1])
sentence(e, ts, done, defer, i) ==
    LET n == ts[i][1]
        open(j) == j \notin done /\ ~Deferred(e, ts, defer, j)
        same == SelectSeq([j \in 1..Len(ts) |-> j],
                          LAMBDA j : j >= i /\ open(j) /\ \A k \in i..j : open(k) => ts[k][1] = n)
        props == prop_groups(e, ts, done, same, None)
    IN IF is_fresh(n) /\ stmt_anon_ok(e, ts, n) /\ span_clean(e, ts, subj(ts, n))
       THEN stmt_fresh_sentence(e, ts, done, n)
       ELSE <<PnTerm(e, n) \o props[1], props[2]>>
run_sentences(e, ts) ==
    LET idx == [i \in 1..Len(ts) |-> i]
        step(st, i, defer) ==
            IF i \in st[2] \/ Deferred(e, ts, defer, i) THEN st
            ELSE LET s == sentence(e, ts, st[2], defer, i) IN <<st[1] \o s[1] \o Punct("."), s[2]>>
        first == FoldLeft(LAMBDA st, i : step(st, i, TRUE), <<<<>>, {}>>, idx)
    IN FoldLeft(LAMBDA st, i : step(st, i, FALSE), first, idx)[1]

-----------------------------------------------------------------------------
(* Expressions.  Levels: || 1, && 2, relational 3, additive 4,             *)
(* multiplicative 5, unary 6, primary 7.                                   *)

Level(x) ==
    CASE x.op = "bin" -> (CASE x.f = "||" -> 1 [] x.f = "&&" -> 2 [] x.f \in Comparators -> 3
                            [] x.f \in {"+", "-"} -> 4 [] x.f \in {"*", "/"} -> 5)
      [] x.op = "in" -> 3
      [] x.op = "un" -> 6
      [] OTHER -> 7

\* A sign written against a bare number would lex as part of it.
Glued(sign, toks) ==
    IF Len(toks) = 1 /\ toks[1][1] \in NumericKinds /\ toks[1][2][2] = ""
    THEN <<<<toks[1][1], <<toks[1][2][1], sign, toks[1][2][3]>>>>>> ELSE Punct(sign) \o toks
\* A mutant: never a space.
sign_glued(sign, x, toks) == Glued(sign, toks)
unary_sign(sign, x, toks) ==
    LET spaced == x.op = "term" /\ IsBare(x.t)
    IN IF spaced THEN Punct(sign) \o toks ELSE Glued(sign, toks)

RECURSIVE expr_prec(_, _, _), group(_, _)
comma_exprs(e, xs) == Join(MapTo(LAMBDA x : expr_prec(e, x, 1), xs), Punct(","))
expr_prec(e, x, min) ==
    LET l == Level(x)
        left == IF l = 3 THEN 4 ELSE l
        right == IF l = 3 THEN 4 ELSE l + 1
    IN Bracketed(l, min,
        CASE x.op = "bin" -> expr_prec(e, x.a, left) \o Punct(x.f) \o expr_prec(e, x.b, right)
          [] x.op = "in" -> expr_prec(e, x.a, 4) \o When(x.neg, Punct("NOT")) \o Punct("IN")
                            \o Parens(comma_exprs(e, x.list))
          [] x.op = "un" -> IF x.f = "!" THEN Punct("!") \o expr_prec(e, x.a, 7)
                            ELSE unary_sign(x.f, x.a, expr_prec(e, x.a, 7))
          [] x.op = "builtin" -> Punct(x.f) \o Parens(comma_exprs(e, x.args))
          [] x.op = "function" -> PnIri(e, x.iri) \o Parens(When(x.distinct, Punct("DISTINCT"))
                                                           \o comma_exprs(e, x.args))
          [] x.op = "exists" -> When(x.neg, Punct("NOT")) \o Punct("EXISTS") \o group(e, x.pattern)
          [] x.op = "agg" ->
                Punct(x.func) \o Parens(When(x.distinct, Punct("DISTINCT"))
                    \o (IF x.a = NoExpr THEN Punct("*") ELSE expr_prec(e, x.a, 1))
                    \o When(x.sep # None, <<<<";">>, <<"SEPARATOR">>, <<"=">>, <<"string", x.sep>>>>))
          [] x.op = "term" -> PnTerm(e, x.t))
PnExpr(e, x) == expr_prec(e, x, 1)
PnVar(v) == <<<<"var", v>>>>
Aliased(e, x, v) == Parens(PnExpr(e, x) \o When(v # "", Punct("AS") \o PnVar(v)))

-----------------------------------------------------------------------------
(* Patterns, modifiers, queries and updates.                               *)

PnValues(e, vb) ==
    LET cell(t) == IF t = None THEN Punct("UNDEF") ELSE PnTerm(e, t)
    IN Punct("VALUES") \o Parens(Each(PnVar, vb.vars))
       \o Braces(Each(LAMBDA row : Parens(Each(cell, row)), vb.rows))
PnSelect(e, q) ==
    Punct("SELECT") \o When(q.distinct, Punct("DISTINCT")) \o When(q.reduced, Punct("REDUCED"))
    \o (IF q.projection = <<>> THEN Punct("*")
        ELSE Each(LAMBDA p : IF p.e = NoExpr THEN PnVar(p.v) ELSE Aliased(e, p.e, p.v), q.projection))
Number(n) == <<<<"integer", <<"integer", "", n>>>>>>
modifiers(e, m) ==
    LET key(c) == IF c.e = NoExpr THEN PnVar(c.v) ELSE Aliased(e, c.e, c.v)
        cond(c) == IF ~c[2] /\ c[1].op = "term" /\ c[1].t[1] = "var" THEN PnTerm(e, c[1].t)
                   ELSE Punct(IF c[2] THEN "DESC" ELSE "ASC") \o Parens(PnExpr(e, c[1]))
    IN When(m.group_by # <<>>, <<<<"GROUP">>, <<"BY">>>> \o Each(key, m.group_by))
       \o When(m.having # <<>>, Punct("HAVING") \o Each(LAMBDA h : Parens(PnExpr(e, h)), m.having))
       \o When(m.order_by # <<>>, <<<<"ORDER">>, <<"BY">>>> \o Each(cond, m.order_by))
       \o When(m.limit # -1, Punct("LIMIT") \o Number(m.limit))
       \o When(m.offset # -1, Punct("OFFSET") \o Number(m.offset))

element(e, x) ==
    CASE x.el = "triples" -> run_sentences(e, x.ts)
      [] x.el = "filter" -> Punct("FILTER") \o Parens(PnExpr(e, x.e))
      [] x.el = "optional" -> Punct("OPTIONAL") \o group(e, x.g)
      [] x.el = "minus" -> Punct("MINUS") \o group(e, x.g)
      [] x.el = "union" -> Join(MapTo(LAMBDA g : group(e, g), x.gs), Punct("UNION"))
      [] x.el = "graph" -> Punct("GRAPH") \o PnTerm(e, x.t) \o group(e, x.g)
      [] x.el = "service" -> Punct("SERVICE") \o When(x.silent, Punct("SILENT"))
                             \o PnTerm(e, x.t) \o group(e, x.g)
      [] x.el = "bind" -> Punct("BIND") \o Aliased(e, x.e, x.v)
      [] x.el = "values" -> PnValues(e, x.values)
      [] x.el = "select" -> PnSelect(e, x.q) \o Punct("WHERE") \o group(e, x.q.pattern)
                            \o modifiers(e, x.q) \o When(x.q.values.given, PnValues(e, x.q.values))
group(e, g) == Braces(Each(LAMBDA x : element(e, x), g))
\* The multi-line forms print the same tokens, one element a line.
group_ml(e, g) == group(e, g)
modifier_lines(e, m) == modifiers(e, m)

Clause(e, keyword, d) == Punct(keyword) \o When(d.named, Punct("NAMED")) \o PnIri(e, d.iri)

\* The short CONSTRUCT: the template is the pattern's only run, printed once.
IsShort(e, q) ==
    /\ Len(q.pattern) = 1 /\ q.pattern[1].el = "triples"
    /\ MapTo(LAMBDA t : PnTriple(e, t), q.pattern[1].ts) = MapTo(LAMBDA t : PnTriple(e, t), q.template)
PnQuery(e, q) ==
    LET head == CASE q.form = "SELECT" -> PnSelect(e, q)
                  [] q.form = "CONSTRUCT" -> Punct("CONSTRUCT")
                        \o (IF IsShort(e, q) THEN <<>> ELSE Braces(run_sentences(e, q.template)))
                  [] q.form = "DESCRIBE" -> Punct("DESCRIBE") \o When(q.star, Punct("*"))
                                            \o Each(LAMBDA t : PnTerm(e, t), q.targets)
                  [] q.form = "ASK" -> Punct("ASK")
        skip_where == q.form = "DESCRIBE" /\ q.pattern = <<>>
    IN head \o Each(LAMBDA d : Clause(e, "FROM", d), q.dataset)
       \o (IF skip_where THEN <<>> ELSE Punct("WHERE") \o group_ml(e, q.pattern))
       \o modifier_lines(e, q) \o When(q.values.given, PnValues(e, q.values))

\* Consecutive quads of one graph share a block and a run.
RECURSIVE quad_runs(_, _)
quad_runs(e, qs) ==
    IF qs = <<>> THEN <<>>
    ELSE LET n == CHOOSE n \in 1..Len(qs) : /\ \A i \in 1..n : qs[i].graph = qs[1].graph
                                            /\ n = Len(qs) \/ qs[n + 1].graph # qs[1].graph
             run == run_sentences(e, MapTo(LAMBDA q : q.triple, SubSeq(qs, 1, n)))
         IN (IF qs[1].graph = None THEN run ELSE Punct("GRAPH") \o PnTerm(e, qs[1].graph) \o Braces(run))
            \o quad_runs(e, SubSeq(qs, n + 1, Len(qs)))
quad_block(e, qs) == Braces(quad_runs(e, qs))

graph_target(e, t) == IF t[1] = "graph" THEN Punct("GRAPH") \o PnIri(e, t[2]) ELSE Punct(t[1])
PnOp(e, op) ==
    LET silent == When(op.silent, Punct("SILENT"))
    IN CASE op.op = "insertdata" -> <<<<"INSERT">>, <<"DATA">>>> \o quad_block(e, op.quads)
         [] op.op = "deletedata" -> <<<<"DELETE">>, <<"DATA">>>> \o quad_block(e, op.quads)
         [] op.op = "deletewhere" -> <<<<"DELETE">>, <<"WHERE">>>> \o quad_block(e, op.quads)
         [] op.op = "modify" ->
                (IF op.with = None THEN <<>> ELSE Punct("WITH") \o PnIri(e, op.with))
                \o When(op.deletes, Punct("DELETE") \o quad_block(e, op.delete))
                \o When(op.inserts, Punct("INSERT") \o quad_block(e, op.insert))
                \o Each(LAMBDA d : Clause(e, "USING", d), op.using) \o Punct("WHERE") \o group_ml(e, op.pattern)
         [] op.op = "load" -> Punct("LOAD") \o silent \o PnIri(e, op.source)
                \o (IF op.into = None THEN <<>> ELSE <<<<"INTO">>, <<"GRAPH">>>> \o PnIri(e, op.into))
         [] op.op \in {"CLEAR", "DROP"} -> Punct(op.op) \o silent \o graph_target(e, op.target)
         [] op.op = "CREATE" -> Punct("CREATE") \o silent \o Punct("GRAPH") \o PnIri(e, op.target)
         [] op.op \in {"ADD", "MOVE", "COPY"} ->
                Punct(op.op) \o silent \o graph_target(e, op.from) \o Punct("TO") \o graph_target(e, op.to)

\* assemble: VERSION, BASE, then the declarations the body uses.
assemble(e, version, base, body) ==
    LET used == {body[i][2] : i \in {i \in 1..Len(body) : body[i][1] = "pname"}}
        decl(d) == IF d[1] \in used THEN <<<<"PREFIX">>, <<"pname", d[1], <<>>>>, <<"iriref", d[2]>>>> ELSE <<>>
    IN When(version # None, <<<<"VERSION">>, <<"string", version>>>>)
       \o When(base # <<>>, <<<<"BASE">>, <<"iriref", base>>>>)
       \o Each(decl, e.decls) \o body

print_query(q) ==
    LET e == Printer(q.prefixes, count_query(q)) IN assemble(e, q.version, q.base, PnQuery(e, q))
print_update(u) ==
    LET e == Printer(u.prefixes, count_update(u))
    IN assemble(e, u.version, <<>>, Join(MapTo(LAMBDA op : PnOp(e, op), u.operations), Punct(";")))
=============================================================================
