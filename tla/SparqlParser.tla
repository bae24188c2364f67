---------------------------- MODULE SparqlParser ----------------------------
(***************************************************************************)
(* The SPARQL parser (graphy-sparql-syntax/src/parser.rs): recursive       *)
(* descent over a token sequence, strict and recovering.                   *)
(*                                                                         *)
(* A token is a tuple whose head is its kind: the keyword or punctuation   *)
(* itself, or "var", "iriref", "pname", "bnode", "string", "langtag", a    *)
(* numeric kind, "nil" for (), "anon" for [].  A lexical form is a tuple   *)
(* <<kind, sign, n>>, so that "5" and 5 denote one literal as in the code. *)
(* An IRI is a sequence of symbols: a namespace is a proper prefix of it   *)
(* and a relative reference starts with Relative.  Strings are not decoded,*)
(* spans are token positions (an error of validation is at the first token *)
(* of what it validates).                                                  *)
(*                                                                         *)
(* A production maps a parser state to a parser state and leaves what it   *)
(* parsed in v.  A state that has failed (ok is FALSE) has no token kind,  *)
(* and every step is the identity on it.                                   *)
(***************************************************************************)
EXTENDS Integers, Sequences, SequencesExt, FiniteSets, TLC

CONSTANT MaxDepth    \* MAX_DEPTH, the nesting the parser accepts

Relative == "~"
Rdf(x) == <<"rdf", x>>
Xsd(k) == <<"xsd", k>>
None == <<"none">>

IriT(i) == <<"iri", i>>
VarT(x) == <<"var", x>>
BnodeT(l) == <<"bnode", l>>
Plain(lex) == <<"lit", lex, "plain", None>>
LangLit(lex, tag) == <<"lit", lex, "lang", tag>>
TypedLit(lex, dt) == <<"lit", lex, "typed", dt>>
TripleT(t) == <<"triple", t>>
TermE(t) == [op |-> "term", t |-> t]
Bin(op, f, a, b) == [op |-> op, f |-> f, a |-> a, b |-> b]

NoValues == [vars |-> <<>>, rows |-> <<>>, given |-> FALSE]

-----------------------------------------------------------------------------
(* The parser state and its cursor.                                        *)

Parser(toks, recovering) ==
    [toks |-> toks, at |-> 1, ok |-> TRUE, v |-> None, out |-> <<>>, base |-> <<>>,
     prefix_order |-> <<>>, fresh |-> 0, depth |-> 0, bgp_epoch |-> 0, bnode_epochs |-> <<>>,
     update_op |-> 0, template_labels |-> <<>>, recovering |-> recovering,
     errors |-> <<>>, error |-> 0]

KindAt(s, n) == IF ~s.ok THEN "failed"
                ELSE IF s.at + n > Len(s.toks) THEN "eof" ELSE s.toks[s.at + n][1]
Kind(s) == KindAt(s, 0)
Tok(s) == s.toks[s.at]

Fail(s, at) == IF s.ok THEN [s EXCEPT !.ok = FALSE, !.error = at] ELSE s
err_here(s) == Fail(s, s.at)
Bump(s) == IF s.ok THEN [s EXCEPT !.at = @ + 1] ELSE s
Take(s, k) == IF Kind(s) = k THEN Bump(s) ELSE s
Expect(s, k) == IF Kind(s) = k THEN Bump(s) ELSE err_here(s)
Val(s, x) == IF s.ok THEN [s EXCEPT !.v = x] ELSE s
Emit(s, t) == IF s.ok THEN [s EXCEPT !.out = Append(@, t)] ELSE s
Require(s, holds, at) == IF holds THEN s ELSE Fail(s, at)

descend(s) == IF ~s.ok THEN s
              ELSE LET d == [s EXCEPT !.depth = @ + 1]
                   IN IF d.depth > MaxDepth THEN err_here(d) ELSE d
ascend(s) == IF s.ok THEN [s EXCEPT !.depth = @ - 1] ELSE s
next_bgp_scope(s) == IF s.ok THEN [s EXCEPT !.bgp_epoch = @ + 1] ELSE s

fresh_bnode(s) == IF s.ok THEN [s EXCEPT !.v = BnodeT(<<"fresh", s.fresh>>), !.fresh = @ + 1] ELSE s

-----------------------------------------------------------------------------
(* Terms.                                                                  *)

IriKinds == {"iriref", "pname"}
NumericKinds == {"integer", "decimal", "double"}
LiteralKinds == NumericKinds \cup {"string", "true", "false"}

\* An absolute reference is the term as written; a relative one needs BASE.
resolve_iri(s, ref) ==
    IF ref # <<>> /\ ref[1] # Relative THEN Val(s, ref)
    ELSE IF s.base = <<>> THEN Fail(s, s.at - 1)
    ELSE Val(s, s.base \o SubSeq(ref, 2, Len(ref)))

\* The last declaration of a prefix wins.
expand_pname(s, name, local) ==
    LET decls == {i \in 1..Len(s.prefix_order) : s.prefix_order[i][1] = name}
    IN IF decls = {} THEN Fail(s, s.at - 1)
       ELSE Val(s, s.prefix_order[CHOOSE i \in decls : \A j \in decls : j <= i][2] \o local)

iri_string(s) ==
    CASE Kind(s) = "iriref" -> resolve_iri(Bump(s), Tok(s)[2])
      [] Kind(s) = "pname" -> expand_pname(Bump(s), Tok(s)[2], Tok(s)[3])
      [] OTHER -> err_here(s)
iri_term(s) == LET i == iri_string(s) IN Val(i, IriT(i.v))

var_term(s) == IF Kind(s) = "var" THEN Val(Bump(s), VarT(Tok(s)[2])) ELSE err_here(s)
var_name(s) == IF Kind(s) = "var" THEN Val(Bump(s), Tok(s)[2]) ELSE err_here(s)
var_or_iri(s) == IF Kind(s) = "var" THEN var_term(s) ELSE iri_term(s)

literal(s) ==
    LET t == Tok(s)
        b == Bump(s)
    IN CASE t[1] = "string" /\ Kind(b) = "langtag" -> Val(Bump(b), LangLit(t[2], Tok(b)[2]))
         [] t[1] = "string" /\ Kind(b) = "^^" ->
                LET dt == iri_string(Bump(b)) IN Val(dt, TypedLit(t[2], dt.v))
         [] t[1] = "string" /\ Kind(b) \notin {"langtag", "^^"} -> Val(b, Plain(t[2]))
         [] t[1] \in NumericKinds -> Val(b, TypedLit(t[2], Xsd(t[1])))
         [] OTHER -> Val(b, TypedLit(<<"word", "", t[1]>>, Xsd("boolean")))

\* A label belongs to the basic graph pattern it first appears in.
blank_label(s) ==
    LET l == Tok(s)[2]
    IN IF l \in DOMAIN s.bnode_epochs /\ s.bnode_epochs[l] # s.bgp_epoch
       THEN Fail(Bump(s), s.at)
       ELSE Val([Bump(s) EXCEPT !.bnode_epochs = (l :> s.bgp_epoch) @@ @], BnodeT(<<"user", l>>))

\* The predicate of a reified triple or triple term.
term_verb(s) ==
    CASE Kind(s) = "a" -> Val(Bump(s), IriT(Rdf("type")))
      [] Kind(s) = "var" -> var_term(s)
      [] OTHER -> iri_term(s)

RECURSIVE triple_term(_)
var_or_term(s, allow_triple_term, allow_nil) ==
    CASE Kind(s) = "var" -> var_term(s)
      [] Kind(s) \in IriKinds -> iri_term(s)
      [] Kind(s) = "bnode" -> blank_label(s)
      [] Kind(s) = "anon" -> fresh_bnode(Bump(s))
      [] Kind(s) = "nil" /\ allow_nil -> Val(Bump(s), IriT(Rdf("nil")))
      [] Kind(s) = "<<(" /\ allow_triple_term -> triple_term(s)
      [] Kind(s) \in LiteralKinds -> literal(s)
      [] OTHER -> err_here(s)

triple_term(s) ==
    LET a == var_or_term(Expect(descend(s), "<<("), TRUE, FALSE)
        p == term_verb(a)
        o == IF Kind(p) = "<<(" THEN triple_term(p) ELSE var_or_term(p, FALSE, FALSE)
    IN Val(ascend(Expect(o, ")>>")), TripleT(<<a.v, p.v, o.v>>))

-----------------------------------------------------------------------------
(* Property paths.  A path that is one IRI is a term verb.                 *)

nps_item(s) ==
    LET c == Take(s, "^")
        i == IF Kind(c) = "a" THEN Val(Bump(c), Rdf("type")) ELSE iri_string(c)
    IN Val(i, <<i.v, Kind(s) = "^">>)
RECURSIVE nps_items(_, _)
nps_items(s, acc) ==
    LET i == nps_item(s)
        all == Append(acc, i.v)
    IN IF Kind(i) = "|" THEN nps_items(Bump(i), all) ELSE Val(i, all)
negated_property_set(s) ==
    CASE Kind(s) = "(" /\ KindAt(s, 1) = ")" -> Val(Bump(Bump(s)), <<>>)
      [] Kind(s) = "(" /\ KindAt(s, 1) # ")" ->
            LET is == nps_items(Bump(s), <<>>) IN Val(Expect(is, ")"), is.v)
      [] OTHER -> LET i == nps_item(s) IN Val(i, <<i.v>>)

RECURSIVE path_alternative(_), path_alts(_, _), path_seqs(_, _)
path_primary(s) ==
    LET d == descend(s)
        inner == path_alternative(Bump(d))
        p == CASE Kind(d) = "a" -> Val(Bump(d), <<"link", Rdf("type")>>)
               [] Kind(d) \in IriKinds -> LET i == iri_string(d) IN Val(i, <<"link", i.v>>)
               [] Kind(d) = "!" -> LET n == negated_property_set(Bump(d)) IN Val(n, <<"nps", n.v>>)
               [] Kind(d) = "(" -> Val(Expect(inner, ")"), inner.v)
               [] OTHER -> err_here(d)
    IN ascend(p)
path_elt(s) ==
    LET p == path_primary(s)
        tag == [k \in {"*", "+", "?"} |-> CASE k = "*" -> "star" [] k = "+" -> "plus" [] k = "?" -> "opt"]
    IN IF Kind(p) \in DOMAIN tag THEN Val(Bump(p), <<tag[Kind(p)], p.v>>) ELSE p
path_elt_or_inverse(s) ==
    IF Kind(s) = "^" THEN LET p == path_elt(Bump(s)) IN Val(p, <<"inv", p.v>>) ELSE path_elt(s)
path_seqs(s, left) ==
    IF Kind(s) # "/" THEN Val(s, left)
    ELSE LET p == path_elt_or_inverse(Bump(s)) IN path_seqs(p, <<"seq", left, p.v>>)
path_sequence(s) == LET p == path_elt_or_inverse(s) IN path_seqs(p, p.v)
path_alts(s, left) ==
    IF Kind(s) # "|" THEN Val(s, left)
    ELSE LET p == path_sequence(Bump(s)) IN path_alts(p, <<"alt", left, p.v>>)
path_alternative(s) == LET p == path_sequence(descend(s)) IN ascend(path_alts(p, p.v))
path_verb(s) ==
    LET p == path_alternative(s)
    IN IF ~p.ok THEN p
       ELSE Val(p, IF p.v[1] = "link" THEN IriT(p.v[2]) ELSE <<"path", p.v>>)

-----------------------------------------------------------------------------
(* Triples.  The sugar (collections, bracketed nodes, reifiers and         *)
(* annotations) expands to plain triples, emitted in out.                  *)

reifies(r, s, p, o) == <<r, IriT(Rdf("reifies")), TripleT(<<s, p, o>>)>>
at_reifier_term(s) == Kind(s) \in IriKinds \cup {"var", "bnode"}
reifier(s) == IF at_reifier_term(s) THEN var_or_term(s, FALSE, FALSE) ELSE fresh_bnode(s)

RECURSIVE reified_triple(_)
reified_triple(s) ==
    LET open == Expect(descend(s), "<<")
        a == IF Kind(open) = "<<" THEN reified_triple(open) ELSE var_or_term(open, TRUE, FALSE)
        p == term_verb(a)
        o == CASE Kind(p) = "<<" -> reified_triple(p)
               [] Kind(p) = "<<(" -> triple_term(p)
               [] OTHER -> var_or_term(p, FALSE, FALSE)
        r == IF Kind(o) = "~" THEN reifier(Bump(o)) ELSE fresh_bnode(o)
    IN ascend(Val(Emit(Expect(r, ">>"), reifies(r.v, a.v, p.v, o.v)), r.v))

\* The chain of a collection is emitted from its last item to its first.
RECURSIVE chain(_, _, _)
chain(s, items, tail) ==
    IF items = <<>> THEN Val(s, tail)
    ELSE LET n == fresh_bnode(s)
             item == items[Len(items)]
         IN chain(Emit(Emit(n, <<n.v, IriT(Rdf("first")), item>>), <<n.v, IriT(Rdf("rest")), tail>>),
                  Front(items), n.v)

RECURSIVE collection(_, _), blank_node_property_list(_, _), property_list(_, _, _, _),
          objects(_, _, _, _), annotations(_, _, _, _), items(_, _, _)
graph_node(s, paths) ==
    CASE Kind(s) = "(" -> collection(s, paths)
      [] Kind(s) = "[" -> blank_node_property_list(s, paths)
      [] Kind(s) = "<<" -> reified_triple(s)
      [] OTHER -> var_or_term(s, TRUE, TRUE)

items(s, acc, paths) ==
    CASE Kind(s) = ")" -> Val(Bump(s), acc)
      [] Kind(s) \in {"eof", "failed"} -> err_here(s)
      [] OTHER -> LET i == graph_node(s, paths) IN items(i, Append(acc, i.v), paths)
collection(s, paths) ==
    LET is == items(Expect(descend(s), "("), <<>>, paths)
    IN IF is.ok THEN ascend(chain(is, is.v, IriT(Rdf("nil")))) ELSE is

blank_node_property_list(s, paths) ==
    LET n == fresh_bnode(Expect(descend(s), "["))
        l == property_list(n, n.v, paths, FALSE)
    IN Val(ascend(Expect(l, "]")), n.v)

\* `~ r` reifies the triple; `{| ... |}` describes the last reifier, or a
\* fresh one.  A triple whose verb is a path cannot be reified.
annotations(s, t, current, paths) ==
    CASE Kind(s) = "~" ->
            LET r == reifier(Require(Bump(s), t[2][1] # "path", s.at))
            IN annotations(Emit(r, reifies(r.v, t[1], t[2], t[3])), t, r.v, paths)
      [] Kind(s) = "{|" ->
            LET open == Bump(s)
                minted == fresh_bnode(Require(open, t[2][1] # "path", s.at))
                r == IF current # None THEN Val(open, current)
                     ELSE Val(Emit(minted, reifies(minted.v, t[1], t[2], t[3])), minted.v)
                block == property_list(r, r.v, paths, FALSE)
            IN annotations(Expect(block, "|}"), t, None, paths)
      [] OTHER -> s

objects(s, subject, verb, paths) ==
    LET o == graph_node(descend(s), paths)
        done == ascend(annotations(Emit(o, <<subject, verb, o.v>>), <<subject, verb, o.v>>,
                                   None, paths))
    IN IF Kind(done) = "," THEN objects(Bump(done), subject, verb, paths) ELSE done

RECURSIVE semicolons(_)
semicolons(s) == IF Kind(s) = ";" THEN semicolons(Bump(s)) ELSE s

property_list(s, subject, paths, optional) ==
    LET verb == CASE Kind(s) = "var" -> var_term(s)
                  [] paths /\ Kind(s) \in IriKinds \cup {"a", "^", "!", "("} -> path_verb(s)
                  [] ~paths /\ Kind(s) \in IriKinds \cup {"a"} -> term_verb(s)
        starts == Kind(s) \in IriKinds \cup {"var", "a"} \/ (paths /\ Kind(s) \in {"^", "!", "("})
        os == objects(verb, subject, verb.v, paths)
    IN IF ~starts THEN (IF optional THEN s ELSE err_here(s))
       ELSE IF Kind(os) = ";" THEN property_list(semicolons(os), subject, paths, TRUE) ELSE os

triples_same_subject(s, paths) ==
    LET n == graph_node(descend(s), paths)
    IN ascend(property_list(n, n.v, paths, Kind(s) \in {"(", "[", "<<"}))

\* Triples up to a brace, a dot between any two (templates and quads).
RECURSIVE template_triples(_)
template_triples(s) ==
    IF Kind(s) = "}" THEN s
    ELSE LET t == triples_same_subject(s, FALSE)
         IN IF Kind(t) = "." THEN template_triples(Bump(t)) ELSE t
NewRun(s) == [s EXCEPT !.out = <<>>]
construct_template(s) ==
    LET t == template_triples(NewRun(next_bgp_scope(Expect(s, "{"))))
    IN Val(Expect(t, "}"), t.out)

-----------------------------------------------------------------------------
(* VALUES blocks.                                                          *)

\* A data triple term is ground and its subject no literal and no triple.
RECURSIVE validate_data_tt(_)
validate_data_tt(t) ==
    t[1] = "triple" =>
        /\ t[2][1][1] \in {"iri", "bnode"}
        /\ t[2][3][1] # "var" /\ validate_data_tt(t[2][3])
        /\ t[2][2][1] # "var"

data_value(s) ==
    CASE Kind(s) = "UNDEF" -> Val(Bump(s), None)
      [] Kind(s) \in IriKinds -> iri_term(s)
      [] Kind(s) \in LiteralKinds -> literal(s)
      [] Kind(s) = "<<(" -> LET t == triple_term(s)
                            IN IF t.ok THEN Require(t, validate_data_tt(t.v), s.at) ELSE t
      [] OTHER -> err_here(s)

RECURSIVE data_values(_, _, _), data_vars(_, _), data_rows(_, _, _)
data_values(s, acc, close) ==
    IF Kind(s) = close THEN Val(Bump(s), acc)
    ELSE LET d == data_value(s) IN IF d.ok THEN data_values(d, Append(acc, d.v), close) ELSE d
data_vars(s, acc) ==
    IF Kind(s) # "var" THEN Val(Expect(s, ")"), acc)
    ELSE IF Contains(acc, Tok(s)[2]) THEN Fail(Bump(s), s.at)
    ELSE data_vars(Bump(s), Append(acc, Tok(s)[2]))
data_rows(s, vars, acc) ==
    CASE Kind(s) = "}" -> Val(Bump(s), acc)
      [] Kind(s) = "nil" -> data_rows(Require(Bump(s), vars = <<>>, s.at + 1), vars, Append(acc, <<>>))
      [] Kind(s) = "(" -> LET r == data_values(Bump(s), <<>>, ")")
                          IN IF ~r.ok THEN r
                             ELSE data_rows(Require(r, Len(r.v) = Len(vars), s.at), vars, Append(acc, r.v))
      [] OTHER -> err_here(s)

data_block(s) ==
    LET one == data_values(Expect(Bump(s), "{"), <<>>, "}")
        vars == IF Kind(s) = "nil" THEN Val(Bump(s), <<>>) ELSE data_vars(Bump(s), <<>>)
        rows == data_rows(Expect(vars, "{"), vars.v, <<>>)
    IN CASE Kind(s) = "var" -> IF ~one.ok THEN one
                               ELSE Val(one, [vars |-> <<Tok(s)[2]>>, given |-> TRUE,
                                              rows |-> [i \in 1..Len(one.v) |-> <<one.v[i]>>]])
         [] Kind(s) \in {"(", "nil"} -> Val(rows, [vars |-> vars.v, rows |-> rows.v, given |-> TRUE])
         [] OTHER -> err_here(s)
opt_values(s) == IF Kind(s) = "VALUES" THEN data_block(Bump(s)) ELSE Val(s, NoValues)

-----------------------------------------------------------------------------
(* In-scope variables.                                                     *)

RECURSIVE term_vars(_), pattern_vars(_)
term_vars(t) ==
    CASE t[1] = "var" -> {t[2]}
      [] t[1] = "triple" -> UNION {term_vars(t[2][i]) : i \in 1..3}
      [] OTHER -> {}
element_vars(x) ==
    CASE x.el = "triples" -> UNION {UNION {term_vars(x.ts[i][j]) : j \in 1..3} : i \in 1..Len(x.ts)}
      [] x.el \in {"filter", "minus"} -> {}
      [] x.el = "optional" -> pattern_vars(x.g)
      [] x.el = "union" -> UNION {pattern_vars(x.gs[i]) : i \in 1..Len(x.gs)}
      [] x.el \in {"graph", "service"} -> term_vars(x.t) \cup pattern_vars(x.g)
      [] x.el = "bind" -> {x.v}
      [] x.el = "values" -> ToSet(x.values.vars)
      [] x.el = "select" -> IF x.q.projection = <<>> THEN pattern_vars(x.q.pattern)
                            ELSE {x.q.projection[i].v : i \in 1..Len(x.q.projection)}
pattern_vars(g) == UNION {element_vars(g[i]) : i \in 1..Len(g)}

NoExpr == [op |-> "none"]

\* validate_select: `*` and GROUP BY exclude each other, a projected
\* variable of a grouped query is a key, an alias is new.
validate_select(sel, pattern, m) ==
    LET grouped == m.group_by # <<>>
        exposed == IF grouped THEN {m.group_by[i].v : i \in 1..Len(m.group_by)} \ {""}
                   ELSE pattern_vars(pattern)
        p == sel.projection
    IN /\ grouped => p # <<>>
       /\ \A i \in 1..Len(p) :
            IF p[i].e = NoExpr THEN grouped => p[i].v \in exposed
            ELSE p[i].v \notin exposed /\ \A j \in 1..i - 1 : p[j].e = NoExpr \/ p[j].v # p[i].v

-----------------------------------------------------------------------------
(* Expressions.                                                            *)

\* builtin_of and builtin_arity: the least and the greatest argument count.
Many == 99
Arities ==
    LET all(names, lo, hi) == [n \in names |-> <<lo, hi>>]
    IN all({"RAND", "NOW", "UUID", "STRUUID"}, 0, 0) @@ all({"BNODE"}, 0, 1)
       @@ all({"CONCAT", "COALESCE"}, 0, Many) @@ all({"IF", "TRIPLE", "STRLANGDIR"}, 3, 3)
       @@ all({"REGEX", "SUBSTR"}, 2, 3) @@ all({"REPLACE"}, 3, 4)
       @@ all({"LANGMATCHES", "CONTAINS", "STRSTARTS", "STRENDS", "STRBEFORE", "STRAFTER",
               "STRLANG", "STRDT", "SAMETERM"}, 2, 2)
       @@ all({"STR", "LANG", "DATATYPE", "BOUND", "IRI", "ABS", "CEIL", "FLOOR", "ROUND", "STRLEN",
               "UCASE", "LCASE", "ENCODE_FOR_URI", "YEAR", "MONTH", "DAY", "HOURS", "MINUTES",
               "SECONDS", "TIMEZONE", "TZ", "MD5", "SHA1", "SHA256", "SHA384", "SHA512", "ISIRI",
               "ISBLANK", "ISLITERAL", "ISNUMERIC", "ISTRIPLE", "SUBJECT", "PREDICATE", "OBJECT",
               "LANGDIR", "HASLANG", "HASLANGDIR"}, 1, 1)
IsBuiltin(k) == k \in DOMAIN Arities
IsAggregate(k) == k \in {"COUNT", "SUM", "MIN", "MAX", "AVG", "SAMPLE", "GROUP_CONCAT"}
Comparators == {"=", "!=", "<", "<=", ">", ">="}

RECURSIVE has_aggregate(_)
has_aggregate(e) ==
    CASE e.op = "agg" -> TRUE
      [] e.op = "bin" -> has_aggregate(e.a) \/ has_aggregate(e.b)
      [] e.op = "un" -> has_aggregate(e.a)
      [] e.op = "in" -> has_aggregate(e.a) \/ \E i \in 1..Len(e.list) : has_aggregate(e.list[i])
      [] e.op \in {"builtin", "function"} -> \E i \in 1..Len(e.args) : has_aggregate(e.args[i])
      [] OTHER -> FALSE

\* A triple term of an expression holds no blank node.
RECURSIVE reject_bnodes_in_tt(_)
reject_bnodes_in_tt(t) ==
    CASE t[1] = "bnode" -> FALSE
      [] t[1] = "triple" -> /\ t[2][1][1] \in {"iri", "var"}
                            /\ reject_bnodes_in_tt(t[2][3])
      [] OTHER -> TRUE

\* The sign of a numeric token, and the literal left once it is an operator.
SignOf(t) == t[2][2]
Magnitude(t) == TypedLit(<<t[2][1], "", t[2][3]>>, Xsd(t[1]))
Signed(s) == Kind(s) \in NumericKinds /\ SignOf(Tok(s)) # ""

RECURSIVE expression(_), unary_expression(_), more_ors(_, _), more_ands(_, _), more_sums(_, _),
          more_factors(_, _), more_expressions(_, _), group_graph_pattern(_), primary_expression(_)
more_factors(s, left) ==
    IF Kind(s) \notin {"*", "/"} THEN Val(s, left)
    ELSE LET u == unary_expression(Bump(s)) IN more_factors(u, Bin("bin", Kind(s), left, u.v))
multiplicative_expression(s) == LET u == unary_expression(s) IN more_factors(u, u.v)

\* `?x+1` lexes as ?x and the literal +1: the sign acts as the operator.
more_sums(s, left) ==
    CASE Kind(s) \in {"+", "-"} ->
            LET r == multiplicative_expression(Bump(s)) IN more_sums(r, Bin("bin", Kind(s), left, r.v))
      [] Signed(s) ->
            LET r == more_factors(Bump(s), TermE(Magnitude(Tok(s))))
            IN more_sums(r, Bin("bin", SignOf(Tok(s)), left, r.v))
      [] OTHER -> Val(s, left)
additive_expression(s) == LET m == multiplicative_expression(s) IN more_sums(m, m.v)

more_expressions(s, acc) ==
    LET e == expression(s)
        all == Append(acc, e.v)
    IN IF Kind(e) = "," THEN more_expressions(Bump(e), all) ELSE Val(Expect(e, ")"), all)
expression_list(s) ==
    IF Kind(s) = "nil" THEN Val(Bump(s), <<>>) ELSE more_expressions(Expect(s, "("), <<>>)

relational_expression(s) ==
    LET l == additive_expression(s)
        r == additive_expression(Bump(l))
        negated == Kind(l) = "NOT" /\ KindAt(l, 1) = "IN"
        list == expression_list(IF negated THEN Bump(Bump(l)) ELSE Bump(l))
    IN CASE Kind(l) \in Comparators -> Val(r, Bin("bin", Kind(l), l.v, r.v))
         [] negated \/ Kind(l) = "IN" -> Val(list, [op |-> "in", a |-> l.v, list |-> list.v, neg |-> negated])
         [] OTHER -> l

more_ands(s, left) ==
    IF Kind(s) # "&&" THEN Val(s, left)
    ELSE LET r == relational_expression(Bump(s)) IN more_ands(r, Bin("bin", "&&", left, r.v))
and_expression(s) == LET r == relational_expression(s) IN more_ands(r, r.v)
more_ors(s, left) ==
    IF Kind(s) # "||" THEN Val(s, left)
    ELSE LET r == and_expression(Bump(s)) IN more_ors(r, Bin("bin", "||", left, r.v))
expression(s) ==
    IF ~s.ok THEN s
    ELSE LET a == and_expression(descend(s)) IN ascend(more_ors(a, a.v))

unary_expression(s) ==
    IF Kind(s) \in {"!", "+", "-"}
    THEN LET e == unary_expression(Bump(s)) IN Val(e, [op |-> "un", f |-> Kind(s), a |-> e.v])
    ELSE primary_expression(s)

\* An IRI, or a call of it: ArgList := NIL | ( DISTINCT? Expr, ... ).
iri_or_function(s) ==
    LET i == iri_term(s)
        distinct == Kind(i) = "(" /\ KindAt(i, 1) = "DISTINCT"
        args == IF distinct THEN more_expressions(Bump(Bump(i)), <<>>) ELSE expression_list(i)
    IN IF Kind(i) \in {"(", "nil"}
       THEN Val(args, [op |-> "function", iri |-> i.v[2], args |-> args.v, distinct |-> distinct])
       ELSE Val(i, TermE(i.v))

builtin_call(s) ==
    LET b == Bump(s)
        arity == Arities[Kind(s)]
        args == CASE arity[1] = 0 /\ Kind(b) = "nil" -> Val(Bump(b), <<>>)
                  [] arity[1] = 0 /\ Kind(b) = "(" /\ KindAt(b, 1) = ")" -> Val(Bump(Bump(b)), <<>>)
                  [] arity[2] = 0 /\ (Kind(b) # "(" \/ KindAt(b, 1) # ")") /\ Kind(b) # "nil" ->
                        Expect(Expect(b, "("), ")")
                  [] OTHER -> more_expressions(Expect(b, "("), <<>>)
    IN IF ~args.ok THEN args
       ELSE Val(Require(args, Len(args.v) \in arity[1]..arity[2], s.at),
                [op |-> "builtin", f |-> Kind(s), args |-> args.v])

aggregate(s) ==
    LET open == Expect(Bump(s), "(")
        d == Take(open, "DISTINCT")
        star == Kind(s) = "COUNT" /\ Kind(d) = "*"
        e == IF star THEN Val(Bump(d), NoExpr) ELSE expression(d)
        body == IF e.ok /\ ~star /\ has_aggregate(e.v) THEN Fail(e, d.at) ELSE e
        eq == Expect(Expect(Bump(body), "SEPARATOR"), "=")
        sep == CASE Kind(s) # "GROUP_CONCAT" \/ Kind(body) # ";" -> Val(body, None)
                 [] Kind(s) = "GROUP_CONCAT" /\ Kind(body) = ";" /\ Kind(eq) = "string" -> Val(Bump(eq), Tok(eq)[2])
                 [] OTHER -> err_here(eq)
    IN Val(Expect(sep, ")"), [op |-> "agg", func |-> Kind(s), a |-> body.v, sep |-> sep.v,
                              distinct |-> Kind(open) = "DISTINCT"])

ExistsE(g, negated) == Val(g, [op |-> "exists", pattern |-> g.v, neg |-> negated])
primary_expression(s) ==
    LET d == descend(s)
        paren == expression(Bump(d))
        tt == triple_term(d)
        e == CASE Kind(d) = "(" -> Val(Expect(paren, ")"), paren.v)
               [] Kind(d) = "var" -> LET x == var_term(d) IN Val(x, TermE(x.v))
               [] Kind(d) \in LiteralKinds -> LET x == literal(d) IN Val(x, TermE(x.v))
               [] Kind(d) \in IriKinds -> iri_or_function(d)
               [] Kind(d) = "<<(" -> IF ~tt.ok THEN tt
                                     ELSE Val(Require(tt, reject_bnodes_in_tt(tt.v), d.at), TermE(tt.v))
               [] Kind(d) = "EXISTS" -> ExistsE(group_graph_pattern(Bump(d)), FALSE)
               [] Kind(d) = "NOT" -> ExistsE(group_graph_pattern(Expect(Bump(d), "EXISTS")), TRUE)
               [] IsAggregate(Kind(d)) -> aggregate(d)
               [] IsBuiltin(Kind(d)) -> builtin_call(d)
               [] OTHER -> err_here(d)
    IN ascend(e)

\* What FILTER, HAVING and ORDER BY take: a bracketed expression or a call.
constraint(s) ==
    CASE Kind(s) = "(" -> LET e == expression(Bump(s)) IN Val(Expect(e, ")"), e.v)
      [] IsBuiltin(Kind(s)) \/ Kind(s) \in {"EXISTS", "NOT"} -> primary_expression(s)
      [] Kind(s) \in IriKinds /\ KindAt(s, 1) \in {"(", "nil"} -> primary_expression(s)
      [] OTHER -> err_here(s)

-----------------------------------------------------------------------------
(* Solution modifiers.                                                     *)

\* ( expression AS variable )
aliased(s) ==
    LET e == expression(Bump(s))
        x == var_name(Expect(e, "AS"))
    IN Val(Expect(x, ")"), [e |-> e.v, v |-> x.v])

RECURSIVE group_conditions(_, _), having_conditions(_, _), order_conditions(_, _), limits(_, _, _)
group_conditions(s, acc) ==
    LET e == expression(Bump(s))
        key == IF Kind(e) = "AS" THEN LET x == var_name(Bump(e)) IN Val(Expect(x, ")"), [e |-> e.v, v |-> x.v])
               ELSE Val(Expect(e, ")"), [e |-> e.v, v |-> ""])
        p == primary_expression(s)
        c == CASE Kind(s) = "var" -> Val(Bump(s), [e |-> NoExpr, v |-> Tok(s)[2]])
               [] Kind(s) = "(" -> key
               [] IsBuiltin(Kind(s)) \/ Kind(s) \in IriKinds -> Val(p, [e |-> p.v, v |-> ""])
    IN IF Kind(s) \in IriKinds \cup {"var", "("} \/ IsBuiltin(Kind(s)) THEN group_conditions(c, Append(acc, c.v))
       ELSE IF acc = <<>> THEN err_here(s) ELSE Val(s, acc)
having_conditions(s, acc) ==
    IF Kind(s) \in IriKinds \cup {"("} \/ IsBuiltin(Kind(s))
    THEN LET c == constraint(s) IN having_conditions(c, Append(acc, c.v))
    ELSE IF acc = <<>> THEN err_here(s) ELSE Val(s, acc)
order_conditions(s, acc) ==
    LET e == expression(Expect(Bump(s), "("))
        c == CASE Kind(s) \in {"ASC", "DESC"} -> Val(Expect(e, ")"), <<e.v, Kind(s) = "DESC">>)
               [] Kind(s) = "var" -> Val(Bump(s), <<TermE(VarT(Tok(s)[2])), FALSE>>)
               [] OTHER -> LET k == constraint(s) IN Val(k, <<k.v, FALSE>>)
    IN IF Kind(s) \in IriKinds \cup {"ASC", "DESC", "var", "("} \/ IsBuiltin(Kind(s))
       THEN order_conditions(c, Append(acc, c.v))
       ELSE IF acc = <<>> THEN err_here(s) ELSE Val(s, acc)

\* LIMIT and OFFSET in either order, once each; an unsigned integer.
integer_value(s) ==
    IF Kind(s) # "integer" THEN err_here(s)
    ELSE Val(Require(Bump(s), SignOf(Tok(s)) # "-", s.at), Tok(s)[2][3])
limits(s, limit, offset) ==
    LET n == integer_value(Bump(s))
    IN CASE Kind(s) = "LIMIT" -> IF limit # -1 THEN err_here(Bump(s)) ELSE limits(n, n.v, offset)
         [] Kind(s) = "OFFSET" -> IF offset # -1 THEN err_here(Bump(s)) ELSE limits(n, limit, n.v)
         [] OTHER -> Val(s, <<limit, offset>>)

solution_modifiers(s) ==
    LET g == IF Kind(s) = "GROUP" THEN group_conditions(Expect(Bump(s), "BY"), <<>>) ELSE Val(s, <<>>)
        h == IF Kind(g) = "HAVING" THEN having_conditions(Bump(g), <<>>) ELSE Val(g, <<>>)
        o == IF Kind(h) = "ORDER" THEN order_conditions(Expect(Bump(h), "BY"), <<>>) ELSE Val(h, <<>>)
        l == limits(o, -1, -1)
    IN IF ~l.ok THEN l
       ELSE Val(l, [group_by |-> g.v, having |-> h.v, order_by |-> o.v, limit |-> l.v[1], offset |-> l.v[2]])

RECURSIVE projections(_, _)
projections(s, acc) ==
    CASE Kind(s) = "var" -> projections(Bump(s), Append(acc, [e |-> NoExpr, v |-> Tok(s)[2]]))
      [] Kind(s) = "(" -> LET p == aliased(s) IN projections(p, Append(acc, p.v))
      [] OTHER -> IF acc = <<>> THEN err_here(s) ELSE Val(s, acc)
select_clause(s) ==
    LET d == Take(Expect(s, "SELECT"), "DISTINCT")
        distinct == d.at = s.at + 2
        r == IF distinct THEN d ELSE Take(d, "REDUCED")
        p == IF Kind(r) = "*" THEN Val(Bump(r), <<>>) ELSE projections(r, <<>>)
    IN Val(p, [distinct |-> distinct, reduced |-> r.at > d.at, projection |-> p.v])

\* A SELECT and its clauses up to the modifiers, for a query or a subquery.
Selected(sel, pattern, m) == [form |-> "SELECT"] @@ sel @@ [pattern |-> pattern] @@ m

-----------------------------------------------------------------------------
(* Group graph patterns.                                                   *)

\* resync_group: past the failure by at least one token, then to the next
\* anchor: after a dot, or before a brace or a clause keyword.
Anchors == {"{", "}", "OPTIONAL", "MINUS", "GRAPH", "SERVICE", "FILTER", "BIND", "VALUES"}
resync_group(toks, at, before) ==
    LET from == IF at = before THEN at + 1 ELSE at
        stops == {i \in from..Len(toks) : toks[i][1] \in Anchors \cup {"."}}
        stop == CHOOSE i \in stops : \A j \in stops : i <= j
    IN CASE stops = {} -> IF from > Len(toks) + 1 THEN from ELSE Len(toks) + 1
         [] stops # {} /\ toks[stop][1] = "." -> stop + 1
         [] OTHER -> stop

\* A mutant: the error is reported where parsing goes on.
RecoveredLate(s, before, resync) ==
    [s EXCEPT !.ok = TRUE, !.errors = Append(@, resync), !.depth = before.depth, !.at = resync]
Recovered(s, before, resync) ==
    [s EXCEPT !.ok = TRUE, !.errors = Append(@, s.error), !.depth = before.depth, !.at = resync]

at_triples_start(s) ==
    Kind(s) \in IriKinds \cup LiteralKinds \cup {"var", "bnode", "anon", "nil", "(", "[", "<<", "<<("}

RECURSIVE triples_block(_), union_branches(_, _), group_graph_pattern_sub(_, _)
triples_block(s) ==
    LET t == triples_same_subject(s, TRUE)
    IN CASE Kind(t) = "." -> IF at_triples_start(Bump(t)) THEN triples_block(Bump(t)) ELSE Bump(t)
         [] OTHER -> IF at_triples_start(t) THEN err_here(t) ELSE t
union_branches(s, acc) ==
    LET g == group_graph_pattern(s)
        all == Append(acc, g.v)
    IN IF Kind(g) = "UNION" THEN union_branches(Bump(g), all) ELSE Val(g, all)

\* One element, its optional trailing dot included.  A FILTER does not end
\* the blank-node scope of the triples before it; anything else does.
group_element(s, elements) ==
    LET braced(x) == Take(x, ".")
        g == group_graph_pattern(Bump(s))
        silent == Take(Bump(s), "SILENT")
        target == var_or_iri(IF Kind(s) = "SERVICE" THEN silent ELSE Bump(s))
        inner == group_graph_pattern(target)
        e == constraint(Bump(s))
        b == expression(Expect(Bump(s), "("))
        x == var_name(Expect(b, "AS"))
        bound == Expect(x, ")")
        vs == data_block(Bump(s))
        us == union_branches(s, <<>>)
        scoped == IF elements # <<>> /\ Last(elements).el = "filter" THEN s ELSE next_bgp_scope(s)
        ts == triples_block(NewRun(scoped))
    IN CASE Kind(s) = "OPTIONAL" -> Val(braced(g), [el |-> "optional", g |-> g.v])
         [] Kind(s) = "MINUS" -> Val(braced(g), [el |-> "minus", g |-> g.v])
         [] Kind(s) = "GRAPH" -> Val(braced(inner), [el |-> "graph", t |-> target.v, g |-> inner.v])
         [] Kind(s) = "SERVICE" -> Val(braced(inner), [el |-> "service", silent |-> silent.at > s.at + 1,
                                                       t |-> target.v, g |-> inner.v])
         [] Kind(s) = "FILTER" -> Val(braced(e), [el |-> "filter", e |-> e.v])
         [] Kind(s) = "BIND" ->
                IF ~bound.ok THEN bound
                ELSE Val(braced(Require(bound, x.v \notin pattern_vars(elements), x.at - 1)),
                         [el |-> "bind", e |-> b.v, v |-> x.v])
         [] Kind(s) = "VALUES" -> Val(braced(vs), [el |-> "values", values |-> vs.v])
         [] Kind(s) = "{" -> Val(braced(us), [el |-> "union", gs |-> us.v])
         [] OTHER -> Val(ts, [el |-> "triples", ts |-> ts.out])

group_graph_pattern_sub(s, elements) ==
    LET e == group_element(s, elements)
    IN CASE Kind(s) \in {"eof", "}", "failed"} -> Val(s, elements)
         [] OTHER ->
                IF e.ok THEN group_graph_pattern_sub(e, Append(elements, e.v))
                ELSE IF ~s.recovering THEN e
                ELSE group_graph_pattern_sub(Recovered(e, s, resync_group(s.toks, e.at, s.at)), elements)

where_clause(s) == group_graph_pattern(Take(s, "WHERE"))

group_graph_pattern(s) ==
    LET open == Expect(descend(s), "{")
        sel == select_clause(open)
        p == where_clause(sel)
        m == solution_modifiers(p)
        valid == IF m.ok THEN Require(m, validate_select(sel.v, p.v, m.v), sel.at) ELSE m
        vs == opt_values(valid)
        sub == Val(vs, <<[el |-> "select", q |-> Selected(sel.v, p.v, m.v) @@ [values |-> vs.v]]>>)
        body == IF Kind(open) = "SELECT" THEN (IF vs.ok THEN sub ELSE vs)
                ELSE group_graph_pattern_sub(open, <<>>)
    IN IF ~s.ok THEN s ELSE ascend(Expect(body, "}"))

-----------------------------------------------------------------------------
(* Queries.                                                                *)

\* BASE, PREFIX and VERSION, each in force from where it stands.
RECURSIVE prologue(_, _)
prologue(s, version) ==
    LET ns == Bump(s)
        named == IF Kind(ns) = "pname" /\ Tok(ns)[3] = <<>> THEN Bump(ns) ELSE err_here(ns)
        at == CASE Kind(s) = "BASE" -> Bump(s) [] OTHER -> named
        i == IF Kind(at) = "iriref" THEN resolve_iri(Bump(at), Tok(at)[2]) ELSE err_here(at)
    IN CASE Kind(s) = "BASE" -> IF i.ok THEN prologue([i EXCEPT !.base = i.v], version) ELSE i
         [] Kind(s) = "PREFIX" ->
                IF i.ok THEN prologue([i EXCEPT !.prefix_order = Append(@, <<Tok(ns)[2], i.v>>)], version) ELSE i
         [] Kind(s) = "VERSION" -> IF Kind(ns) = "string" THEN prologue(Bump(ns), Tok(ns)[2]) ELSE err_here(ns)
         [] OTHER -> Val(s, version)

\* The clauses `keyword [NAMED] iri`, for FROM and for USING.
RECURSIVE dataset_clauses(_, _, _), describe_targets(_, _)
dataset_clauses(s, keyword, acc) ==
    LET named == Kind(Bump(s)) = "NAMED"
        i == iri_string(IF named THEN Bump(Bump(s)) ELSE Bump(s))
    IN IF Kind(s) # keyword THEN Val(s, acc)
       ELSE dataset_clauses(i, keyword, Append(acc, [named |-> named, iri |-> i.v]))
describe_targets(s, acc) ==
    IF Kind(s) \in IriKinds \cup {"var"}
    THEN LET t == var_or_iri(s) IN describe_targets(t, Append(acc, t.v))
    ELSE IF acc = <<>> THEN err_here(s) ELSE Val(s, acc)

NoSelect == [distinct |-> FALSE, reduced |-> FALSE, projection |-> <<>>]
query(s) ==
    LET pro == prologue(s, None)
        form == Kind(pro)
        short == form = "CONSTRUCT" /\ KindAt(pro, 1) # "{"
        star == form = "DESCRIBE" /\ KindAt(pro, 1) = "*"
        head == CASE form = "SELECT" -> select_clause(pro)
                  [] form = "CONSTRUCT" -> IF short THEN Val(Bump(pro), <<>>) ELSE construct_template(Bump(pro))
                  [] form = "DESCRIBE" -> IF star THEN Val(Bump(Bump(pro)), <<>>)
                                          ELSE describe_targets(Bump(pro), <<>>)
                  [] form = "ASK" -> Bump(pro)
                  [] OTHER -> err_here(pro)
        d == dataset_clauses(head, "FROM", <<>>)
        brief == construct_template(Expect(d, "WHERE"))
        p == CASE short -> Val(brief, <<[el |-> "triples", ts |-> brief.v]>>)
               [] form = "DESCRIBE" /\ Kind(d) \notin {"WHERE", "{"} -> Val(d, <<>>)
               [] OTHER -> where_clause(d)
        m == solution_modifiers(p)
        sel == IF form = "SELECT" THEN head.v ELSE NoSelect
        valid == IF m.ok /\ form = "SELECT" THEN Require(m, validate_select(sel, p.v, m.v), d.at) ELSE m
        vs == opt_values(valid)
    IN IF ~vs.ok THEN vs
       ELSE Val(vs, [version |-> pro.v, base |-> pro.base, prefixes |-> pro.prefix_order, dataset |-> d.v,
                     template |-> IF short THEN brief.v ELSE IF form = "CONSTRUCT" THEN head.v ELSE <<>>,
                     targets |-> IF form = "DESCRIBE" THEN head.v ELSE <<>>, star |-> star, values |-> vs.v]
                    @@ [Selected(sel, p.v, m.v) EXCEPT !.form = form])

-----------------------------------------------------------------------------
(* Updates.                                                                *)

NoVars(mode) == mode \in {"Ground", "GroundWithBnodes"}
NoBnodes(mode) == mode \in {"Ground", "NoBnodes"}
\* validate_quads looks at whole terms: it does not enter triple terms.
validate_quads(qs, mode) ==
    \A i \in 1..Len(qs) : \A t \in {qs[i].graph} \cup ToSet(qs[i].triple) :
        (NoVars(mode) => t[1] # "var") /\ (NoBnodes(mode) => t[1] # "bnode")

QuadsOf(g, ts) == [i \in 1..Len(ts) |-> [graph |-> g, triple |-> ts[i]]]
RECURSIVE quads(_, _)
quads(s, acc) ==
    LET g == var_or_iri(Bump(s))
        ts == template_triples(NewRun(Expect(g, "{")))
        t == triples_same_subject(NewRun(s), FALSE)
    IN CASE Kind(s) = "}" -> Val(Bump(s), acc)
         [] Kind(s) = "GRAPH" -> LET c == Take(Expect(ts, "}"), ".")
                                 IN IF c.ok THEN quads(c, acc \o QuadsOf(g.v, ts.out)) ELSE c
         [] Kind(s) \in {"eof", "failed"} -> err_here(s)
         [] OTHER -> IF t.ok THEN quads(Take(t, "."), acc \o QuadsOf(None, t.out)) ELSE t

\* quad_data: labels are scoped to the template, so the tracker is shelved;
\* between INSERT DATA operations a label may not come back (the first one
\* that does stops the loop over them, whichever comes first).
quad_data(s, mode) ==
    LET open == Expect(s, "{")
        qs == quads(next_bgp_scope([open EXCEPT !.bnode_epochs = <<>>]), <<>>)
        labels == DOMAIN qs.bnode_epochs
        is_data == mode = "GroundWithBnodes"
        reused == is_data /\ \E l \in labels \cap DOMAIN qs.template_labels :
                                qs.template_labels[l] # qs.update_op
        closed == [qs EXCEPT !.bnode_epochs = open.bnode_epochs,
                             !.template_labels = IF ~is_data \/ reused THEN @
                                                 ELSE [l \in labels |-> qs.update_op] @@ @]
    IN IF ~open.ok THEN open
       ELSE IF ~qs.ok THEN qs
       ELSE Require(closed, ~reused /\ validate_quads(qs.v, mode), s.at)

modify(s, with, delete_first) ==
    LET del == IF delete_first THEN quad_data(s, "NoBnodes") ELSE Val(s, <<>>)
        both == Kind(del) = "INSERT"
        ins == CASE ~delete_first -> quad_data(s, "Vars")
                 [] delete_first /\ both -> quad_data(Bump(del), "Vars")
                 [] OTHER -> Val(del, <<>>)
        using == dataset_clauses(ins, "USING", <<>>)
        p == group_graph_pattern(Expect(using, "WHERE"))
    IN Val(p, [op |-> "modify", with |-> with, deletes |-> delete_first, delete |-> del.v,
               inserts |-> ~delete_first \/ both, insert |-> ins.v, using |-> using.v, pattern |-> p.v])

graph_ref_all(s) ==
    CASE Kind(s) = "GRAPH" -> LET i == iri_string(Bump(s)) IN Val(i, <<"graph", i.v>>)
      [] Kind(s) \in {"DEFAULT", "NAMED", "ALL"} -> Val(Bump(s), <<Kind(s)>>)
      [] OTHER -> err_here(s)
graph_or_default(s) ==
    IF Kind(s) = "DEFAULT" THEN Val(Bump(s), <<"DEFAULT">>)
    ELSE LET i == iri_string(Take(s, "GRAPH")) IN Val(i, <<"graph", i.v>>)

\* One operation after its prologue.
update_operation(s) ==
    LET n == Bump(s)
        silent == Kind(n) = "SILENT"
        a == Take(n, "SILENT")
        data(op, mode) == LET q == quad_data(Bump(n), mode) IN Val(q, [op |-> op, quads |-> q.v])
        with == iri_string(n)
        source == iri_string(a)
        into == IF Kind(source) = "INTO" THEN iri_string(Expect(Bump(source), "GRAPH")) ELSE Val(source, None)
        target == graph_ref_all(a)
        created == iri_string(Expect(a, "GRAPH"))
        from == graph_or_default(a)
        to == graph_or_default(Expect(from, "TO"))
    IN CASE Kind(s) = "INSERT" ->
                IF Kind(n) = "DATA" THEN data("insertdata", "GroundWithBnodes") ELSE modify(n, None, FALSE)
         [] Kind(s) = "DELETE" ->
                IF Kind(n) = "DATA" THEN data("deletedata", "Ground")
                ELSE IF Kind(n) = "WHERE" THEN data("deletewhere", "NoBnodes") ELSE modify(n, None, TRUE)
         [] Kind(s) = "WITH" ->
                IF Kind(with) \in {"INSERT", "DELETE"}
                THEN modify(Bump(with), with.v, Kind(with) = "DELETE") ELSE err_here(with)
         [] Kind(s) = "LOAD" -> Val(into, [op |-> "load", silent |-> silent, source |-> source.v, into |-> into.v])
         [] Kind(s) \in {"CLEAR", "DROP"} -> Val(target, [op |-> Kind(s), silent |-> silent, target |-> target.v])
         [] Kind(s) = "CREATE" -> Val(created, [op |-> "CREATE", silent |-> silent, target |-> created.v])
         [] Kind(s) \in {"ADD", "MOVE", "COPY"} ->
                Val(to, [op |-> Kind(s), silent |-> silent, from |-> from.v, to |-> to.v])
         [] OTHER -> err_here(s)

\* resync_update: past the next semicolon outside braces.
RECURSIVE skip_operation(_, _, _)
skip_operation(toks, at, depth) ==
    IF at > Len(toks) THEN at
    ELSE CASE toks[at][1] = "{" -> skip_operation(toks, at + 1, depth + 1)
           [] toks[at][1] = "}" -> skip_operation(toks, at + 1, IF depth > 0 THEN depth - 1 ELSE 0)
           [] toks[at][1] = ";" /\ depth = 0 -> at + 1
           [] OTHER -> skip_operation(toks, at + 1, depth)
resync_update(toks, at, before) == skip_operation(toks, IF at = before THEN at + 1 ELSE at, 0)

Request(s, version, ops) == Val(s, [version |-> version, prefixes |-> s.prefix_order, operations |-> ops])
RECURSIVE update(_, _, _)
update(s, version, ops) ==
    LET pro == prologue(s, None)
        seen == IF pro.ok /\ pro.v # None THEN pro.v ELSE version
        op == update_operation(pro)
        done == [op EXCEPT !.update_op = @ + 1]
        again == Recovered(op, s, resync_update(s.toks, op.at, s.at))
    IN CASE Kind(pro) = "eof" -> Request(pro, seen, ops)
         [] Kind(pro) # "eof" /\ op.ok ->
                IF Kind(done) = ";" THEN update(Bump(done), seen, Append(ops, op.v))
                ELSE Request(done, seen, Append(ops, op.v))
         [] Kind(pro) # "eof" /\ ~op.ok /\ ~s.recovering -> op
         [] OTHER -> IF Kind(again) = "eof" THEN Request(again, seen, ops) ELSE update(again, seen, ops)

-----------------------------------------------------------------------------
(* Entry points: whether there is a tree, the tree, the error positions.   *)

Result(s) ==
    LET errors == IF ~s.ok THEN Append(s.errors, s.error)
                  ELSE IF Kind(s) # "eof" THEN Append(s.errors, s.at) ELSE s.errors
    IN [ok |-> s.ok /\ (s.recovering \/ Kind(s) = "eof"), tree |-> s.v, errors |-> errors]
parse_query(toks) == Result(query(Parser(toks, FALSE)))
parse_query_recovering(toks) == Result(query(Parser(toks, TRUE)))
parse_update(toks) == Result(update(Parser(toks, FALSE), None, <<>>))
parse_update_recovering(toks) == Result(update(Parser(toks, TRUE), None, <<>>))
=============================================================================
