--------------------------- MODULE MCSparqlServer ---------------------------
(***************************************************************************)
(* Three instances, one chosen at the start of a behaviour: the endpoint   *)
(* with two clients, the engine answering one query, and one parallel      *)
(* bind-join.                                                              *)
(***************************************************************************)
EXTENDS SparqlServer
CONSTANTS c1, c2, None
NoTriples(s) == {}
U == INSTANCE SparqlUpdate WITH Loaded <- NoTriples, IntMax <- 9, DecMax <- 99, DivScale <- 1, BatchCap <- 2

a == U!Iri(1)
p == U!Iri(5)
g == U!Iri(11)
h == U!Iri(12)
D0 == U!DefaultGraph
x == U!Var(1)
y == U!Var(2)
Num(n) == U!IntV(n)
MCGraphOf(q) == q[4]
MCFirst == {<<a, p, Num(0), D0>>, <<a, p, Num(1), g>>}
MCPlanOf(store, o, n) == LET planned == U!execute_op(store, o, n) IN planned
MCAnswerOf(store, q) ==
    LET D == U!dataset_view(store, <<>>)
        rows == U!evaluate_rows(D, q.root, D0)
    IN {<<r, Cardinality({i \in 1..Len(rows) : rows[i] = r})>> : r \in {rows[i] : i \in 1..Len(rows)}}

Triples(t) == U!Bgp(<<t>>)
InGraphs(t) == [op |-> "graph", g |-> y, l |-> Triples(t)]
In(gr, t) == [op |-> "graph", g |-> gr, l |-> Triples(t)]
V(n) == [op |-> "var", v |-> n]
Query(id, root, names) == [kind |-> "query", id |-> id, root |-> root, names |-> names]
Update(ops) == [kind |-> "update", ops |-> ops]
Transfer(kind, from, to) == [kind |-> kind, silent |-> FALSE, from |-> from, to |-> to]
Data(kind, q) == [kind |-> kind, quads |-> <<q>>]
Gsp(method, graph, body) ==
    [kind |-> "gsp", method |-> method, graph |-> graph, whole |-> graph = U!Err, body |-> body]

\* n := n + 1 in the default graph.
Increment ==
    [kind |-> "modify", with |-> U!NoGraph, using |-> <<>>,
     delete |-> <<<<x, p, y, U!NoGraph>>>>, insert |-> <<<<x, p, U!Var(3), U!NoGraph>>>>,
     pattern |-> [op |-> "extend", l |-> Triples(<<x, p, y>>), v |-> 3,
                  e |-> [op |-> "arith", f |-> "add", a |-> V(2), b |-> [op |-> "term", t |-> Num(1)]]]]

Reads == {Query(1, InGraphs(<<x, p, U!Var(3)>>), {}), Query(2, In(h, <<x, p, y>>), {h})}
Writes == {Update(<<Increment>>),
           Update(<<Data("insertdata", <<a, p, U!Blank(1), h>>), Transfer("move", h, g)>>),
           Update(<<Transfer("copy", g, h), Transfer("copy", g, h),
                    [kind |-> "clear", silent |-> FALSE, target |-> "graph", to |-> g]>>),
           Gsp("put", g, {<<a, p, Num(2), g>>}), Gsp("delete", h, {}), Gsp("post", U!Err, {<<a, p, Num(3), h>>})}
\* One client writes, the other reads and replaces a graph.
MCRequest == [c \in Client |-> IF c = c1 THEN Writes ELSE Reads \cup {Gsp("put", g, {<<a, p, Num(2), g>>})}]

\* The queries tell datasets apart, not dictionaries: SparqlServer_proofs takes
\* this of every dataset.
SomeQuads == MCFirst \cup {<<a, p, Num(2), g>>, <<a, p, Num(3), h>>, <<a, p, U!Blank(1), h>>}
SomeDicts == UNION {Orders(S) : S \in SUBSET {g, h}}
ASSUME AnswersAssumption ==
    \A r \in Reads, qs \in SUBSET SomeQuads, s, t \in SomeDicts :
        GraphsIn(qs) \subseteq Names(s) /\ GraphsIn(qs) \subseteq Names(t)
        => AnswerOf([quads |-> qs, graphs |-> s], r) = AnswerOf([quads |-> qs, graphs |-> t], r)

-----------------------------------------------------------------------------
(* The query engine.                                                       *)

VARIABLES instance, form, group_of, posed
VARIABLES join, budget, stopped, collected, next_morsel, workers, results, failure, outcome, out

b == U!Iri(2)
q == U!Iri(6)
z == U!Var(3)
T(t) == [op |-> "term", t |-> t]
Cmp(f, l, r) == [op |-> "cmp", f |-> f, a |-> l, b |-> r]
Ts(ts) == [el |-> "triples", ts |-> ts]
Filter(e) == [el |-> "filter", e |-> e]
Node(n) == <<"bnode", n>>
Plain(v) == [v |-> v, e |-> U!NoExpr]
Agg(func, distinct, e) == [op |-> "agg", func |-> func, distinct |-> distinct, a |-> e]
Select == [form |-> "select", dataset |-> <<>>, pattern |-> <<>>, projection |-> <<>>, star |-> FALSE,
           group_by |-> <<>>, having |-> <<>>, order_by |-> <<>>, values |-> U!NoValues, distinct |-> FALSE,
           reduced |-> FALSE, limit |-> -1, offset |-> -1, template |-> <<>>, targets |-> <<>>]
ByX == <<[v |-> 1, e |-> U!NoExpr]>>

\* SELECT *; DISTINCT with a slice; grouping with HAVING; ASK; CONSTRUCT over
\* a dataset built by FROM.
MCForms ==
    [star |-> Select,
     distinct |-> [Select EXCEPT !.distinct = TRUE, !.projection = <<Plain(1), Plain(2)>>,
                                 !.order_by = <<<<V(2), TRUE>>>>, !.limit = 2, !.offset = 1],
     grouped |-> [Select EXCEPT !.projection = <<Plain(1), [v |-> 9, e |-> Agg("sum", TRUE, V(2))]>>, !.group_by = ByX,
                                !.having = <<Cmp(">", Agg("count", FALSE, U!NoExpr), T(Num(0)))>>],
     ask |-> [Select EXCEPT !.form = "ask"],
     construct |-> [Select EXCEPT !.form = "construct", !.template = <<<<x, q, Node(7)>>, <<x, p, y>>>>,
                                  !.dataset = <<<<TRUE, g>>, <<TRUE, h>>, <<FALSE, h>>>>]]
MCElements ==
    [basic |-> Ts(<<<<x, p, y>>>>),
     chain |-> Ts(<<<<y, q, Node(1)>>, <<Node(1), q, z>>>>),
     optional |-> [el |-> "optional", g |-> <<Ts(<<<<x, q, z>>>>), Filter(Cmp("<", V(2), V(3)))>>],
     minus |-> [el |-> "minus", g |-> <<Ts(<<<<x, p, Num(1)>>>>)>>],
     union |-> [el |-> "union", gs |-> <<<<Ts(<<<<x, p, y>>>>)>>,
                                         <<Ts(<<<<x, q, y>>>>), Filter(Cmp("=", V(2), T(Num(1))))>>>>],
     graph |-> [el |-> "graph", t |-> U!Var(4),
                g |-> <<Ts(<<<<x, p, y>>>>), Filter([op |-> "exists", neg |-> TRUE, pattern |-> <<Ts(<<<<x, q, y>>>>)>>])>>],
     bind |-> [el |-> "bind", v |-> 8, e |-> [op |-> "arith", f |-> "add", a |-> V(2), b |-> T(Num(1))]],
     values |-> [el |-> "values", vars |-> <<1, 2>>, rows |-> <<<<a, U!Err>>, <<b, U!Dec(10, 1)>>>>],
     path |-> Ts(<<<<x, <<"path", <<"star", <<"alt", <<"link", q>>, <<"inv", <<"link", q>>>>>>>>>>, z>>>>),
     subselect |-> [el |-> "select", q |-> [Select EXCEPT !.pattern = <<Ts(<<<<x, p, y>>>>)>>, !.group_by = ByX,
                       !.projection = <<Plain(1), [v |-> 3, e |-> Agg("count", FALSE, U!NoExpr)]>>]],
     filter |-> Filter([op |-> "and", a |-> Cmp(">", V(2), T(Num(0))),
                        b |-> [op |-> "or", a |-> Cmp("!=", V(3), T(Num(2))),
                                            b |-> [op |-> "not", a |-> [op |-> "bound", a |-> V(3)]]]]),
     exists |-> Filter([op |-> "exists", neg |-> FALSE, pattern |-> <<Ts(<<<<x, q, z>>>>), Filter(Cmp("=", V(2), V(3)))>>])]

\* Values equal under two spellings, a literal subject, graphs that share
\* quads with the default graph.
MCStores == {[quads |-> {<<a, p, Num(1), D0>>, <<a, q, b, D0>>, <<b, p, U!Dec(10, 1), D0>>, <<b, q, Num(2), D0>>,
                         <<b, q, Num(1), D0>>, <<Num(1), q, U!Iri(3), D0>>, <<a, p, Num(2), g>>,
                         <<a, p, Num(1), h>>, <<a, q, U!Dec(10, 1), h>>},
              graphs |-> <<h, g>>]}
Q == INSTANCE QueryEngine WITH IntMax <- 99, DecMax <- 999, DivScale <- 2, BatchCap <- 2, MaxElements <- 2,
                               Forms <- MCForms, Elements <- MCElements, Stores <- MCStores
evars == <<form, group_of, posed>>
QueryIdle == Q!QueryInit /\ form = "star"

-----------------------------------------------------------------------------
(* The worker pool: no pattern, one, or two that multiply or drop rows.    *)

Multiply == [r \in 0..3 |-> IF r = 1 THEN <<2, 3>> ELSE IF r = 0 THEN <<>> ELSE <<r>>]
Drop == [r \in 0..3 |-> IF r = 2 THEN <<>> ELSE <<r, 0>>]
MCJoins == [morsels : {<<>>, <<<<1>>>>, <<<<0, 1>>, <<2>>>>, <<<<1, 2>>, <<0>>, <<3>>>>},
            pats : {<<>>, <<Multiply>>, <<Multiply, Drop>>}, threads : 1..2, budget : {-1, 7, 12}]
P == INSTANCE MorselPool WITH Joins <- MCJoins, NoRows <- None
mvars == <<join, budget, stopped, collected, next_morsel, workers, results, failure, outcome, out>>
PoolIdle == P!PoolInit /\ join = [morsels |-> <<>>, pats |-> <<>>, threads |-> 1, budget |-> -1]

-----------------------------------------------------------------------------
ServerIdle == Init /\ ~ephemeral

MCInit ==
    \/ instance = "server" /\ Init /\ QueryIdle /\ PoolIdle
    \/ instance = "engine" /\ Q!QueryInit /\ ServerIdle /\ PoolIdle
    \/ instance = "pool" /\ P!PoolInit /\ ServerIdle /\ QueryIdle
MCNext ==
    /\ UNCHANGED instance
    /\ \/ instance = "server" /\ Next /\ UNCHANGED <<evars, mvars>>
       \/ instance = "engine" /\ Q!QueryNext /\ UNCHANGED <<vars, mvars>>
       \/ instance = "pool" /\ P!PoolNext /\ UNCHANGED <<vars, evars>>
MCSpec == MCInit /\ [][MCNext]_<<instance, vars, evars, mvars>>

\* The vectorized executor answers every query as the reference evaluator
\* does (run_vectorized against evaluate_ref, "the oracle").
EnginesAgree == Q!EnginesAgree

\* rewrite changes no answer (rewrite.rs: "only semantics-preserving").
RewritePreserves == Q!RewritePreserves

\* The parallel bind-join hands out the sequential result or an error, and
\* an error of its own only over the budget (scheduler.rs run).
PoolComplete == P!PoolComplete
=============================================================================
