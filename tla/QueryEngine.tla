----------------------------- MODULE QueryEngine -----------------------------
(***************************************************************************)
(* A query as the engine answers it: its group written element by element, *)
(* translated to the algebra, then evaluated over every dataset of Stores  *)
(* by the reference evaluator and by the vectorized executor, as parsed    *)
(* and as rewritten.                                                       *)
(***************************************************************************)
EXTENDS SparqlTranslate, SparqlExec

CONSTANTS
    Forms,        \* name -> the clauses of a query around its group
    Elements,     \* name -> an element of a group
    Stores,       \* datasets [quads, graphs]
    MaxElements   \* bound: elements in the group

VARIABLES form, group_of, posed
qvars == <<form, group_of, posed>>

QueryInit == form \in DOMAIN Forms /\ group_of = <<>> /\ posed = FALSE

AddElement(e) ==
    /\ ~posed /\ Len(group_of) < MaxElements
    /\ group_of' = Append(group_of, e) /\ UNCHANGED <<form, posed>>
Pose == ~posed /\ group_of # <<>> /\ posed' = TRUE /\ UNCHANGED <<form, group_of>>
QueryNext == (\E e \in DOMAIN Elements : AddElement(e)) \/ Pose

Query == [Forms[form] EXCEPT !.pattern = MapSeq(LAMBDA e : Elements[e], group_of)]

-----------------------------------------------------------------------------
(* Properties.                                                             *)

Bag(rows) == [r \in ToSet(rows) |-> Cardinality({i \in DOMAIN rows : rows[i] = r})]

\* What of an answer does not depend on the order rows arrive in: the bag of
\* rows; under ORDER BY the sequence of the keys of plain variables; under a
\* bare LIMIT only how many rows there are.
Answer(q, out) ==
    IF q.form # "select" THEN out
    ELSE LET vs == {q.order_by[i][1].v : i \in {j \in DOMAIN q.order_by : q.order_by[j][1].op = "var"}}
         IN [keys |-> MapSeq(LAMBDA r : Restrict2(r, vs), out.rows),
             bag |-> IF q.limit = -1 THEN Bag(out.rows) ELSE <<>>]

RECURSIVE SubNodes(_)
SubNodes(a) ==
    {a} \cup (IF a.op \in UnaryOps \cup BinaryOps THEN SubNodes(a.l) ELSE {})
        \cup (IF a.op \in BinaryOps THEN SubNodes(a.r) ELSE {})

\* A zero-length path ending in a constant: the executor binds the other end
\* first and asks whether that variable names a node, the reference joins
\* afterwards and lets the constant match itself.
ZeroPathToConstant(root) ==
    \E a \in SubNodes(root) : a.op = "path" /\ path_nullable(a.path) /\ ~(IsVar(a.s) /\ IsVar(a.o))

Agree(t, q) ==
    ~ZeroPathToConstant(t.root)
    => \A store \in Stores : Answer(q, run_vectorized(store, t)) = Answer(q, evaluate_ref(store, t))

\* The variables a node binds in every solution.
RECURSIVE Bound(_)
Bound(a) ==
    CASE a.op \in {"join"} -> Bound(a.l) \cup Bound(a.r)
      [] a.op = "union" -> Bound(a.l) \cap Bound(a.r)
      [] a.op \in {"bgp", "path"} -> visible_vars(a)
      [] a.op = "graph" -> PVars(a.g) \cup Bound(a.l)
      [] a.op = "table" -> {v \in ToSet(a.vars) : \A i \in DOMAIN a.rows :
                              \A j \in DOMAIN a.vars : a.vars[j] = v => a.rows[i][j] # Err}
      [] a.op = "project" -> Bound(a.l) \cap ToSet(a.vars)
      [] a.op = "group" -> {}
      [] OTHER -> Bound(a.l)

\* Every variable of a filter below which a join or an OPTIONAL could hide an
\* unbound one: the pushdown goes by visible variables, which is sound only
\* where the side that shows them also binds them.
FiltersFirm(root) ==
    \A f \in SubNodes(root) : f.op = "filter" =>
        \A j \in SubNodes(f.l) : j.op \in {"join", "leftjoin"} =>
            /\ ExprVars(f.e) \cap visible_vars(j.l) \subseteq Bound(j.l)
            /\ j.op = "join" => ExprVars(f.e) \cap visible_vars(j.r) \subseteq Bound(j.r)

Preserved(t, q) ==
    FiltersFirm(t.root)
    => \A store \in Stores :
          Answer(q, evaluate_ref(store, [t EXCEPT !.root = rewrite(@)])) = Answer(q, evaluate_ref(store, t))

\* "The reference evaluator is the oracle": planning, batching, hash joins,
\* pattern reordering and early exits change no answer.
EnginesAgree == [][posed' => Agree(translate_query(Query'), Query')]_qvars

\* "Only semantics-preserving": folding, pruning of empty parts, filter
\* pushdown and reordering change no answer, where each filter variable is
\* bound by every operand that mentions it.
RewritePreserves == [][posed' => Preserved(translate_query(Query'), Query')]_qvars
=============================================================================
