---------------------------- MODULE SparqlUpdate ----------------------------
(***************************************************************************)
(* Update execution (graphy-engine/src/update.rs).  Each operation reads a *)
(* snapshot, computes the quads to delete and to add, and commits them in  *)
(* one apply; this module computes that plan of an operation, SparqlServer *)
(* interleaves the steps.  Bytes shared between rows, memo tables and the  *)
(* blank-free fast path of INSERT DATA change no plan and are left out.    *)
(***************************************************************************)
EXTENDS SparqlTranslate, SparqlExec

CONSTANT Loaded(_)    \* the triples of a document, Err when it cannot be had

NoPlan == [ok |-> FALSE, dels |-> {}, adds |-> {}]
Plan(dels, adds) == [ok |-> TRUE, dels |-> dels, adds |-> adds]

\* Where a quad without GRAPH goes.
Target(g) == IF g = NoGraph THEN DefaultGraph ELSE g

\* fresh_label: labels no earlier operation minted; an operation's labels
\* carry the ordinal it was given.
Minted(x, n, op) == <<"blank", 64 * x + n, "fresh", op>>

\* freshen: blank nodes, nested ones too, renamed one to one.
RECURSIVE freshen(_, _)
freshen(t, op) ==
    CASE t[1] = "blank" -> Minted(t[2], 0, op)
      [] t[1] = "tri" -> Triple(freshen(t[2], op), t[3], freshen(t[4], op))
      [] OTHER -> t
FreshQuad(q, op) == <<freshen(q[1], op), q[2], freshen(q[3], op), Target(q[4])>>

\* graph_col: a graph exists when the dictionary holds its name.
HasGraph(store, g) == g = DefaultGraph \/ g \in ToSet(store.graphs)
graph_quads(quads, g) == {q \in quads : q[4] = g}

\* inst: a template component under a row; a hidden variable is a blank
\* node fresh for the row, whatever the pattern bound it to.
RECURSIVE inst(_, _, _, _)
inst(p, row, n, op) ==
    CASE IsVar(p) /\ Hidden(p[2]) -> Minted(p[2], n, op)
      [] IsVar(p) /\ ~Hidden(p[2]) -> IF p[2] \in DOMAIN row THEN row[p[2]] ELSE Err
      [] p[1] = "tri" -> TripleOf(inst(p[2], row, n, op), inst(p[3], row, n, op), inst(p[4], row, n, op))
      [] OTHER -> p

\* instantiate: the quads of every row, the invalid ones skipped.
instantiate(quads, rows, with, op) ==
    LET quad(q, i) == <<inst(q[1], rows[i], i, op), inst(q[2], rows[i], i, op), inst(q[3], rows[i], i, op),
                        IF q[4] = NoGraph THEN with ELSE inst(q[4], rows[i], i, op)>>
        valid(q) == /\ Err \notin {q[1], q[2], q[3], q[4]}
                    /\ q[1][1] \in {"iri", "blank"} /\ q[2][1] = "iri" /\ q[4][1] \in {"iri", "blank"}
    IN {q \in {quad(quads[j], i) : i \in 1..Len(rows), j \in 1..Len(quads)} : valid(q)}

\* quads_algebra: consecutive quads of one graph form one pattern.
quads_algebra(quads) ==
    LET node(q) == IF q[4] = NoGraph THEN Bgp(<<<<q[1], q[2], q[3]>>>>)
                   ELSE [op |-> "graph", g |-> q[4], l |-> Bgp(<<<<q[1], q[2], q[3]>>>>)]
        widen(a, q) == IF q[4] = NoGraph THEN [a EXCEPT !.pats = Append(@, <<q[1], q[2], q[3]>>)]
                       ELSE [a EXCEPT !.l.pats = Append(@, <<q[1], q[2], q[3]>>)]
        step(st, i) ==
            CASE i = 1 -> [root |-> <<>>, run |-> node(quads[1])]
              [] i > 1 /\ quads[i][4] = quads[i - 1][4] -> [st EXCEPT !.run = widen(@, quads[i])]
              [] OTHER -> [root |-> Append(st.root, st.run), run |-> node(quads[i])]
        last == FoldLeft(step, [root |-> <<>>, run |-> Unit], [i \in 1..Len(quads) |-> i])
        nodes == Append(last.root, last.run)
    IN FoldLeft(LAMBDA l, r : [op |-> "join", l |-> l, r |-> r], nodes[1], Tail(nodes))

\* The rows of a WHERE clause: planned, then pulled through the operators.
evaluate_rows(D, root, scope) == Rows(build_node(D, plan(D, root, scope), scope))

\* USING builds the dataset and overrides WITH; a missing WITH graph is an
\* empty default graph.
NoWith == NoGraph
ModifyRows(store, op) ==
    evaluate_rows(dataset_view(store, op.using), rewrite(op.pattern),
                  IF op.using = <<>> THEN Target(op.with) ELSE DefaultGraph)

\* A missing graph fails the operation unless it is SILENT.
Missing(o) == IF o.silent THEN Plan({}, {}) ELSE NoPlan

\* CLEAR and DROP.
ClearPlan(store, o) ==
    IF o.target = "all" THEN Plan(store.quads, {})
    ELSE IF o.target = "named" THEN Plan({q \in store.quads : q[4] # DefaultGraph}, {})
    ELSE IF HasGraph(store, Target(o.to)) THEN Plan(graph_quads(store.quads, Target(o.to)), {})
    ELSE Missing(o)

\* ADD, MOVE and COPY; from a graph to itself nothing happens.
TransferPlan(store, o) ==
    LET from == graph_quads(store.quads, Target(o.from))
        to == graph_quads(store.quads, Target(o.to))
    IN IF o.from = o.to THEN Plan({}, {})
       ELSE IF ~HasGraph(store, Target(o.from)) THEN Missing(o)
       ELSE Plan((IF o.kind = "add" THEN {} ELSE to) \cup (IF o.kind = "move" THEN from ELSE {}),
                 {<<q[1], q[2], q[3], Target(o.to)>> : q \in from})

\* execute_op: the deletes and adds of one operation over a snapshot, or no
\* plan when it fails; CREATE commits nothing.
execute_op(store, o, op) ==
    CASE o.kind = "insertdata" -> Plan({}, {FreshQuad(q, op) : q \in ToSet(o.quads)})
      [] o.kind = "deletedata" -> Plan({<<q[1], q[2], q[3], Target(q[4])>> : q \in ToSet(o.quads)}, {})
      [] o.kind = "deletewhere" ->
           Plan(instantiate(o.quads, evaluate_rows(dataset_view(store, <<>>), quads_algebra(o.quads),
                                                   DefaultGraph), DefaultGraph, op), {})
      [] o.kind = "modify" ->
           LET both(rows) == Plan(instantiate(o.delete, rows, Target(o.with), op),
                                  instantiate(o.insert, rows, Target(o.with), op))
           IN both(ModifyRows(store, o))
      [] o.kind = "load" ->
           IF Loaded(o.source) = Err THEN Missing(o)
           ELSE Plan({}, {FreshQuad(<<t[1], t[2], t[3], o.to>>, op) : t \in Loaded(o.source)})
      [] o.kind \in {"clear", "drop"} -> ClearPlan(store, o)
      [] o.kind = "create" -> Plan({}, {})
      [] o.kind \in {"add", "move", "copy"} -> TransferPlan(store, o)
=============================================================================
