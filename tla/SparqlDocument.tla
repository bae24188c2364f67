--------------------------- MODULE SparqlDocument ---------------------------
(***************************************************************************)
(* A SPARQL document as the tools use it: written piece by piece, then     *)
(* parsed strictly, parsed again by the recovering parser that feeds the   *)
(* editor, and printed back in canonical form.                             *)
(***************************************************************************)
EXTENDS SparqlPrint

CONSTANTS
    Heads,      \* name -> [update, tokens]: how a document starts
    Pieces,     \* name -> tokens: what may follow
    MaxPieces   \* bound: pieces in a document

VARIABLES head, written, closed
dvars == <<head, written, closed>>

SparqlInit == head \in DOMAIN Heads /\ written = <<>> /\ closed = FALSE

Write(piece) ==
    /\ ~closed /\ Len(written) < MaxPieces
    /\ written' = Append(written, piece) /\ UNCHANGED <<head, closed>>

\* The document is complete, its last group closed or left open.
Close(tail) ==
    /\ ~closed /\ closed' = TRUE
    /\ written' = written \o tail /\ UNCHANGED head

SparqlNext == (\E piece \in DOMAIN Pieces : Write(piece)) \/ Close(<<>>) \/ Close(<<"end">>)

End == <<<<"}">>>>
Document ==
    [update |-> Heads[head].update,
     toks |-> Heads[head].tokens \o FlattenSeq([i \in DOMAIN written |-> IF written[i] = "end" THEN End ELSE Pieces[written[i]]])]
Read(doc) == IF doc.update THEN parse_update(doc.toks) ELSE parse_query(doc.toks)
Reread(doc) == IF doc.update THEN parse_update_recovering(doc.toks) ELSE parse_query_recovering(doc.toks)
Printed(doc, tree) == [doc EXCEPT !.toks = IF doc.update THEN print_update(tree) ELSE print_query(tree)]
Labels(doc, tree) == ToSet(IF doc.update THEN count_update(tree) ELSE count_query(tree))

-----------------------------------------------------------------------------
(* Trees compared as what they denote: blank labels renamed by f, the      *)
(* triples of a run in any order.                                          *)

RECURSIVE SameExpr(_, _), SameGroup(_, _), SameTerm(_, _)
SameTerm(f, t) ==
    CASE t[1] = "bnode" -> <<"bnode", f[t[2]]>>
      [] t[1] = "triple" -> <<"triple", SameTerm(f, t[2][1]), t[2][2], SameTerm(f, t[2][3])>>
      [] OTHER -> t
Run(f, ts) == <<Len(ts), {<<SameTerm(f, ts[i][1]), ts[i][2], SameTerm(f, ts[i][3])>> : i \in DOMAIN ts}>>
SameExpr(f, x) ==
    CASE x.op = "bin" -> [x EXCEPT !.a = SameExpr(f, @), !.b = SameExpr(f, @)]
      [] x.op \in {"un", "agg"} -> [x EXCEPT !.a = SameExpr(f, @)]
      [] x.op = "in" -> [x EXCEPT !.a = SameExpr(f, @), !.list = MapTo(LAMBDA y : SameExpr(f, y), @)]
      [] x.op \in {"builtin", "function"} -> [x EXCEPT !.args = MapTo(LAMBDA y : SameExpr(f, y), @)]
      [] x.op = "exists" -> [x EXCEPT !.pattern = SameGroup(f, @)]
      [] x.op = "term" -> [x EXCEPT !.t = SameTerm(f, @)]
      [] x.op = "none" -> x
SameQuery(f, q) ==
    [q EXCEPT !.pattern = SameGroup(f, @),
              !.projection = MapTo(LAMBDA p : [p EXCEPT !.e = SameExpr(f, @)], @),
              !.having = MapTo(LAMBDA h : SameExpr(f, h), @)]
SameGroup(f, g) ==
    MapTo(LAMBDA x :
        CASE x.el = "triples" -> [x EXCEPT !.ts = Run(f, @)]
          [] x.el \in {"filter", "bind"} -> [x EXCEPT !.e = SameExpr(f, @)]
          [] x.el \in {"optional", "minus", "graph", "service"} -> [x EXCEPT !.g = SameGroup(f, @)]
          [] x.el = "union" -> [x EXCEPT !.gs = MapTo(LAMBDA y : SameGroup(f, y), @)]
          [] x.el = "select" -> [x EXCEPT !.q = SameQuery(f, @)]
          [] OTHER -> x, g)
Quads(f, qs) == {<<qs[i].graph, Run(f, <<qs[i].triple>>)>> : i \in DOMAIN qs}
SameOp(f, op) ==
    CASE op.op \in {"insertdata", "deletedata", "deletewhere"} -> [op EXCEPT !.quads = Quads(f, @)]
      [] op.op = "modify" -> [op EXCEPT !.delete = Quads(f, @), !.insert = Quads(f, @), !.pattern = SameGroup(f, @)]
      [] OTHER -> op
\* The declarations of a document are not part of what it denotes.
Same(doc, f, tree) ==
    IF doc.update THEN MapTo(LAMBDA op : SameOp(f, op), tree.operations)
    ELSE [SameQuery(f, tree) EXCEPT !.prefixes = <<>>, !.template = Run(f, @)]

\* A fresh label is known by the tree it stands out in; a label that the
\* user wrote, or that a fresh one is printed as, by its name or its place.
Meaning(doc, tree, kept) ==
    LET labels == Labels(doc, tree)
        marked(l) == [m \in labels |-> IF m \in kept THEN m ELSE <<"fresh", IF m = l THEN 1 ELSE 0>>]
        role == [l \in labels |-> IF l \in kept THEN l ELSE <<"in", Same(doc, marked(l), tree)>>]
    IN Same(doc, role, tree)

-----------------------------------------------------------------------------
(* Properties.                                                             *)

RoundTrips(doc) ==
    LET r == Read(doc)
        kept == {l \in Labels(doc, r.tree) : l[1] = "user"}
        printed == Printed(doc, r.tree)
        again == Read(printed)
    IN r.ok => /\ again.ok
               /\ Meaning(doc, r.tree, kept) = Meaning(doc, again.tree, kept)
               /\ Printed(doc, again.tree) = printed
Recovers(doc) ==
    LET strict == Read(doc)
        recovering == Reread(doc)
    IN IF strict.ok THEN recovering = strict
       ELSE recovering.errors # <<>> /\ recovering.errors[1] = strict.errors[1]

\* "Output re-parses to the same tree shape": the canonical form of a
\* document that parses is a document, it denotes the same query or update
\* whatever sugar was taken apart and put back, and printing it again
\* changes nothing.
RoundTrip == [][closed' => RoundTrips(Document')]_dvars

\* The recovering parser differs from the strict one only after the first
\* error: the same tree without one, the same first error with one, and it
\* always comes to an end with a list of errors.
RecoveryAgrees == [][closed' => Recovers(Document')]_dvars
=============================================================================
