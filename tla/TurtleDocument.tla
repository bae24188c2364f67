--------------------------- MODULE TurtleDocument ---------------------------
(***************************************************************************)
(* A Turtle-family document as the language tools use it: it arrives piece *)
(* by piece at the strict parser and at the lenient one, and when it ends  *)
(* it may be formatted (graphy-lsp/src/format.rs): a strict probe, then    *)
(* the same text read again, regrouped by Tree and written pretty.         *)
(***************************************************************************)
EXTENDS TurtleParser

CONSTANTS
    Pieces,         \* name -> tokens: what a document is typed from
    MaxPieces,      \* bound: pieces in a document
    Unsafe, Bare, Overflow

W == INSTANCE TurtleWriter
P == INSTANCE PipeOps

VARIABLES typed, strict, lenient
tvars == <<typed, strict, lenient>>

\* Diagnostics and formatting read the superset dialect.
Options(isLenient) == [spec12 |-> TRUE, trig |-> TRUE, lenient |-> isLenient, base |-> "doc"]

Ended == typed # <<>> /\ Last(typed) = "end"

TurtleInit ==
    /\ typed = <<>>
    /\ strict = new(Options(FALSE))
    /\ lenient = new(Options(TRUE))

Type(piece) ==
    /\ ~Ended /\ Len(typed) < MaxPieces
    /\ typed' = Append(typed, piece)
    /\ strict' = FoldLeft(pump, strict, Pieces[piece])
    /\ lenient' = FoldLeft(pump, lenient, Pieces[piece])

End ==
    /\ ~Ended /\ typed # <<>>
    /\ typed' = Append(typed, "end")
    /\ strict' = finish(strict)
    /\ lenient' = finish(lenient)

TurtleNext == (\E piece \in DOMAIN Pieces : Type(piece)) \/ End

-----------------------------------------------------------------------------
(* Formatting.                                                             *)

\* PrettySink: the declarations of the document, a name once.
PrettySink(st, graphs) ==
    LET latest == SelectSeq([i \in 1..Len(st.prefixes) |-> i],
            LAMBDA i : \A j \in i + 1..Len(st.prefixes) : st.prefixes[j][1] # st.prefixes[i][1])
    IN [trig |-> graphs, labeled |-> FALSE, terse |-> FALSE, used_only |-> FALSE,
        prefixes |-> [i \in 1..Len(latest) |-> st.prefixes[latest[i]]]]

\* turtle_pretty: without a base first, with the document's own only if the
\* text needs one; <<>> for a text that does not parse or holds no data.
turtle_pretty(toks) ==
    LET bare == parse([Options(FALSE) EXCEPT !.base = ""], toks)
        probe == IF bare.state # "Failed" THEN bare ELSE parse(Options(FALSE), toks)
        graphs == \E i \in 1..Len(probe.quads) : probe.quads[i].g # None
    IN IF probe.state = "Failed" \/ probe.quads = <<>> THEN <<>>
       ELSE W!write(PrettySink(probe, graphs), P!Tree(probe.quads))

Text == FlattenSeq([i \in 1..(Len(typed) - 1) |-> Pieces[typed[i]]])

-----------------------------------------------------------------------------
(* Properties.                                                             *)

\* Blank nodes by what the quads say of them, three links deep.
RECURSIVE Seen(_, _, _)
Seen(Q, h, depth) ==
    IF h = None THEN h
    ELSE IF h[1] = "tt" THEN <<"tt", Seen(Q, h[2], depth), Seen(Q, h[3], depth), Seen(Q, h[4], depth)>>
    ELSE IF h[1] # "bnode" THEN h
    ELSE IF depth = 0 THEN <<"node", {}>>
    ELSE <<"node", {<<"s", q.p, Seen(Q, q.o, depth - 1)>> : q \in {x \in Q : x.s = h}}
                   \cup {<<"o", q.p, Seen(Q, q.s, depth - 1)>> : q \in {x \in Q : x.o = h}}>>
Facts(quads) == {[quads[i] EXCEPT !.bare = FALSE] : i \in 1..Len(quads)}
Shape(quads) ==
    LET Q == Facts(quads)
        view(q) == <<Seen(Q, q.s, 3), q.p, Seen(Q, q.o, 3), Seen(Q, q.g, 3)>>
        views == {view(q) : q \in Q}
    IN {<<v, Cardinality({q \in Q : view(q) = v})>> : v \in views}

\* Where the writer is known to part a minted node from its references: a
\* subject nothing refers to leads to it, it also occurs inside a triple
\* term, or Tree leaves a labelled subject between the subject that leads to
\* it and its own triples.
IsMinted(h) == h # None /\ h[1] = "bnode" /\ h[2] = "b"
RECURSIVE Inside(_), Below(_, _)
Inside(h) == IF h[1] = "tt" THEN Inside(h[2]) \cup Inside(h[4]) ELSE {h}
Below(Q, H) ==
    LET next == {q.o : q \in {x \in Q : x.s \in H /\ IsMinted(x.o)}} \ H
    IN IF next = {} THEN H ELSE Below(Q, H \cup next)
Parted(quads) ==
    LET Q == Facts(quads)
        regrouped == P!Tree(quads)
        At(h) == {i \in DOMAIN regrouped : regrouped[i].s = h}
        between(k, h) == \E i \in At(k), u \in DOMAIN regrouped, j \in At(h) :
                            i < u /\ u < j /\ regrouped[u].s # k /\ ~IsMinted(regrouped[u].s)
    IN \/ \E q \in Q : IsMinted(q.s) /\ IsMinted(q.o) /\ \A x \in Q : x.o # q.s
       \/ \E q \in Q : q.o[1] = "tt" /\ \E h \in Inside(q.o) : IsMinted(h)
       \/ \E k \in {q.s : q \in Q} : ~IsMinted(k) /\ \E h \in Below(Q, {k}) \ {k} : between(k, h)

\* "refuse to format anything that doesn't parse cleanly - never mangle":
\* the formatted text says what the document says, whatever the capturing
\* writer inlines, and a document that does not parse is left alone.
Formatted(toks, quads, ok) ==
    LET out == turtle_pretty(toks)
        again == parse(Options(FALSE), out)
    IN IF ~ok \/ quads = <<>> THEN out = <<>>
       ELSE again.state # "Failed" /\ Shape(again.quads) = Shape(quads)
Preserved(st, toks) == Formatted(toks, st.quads, st.state # "Failed")
TurtleRoundTrip ==
    [][Ended' => \E st \in {strict'}, toks \in {Text'} :
                    Parted(st.quads) \/ Preserved(st, toks)]_<<typed, strict, lenient>>

\* The same without the exception.
NeverMangled == [][Ended' => \E st \in {strict'}, toks \in {Text'} : Preserved(st, toks)]_<<typed, strict, lenient>>

\* The lenient parser is the strict one until the strict one fails; it keeps
\* what came before and, once it is back at a statement, reads the next one
\* as it would in a sound document.
Fresh(st) == [new(st.opts) EXCEPT !.prefixes = st.prefixes, !.base = st.base, !.labels = st.labels, !.next = st.next]
ReadFrom(st, piece) == FoldLeft(pump, st, Pieces[piece])
LenientAgrees ==
    IF strict.state # "Failed"
    THEN lenient = [strict EXCEPT !.opts = Options(TRUE)]
    ELSE /\ IsPrefix(strict.quads, lenient.quads) /\ lenient.errors > 0
         /\ lenient.state = "Statement" /\ ~in_graph(lenient) =>
              \A piece \in DOMAIN Pieces :
                 ReadFrom(lenient, piece).quads = lenient.quads \o ReadFrom(Fresh(lenient), piece).quads
=============================================================================
