---------------------------- MODULE TurtleWriter ----------------------------
(***************************************************************************)
(* The pretty Turtle and TriG writer (graphy-turtle/src/writer.rs).  Quads *)
(* and tokens are those of TurtleParser; the layout is left out.  A writer *)
(* is a record; what renders returns it with the tokens appended to buf.   *)
(***************************************************************************)
EXTENDS Integers, Sequences, FiniteSets, SequencesExt

CONSTANTS
    Unsafe,         \* local names that is_safe_local refuses
    Bare,           \* <<lexical, datatype>> with a bare spelling
    Overflow        \* captures kept before the backstop (4096)

LOCAL None == <<>>
LOCAL Rdf(l) == <<"iri", "rdf", l>>
LOCAL Xsd(l) == <<"iri", "xsd", l>>

IsBlank(h) == h # None /\ h[1] = "bnode"
\* A mutant: every blank node is taken for a minted one.
any_blank_label(h) == IsBlank(h)
\* fresh_blank_label: minted by syntax; a label of the source never is.
fresh_blank_label(h) == IsBlank(h) /\ h[2] = "b"
bare_form_valid(h) == h[1] = "lit" /\ \E b \in Bare : h = <<"lit", b[1], Xsd(b[2])>>
is_safe_local(l) == l \notin Unsafe

TurtleWriter(opts) ==
    [opts |-> opts, header |-> FALSE, graph |-> None, block |-> FALSE, subject |-> None, props |-> <<>>,
     captured |-> <<>>, held |-> <<>>, buf |-> <<>>, out |-> <<>>, body |-> <<>>, used |-> {}, failed |-> FALSE]

is_fresh(w, h) == ~w.opts.labeled /\ fresh_blank_label(h)
Buf(w, toks) == [w EXCEPT !.buf = @ \o toks]
\* emit: into the body when the header waits for the used prefixes.
emit(w, toks) == IF w.opts.used_only THEN [w EXCEPT !.body = @ \o toks] ELSE [w EXCEPT !.out = @ \o toks]

-----------------------------------------------------------------------------
(* Terms.                                                                  *)

\* write_term: the plain form, also of everything inside a triple term.
RECURSIVE write_term(_)
write_term(h) ==
    CASE h[1] = "iri" -> <<h>>
      [] h[1] = "bnode" -> << <<"blank", <<h[2], h[3]>> >> >>
      [] h[1] = "lit" -> << <<"string", h[2], FALSE>> >> \o (IF h[3] = Xsd("string") THEN <<>> ELSE << <<"^^">>, h[3]>>)
      [] h[1] = "text" -> << <<"string", h[2], FALSE>>, <<"lang", h[3], h[4]>> >>
      [] h[1] = "tt" -> << <<"<<(">> >> \o write_term(h[2]) \o write_term(h[3]) \o write_term(h[4]) \o << <<")>>">> >>

\* render_iri: compacted against the first declaration that fits.
Compacting(w, iri) ==
    IF is_safe_local(iri[3]) THEN {i \in 1..Len(w.opts.prefixes) : w.opts.prefixes[i][2] = iri[2]} ELSE {}
render_iri(w, iri) ==
    LET fits == Compacting(w, iri)
        i == CHOOSE k \in fits : \A j \in fits : k <= j
    IN IF fits = {} THEN Buf(w, <<iri>>)
       ELSE [Buf(w, << <<"pname", w.opts.prefixes[i][1], iri[3]>> >>) EXCEPT !.used = @ \cup {i}]
render_term(w, h) ==
    IF h[1] = "iri" THEN render_iri(w, h)
    ELSE IF h[1] = "lit" /\ h[3] # Xsd("string")
         THEN render_iri(Buf(w, << <<"string", h[2], FALSE>>, <<"^^">> >>), h[3])
    ELSE Buf(w, write_term(h))
render_verb(w, p) == IF p = Rdf("type") THEN Buf(w, << <<"a">> >>) ELSE render_term(w, p)

-----------------------------------------------------------------------------
(* Captured stanzas: props are <<predicate, object, bare>>.                *)

Captures(w, label) == {i \in 1..Len(w.captured) : w.captured[i].label = label}
is_captured(w, label) == Captures(w, label) # {}
\* The first capture of a label: a label may have been captured twice.
Capture(w, label) == CHOOSE i \in Captures(w, label) : \A j \in Captures(w, label) : i <= j
Props(w, label) == w.captured[Capture(w, label)].props
Drop(w, label) == [w EXCEPT !.captured = RemoveAt(@, Capture(w, label))]

\* spine_shape: one rdf:first and one rdf:rest, to a blank node or rdf:nil.
Spine(props) ==
    /\ Len(props) = 2
    /\ {props[1][1], props[2][1]} = {Rdf("first"), Rdf("rest")}
    /\ \E i \in 1..2 : props[i][1] = Rdf("rest") /\ (IsBlank(props[i][2]) \/ props[i][2] = Rdf("nil"))
PropOf(props, p) == props[CHOOSE i \in 1..2 : props[i][1] = p]

\* chain_head: the labels of a complete captured spine, or <<>>.
RECURSIVE ChainFrom(_, _, _)
ChainFrom(w, label, before) ==
    IF ~is_captured(w, label) \/ Contains(before, label) THEN <<>>
    ELSE IF ~Spine(Props(w, label)) THEN <<>>
    ELSE LET rest == PropOf(Props(w, label), Rdf("rest"))[2]
         IN IF rest = Rdf("nil") THEN Append(before, label) ELSE ChainFrom(w, rest, Append(before, label))
chain_head(w, label) == ChainFrom(w, label, <<>>)

RECURSIVE render_object(_, _, _, _), render_fresh_ref(_, _), PropList(_, _, _)
\* A predicate list, grouped where the predicate repeats; rdf:rest keeps the
\* explicit structure.
PropList(w, props, holes) ==
    FoldLeft(LAMBDA x, i :
        LET before == IF i = 1 THEN x
                      ELSE Buf(x, << <<IF props[i][1] = props[i - 1][1] THEN "," ELSE ";">> >>)
            verb == IF i > 1 /\ props[i][1] = props[i - 1][1] THEN before ELSE render_verb(before, props[i][1])
        IN render_object(verb, props[i], holes, props[i][1] # Rdf("rest")),
        w, [i \in 1..Len(props) |-> i])
\* An object: sugar splices a captured fresh node; a fresh node that is not
\* captured yet leaves a hole in a stanza that may wait for it.
render_object(w, prop, holes, sugar) ==
    LET h == prop[2]
    IN IF sugar /\ is_fresh(w, h)
       THEN IF holes /\ ~is_captured(w, h) THEN Buf(w, << <<"hole", h>> >>) ELSE render_fresh_ref(w, h)
       ELSE IF sugar /\ h = Rdf("nil") THEN Buf(w, << <<"(">>, <<")">> >>)
       ELSE IF h[1] = "lit" /\ (prop[3] \/ (w.opts.terse /\ bare_form_valid(h)))
            THEN Buf(w, << <<"num", h[2], h[3][3]>> >>)
       ELSE render_term(w, h)
\* take_chain, render_list; take_captured, render_bnode; or "[]".
render_fresh_ref(w, label) ==
    LET chain == chain_head(w, label)
        firsts == [i \in 1..Len(chain) |-> PropOf(Props(w, chain[i]), Rdf("first"))]
        open == Buf(FoldLeft(Drop, w, chain), << <<"(">> >>)
    IN IF chain # <<>>
       THEN Buf(FoldLeft(LAMBDA x, p : render_object(x, p, FALSE, TRUE), open, firsts), << <<")">> >>)
       ELSE IF is_captured(w, label)
       THEN Buf(PropList(Buf(Drop(w, label), << <<"[">> >>), Props(w, label), FALSE), << <<"]">> >>)
       ELSE Buf(w, << <<"[">>, <<"]">> >>)

\* build_stanza: into buf; anon writes "[]" for the subject.
build_stanza(w, subject, props, holes, anon) ==
    LET head == IF anon THEN Buf(w, << <<"[">>, <<"]">> >>) ELSE render_term(w, subject)
    IN Buf(PropList(head, props, holes), << <<".">> >>)
write_stanza(w) == [emit(w, w.buf) EXCEPT !.buf = <<>>]

-----------------------------------------------------------------------------
(* Stanzas.                                                                *)

\* resolve_held: every hole of the held stanza, in order.
resolve_held(w) ==
    IF w.held = <<>> THEN w
    ELSE LET fill(x, tok) == IF tok[1] = "hole" THEN render_fresh_ref(x, tok[2]) ELSE Buf(x, <<tok>>)
         IN write_stanza(FoldLeft(fill, [w EXCEPT !.held = <<>>, !.buf = <<>>], w.held))

\* flush_captured: what is left, the first capture first.
RECURSIVE FlushAll(_, _)
FlushAll(w, anon) ==
    IF w.captured = <<>> THEN w
    ELSE LET c == Head(w.captured)
             built == build_stanza([w EXCEPT !.captured = Tail(@)], c.label, c.props, FALSE, anon)
         IN FlushAll(write_stanza(built), anon)
flush_captured(w, anon) == FlushAll(resolve_held(w), anon)

finish_stanza(w) ==
    LET done == [w EXCEPT !.subject = None, !.props = <<>>]
        caught == [done EXCEPT !.captured = Append(@, [label |-> w.subject, props |-> w.props])]
        built == build_stanza(resolve_held(done), w.subject, w.props, TRUE, FALSE)
    IN IF w.subject = None THEN w
       ELSE IF is_fresh(w, w.subject)
            THEN IF Len(caught.captured) > Overflow THEN flush_captured(caught, FALSE) ELSE caught
       ELSE IF \E i \in 1..Len(built.buf) : built.buf[i][1] = "hole"
            THEN [built EXCEPT !.held = built.buf, !.buf = <<>>]
       ELSE write_stanza(built)

Header(w, wanted) ==
    FlattenSeq([i \in 1..Len(w.opts.prefixes) |->
        IF i \notin wanted THEN <<>>
        ELSE << <<"@prefix">>, <<"pname", w.opts.prefixes[i][1], "">>, <<"iri", w.opts.prefixes[i][2], "">>, <<".">> >>])
CloseBlock(w) == IF w.block THEN [emit(w, << <<"}">> >>) EXCEPT !.block = FALSE] ELSE w
\* A graph section ends: its stanza, its captures, its block.
EndSection(w) == CloseBlock(flush_captured(finish_stanza(w), TRUE))

write_quad(w, q) ==
    LET begun == IF w.header \/ w.opts.used_only THEN [w EXCEPT !.header = TRUE]
                 ELSE [w EXCEPT !.header = TRUE, !.out = Header(w, DOMAIN w.opts.prefixes)]
        ended == [EndSection(begun) EXCEPT !.graph = q.g]
        named == render_term(ended, q.g)
        section == IF begun.graph = q.g THEN begun
                   ELSE IF q.g = None THEN ended
                   ELSE [emit([named EXCEPT !.buf = <<>>], Append(named.buf, <<"{">>)) EXCEPT !.block = TRUE]
        stanza == IF section.subject = q.s THEN section
                  ELSE [finish_stanza(section) EXCEPT !.subject = q.s]
    IN IF ~w.opts.trig /\ q.g # None THEN [begun EXCEPT !.failed = TRUE]
       ELSE [stanza EXCEPT !.props = Append(@, <<q.p, q.o, q.bare>>)]

finish(w) ==
    LET ended == EndSection(w)
    IN IF w.opts.used_only THEN Header(ended, ended.used) \o ended.body ELSE ended.out

write(opts, quads) == finish(FoldLeft(write_quad, TurtleWriter(opts), quads))

=============================================================================
