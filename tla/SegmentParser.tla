---------------------------- MODULE SegmentParser ----------------------------
(***************************************************************************)
(* N-Triples and N-Quads: the line parser (graphy-turtle/src/nx.rs) and    *)
(* the data-parallel reading of one document by it (par.rs): the text is   *)
(* cut after newlines, a worker parses each segment chunk by chunk, and    *)
(* the errors of several workers race for one slot.                        *)
(* The lexer is left out: a document is a sequence of tokens, an offset an *)
(* index into it.  <<"nl">> is the raw newline, <<"bad">> what does not    *)
(* lex; <<"iri", n>> (n = "" is relative), <<"blank", l>>, <<"string", x,  *)
(* long>>, <<"lang", tag, dir>>, and punctuation by itself.                *)
(***************************************************************************)
EXTENDS Integers, Sequences, FiniteSets, SequencesExt

CONSTANTS
    Documents,              \* the token sequences that may be read
    MaxThreads,             \* bound: workers asked for
    CHUNK,                  \* worker feed granularity, in tokens
    MAX_TRIPLE_TERM_DEPTH

VARIABLES
    data, threads, lenient, \* the call: what to read, and how
    workers,                \* one per segment
    failed,                 \* the stop flag
    first_err               \* <<>> or the error kept so far
svars == <<data, threads, lenient, workers, failed, first_err>>

None == <<>>

-----------------------------------------------------------------------------
(* The parser.                                                             *)

\* NxParser::new, content_labels as par.rs sets them for its workers.
new(toks, content) ==
    [toks |-> toks, content |-> content, state |-> "Subject", s |-> None, p |-> None, o |-> None, g |-> None,
     pending |-> "", tt_stack |-> <<>>, labels |-> <<>>, quads |-> <<>>, at |-> 0, line |-> 1,
     err |-> None, errors |-> <<>>]

To(st, state) == [st EXCEPT !.state = state]
\* err: at the start of the token being read.
Fail(st) == [st EXCEPT !.err = [offset |-> st.at, line |-> st.line]]

reset_statement(st) ==
    [st EXCEPT !.state = "Subject", !.s = None, !.p = None, !.o = None, !.g = None, !.tt_stack = <<>>]

\* A label's ordinal is the position of its first use, unless labels are
\* kept as they are spelled.
Labelled(st, l) == IF st.content \/ \E i \in DOMAIN st.labels : st.labels[i] = l THEN st
                   ELSE [st EXCEPT !.labels = Append(@, l)]
Blank(st, l) == <<"bnode", IF st.content THEN l ELSE CHOOSE i \in DOMAIN st.labels : st.labels[i] = l>>

\* node_term: an IRI or a blank node in a node position, put where it belongs.
IsNode(t) == t[1] \in {"iri", "blank"}
complete_object(st, h) ==
    [st EXCEPT !.o = h, !.state = IF st.tt_stack = <<>> THEN "AfterObject" ELSE "TtClose"]
Within(st, i, h, state) == [st EXCEPT !.tt_stack[Len(st.tt_stack)][i] = h, !.state = state]
Placed(st, h) ==
    CASE st.state = "Subject" -> [st EXCEPT !.s = h, !.state = "Predicate"]
      [] st.state = "Predicate" -> [st EXCEPT !.p = h, !.state = "Object"]
      [] st.state = "AfterObject" -> [st EXCEPT !.g = h, !.state = "AfterGraph"]
      [] st.state = "TtSubject" -> Within(st, 1, h, "TtPredicate")
      [] st.state = "TtPredicate" -> Within(st, 2, h, "Object")
      [] OTHER -> complete_object(st, h)
node_term(st, t) ==
    IF t[1] = "blank" THEN LET named == Labelled(st, t[2]) IN Placed(named, Blank(named, t[2]))
    ELSE IF t[2] = "" THEN Fail(st)
    ELSE Placed(st, t)

emit_statement(st) ==
    reset_statement([st EXCEPT !.quads = Append(@, [s |-> st.s, p |-> st.p, o |-> st.o, g |-> st.g])])

\* The string that waits for a language or a datatype; emit_typed refuses
\* the language datatypes.
Lit(st, dt) == <<"lit", st.pending, dt>>
Literal(st, t) ==
    IF t[1] = "lang" THEN complete_object(st, <<"lit", st.pending, <<t[2], t[3]>>>>) ELSE To(st, "Datatype")
Typed(st, t) ==
    IF t[1] # "iri" \/ t[2] \in {"", "langString"} THEN Fail(st) ELSE complete_object(st, Lit(st, t[2]))

Object(st, t) ==
    IF t[1] = "string" THEN IF t[3] THEN Fail(st) ELSE [st EXCEPT !.pending = t[2], !.state = "AfterString"]
    ELSE IF t[1] = "<<(" THEN
         IF Len(st.tt_stack) >= MAX_TRIPLE_TERM_DEPTH THEN Fail(st)
         ELSE [st EXCEPT !.tt_stack = Append(@, <<None, None>>), !.state = "TtSubject"]
    ELSE IF IsNode(t) THEN node_term(st, t) ELSE Fail(st)

AfterObject(st, t) ==
    IF t[1] = "." THEN emit_statement(st)
    ELSE IF IsNode(t) /\ st.state = "AfterObject" THEN node_term(st, t)
    ELSE Fail(st)

TtClose(st) ==
    LET frame == Last(st.tt_stack)
    IN complete_object([st EXCEPT !.tt_stack = Front(@)], <<"tt", frame[1], frame[2], st.o>>)

\* step: one token; a string that nothing follows is complete, and the token
\* is dispatched again.
step(st, t) ==
    CASE st.state \in {"Subject", "TtSubject"} -> IF IsNode(t) THEN node_term(st, t) ELSE Fail(st)
      [] st.state \in {"Predicate", "TtPredicate"} -> IF t[1] = "iri" THEN node_term(st, t) ELSE Fail(st)
      [] st.state = "Object" -> Object(st, t)
      [] st.state = "AfterString" ->
           (IF t[1] \in {"lang", "^^"} THEN Literal(st, t)
            ELSE LET whole == complete_object(st, Lit(st, "string"))
                 IN IF whole.state = "TtClose" THEN IF t[1] = ")>>" THEN TtClose(whole) ELSE Fail(whole)
                    ELSE AfterObject(whole, t))
      [] st.state = "Datatype" -> Typed(st, t)
      [] st.state \in {"AfterObject", "AfterGraph"} -> AfterObject(st, t)
      [] st.state = "TtClose" -> IF t[1] = ")>>" THEN TtClose(st) ELSE Fail(st)

\* fail: the strict parser stops, the lenient one notes the error and skips
\* to the next line.
fail(st) ==
    IF st.err = None \/ ~lenient THEN st
    ELSE [st EXCEPT !.errors = Append(@, st.err), !.err = None, !.state = "Recover"]

\* pump, a token at a time: newlines are blanks to every other state.
Read(st) ==
    LET t == st.toks[st.at + 1]
        read == IF t[1] = "nl" THEN IF st.state = "Recover" THEN reset_statement(st) ELSE st
                ELSE IF st.state = "Recover" THEN st
                ELSE fail(IF t[1] = "bad" THEN Fail(st) ELSE step(st, t))
    IN IF read.err # None THEN read
       ELSE [read EXCEPT !.at = @ + 1, !.line = IF t[1] = "nl" THEN @ + 1 ELSE @]
\* feed: the next n tokens, up to the first error.
feed(st, n) == FoldLeft(LAMBDA u, i : IF u.err # None THEN u ELSE Read(u), st, [i \in 1..n |-> i])
\* finish: the end of the input.
finish(st) == IF st.err # None \/ st.state \in {"Subject", "Recover"} THEN st ELSE fail(Fail(st))

parse(toks) == finish(feed(new(toks, FALSE), Len(toks)))

-----------------------------------------------------------------------------
(* The workers.                                                            *)

\* A mutant: cuts where the fraction falls.
AtTarget(toks, target) == target
\* boundaries: fractional offsets, moved just past the next newline.
Past(toks, target) ==
    LET lines == {i \in target + 1..Len(toks) : toks[i][1] = "nl"}
    IN IF lines = {} THEN Len(toks) ELSE CHOOSE i \in lines : \A j \in lines : i <= j
boundaries(toks, n) ==
    LET cut(cuts, i) ==
            LET c == Past(toks, (Len(toks) * i) \div n)
            IN IF c > Last(cuts) /\ c < Len(toks) THEN Append(cuts, c) ELSE cuts
    IN Append(FoldLeft(cut, <<0>>, [i \in 1..(n - 1) |-> i]), Len(toks))

Spawn(toks, n) ==
    LET cuts == boundaries(toks, n)
    IN [k \in 1..(Len(cuts) - 1) |->
          [lo |-> cuts[k], p |-> new(SubSeq(toks, cuts[k] + 1, cuts[k + 1]), TRUE), out |-> <<>>, pc |-> "check"]]

SegmentInit ==
    /\ data \in Documents /\ threads \in 1..MaxThreads /\ lenient \in BOOLEAN
    /\ workers = Spawn(data, threads)
    /\ failed = FALSE /\ first_err = None

Left(w) == Len(w.p.toks) - w.p.at
Go(k, pc) == [workers EXCEPT ![k].pc = pc]
\* The quads of one feed go to the callback, the ones of a failed feed do not.
Drained(w, fed) ==
    IF fed.err # None THEN [w EXCEPT !.p = fed, !.pc = "stop"]
    ELSE [w EXCEPT !.p = [fed EXCEPT !.quads = <<>>], !.out = @ \o fed.quads,
                   !.pc = IF Len(fed.toks) > fed.at THEN "check" ELSE "finish"]

\* segment: the flag is read before each chunk ...
Check(k) ==
    LET w == workers[k]
    IN /\ w.pc = "check"
       /\ workers' = Go(k, IF Left(w) = 0 THEN "finish" ELSE IF failed THEN "done" ELSE "feed")
       /\ UNCHANGED <<data, threads, lenient, failed, first_err>>
\* ... and acted on before the chunk is parsed and drained.
Chunk(k) ==
    LET w == workers[k]
    IN /\ w.pc = "feed"
       /\ workers' = [workers EXCEPT ![k] = Drained(w, feed(w.p, IF CHUNK < Left(w) THEN CHUNK ELSE Left(w)))]
       /\ UNCHANGED <<data, threads, lenient, failed, first_err>>
Finish(k) ==
    LET w == workers[k]
        fed == finish(w.p)
    IN /\ w.pc = "finish"
       /\ workers' = [workers EXCEPT ![k] = [Drained(w, fed) EXCEPT !.pc = IF fed.err # None THEN "stop" ELSE "done"]]
       /\ UNCHANGED <<data, threads, lenient, failed, first_err>>

\* record: the flag first, then the slot under its lock; positions become
\* global, and the lowest offset is kept.
Stop(k) ==
    /\ workers[k].pc = "stop" /\ workers' = Go(k, "record") /\ failed' = TRUE
    /\ UNCHANGED <<data, threads, lenient, first_err>>
Global(w) ==
    [offset |-> w.p.err.offset + w.lo,
     line |-> w.p.err.line + Cardinality({i \in 1..w.lo : data[i][1] = "nl"})]
Record(k) ==
    /\ workers[k].pc = "record" /\ workers' = Go(k, "done")
    /\ first_err' = LET e == Global(workers[k])
                    IN IF first_err = None THEN e ELSE IF e.offset < first_err.offset THEN e ELSE first_err
    /\ UNCHANGED <<data, threads, lenient, failed>>

SegmentNext == \E k \in DOMAIN workers : Check(k) \/ Chunk(k) \/ Finish(k) \/ Stop(k) \/ Record(k)

-----------------------------------------------------------------------------
(* Properties.                                                             *)

Joined == \A k \in DOMAIN workers : workers[k].pc = "done"
Delivered == FlattenSeq([k \in DOMAIN workers |-> workers[k].out])

\* No statement of the document runs over a newline, which the grammar
\* forbids and the serial parser lets pass.
OneLineEach ==
    \A i \in DOMAIN data :
        data[i][1] = "nl" => LET st == feed(new(data, FALSE), i) IN st.err # None \/ st.state \in {"Subject", "Recover"}

\* The same quads in the same order, the blank nodes of the one standing for
\* those of the other: the serial ordinal is a function of the label and
\* tells labels apart.
RECURSIVE Nodes(_)
Nodes(h) == IF h = None THEN <<>>
            ELSE IF h[1] = "tt" THEN Nodes(h[2]) \o Nodes(h[4]) ELSE IF h[1] = "bnode" THEN <<h>> ELSE <<>>
RECURSIVE Erase(_)
Erase(h) == IF h = None THEN h
            ELSE IF h[1] = "tt" THEN <<"tt", Erase(h[2]), h[3], Erase(h[4])>>
            ELSE IF h[1] = "bnode" THEN <<"bnode">> ELSE h
AllNodes(quads) == FlattenSeq([i \in DOMAIN quads |-> Nodes(quads[i].s) \o Nodes(quads[i].o) \o Nodes(quads[i].g)])
Same(A, B) ==
    LET a == AllNodes(A)
        b == AllNodes(B)
    IN /\ Len(A) = Len(B)
       /\ \A i \in DOMAIN A : \A f \in {"s", "p", "o", "g"} : Erase(A[i][f]) = Erase(B[i][f])
       /\ \A i, j \in DOMAIN a : (a[i] = a[j]) <=> (b[i] = b[j])

\* The errors that the segments have, each read alone, in global positions.
SegmentErrors ==
    {LET read == finish(feed(workers[k].p, Left(workers[k])))
     IN IF read.err = None THEN None ELSE Global([workers[k] EXCEPT !.p = read]) : k \in DOMAIN workers} \ {None}

\* "The input splits exactly": what the workers deliver, in segment order, is
\* what one parser reads, whatever their timing; a document is refused exactly
\* when it has an error, and the error reported is one that a segment has,
\* the serial one when no other segment has one.
SegmentsExact ==
    Joined /\ OneLineEach =>
        LET serial == parse(data)
        IN /\ (first_err = None) <=> (serial.err = None)
           /\ first_err = None => Same(Delivered, serial.quads)
           /\ first_err # None =>
                /\ first_err \in SegmentErrors
                /\ Cardinality(SegmentErrors) = 1 => first_err = serial.err
=============================================================================
