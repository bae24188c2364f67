---------------------------- MODULE TurtleParser ----------------------------
(***************************************************************************)
(* The Turtle and TriG parser (graphy-turtle/src/turtle.rs with the term   *)
(* context of common.rs): an explicit pushdown machine, stepped once per   *)
(* token.  The lexer is left out: a token is a tuple <<kind, texts...>>.   *)
(*   <<"iri", ns, l>>   an IRI of a namespace; ns = "" makes it relative   *)
(*   <<"pname", p, l>>  <<"blank", l>>  <<"string", lex, long>>            *)
(*   <<"lang", tag, dir>>  <<"num", lex, dt>>  and keywords, punctuation.  *)
(* A term is <<"iri", ns, l>>, <<"bnode", "s" or "b", n>> (from a label of *)
(* the source, or minted), <<"lit", lex, datatype>>, <<"text", lex, tag,   *)
(* dir>> or <<"tt", s, p, o>>.                                             *)
(***************************************************************************)
EXTENDS Integers, Sequences, FiniteSets, SequencesExt

CONSTANT MAX_TRIPLE_TERM_DEPTH

None == <<>>
Rdf(l) == <<"iri", "rdf", l>>
Xsd(l) == <<"iri", "xsd", l>>

\* TtlParser::new.
new(opts) ==
    [opts |-> opts, state |-> "Statement", sparql |-> FALSE, ret |-> "Object", stack |-> <<>>,
     subject |-> None, predicate |-> None, graph |-> None, node |-> None, pending |-> None,
     last |-> None, tt |-> None, reifier |-> None,
     prefixes |-> <<>>, base |-> opts.base, labels |-> <<>>, next |-> 0,
     quads |-> <<>>, err |-> "", errors |-> 0]

\* A failing step keeps what it changed before it failed.
Fail(st, why) == [st EXCEPT !.err = why]
Failed(st) == st.err # ""
To(st, state) == [st EXCEPT !.state = state]
Require12(st, then) == IF st.opts.spec12 THEN then ELSE Fail(st, "requires RDF 1.2 mode")

in_graph(st) == st.stack # <<>> /\ Head(st.stack).k = "Graph"
Top(st) == IF st.stack = <<>> THEN [k |-> "none"] ELSE Last(st.stack)
Push(st, frame) == [st EXCEPT !.stack = Append(@, frame)]
Pop(st) == [st EXCEPT !.stack = Front(@)]
SetTop(st, field, h) == [st EXCEPT !.stack[Len(st.stack)][field] = h]

reset_statement(st) ==
    [st EXCEPT !.subject = None, !.predicate = None, !.node = None, !.last = None, !.tt = None, !.reifier = None]

-----------------------------------------------------------------------------
(* Terms.                                                                  *)

\* set_prefix: the latest declaration of a name wins.
set_prefix(st, p, ns) == [st EXCEPT !.prefixes = Append(@, <<p, ns>>)]
Declared(st, p) == {i \in 1..Len(st.prefixes) : st.prefixes[i][1] = p}
Latest(st, p) == CHOOSE i \in Declared(st, p) : \A j \in Declared(st, p) : j <= i
expand_prefix(st, p) == IF Declared(st, p) = {} THEN None ELSE <<st.prefixes[Latest(st, p)][2]>>

\* resolve_iri: None when the reference is relative and there is no base.
resolve_iri(st, t) ==
    IF t[2] # "" THEN t ELSE IF st.base = "" THEN None ELSE <<"iri", st.base, t[3]>>

\* internal_label: a surface label keeps the ordinal of its first use; minted
\* nodes draw from the same counter.
internal_label(st, label) ==
    IF \E i \in 1..Len(st.labels) : st.labels[i][1] = label THEN st
    ELSE [st EXCEPT !.labels = Append(@, <<label, st.next>>), !.next = @ + 1]
Ordinal(st, label) == (CHOOSE i \in 1..Len(st.labels) : st.labels[i][1] = label)

IsNode(t) == t[1] \in {"iri", "pname", "blank"}
\* simple_node and pname_iri: [st, h], h None when the token has no term.
simple_node(st, t) ==
    CASE t[1] = "iri" ->
           [st |-> IF resolve_iri(st, t) = None THEN Fail(st, "relative IRI without a base") ELSE st,
            h |-> resolve_iri(st, t)]
      [] t[1] = "pname" ->
           LET ns == expand_prefix(st, t[2])
           IN [st |-> IF ns = None THEN Fail(st, "undeclared prefix") ELSE st,
               h |-> IF ns = None THEN None ELSE <<"iri", ns[1], t[3]>>]
      [] t[1] = "blank" ->
           LET named == internal_label(st, t[2])
           IN [st |-> named, h |-> <<"bnode", "s", named.labels[Ordinal(named, t[2])][2]>>]
\* emit_fresh_blank: the label that the next minted node gets.
Minted(st) == <<"bnode", "b", st.next>>
Mint(st) == [st EXCEPT !.next = @ + 1]

RECURSIVE tt_depth(_)
tt_depth(h) ==
    IF h[1] # "tt" THEN 0
    ELSE 1 + (IF tt_depth(h[2]) > tt_depth(h[4]) THEN tt_depth(h[2]) ELSE tt_depth(h[4]))
build_tt(s, p, o) == <<"tt", s, p, o>>
TooDeep(h) == tt_depth(h) > MAX_TRIPLE_TERM_DEPTH
\* The bound on the stack when a triple opens.
nesting_check(st) == Len(st.stack) < 4 * MAX_TRIPLE_TERM_DEPTH

emit(st, s, p, o, bare) ==
    [st EXCEPT !.quads = Append(@, [s |-> s, p |-> p, o |-> o, g |-> st.graph, bare |-> bare])]

-----------------------------------------------------------------------------
(* Delivery of a finished term.                                            *)

\* object_done: an item of the innermost collection, or the object of a
\* triple, which becomes the one annotations are about.
object_done(st, h, bare) ==
    IF Top(st).k = "Collection"
    THEN LET n == Minted(st)
             tail == Top(st).tail
             linked == IF tail = None THEN Mint(st) ELSE emit(Mint(st), tail, Rdf("rest"), n, FALSE)
             held == emit(linked, n, Rdf("first"), h, bare)
             headed == IF Top(st).head = None THEN SetTop(held, "head", n) ELSE held
         IN To(SetTop(headed, "tail", n), "Object")
    ELSE [emit(st, st.subject, st.predicate, h, bare) EXCEPT
             !.last = <<st.subject, st.predicate, h>>, !.tt = None, !.reifier = None, !.state = "AfterObject"]

\* annotation_tt and reify: the triple term of the last triple, built once.
reify(st, r) ==
    LET tt == IF st.tt = None THEN build_tt(st.last[1], st.last[2], st.last[3]) ELSE st.tt
    IN IF TooDeep(tt) THEN Fail(st, "triple terms nested too deeply")
       ELSE emit([st EXCEPT !.tt = tt], r, Rdf("reifies"), tt, FALSE)

deliver(st, ret, h, bare) ==
    CASE ret = "Subject" -> [st EXCEPT !.subject = h, !.state = "Verb"]
      [] ret = "SubjectOptionalPol" -> [st EXCEPT !.subject = h, !.state = "VerbOrDot"]
      [] ret = "StatementNode" -> [st EXCEPT !.node = h, !.state = "MaybeGraph"]
      [] ret = "Object" -> object_done(st, h, bare)
      [] ret = "RtSubject" -> To(SetTop(st, "s", h), "RtPredicate")
      [] ret = "RtObject" -> To(SetTop(st, "o", h), "RtAfterObject")
      [] ret = "RtReifier" -> To(SetTop(st, "reifier", h), "RtClose")
      [] ret = "TtSubject" -> To(SetTop(st, "s", h), "TtPredicate")
      [] ret = "TtObject" -> To(SetTop(st, "o", h), "TtClose")
      [] ret = "GraphName" -> [st EXCEPT !.graph = h, !.state = "GraphOpen"]
      [] ret = "AnnoReifier" ->
           LET reified == reify(st, h)
           IN IF Failed(reified) THEN reified ELSE [reified EXCEPT !.reifier = h, !.state = "AfterObject"]

\* A node token in a position that takes one.
Node(st, t, ret) ==
    LET node == simple_node(st, t) IN IF Failed(node.st) THEN node.st ELSE deliver(node.st, ret, node.h, FALSE)
Bracket(st, ret) == [st EXCEPT !.ret = ret, !.state = "Bracket"]
AwaitString(st, t, ret) == [st EXCEPT !.pending = t[2], !.ret = ret, !.state = "AfterString"]
\* shorthand_token: a bare number or boolean.
shorthand_token(t) == <<"lit", t[2], Xsd(t[3])>>

-----------------------------------------------------------------------------
(* Openings and closings.                                                  *)

Rt(ret) == [k |-> "Rt", s |-> None, p |-> None, o |-> None, reifier |-> None, ret |-> ret]
Tt(ret) == [k |-> "Tt", s |-> None, p |-> None, o |-> None, ret |-> ret]
Open(st, frame, state) ==
    IF nesting_check(st) THEN To(Push(st, frame), state) ELSE Fail(st, "nested too deeply")
push_rt(st, ret) == Open(st, Rt(ret), "RtSubject")
push_tt(st, ret) == Open(st, Tt(ret), "TtSubject")

close_rt(st) ==
    LET f == Top(st)
        tt == build_tt(f.s, f.p, f.o)
        popped == IF f.reifier = None THEN Mint(Pop(st)) ELSE Pop(st)
        r == IF f.reifier = None THEN Minted(st) ELSE f.reifier
    IN IF TooDeep(tt) THEN Fail(Pop(st), "triple terms nested too deeply")
       ELSE deliver(emit(popped, r, Rdf("reifies"), tt, FALSE), f.ret, r, FALSE)
close_tt(st) ==
    LET f == Top(st)
        tt == build_tt(f.s, f.p, f.o)
    IN IF TooDeep(tt) THEN Fail(Pop(st), "triple terms nested too deeply")
       ELSE deliver(Pop(st), f.ret, tt, FALSE)
close_collection(st) ==
    LET f == Top(st)
    IN IF f.k # "Collection" THEN Fail(st, "unexpected ')'")
       ELSE IF f.head = None THEN deliver(Pop(st), f.ret, Rdf("nil"), FALSE)
       ELSE deliver(emit(Pop(st), f.tail, Rdf("rest"), Rdf("nil"), FALSE), f.ret, f.head, FALSE)
close_bnode(st) ==
    LET f == Top(st)
    IN IF f.k # "BNode" THEN Fail(st, "unexpected ']'")
       ELSE deliver([Pop(st) EXCEPT !.subject = f.subject, !.predicate = f.predicate], f.ret, f.b, FALSE)

\* open_anno: the current reifier, which is reified already, or a fresh one.
open_anno(st) ==
    LET r == IF st.reifier # None THEN st.reifier ELSE Minted(st)
        reified == IF st.reifier # None THEN [st EXCEPT !.reifier = None] ELSE reify(Mint(st), r)
        frame == [k |-> "Anno", subject |-> st.subject, predicate |-> st.predicate,
                  last |-> st.last, tt |-> reified.tt]
    IN IF Failed(reified) THEN reified
       ELSE [Push(reified, frame) EXCEPT !.subject = r, !.predicate = None, !.state = "Verb"]
close_anno(st) ==
    LET f == Top(st)
    IN IF f.k # "Anno" THEN Fail(st, "unexpected '|}'")
       ELSE [Pop(st) EXCEPT !.subject = f.subject, !.predicate = f.predicate, !.last = f.last,
                            !.tt = f.tt, !.reifier = None, !.state = "AfterObject"]

end_statement(st) ==
    IF Top(st).k \in {"none", "Graph"} THEN To(reset_statement(st), "Statement")
    ELSE Fail(st, "statement terminator inside an unclosed construct")
close_graph(st) ==
    IF Top(st).k # "Graph" THEN Fail(st, "unexpected '}'")
    ELSE [Pop(st) EXCEPT !.graph = None, !.state = "Statement"]
EndGraph(st) == LET ended == end_statement(st) IN IF Failed(ended) THEN ended ELSE close_graph(ended)

-----------------------------------------------------------------------------
(* step, an operator per state.                                            *)

Directives == {"@prefix", "PREFIX", "@base", "BASE"}
Sparql(t) == t[1] \in {"PREFIX", "BASE", "VERSION"}

StatementStep(st, t) ==
    LET inside == in_graph(st)
        trig == st.opts.trig /\ ~inside
    IN IF t[1] \in Directives THEN
            IF inside THEN Fail(st, "directives are not allowed inside graph blocks")
            ELSE [st EXCEPT !.state = IF t[1] \in {"@prefix", "PREFIX"} THEN "PrefixName" ELSE "BaseIri",
                            !.sparql = Sparql(t)]
       ELSE IF t[1] = "GRAPH" /\ trig THEN To(st, "GraphName")
       ELSE IF t[1] = "{" /\ trig THEN [Push(st, [k |-> "Graph"]) EXCEPT !.graph = None]
       ELSE IF t[1] = "}" /\ inside THEN close_graph(st)
       ELSE IF IsNode(t) THEN Node(st, t, IF trig THEN "StatementNode" ELSE "Subject")
       ELSE IF t[1] = "[" THEN Bracket(st, IF trig THEN "StatementNode" ELSE "Subject")
       ELSE IF t[1] = "(" THEN To(Push(st, [k |-> "Collection", head |-> None, tail |-> None, ret |-> "Subject"]), "Object")
       ELSE IF t[1] = "<<" THEN Require12(st, push_rt(st, "SubjectOptionalPol"))
       ELSE IF t[1] \in {"@version", "VERSION"} /\ ~inside
            THEN Require12(st, [st EXCEPT !.state = "VersionString", !.sparql = Sparql(t)])
       ELSE Fail(st, "expected directive or subject")

\* The directives' states.  A SPARQL-style directive takes no dot.
AfterDirective(st) == To(st, IF st.sparql THEN "Statement" ELSE "DirectiveDot")
DirectiveStep(st, t) ==
    LET iri == IF t[1] = "iri" THEN resolve_iri(st, t) ELSE None
    IN CASE st.state = "PrefixName" ->
              IF t[1] = "pname" /\ t[3] = "" THEN [st EXCEPT !.pending = t[2], !.state = "PrefixIri"]
              ELSE Fail(st, "expected prefix name")
         [] st.state = "PrefixIri" ->
              IF iri = None THEN Fail(st, "expected IRI in prefix declaration")
              ELSE AfterDirective(set_prefix(st, st.pending, iri[2]))
         [] st.state = "BaseIri" ->
              IF iri = None THEN Fail(st, "expected IRI in base declaration")
              ELSE AfterDirective([st EXCEPT !.base = iri[2]])
         [] st.state = "VersionString" ->
              IF t[1] = "string" /\ ~t[3] THEN AfterDirective(st) ELSE Fail(st, "expected version string")
         [] st.state = "DirectiveDot" ->
              IF t[1] = "." THEN To(st, "Statement") ELSE Fail(st, "expected '.' after directive")

VerbStep(st, t) ==
    LET ends == st.state \in {"VerbOrDot", "AfterSemi"}
        semi == st.state = "AfterSemi"
        verb == simple_node(st, t)
    IN IF t[1] = "a" THEN [st EXCEPT !.predicate = Rdf("type"), !.state = "Object"]
       ELSE IF t[1] \in {"iri", "pname"}
            THEN IF Failed(verb.st) THEN verb.st ELSE [verb.st EXCEPT !.predicate = verb.h, !.state = "Object"]
       ELSE IF t[1] = ";" /\ semi THEN st
       ELSE IF t[1] = "." /\ ends THEN end_statement(st)
       ELSE IF t[1] = "]" /\ semi THEN close_bnode(st)
       ELSE IF t[1] = "|}" /\ semi THEN close_anno(st)
       ELSE IF t[1] = "}" /\ st.opts.trig /\ ends THEN EndGraph(st)
       ELSE Fail(st, "expected verb")

ObjectStep(st, t) ==
    IF t[1] = "string" THEN AwaitString(st, t, "Object")
    ELSE IF t[1] = "num" THEN object_done(st, shorthand_token(t), TRUE)
    ELSE IF t[1] = "[" THEN Bracket(st, "Object")
    ELSE IF t[1] = "(" THEN Push(st, [k |-> "Collection", head |-> None, tail |-> None, ret |-> "Object"])
    ELSE IF t[1] = ")" THEN close_collection(st)
    ELSE IF t[1] = "<<" THEN Require12(st, push_rt(st, "Object"))
    ELSE IF t[1] = "<<(" THEN Require12(st, push_tt(st, "Object"))
    ELSE IF IsNode(t) THEN Node(st, t, "Object")
    ELSE Fail(st, "expected object term")

AfterObjectStep(st, t) ==
    IF t[1] = "," THEN To(st, "Object")
    ELSE IF t[1] = ";" THEN To(st, "AfterSemi")
    ELSE IF t[1] = "." THEN end_statement(st)
    ELSE IF t[1] = "]" THEN close_bnode(st)
    ELSE IF t[1] = "|}" THEN close_anno(st)
    ELSE IF t[1] = "}" /\ st.opts.trig THEN EndGraph(st)
    ELSE IF t[1] = "~" THEN Require12(st, To(st, "AnnoReifier"))
    ELSE IF t[1] = "{|" THEN Require12(st, open_anno(st))
    ELSE Fail(st, "expected ',', ';', '.', or annotation")

DatatypeStep(st, t) ==
    LET dt == IF t[1] \in {"iri", "pname"} THEN simple_node(st, t) ELSE [st |-> Fail(st, "expected datatype IRI"), h |-> None]
    IN IF Failed(dt.st) THEN dt.st ELSE deliver(dt.st, dt.st.ret, <<"lit", st.pending, dt.h>>, FALSE)

\* The subject or object of a reified triple or a triple term.
InnerTerm(st, t, ret) ==
    LET object == ret \in {"RtObject", "TtObject"}
    IN IF IsNode(t) THEN Node(st, t, ret)
       ELSE IF t[1] = "[" THEN Bracket(st, ret)
       ELSE IF t[1] = "string" /\ object THEN AwaitString(st, t, ret)
       ELSE IF t[1] = "num" /\ object THEN deliver(st, ret, shorthand_token(t), FALSE)
       ELSE IF t[1] = "<<" /\ ret \in {"RtSubject", "RtObject"} THEN push_rt(st, ret)
       ELSE IF t[1] = "<<(" /\ object THEN push_tt(st, ret)
       ELSE Fail(st, "expected a term of a triple")
InnerVerb(st, t, state) ==
    LET verb == simple_node(st, t)
    IN IF t[1] = "a" THEN To(SetTop(st, "p", Rdf("type")), state)
       ELSE IF t[1] \notin {"iri", "pname"} THEN Fail(st, "expected predicate")
       ELSE IF Failed(verb.st) THEN verb.st ELSE To(SetTop(verb.st, "p", verb.h), state)

\* '~' inside << >>.
RtReifierStep(st, t) ==
    IF IsNode(t) THEN Node(st, t, "RtReifier")
    ELSE IF t[1] = "[" THEN Bracket(st, "RtReifier")
    ELSE IF t[1] = ">>" THEN close_rt(st)
    ELSE Fail(st, "expected reifier or '>>'")

\* '[' is an anonymous node if ']' follows, else it opens a property list,
\* which no other position than a subject's or an object's takes.
BracketTakesList(st) == st.ret \in {"Subject", "Object", "StatementNode"}
OpenList(st) ==
    [Push(Mint(st), [k |-> "BNode", b |-> Minted(st), subject |-> st.subject, predicate |-> st.predicate,
                     ret |-> IF st.ret = "Object" THEN "Object" ELSE "SubjectOptionalPol"])
        EXCEPT !.subject = Minted(st), !.predicate = None, !.state = "Verb"]

RECURSIVE step(_, _)
step(st, t) ==
    LET s == st.state
        \* work that ends without consuming the token
        again(next) == IF Failed(next) THEN next ELSE step(next, t)
    IN IF s = "Statement" THEN StatementStep(st, t)
       ELSE IF s = "MaybeGraph" THEN
            IF t[1] = "{" THEN To(Push([reset_statement(st) EXCEPT !.graph = st.node], [k |-> "Graph"]), "Statement")
            ELSE again([st EXCEPT !.subject = st.node, !.node = None, !.state = "Verb"])
       ELSE IF s = "GraphName" THEN
            IF IsNode(t) THEN Node(st, t, "GraphName")
            ELSE IF t[1] = "[" THEN Bracket(st, "GraphName") ELSE Fail(st, "expected graph label")
       ELSE IF s = "GraphOpen" THEN
            IF t[1] = "{" THEN To(Push(st, [k |-> "Graph"]), "Statement") ELSE Fail(st, "expected '{'")
       ELSE IF s \in {"PrefixName", "PrefixIri", "BaseIri", "VersionString", "DirectiveDot"} THEN DirectiveStep(st, t)
       ELSE IF s \in {"Verb", "VerbOrDot", "AfterSemi"} THEN VerbStep(st, t)
       ELSE IF s = "Object" THEN ObjectStep(st, t)
       ELSE IF s = "AfterString" THEN
            IF t[1] = "lang" THEN
                 IF t[3] # "" /\ ~st.opts.spec12 THEN Fail(st, "requires RDF 1.2 mode")
                 ELSE deliver(st, st.ret, <<"text", st.pending, t[2], t[3]>>, FALSE)
            ELSE IF t[1] \in {"@base", "@prefix", "@version"}
                 THEN deliver(st, st.ret, <<"text", st.pending, t[1], "">>, FALSE)
            ELSE IF t[1] = "^^" THEN To(st, "Datatype")
            ELSE again(deliver(st, st.ret, <<"lit", st.pending, Xsd("string")>>, FALSE))
       ELSE IF s = "Datatype" THEN DatatypeStep(st, t)
       ELSE IF s = "AfterObject" THEN AfterObjectStep(st, t)
       ELSE IF s = "AnnoReifier" THEN
            IF IsNode(t) THEN Node(st, t, "AnnoReifier")
            ELSE IF t[1] = "[" THEN Bracket(st, "AnnoReifier")
            ELSE again(deliver(Mint(st), "AnnoReifier", Minted(st), FALSE))
       ELSE IF s = "Bracket" THEN
            IF t[1] = "]" THEN deliver(Mint(st), st.ret, Minted(st), FALSE)
            ELSE IF BracketTakesList(st) THEN again(OpenList(st)) ELSE Fail(st, "expected ']'")
       ELSE IF s \in {"RtSubject", "TtSubject", "RtObject", "TtObject"} THEN InnerTerm(st, t, s)
       ELSE IF s = "RtPredicate" THEN InnerVerb(st, t, "RtObject")
       ELSE IF s = "TtPredicate" THEN InnerVerb(st, t, "TtObject")
       ELSE IF s = "RtAfterObject" /\ t[1] = "~" THEN To(st, "RtReifierNode")
       ELSE IF s \in {"RtAfterObject", "RtClose"} /\ t[1] = ">>" THEN close_rt(st)
       ELSE IF s = "RtReifierNode" THEN RtReifierStep(st, t)
       ELSE IF s = "TtClose" /\ t[1] = ")>>" THEN close_tt(st)
       ELSE Fail(st, "expected the end of a triple")

-----------------------------------------------------------------------------
(* pump: strict parsing stops at the first error; lenient parsing counts   *)
(* it, drops the open statement and any graph block, and goes on after the *)
(* next '.', which is not the one the error may be about.                  *)

fail(st) ==
    IF ~st.opts.lenient THEN To(st, "Failed")
    ELSE [st EXCEPT !.err = "", !.errors = @ + 1, !.state = "Recover"]
\* A mutant: the frames of the broken statement stay.
ResumeInside(st) == To(reset_statement(st), "Statement")
Resume(st) == [reset_statement(st) EXCEPT !.stack = <<>>, !.graph = None, !.state = "Statement"]
pump(st, t) ==
    IF st.state = "Failed" THEN st
    ELSE IF st.state = "Recover" THEN IF t[1] = "." THEN Resume(st) ELSE st
    ELSE LET next == step(st, t) IN IF Failed(next) THEN fail(next) ELSE next

\* The end of the input inside a statement is an error too.
finish(st) ==
    IF st.state \in {"Failed", "Recover"} \/ (st.state = "Statement" /\ st.stack = <<>>) THEN st
    ELSE fail(Fail(st, "unexpected end of input"))

parse(opts, toks) == finish(FoldLeft(pump, new(opts), toks))
=============================================================================
