--------------------------- MODULE MCLanguageTools ---------------------------
(***************************************************************************)
(* Five instances, one chosen at the start of a behaviour: the language    *)
(* server with an editor, a Turtle document being typed and formatted, a   *)
(* SPARQL document being parsed and printed, one parallel read of an       *)
(* N-Quads document, and one run of a quad pipeline.                       *)
(***************************************************************************)
EXTENDS LspServer
CONSTANT Instances    \* which of them to check
A == INSTANCE LspAnalysis

MCAnalyze(lang, t) == A!turtle_semantic_tokens(t)
MCDiagnose(lang, t) == IF lang = "turtle" THEN A!turtle_diagnostics(t) ELSE <<>>
MCPretty(t) == A!turtle_pretty(t)

Ask(method, malformed, only) == [method |-> method, malformed |-> malformed, only |-> only]
MCAsks(n) ==
    {Ask("full", FALSE, {}), Ask("delta", FALSE, {}), Ask("codeAction", FALSE, {})}
    \cup (IF n # 2 THEN {} ELSE {Ask("delta", TRUE, {}), Ask("unknown", FALSE, {}), Ask("formatting", FALSE, {}),
                                 Ask("codeAction", FALSE, {"source"}), Ask("read", FALSE, {})})
MCTexts == {<<"d1", " ", "d1", "n", "d1", "r", "n", "u2", "w", "u2">>, <<"q", "w", "r", "n", "q", "u1">>}
Edit1(from, to, text, beyond) == [from |-> from, to |-> to, text |-> text, beyond |-> beyond]
MCEdits == {Edit1(0, 0, <<"w", "n", "d1">>, 0), Edit1(1, 4, <<>>, 0), Edit1(5, 5, <<"u1">>, 3), Edit1(2, 2, <<"u2">>, 3)}

\* What the proofs ask of the analyses, of every short text: fixes that meet
\* nowhere, a canonical form that is a text, and tokens in sequence.
Alphabet == {"d1", "d2", "u1", "u2", "e", "q", "w", " ", "n", "r"}
ShortTexts == UNION {[1..n -> Alphabet] : n \in 0..4} \cup MCTexts
ASSUME AnalysesAssumption ==
    \A t \in {x \in ShortTexts : Clean(x)} :
      /\ Applicable(t, MCDiagnose("turtle", t))
      /\ Printable(MCPretty(t))
      /\ IsSeq(MCAnalyze("turtle", t))

-----------------------------------------------------------------------------
(* Turtle: prefixes, collections, nested property lists, annotations,      *)
(* reifiers, a graph block, labels used twice, and pieces that leave a     *)
(* bracket open or close one too many.                                     *)

VARIABLES instance, typed, strict, lenient, head, written, closed
VARIABLES data, threads, tolerant, workers, failed, first_err
VARIABLES pipe, sink, legs, channel, run

Nodes == {"s", "p", "o", "q", "g"}
TurtleToken(w) ==
    CASE w \in Nodes -> <<"iri", "x", w>>
      [] w \in {"1", "2"} -> <<"num", w, "integer">>
      [] w = "_:l" -> <<"blank", "l">>
      [] w = "'v'" -> <<"string", "v", FALSE>>
      [] w = "e:s" -> <<"pname", "e", "s">>
      [] w = "e:" -> <<"pname", "e", "">>
      [] w = "<x>" -> <<"iri", "x", "">>
      [] w = "<r>" -> <<"iri", "", "r">>
      [] OTHER -> <<w>>
Turtle(words) == [i \in 1..Len(words) |-> TurtleToken(words[i])]
MCTurtlePieces ==
    [prefix |-> Turtle(<<"@prefix", "e:", "<x>", ".">>),
     list |-> Turtle(<<"s", "p", "(", "1", "[", "p", "o", "]", ")", ";", "a", "o", ",", "[", "]", ".">>),
     annotation |-> Turtle(<<"s", "p", "o", "{|", "q", "e:s", "|}", "~", "_:l", ",", "'v'", "^^", "o", ".">>),
     graph |-> Turtle(<<"g", "{", "<<", "s", "p", "1", "~", ">>", "q", "(", ")", ".">>),
     close |-> Turtle(<<"}">>),
     label |-> Turtle(<<"_:l", "q", "[", "p", "_:l", "]", ".">>),
     use |-> Turtle(<<"<r>", "p", "_:l", ",", "o", "o", ".">>),
     open |-> Turtle(<<"s", "p", "[", "q", "(", "1", "2">>),
     shut |-> Turtle(<<")", "]", ".">>),
     nest |-> Turtle(<<"[", "p", "[", "q", "o", "]", "]", ".">>)]
T == INSTANCE TurtleDocument WITH
        Pieces <- MCTurtlePieces, MaxPieces <- 3, MAX_TRIPLE_TERM_DEPTH <- 3, Unsafe <- {"a/b"},
        Bare <- {<<"1", "integer">>, <<"2", "integer">>}, Overflow <- 20
typing == <<typed, strict, lenient>>

-----------------------------------------------------------------------------
(* SPARQL: six kinds of document and a piece for each piece of syntax.     *)

SparqlToken(w) ==
    CASE w \in {"p", "q", "r"} -> <<"pname", "p", <<w>>>>
      [] w \in {"?x", "?y", "?z"} -> <<"var", w>>
      [] w = "1" -> <<"integer", <<"integer", "", 1>>>>
      [] w = "-1" -> <<"integer", <<"integer", "-", 1>>>>
      [] w = "_:a" -> <<"bnode", <<0, 5>>>>
      [] w = "_:_b0" -> <<"bnode", <<1, 0>>>>
      [] w = "'s'" -> <<"string", <<"word", "", 1>>>>
      [] OTHER -> <<w>>
Sparql(words) == [i \in 1..Len(words) |-> SparqlToken(words[i])]
Prologue == <<<<"PREFIX">>, <<"pname", "p", <<>>>>, <<"iriref", <<"n">>>>>>
Start(update, words) == [update |-> update, tokens |-> Prologue \o Sparql(words)]
MCHeads ==
    [select |-> Start(FALSE, <<"SELECT", "*", "WHERE", "{">>),
     project |-> Start(FALSE, <<"SELECT", "DISTINCT", "?x", "(", "COUNT", "(", "*", ")", "AS", "?y", ")", "{">>),
     construct |-> Start(FALSE, <<"CONSTRUCT", "WHERE", "{">>),
     template |-> Start(FALSE, <<"CONSTRUCT", "{", "anon", "p", "?x", ".", "}", "{">>),
     data |-> Start(TRUE, <<"INSERT", "DATA", "{">>),
     modify |-> Start(TRUE, <<"WITH", "p", "DELETE", "{", "?x", "p", "?y", "}", "INSERT", "{", "_:a", "q", "?x", "}",
                              "USING", "q", "WHERE", "{">>)]
MCSparqlPieces ==
    [commas |-> Sparql(<<"p", "p", "1", ";", "q", "1", ",", "_:a", ".">>),
     arith |-> Sparql(<<"FILTER", "(", "?x", "-1", "*", "?y", "=", "!", "(", "?x", "&&", "-1", ")", ")">>),
     list |-> Sparql(<<"p", "p", "(", "1", "[", "q", "'s'", "]", ")", ".", "[", "p", "1", "]", "q", "p", ".",
                       "(", "1", ")", "p", "anon", ".">>),
     path |-> Sparql(<<"?x", "p", "/", "(", "q", "|", "^", "r", ")", "*", "?y", "~", "?z", "{|", "p", "1", "|}">>),
     optional |-> Sparql(<<"OPTIONAL", "{", "?x", "a", "nil", "}", "MINUS", "{", "}",
                           "{", "?x", "p", "?y", "}", "UNION", "{", "}">>),
     bind |-> Sparql(<<"BIND", "(", "-", "1", "AS", "?z", ")", "VALUES", "(", "?x", "?y", ")", "{", "(", "UNDEF", "1", ")", "}">>),
     exists |-> Sparql(<<"FILTER", "NOT", "EXISTS", "{", "anon", "p", "_:_b0", "}">>),
     subselect |-> Sparql(<<"{", "SELECT", "?x", "WHERE", "{", "?x", "p", "<<", "?x", "q", "?z", ">>", "}", "}">>),
     modifiers |-> Sparql(<<"}", "GROUP", "BY", "?x", "HAVING", "(", "?x", "IN", "(", "1", ",", "?x", ")", ")",
                            "ORDER", "BY", "DESC", "(", "?x", ")", "?y", "LIMIT", "1">>),
     next |-> Sparql(<<"}", ";", "COPY", "DEFAULT", "TO", "q", ";", "LOAD", "SILENT", "q", "INTO", "GRAPH", "r", ";",
                       "INSERT", "DATA", "{">>),
     graph |-> Sparql(<<"GRAPH", "p", "{", "p", "q", "(", "1", ")", "}">>),
     term |-> Sparql(<<"p", "q", "<<(", "p", "p", "anon", ")>>", ".", "_:_b0", "q", "anon", ".">>)]
S == INSTANCE SparqlDocument WITH Heads <- MCHeads, Pieces <- MCSparqlPieces, MaxPieces <- 2, MaxDepth <- 12
writing == <<head, written, closed>>

-----------------------------------------------------------------------------
(* N-Quads: up to three lines, some of them wrong, cut into up to three    *)
(* segments that are read four tokens at a time.                           *)

NxToken(w) ==
    CASE w \in Nodes \cup {""} -> <<"iri", w>>
      [] w \in {"_:a", "_:b"} -> <<"blank", w>>
      [] w = "'v'" -> <<"string", "v", FALSE>>
      [] w = "@en" -> <<"lang", "en", "">>
      [] OTHER -> <<w>>
Line(words) == [i \in 1..Len(words) |-> NxToken(words[i])] \o <<<<"nl">>>>
Lines ==
    {Line(<<"s", "p", "_:a", ".">>), Line(<<"_:b", "p", "'v'", "@en", "_:a", ".">>), Line(<<>>), Line(<<"s", "bad">>),
     Line(<<"s", "p", "<<(", "_:b", "p", "'v'", ")>>", ".">>), Line(<<"s", "p", "'v'", "^^", "q", ".", "">>), Line(<<"s", "p">>)}
MCDocuments == Lines \cup {k \o l : k, l \in Lines} \cup {j \o k \o l : j, k, l \in Lines}
N == INSTANCE SegmentParser WITH
        Documents <- MCDocuments, MaxThreads <- 3, CHUNK <- 4, MAX_TRIPLE_TERM_DEPTH <- 2, lenient <- tolerant
reading == <<data, threads, tolerant, workers, failed, first_err>>

-----------------------------------------------------------------------------
(* Pipelines: three inputs of up to three quads, with a subject that comes *)
(* back, a second spelling, a named graph, a bad chunk or nothing in them. *)

Quad(s, o, g, bare) == [s |-> s, p |-> "p", o |-> o, g |-> g, bare |-> bare]
Good(quads) == [quads |-> quads, bad |-> FALSE]
BadChunk == [quads |-> <<>>, bad |-> TRUE]
MCInputs ==
    {<<<<Good(<<Quad("a", 1, <<>>, FALSE), Quad("b", 1, <<>>, FALSE)>>), Good(<<Quad("a", 2, <<>>, FALSE)>>)>>,
       <<Good(<<Quad("a", 1, <<>>, TRUE)>>), Good(<<Quad("b", 1, <<"g">>, FALSE)>>)>>, <<>>>>,
     <<<<Good(<<Quad("a", 1, <<>>, FALSE)>>), Good(<<Quad("b", 2, <<>>, FALSE)>>)>>,
       <<Good(<<Quad("a", 3, <<>>, FALSE)>>), BadChunk>>, <<Good(<<Quad("b", 3, <<>>, FALSE), Quad("b", 4, <<>>, FALSE)>>)>>>>}
Stage(kind, n, unit) == [kind |-> kind, n |-> n, unit |-> unit]
MCBefore == {<<>>, <<Stage("head", 1, "subjects")>>, <<Stage("tail", 2, "quads")>>, <<Stage("skip", 1, "quads"), Stage("tree", 0, "quads")>>}
MCAfter == {<<>>, <<Stage("head", 1, "quads")>>, <<Stage("skip", 1, "subjects"), Stage("tree", 0, "quads")>>,
            <<Stage("tail", 1, "subjects"), Stage("head", 1, "quads")>>}
Plan(inputs, before, junction, after, terminal, scan) ==
    [inputs |-> inputs, before |-> before, junction |-> junction, after |-> after, terminal |-> terminal, scan |-> scan]
MCPipes ==
    {Plan(<<<<>>>>, <<>>, "none", <<>>, "nq", FALSE)}
    \cup {Plan(i, b, j, a, "nq", FALSE) : i \in MCInputs, b \in MCBefore, j \in {"concat", "merge"}, a \in MCAfter}
    \cup {Plan(i, a, "none", <<>>, t, TRUE) : i \in MCInputs, a \in MCAfter, t \in {"nt", "subjects"}}
    \cup {Plan(<<i[1]>>, b \o a, "none", <<>>, "count", FALSE) : i \in MCInputs, b \in MCBefore, a \in MCAfter}
P == INSTANCE Pipeline WITH Pipes <- MCPipes, ITEMS <- 2, DEPTH <- 1
piping == <<pipe, sink, legs, channel, run>>

-----------------------------------------------------------------------------
TurtleIdle == T!TurtleInit
SparqlIdle == S!SparqlInit /\ head = "select"
SegmentIdle == N!SegmentInit /\ data = Line(<<>>) /\ threads = 1 /\ ~tolerant
PipeIdle == P!PipeInit /\ pipe = Plan(<<<<>>>>, <<>>, "none", <<>>, "nq", FALSE)

MCInit ==
    /\ instance \in Instances
    /\ Init /\ TurtleIdle
    /\ IF instance = "sparql" THEN S!SparqlInit ELSE SparqlIdle
    /\ IF instance = "segments" THEN N!SegmentInit ELSE SegmentIdle
    /\ IF instance = "pipeline" THEN P!PipeInit ELSE PipeIdle
MCNext ==
    /\ UNCHANGED instance
    /\ \/ instance = "editor" /\ Next /\ UNCHANGED <<typing, writing, reading, piping>>
       \/ instance = "turtle" /\ T!TurtleNext /\ UNCHANGED <<vars, writing, reading, piping>>
       \/ instance = "sparql" /\ S!SparqlNext /\ UNCHANGED <<vars, typing, reading, piping>>
       \/ instance = "segments" /\ N!SegmentNext /\ UNCHANGED <<vars, typing, writing, piping>>
       \/ instance = "pipeline" /\ P!PipeNext /\ UNCHANGED <<vars, typing, writing, reading>>
MCSpec == MCInit /\ [][MCNext]_<<instance, vars, typing, writing, reading, piping>>

\* fixAll does what it says on the text it was asked about, through the LSP
\* ranges of all its edits: no unused declaration is left, and a well-known
\* prefix is still undeclared only where its declaration comes too late.
FixAllFixes ==
    \A u \in Uri : fixed[u] /\ copy[u].lang = "turtle" =>
        LET t == copy[u].text
        IN /\ A!turtle_unused_prefixes(t) = <<>>
           /\ \A p \in A!WellKnown : \A i \in A!UsedAt(t, p) :
                A!Undeclared(t, i) => \E d \in A!DeclaredAt(t, p) : d > i

\* The pretty printer says what the document says, outside the shapes in which
\* it parts a blank node from its description (turtle_pretty over Tree and
\* the capturing TurtleWriter).
TurtleRoundTrip == T!TurtleRoundTrip

\* The formatter does "never mangle a broken buffer", nor any other
\* (graphy-lsp format.rs).
NeverMangled == T!NeverMangled

\* The lenient Turtle parser agrees with the strict one up to the first error
\* and resumes as if nothing had happened (turtle.rs recover).
LenientAgrees == T!LenientAgrees

\* The canonical printer's output parses to the same query or update and
\* prints as itself (print.rs).
RoundTrip == S!RoundTrip

\* The recovering SPARQL parser agrees with the strict one up to the first
\* error (parser.rs).
RecoveryAgrees == S!RecoveryAgrees

\* The segments of a parallel read deliver what one parser reads (par.rs).
SegmentsExact == N!SegmentsExact

\* A pipeline run ends, and writes what its operators promise of the inputs in
\* an order its junction allows (plan.rs run, source.rs scan_stream).
PipelineExact == P!PipelineExact
=============================================================================
