------------------------------ MODULE LspServer ------------------------------
(***************************************************************************)
(* The language server (graphy-lsp/src/server.rs, document.rs): its loop,  *)
(* the open documents and the semantic-token baselines, with the client at *)
(* the other end of two FIFO channels.                                     *)
(*                                                                         *)
(* A text is a sequence of characters, some of them two UTF-16 units wide; *)
(* an offset counts the characters before it (the code's byte offsets are  *)
(* those of character boundaries).  The analyses are operators of a text:  *)
(* Analyze its tokens in order, Diagnose its diagnostics with their fixes, *)
(* Pretty its canonical form.  The requests that only read a document      *)
(* (hover, completion, folding, symbols, a token range) are one method.    *)
(* Line ends are LF and CR LF: at a lone CR the rope and the line index    *)
(* disagree on what a line is.                                             *)
(***************************************************************************)
EXTENDS Integers, Sequences, FiniteSets, SequencesExt

CONSTANTS
    Uri,
    Texts,          \* what a document may be opened with
    Edits,          \* the edits the client makes, [from, to, text, beyond]
    Languages,      \* of Lang: "turtle", "sparql", "jsonld"
    Asks(_),        \* the requests the client may make as its n-th operation
    MaxOps,         \* bound: client operations
    MaxQueue,       \* bound: client messages in flight
    Analyze(_, _),  \* language, text -> tokens [from, to, kind]
    Diagnose(_, _), \* language, text -> diagnostics [from, to, sev, kind, edits]
    Pretty(_)       \* text -> <<canonical text>>, or <<>> when it refuses

LF == "n"
CR == "r"
Astral == "w"       \* a character of two UTF-16 units

VARIABLES
    docs,           \* DocStore: the open documents
    tokens,         \* State::tokens, the last result handed out per document
    result_ids,     \* State::result_ids
    up,             \* whether main_loop runs
    c2s, s2c,       \* the channels
    copy,           \* the client's documents
    baseline,       \* the client's semantic tokens per document
    shown,          \* the diagnostics the client shows per document
    fixed,          \* whether the client's text is what fixAll made of it
    ops,            \* client operations so far
    asked           \* the requests so far: what was asked, of which text, and
                    \* how many responses came

svars == <<docs, tokens, result_ids, up>>
cvars == <<copy, baseline, shown, fixed, ops, asked>>
vars == <<svars, cvars, c2s, s2c>>

-----------------------------------------------------------------------------
(* Positions.                                                              *)

IsSeq(q) == q \in Seq({q[i] : i \in 1..Len(q)}) /\ Len(q) \in Nat
\* A text: a CR only as the first half of a line end.
Clean(t) == IsSeq(t) /\ \A i \in 1..Len(t) : t[i] = CR => i < Len(t) /\ t[i + 1] = LF
CleanInputs ==
    /\ \A t \in Texts : Clean(t)
    /\ \A e \in Edits : e.from \in Nat /\ e.to \in Nat /\ e.from <= e.to /\ e.beyond \in Nat /\ Clean(e.text)
ASSUME InputsAssumption == CleanInputs

Ascending(S) == [k \in 1..Cardinality(S) |-> CHOOSE x \in S : Cardinality({y \in S : y < x}) = k - 1]
utf16_len(t) == Len(t) + Cardinality({i \in 1..Len(t) : t[i] = Astral})
Newlines(t) == {i \in 1..Len(t) : t[i] = LF}
len_lines(t) == Cardinality(Newlines(t)) + 1
\* line_to_char: the offset where the line starts.
line_to_char(t, line) ==
    IF line = 0 THEN 0 ELSE CHOOSE i \in Newlines(t) : Cardinality({j \in Newlines(t) : j <= i}) = line

\* LineIndex::position.
position(t, at) ==
    LET line == Cardinality({i \in Newlines(t) : i <= at})
    IN <<line, utf16_len(SubSeq(t, line_to_char(t, line) + 1, at))>>
byte_range(t, from, to) == [start |-> position(t, from), end |-> position(t, to)]

\* The line's end, before its terminator.
LineEnd(t, line) ==
    IF line + 1 = len_lines(t) THEN Len(t)
    ELSE LET e == line_to_char(t, line + 1) - 1
         IN IF e > line_to_char(t, line) /\ t[e] = CR THEN e - 1 ELSE e

\* utf16_cu_to_char: the character a unit belongs to.
Char(t, units) ==
    CHOOSE k \in 0..Len(t) : /\ utf16_len(SubSeq(t, 1, k)) <= units
                             /\ k < Len(t) => utf16_len(SubSeq(t, 1, k + 1)) > units

\* Mutant: columns counted in characters.
CharColumns(t, pos) ==
    LET start == line_to_char(t, pos[1])
        last == LineEnd(t, pos[1])
    IN IF pos[1] >= len_lines(t) THEN Len(t)
       ELSE IF start + pos[2] < last THEN start + pos[2] ELSE last

\* Doc::position_to_char: a line past the end is the end of the document, a
\* column past the line is its end.
position_to_char(t, pos) ==
    LET units(k) == utf16_len(SubSeq(t, 1, k))
        target == units(line_to_char(t, pos[1])) + pos[2]
        last == units(LineEnd(t, pos[1]))
    IN IF pos[1] >= len_lines(t) THEN Len(t) ELSE Char(t, IF target < last THEN target ELSE last)

\* Doc::apply: one content change.
Splice(t, from, to, text) == SubSeq(t, 1, from) \o text \o SubSeq(t, to + 1, Len(t))
apply(t, change) ==
    LET from == position_to_char(t, change.start)
        to == position_to_char(t, change.end)
    IN IF change.whole THEN change.text
       ELSE IF from <= to THEN Splice(t, from, to, change.text) ELSE t
\* The changes of one notification, each to the text the one before left.
applied(t, changes) ==
    LET text[i \in 0..Len(changes)] == IF i = 0 THEN t ELSE apply(text[i - 1], changes[i])
    IN text[Len(changes)]

-----------------------------------------------------------------------------
(* Semantic tokens.                                                        *)

\* SemBuilder::push: a span split at the line ends it covers.
push(t, tok) ==
    LET breaks == {i \in Newlines(t) : tok.from < i /\ i <= tok.to}
        starts == {tok.from} \cup breaks
        stop(s) == LET later == {b \in breaks : b > s}
                       nl == CHOOSE b \in later : \A c \in later : b <= c
                   IN IF later = {} THEN tok.to
                      ELSE IF nl - 1 > s /\ t[nl - 1] = CR THEN nl - 2 ELSE nl - 1
        pieces == Ascending({s \in starts : stop(s) > s})
    IN [k \in 1..Len(pieces) |->
          [at |-> position(t, pieces[k]), kind |-> tok.kind,
           len |-> utf16_len(SubSeq(t, pieces[k] + 1, stop(pieces[k])))]]
SemTokens(lang, t) ==
    LET toks == Analyze(lang, t)
    IN FlattenSeq([i \in 1..Len(toks) |-> push(t, toks[i])])

\* encode: five integers a token, relative to the token before.
Width == 5
encode(toks) ==
    FlattenSeq([i \in 1..Len(toks) |->
        LET prev == IF i = 1 THEN <<0, 0>> ELSE toks[i - 1].at
            line == toks[i].at[1] - prev[1]
        IN <<line, IF line = 0 THEN toks[i].at[2] - prev[2] ELSE toks[i].at[2], toks[i].len, toks[i].kind, 0>>])
Encoded(lang, t) == encode(SemTokens(lang, t))

\* to_wire: whole tokens only (chunks_exact).
to_wire(data) == SubSeq(data, 1, Len(data) - (Len(data) % Width))

Greatest(S) == CHOOSE x \in S : \A y \in S : x >= y
\* token_edit: the splice between the common prefix and the common suffix,
\* both cut back to whole tokens.
Edit(old, new, unit) ==
    LET cut(k) == k - (k % unit)
        common == IF Len(old) < Len(new) THEN Len(old) ELSE Len(new)
        prefix == cut(Greatest({k \in 0..common : \A i \in 1..k : old[i] = new[i]}))
        suffix == cut(Greatest({k \in 0..(common - prefix) :
                                  \A i \in 0..(k - 1) : old[Len(old) - i] = new[Len(new) - i]}))
    IN [start |-> prefix, delete |-> Len(old) - prefix - suffix,
        data |-> to_wire(SubSeq(new, prefix + 1, Len(new) - suffix))]
\* Mutant: the splice starts at the first integer that differs.
unaligned_edit(old, new) == Edit(old, new, 1)
token_edit(old, new) == Edit(old, new, Width)

whole_doc_edit(t, new) == [start |-> position(t, 0), end |-> position(t, Len(t)), text |-> new]

-----------------------------------------------------------------------------
(* Code actions.                                                           *)

\* kind_wanted: a requested kind or a dotted prefix of the kind.
kind_wanted(only, kind) ==
    \/ only = {}
    \/ kind \in only
    \/ "source" \in only /\ kind # "quickfix"

Wire(t, edit) == [start |-> position(t, edit.from), end |-> position(t, edit.to), text |-> edit.text]
Before(p, q) == p[1] < q[1] \/ (p[1] = q[1] /\ p[2] <= q[2])
Overlaps(r, s) == Before(r.start, s.end) /\ Before(s.start, r.end)
\* The fixes of the diagnostics at some indices, in order.
Fixes(diags, I) == LET at == Ascending(I) IN FlattenSeq([k \in 1..Len(at) |-> diags[at[k]].edits])
WireEdits(t, edits) == [k \in 1..Len(edits) |-> Wire(t, edits[k])]
\* A stable sort by start.
Sorted(edits) ==
    LET less(i, j) == /\ Before(edits[i].start, edits[j].start)
                      /\ edits[i].start = edits[j].start => i < j
        rank(i) == Cardinality({j \in DOMAIN edits : j # i /\ less(j, i)})
    IN [k \in 1..Len(edits) |-> edits[CHOOSE i \in DOMAIN edits : rank(i) = k - 1]]

\* The CodeActionRequest arm: a quick fix per fixable diagnostic at the
\* cursor, then the two aggregates, each also as a quick fix when it would do
\* more than that one fix, then the pretty-print.
actions(doc, range, only) ==
    LET t == doc.text
        diags == Diagnose(doc.lang, t)
        fixable == {i \in 1..Len(diags) : diags[i].edits # <<>>}
        here == {i \in fixable : Overlaps(byte_range(t, diags[i].from, diags[i].to), range)}
        at == Ascending(here)
        quick == IF ~kind_wanted(only, "quickfix") THEN <<>>
                 ELSE [k \in 1..Len(at) |-> [kind |-> "quickfix", edits |-> WireEdits(t, diags[at[k]].edits)]]
        aggregate(kind, wanted) ==
            LET edits == Sorted(WireEdits(t, Fixes(diags, wanted)))
                twin == kind_wanted(only, "quickfix") /\ Cardinality(wanted) > 1 /\ here \cap wanted # {}
            IN IF edits = <<>> THEN <<>>
               ELSE (IF twin THEN <<[kind |-> "quickfix", edits |-> edits]>> ELSE <<>>)
                    \o (IF kind_wanted(only, kind) THEN <<[kind |-> kind, edits |-> edits]>> ELSE <<>>)
        pretty == IF doc.lang = "turtle" /\ kind_wanted(only, "source.prettyPrint") THEN Pretty(t) ELSE <<>>
    IN quick
       \o aggregate("source.removeUnusedImports", {i \in fixable : diags[i].kind = "unused"})
       \o aggregate("source.fixAll", fixable)
       \o (IF pretty \in {<<>>, <<t>>} THEN <<>>
           ELSE <<[kind |-> "source.prettyPrint", edits |-> <<whole_doc_edit(t, pretty[1])>>]>>)

-----------------------------------------------------------------------------
(* The server: main_loop takes one message and sends what answers it.      *)

Closed == [open |-> FALSE, lang |-> "turtle", text |-> <<>>, version |-> 0]
NoTokens == [id |-> 0, data |-> <<>>]
Send(out) == s2c' = s2c \o out
respond(id, kind, body) == <<[kind |-> kind, id |-> id, body |-> body]>>
NotOpen(id) == respond(id, "null", <<>>)
send_diagnostics(uri, version, diags) ==
    <<[kind |-> "diagnostics", uri |-> uri, version |-> version, diags |-> diags]>>
publish_diagnostics(uri, doc) ==
    LET diags == Diagnose(doc.lang, doc.text)
    IN send_diagnostics(uri, doc.version,
           [i \in 1..Len(diags) |-> byte_range(doc.text, diags[i].from, diags[i].to)])

DidOpen(msg) ==
    LET doc == [open |-> TRUE, lang |-> msg.lang, text |-> msg.text, version |-> msg.version]
    IN /\ docs' = [docs EXCEPT ![msg.uri] = doc]
       /\ tokens' = [tokens EXCEPT ![msg.uri] = NoTokens]
       /\ Send(publish_diagnostics(msg.uri, doc))
       /\ UNCHANGED <<result_ids, up>>

\* Mutant: published before the changes are applied.
PublishesFirst(msg) ==
    LET doc == docs[msg.uri]
    IN /\ docs' = [docs EXCEPT ![msg.uri] =
                      [doc EXCEPT !.text = applied(@, msg.changes), !.version = msg.version]]
       /\ Send(publish_diagnostics(msg.uri, [doc EXCEPT !.version = msg.version]))
       /\ UNCHANGED <<tokens, result_ids, up>>
DidChange(msg) ==
    LET doc == [docs[msg.uri] EXCEPT !.text = applied(@, msg.changes), !.version = msg.version]
    IN IF ~docs[msg.uri].open THEN UNCHANGED <<svars, s2c>>
       ELSE /\ docs' = [docs EXCEPT ![msg.uri] = doc]
            /\ Send(publish_diagnostics(msg.uri, doc))
            /\ UNCHANGED <<tokens, result_ids, up>>

DidClose(msg) ==
    /\ docs' = [docs EXCEPT ![msg.uri] = Closed]
    /\ tokens' = [tokens EXCEPT ![msg.uri] = NoTokens]
    /\ Send(send_diagnostics(msg.uri, 0, <<>>))
    /\ UNCHANGED <<result_ids, up>>

\* semanticTokens/full and /full/delta: both make the answer the baseline; a
\* delta answers a splice if the client quotes the baseline there was.
Tokens(msg) == [id |-> result_ids + 1, data |-> Encoded(docs[msg.uri].lang, docs[msg.uri].text)]
HandOut(msg, answer) ==
    IF ~docs[msg.uri].open THEN Send(NotOpen(msg.id)) /\ UNCHANGED svars
    ELSE /\ tokens' = [tokens EXCEPT ![msg.uri] = Tokens(msg)]
         /\ result_ids' = result_ids + 1
         /\ Send(answer)
         /\ UNCHANGED <<docs, up>>
FullTokens(msg) == respond(msg.id, "tokens", [Tokens(msg) EXCEPT !.data = to_wire(@)])
SemanticTokensFull(msg) == HandOut(msg, FullTokens(msg))
SemanticTokensFullDelta(msg) ==
    LET prev == tokens[msg.uri]
        new == Tokens(msg)
    IN HandOut(msg,
         IF prev.id = 0 \/ prev.id # msg.previous THEN FullTokens(msg)
         ELSE respond(msg.id, "delta",
                [id |-> new.id, edits |-> IF prev.data = new.data THEN <<>> ELSE <<token_edit(prev.data, new.data)>>]))

\* The requests that read a document and change nothing.
Read(msg) ==
    /\ Send(IF docs[msg.uri].open THEN respond(msg.id, "read", SemTokens(docs[msg.uri].lang, docs[msg.uri].text)) ELSE NotOpen(msg.id))
    /\ UNCHANGED svars
Formatting(msg) ==
    LET doc == docs[msg.uri]
        new == Pretty(doc.text)
    IN /\ Send(IF ~doc.open \/ doc.lang # "turtle" \/ new = <<>> THEN NotOpen(msg.id)
                ELSE respond(msg.id, "edits", IF new[1] = doc.text THEN <<>> ELSE <<whole_doc_edit(doc.text, new[1])>>))
       /\ UNCHANGED svars
CodeAction(msg) ==
    LET doc == docs[msg.uri]
    IN /\ Send(IF doc.open THEN respond(msg.id, "actions", actions(doc, msg.range, msg.only)) ELSE NotOpen(msg.id))
       /\ UNCHANGED svars

\* valid_params: malformed params are answered too.
DropsMalformed(msg) == UNCHANGED <<svars, s2c>>   \* mutant
InvalidParams(msg) == Send(respond(msg.id, "error", <<"InvalidParams">>)) /\ UNCHANGED svars

handle_request(msg) ==
    \/ msg.malformed /\ msg.method # "unknown" /\ InvalidParams(msg)
    \/ ~msg.malformed /\ msg.method = "full" /\ SemanticTokensFull(msg)
    \/ ~msg.malformed /\ msg.method = "delta" /\ SemanticTokensFullDelta(msg)
    \/ ~msg.malformed /\ msg.method = "read" /\ Read(msg)
    \/ ~msg.malformed /\ msg.method = "formatting" /\ Formatting(msg)
    \/ ~msg.malformed /\ msg.method = "codeAction" /\ CodeAction(msg)
    \/ /\ msg.method = "unknown"
       /\ Send(respond(msg.id, "error", <<"MethodNotFound">>))
       /\ UNCHANGED svars

\* handle_shutdown answers and ends the loop.
ShutDown(msg) ==
    /\ up' = FALSE
    /\ Send(respond(msg.id, "null", <<>>))
    /\ UNCHANGED <<docs, tokens, result_ids>>

Serve ==
    /\ up /\ c2s # <<>>
    /\ c2s' = Tail(c2s)
    /\ LET msg == Head(c2s)
       IN \/ msg.kind = "open" /\ DidOpen(msg)
          \/ msg.kind = "change" /\ DidChange(msg)
          \/ msg.kind = "close" /\ DidClose(msg)
          \/ msg.kind = "request" /\ handle_request(msg)
          \/ msg.kind = "shutdown" /\ ShutDown(msg)
    /\ UNCHANGED cvars

-----------------------------------------------------------------------------
(* The client, an editor: it edits by offsets, sends LSP positions, holds  *)
(* the tokens and diagnostics it was last given, and applies code actions. *)

Room == up /\ ops < MaxOps /\ Len(c2s) < MaxQueue
Post(msg) == c2s' = Append(c2s, msg) /\ ops' = ops + 1 /\ UNCHANGED <<svars, s2c>>

\* An editor's caret is never inside a line end.
Carets(t) == {k \in 0..Len(t) : ~(k > 0 /\ k < Len(t) /\ t[k] = CR /\ t[k + 1] = LF)}
AtLineEnd(t, k) == IF k < Len(t) THEN t[k + 1] \in {CR, LF} ELSE TRUE

OpenDocument(u) ==
    /\ Room /\ ~copy[u].open
    /\ \E lang \in Languages, text \in Texts :
         /\ copy' = [copy EXCEPT ![u] = [open |-> TRUE, lang |-> lang, text |-> text, version |-> ops]]
         /\ Post([kind |-> "open", uri |-> u, lang |-> lang, text |-> text, version |-> ops])
    /\ fixed' = [fixed EXCEPT ![u] = FALSE]
    /\ UNCHANGED <<baseline, shown, asked>>

CloseDocument(u) ==
    /\ Room /\ copy[u].open
    /\ copy' = [copy EXCEPT ![u] = Closed]
    /\ Post([kind |-> "close", uri |-> u])
    /\ fixed' = [fixed EXCEPT ![u] = FALSE]
    /\ UNCHANGED <<baseline, shown, asked>>

\* The end column may be exaggerated: "defaults back to the line length".
ReplaceText(u) ==
    /\ Room /\ copy[u].open
    /\ LET t == copy[u].text
       IN \E e \in Edits :
            /\ {e.from, e.to} \subseteq Carets(t)
            /\ e.beyond > 0 => AtLineEnd(t, e.to)
            /\ copy' = [copy EXCEPT ![u].text = Splice(t, e.from, e.to, e.text), ![u].version = ops]
            /\ Post([kind |-> "change", uri |-> u, version |-> ops,
                     changes |-> <<[whole |-> FALSE, start |-> position(t, e.from), text |-> e.text,
                                    end |-> [position(t, e.to) EXCEPT ![2] = @ + e.beyond]]>>])
    /\ fixed' = [fixed EXCEPT ![u] = FALSE]
    /\ UNCHANGED <<baseline, shown, asked>>

Request(u) ==
    /\ Room
    /\ \E ask \in Asks(ops) :
         /\ asked' = Append(asked, [method |-> ask.method, uri |-> u, doc |-> copy[u],
                                    quoted |-> baseline[u].data, got |-> 0])
         /\ Post([kind |-> "request", id |-> Len(asked) + 1, uri |-> u, method |-> ask.method,
                  malformed |-> ask.malformed, only |-> ask.only, previous |-> baseline[u].id,
                  range |-> byte_range(copy[u].text, 0, Len(copy[u].text))])
    /\ UNCHANGED <<copy, baseline, shown, fixed>>

Shutdown ==
    /\ Room
    /\ asked' = Append(asked, [method |-> "shutdown", uri |-> CHOOSE u \in Uri : TRUE,
                               doc |-> Closed, quoted |-> <<>>, got |-> 0])
    /\ c2s' = Append(c2s, [kind |-> "shutdown", id |-> Len(asked) + 1])
    /\ ops' = MaxOps
    /\ UNCHANGED <<svars, s2c, copy, baseline, shown, fixed>>

\* The client's own reading of a position of a text it has.
Offset(t, pos) == CHOOSE k \in 0..Len(t) : position(t, k) = pos
\* A workspace edit, in whatever order it lists its edits: from the last to the
\* first, so that ranges stay good.
LastFirst(edits) == Reverse(Sorted(edits))
EditText(t, edits) ==
    LET es == LastFirst(edits)
        text[i \in 0..Len(es)] ==
            IF i = 0 THEN t ELSE Splice(text[i - 1], Offset(t, es[i].start), Offset(t, es[i].end), es[i].text)
    IN text[Len(es)]
ApplyEdits(u, edits, all) ==
    /\ ops < MaxOps /\ edits # <<>>
    /\ copy' = [copy EXCEPT ![u].text = EditText(@, edits), ![u].version = ops]
    /\ c2s' = Append(c2s, [kind |-> "change", uri |-> u, version |-> ops,
                           changes |-> [i \in 1..Len(edits) |->
                               LET e == LastFirst(edits)[i]
                               IN [whole |-> FALSE, start |-> e.start, end |-> e.end, text |-> e.text]]])
    /\ ops' = ops + 1
    /\ fixed' = [fixed EXCEPT ![u] = all]

ApplyDelta(data, edits) ==
    IF edits = <<>> THEN data
    ELSE Splice(data, edits[1].start, edits[1].start + edits[1].delete, edits[1].data)

ReceiveDiagnostics(msg) ==
    /\ msg.kind = "diagnostics"
    /\ shown' = [shown EXCEPT ![msg.uri] = [version |-> msg.version, diags |-> msg.diags]]
    /\ UNCHANGED <<copy, baseline, fixed, ops, asked, c2s>>
ReceiveResponse(msg) ==
    /\ msg.kind # "diagnostics"
    /\ asked' = [asked EXCEPT ![msg.id].got = @ + 1]
    /\ LET ask == asked[msg.id]
           hold(data) == baseline' = [baseline EXCEPT ![ask.uri] =
                                        [id |-> msg.body.id, data |-> data, doc |-> ask.doc]]
           current == copy[ask.uri].open /\ copy[ask.uri] = ask.doc
       IN \/ /\ msg.kind = "tokens" /\ hold(msg.body.data)
             /\ UNCHANGED <<copy, fixed, ops, c2s>>
          \/ /\ msg.kind = "delta" /\ hold(ApplyDelta(ask.quoted, msg.body.edits))
             /\ UNCHANGED <<copy, fixed, ops, c2s>>
          \/ /\ msg.kind = "edits" /\ current
             /\ ApplyEdits(ask.uri, msg.body, FALSE)
             /\ UNCHANGED baseline
          \/ /\ msg.kind = "actions" /\ current
             /\ \E i \in 1..Len(msg.body) :
                  ApplyEdits(ask.uri, msg.body[i].edits, msg.body[i].kind = "source.fixAll")
             /\ UNCHANGED baseline
          \/ /\ msg.kind \notin {"tokens", "delta"}
             /\ UNCHANGED <<baseline, copy, fixed, ops, c2s>>
    /\ UNCHANGED shown
Receive ==
    /\ s2c # <<>>
    /\ s2c' = Tail(s2c)
    /\ ReceiveDiagnostics(Head(s2c)) \/ ReceiveResponse(Head(s2c))
    /\ UNCHANGED svars

NoDiagnostics == [version |-> 0, diags |-> <<>>]
Init ==
    /\ docs = [u \in Uri |-> Closed]
    /\ tokens = [u \in Uri |-> NoTokens]
    /\ result_ids = 0
    /\ up = TRUE
    /\ c2s = <<>> /\ s2c = <<>>
    /\ copy = [u \in Uri |-> Closed]
    /\ baseline = [u \in Uri |-> [id |-> 0, data |-> <<>>, doc |-> Closed]]
    /\ shown = [u \in Uri |-> NoDiagnostics]
    /\ fixed = [u \in Uri |-> FALSE]
    /\ ops = 0
    /\ asked = <<>>

Next ==
    \/ Serve
    \/ Receive
    \/ \E u \in Uri : OpenDocument(u) \/ CloseDocument(u) \/ ReplaceText(u) \/ Request(u)
    \/ Shutdown

Spec == Init /\ [][Next]_vars

-----------------------------------------------------------------------------
(* What the code actions need of the analyses: the fixes of a text are     *)
(* edits at its carets that overlap nowhere, its canonical form is a text. *)

Clear(e, f) == e.to <= f.from \/ (f.to <= e.from /\ f.from < e.from)
Applicable(t, diags) ==
    /\ IsSeq(diags)
    /\ \A i \in 1..Len(diags) :
         /\ IsSeq(diags[i].edits)
         /\ \A k \in 1..Len(diags[i].edits) :
              LET e == diags[i].edits[k]
              IN e.from \in Carets(t) /\ e.to \in Carets(t) /\ e.from <= e.to /\ Clean(e.text)
    /\ \A i, j \in 1..Len(diags) : \A k \in 1..Len(diags[i].edits), l \in 1..Len(diags[j].edits) :
         i < j \/ (i = j /\ k < l) => Clear(diags[i].edits[k], diags[j].edits[l])
Printable(new) == new # <<>> => Clean(new[1])

-----------------------------------------------------------------------------
(* Properties.                                                             *)

\* The tokens the client holds are those of the document as it stood at the
\* request they answer, whether they came whole or as splices of splices, over
\* edits, reopenings and requests in flight together.
DeltaFaithful ==
    \A u \in Uri : baseline[u].id # 0 =>
        baseline[u].data = Encoded(baseline[u].doc.lang, baseline[u].doc.text)

\* Once the server has taken everything, its documents are the client's: the
\* UTF-16 positions, the clamped columns and the order of the changes of one
\* notification all mean the same on both sides.
Synced == c2s = <<>> => \A u \in Uri : docs[u] = copy[u]

\* When nothing is in flight the client shows the diagnostics of the version
\* it has, and none for a closed document.
DiagnosticsCurrent ==
    c2s = <<>> /\ s2c = <<>> => \A u \in Uri :
        LET diags == Diagnose(copy[u].lang, copy[u].text)
        IN shown[u] = IF ~copy[u].open THEN NoDiagnostics
                      ELSE [version |-> copy[u].version,
                            diags |-> [i \in 1..Len(diags) |-> byte_range(copy[u].text, diags[i].from, diags[i].to)]]

\* No request is answered twice, and none is left without an answer: not a
\* malformed one, nor one about a closed document.
AnsweredOnce ==
    /\ \A i \in 1..Len(asked) : asked[i].got <= 1
    /\ c2s = <<>> /\ s2c = <<>> => \A i \in 1..Len(asked) : asked[i].got = 1
=============================================================================
