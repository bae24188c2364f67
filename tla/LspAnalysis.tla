----------------------------- MODULE LspAnalysis -----------------------------
(***************************************************************************)
(* The analyses the language server runs on a Turtle document, over a      *)
(* small alphabet: a symbol is a whole construct of the text, one column   *)
(* wide, so that spans, lines and fixes are the code's and the grammar     *)
(* stays out (TurtleParser has it).  "d1" and "d2" are the declarations of *)
(* two prefixes, "u1" and "u2" statements that use them, "e" a word the    *)
(* parser rejects, "q" the quote that opens and closes a long string.  The *)
(* second prefix is a well-known one.                                      *)
(***************************************************************************)
EXTENDS Integers, Sequences, FiniteSets, SequencesExt

Eol == "n"
Cr == "r"
Space == " "
Quote == "q"
Names == {1, 2}
WellKnown == {2}
Declaration == [p \in Names |-> IF p = 1 THEN "d1" ELSE "d2"]
Use == [p \in Names |-> IF p = 1 THEN "u1" ELSE "u2"]

Ascending(S) == [k \in 1..Cardinality(S) |-> CHOOSE x \in S : Cardinality({y \in S : y < x}) = k - 1]
\* Ascending indices of the symbols that satisfy a test.
Where(t, Test(_)) == Ascending({i \in 1..Len(t) : Test(i)})
Greatest(S) == CHOOSE x \in S : \A y \in S : x >= y
Least(S) == CHOOSE x \in S : \A y \in S : x <= y

\* Inside a long string, its quotes included.
Quotes(t, i) == Cardinality({j \in 1..i : t[j] = Quote})
InString(t, i) == t[i] = Quote \/ Quotes(t, i) % 2 = 1
Code(t, i) == ~InString(t, i)

\* highlight_tokens with turtle_sem_kind: declarations are keywords (8), uses
\* names (0), a string is one token (6) up to its closing quote.
StringEnd(t, i) ==
    
    LET close == {j \in (i + 1)..Len(t) : t[j] = Quote}
    IN IF close = {} THEN Len(t) ELSE Least(close)
turtle_semantic_tokens(t) ==
    LET starts == Where(t, LAMBDA i : \/ t[i] \in {"d1", "d2", "u1", "u2"} /\ Code(t, i)
                                      \/ t[i] = Quote /\ Quotes(t, i) % 2 = 1)
    IN [k \in 1..Len(starts) |->
          LET i == starts[k]
          IN [from |-> i - 1, to |-> IF t[i] = Quote THEN StringEnd(t, i) ELSE i,
              kind |-> CASE t[i] = Quote -> 6 [] t[i] \in {"d1", "d2"} -> 8 [] OTHER -> 0]]

-----------------------------------------------------------------------------
(* Diagnostics.                                                            *)

\* Mutant: an end that is one past taken for the last symbol.
StopsShort(t, from, to) == [from |-> from, to |-> to - 1]
\* full_line_span: a statement that starts its line goes with its indentation
\* and one line end; one further along goes alone.
full_line_span(t, from, to) ==
    LET s == Least({k \in 0..from : \A i \in (k + 1)..from : t[i] = Space})
        at(k) == IF k < Len(t) THEN t[k + 1] ELSE "eof"
    IN IF s # 0 /\ t[s] # Eol THEN [from |-> from, to |-> to]
       ELSE IF at(to) = Cr /\ at(to + 1) = Eol THEN [from |-> s, to |-> to + 2]
       ELSE [from |-> s, to |-> IF at(to) = Eol THEN to + 1 ELSE to]

\* word_range: to the next white space, at least one symbol.
word_range(t, at) ==
    LET ends == {k \in at..Len(t) : k = Len(t) \/ t[k + 1] \in {Space, Eol, Cr}}
    IN [from |-> at, to |-> IF Least(ends) = at /\ at < Len(t) THEN at + 1 ELSE Least(ends)]

Diag(span, sev, kind, edits) == [from |-> span.from, to |-> span.to, sev |-> sev, kind |-> kind, edits |-> edits]
DeclaredAt(t, p) == {i \in 1..Len(t) : t[i] = Declaration[p] /\ Code(t, i)}
UsedAt(t, p) == {i \in 1..Len(t) : t[i] = Use[p] /\ Code(t, i)}
\* A use with no declaration of its prefix before it.
Undeclared(t, i) == \E p \in Names : t[i] = Use[p] /\ Code(t, i) /\ \A d \in DeclaredAt(t, p) : d > i

\* turtle_decl_insert_at: past the line of the last declaration.
turtle_decl_insert_at(t) ==
    LET ds == DeclaredAt(t, 1) \cup DeclaredAt(t, 2)
    IN Greatest({0} \cup {full_line_span(t, d - 1, d).to : d \in ds})

\* The parse errors in order, the first one of a well-known prefix with the
\* fix that declares it (attach_missing_prefix_fixes).
turtle_errors(t) ==
    LET wrong == Where(t, LAMBDA i : (t[i] = "e" /\ Code(t, i)) \/ Undeclared(t, i))
        insert(i) == {p \in WellKnown : i \in UsedAt(t, p) /\ i = Least({j \in UsedAt(t, p) : Undeclared(t, j)})}
    IN [k \in 1..Len(wrong) |->
          LET i == wrong[k]
          IN Diag(word_range(t, i - 1), "error", IF insert(i) = {} THEN "syntax" ELSE "missing",
                  IF insert(i) = {} THEN <<>>
                  ELSE <<[from |-> turtle_decl_insert_at(t), to |-> turtle_decl_insert_at(t),
                          text |-> <<Declaration[CHOOSE p \in insert(i) : TRUE], Eol>>]>>)]

\* turtle_unused_prefixes: every declaration of a name used nowhere, with the
\* fix that deletes its line.
turtle_unused_prefixes(t) ==
    LET unused == Where(t, LAMBDA i : \E p \in Names : i \in DeclaredAt(t, p) /\ UsedAt(t, p) = {})
    IN [k \in 1..Len(unused) |->
          LET i == unused[k]
              span == full_line_span(t, i - 1, i)
          IN Diag([from |-> i - 1, to |-> i], "warning", "unused",
                  <<[from |-> span.from, to |-> span.to, text |-> <<>>]>>)]

turtle_diagnostics(t) == turtle_errors(t) \o turtle_unused_prefixes(t)

-----------------------------------------------------------------------------
\* turtle_pretty: refused unless the text parses and has data; the prefixes,
\* then every statement once, a line each.
turtle_pretty(t) ==
    LET lines(seq) == FlattenSeq([i \in 1..Len(seq) |-> <<seq[i], Eol>>])
        kept(S) == SelectSeq(t, LAMBDA x : x \in S)
        once(seq) == [k \in 1..Cardinality(ToSet(seq)) |->
                        seq[CHOOSE i \in 1..Len(seq) : /\ seq[i] \notin {seq[j] : j \in 1..(i - 1)}
                                                       /\ Cardinality({seq[j] : j \in 1..i}) = k]]
        uses == kept({Use[p] : p \in Names})
    IN IF turtle_errors(t) # <<>> \/ Quote \in ToSet(t) \/ uses = <<>> THEN <<>>
       ELSE <<lines(once(kept({Declaration[p] : p \in Names}))) \o lines(once(uses))>>
=============================================================================
