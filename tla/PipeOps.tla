------------------------------ MODULE PipeOps ------------------------------
(***************************************************************************)
(* The operators of a quad pipeline (graphy-pipe/src/ops.rs): skip, head,  *)
(* tail and tree as stages of a chain, each of which sees a quad once,     *)
(* passes it on or keeps it, and may stop the stream.  A chain ends in a   *)
(* terminal (sink.rs), in the shared chain behind a junction, or in the    *)
(* batch a merge leg ships.  Prefix events, which every stage forwards,    *)
(* are left out.                                                           *)
(***************************************************************************)
EXTENDS Integers, Sequences, FiniteSets, SequencesExt

LOCAL NoGraph == <<>>

-----------------------------------------------------------------------------
(* One stage.  begun counts the quads, or the runs of one subject, so far. *)

build(spec) == [kind |-> spec.kind, n |-> spec.n, unit |-> spec.unit,
                begun |-> 0, cur |-> <<>>, buf |-> <<>>, stopped |-> FALSE]

\* Groups::observe, or the plain count: a subject that comes back begins a
\* new run.
observe(op, q) ==
    IF op.unit = "subjects" /\ op.begun > 0 /\ op.cur = q.s THEN op
    ELSE [op EXCEPT !.begun = @ + 1, !.cur = q.s]

\* What a stage does with a quad: the stage after it, the quad if it goes on
\* (a sequence of at most one), and whether the stage answers Stop.
Offered(op, pass, stop) == [op |-> op, pass |-> pass, stop |-> stop]

Skip(op, q) ==
    LET seen == observe(op, q)
    IN Offered(seen, IF seen.begun > op.n THEN <<q>> ELSE <<>>, FALSE)

Head_(op, q) ==
    LET seen == observe(op, q)
        last == seen.begun > op.n \/ (op.unit = "quads" /\ seen.begun = op.n)
    IN IF op.stopped THEN Offered(op, <<>>, TRUE)
       ELSE Offered([seen EXCEPT !.stopped = last], IF seen.begun > op.n THEN <<>> ELSE <<q>>, last)

Tail_(op, q) ==
    LET seen == observe(op, q)
        kept == SelectSeq(Append(op.buf, <<seen.begun, q>>), LAMBDA e : e[1] > seen.begun - op.n)
    IN Offered([seen EXCEPT !.buf = kept], <<>>, FALSE)

\* Two spellings of a quad are one quad.
Same(q, r) == [q EXCEPT !.bare = FALSE] = [r EXCEPT !.bare = FALSE]
Regroup(op, q) ==
    Offered(IF \E i \in DOMAIN op.buf : Same(op.buf[i][2], q) THEN op
            ELSE [op EXCEPT !.buf = Append(@, <<0, q>>)], <<>>, FALSE)

Offer(op, q) ==
    CASE op.kind = "skip" -> Skip(op, q)
      [] op.kind = "head" -> Head_(op, q)
      [] op.kind = "tail" -> Tail_(op, q)
      [] op.kind = "tree" -> Regroup(op, q)

\* Tree: duplicates dropped, then graph by graph, subject by subject and
\* predicate by predicate, each in the order it was first seen.
Tree(quads) ==
    LET kept == SelectSeq([i \in 1..Len(quads) |-> i],
                          LAMBDA i : \A j \in 1..(i - 1) : [quads[j] EXCEPT !.bare = FALSE] # [quads[i] EXCEPT !.bare = FALSE])
        at(i) == quads[kept[i]]
        Earliest(S) == CHOOSE i \in S : \A j \in S : i <= j
        rank(i) == << Earliest({j \in DOMAIN kept : at(j).g = at(i).g}),
                      Earliest({j \in DOMAIN kept : at(j).g = at(i).g /\ at(j).s = at(i).s}),
                      Earliest({j \in DOMAIN kept : at(j).g = at(i).g /\ at(j).s = at(i).s /\ at(j).p = at(i).p}), i >>
        before(i, j) == \E k \in 1..4 : rank(i)[k] < rank(j)[k] /\ \A m \in 1..(k - 1) : rank(i)[m] = rank(j)[m]
    IN [n \in 1..Len(kept) |-> at(CHOOSE i \in DOMAIN kept : Cardinality({j \in DOMAIN kept : before(j, i)}) = n - 1)]

\* What a stage lets go of when the stream ends.
Released(op) ==
    LET quads == [i \in 1..Len(op.buf) |-> op.buf[i][2]]
    IN IF op.kind = "tree" THEN Tree(quads) ELSE quads

-----------------------------------------------------------------------------
(* The chain.  flow is the verdict of the last event: "continue", "stop"   *)
(* or "err".  Stages 1..leg belong to one input, the others to the chain   *)
(* behind the junction; shared is Defer's downstream_stopped.              *)

chain(specs, leg, terminal, empty) ==
    [ops |-> [i \in 1..Len(specs) |-> build(specs[i])], leg |-> leg, terminal |-> terminal,
     out |-> empty, flow |-> "continue", shared |-> FALSE]

\* The terminals that cannot write a named graph refuse one.
Refuses(terminal, q) == terminal \in {"nt", "ttl"} /\ q.g # NoGraph
Key(by, q) ==
    CASE by = "quads" -> <<q.s, q.p, q.o, q.g>>
      [] by = "triples" -> <<q.s, q.p, q.o>>
      [] by = "subjects" -> q.s
      [] by = "graphs" -> q.g
Empty(terminal) == CASE terminal = "count" -> 0 [] terminal \in {"quads", "triples", "subjects", "graphs"} -> {} [] OTHER -> <<>>
Written(terminal, out, q) ==
    CASE terminal = "count" -> out + 1
      [] terminal \in {"quads", "triples", "subjects", "graphs"} -> out \cup {Key(terminal, q)}
      [] OTHER -> Append(out, q)

\* Event: a quad enters the chain at stage from.
Event(c, from, q) ==
    LET stage(acc, i) ==
            IF acc.pass = <<>> THEN acc
            ELSE LET o == Offer(acc.ops[i], acc.pass[1])
                 IN [ops |-> [acc.ops EXCEPT ![i] = o.op], pass |-> o.pass,
                     stop |-> IF o.stop THEN acc.stop \cup {i} ELSE acc.stop]
        end == FoldLeft(stage, [ops |-> c.ops, pass |-> <<q>>, stop |-> {}],
                        [k \in 1..(Len(c.ops) + 1 - from) |-> from + k - 1])
        refused == end.pass # <<>> /\ Refuses(c.terminal, end.pass[1])
    IN [c EXCEPT !.ops = end.ops,
                 !.out = IF end.pass = <<>> \/ refused THEN @ ELSE Written(c.terminal, @, end.pass[1]),
                 !.shared = @ \/ \E i \in end.stop : i > c.leg,
                 !.flow = IF refused THEN "err" ELSE IF end.stop # {} THEN "stop" ELSE "continue"]

\* Quads in turn, until the chain stops or fails.
Events(c, from, quads) ==
    FoldLeft(LAMBDA d, q : IF d.flow # "continue" THEN d ELSE Event(d, from, q), [c EXCEPT !.flow = "continue"], quads)

\* Stage::finish, for the stages from..to: each lets go of what it holds; a
\* Stop ends that stage's own flush only.
Finish(c, from, to) ==
    FoldLeft(LAMBDA d, i : IF d.flow = "err" THEN d
                           ELSE Events([d EXCEPT !.ops[i].buf = <<>>], i + 1, Released(d.ops[i])),
             c, [k \in 1..(to + 1 - from) |-> from + k - 1])

-----------------------------------------------------------------------------
(* What the operators promise, said of whole sequences.                    *)

\* The run a position is in: counted in quads, or in runs of one subject.
RunOf(unit, Q, i) ==
    IF unit = "quads" THEN i ELSE Cardinality({j \in 1..i : j = 1 \/ Q[j].s # Q[j - 1].s})
Ref(spec, Q) ==
    LET run(i) == RunOf(spec.unit, Q, i)
        pick(P(_)) == LET at == SelectSeq([i \in 1..Len(Q) |-> i], P) IN [k \in 1..Len(at) |-> Q[at[k]]]
    IN CASE spec.kind = "skip" -> pick(LAMBDA i : run(i) > spec.n)
         [] spec.kind = "head" -> pick(LAMBDA i : run(i) <= spec.n)
         [] spec.kind = "tail" -> pick(LAMBDA i : run(i) + spec.n > run(Len(Q)))
         [] spec.kind = "tree" -> Tree(Q)
RefAll(specs, Q) == FoldLeft(LAMBDA R, spec : Ref(spec, R), Q, specs)
=============================================================================
