------------------------------ MODULE Pipeline ------------------------------
(***************************************************************************)
(* One run of a pipeline (graphy-pipe/src/plan.rs run, source.rs): inputs  *)
(* go through a leg each, join at a junction, and share the chain behind   *)
(* it.  concat runs the legs one after the other; merge runs them on       *)
(* threads that ship batches over a bounded channel to the junction, which *)
(* hangs up when the shared chain stops; scan reads one input on worker    *)
(* threads that share the whole chain behind a lock.                       *)
(***************************************************************************)
EXTENDS PipeOps

CONSTANTS
    Pipes,      \* [inputs, before, junction, after, terminal, scan] to run
    ITEMS,      \* quads in a batch (BatchSender::ITEMS, BATCH_ITEMS)
    DEPTH       \* batches in the channel (MERGE_CHANNEL_DEPTH)

BatchAssumption == ITEMS \in Nat \ {0} /\ DEPTH \in Nat \ {0}

VARIABLES
    pipe,       \* the plan being run
    sink,       \* the chain the legs share, down to the terminal
    legs,       \* the threads: merge legs, or scan workers
    channel,    \* batches between the legs and the junction
    run         \* the thread that called run
pvars == <<pipe, sink, legs, channel, run>>

\* An input is a sequence of what its parser is fed: the quads that come out
\* of a chunk, or none and an error if the chunk is bad.
Leg(plan, input) ==
    [input |-> input, quads |-> <<>>, queue |-> <<>>, at |-> "read",
     chain |-> chain(IF plan.scan THEN <<>> ELSE plan.before, 0, "batch", <<>>)]

PipeInit ==
    /\ pipe \in Pipes
    /\ sink = IF pipe.junction = "merge" THEN chain(pipe.after, 0, pipe.terminal, Empty(pipe.terminal))
              ELSE chain(pipe.before \o pipe.after, Len(pipe.before), pipe.terminal, Empty(pipe.terminal))
    /\ legs = IF pipe.junction = "merge" \/ pipe.scan
              THEN [l \in 1..Len(pipe.inputs) |-> Leg(pipe, pipe.inputs[l])] ELSE <<>>
    /\ channel = <<>>
    /\ run = [next |-> 1, hungup |-> FALSE, stop |-> FALSE, failed |-> FALSE, outcome |-> ""]

Running == run.outcome = ""
End(c, ok) == [run EXCEPT !.outcome = IF ok /\ c.flow # "err" THEN "ok" ELSE "err"]

-----------------------------------------------------------------------------
(* No junction, and concat.                                                *)

\* read_stream: an error loses the quads of its chunk and ends the run.
read_stream(c, input) ==
    FoldLeft(LAMBDA d, chunk : IF d.flow # "continue" THEN d
                               ELSE IF chunk.bad THEN [d EXCEPT !.flow = "err"]
                               ELSE Events(d, 1, chunk.quads), [c EXCEPT !.flow = "continue"], input)

Sequential == pipe.junction # "merge" /\ ~pipe.scan

\* A leg is built, read to its end or to a Stop, and flushed into the shared
\* chain before the next input starts.
More == run.next <= Len(pipe.inputs) /\ ~sink.shared
RunLeg ==
    /\ Running /\ Sequential /\ More
    /\ LET fresh == [sink EXCEPT !.ops = [i \in DOMAIN @ |-> IF i <= sink.leg THEN build(pipe.before[i]) ELSE @[i]]]
           read == read_stream(fresh, pipe.inputs[run.next])
           flushed == Finish(read, 1, sink.leg)
       IN /\ sink' = flushed
          /\ run' = IF flushed.flow = "err" THEN End(flushed, FALSE) ELSE [run EXCEPT !.next = @ + 1]
    /\ UNCHANGED <<pipe, legs, channel>>

FinishTail ==
    /\ Running /\ Sequential /\ ~More
    /\ sink' = Finish(sink, sink.leg + 1, Len(sink.ops))
    /\ run' = End(sink', TRUE)
    /\ UNCHANGED <<pipe, legs, channel>>

-----------------------------------------------------------------------------
(* The threads of merge and of scan.                                       *)

Threaded == Running /\ ~Sequential
Merging == Threaded /\ ~pipe.scan
Full(leg) == Len(leg.chain.out) >= ITEMS
Exhausted(leg) == leg.input = <<>> /\ leg.quads = <<>>
Over == \A l \in DOMAIN legs : legs[l].at \in {"done", "failed"}
Cancelled(leg) == [leg EXCEPT !.input = <<>>, !.quads = <<>>, !.queue = <<>>]

\* One read and its feed: a leg that fails does not flush what it has.
CanFeed(leg) == Threaded /\ leg.at = "read" /\ leg.quads = <<>> /\ leg.input # <<>> /\ ~Full(leg)
Feed(l) ==
    LET leg == legs[l]
        chunk == Head(leg.input)
    IN /\ CanFeed(leg)
       /\ legs' = [legs EXCEPT ![l] =
                    IF chunk.bad THEN [leg EXCEPT !.at = "failed"]
                    ELSE [leg EXCEPT !.quads = chunk.quads, !.input = Tail(@)]]
       /\ UNCHANGED <<pipe, sink, channel, run>>

\* One drained quad into the leg's own chain; a Stop ends the reading.
CanDrive(leg) == Threaded /\ leg.at = "read" /\ leg.quads # <<>> /\ ~Full(leg)
Drive(l) ==
    LET leg == legs[l]
        c == Event(leg.chain, 1, Head(leg.quads))
        driven == [leg EXCEPT !.chain = c, !.quads = Tail(@)]
    IN /\ CanDrive(leg)
       /\ legs' = [legs EXCEPT ![l] = IF pipe.scan /\ run.stop THEN [leg EXCEPT !.quads = Tail(@)]
                                      ELSE IF c.flow = "stop" THEN Cancelled(driven) ELSE driven]
       /\ UNCHANGED <<pipe, sink, channel, run>>

\* The end of a merge leg: its stages let go of what they hold, quad by quad.
CanFlush(leg) == Merging /\ leg.at = "read" /\ Exhausted(leg) /\ ~Full(leg)
Flush(l) ==
    LET leg == legs[l]
        flushed == Finish([leg.chain EXCEPT !.out = <<>>], 1, Len(leg.chain.ops))
    IN /\ CanFlush(leg)
       /\ legs' = [legs EXCEPT ![l].at = "flush", ![l].queue = flushed.out]
       /\ UNCHANGED <<pipe, sink, channel, run>>
CanEmit(leg) == Merging /\ leg.at = "flush" /\ leg.queue # <<>> /\ ~Full(leg)
Emit(l) ==
    LET leg == legs[l]
    IN /\ CanEmit(leg)
       /\ legs' = [legs EXCEPT ![l].chain.out = Append(@, Head(leg.queue)), ![l].queue = Tail(@)]
       /\ UNCHANGED <<pipe, sink, channel, run>>

\* A mutant: the junction keeps the receiver while it joins the legs.
KeepsReceiver == FALSE
\* The receiver is gone: a send fails instead of waiting for room.
HungUp == run.hungup

\* BatchSender::ship: waits while the channel is full; a failed send answers
\* Stop, and the leg gives up reading.
CanShip(leg) ==
    /\ Merging /\ leg.at \in {"read", "flush"} /\ leg.chain.out # <<>>
    /\ Full(leg) \/ (leg.at = "flush" /\ leg.queue = <<>>)
    /\ HungUp \/ Len(channel) < DEPTH
Ship(l) ==
    LET leg == legs[l]
        sent == [leg EXCEPT !.chain.out = <<>>]
    IN /\ CanShip(leg)
       /\ legs' = [legs EXCEPT ![l] = IF HungUp THEN Cancelled(sent) ELSE sent]
       /\ channel' = IF HungUp THEN channel ELSE Append(channel, leg.chain.out)
       /\ UNCHANGED <<pipe, sink, run>>

CanEnd(leg) == Merging /\ leg.at = "flush" /\ leg.queue = <<>> /\ leg.chain.out = <<>>
LegDone(l) ==
    /\ CanEnd(legs[l])
    /\ legs' = [legs EXCEPT ![l].at = "done"]
    /\ UNCHANGED <<pipe, sink, channel, run>>

-----------------------------------------------------------------------------
(* The junction of a merge.                                                *)

\* One batch into the shared chain; on a Stop or an error the junction hangs
\* up, and what the channel still holds is dropped with the receiver.
CanReceive == Merging /\ ~run.hungup /\ channel # <<>>
Receive ==
    /\ CanReceive
    /\ sink' = Events(sink, 1, Head(channel))
    /\ LET over == sink'.flow # "continue"
       IN /\ channel' = IF over THEN <<>> ELSE Tail(channel)
          /\ run' = [run EXCEPT !.hungup = over, !.failed = sink'.flow = "err"]
    /\ UNCHANGED <<pipe, legs>>

\* Every sender is gone and the channel is empty: recv fails.
CanDrain == Merging /\ ~run.hungup /\ channel = <<>> /\ Over
Drained ==
    /\ CanDrain
    /\ run' = [run EXCEPT !.hungup = TRUE]
    /\ UNCHANGED <<pipe, sink, legs, channel>>

\* The legs are joined, and their errors count even after a Stop.
CanJoin == Merging /\ run.hungup /\ Over
Join ==
    /\ CanJoin
    /\ LET failed == run.failed \/ \E l \in DOMAIN legs : legs[l].at = "failed"
       IN /\ sink' = IF failed THEN sink ELSE Finish(sink, 1, Len(sink.ops))
          /\ run' = End(sink', ~failed)
    /\ UNCHANGED <<pipe, legs, channel>>

-----------------------------------------------------------------------------
(* scan.                                                                   *)

\* flush: one batch under the sink lock.  A worker that waited for the lock
\* while another was told to stop delivers its batch all the same.
Delivered(c, batch) == Events(c, 1, batch)
Scanning == Threaded /\ pipe.scan
ScanFlush(l) ==
    /\ Scanning /\ Full(legs[l])
    /\ sink' = Delivered(sink, legs[l].chain.out)
    /\ legs' = [legs EXCEPT ![l].chain.out = <<>>]
    /\ run' = [run EXCEPT !.stop = @ \/ sink'.flow # "continue", !.failed = @ \/ sink'.flow = "err"]
    /\ UNCHANGED <<pipe, channel>>

\* A worker reaches the end of its segment, or leaves it because another
\* worker failed.
CanLeave(leg) ==
    /\ Scanning /\ leg.at = "read" /\ ~Full(leg)
    /\ Exhausted(leg) \/ \E k \in DOMAIN legs : legs[k].at = "failed"
ScanEnd(l) ==
    /\ CanLeave(legs[l])
    /\ legs' = [legs EXCEPT ![l] = [Cancelled(@) EXCEPT !.at = "done"]]
    /\ UNCHANGED <<pipe, sink, channel, run>>

\* A parse error ends the run at once; otherwise what the batches still hold
\* goes out in segment order, unless the stream was stopped.
ScanJoin ==
    /\ Scanning /\ Over
    /\ LET bad == \E l \in DOMAIN legs : legs[l].at = "failed"
           step(acc, leg) ==
                LET c == Delivered(acc.c, leg.chain.out) IN [c |-> c, failed |-> acc.failed \/ c.flow = "err"]
           all == FoldLeft(step, [c |-> sink, failed |-> run.failed], IF bad \/ run.stop THEN <<>> ELSE legs)
       IN /\ sink' = IF bad \/ all.failed THEN all.c ELSE Finish(all.c, 1, Len(sink.ops))
          /\ run' = End(sink', ~bad /\ ~all.failed)
    /\ UNCHANGED <<pipe, legs, channel>>

PipeNext ==
    \/ RunLeg \/ FinishTail
    \/ Receive \/ Drained \/ Join \/ ScanJoin
    \/ \E l \in DOMAIN legs :
          Feed(l) \/ Drive(l) \/ Flush(l) \/ Emit(l) \/ Ship(l) \/ LegDone(l) \/ ScanFlush(l) \/ ScanEnd(l)

-----------------------------------------------------------------------------
(* Properties.                                                             *)

\* What a source yields before its first bad chunk.
Readable(input) ==
    FoldLeft(LAMBDA acc, chunk : IF acc.bad \/ chunk.bad THEN [acc EXCEPT !.bad = TRUE]
                                 ELSE [acc EXCEPT !.quads = @ \o chunk.quads], [quads |-> <<>>, bad |-> FALSE], input)
Bad == \E i \in DOMAIN pipe.inputs : Readable(pipe.inputs[i]).bad

Interleavings(Q) ==
    LET n == Len(FlattenSeq(Q))
        Fair == {f \in [1..n -> DOMAIN Q] : \A k \in DOMAIN Q : Cardinality({i \in 1..n : f[i] = k}) = Len(Q[k])}
    IN {[i \in 1..n |-> Q[f[i]][Cardinality({j \in 1..i : f[j] = f[i]})]] : f \in Fair}

\* The streams the shared chain may be given.
Streams ==
    LET quads == [i \in DOMAIN pipe.inputs |-> Readable(pipe.inputs[i]).quads]
        after == [i \in DOMAIN quads |-> RefAll(pipe.before, quads[i])]
    IN IF pipe.scan THEN {RefAll(pipe.before, Q) : Q \in Interleavings(quads)}
       ELSE IF pipe.junction = "merge" THEN Interleavings(after) ELSE {FlattenSeq(after)}
Whole(Q) == FoldLeft(LAMBDA out, q : Written(pipe.terminal, out, q), Empty(pipe.terminal), Q)
Results == {RefAll(pipe.after, Q) : Q \in Streams}
Stoppable == \E i \in DOMAIN (pipe.before \o pipe.after) : (pipe.before \o pipe.after)[i].kind = "head"
Refused(Q) == \E i \in DOMAIN Q : Refuses(pipe.terminal, Q[i])

\* Until the run is over somebody has something to do: no leg waits for room
\* in a channel nobody reads any more, and no junction for a leg that is gone
\* (plan.rs run, "Hang up: pending sends fail, legs cancel their sources").
CanStep(leg) == CanFeed(leg) \/ CanDrive(leg) \/ CanFlush(leg) \/ CanEmit(leg) \/ CanShip(leg) \/ CanEnd(leg)
NeverStuck ==
    Merging => CanReceive \/ CanDrain \/ CanJoin \/ \E l \in DOMAIN legs : CanStep(legs[l])

\* A run never gets stuck.  One that succeeds wrote what the operators promise of the inputs in
\* an order the junction allows, and only a head may have kept it from a bad
\* source; one that fails had a bad source or a quad its terminal refuses
\* (plan.rs, source.rs).
PipelineExact ==
    /\ NeverStuck
    /\ run.outcome = "ok" =>
          /\ \E Q \in Results : ~Refused(Q) /\ sink.out = Whole(Q)
          /\ Bad => Stoppable
    /\ run.outcome = "err" => Bad \/ \E Q \in Results : Refused(Q)
=============================================================================
