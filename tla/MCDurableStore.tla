--------------------------- MODULE MCDurableStore ---------------------------
EXTENDS DurableStore
CONSTANTS q1, q2

Environment(quads, crashes_, faults, epochs, gens, count) ==
    [quads |-> quads, crashes |-> crashes_, faults |-> faults,
     maxEpoch |-> epochs, maxGen |-> gens, maxCrash |-> count]

\* Kills with log write and roll-back failures; power losses with a sound
\* merge; both crashes with every failure a merge may have.
Kills == Environment({q1}, {"kill"}, {"write", "rollback"}, 3, 2, 2)
Losses == Environment({q1}, {"power"}, {"write"}, 2, 2, 2)
Everything == Environment({q1, q2}, {"kill", "power"}, {"write", "flip", "activate"}, 2, 1, 1)
MCEnvs == {Kills, Losses, Everything}

\* The three disagreements, each in the smallest environment that shows it.
MCRotation == {Environment({q1}, {"power"}, {}, 2, 1, 1)}
MCPoison == {Environment({q1}, {"kill"}, {"activate"}, 2, 1, 1)}
MCFlip == {Environment({q1}, {"kill"}, {"flip"}, 1, 1, 1)}
=============================================================================
