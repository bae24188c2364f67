--------------------------- MODULE MCBackpressure ---------------------------
EXTENDS Backpressure, TLC

WriterSymmetry == Permutations(Writers)
=============================================================================
