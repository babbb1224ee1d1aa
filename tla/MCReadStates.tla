---------------------------- MODULE MCReadStates ----------------------------
EXTENDS ReadStates, TLC

CONSTANTS TicksPerMillisecond

MCTruncated == [t \in Times |-> t - (t % TicksPerMillisecond)]

\* Requests are interchangeable.
RequestSymmetry == Permutations(Requests)
=============================================================================
