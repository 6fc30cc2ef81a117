---------------------------- MODULE MCSubscriber ----------------------------
\* The writers are interchangeable. Symmetry is left out of the runs that check
\* liveness.
EXTENDS Subscriber, TLC

Symmetry == Permutations(Publishers)
=============================================================================
