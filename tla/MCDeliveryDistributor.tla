------------------------- MODULE MCDeliveryDistributor -------------------------
\* Activities and task slots are interchangeable; the runs with liveness do without.
EXTENDS DeliveryDistributor, TLC

Symmetry == Permutations(Activities) \cup Permutations(Workers)
=============================================================================
