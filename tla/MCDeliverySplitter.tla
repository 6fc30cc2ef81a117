-------------------------- MODULE MCDeliverySplitter --------------------------
EXTENDS DeliverySplitter, TLC

Symmetry == Permutations(Remotes)
=============================================================================
