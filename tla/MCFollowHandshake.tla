--------------------------- MODULE MCFollowHandshake ---------------------------
\* A remote actor follows u, u follows the remote actor, and u follows another local user.
EXTENDS FollowHandshake, TLC
CONSTANTS u, v, r

LocalUsers == {u, v}
RemoteActors == {r}
AllEdges == {<<r, u>>, <<u, r>>, <<u, v>>}
Verbs == {"Follow", "Undo", "Accept", "Reject"}
=============================================================================
