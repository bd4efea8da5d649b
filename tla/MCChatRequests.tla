--------------------------- MODULE MCChatRequests ---------------------------
EXTENDS ChatRequests, TLC

CONSTANTS u1, u2, r1, r2, r3

Alone       == r1 :> u1
SharedByTwo == (r1 :> u1) @@ (r2 :> u1) @@ (r3 :> u2)
Sharers     == Permutations({r1, r2})
=============================================================================
