-------------------------- MODULE MCAccountDeletion --------------------------
EXTENDS AccountDeletion

CONSTANTS a1, b1, l1, l2, r1, w1, w2

\* a1 sends the message and makes the first lookup, b1 the second.
Callers == [l \in Lookups |-> IF l = l1 THEN a1 ELSE b1]
\* b1 only competes for the provider, and not while a1 is chatting.
Competing ==
  /\ phase[b1] = "none"
  /\ at[l2] = "new" \/ \A r \in Requests, a \in Chat!Attempts : worker[r][a].at = "idle"

Senders == [r \in Requests |-> a1]
=============================================================================
