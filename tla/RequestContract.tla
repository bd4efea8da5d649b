-------------------------- MODULE RequestContract ---------------------------
(***************************************************************************)
(* What the chat promises about one message sent under one request id,     *)
(* however often it is retried and however many workers handle it: it has  *)
(* at most one effect on the family's reservations, it ends at most once,  *)
(* and it is never reported as failed after it took effect.                *)
(***************************************************************************)
EXTENDS Naturals

CONSTANT Requests

VARIABLES
  outcome,    \* "unknown", "pending", "answered" or "refused"
  performed,  \* how many times the message changed the reservations
  replies     \* how many assistant messages answer it

contractVars == <<outcome, performed, replies>>

----------------------------------------------------------------------------
ContractInit ==
  /\ outcome = [r \in Requests |-> "unknown"]
  /\ performed = [r \in Requests |-> 0]
  /\ replies = [r \in Requests |-> 0]

Ask(r) ==
  /\ outcome[r] = "unknown"
  /\ outcome' = [outcome EXCEPT ![r] = "pending"]
  /\ UNCHANGED <<performed, replies>>

Perform(r) ==
  /\ outcome[r] = "pending" /\ performed[r] = 0
  /\ performed' = [performed EXCEPT ![r] = 1]
  /\ UNCHANGED <<outcome, replies>>

Answer(r) ==
  /\ outcome[r] = "pending"
  /\ outcome' = [outcome EXCEPT ![r] = "answered"]
  /\ replies' = [replies EXCEPT ![r] = @ + 1]
  /\ UNCHANGED performed

Refuse(r) ==
  /\ outcome[r] = "pending" /\ performed[r] = 0
  /\ outcome' = [outcome EXCEPT ![r] = "refused"]
  /\ UNCHANGED <<performed, replies>>

ContractNext == \E r \in Requests : Ask(r) \/ Perform(r) \/ Answer(r) \/ Refuse(r)

ContractSpec == ContractInit /\ [][ContractNext]_contractVars
=============================================================================
