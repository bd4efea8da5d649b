------------------------- MODULE ChatRequestsProofs -------------------------
(***************************************************************************)
(* Theorems about ChatRequests: the provider's capacity, one call per      *)
(* message, and the contract of a message, for every number of messages,   *)
(* users, attempts and rounds and all durations.                           *)
(***************************************************************************)
EXTENDS ChatRequests, FiniteSetTheorems, TLAPS

Workers == [Requests -> [Attempts -> Worker]]

(***************************************************************************)
(* What types need beyond themselves: a worker in the tool loop has a      *)
(* round left, a new one all of them, and so has one not yet started.      *)
(***************************************************************************)
RoundsLeft ==
  \A r \in Requests, a \in Attempts :
    /\ At(r, a) = "thinking" => worker[r][a].round < MaxRounds
    /\ At(r, a) = "claimed" \/ a > attempts[r] => worker[r][a].round = 0
    /\ status[r] = "none" => attempts[r] = 0

----------------------------------------------------------------------------
(* How a step changes the workers.                                         *)

\* V differs from W at most in the worker with token a of r, which is w in V.
Moves(W, V, r, a, w) ==
  /\ V \in Workers
  /\ V[r][a] = w
  /\ \A q \in Requests, b \in Attempts : q # r \/ b # a => V[q][b] = W[q][b]

LEMMA Moved ==
  ASSUME NEW W \in Workers, NEW r \in Requests, NEW a \in Attempts, NEW w \in Worker
  PROVE  Moves(W, [W EXCEPT ![r] = [W[r] EXCEPT ![a] = w]], r, a, w)
<1> DEFINE V == [W EXCEPT ![r] = [W[r] EXCEPT ![a] = w]]
<1>1. W[r] \in [Attempts -> Worker]
  BY DEF Workers
<1>2. V[r] = [W[r] EXCEPT ![a] = w] /\ V \in Workers
  BY <1>1 DEF Workers
<1> QED
  BY <1>1, <1>2 DEF Workers, Moves

LEMMA GoesTo ==
  ASSUME worker \in Workers, NEW r \in Requests, NEW a \in Attempts,
         NEW place \in Place, Goes(r, a, place)
  PROVE  /\ worker' \in Workers
         /\ worker'[r][a].at = place /\ worker'[r][a].round = worker[r][a].round
         /\ \A q \in Requests, b \in Attempts :
              q # r \/ b # a => worker'[q][b] = worker[q][b]
<1>1. worker[r][a] \in Worker
  BY DEF Workers
<1>2. PICK w : w = [worker[r][a] EXCEPT !.at = place]
  OBVIOUS
<1>3. w \in Worker /\ w.at = place /\ w.round = worker[r][a].round
  BY <1>1, <1>2 DEF Worker
<1>4. worker' = [worker EXCEPT ![r] = [worker[r] EXCEPT ![a] = w]]
  BY <1>2, Zenon DEF Goes
<1>5. Moves(worker, worker', r, a, w)
  BY <1>3, <1>4, Moved, Zenon
<1> QED
  BY <1>3, <1>5 DEF Moves

LEMMA EndsThere ==
  ASSUME worker \in Workers, NEW r \in Requests, NEW a \in Attempts, Ends(r, a)
  PROVE  /\ worker' \in Workers
         /\ worker'[r][a].at = "done" /\ worker'[r][a].round = 0
         /\ \A q \in Requests, b \in Attempts :
              q # r \/ b # a => worker'[q][b] = worker[q][b]
<1>1. Nowhere("done") \in Worker /\ Nowhere("done").at = "done" /\ Nowhere("done").round = 0
  BY LimitAssumption DEF Nowhere, Worker, Place
<1>2. worker' = [worker EXCEPT ![r] = [worker[r] EXCEPT ![a] = Nowhere("done")]]
  BY Zenon DEF Ends
<1>3. Moves(worker, worker', r, a, Nowhere("done"))
  BY <1>1, <1>2, Moved, Zenon
<1> QED
  BY <1>1, <1>3 DEF Moves

----------------------------------------------------------------------------
(* Types.                                                                  *)

LEMMA InitTypes == Init => TypeOK /\ RoundsLeft
<1> SUFFICES ASSUME Init PROVE TypeOK /\ RoundsLeft
  OBVIOUS
<1>1. Nowhere("idle") \in Worker /\ Nowhere("idle").at = "idle" /\ Nowhere("idle").round = 0
  BY LimitAssumption DEF Nowhere, Worker, Place
<1>2. TypeOK
  BY <1>1, DurationAssumption, LimitAssumption DEF Init, TypeOK
<1> QED
  BY <1>1, <1>2 DEF Init, RoundsLeft, At

\* A worker that goes to a place keeps the types, where the tool loop has a round left.
LEMMA GoesKeepsTypes ==
  ASSUME worker \in Workers, RoundsLeft, NEW r \in Requests, NEW a \in Attempts,
         NEW place \in Place \ {"claimed"}, Goes(r, a, place),
         place = "thinking" => worker[r][a].round < MaxRounds,
         UNCHANGED attempts, \A q \in Requests : status'[q] = "none" => status[q] = "none"
  PROVE  worker' \in Workers /\ RoundsLeft'
<1>1. /\ worker' \in Workers
      /\ worker'[r][a].at = place /\ worker'[r][a].round = worker[r][a].round
      /\ \A q \in Requests, b \in Attempts : q # r \/ b # a => worker'[q][b] = worker[q][b]
  BY GoesTo
<1> QED
  BY <1>1 DEF RoundsLeft, At

LEMMA EndsKeepsTypes ==
  ASSUME worker \in Workers, RoundsLeft, NEW r \in Requests, NEW a \in Attempts,
         Ends(r, a), UNCHANGED attempts,
         \A q \in Requests : status'[q] = "none" => status[q] = "none"
  PROVE  worker' \in Workers /\ RoundsLeft'
<1>1. /\ worker' \in Workers
      /\ worker'[r][a].at = "done" /\ worker'[r][a].round = 0
      /\ \A q \in Requests, b \in Attempts : q # r \/ b # a => worker'[q][b] = worker[q][b]
  BY EndsThere
<1> QED
  BY <1>1 DEF RoundsLeft, At

\* A worker that acquires a permit starts its next round.
LEMMA CallBegins ==
  ASSUME worker \in Workers, RoundsLeft, NEW r \in Requests, NEW a \in Attempts, Call(r, a)
  PROVE  /\ worker' \in Workers
         /\ worker'[r][a].at = "calling"
         /\ \A q \in Requests, b \in Attempts :
              q # r \/ b # a => worker'[q][b] = worker[q][b]
<1>1. worker[r][a] \in Worker /\ worker[r][a].round + 1 \in 0..MaxRounds
  BY LimitAssumption DEF Call, Granted, RoundsLeft, Workers, Worker
<1>2. PICK v : v = [worker[r][a] EXCEPT !.at = "calling"]
  OBVIOUS
<1>3. PICK w : w = [v EXCEPT !.round = @ + 1]
  OBVIOUS
<1>4. v \in Worker /\ v.at = "calling" /\ v.round = worker[r][a].round
  BY <1>1, <1>2 DEF Worker, Place
<1>5. w \in Worker /\ w.at = "calling"
  BY <1>1, <1>3, <1>4 DEF Worker
<1>6. PICK W : W = [worker EXCEPT ![r] = [worker[r] EXCEPT ![a] = v]]
  OBVIOUS
<1>7. worker' = [W EXCEPT ![r] = [W[r] EXCEPT ![a] = [W[r][a] EXCEPT !.round = @ + 1]]]
  BY <1>2, <1>6, Zenon DEF Call
<1>8. Moves(worker, W, r, a, v)
  BY <1>4, <1>6, Moved, Zenon
<1>9. worker' = [W EXCEPT ![r] = [W[r] EXCEPT ![a] = w]]
  BY <1>3, <1>7, <1>8, Zenon DEF Moves
<1>10. W \in Workers
  BY <1>8 DEF Moves
<1>11. Moves(W, worker', r, a, w)
  BY <1>5, <1>9, <1>10, Moved, Zenon
<1> QED
  BY <1>5, <1>8, <1>11 DEF Moves

\* A worker that mutates goes back to the model if it has a round left.
LEMMA MutationReturns ==
  ASSUME worker \in Workers, NEW r \in Requests, NEW a \in Attempts, Mutate(r, a)
  PROVE  /\ worker' \in Workers
         /\ worker'[r][a].at \in {Onward(r, a), "failing"}
         /\ worker'[r][a].round = worker[r][a].round
         /\ \A q \in Requests, b \in Attempts :
              q # r \/ b # a => worker'[q][b] = worker[q][b]
<1>1. worker[r] \in [Attempts -> Worker] /\ worker[r][a] \in Worker
  BY DEF Workers
<1>2. PICK place \in {Onward(r, a), "failing"} :
        worker' = [worker EXCEPT ![r][a].at = place, ![r][a].mutated = TRUE]
  BY Zenon DEF Mutate
<1>3. place \in Place
  BY DEF Onward, Place
<1>4. PICK w : w = [worker[r][a] EXCEPT !.at = place, !.mutated = TRUE]
  OBVIOUS
<1>5. w \in Worker /\ w.at = place /\ w.round = worker[r][a].round
  BY <1>1, <1>3, <1>4 DEF Worker
<1>6. worker' = [worker EXCEPT ![r] = [worker[r] EXCEPT ![a] = w]]
  BY <1>1, <1>2, <1>4 DEF Workers
<1>7. Moves(worker, worker', r, a, w)
  BY <1>5, <1>6, Moved, Zenon
<1> QED
  BY <1>2, <1>5, <1>7 DEF Moves

LEMMA CallKeepsTypes ==
  ASSUME worker \in Workers, RoundsLeft, NEW r \in Requests, NEW a \in Attempts, Call(r, a)
  PROVE  worker' \in Workers /\ RoundsLeft'
<1>1. attempts[r] = a /\ status' = status /\ attempts' = attempts
  BY DEF Call, Granted, Owned, rows
<1>2. /\ worker' \in Workers
      /\ worker'[r][a].at = "calling"
      /\ \A q \in Requests, b \in Attempts : q # r \/ b # a => worker'[q][b] = worker[q][b]
  BY CallBegins
<1>3. ~(a > attempts[r])
  BY <1>1 DEF Attempts
<1> QED
  BY <1>1, <1>2, <1>3 DEF RoundsLeft, At

LEMMA MutationKeepsTypes ==
  ASSUME worker \in Workers, RoundsLeft, NEW r \in Requests, NEW a \in Attempts, Mutate(r, a)
  PROVE  worker' \in Workers /\ RoundsLeft'
<1>1. status' = status /\ attempts' = attempts
  BY DEF Mutate, rows
<1>2. /\ worker' \in Workers
      /\ worker'[r][a].at \in {Onward(r, a), "failing"}
      /\ worker'[r][a].round = worker[r][a].round
      /\ \A q \in Requests, b \in Attempts : q # r \/ b # a => worker'[q][b] = worker[q][b]
  BY MutationReturns
<1>3. worker'[r][a].at # "claimed"
  BY <1>2 DEF Onward
<1>4. worker'[r][a].at = "thinking" => worker[r][a].round < MaxRounds
  BY <1>2 DEF Onward
<1> QED
  BY <1>1, <1>2, <1>3, <1>4 DEF RoundsLeft, At

\* The claims start a worker whose token nobody has used.
LEMMA ClaimKeepsTypes ==
  ASSUME worker \in Workers, RoundsLeft, attempts \in [Requests -> 0..MaxAttempts],
         NEW r \in Requests, attempts[r] + 1 \in Attempts, Goes(r, attempts[r] + 1, "claimed"),
         attempts' = [attempts EXCEPT ![r] = @ + 1],
         \A q \in Requests : status'[q] = "none" => status[q] = "none" /\ q # r
  PROVE  worker' \in Workers /\ RoundsLeft'
<1> DEFINE a == attempts[r] + 1
<1>1. a \in Attempts /\ "claimed" \in Place /\ a > attempts[r]
  BY DEF Place
<1>2. worker[r][a].round = 0
  BY <1>1 DEF RoundsLeft
<1>3. Goes(r, a, "claimed")
  OBVIOUS
<1> HIDE DEF a
<1>4. /\ worker' \in Workers
      /\ worker'[r][a].at = "claimed" /\ worker'[r][a].round = worker[r][a].round
      /\ \A q \in Requests, b \in Attempts : q # r \/ b # a => worker'[q][b] = worker[q][b]
  BY <1>1, <1>3, GoesTo
<1>5. \A q \in Requests : attempts'[q] = IF q = r THEN attempts[q] + 1 ELSE attempts[q]
  OBVIOUS
<1>6. \A q \in Requests, b \in Attempts : b > attempts'[q] => b > attempts[q]
  BY <1>5 DEF Attempts
<1> QED
  BY <1>2, <1>4, <1>5, <1>6 DEF RoundsLeft, At

LEMMA TypesStep ==
  ASSUME TypeOK, RoundsLeft, [Next]_vars
  PROVE  TypeOK' /\ RoundsLeft'
<1> USE DurationAssumption, LimitAssumption
<1>0. worker \in Workers
  BY DEF TypeOK, Workers
<1>1. ASSUME NEW r \in Requests, Submit(r) PROVE TypeOK' /\ RoundsLeft'
  <2>1. attempts[r] = 0 /\ 0 + 1 = 1 /\ 1 \in Attempts
    BY <1>1 DEF Submit, RoundsLeft, Attempts
  <2>2. Goes(r, attempts[r] + 1, "claimed") /\ attempts' = [attempts EXCEPT ![r] = @ + 1]
    BY <1>1, <2>1 DEF Submit
  <2>3. \A q \in Requests : status'[q] = "none" => status[q] = "none" /\ q # r
    BY <1>1 DEF Submit, TypeOK
  <2>4. attempts \in [Requests -> 0..MaxAttempts] /\ attempts[r] + 1 \in Attempts
    BY <2>1 DEF TypeOK
  <2>5. worker' \in Workers /\ RoundsLeft'
    BY <1>0, <2>2, <2>3, <2>4, ClaimKeepsTypes
  <2>6. /\ status' \in [Requests -> {"none", "processing", "completed", "failed"}]
        /\ lease' \in [Requests -> 0..Lease] /\ recent' \in [Requests -> 0..RateWindow]
        /\ attempts' \in [Requests -> 0..MaxAttempts]
    BY <1>1 DEF Submit, TypeOK
  <2> QED
    BY <1>1, <2>5, <2>6 DEF Submit, TypeOK, Workers, result
<1>2. ASSUME NEW r \in Requests, Retry(r) PROVE TypeOK' /\ RoundsLeft'
  <2>1. CASE ClaimFinalizes(r)
    BY <2>1 DEF ClaimFinalizes, TypeOK, RoundsLeft, At
  <2>2. CASE ClaimExhausts(r)
    BY <2>2 DEF ClaimExhausts, TypeOK, RoundsLeft, At, result
  <2>3. CASE ClaimRecovers(r)
    <3>1. attempts[r] + 1 \in Attempts /\ status[r] = "processing"
      BY <2>3 DEF ClaimRecovers, HasAttempts, Expired, TypeOK, Attempts
    <3>2. worker' \in Workers /\ RoundsLeft'
      BY <1>0, <2>3, <3>1, ClaimKeepsTypes DEF ClaimRecovers, TypeOK
    <3>3. attempts' \in [Requests -> 0..MaxAttempts] /\ lease' \in [Requests -> 0..Lease]
      BY <2>3, <3>1 DEF ClaimRecovers, TypeOK, Attempts
    <3> QED
      BY <2>3, <3>2, <3>3 DEF ClaimRecovers, TypeOK, Workers, result
  <2> QED
    BY <1>2, <2>1, <2>2, <2>3 DEF Retry
<1>3. ASSUME NEW r \in Requests, NEW a \in Attempts, WorkerStep(r, a) PROVE TypeOK' /\ RoundsLeft'
  <2>1. CASE Start(r, a)
    <3>1. worker' \in Workers /\ RoundsLeft'
      BY <1>0, <2>1, GoesKeepsTypes DEF Start, Place, rows, RoundsLeft
    <3> QED
      BY <2>1, <3>1 DEF Start, TypeOK, Workers, rows, result
  <2>2. CASE LoseLease(r, a)
    <3>1. worker' \in Workers /\ RoundsLeft'
      BY <1>0, <2>2, GoesKeepsTypes, EndsKeepsTypes DEF LoseLease, Place, rows
    <3> QED
      BY <2>2, <3>1 DEF LoseLease, TypeOK, Workers, rows, result
  <2>3. ASSUME Granted(r, a) PROVE permits' \subseteq Permit
    <3>1. [request |-> r, token |-> a, left |-> lease[r]] \in Permit
      BY DEF TypeOK, Permit
    <3> QED
      BY <2>3, <3>1 DEF Granted, TypeOK, ActivePermits
  <2>4. CASE Call(r, a)
    <3>1. worker' \in Workers /\ RoundsLeft'
      BY <1>0, <2>4, CallKeepsTypes
    <3>2. Allowed(r) + Uncertainty \in Nat
      BY <2>4 DEF Call, Granted, Allowed, Least, TypeOK
    <3>3. [request |-> r, token |-> a, left |-> Allowed(r) + Uncertainty] \in Permit
      BY <3>2 DEF Permit
    <3>4. permits' \subseteq Permit /\ calls' \subseteq Permit
      BY <2>3, <2>4, <3>3 DEF Call, TypeOK
    <3> QED
      BY <2>4, <3>1, <3>4 DEF Call, TypeOK, Workers, rows, result
  <2>5. CASE TooLate(r, a)
    <3>1. worker' \in Workers /\ RoundsLeft'
      BY <1>0, <2>5, GoesKeepsTypes DEF TooLate, Place, rows
    <3> QED
      BY <2>3, <2>5, <3>1 DEF TooLate, TypeOK, Workers, rows, result
  <2>6. CASE GiveUp(r, a)
    <3>1. worker' \in Workers /\ RoundsLeft'
      BY <1>0, <2>6, GoesKeepsTypes DEF GiveUp, Refused, Place, rows
    <3> QED
      BY <2>6, <3>1 DEF GiveUp, TypeOK, Workers, rows, result
  <2>7. CASE Respond(r, a)
    <3>1. worker' \in Workers /\ RoundsLeft'
      BY <1>0, <2>7, GoesKeepsTypes DEF Respond, Place, rows
    <3> QED
      BY <2>7, <3>1 DEF Respond, TypeOK, Workers, rows, result
  <2>8. CASE Hang(r, a)
    <3>1. worker' \in Workers /\ RoundsLeft'
      BY <1>0, <2>8, GoesKeepsTypes DEF Hang, Place, rows
    <3>2. \A c \in Permit : [c EXCEPT !.left = Least(c.left, Uncertainty)] \in Permit
      BY DEF Least, Permit
    <3>3. calls' \subseteq Permit
      BY <2>8, <3>2, Zenon DEF Hang, Ended, TypeOK
    <3> QED
      BY <2>8, <3>1, <3>3 DEF Hang, TypeOK, Workers, rows, result
  <2>9. CASE Settle(r, a)
    <3>1. worker' \in Workers /\ RoundsLeft'
      BY <1>0, <2>9, GoesKeepsTypes DEF Settle, Refused, Place, rows
    <3>2. \A p \in Permit : [p EXCEPT !.left = IF @ < Uncertainty THEN Uncertainty ELSE @] \in Permit
      BY DEF Permit
    <3>3. permits' \subseteq Permit
      BY <2>9, <3>2, Zenon DEF Settle, Released, TypeOK
    <3> QED
      BY <2>9, <3>1, <3>3 DEF Settle, TypeOK, Workers, rows, result
  <2>10. CASE Break(r, a)
    <3>1. worker' \in Workers /\ RoundsLeft'
      BY <1>0, <2>10, GoesKeepsTypes DEF Break, Place, rows
    <3> QED
      BY <2>10, <3>1 DEF Break, TypeOK, Workers, rows, result
  <2>11. CASE ReadTool(r, a)
    <3>1. worker' \in Workers /\ RoundsLeft'
      BY <1>0, <2>11, GoesKeepsTypes DEF ReadTool, Onward, Place, rows
    <3> QED
      BY <2>11, <3>1 DEF ReadTool, TypeOK, Workers, rows, result
  <2>12. CASE Mutate(r, a)
    <3>1. worker' \in Workers /\ RoundsLeft'
      BY <1>0, <2>12, MutationKeepsTypes
    <3>2. action' \in [Requests -> BOOLEAN] /\ effects' \in [Requests -> Nat]
      BY <2>12 DEF Mutate, TypeOK
    <3> QED
      BY <2>12, <3>1, <3>2 DEF Mutate, TypeOK, Workers, rows
  <2>13. CASE Finalize(r, a)
    <3>1. \A q \in Requests : status'[q] = "none" => status[q] = "none"
      BY <2>13 DEF Finalize, TypeOK
    <3>2. worker' \in Workers /\ RoundsLeft'
      BY <1>0, <2>13, <3>1, GoesKeepsTypes, EndsKeepsTypes DEF Finalize, Place
    <3>3. /\ status' \in [Requests -> {"none", "processing", "completed", "failed"}]
          /\ answers' \in [Requests -> Nat]
      BY <2>13 DEF Finalize, TypeOK
    <3> QED
      BY <2>13, <3>2, <3>3 DEF Finalize, TypeOK, Workers
  <2>14. CASE Fail(r, a)
    <3>1. \A q \in Requests : status'[q] = "none" => status[q] = "none"
      BY <2>14 DEF Fail, TypeOK
    <3>2. worker' \in Workers /\ RoundsLeft'
      BY <1>0, <2>14, <3>1, GoesKeepsTypes, EndsKeepsTypes DEF Fail, Place
    <3> QED
      BY <2>14, <3>2 DEF Fail, TypeOK, Workers, result
  <2>15. CASE Yield(r, a)
    <3>1. worker' \in Workers /\ RoundsLeft'
      BY <1>0, <2>15, EndsKeepsTypes DEF Yield
    <3>2. lease' \in [Requests -> 0..Lease]
      BY <2>15 DEF Yield, TypeOK
    <3> QED
      BY <2>15, <3>1, <3>2 DEF Yield, TypeOK, Workers, result
  <2> QED
    BY <1>3, <2>1, <2>2, <2>4, <2>5, <2>6, <2>7, <2>8, <2>9, <2>10, <2>11, <2>12, <2>13, <2>14, <2>15
       DEF WorkerStep
<1>4. CASE Tick
  <2>1. lease' \in [Requests -> 0..Lease] /\ recent' \in [Requests -> 0..RateWindow]
    BY <1>4 DEF Tick, Down, TypeOK
  <2>2. \A S \in SUBSET Permit : Older(S) \subseteq Permit
    BY DEF Older, Down, Permit
  <2>3. permits' \subseteq Permit /\ calls' \subseteq Permit
    BY <1>4, <2>2 DEF Tick, TypeOK
  <2> QED
    BY <1>4, <2>1, <2>3 DEF Tick, TypeOK, RoundsLeft, At, result
<1>5. CASE UNCHANGED vars
  BY <1>5 DEF vars, TypeOK, RoundsLeft, At
<1> QED
  BY <1>1, <1>2, <1>3, <1>4, <1>5 DEF Next

(***************************************************************************)
(* The rows, permits and workers keep their types: leases never outlast    *)
(* Lease, attempts never exceed MaxAttempts, rounds never exceed MaxRounds.*)
(***************************************************************************)
THEOREM ChatTypes == Spec => []TypeOK
<1>1. Init => TypeOK /\ RoundsLeft
  BY InitTypes
<1>2. (TypeOK /\ RoundsLeft) /\ [Next]_vars => (TypeOK /\ RoundsLeft)'
  BY TypesStep
<1> QED
  BY <1>1, <1>2, PTL DEF Spec

----------------------------------------------------------------------------
(* Permits and calls.                                                      *)

\* Records that name different requests are no more than those of which each has one.
LEMMA OnePerRequest ==
  ASSUME NEW S, NEW T, IsFiniteSet(T),
         \A s, t \in S : s.request = t.request => s = t,
         \A s \in S : \E t \in T : t.request = s.request
  PROVE  IsFiniteSet(S) /\ Cardinality(S) <= Cardinality(T)
<1> DEFINE f == [s \in S |-> CHOOSE t \in T : t.request = s.request]
<1>1. \A s \in S : f[s] \in T /\ f[s].request = s.request
  OBVIOUS
<1>2. f \in [S -> T]
  BY <1>1
<1>3. ASSUME NEW s \in S, NEW t \in S, f[s] = f[t] PROVE s = t
  <2>1. f[s].request = s.request /\ f[t].request = t.request
    BY <1>1
  <2> HIDE DEF f
  <2>2. s.request = t.request
    BY <1>3, <2>1
  <2> QED
    BY <2>2
<1>4. f \in Injection(S, T)
  BY <1>2, <1>3 DEF Injection, IsInjective
<1> QED
  BY <1>4, FS_Injection

(***************************************************************************)
(* Every call of the provider is covered by a permit of its own that does  *)
(* not expire before it; a call that has ended is nowhere.                 *)
(***************************************************************************)
OnePermit == \A p, q \in permits : p.request = q.request => p = q

Covered ==
  \A c \in calls :
    /\ c.left > 0
    /\ \E p \in permits : p.request = c.request /\ p.token = c.token /\ c.left <= p.left

Quiet ==
  \A r \in Requests, a \in Attempts :
    At(r, a) \in {"late", "answered", "rejected"} => Ended(r, a) = {}

CapacityInv ==
  /\ TypeOK /\ RoundsLeft
  /\ IsFiniteSet(permits) /\ IsFiniteSet(calls)
  /\ OnePermit /\ Covered /\ Quiet
  /\ OneCallPerRequest /\ ProviderWithinCapacity

LEMMA InitCapacity == Init => CapacityInv
  BY InitTypes, FS_EmptySet, LimitAssumption
     DEF Init, CapacityInv, OnePermit, Covered, Quiet, Ended, OneCallPerRequest, ProviderWithinCapacity

\* No worker has just come to a place where it has no call.
NothingAnswered ==
  \A r \in Requests, a \in Attempts :
    worker'[r][a].at \in {"late", "answered", "rejected"} => At(r, a) = worker'[r][a].at

LEMMA GoesOn ==
  ASSUME worker \in Workers, NEW r \in Requests, NEW a \in Attempts,
         NEW place \in Place \ {"late", "answered", "rejected"}, Goes(r, a, place)
  PROVE  NothingAnswered
<1>1. /\ worker'[r][a].at = place
      /\ \A q \in Requests, b \in Attempts : q # r \/ b # a => worker'[q][b] = worker[q][b]
  BY GoesTo
<1> QED
  BY <1>1 DEF NothingAnswered, At

LEMMA EndsNow ==
  ASSUME worker \in Workers, NEW r \in Requests, NEW a \in Attempts, Ends(r, a)
  PROVE  NothingAnswered
<1>1. /\ worker'[r][a].at = "done"
      /\ \A q \in Requests, b \in Attempts : q # r \/ b # a => worker'[q][b] = worker[q][b]
  BY EndsThere
<1> QED
  BY <1>1 DEF NothingAnswered, At

\* What CapacityInv says beyond the types.
CallsCovered ==
  /\ IsFiniteSet(permits) /\ IsFiniteSet(calls)
  /\ OnePermit /\ Covered /\ Quiet
  /\ OneCallPerRequest /\ ProviderWithinCapacity

LEMMA Undisturbed ==
  ASSUME CapacityInv, UNCHANGED <<permits, calls>>, NothingAnswered
  PROVE  CallsCovered'
<1>1. permits' = permits /\ calls' = calls
  OBVIOUS
<1>2. Quiet'
  BY <1>1 DEF CapacityInv, Quiet, NothingAnswered, At, Ended
<1> QED
  BY <1>1, <1>2
     DEF CapacityInv, CallsCovered, OnePermit, Covered, OneCallPerRequest, ProviderWithinCapacity

\* A new permit is the only one of its request, and there is room for a call.
LEMMA PermitGranted ==
  ASSUME CapacityInv, NEW r \in Requests, NEW a \in Attempts, Granted(r, a)
  PROVE  /\ IsFiniteSet(permits') /\ OnePermit'
         /\ \A d \in calls :
              /\ d.request # r /\ d.left > 0
              /\ \E q \in permits' : q.request = d.request /\ q.token = d.token /\ d.left <= q.left
         /\ Cardinality(calls) < MaxConcurrency
<1> USE DurationAssumption, LimitAssumption
<1>1. PICK p : p = [request |-> r, token |-> a, left |-> lease[r]]
  OBVIOUS
<1>2. permits' = ActivePermits \union {p} /\ p.request = r
  BY <1>1, Zenon DEF Granted
<1>3. IsFiniteSet(ActivePermits)
  BY FS_Subset DEF ActivePermits, CapacityInv
<1>4. \A q \in ActivePermits : q.request # r
  BY DEF Granted, Retained
<1>5. \A d \in calls : d.left > 0 /\ \E q \in ActivePermits : q.request = d.request /\ q.token = d.token /\ d.left <= q.left
  <2> SUFFICES ASSUME NEW d \in calls
               PROVE d.left > 0 /\ \E q \in ActivePermits : q.request = d.request /\ q.token = d.token /\ d.left <= q.left
    OBVIOUS
  <2>1. PICK q \in permits : q.request = d.request /\ q.token = d.token /\ d.left <= q.left
    BY DEF CapacityInv, Covered
  <2>2. d.left \in Nat /\ q.left \in Nat /\ d.left > 0
    BY DEF CapacityInv, Covered, TypeOK, Permit
  <2> QED
    BY <2>1, <2>2 DEF ActivePermits
<1>6. Cardinality(calls) <= Cardinality(ActivePermits) /\ IsFiniteSet(calls)
  BY <1>3, <1>5, OnePerRequest DEF CapacityInv, OneCallPerRequest
<1>7. Cardinality(calls) < MaxConcurrency
  BY <1>3, <1>6, FS_CardinalityType DEF Granted
<1>8. OnePermit'
  BY <1>2, <1>4 DEF OnePermit, CapacityInv, ActivePermits
<1>9. IsFiniteSet(permits')
  BY <1>2, <1>3, FS_AddElement
<1> QED
  BY <1>2, <1>4, <1>5, <1>7, <1>8, <1>9

LEMMA CallCovered ==
  ASSUME CapacityInv, NEW r \in Requests, NEW a \in Attempts, Call(r, a)
  PROVE  CallsCovered'
<1> USE DurationAssumption, LimitAssumption
<1>1. Granted(r, a)
  BY DEF Call
<1>2. PICK c : c = [request |-> r, token |-> a, left |-> Allowed(r) + Uncertainty]
  OBVIOUS
<1>3. calls' = calls \union {c} /\ c.request = r /\ c.token = a
  BY <1>2, Zenon DEF Call
<1>4. /\ IsFiniteSet(permits') /\ OnePermit'
      /\ \A d \in calls :
           /\ d.request # r /\ d.left > 0
           /\ \E q \in permits' : q.request = d.request /\ q.token = d.token /\ d.left <= q.left
      /\ Cardinality(calls) < MaxConcurrency
  BY <1>1, PermitGranted
<1>5. lease[r] \in Nat /\ lease[r] > Margin + Reserve
  BY <1>1 DEF Granted, CapacityInv, TypeOK
<1>6. c.left > 0 /\ c.left <= lease[r]
  BY <1>2, <1>5 DEF Allowed, Least
<1>7. \E q \in permits' : q.request = c.request /\ q.token = c.token /\ c.left <= q.left
  <2>1. PICK p : p = [request |-> r, token |-> a, left |-> lease[r]]
    OBVIOUS
  <2>2. p \in permits' /\ p.request = r /\ p.token = a /\ p.left = lease[r]
    BY <1>1, <2>1 DEF Granted
  <2> QED
    BY <1>3, <1>6, <2>2
<1>8. IsFiniteSet(calls') /\ ProviderWithinCapacity'
  <2>1. IsFiniteSet(calls)
    BY DEF CapacityInv
  <2>2. /\ IsFiniteSet(calls')
        /\ Cardinality(calls') = IF c \in calls THEN Cardinality(calls) ELSE Cardinality(calls) + 1
    BY <1>3, <2>1, FS_AddElement, Zenon
  <2>3. Cardinality(calls) \in Nat
    BY <2>1, FS_CardinalityType
  <2> QED
    BY <1>4, <2>2, <2>3 DEF ProviderWithinCapacity
<1>9. OneCallPerRequest'
  BY <1>3, <1>4 DEF OneCallPerRequest, CapacityInv
<1>10. Covered'
  BY <1>3, <1>4, <1>6, <1>7 DEF Covered
<1>11. Quiet'
  <2>1. worker \in Workers /\ RoundsLeft
    BY DEF CapacityInv, TypeOK, Workers
  <2>2. /\ worker'[r][a].at = "calling"
        /\ \A q \in Requests, b \in Attempts : q # r \/ b # a => worker'[q][b] = worker[q][b]
    BY <2>1, CallBegins
  <2>3. \A q \in Requests, b \in Attempts : q # r \/ b # a => Ended(q, b)' = Ended(q, b)
    BY <1>3 DEF Ended
  <2> QED
    BY <2>2, <2>3 DEF Quiet, At, CapacityInv
<1> QED
  BY <1>4, <1>8, <1>9, <1>10, <1>11 DEF CallsCovered

LEMMA NoCallCovered ==
  ASSUME CapacityInv, NEW r \in Requests, NEW a \in Attempts, TooLate(r, a)
  PROVE  CallsCovered'
<1>1. Granted(r, a) /\ calls' = calls
  BY DEF TooLate
<1>2. /\ IsFiniteSet(permits') /\ OnePermit'
      /\ \A d \in calls :
           /\ d.request # r /\ d.left > 0
           /\ \E q \in permits' : q.request = d.request /\ q.token = d.token /\ d.left <= q.left
  BY <1>1, PermitGranted
<1>3. Covered'
  BY <1>1, <1>2 DEF Covered
<1>4. Quiet'
  <2>1. \A q \in Requests, b \in Attempts : q # r \/ b # a => worker'[q][b] = worker[q][b]
    BY GoesTo DEF TooLate, CapacityInv, TypeOK, Workers, Place
  <2>2. Ended(r, a) = {}
    BY <1>2 DEF Ended
  <2> QED
    BY <1>1, <2>1, <2>2 DEF Quiet, At, Ended, CapacityInv
<1> QED
  BY <1>1, <1>2, <1>3, <1>4 DEF CallsCovered, CapacityInv, OneCallPerRequest, ProviderWithinCapacity

\* Calls that only get older, or fewer, stay within the capacity.
LEMMA CallsShrink ==
  ASSUME CapacityInv, OneCallPerRequest',
         \A d \in calls' : \E c \in calls : c.request = d.request
  PROVE  IsFiniteSet(calls') /\ ProviderWithinCapacity'
<1>1. IsFiniteSet(calls') /\ Cardinality(calls') <= Cardinality(calls)
  BY OnePerRequest DEF CapacityInv, OneCallPerRequest
<1>2. Cardinality(calls) <= MaxConcurrency /\ IsFiniteSet(calls)
  BY DEF CapacityInv, ProviderWithinCapacity
<1> QED
  BY <1>1, <1>2, FS_CardinalityType, LimitAssumption DEF ProviderWithinCapacity

LEMMA CallAnswered ==
  ASSUME CapacityInv, NEW r \in Requests, NEW a \in Attempts, Respond(r, a)
  PROVE  CallsCovered'
<1>1. calls' = calls \ Ended(r, a) /\ permits' = permits
  BY DEF Respond
<1>2. OneCallPerRequest' /\ OnePermit' /\ Covered' /\ IsFiniteSet(permits')
  BY <1>1 DEF CapacityInv, OneCallPerRequest, OnePermit, Covered
<1>3. IsFiniteSet(calls') /\ ProviderWithinCapacity'
  BY <1>1, <1>2, CallsShrink
<1>4. Quiet'
  <2>1. \A q \in Requests, b \in Attempts : q # r \/ b # a => worker'[q][b] = worker[q][b]
    BY GoesTo DEF Respond, CapacityInv, TypeOK, Workers, Place
  <2>2. Ended(r, a)' = {} /\ \A q \in Requests, b \in Attempts : Ended(q, b)' \subseteq Ended(q, b)
    BY <1>1 DEF Ended
  <2> QED
    BY <2>1, <2>2 DEF Quiet, At, CapacityInv
<1> QED
  BY <1>2, <1>3, <1>4 DEF CallsCovered

LEMMA CallHangs ==
  ASSUME CapacityInv, NEW r \in Requests, NEW a \in Attempts, Hang(r, a)
  PROVE  CallsCovered'
<1> USE DurationAssumption
<1>1. \A c \in Permit :
        LET d == [c EXCEPT !.left = Least(c.left, Uncertainty)]
        IN  /\ d.request = c.request /\ d.token = c.token /\ d.left <= c.left
            /\ (c.left > 0 /\ Uncertainty > 0 => d.left > 0)
  BY DEF Permit, Least
<1>2. \A d \in calls' :
        \/ d \in calls /\ d \notin Ended(r, a)
        \/ \E c \in Ended(r, a) : Uncertainty > 0 /\ d = [c EXCEPT !.left = Least(c.left, Uncertainty)]
  BY Zenon DEF Hang
<1>3. \A c \in Ended(r, a) : c \in calls /\ c.request = r /\ c.token = a
  BY DEF Ended
<1>4. calls \subseteq Permit /\ \A c \in calls : c.left > 0
  BY DEF CapacityInv, TypeOK, Covered
<1>5. \A d \in calls' : \E c \in calls :
        /\ c.request = d.request /\ c.token = d.token /\ d.left <= c.left /\ d.left > 0
        /\ \/ d = c /\ d \notin Ended(r, a)
           \/ c \in Ended(r, a) /\ d = [c EXCEPT !.left = Least(c.left, Uncertainty)]
  <2> SUFFICES ASSUME NEW d \in calls'
               PROVE \E c \in calls :
                 /\ c.request = d.request /\ c.token = d.token /\ d.left <= c.left /\ d.left > 0
                 /\ \/ d = c /\ d \notin Ended(r, a)
                    \/ c \in Ended(r, a) /\ d = [c EXCEPT !.left = Least(c.left, Uncertainty)]
    OBVIOUS
  <2>1. CASE d \in calls /\ d \notin Ended(r, a)
    BY <2>1, <1>4 DEF Permit
  <2>2. CASE \E c \in Ended(r, a) : Uncertainty > 0 /\ d = [c EXCEPT !.left = Least(c.left, Uncertainty)]
    <3>1. PICK c \in Ended(r, a) : Uncertainty > 0 /\ d = [c EXCEPT !.left = Least(c.left, Uncertainty)]
      BY <2>2
    <3> QED
      BY <3>1, <1>1, <1>3, <1>4
  <2> QED
    BY <1>2, <2>1, <2>2
<1>6. OneCallPerRequest'
  <2> SUFFICES ASSUME NEW d \in calls', NEW e \in calls', d.request = e.request PROVE d = e
    BY DEF OneCallPerRequest
  <2>1. PICK c \in calls :
          /\ c.request = d.request
          /\ \/ d = c /\ d \notin Ended(r, a)
             \/ c \in Ended(r, a) /\ d = [c EXCEPT !.left = Least(c.left, Uncertainty)]
    BY <1>5
  <2>2. PICK b \in calls :
          /\ b.request = e.request
          /\ \/ e = b /\ e \notin Ended(r, a)
             \/ b \in Ended(r, a) /\ e = [b EXCEPT !.left = Least(b.left, Uncertainty)]
    BY <1>5
  <2>3. b = c
    BY <2>1, <2>2 DEF CapacityInv, OneCallPerRequest
  <2> QED
    BY <2>1, <2>2, <2>3
<1>7. IsFiniteSet(calls') /\ ProviderWithinCapacity'
  BY <1>5, <1>6, CallsShrink
<1>8. permits' = permits
  BY DEF Hang
<1>9. Covered'
  <2> SUFFICES ASSUME NEW d \in calls'
               PROVE d.left > 0 /\ \E p \in permits : p.request = d.request /\ p.token = d.token /\ d.left <= p.left
    BY <1>8 DEF Covered
  <2>1. PICK c \in calls : c.request = d.request /\ c.token = d.token /\ d.left <= c.left /\ d.left > 0
    BY <1>5
  <2>2. PICK p \in permits : p.request = c.request /\ p.token = c.token /\ c.left <= p.left
    BY DEF CapacityInv, Covered
  <2>3. c.left \in Int /\ p.left \in Int /\ d.left \in Int
    BY <1>4, <1>1, <1>2, <1>3 DEF Permit, CapacityInv, TypeOK, Least
  <2> QED
    BY <2>1, <2>2, <2>3
<1>10. Quiet'
  <2>1. /\ worker'[r][a].at = "unknown"
        /\ \A q \in Requests, b \in Attempts : q # r \/ b # a => worker'[q][b] = worker[q][b]
    BY GoesTo DEF Hang, CapacityInv, TypeOK, Workers, Place
  <2>2. \A q \in Requests, b \in Attempts : Ended(q, b) = {} => Ended(q, b)' = {}
    BY <1>5 DEF Ended
  <2> QED
    BY <2>1, <2>2 DEF Quiet, At, CapacityInv
<1> QED
  BY <1>6, <1>7, <1>8, <1>9, <1>10 DEF CallsCovered, CapacityInv, OnePermit

\* A settled permit is deleted, or kept for longer.
LEMMA CallSettled ==
  ASSUME CapacityInv, NEW r \in Requests, NEW a \in Attempts, Settle(r, a)
  PROVE  CallsCovered'
<1> USE DurationAssumption
<1> DEFINE own == {p \in permits : p.request = r /\ p.token = a}
           Kept(p) == [p EXCEPT !.left = IF @ < Uncertainty THEN Uncertainty ELSE @]
<1>1. calls' = calls
  BY DEF Settle
<1>2. permits' = (permits \ own) \union {Kept(p) : p \in {q \in own : At(r, a) = "unknown"}}
  BY Zenon DEF Settle, Released
<1>3. permits \subseteq Permit /\ calls \subseteq Permit
  BY DEF CapacityInv, TypeOK
<1>4. \A p \in Permit : Kept(p) \in Permit /\ Kept(p).request = p.request /\ Kept(p).token = p.token /\ Kept(p).left >= p.left
  BY DEF Permit
<1> HIDE DEF Kept
<1>5. \A p \in permits' : \E q \in permits : q.request = p.request /\ ((p = q /\ q \notin own) \/ (p = Kept(q) /\ q \in own))
  <2>1. \A p \in permits' : p \in permits \ own \/ \E q \in own : p = Kept(q)
    BY <1>2, Zenon
  <2>2. own \subseteq permits
    OBVIOUS
  <2>3. \A q \in own : Kept(q).request = q.request
    BY <1>3, <1>4, <2>2
  <2> HIDE DEF own
  <2> SUFFICES ASSUME NEW p \in permits'
               PROVE \E q \in permits : q.request = p.request /\ ((p = q /\ q \notin own) \/ (p = Kept(q) /\ q \in own))
    OBVIOUS
  <2>4. CASE p \in permits \ own
    BY <2>4
  <2>5. CASE \E q \in own : p = Kept(q)
    BY <2>2, <2>3, <2>5
  <2> QED
    BY <2>1, <2>4, <2>5
<1>6. OnePermit'
  <2> SUFFICES ASSUME NEW p \in permits', NEW q \in permits', p.request = q.request PROVE p = q
    BY DEF OnePermit
  <2>1. PICK x \in permits : x.request = p.request /\ ((p = x /\ x \notin own) \/ (p = Kept(x) /\ x \in own))
    BY <1>5
  <2>2. PICK y \in permits : y.request = q.request /\ ((q = y /\ y \notin own) \/ (q = Kept(y) /\ y \in own))
    BY <1>5
  <2>3. x = y
    BY <2>1, <2>2 DEF CapacityInv, OnePermit
  <2> QED
    BY <2>1, <2>2, <2>3
<1>7. IsFiniteSet(permits')
  BY <1>5, <1>6, OnePerRequest DEF OnePermit, CapacityInv
<1>8. Covered'
  <2> SUFFICES ASSUME NEW c \in calls
               PROVE c.left > 0 /\ \E p \in permits' : p.request = c.request /\ p.token = c.token /\ c.left <= p.left
    BY <1>1 DEF Covered
  <2>1. PICK p \in permits : p.request = c.request /\ p.token = c.token /\ c.left <= p.left
    BY DEF CapacityInv, Covered
  <2>2. c.left > 0
    BY DEF CapacityInv, Covered
  <2>3. CASE p \notin own
    BY <1>2, <2>1, <2>2, <2>3
  <2>4. CASE p \in own
    <3>1. c \in Ended(r, a)
      BY <2>1, <2>4 DEF Ended
    <3>2. At(r, a) = "unknown"
      BY <3>1 DEF Settle, CapacityInv, Quiet
    <3>3. Kept(p) \in permits'
      BY <1>2, <2>4, <3>2
    <3>4. Kept(p).request = p.request /\ Kept(p).token = p.token /\ Kept(p).left >= p.left
      BY <1>3, <1>4
    <3>5. c.left <= Kept(p).left
      <4>1. Kept(p).left \in Nat /\ p.left \in Nat /\ c.left \in Nat
        BY <1>3, <1>4 DEF Permit
      <4> QED
        BY <2>1, <3>4, <4>1
    <3> QED
      BY <2>1, <2>2, <3>3, <3>4, <3>5
  <2> QED
    BY <2>3, <2>4
<1>9. Quiet'
  <2>1. NothingAnswered
    BY GoesOn DEF Settle, Refused, CapacityInv, TypeOK, Workers, Place
  <2> QED
    BY <1>1, <2>1 DEF Quiet, NothingAnswered, At, Ended, CapacityInv
<1> QED
  BY <1>1, <1>6, <1>7, <1>8, <1>9 DEF CallsCovered, CapacityInv, OneCallPerRequest, ProviderWithinCapacity

\* Time passes for a call and its permit alike.
LEMMA CallsAge ==
  ASSUME CapacityInv, Tick
  PROVE  CallsCovered'
<1>1. permits \subseteq Permit /\ calls \subseteq Permit
  BY DEF CapacityInv, TypeOK
<1> DEFINE Aged(p) == [p EXCEPT !.left = Down(@)]
<1>2. permits' = {Aged(p) : p \in permits} /\ calls' = {c \in {Aged(d) : d \in calls} : c.left > 0}
  BY Zenon DEF Tick, Older
<1>3. \A p \in Permit : Aged(p) \in Permit /\ Aged(p).request = p.request /\ Aged(p).token = p.token /\ Aged(p).left = Down(p.left)
  BY DEF Permit, Down
<1> HIDE DEF Aged
<1>4. OnePermit'
  BY <1>1, <1>2, <1>3 DEF OnePermit, CapacityInv
<1>5. IsFiniteSet(permits')
  <2>1. \A p \in permits' : \E q \in permits : q.request = p.request
    BY <1>1, <1>2, <1>3
  <2> QED
    BY <1>4, <2>1, OnePerRequest DEF OnePermit, CapacityInv
<1>6. OneCallPerRequest'
  BY <1>1, <1>2, <1>3 DEF OneCallPerRequest, CapacityInv
<1>7. IsFiniteSet(calls') /\ ProviderWithinCapacity'
  BY <1>1, <1>2, <1>3, <1>6, CallsShrink
<1>8. Covered'
  <2> SUFFICES ASSUME NEW d \in calls'
               PROVE d.left > 0 /\ \E p \in permits' : p.request = d.request /\ p.token = d.token /\ d.left <= p.left
    BY DEF Covered
  <2>1. PICK c \in calls : d = Aged(c) /\ d.left > 0
    BY <1>2
  <2>2. PICK p \in permits : p.request = c.request /\ p.token = c.token /\ c.left <= p.left
    BY DEF CapacityInv, Covered
  <2>3. Aged(p) \in permits'
    BY <1>2
  <2>4. c.left \in Nat /\ p.left \in Nat
    BY <1>1 DEF Permit
  <2>5. d.left <= Aged(p).left
    BY <1>1, <1>3, <2>1, <2>2, <2>4 DEF Down
  <2> QED
    BY <1>1, <1>3, <2>1, <2>2, <2>3, <2>5
<1>9. Quiet'
  <2>1. worker' = worker
    BY DEF Tick
  <2>2. \A q \in Requests, b \in Attempts : Ended(q, b) = {} => Ended(q, b)' = {}
    BY <1>1, <1>2, <1>3 DEF Ended
  <2> QED
    BY <2>1, <2>2 DEF Quiet, At, CapacityInv
<1> QED
  BY <1>4, <1>5, <1>6, <1>7, <1>8, <1>9 DEF CallsCovered

LEMMA CapacityStep == CapacityInv /\ [Next]_vars => CapacityInv'
<1> SUFFICES ASSUME CapacityInv, [Next]_vars PROVE CapacityInv'
  OBVIOUS
<1>1. TypeOK' /\ RoundsLeft'
  BY TypesStep DEF CapacityInv
<1>2. worker \in Workers
  BY DEF CapacityInv, TypeOK, Workers
<1>3. ASSUME NEW r \in Requests, Submit(r) \/ Retry(r) PROVE CallsCovered'
  <2>1. UNCHANGED <<permits, calls>>
    BY <1>3 DEF Submit, Retry, ClaimFinalizes, ClaimExhausts, ClaimRecovers
  <2>2. "claimed" \in Place \ {"late", "answered", "rejected"}
    BY DEF Place
  <2>3. NothingAnswered
    <3>1. CASE Submit(r)
      <4>1. 1 \in Attempts
        BY LimitAssumption DEF Attempts
      <4> QED
        BY <1>2, <2>2, <3>1, <4>1, GoesOn DEF Submit
    <3>2. CASE ClaimRecovers(r)
      <4>1. attempts[r] + 1 \in Attempts
        BY <3>2, LimitAssumption DEF ClaimRecovers, HasAttempts, CapacityInv, TypeOK, Attempts
      <4> QED
        BY <1>2, <2>2, <3>2, <4>1, GoesOn DEF ClaimRecovers
    <3>3. CASE ClaimFinalizes(r) \/ ClaimExhausts(r)
      BY <3>3 DEF ClaimFinalizes, ClaimExhausts, NothingAnswered, At
    <3> QED
      BY <1>3, <3>1, <3>2, <3>3 DEF Retry
  <2> QED
    BY <2>1, <2>3, Undisturbed
<1>4. ASSUME NEW r \in Requests, NEW a \in Attempts, WorkerStep(r, a) PROVE CallsCovered'
  <2>1. CASE Start(r, a) \/ LoseLease(r, a) \/ GiveUp(r, a) \/ Break(r, a) \/ ReadTool(r, a)
    BY <1>2, <2>1, GoesOn, EndsNow, Undisturbed DEF Start, LoseLease, GiveUp, Refused, Break, ReadTool, Onward, Place
  <2>2. CASE Mutate(r, a)
    <3>1. /\ worker'[r][a].at \in {"thinking", "failing"}
          /\ \A q \in Requests, b \in Attempts : q # r \/ b # a => worker'[q][b] = worker[q][b]
      BY <1>2, <2>2, MutationReturns DEF Onward
    <3>2. NothingAnswered
      BY <3>1 DEF NothingAnswered, At
    <3> QED
      BY <2>2, <3>2, Undisturbed DEF Mutate
  <2>3. CASE Finalize(r, a) \/ Fail(r, a) \/ Yield(r, a)
    BY <1>2, <2>3, GoesOn, EndsNow, Undisturbed DEF Finalize, Fail, Yield, Place
  <2>4. CASE Call(r, a) \/ TooLate(r, a) \/ Respond(r, a) \/ Hang(r, a) \/ Settle(r, a)
    BY <2>4, CallCovered, NoCallCovered, CallAnswered, CallHangs, CallSettled
  <2> QED
    BY <1>4, <2>1, <2>2, <2>3, <2>4 DEF WorkerStep
<1>5. ASSUME Tick PROVE CallsCovered'
  BY <1>5, CallsAge
<1>6. ASSUME UNCHANGED vars PROVE CallsCovered'
  <2>1. UNCHANGED <<permits, calls>> /\ NothingAnswered
    BY <1>6 DEF vars, NothingAnswered, At
  <2> QED
    BY <2>1, Undisturbed
<1>7. CallsCovered'
  BY <1>3, <1>4, <1>5, <1>6 DEF Next
<1> QED
  BY <1>1, <1>7 DEF CapacityInv, CallsCovered

(***************************************************************************)
(* The provider never works on more calls than the policy allows, however  *)
(* many workers hang, crash or outlive their leases.                       *)
(***************************************************************************)
THEOREM CapacityRespected == Spec => []ProviderWithinCapacity
<1>1. CapacityInv => ProviderWithinCapacity
  BY DEF CapacityInv
<1> QED
  BY <1>1, InitCapacity, CapacityStep, PTL DEF Spec

(***************************************************************************)
(* The provider never works on two calls for the same message.             *)
(***************************************************************************)
THEOREM OneCall == Spec => []OneCallPerRequest
<1>1. CapacityInv => OneCallPerRequest
  BY DEF CapacityInv
<1> QED
  BY <1>1, InitCapacity, CapacityStep, PTL DEF Spec

----------------------------------------------------------------------------
(* The share of a user.                                                    *)

Users == {UserOf[r] : r \in Requests}

Processing == {r \in Requests : status[r] = "processing"}

\* The messages of u that occupy a place.
Places(u) ==
  {r \in Requests :
     /\ UserOf[r] = u
     /\ \/ status[r] = "processing" /\ lease[r] > 0
        \/ \E c \in calls : c.request = r}

ShareInv ==
  /\ CapacityInv
  /\ IsFiniteSet(Processing)
  /\ \A u \in Users : IsFiniteSet(Places(u)) /\ Cardinality(Places(u)) <= MaxActive

LEMMA ActiveFinite ==
  ASSUME ShareInv, NEW u
  PROVE  IsFiniteSet(ActiveAttempts(u))
<1> DEFINE R == {q \in Requests : UserOf[q] = u /\ status[q] = "processing" /\ lease[q] > 0}
           A == {<<r, attempts[r]>> : r \in R}
           P == {q \in ActivePermits : UserOf[q.request] = u}
           B == {<<p.request, p.token>> : p \in P}
<1>1. IsFiniteSet(R)
  BY FS_Subset DEF ShareInv, Processing
<1>2. IsFiniteSet(P)
  BY FS_Subset DEF ShareInv, CapacityInv, ActivePermits
<1>3. IsFiniteSet(A)
  <2> DEFINE f == [t \in A |-> t[1]]
  <2> HIDE DEF R
  <2>1. f \in [A -> R] /\ \A s, t \in A : f[s] = f[t] => s = t
    OBVIOUS
  <2>2. f \in Injection(A, R)
    BY <2>1 DEF Injection, IsInjective
  <2> QED
    BY <1>1, <2>2, FS_Injection
<1>4. IsFiniteSet(B)
  <2> DEFINE f == [t \in B |-> CHOOSE p \in P : t = <<p.request, p.token>>]
  <2> HIDE DEF P
  <2>1. \A t \in B : f[t] \in P /\ t = <<f[t].request, f[t].token>>
    OBVIOUS
  <2>2. f \in [B -> P] /\ \A s, t \in B : f[s] = f[t] => s = t
    <3>1. f \in [B -> P]
      BY <2>1
    <3> HIDE DEF f
    <3> QED
      BY <2>1, <3>1
  <2>3. f \in Injection(B, P)
    BY <2>2 DEF Injection, IsInjective
  <2> QED
    BY <1>2, <2>3, FS_Injection
<1>5. ActiveAttempts(u) = A \union B
  BY Zenon DEF ActiveAttempts
<1> QED
  BY <1>3, <1>4, <1>5, FS_Union

\* Every place is counted among the active attempts.
LEMMA PlacesCounted ==
  ASSUME ShareInv, NEW u
  PROVE  Cardinality(Places(u)) <= Cardinality(ActiveAttempts(u)) /\ IsFiniteSet(Places(u))
<1> DEFINE T == ActiveAttempts(u)
           f == [r \in Places(u) |-> CHOOSE t \in T : t[1] = r]
<1>1. ASSUME NEW r \in Places(u) PROVE \E t \in T : t[1] = r
  <2>1. CASE status[r] = "processing" /\ lease[r] > 0
    <3>1. <<r, attempts[r]>> \in T
      BY <2>1 DEF Places, ActiveAttempts
    <3> QED
      BY <3>1
  <2>2. CASE \E c \in calls : c.request = r
    <3>1. PICK c \in calls : c.request = r
      BY <2>2
    <3>2. PICK p \in permits : p.request = c.request /\ p.token = c.token /\ c.left <= p.left
      BY DEF ShareInv, CapacityInv, Covered
    <3>3. c.left \in Nat /\ p.left \in Nat /\ c.left > 0
      BY DEF ShareInv, CapacityInv, Covered, TypeOK, Permit
    <3>4. <<p.request, p.token>> \in T
      BY <3>1, <3>2, <3>3 DEF ActiveAttempts, ActivePermits, Places
    <3> QED
      BY <3>1, <3>2, <3>4
  <2> QED
    BY <2>1, <2>2 DEF Places
<1> HIDE DEF T
<1>2. \A r \in Places(u) : f[r] \in T /\ f[r][1] = r
  BY <1>1
<1>3. f \in [Places(u) -> T]
  BY <1>2
<1>4. ASSUME NEW q \in Places(u), NEW r \in Places(u), f[q] = f[r] PROVE q = r
  <2>1. f[q][1] = q /\ f[r][1] = r
    BY <1>2
  <2> HIDE DEF f
  <2> QED
    BY <1>4, <2>1
<1>5. f \in Injection(Places(u), T)
  BY <1>3, <1>4 DEF Injection, IsInjective
<1>6. IsFiniteSet(T)
  BY ActiveFinite DEF T
<1>7. Cardinality(Places(u)) <= Cardinality(T) /\ IsFiniteSet(Places(u))
  BY <1>5, <1>6, FS_Injection
<1> QED
  BY <1>7 DEF T

\* A claim takes a place that was free.
LEMMA PlaceTaken ==
  ASSUME ShareInv, NEW r \in Requests, NEW u, Cardinality(ActiveAttempts(UserOf[r])) < MaxActive,
         \A q \in Requests : q # r => status'[q] = status[q] /\ lease'[q] = lease[q],
         calls' = calls, u \in Users
  PROVE  IsFiniteSet(Places(u)') /\ Cardinality(Places(u)') <= MaxActive
<1>1. IsFiniteSet(Places(u)) /\ Cardinality(Places(u)) <= MaxActive
  BY DEF ShareInv
<1>2. CASE u # UserOf[r]
  <2>1. Places(u)' = Places(u)
    BY <1>2 DEF Places
  <2> QED
    BY <1>1, <2>1
<1>3. CASE u = UserOf[r]
  <2>1. Places(u)' \subseteq Places(u) \union {r}
    BY DEF Places
  <2>2. /\ IsFiniteSet(Places(u) \union {r})
        /\ Cardinality(Places(u) \union {r})
             = IF r \in Places(u) THEN Cardinality(Places(u)) ELSE Cardinality(Places(u)) + 1
    BY <1>1, FS_AddElement, Zenon
  <2>3. /\ IsFiniteSet(Places(u)')
        /\ Cardinality(Places(u)') <= Cardinality(Places(u) \union {r})
    BY <2>1, <2>2, FS_Subset, Zenon
  <2>4. Cardinality(Places(u)) <= Cardinality(ActiveAttempts(u)) /\ IsFiniteSet(ActiveAttempts(u))
    BY PlacesCounted, ActiveFinite
  <2>5. /\ Cardinality(Places(u)) \in Nat /\ Cardinality(ActiveAttempts(u)) \in Nat
        /\ Cardinality(Places(u)') \in Nat /\ MaxActive \in Nat
    BY <1>1, <2>3, <2>4, FS_CardinalityType, LimitAssumption, Zenon
  <2> QED
    BY <1>3, <2>2, <2>3, <2>4, <2>5
<1> QED
  BY <1>2, <1>3

\* Nothing else takes one: a call begins under a lease.
LEMMA NoPlaceTaken ==
  ASSUME ShareInv,
         \A q \in Requests : status'[q] = "processing" /\ lease'[q] > 0 => status[q] = "processing" /\ lease[q] > 0,
         \A c \in calls' : \/ status[c.request] = "processing" /\ lease[c.request] > 0
                          \/ \E d \in calls : d.request = c.request,
         NEW u \in Users
  PROVE  IsFiniteSet(Places(u)') /\ Cardinality(Places(u)') <= MaxActive
<1>1. Places(u)' \subseteq Places(u)
  BY DEF Places
<1>2. IsFiniteSet(Places(u)) /\ Cardinality(Places(u)) <= MaxActive
  BY DEF ShareInv
<1>3. IsFiniteSet(Places(u)') /\ Cardinality(Places(u)') <= Cardinality(Places(u))
  BY <1>1, <1>2, FS_Subset, Zenon
<1>4. Cardinality(Places(u)) \in Nat /\ Cardinality(Places(u)') \in Nat /\ MaxActive \in Nat
  BY <1>2, <1>3, FS_CardinalityType, LimitAssumption, Zenon
<1> QED
  BY <1>2, <1>3, <1>4

LEMMA ShareStep == ShareInv /\ [Next]_vars => ShareInv'
<1> SUFFICES ASSUME ShareInv, [Next]_vars PROVE ShareInv'
  OBVIOUS
<1>1. CapacityInv'
  BY CapacityStep DEF ShareInv
<1>2. \A r \in Requests : lease[r] \in Nat /\ lease[r] <= Lease
  BY DurationAssumption DEF ShareInv, CapacityInv, TypeOK
<1> DEFINE Held == \A u \in Users : IsFiniteSet(Places(u)') /\ Cardinality(Places(u)') <= MaxActive
           Still == \A q \in Requests : status'[q] = "processing" /\ lease'[q] > 0 => status[q] = "processing" /\ lease[q] > 0
           Quieter == \A c \in calls' : \/ status[c.request] = "processing" /\ lease[c.request] > 0
                                       \/ \E d \in calls : d.request = c.request
<1>3. Still /\ Quieter => Held
  BY NoPlaceTaken
<1>4. IsFiniteSet(Processing) /\ status \in [Requests -> {"none", "processing", "completed", "failed"}]
  BY DEF ShareInv, CapacityInv, TypeOK
<1>5. (\A q \in Requests : status'[q] = "processing" => status[q] = "processing") => IsFiniteSet(Processing')
  <2>1. (\A q \in Requests : status'[q] = "processing" => status[q] = "processing") => Processing' \subseteq Processing
    BY DEF Processing
  <2> QED
    BY <1>4, <2>1, FS_Subset, Zenon
<1>6. ASSUME NEW r \in Requests, Submit(r) PROVE Held /\ IsFiniteSet(Processing')
  <2>1. Held
    BY <1>4, <1>6, PlaceTaken DEF Submit, ShareInv, CapacityInv, TypeOK
  <2>2. Processing' \subseteq Processing \union {r}
    BY <1>4, <1>6 DEF Submit, Processing
  <2> QED
    BY <1>4, <2>1, <2>2, FS_AddElement, FS_Subset, Zenon
<1>7. ASSUME NEW r \in Requests, Retry(r) PROVE Held /\ IsFiniteSet(Processing')
  <2>1. CASE ClaimFinalizes(r) \/ ClaimExhausts(r)
    BY <1>3, <1>4, <1>5, <2>1 DEF ClaimFinalizes, ClaimExhausts
  <2>2. CASE ClaimRecovers(r)
    <3>1. Held
      BY <2>2, PlaceTaken DEF ClaimRecovers, ShareInv, CapacityInv, TypeOK
    <3> QED
      BY <1>5, <2>2, <3>1 DEF ClaimRecovers
  <2> QED
    BY <1>7, <2>1, <2>2 DEF Retry
<1>8. ASSUME NEW r \in Requests, NEW a \in Attempts, WorkerStep(r, a) PROVE Held /\ IsFiniteSet(Processing')
  <2>1. \A q \in Requests : status'[q] = "processing" => status[q] = "processing"
    BY <1>4, <1>8 DEF WorkerStep, Start, LoseLease, Call, TooLate, GiveUp, Respond, Hang, Settle, Break, ReadTool,
                      Mutate, Finalize, Fail, Yield, rows
  <2>2. \A q \in Requests : lease'[q] > 0 => lease[q] > 0
    <3>1. CASE Yield(r, a)
      BY <3>1 DEF Yield, ShareInv, CapacityInv, TypeOK
    <3>2. CASE lease' = lease
      BY <3>2
    <3> QED
      BY <1>8, <3>1, <3>2 DEF WorkerStep, Start, LoseLease, Call, TooLate, GiveUp, Respond, Hang, Settle, Break,
                              ReadTool, Mutate, Finalize, Fail, rows
  <2>3. Quieter
    <3>1. CASE Call(r, a)
      <4>1. status[r] = "processing" /\ lease[r] > 0
        BY <1>2, <3>1, DurationAssumption DEF Call, Granted, Owned
      <4>2. \A c \in calls' : c \in calls \/ c.request = r
        BY <3>1 DEF Call
      <4> QED
        BY <4>1, <4>2
    <3>2. CASE Respond(r, a)
      BY <3>2 DEF Respond
    <3>3. CASE Hang(r, a)
      <4>1. \A c \in calls' : c \in calls \/ \E d \in Ended(r, a) : c = [d EXCEPT !.left = Least(d.left, Uncertainty)]
        BY <3>3, Zenon DEF Hang
      <4>2. \A d \in Ended(r, a) : d \in calls /\ [d EXCEPT !.left = Least(d.left, Uncertainty)].request = d.request
        BY DEF Ended, ShareInv, CapacityInv, TypeOK, Permit
      <4> QED
        BY <4>1, <4>2
    <3>4. CASE calls' = calls
      BY <3>4
    <3> QED
      BY <1>8, <3>1, <3>2, <3>3, <3>4
         DEF WorkerStep, Start, LoseLease, TooLate, GiveUp, Settle, Break, ReadTool, Mutate, Finalize, Fail, Yield
  <2> QED
    BY <1>3, <1>5, <2>1, <2>2, <2>3
<1>9. ASSUME Tick PROVE Held /\ IsFiniteSet(Processing')
  <2>1. status' = status /\ \A q \in Requests : lease'[q] > 0 => lease[q] > 0
    BY <1>2, <1>9 DEF Tick, Down
  <2>2. \A c \in calls' : \E d \in calls : d.request = c.request
    <3>1. \A c \in calls' : \E d \in calls : c = [d EXCEPT !.left = Down(@)]
      BY <1>9, Zenon DEF Tick, Older
    <3>2. \A d \in calls : [d EXCEPT !.left = Down(@)].request = d.request
      BY DEF ShareInv, CapacityInv, TypeOK, Permit
    <3> QED
      BY <3>1, <3>2
  <2> QED
    BY <1>3, <1>5, <2>1, <2>2
<1>10. ASSUME UNCHANGED vars PROVE Held /\ IsFiniteSet(Processing')
  BY <1>3, <1>5, <1>10 DEF vars
<1>11. Held /\ IsFiniteSet(Processing')
  BY <1>6, <1>7, <1>8, <1>9, <1>10 DEF Next
<1> QED
  BY <1>1, <1>11 DEF ShareInv

(***************************************************************************)
(* A user never occupies more than MaxActive places, the calls of          *)
(* relinquished or expired attempts included.                              *)
(***************************************************************************)
THEOREM SharesRespected == Spec => []UserShare
<1>1. Init => ShareInv
  <2> SUFFICES ASSUME Init PROVE ShareInv
    OBVIOUS
  <2>1. Processing = {} /\ \A u \in Users : Places(u) = {}
    BY DEF Init, Processing, Places
  <2> QED
    BY <2>1, InitCapacity, FS_EmptySet, LimitAssumption DEF ShareInv
<1>2. ShareInv => UserShare
  BY DEF ShareInv, UserShare, Places, Users
<1> QED
  BY <1>1, <1>2, ShareStep, PTL DEF Spec

----------------------------------------------------------------------------
(* The contract.                                                           *)

\* Only a request with a recorded action has changed the reservations.
Recorded == \A r \in Requests : ~action[r] => effects[r] = 0

ContractInv == TypeOK /\ RoundsLeft /\ Recorded

LEMMA ContractInvInductive ==
  /\ Init => ContractInv
  /\ ContractInv /\ [Next]_vars => ContractInv'
<1>1. Init => ContractInv
  BY InitTypes DEF ContractInv, Recorded, Init
<1>2. ASSUME ContractInv, [Next]_vars PROVE ContractInv'
  <2>1. TypeOK' /\ RoundsLeft'
    BY <1>2, TypesStep DEF ContractInv
  <2>2. UNCHANGED <<action, effects>> \/ \E r \in Requests, a \in Attempts : Mutate(r, a)
    <3>1. ASSUME NEW r \in Requests, Submit(r) \/ Retry(r) PROVE UNCHANGED <<action, effects>>
      BY <3>1 DEF Submit, Retry, ClaimFinalizes, ClaimExhausts, ClaimRecovers, result
    <3>2. ASSUME NEW r \in Requests, NEW a \in Attempts, WorkerStep(r, a)
          PROVE UNCHANGED <<action, effects>> \/ Mutate(r, a)
      BY <3>2 DEF WorkerStep, Start, LoseLease, Call, TooLate, GiveUp, Respond, Hang, Settle, Break, ReadTool,
                  Finalize, Fail, Yield, result
    <3>3. Tick \/ UNCHANGED vars => UNCHANGED <<action, effects>>
      BY DEF Tick, vars, result
    <3> QED
      BY <1>2, <3>1, <3>2, <3>3 DEF Next
  <2>3. CASE UNCHANGED <<action, effects>>
    BY <1>2, <2>1, <2>3 DEF ContractInv, Recorded
  <2>4. ASSUME NEW r \in Requests, NEW a \in Attempts, Mutate(r, a) PROVE ContractInv'
    <3>1. /\ action' = [action EXCEPT ![r] = TRUE]
          /\ \E n \in {0, 1} : effects' = [effects EXCEPT ![r] = @ + n]
      BY <2>4 DEF Mutate
    <3>2. Recorded'
      BY <1>2, <3>1 DEF ContractInv, Recorded, TypeOK
    <3> QED
      BY <2>1, <3>2 DEF ContractInv
  <2> QED
    BY <2>2, <2>3, <2>4
<1> QED
  BY <1>1, <1>2

\* The outcomes of the requests, as the contract sees them.
Outcomes == [r \in Requests |-> OutcomeOf[status[r]]]

LEMMA OutcomeValues ==
  /\ OutcomeOf["none"] = "unknown" /\ OutcomeOf["processing"] = "pending"
  /\ OutcomeOf["completed"] = "answered" /\ OutcomeOf["failed"] = "refused"
  BY DEF OutcomeOf

LEMMA OutcomeChanges ==
  ASSUME TypeOK, NEW r \in Requests, NEW s, status' = [status EXCEPT ![r] = s]
  PROVE  Outcomes' = [Outcomes EXCEPT ![r] = OutcomeOf[s]]
  BY DEF Outcomes, TypeOK

\* Each step of the implementation is one of the contract, or changes nothing it sees.
LEMMA SubmitAsks ==
  ASSUME ContractInv, NEW r \in Requests, Submit(r)
  PROVE  Contract!Ask(r)
<1>1. Outcomes[r] = "unknown"
  BY OutcomeValues DEF Submit, Outcomes
<1>2. Outcomes' = [Outcomes EXCEPT ![r] = OutcomeOf["processing"]]
  BY OutcomeChanges DEF Submit, ContractInv
<1>3. effects' = effects /\ answers' = answers
  BY DEF Submit, result
<1> QED
  BY <1>1, <1>2, <1>3, OutcomeValues DEF Contract!Ask, Outcomes

LEMMA CompletionAnswers ==
  ASSUME ContractInv, NEW r \in Requests, status[r] = "processing",
         status' = [status EXCEPT ![r] = "completed"],
         answers' = [answers EXCEPT ![r] = @ + 1], UNCHANGED effects
  PROVE  Contract!Answer(r)
<1>1. Outcomes[r] = "pending"
  BY OutcomeValues DEF Outcomes
<1>2. Outcomes' = [Outcomes EXCEPT ![r] = OutcomeOf["completed"]]
  BY OutcomeChanges DEF ContractInv
<1> QED
  BY <1>1, <1>2, OutcomeValues DEF Contract!Answer, Outcomes

LEMMA FailureRefuses ==
  ASSUME ContractInv, NEW r \in Requests, status[r] = "processing", ~action[r],
         status' = [status EXCEPT ![r] = "failed"], UNCHANGED <<answers, effects>>
  PROVE  Contract!Refuse(r)
<1>1. Outcomes[r] = "pending"
  BY OutcomeValues DEF Outcomes
<1>2. Outcomes' = [Outcomes EXCEPT ![r] = OutcomeOf["failed"]]
  BY OutcomeChanges DEF ContractInv
<1>3. effects[r] = 0
  BY DEF ContractInv, Recorded
<1> QED
  BY <1>1, <1>2, <1>3, OutcomeValues DEF Contract!Refuse, Outcomes

LEMMA MutationPerforms ==
  ASSUME ContractInv, NEW r \in Requests, NEW a \in Attempts, Mutate(r, a)
  PROVE  Contract!Perform(r) \/ UNCHANGED <<Outcomes, effects, answers>>
<1>1. status[r] = "processing" /\ status' = status /\ answers' = answers
  BY DEF Mutate, Owned, rows
<1>2. Outcomes[r] = "pending" /\ Outcomes' = Outcomes
  BY <1>1, OutcomeValues DEF Outcomes
<1>3. PICK n \in (IF action[r] THEN {0} ELSE {0, 1}) : effects' = [effects EXCEPT ![r] = @ + n]
  BY Zenon DEF Mutate
<1>4. effects \in [Requests -> Nat]
  BY DEF ContractInv, TypeOK
<1>5. CASE n = 0
  BY <1>1, <1>2, <1>3, <1>4, <1>5
<1>6. CASE n = 1
  <2>1. effects[r] = 0
    BY <1>3, <1>6 DEF ContractInv, Recorded
  <2>2. effects' = [effects EXCEPT ![r] = 1]
    BY <1>3, <1>4, <1>6, <2>1
  <2> QED
    BY <1>1, <1>2, <2>1, <2>2 DEF Contract!Perform, Outcomes
<1> QED
  BY <1>3, <1>5, <1>6

LEMMA ContractStep ==
  ASSUME ContractInv, [Next]_vars
  PROVE  Contract!ContractNext \/ UNCHANGED <<Outcomes, effects, answers>>
<1>1. ASSUME NEW r \in Requests, Submit(r) PROVE Contract!ContractNext
  BY <1>1, SubmitAsks DEF Contract!ContractNext
<1>2. ASSUME NEW r \in Requests, Retry(r)
      PROVE Contract!ContractNext \/ UNCHANGED <<Outcomes, effects, answers>>
  <2>1. CASE ClaimFinalizes(r)
    BY <2>1, CompletionAnswers DEF ClaimFinalizes, Expired, Contract!ContractNext
  <2>2. CASE ClaimExhausts(r)
    BY <2>2, FailureRefuses DEF ClaimExhausts, Expired, result, Contract!ContractNext
  <2>3. CASE ClaimRecovers(r)
    BY <2>3 DEF ClaimRecovers, result, Outcomes
  <2> QED
    BY <1>2, <2>1, <2>2, <2>3 DEF Retry
<1>3. ASSUME NEW r \in Requests, NEW a \in Attempts, WorkerStep(r, a)
      PROVE Contract!ContractNext \/ UNCHANGED <<Outcomes, effects, answers>>
  <2>1. CASE Mutate(r, a)
    BY <2>1, MutationPerforms DEF Contract!ContractNext
  <2>2. CASE Finalize(r, a)
    BY <2>2, CompletionAnswers DEF Finalize, Owned, Contract!ContractNext
  <2>3. CASE Fail(r, a)
    <3>1. CASE ~action[r] /\ Owned(r, a)
      BY <2>3, <3>1, FailureRefuses DEF Fail, Owned, result, Contract!ContractNext
    <3>2. CASE action[r] \/ ~Owned(r, a)
      BY <2>3, <3>2 DEF Fail, result, Outcomes
    <3> QED
      BY <3>1, <3>2
  <2>4. CASE \/ Start(r, a) \/ LoseLease(r, a) \/ Call(r, a) \/ TooLate(r, a) \/ GiveUp(r, a) \/ Respond(r, a)
             \/ Hang(r, a) \/ Settle(r, a) \/ Break(r, a) \/ ReadTool(r, a) \/ Yield(r, a)
    BY <2>4 DEF Start, LoseLease, Call, TooLate, GiveUp, Respond, Hang, Settle, Break, ReadTool, Yield,
                rows, result, Outcomes
  <2> QED
    BY <1>3, <2>1, <2>2, <2>3, <2>4 DEF WorkerStep
<1>4. ASSUME Tick \/ UNCHANGED vars PROVE UNCHANGED <<Outcomes, effects, answers>>
  BY <1>4 DEF Tick, vars, result, Outcomes
<1> QED
  BY <1>1, <1>2, <1>3, <1>4 DEF Next

(***************************************************************************)
(* Leases, retries, fences and recovery implement the contract: whatever   *)
(* the workers of a message do and wherever they stop, it takes effect and *)
(* ends at most once, and never fails after it took effect.                *)
(***************************************************************************)
THEOREM ContractImplemented == Spec => ImplementsContract
<1>1. Init => Contract!ContractInit
  BY OutcomeValues DEF Init, Contract!ContractInit
<1>2. ContractInv /\ [Next]_vars => [Contract!ContractNext]_(Contract!contractVars)
  BY ContractStep DEF Contract!contractVars, Outcomes
<1> QED
  BY <1>1, <1>2, ContractInvInductive, PTL DEF Spec, ImplementsContract, Contract!ContractSpec
=============================================================================
