---------------------------- MODULE ChatRequests ----------------------------
(***************************************************************************)
(* Chat messages and provider permits: backend/chat_service.py,            *)
(* gemini_capacity.py and the tool loop of ai_service.py.                  *)
(*                                                                         *)
(* A message has a request id.  Every delivery of it either finds it ended,*)
(* or claims the row and becomes a worker with a new lease token.  Workers *)
(* run concurrently, outside of any lock between transactions: one whose   *)
(* lease has expired may still be running when the next one starts.  Each  *)
(* transaction, provider call and return of a call is a step of its own.   *)
(*                                                                         *)
(* A successful claim raises processing_attempts and draws a token, so the *)
(* token of attempt a of a request is a itself.  A worker that crashes, or *)
(* raises where nothing is written, is one that takes no further step.     *)
(* Every deadline is the time LEFT until it, 0 when it has passed.         *)
(***************************************************************************)
EXTENDS Integers, FiniteSets

CONSTANTS
  Requests,        \* request ids
  UserOf,          \* UserOf[r] is the user who sends r
  Lease,           \* CHAT_LEASE_SECONDS (120)
  Margin,          \* the end of a lease that no worker may use (45)
  Reserve,         \* FINALIZATION_RESERVE_SECONDS (5)
  CallTimeout,     \* the HTTP timeout of a provider call (30)
  Uncertainty,     \* UNCERTAINTY_SECONDS (45)
  MaxAttempts,     \* claims of one request (3)
  MaxActive,       \* concurrent attempts of one user (2)
  RateLimit,       \* new requests of one user ...
  RateWindow,      \* ... within this time (10 in 60 seconds)
  MaxConcurrency,  \* gemini_capacity_policies.max_concurrency
  MaxRounds        \* MAX_TOOL_ROUNDS (8)

ASSUME DurationAssumption ==
  /\ Lease \in Nat \ {0} /\ Margin \in Nat /\ Reserve \in Nat
  /\ CallTimeout \in Nat \ {0} /\ Uncertainty \in Nat /\ RateWindow \in Nat
  /\ Uncertainty <= Margin

ASSUME LimitAssumption ==
  /\ MaxAttempts \in Nat \ {0} /\ MaxActive \in Nat /\ RateLimit \in Nat
  /\ MaxConcurrency \in Nat /\ MaxRounds \in Nat \ {0}

VARIABLES
  status,    \* chat_requests.status, "none" without a row
  lease,     \* lease_expires_at - now
  attempts,  \* processing_attempts, and the current lease_token
  recent,    \* created_at + RateWindow - now
  action,    \* a completed chat_tool_actions row exists
  answers,   \* assistant messages in conversation_messages
  effects,   \* history: mutations that changed the reservations
  worker,    \* worker[r][a]: the invocation that holds token a of r
  permits,   \* gemini_call_permits: [request, token, left]
  calls      \* calls the provider may still be working on: [request, token, left]

rows   == <<status, lease, attempts, recent>>
result == <<action, answers, effects>>
vars   == <<status, lease, attempts, recent, action, answers, effects, worker, permits, calls>>

----------------------------------------------------------------------------
Attempts == 1..MaxAttempts

\* Where an invocation of process_chat_message is.
Place ==
  {"idle",       \* not started
   "claimed",    \* the claim has committed
   "thinking",   \* about to ask the model
   "late",       \* got a permit, too late to call
   "calling",    \* inside the provider call
   "answered", "rejected", "unknown",   \* the call's outcome, permit not settled
   "deciding",   \* the model has answered: a reply or a tool call
   "closing",    \* an action exists: finalize with its fallback message
   "salvaging",  \* the same after capacity was refused
   "yielding",   \* capacity refused: relinquish the lease
   "failing",    \* an exception is handled
   "done"}       \* returned or raised

Worker == [at : Place, round : 0..MaxRounds, mutated : BOOLEAN]
Nowhere(place) == [at |-> place, round |-> 0, mutated |-> FALSE]
Permit == [request : Requests, token : Attempts, left : Nat]

Init ==
  /\ status = [r \in Requests |-> "none"]
  /\ lease = [r \in Requests |-> 0]
  /\ attempts = [r \in Requests |-> 0]
  /\ recent = [r \in Requests |-> 0]
  /\ action = [r \in Requests |-> FALSE]
  /\ answers = [r \in Requests |-> 0]
  /\ effects = [r \in Requests |-> 0]
  /\ worker = [r \in Requests |-> [a \in Attempts |-> Nowhere("idle")]]
  /\ permits = {}
  /\ calls = {}

----------------------------------------------------------------------------
Least(m, n) == IF m < n THEN m ELSE n

At(r, a) == worker[r][a].at

Goes(r, a, place) == worker' = [worker EXCEPT ![r][a].at = place]

\* The invocation ends, and its local variables with it.
Ends(r, a) == worker' = [worker EXCEPT ![r][a] = Nowhere("done")]

\* A permit that counts.
ActivePermits == {p \in permits : p.left > 0}

\* A call of an earlier attempt may still be going on.
Retained(r) == \E p \in ActivePermits : p.request = r

\* _active_attempts of the user of r: leases and permits, counted as (request, token).
ActiveAttemptsWithoutPermits(u) ==   \* mutant: only the leases count
  {<<r, attempts[r]>> : r \in {q \in Requests : UserOf[q] = u /\ status[q] = "processing" /\ lease[q] > 0}}

ActiveAttempts(u) ==
  {<<r, attempts[r]>> : r \in {q \in Requests : UserOf[q] = u /\ status[q] = "processing" /\ lease[q] > 0}}
    \union {<<p.request, p.token>> : p \in {q \in ActivePermits : UserOf[q.request] = u}}

\* The fence of every write a worker makes.
Owned(r, a) == status[r] = "processing" /\ attempts[r] = a /\ lease[r] > Margin

(***************************************************************************)
(* _claim_request.                                                         *)
(***************************************************************************)
Submit(r) ==
  /\ status[r] = "none"
  /\ Cardinality({q \in Requests : UserOf[q] = UserOf[r] /\ recent[q] > 0}) < RateLimit
  /\ Cardinality(ActiveAttempts(UserOf[r])) < MaxActive
  /\ status' = [status EXCEPT ![r] = "processing"]
  /\ lease' = [lease EXCEPT ![r] = Lease]
  /\ attempts' = [attempts EXCEPT ![r] = 1]
  /\ recent' = [recent EXCEPT ![r] = RateWindow]
  /\ Goes(r, 1, "claimed")
  /\ UNCHANGED <<result, permits, calls>>

HasAttemptsOffByOne(r) == attempts[r] <= MaxAttempts   \* mutant

HasAttempts(r) == attempts[r] < MaxAttempts

Expired(r) == status[r] = "processing" /\ lease[r] = 0

\* A retry after the action was saved: finalize under the row lock.
ClaimFinalizes(r) ==
  /\ Expired(r) /\ action[r]
  /\ status' = [status EXCEPT ![r] = "completed"]
  /\ answers' = [answers EXCEPT ![r] = @ + 1]
  /\ UNCHANGED <<lease, attempts, recent, action, effects, worker, permits, calls>>

ClaimExhaustsFirst(r) ==   \* mutant: attempts are counted before the action is looked up
  /\ Expired(r) /\ attempts[r] = MaxAttempts
  /\ status' = [status EXCEPT ![r] = "failed"]
  /\ UNCHANGED <<lease, attempts, recent, result, worker, permits, calls>>

ClaimExhaustsLate(r) ==   \* mutant: > for >=
  /\ Expired(r) /\ ~action[r] /\ attempts[r] > MaxAttempts
  /\ status' = [status EXCEPT ![r] = "failed"]
  /\ UNCHANGED <<lease, attempts, recent, result, worker, permits, calls>>

ClaimExhausts(r) ==
  /\ Expired(r) /\ ~action[r] /\ ~HasAttempts(r)
  /\ status' = [status EXCEPT ![r] = "failed"]
  /\ UNCHANGED <<lease, attempts, recent, result, worker, permits, calls>>

ClaimRecovers(r) ==
  /\ Expired(r) /\ ~action[r] /\ HasAttempts(r)
  /\ ~Retained(r)
  /\ Cardinality(ActiveAttempts(UserOf[r])) < MaxActive
  /\ lease' = [lease EXCEPT ![r] = Lease]
  /\ attempts' = [attempts EXCEPT ![r] = @ + 1]
  /\ Goes(r, attempts[r] + 1, "claimed")
  /\ UNCHANGED <<status, recent, result, permits, calls>>

Retry(r) == ClaimFinalizes(r) \/ ClaimExhausts(r) \/ ClaimRecovers(r)

(***************************************************************************)
(* process_chat_message and generate_agent_response.                       *)
(***************************************************************************)
Start(r, a) ==
  /\ At(r, a) = "claimed"
  /\ Goes(r, a, IF action[r] THEN "closing" ELSE "thinking")
  /\ UNCHANGED <<rows, result, permits, calls>>

\* ChatLeaseLostError from one of the fences.  After a refusal of capacity
\* it is swallowed.
LoseLease(r, a) ==
  /\ ~Owned(r, a)
  /\ \/ At(r, a) \in {"thinking", "deciding", "closing"} /\ Ends(r, a)
     \/ At(r, a) = "salvaging" /\ Goes(r, a, "yielding")
  /\ UNCHANGED <<rows, result, permits, calls>>

AllowedAlways(r) == CallTimeout   \* mutant: the timeout ignores the lease

\* How long the client lets a call of r last.
Allowed(r) == Least(CallTimeout, lease[r] - Margin - Reserve)

\* acquire: a permit until the lease expires.  Expired permits are cleaned up
\* (the code stops at a hundred, which fewer calls than that cannot reach).
Granted(r, a) ==
  /\ At(r, a) = "thinking"
  /\ Owned(r, a) /\ lease[r] > Margin + Reserve
  /\ Cardinality(ActivePermits) < MaxConcurrency
  /\ ~Retained(r)
  /\ permits' = ActivePermits \union {[request |-> r, token |-> a, left |-> lease[r]]}

\* The call begins.  The provider may work on it for Uncertainty longer than
\* the client waits.
Call(r, a) ==
  /\ Granted(r, a)
  /\ calls' = calls \union {[request |-> r, token |-> a, left |-> Allowed(r) + Uncertainty]}
  /\ worker' = [worker EXCEPT ![r][a].at = "calling", ![r][a].round = @ + 1]
  /\ UNCHANGED <<rows, result>>

\* The worker's own deadline, which counts from before the claim, has passed
\* while it waited for the permit.
TooLate(r, a) ==
  /\ Granted(r, a)
  /\ Goes(r, a, "late")
  /\ UNCHANGED <<rows, result, calls>>

\* CapacityUnavailable or AttemptExpired.
Refused(r) == IF action[r] THEN "salvaging" ELSE "yielding"

GiveUp(r, a) ==
  /\ At(r, a) = "thinking"
  /\ Goes(r, a, Refused(r))
  /\ UNCHANGED <<rows, result, permits, calls>>

Ended(r, a) == {c \in calls : c.request = r /\ c.token = a}

\* The provider answers, or rejects with a definite error: the call is over.
Respond(r, a) ==
  /\ At(r, a) = "calling"
  /\ calls' = calls \ Ended(r, a)
  /\ Goes(r, a, "answered") \/ Goes(r, a, "rejected")
  /\ UNCHANGED <<rows, result, permits>>

\* A timeout or a transport error: the provider may go on for a while.
Hang(r, a) ==
  /\ At(r, a) = "calling"
  /\ calls' = (calls \ Ended(r, a))
                \union {[c EXCEPT !.left = Least(c.left, Uncertainty)] : c \in {d \in Ended(r, a) : Uncertainty > 0}}
  /\ Goes(r, a, "unknown")
  /\ UNCHANGED <<rows, result, permits>>

ReleasedAlways(r, a) ==   \* mutant: the permit of an uncertain call is deleted too
  {p \in permits : p.request # r \/ p.token # a}

\* finish: an uncertain call keeps its permit for at least Uncertainty, even
\* when the row has expired in the meantime; a definite one gives it back.
Released(r, a) ==
  LET own == {p \in permits : p.request = r /\ p.token = a}
  IN  (permits \ own) \union
        {[p EXCEPT !.left = IF @ < Uncertainty THEN Uncertainty ELSE @] :
           p \in {q \in own : At(r, a) = "unknown"}}

Settle(r, a) ==
  /\ At(r, a) \in {"late", "answered", "rejected", "unknown"}
  /\ permits' = Released(r, a)
  /\ Goes(r, a, CASE At(r, a) = "late" -> Refused(r)
                  [] At(r, a) = "answered" -> "deciding"
                  [] OTHER -> "failing")
  /\ UNCHANGED <<rows, result, calls>>

\* A database or SDK exception inside the try block of the worker; finish
\* itself may raise and leave the permit to expire.
Break(r, a) ==
  /\ At(r, a) \in {"thinking", "late", "answered", "rejected", "unknown", "deciding"}
  /\ Goes(r, a, "failing")
  /\ UNCHANGED <<rows, result, permits, calls>>

\* The next round of the tool loop, or the end of the rounds.
Onward(r, a) == IF worker[r][a].round < MaxRounds THEN "thinking" ELSE "failing"

\* A read tool, or a mutation after the first one, changes nothing.
ReadTool(r, a) ==
  /\ At(r, a) = "deciding" /\ Owned(r, a)
  /\ Goes(r, a, Onward(r, a))
  /\ UNCHANGED <<rows, result, permits, calls>>

\* _execute_mutation: the change of a reservation, which its rules may
\* refuse, and the record of it commit together.  The commit's answer may be lost.
Mutate(r, a) ==
  /\ At(r, a) = "deciding"
  /\ Owned(r, a) /\ ~worker[r][a].mutated
  /\ action' = [action EXCEPT ![r] = TRUE]
  /\ \E changed \in (IF action[r] THEN {0} ELSE {0, 1}) : effects' = [effects EXCEPT ![r] = @ + changed]
  /\ \E place \in {Onward(r, a), "failing"} :
       worker' = [worker EXCEPT ![r][a].at = place, ![r][a].mutated = TRUE]
  /\ UNCHANGED <<rows, answers, permits, calls>>

\* _finalize_request, with the model's reply or the action's fallback.
Finalize(r, a) ==
  /\ At(r, a) \in {"deciding", "closing", "salvaging"}
  /\ Owned(r, a)
  /\ status' = [status EXCEPT ![r] = "completed"]
  /\ answers' = [answers EXCEPT ![r] = @ + 1]
  /\ \/ Ends(r, a)
     \/ At(r, a) = "deciding" /\ Goes(r, a, "failing")
  /\ UNCHANGED <<lease, attempts, recent, action, effects, permits, calls>>

\* After an exception: an action is finalized, else the request is marked
\* failed by an UPDATE that repeats both conditions.
Fail(r, a) ==
  /\ At(r, a) = "failing"
  /\ \/ action[r] /\ Goes(r, a, "closing") /\ UNCHANGED status
     \/ /\ ~action[r]
        /\ status' = IF Owned(r, a) THEN [status EXCEPT ![r] = "failed"] ELSE status
        /\ Ends(r, a)
  /\ UNCHANGED <<lease, attempts, recent, result, permits, calls>>

\* Relinquish the lease, never an uncertain permit.
Yield(r, a) ==
  /\ At(r, a) = "yielding"
  /\ lease' = IF status[r] = "processing" /\ attempts[r] = a THEN [lease EXCEPT ![r] = 0] ELSE lease
  /\ Ends(r, a)
  /\ UNCHANGED <<status, attempts, recent, result, permits, calls>>

----------------------------------------------------------------------------
Down(n) == IF n > 0 THEN n - 1 ELSE 0

Older(S) == {[s EXCEPT !.left = Down(@)] : s \in S}

Tick ==
  /\ lease' = [r \in Requests |-> Down(lease[r])]
  /\ recent' = [r \in Requests |-> Down(recent[r])]
  /\ permits' = Older(permits)
  /\ calls' = {c \in Older(calls) : c.left > 0}
  /\ UNCHANGED <<status, attempts, result, worker>>

WorkerStep(r, a) ==
  \/ Start(r, a) \/ LoseLease(r, a) \/ Call(r, a) \/ TooLate(r, a) \/ GiveUp(r, a)
  \/ Respond(r, a) \/ Hang(r, a) \/ Settle(r, a) \/ Break(r, a)
  \/ ReadTool(r, a) \/ Mutate(r, a) \/ Finalize(r, a)
  \/ Fail(r, a) \/ Yield(r, a)

Next ==
  \/ \E r \in Requests : Submit(r) \/ Retry(r)
  \/ \E r \in Requests, a \in Attempts : WorkerStep(r, a)
  \/ Tick

Spec == Init /\ [][Next]_vars

(***************************************************************************)
(* Time passes, and the client keeps retrying a message that has not ended *)
(* (the web client stores it until then).  Workers owe nothing: each may   *)
(* stop at any point.                                                      *)
(***************************************************************************)
FairSpec == Spec /\ WF_vars(Tick) /\ \A r \in Requests : WF_vars(Retry(r))

----------------------------------------------------------------------------
(* Properties.                                                             *)

\* The tables and workers have their types.
TypeOK ==
  /\ status \in [Requests -> {"none", "processing", "completed", "failed"}]
  /\ lease \in [Requests -> 0..Lease] /\ recent \in [Requests -> 0..RateWindow]
  /\ attempts \in [Requests -> 0..MaxAttempts]
  /\ action \in [Requests -> BOOLEAN]
  /\ answers \in [Requests -> Nat] /\ effects \in [Requests -> Nat]
  /\ worker \in [Requests -> [Attempts -> Worker]]
  /\ permits \subseteq Permit /\ calls \subseteq Permit

(***************************************************************************)
(* The provider never works on more calls than the policy allows, calls    *)
(* whose worker timed out, hung or crashed included.                       *)
(***************************************************************************)
ProviderWithinCapacity == Cardinality(calls) <= MaxConcurrency

(***************************************************************************)
(* The provider never works on two calls for the same message: a retry     *)
(* waits until the call of the attempt before it cannot be going on.       *)
(***************************************************************************)
OneCallPerRequest == \A c, d \in calls : c.request = d.request => c = d

(***************************************************************************)
(* A user never occupies more than MaxActive places: messages being        *)
(* processed under a lease or still being worked on by the provider after  *)
(* the lease was relinquished.                                             *)
(***************************************************************************)
UserShare ==
  \A u \in {UserOf[r] : r \in Requests} :
    Cardinality({r \in Requests :
      /\ UserOf[r] = u
      /\ \/ status[r] = "processing" /\ lease[r] > 0
         \/ \E c \in calls : c.request = r}) <= MaxActive

\* What the user sees of a message.
OutcomeOf == [none |-> "unknown", processing |-> "pending", completed |-> "answered", failed |-> "refused"]

Contract ==
  INSTANCE RequestContract WITH
    outcome   <- [r \in Requests |-> OutcomeOf[status[r]]],
    performed <- effects,
    replies   <- answers

(***************************************************************************)
(* Leases, retries, fences and recovery together implement the contract: a *)
(* message changes the reservations at most once, ends once, and is never  *)
(* reported failed after it changed them.                                  *)
(***************************************************************************)
ImplementsContract == Contract!ContractSpec

(***************************************************************************)
(* A message whose client keeps retrying ends, whatever its workers do.    *)
(***************************************************************************)
Settles == \A r \in Requests : status[r] = "processing" ~> status[r] \in {"completed", "failed"}
=============================================================================
