-------------------------- MODULE GeocodingCapacity --------------------------
(***************************************************************************)
(* The identity gate (deletion_gate.py) and, behind it, the admission of   *)
(* address lookups (geocoding_capacity.py, geocoding_service.py).          *)
(*                                                                         *)
(* A lookup is admitted by one transaction under the row lock of the       *)
(* capacity policy, calls the provider holding nothing, and settles its    *)
(* permit by a transaction of its own that no gate guards.  A refusal      *)
(* rolls back everything and is a stuttering step; a process that dies, or *)
(* whose settlement raises, takes no further step.                         *)
(* Every deadline is the time LEFT until it.                               *)
(***************************************************************************)
EXTENDS Integers, FiniteSets

CONSTANTS
  Identities,   \* rows of auth.users
  Lookups,      \* calls of geocode_with_capacity, and the attempt ids they draw
  Caller,       \* Caller[l] is the identity that makes l
  PermitTime,   \* PERMIT_SECONDS (60)
  Deadline,     \* PROVIDER_CALL_DEADLINE_SECONDS (30)
  Linger,       \* how long the provider may work on for a client that is gone
  Uncertain,    \* UNCERTAIN_SECONDS (60)
  Window,       \* WINDOW_SECONDS (600)
  MaxRecent,    \* admissions of one identity in a window (10)
  MaxLookups    \* geocoding_capacity_policies.max_concurrency (20)

ASSUME LookupAssumption ==
  /\ Caller \in [Lookups -> Identities]
  /\ PermitTime \in Nat /\ Deadline \in Nat \ {0} /\ Linger \in Nat /\ Uncertain \in Nat
  /\ Window \in Nat \ {0} /\ MaxRecent \in Nat /\ MaxLookups \in Nat
  /\ Deadline + Linger <= PermitTime /\ Linger <= Uncertain

VARIABLES
  auth,      \* the row of auth.users exists
  phase,     \* account_deletion_jobs.phase, "none" without a row
  attempt,   \* geocoding_attempts
  at,        \* where geocode_with_capacity is
  provider   \* how long the provider may still work on a lookup

gateVars == <<auth, phase>>
lookupVars == <<attempt, at, provider>>

----------------------------------------------------------------------------
\* recent is the rest of the window since admitted_at; held says that
\* permit_expires_at is not NULL, permit how far away it is.
Absent == [row |-> FALSE, recent |-> 0, held |-> FALSE, permit |-> 0]
Issued == [row |-> TRUE, recent |-> Window, held |-> TRUE, permit |-> PermitTime]

LookupInit ==
  /\ auth = [i \in Identities |-> TRUE]
  /\ phase = [i \in Identities |-> "none"]
  /\ attempt = [l \in Lookups |-> Absent]
  /\ at = [l \in Lookups |-> "new"]
  /\ provider = [l \in Lookups |-> 0]

OpenIfPresent(i) == auth[i]   \* mutant: the deletion job is not looked for

\* require_auth; require_user and require_request find the identity first.
Open(i) == auth[i] /\ phase[i] = "none"

Active == {l \in Lookups : attempt[l].permit > 0}

Own(i) == {l \in Lookups : Caller[l] = i}

\* The clean-up before an admission: expired permits become NULL, rows that
\* neither hold nor count are deleted.  (Each batch stops at a hundred rows.)
Swept(l) ==
  IF attempt[l].permit = 0 /\ attempt[l].recent = 0
  THEN Absent
  ELSE [attempt[l] EXCEPT !.held = attempt[l].permit > 0]

Acquire(l) ==
  /\ at[l] = "new"
  /\ Open(Caller[l])
  /\ Own(Caller[l]) \intersect Active = {}
  /\ Cardinality({k \in Own(Caller[l]) : attempt[k].recent > 0}) < MaxRecent
  /\ Cardinality(Active) < MaxLookups
  /\ attempt' = [k \in Lookups |-> IF k = l THEN Issued ELSE Swept(k)]
  /\ at' = [at EXCEPT ![l] = "admitted"]
  /\ UNCHANGED <<gateVars, provider>>

\* The HTTP request leaves the child process.  That this happens soon after the
\* admission is an assumption: no clause of the code compares the two.
Ask(l) ==
  /\ at[l] = "admitted"
  /\ attempt[l].permit >= Deadline + Linger
  /\ at' = [at EXCEPT ![l] = "asking"]
  /\ provider' = [provider EXCEPT ![l] = Deadline + Linger]
  /\ UNCHANGED <<gateVars, attempt>>

Answer(l) ==
  /\ at[l] = "asking"
  /\ at' = [at EXCEPT ![l] = "answered"]
  /\ provider' = [provider EXCEPT ![l] = 0]
  /\ UNCHANGED <<gateVars, attempt>>

\* The child could not be started, failed, or was terminated at the deadline.
Abandon(l) ==
  /\ at[l] \in {"admitted", "asking"}
  /\ at' = [at EXCEPT ![l] = "unsure"]
  /\ provider' = [provider EXCEPT ![l] = IF @ > Linger THEN Linger ELSE @]
  /\ UNCHANGED <<gateVars, attempt>>

SettledAlways(l) ==   \* mutant: the permit of an uncertain call is given back too
  [attempt[l] EXCEPT !.held = FALSE, !.permit = 0]

SettledLonger(l) ==   \* mutant: the permit is extended by the time it may still need
  IF at[l] = "answered"
  THEN [attempt[l] EXCEPT !.held = FALSE, !.permit = 0]
  ELSE IF attempt[l].held THEN [attempt[l] EXCEPT !.permit = @ + Uncertain] ELSE attempt[l]

\* finish: also an expired permit is extended, but not one that was nulled.
Settled(l) ==
  IF at[l] = "answered"
  THEN [attempt[l] EXCEPT !.held = FALSE, !.permit = 0]
  ELSE IF attempt[l].held /\ attempt[l].permit < Uncertain
       THEN [attempt[l] EXCEPT !.permit = Uncertain]
       ELSE attempt[l]

Finish(l) ==
  /\ at[l] \in {"answered", "unsure"}
  /\ attempt' = [attempt EXCEPT ![l] = Settled(l)]
  /\ at' = [at EXCEPT ![l] = "done"]
  /\ UNCHANGED <<gateVars, provider>>

Lookup(l) == Acquire(l) \/ Ask(l) \/ Answer(l) \/ Abandon(l) \/ Finish(l)

Less(n) == IF n > 0 THEN n - 1 ELSE 0

LookupTick ==
  /\ attempt' = [l \in Lookups |-> [attempt[l] EXCEPT !.recent = Less(@), !.permit = Less(@)]]
  /\ provider' = [l \in Lookups |-> Less(provider[l])]

----------------------------------------------------------------------------
Longest == IF Uncertain > PermitTime THEN Uncertain ELSE PermitTime

LookupTypeOK ==
  /\ auth \in [Identities -> BOOLEAN]
  /\ phase \in [Identities -> {"none", "draining", "auth_pending"}]
  /\ attempt \in [Lookups -> [row : BOOLEAN, recent : 0..Window, held : BOOLEAN, permit : 0..Longest]]
  /\ at \in [Lookups -> {"new", "admitted", "asking", "answered", "unsure", "done"}]
  /\ provider \in [Lookups -> 0..(Deadline + Linger)]

\* The provider never works on more lookups than the policy allows, and never on two
\* of one identity, however clients time out, hang or die between their transactions.
LookupsWithinCapacity ==
  LET busy == {l \in Lookups : provider[l] > 0}
  IN  /\ Cardinality(busy) <= MaxLookups
      /\ \A k, l \in busy : Caller[k] = Caller[l] => k = l
=============================================================================
