--------------------------- MODULE AccountDeletion ---------------------------
(***************************************************************************)
(* The durable deletion job (account_deletion.py, account_deletion_api.py) *)
(* among the work it must outlast: the lookups of GeocodingCapacity and    *)
(* the chat messages of ChatRequests, both behind the identity gate.       *)
(*                                                                         *)
(* Recovery workers of several processes share the jobs; between the       *)
(* transactions of recover_one they hold nothing, and they may crash or    *)
(* fail at every step.  What the clean-up does to families and to vehicle  *)
(* evidence is EraseMember of FamilyMembership and of VehicleAdmission.    *)
(***************************************************************************)
EXTENDS GeocodingCapacity

CONSTANTS
  Recoverers,   \* recovery loops, one per server process
  RetryTime,    \* RETRY_SECONDS (60)
  \* the constants of ChatRequests
  Requests, UserOf, Lease, Margin, Reserve, CallTimeout, Uncertainty,
  MaxAttempts, MaxActive, RateLimit, RateWindow, MaxConcurrency, MaxRounds

VARIABLES
  due,         \* next_attempt_at - now
  deletes,     \* identities whose deletion the Auth service has been asked for
  recoverer,   \* what each recovery loop is doing
  \* the variables of ChatRequests
  status, lease, attempts, recent, action, answers, effects, worker, permits, calls

Chat == INSTANCE ChatRequests

jobVars  == <<due, deletes, recoverer>>
chatVars == <<status, lease, attempts, recent, action, answers, effects, worker, permits, calls>>
vars     == <<gateVars, lookupVars, jobVars, chatVars>>

ASSUME DeletionAssumption ==
  /\ RetryTime \in Nat
  /\ UserOf \in [Requests -> Identities]
  /\ Chat!DurationAssumption /\ Chat!LimitAssumption

----------------------------------------------------------------------------
\* jobs are the claimed ones that are left, job the one being worked on.
Idle == [at |-> "idle", jobs |-> {}, job |-> {}]

Init ==
  /\ LookupInit
  /\ Chat!Init
  /\ due = [i \in Identities |-> 0]
  /\ deletes = {}
  /\ recoverer = [w \in Recoverers |-> Idle]

Jobs == {i \in Identities : phase[i] # "none"}

RequestsOf(i) == {r \in Requests : UserOf[r] = i}

Confirm(i) ==
  /\ auth[i] /\ phase[i] = "none"
  /\ phase' = [phase EXCEPT ![i] = "draining"]
  /\ due' = [due EXCEPT ![i] = 0]
  /\ UNCHANGED <<auth, lookupVars, deletes, recoverer, chatVars>>

\* run_due: claim the due jobs and put them off.
Claim(w) ==
  LET jobs == {i \in Jobs : due[i] = 0}
  IN  /\ recoverer[w] = Idle
      /\ jobs # {}
      /\ due' = [i \in Identities |-> IF i \in jobs THEN RetryTime ELSE due[i]]
      /\ recoverer' = [recoverer EXCEPT ![w].jobs = jobs]
      /\ UNCHANGED <<gateVars, lookupVars, deletes, chatVars>>

DrainedOfLookups(i) ==   \* mutant: calls of the model are not waited for
  Own(i) \intersect Active = {}

\* _drained.  The permits' rows are locked first, so that no finish that extends
\* one is in the middle of it.
Drained(i) ==
  /\ Own(i) \intersect Active = {}
  /\ ~\E p \in permits : p.request \in RequestsOf(i) /\ p.left > 0

MovesOn(w, i) ==
  recoverer' = [recoverer EXCEPT ![w].jobs = @ \ {i}]

Proceeds(w, i) ==
  recoverer' = [recoverer EXCEPT ![w] = [at |-> "erased", jobs |-> @.jobs \ {i}, job |-> {i}]]

\* cleanup, in one transaction under the exclusive lock of the identity.
Erase(w, i) ==
  /\ recoverer[w].at = "idle" /\ i \in recoverer[w].jobs
  /\ phase[i] = "draining"
  /\ Drained(i)
  /\ phase' = [phase EXCEPT ![i] = "auth_pending"]
  /\ attempt' = [l \in Lookups |-> IF Caller[l] = i THEN Absent ELSE attempt[l]]
  /\ permits' = {p \in permits : p.request \notin RequestsOf(i)}
  /\ status' = [r \in Requests |-> IF UserOf[r] = i THEN "none" ELSE status[r]]
  /\ action' = [r \in Requests |-> action[r] /\ UserOf[r] # i]
  /\ LET kept(f) == [r \in Requests |-> IF UserOf[r] = i THEN 0 ELSE f[r]]
     IN  /\ lease' = kept(lease) /\ attempts' = kept(attempts)
         /\ recent' = kept(recent) /\ answers' = kept(answers)
  /\ Proceeds(w, i)
  /\ UNCHANGED <<auth, at, provider, due, deletes, effects, worker, calls>>

ResumesIfDraining(i) == FALSE   \* mutant: cleanup reports only its own success

\* cleanup finds that the data is already gone.
Resumes(i) == phase[i] = "auth_pending"

Resume(w, i) ==
  /\ recoverer[w].at = "idle" /\ i \in recoverer[w].jobs
  /\ Resumes(i)
  /\ Proceeds(w, i)
  /\ UNCHANGED <<gateVars, lookupVars, due, deletes, chatVars>>

\* Not drained yet, the job is gone, or a timeout or error rolled cleanup back.
Postpone(w, i) ==
  /\ recoverer[w].at = "idle" /\ i \in recoverer[w].jobs
  /\ MovesOn(w, i)
  /\ UNCHANGED <<gateVars, lookupVars, due, deletes, chatVars>>

\* Does the row of auth.users still exist?
Look(w) ==
  /\ recoverer[w].at = "erased"
  /\ \A i \in recoverer[w].job :
       recoverer' = [recoverer EXCEPT ![w].at = IF auth[i] THEN "asking" ELSE "closing"]
  /\ UNCHANGED <<gateVars, lookupVars, due, deletes, chatVars>>

\* delete_auth_identity.  The request may get lost, and it may be served long
\* after the client has given up.
Request(w) ==
  /\ recoverer[w].at = "asking"
  /\ deletes' = deletes \union recoverer[w].job
  /\ recoverer' = [recoverer EXCEPT ![w].at = "closing"]
  /\ UNCHANGED <<gateVars, lookupVars, due, chatVars>>

LoseRequest(w) ==
  /\ recoverer[w].at = "asking"
  /\ recoverer' = [recoverer EXCEPT ![w].at = "closing"]
  /\ UNCHANGED <<gateVars, lookupVars, due, deletes, chatVars>>

AuthDeletes(i) ==
  /\ i \in deletes
  /\ auth' = [auth EXCEPT ![i] = FALSE]
  /\ deletes' = deletes \ {i}
  /\ UNCHANGED <<phase, lookupVars, due, recoverer, chatVars>>

\* Only the absence of the row completes a job.
Closable(i) == ~auth[i]

Close(w) ==
  /\ recoverer[w].at = "closing"
  /\ phase' = [i \in Identities |->
       IF i \in recoverer[w].job /\ phase[i] = "auth_pending" /\ Closable(i) THEN "none" ELSE phase[i]]
  /\ recoverer' = [recoverer EXCEPT ![w].at = "idle", ![w].job = {}]
  /\ UNCHANGED <<auth, lookupVars, due, deletes, chatVars>>

\* An exception: the pass goes on with its next job.
Skip(w) ==
  /\ recoverer[w].at # "idle"
  /\ recoverer' = [recoverer EXCEPT ![w].at = "idle", ![w].job = {}]
  /\ UNCHANGED <<gateVars, lookupVars, due, deletes, chatVars>>

\* The process ends and is started again.
Crash(w) ==
  /\ recoverer[w] # Idle
  /\ recoverer' = [recoverer EXCEPT ![w] = Idle]
  /\ UNCHANGED <<gateVars, lookupVars, due, deletes, chatVars>>

----------------------------------------------------------------------------
(* Chat behind the gate.                                                   *)

\* Transactions that begin with require_user or require_request.
Gated(r) ==
  \/ Chat!Submit(r) \/ Chat!Retry(r)
  \/ \E a \in Chat!Attempts :
       \/ Chat!Call(r, a) \/ Chat!TooLate(r, a) \/ Chat!GiveUp(r, a)
       \/ Chat!ReadTool(r, a) \/ Chat!Mutate(r, a) \/ Chat!Finalize(r, a)
       \/ Chat!Fail(r, a) \/ Chat!Yield(r, a)

\* Steps without one; an expired lease is only seen after it.
Ungated(r) ==
  \E a \in Chat!Attempts :
    \/ Chat!Start(r, a) \/ Chat!Respond(r, a) \/ Chat!Hang(r, a)
    \/ Chat!Settle(r, a) \/ Chat!Break(r, a)

\* IdentityUnavailable ends the worker at its next transaction.
Fenced(r) ==
  /\ ~Open(UserOf[r])
  /\ \E a \in Chat!Attempts :
       /\ worker[r][a].at \in {"thinking", "deciding", "closing", "salvaging", "yielding", "failing"}
       /\ Chat!Ends(r, a)
  /\ UNCHANGED <<status, lease, attempts, recent, action, answers, effects, permits, calls>>

ChatStep(r) ==
  /\ \/ Open(UserOf[r]) /\ (Gated(r) \/ \E a \in Chat!Attempts : Chat!LoseLease(r, a))
     \/ Ungated(r)
     \/ Fenced(r)
  /\ UNCHANGED <<gateVars, lookupVars, jobVars>>

----------------------------------------------------------------------------
Tick ==
  /\ LookupTick
  /\ Chat!Tick
  /\ due' = [i \in Identities |-> Less(due[i])]
  /\ UNCHANGED <<gateVars, at, deletes, recoverer>>

Recover(w) ==
  \/ Claim(w)
  \/ \E i \in Identities : Erase(w, i) \/ Resume(w, i) \/ Postpone(w, i)
  \/ Look(w) \/ Request(w) \/ LoseRequest(w) \/ Close(w) \/ Skip(w) \/ Crash(w)

Next ==
  \/ \E l \in Lookups : Lookup(l) /\ UNCHANGED <<jobVars, chatVars>>
  \/ \E r \in Requests : ChatStep(r)
  \/ \E i \in Identities : Confirm(i) \/ AuthDeletes(i)
  \/ \E w \in Recoverers : Recover(w)
  \/ Tick

Spec == Init /\ [][Next]_vars

(***************************************************************************)
(* Time passes and the Auth service serves what reaches it.  Recovery      *)
(* loops are restarted and try again every few seconds, and no step fails, *)
(* crashes or gets lost every time it is tried.  Lookups and chat workers  *)
(* owe nothing: each may stop at any point.                                *)
(***************************************************************************)
FairSpec ==
  /\ Spec
  /\ WF_vars(Tick)
  /\ WF_vars(\E i \in Identities : AuthDeletes(i))
  /\ SF_vars(\E w \in Recoverers, i \in Identities : Erase(w, i))
  /\ SF_vars(\E w \in Recoverers, i \in Identities : Resume(w, i))
  /\ SF_vars(\E w \in Recoverers : Claim(w))
  /\ SF_vars(\E w \in Recoverers : Look(w))
  /\ SF_vars(\E w \in Recoverers : Request(w))
  /\ SF_vars(\E w \in Recoverers : Close(w))

----------------------------------------------------------------------------
\* The data of i has been deleted.
Erased(i) == phase[i] = "auth_pending" \/ ~auth[i]

TypeOK ==
  /\ LookupTypeOK
  /\ Chat!TypeOK
  /\ due \in [Identities -> 0..RetryTime]
  /\ deletes \subseteq Identities
  /\ recoverer \in [Recoverers -> [at : {"idle", "erased", "asking", "closing"},
                                   jobs : SUBSET Identities, job : SUBSET Identities]]

\* Data is only erased when no provider can be working for the identity any more:
\* lookups and model calls that began before the confirmation, hung or lost their
\* worker are waited for, and none begins afterwards.
DrainedBeforeErased ==
  \A i \in Identities : Erased(i) =>
    /\ \A l \in Own(i) : provider[l] = 0
    /\ \A c \in calls : UserOf[c.request] # i

\* What was erased stays erased, whatever workers that were caught in the middle
\* of a lookup or of a message still do, and through every phase up to the end.
NothingReturns ==
  \A i \in Identities : Erased(i) =>
    /\ \A l \in Own(i) : attempt[l] = Absent
    /\ \A r \in RequestsOf(i) : status[r] = "none" /\ ~action[r] /\ answers[r] = 0
    /\ \A p \in permits : UserOf[p.request] # i

\* A confirmed deletion completes, through crashes, failed steps, lost requests and
\* permits that workers have left behind.
Completes == \A i \in Identities : phase[i] = "draining" ~> phase[i] = "none" /\ ~auth[i]
=============================================================================
