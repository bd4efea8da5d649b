# Family Car Agent: specifications, checks and proofs

The Family Car Agent answers, for each family, who is driving which car, when a
car is reserved, and where it was parked. The backend is Python over PostgreSQL
(`src/backend`), the clients are a web application (`src/web`), an iOS Shortcut
and an Android companion (`src/android`). This directory specifies the parts
whose behaviour depends on the order of things: evidence that arrives late,
checkpoints, retirement, erasure, retries, workers that outlive their leases,
locks that are taken one by one, answers that come back after a deletion.

`PROJECT.json` lists the components, the runs, the map from every definition to
the lines it stands for, the hazards with the properties that guard them, and
the theorems. Paths below are relative to `src/`.

## 1. Inventory

| Component | State | Operations | Hard behaviour | Correct means |
| --- | --- | --- | --- | --- |
| **Reconciliation** `backend/vehicle_reconciliation.py` | none (pure) | `reconcile(seed, events)` | ties in time, causal order, aliases, seeds | the sessions are the history the rules define, from any checkpoint |
| **Vehicle admission** `backend/vehicle_admission.py`, `vehicle_work.py` | `vehicle_events`, `vehicle_driver_sessions`, device cursor, family boundary and generation | `admit_native_event`, `maintain_native_checkpoint` | late evidence, moving boundary, two projection paths, policy refusals, rollback | stored sessions = history of all evidence; finalized past frozen; never wedged |
| **Shortcut adapter** `backend/carplay_adapter.py`, `car_service.py` | `carplay_vehicle_bindings`, admissions of the rate limit | `bind_vehicle`, `transition` | retries, overlapping acquisitions | an old cycle never ends a newer one |
| **Vehicle and device lifecycle** `backend/vehicle_lifecycle.py`, `vehicle_creation_policy.py`, `vehicle_bindings.py` | `vehicles`, `registered_devices`, creation requests, quotas | create, rename, retire, register, revoke | idempotency keys, quotas, retirement against late evidence | retired is never in use; one key, one row |
| **Account deletion** `backend/account_deletion.py`, `deletion_gate.py` | `account_deletion_jobs` with a phase | preview, confirm, drain, cleanup, identity removal, recovery | crash between phases, several recovery workers, work in flight, lost requests to the Auth service, last administrator | nobody's data but the member's goes; a confirmed job finishes |
| **Chat requests** `backend/chat_service.py`, `ai_service.py` | `chat_requests`, actions, leases, attempts | claim, renew, mutate, finalize, fail | lease expiry with a live worker, retries, at-most-once mutation | one answer per request, one mutation per request |
| **Provider capacity** `backend/gemini_capacity.py`, `geocoding_capacity.py`, `geocoding_service.py` | attempts, permits, per-minute windows | acquire, finish, retain; the call itself in a child process | lost completions, expiry racing an answer | never more than the limit in flight |
| **Reservations** `backend/reservation_rules.py`, `reservation_service.py`, `database.py` | `reservations` | create, change, cancel, by form and by chat | checks and writes are separate statements; six kinds of transaction lock the same rows | no two active reservations of a car overlap; nobody waits in a circle |
| **Family onboarding** `backend/family_creation_service.py`, `join_family_service.py`, `family_service.py`, `database.py` | families, users, code history, join sessions, address confirmations | found, join by name, address and code, regenerate the code, move; leaving is account deletion | addresses and codes that change between two steps of a joiner, locked sessions, the last member leaving | a family always has an administrator; families stand apart; a stale code admits nobody |
| **Push** `backend/push_service.py`, `push_security.py` | subscriptions | replace, remove, send | subscription replaced while a send is under way | a removed endpoint is not recreated |
| **Authentication** `backend/auth_service.py`, `jwks_resolver.py` | key cache | verify | key rotation | out of scope: cryptography and HTTP |
| **Android companion** `android/.../delivery`, `data`, `detector` | outbox, sequence, detector | observe, store, deliver, retry | process death, lost answers, gaps | every observation is delivered once, in order |
| **Web client** `web/src/push`, `chat`, `carStatus` | pending chat, push generation, subscriptions | submit, resume, refresh | stale generations, tabs | an old answer never overwrites a new one |
| **Database schema** `supabase/manual_migrations` | tables, triggers, exclusion constraints | | | modelled as the types and disjointness of the components |

How they interact. Clients and the Shortcut call the API; each mutating request
runs in one transaction that takes the locks in one order: the identity fence of
account deletion, the process-wide family lock, the family's advisory lock, the
family row, the device, the vehicle. All vehicle state of a family is therefore
changed by one operation at a time: the interleaving that matters is that of
*whole operations* with each other, with the clock, and with messages that are
late, repeated or refused. Chat and the capacity modules are different: a worker
holds a lease or a permit while it talks to a provider outside of any lock.
Whoever reserves, claims a message, changes the fleet or the family, or erases a
member locks several rows and advisory keys one after the other; there the
interleaving of single lock requests matters.
Account deletion crosses every component: it drains chat and provider work, then
erases the member's vehicle evidence while keeping what survivors drove.

## 2. Modules

| Module | Role |
| --- | --- |
| `OccupancyHistory` | the declarative definition: the sessions a set of evidence means. It is written without seeds, anchors or a heap, as a reference for the engine |
| `Reconciliation` | `reconcile` and `_ordered`, translated line by line into operators: the causal order of ties, what an event ends, opens and is associated with, the seed checks |
| `MCReconciliation` | enumerates sets of admissible events and compares the two, from the empty seed and from every checkpoint |
| `VehicleHistory` | the abstract machine: evidence is accepted, an instant is finalized, a member is forgotten; the visible sessions are always `History` of all evidence |
| `VehicleAdmission` | the tables and every operation on them: `AdmitNative`, `MaintainCheckpoint`, `RetireVehicle`, `RevokeDevice`, `EraseMember`, `Tick` |
| `MCVehicleAdmission` | bounds for four configurations |
| `ShortcutAdapter` | extends the admission with bindings, `Bind`, `Connect`, `Disconnect` and the adapter's own guard; composes with everything above |
| `MCShortcutAdapter` | bounds for two configurations |
| `RequestContract` | the abstract machine of one message: asked once, performed at most once, answered or refused once, never refused after it was performed |
| `ChatRequests` | chat requests with leases and attempts, the workers that hold their tokens, the tool loop, permits and the calls the provider is working on |
| `MCChatRequests` | bounds for two configurations |
| `FamilyMembership` | founding, joining, codes, addresses, moving, and what deletion does to a family; address lookups are open between two transactions |
| `MCFamilyMembership` | a street of three places; bounds |
| `GeocodingCapacity` | the identity gate and, behind it, address lookups: admission, the child process and the provider it leaves behind, settlement |
| `AccountDeletion` | extends it with the deletion job and its recovery loops, and composes it with an instance of `ChatRequests` behind the same gate |
| `MCAccountDeletion` | bounds, and a constraint on the competitor |
| `Reservations` | bookings and fleet, and the six kinds of transaction that share their locks, lock by lock |
| `MCReservations` | bounds |
| `ReconciliationProofs` | induction over sets of numbers, the order of events, the invariant of a replay, and the engine against the declarative history |
| `EngineHistoryProofs` | the theorems about `MCReconciliation`: any evidence that can arrive, and any checkpoint |
| `VehicleProjectionProofs` | the invariant of the session table, from the two modules of proofs it extends |
| `VehicleAdmissionProofs`, `ChatRequestsProofs`, `FamilyMembershipProofs`, `ReservationsProofs`, `AccountDeletionProofs` | the theorems |

### How state and actions correspond to the code

* `receipts` is `vehicle_events`: the event as received, its `admission_outcome`
  and `anchor`, the `projection_take_event_id`. `sessions` is
  `vehicle_driver_sessions`, with `ref` for `session_ref`, `anchor` for
  `start_event_id` and `gen` for `checkpoint_generation`. `boundary` and
  `generation` are the family's columns, `lastSeq` a device's
  `last_processed_sequence`, `revoked` and `retired` the two timestamps.
* `erased` and `raised` are history variables. `erased` lets the abstract
  machine remember evidence whose rows are gone; `raised` records that an
  admission hit a `ReconciliationError`, which the code turns into a rollback.
* `Record(e)` is the body of `_admit` after its early returns: the checkpoint is
  rolled to `Target` (`rolling_checkpoint`), the eligibility cascade decides,
  the incremental path (`_incremental`) or the full replay (`_load_replay`,
  `_frozen_return_anchor`, `reconcile`) projects, `_plan_materialization`
  checks and plans, and the writes happen together. A refusal leaves checkpoint
  and sessions alone and still stores the receipt and consumes the sequence
  number, as the savepoint of the code does.
* Answers that write nothing (`retry`, `gap`, `conflict`, `unavailable`,
  `future_clock_skew`) and transactions that roll back on a deadline or a lock
  timeout are stuttering steps.
* The Shortcut's operation ids are a constant injection: the code hashes user,
  acquisition and event type, so any order of ids is possible. The configuration
  has one acquisition whose RETURN's id is below its TAKE's, and one the other way.

* In `ChatRequests`, `status`, `lease` and `attempts` are columns of
  `chat_requests`; a successful claim raises `processing_attempts` and draws a
  token, so the token of attempt `a` is `a`. `worker[r][a]` is the invocation of
  `process_chat_message` that holds it, at one of the `Place`s between its
  transactions and provider calls. `Owned` is the fence every write repeats.
  `Retry` is `_claim_request` for an existing row and has its three outcomes.
* `calls` is the environment: what the Gemini API may still be working on. The
  model takes from the code's constants that it stops `Uncertainty` after the
  client's timeout at the latest. A worker that crashes, or raises where nothing
  is written, is one that takes no further step, so there is no crash action.
* `_get_completed_action` and `_mark_failed` are one action, `Fail`: the UPDATE
  repeats the condition that was read. Losing the answer of a commit is the
  choice of `Mutate` and `Finalize` to continue at `failing`.

* In `FamilyMembership` every mutation is one step, since it holds
  `PWA_FAMILY_CREATION_LOCK_ID` from its second statement to its end. An
  operation that asks the geocoder does so between two transactions: `lookup[i]`
  is that open question, and `SubmitAddress` and `OfferHome` are the transaction
  that follows, with all its checks repeated. `session` is `pwa_join_sessions`;
  `Entered` is the row `_lock_pwa_join_session` returns. `proof` and `wrong` are
  history variables: what an identity last proved to know, and the wrong codes
  that still weigh. `gate` is what the rest of the system sees of a deletion:
  open, closed, erased.
* In `GeocodingCapacity`, `attempt[l]` is the row of `geocoding_attempts`, `at[l]`
  where `geocode_with_capacity` is, and `provider[l]` how long the geocoder may
  still work on the lookup: `Deadline + Linger` when the child asks it, `Linger`
  when the child has been terminated. `Finish` has no gate, as in the code.
* In `AccountDeletion`, one `Recoverers` element is the recovery loop of a server
  process: `Claim` is `run_due`, and the steps from `Erase` to `Close` are the
  transactions of `recover_one` and the HTTP request between them. `deletes` are
  the requests that have reached the Auth service and may be served at any later
  time. `Gated`, `Ungated` and `Fenced` sort the steps of a chat worker by whether
  their transaction starts with `require_user` or `require_request`. Erasing is
  split: rows of lookups and chat go in `Erase`, those of families in
  `FamilyMembership!EraseMember`, of vehicles in `VehicleAdmission!EraseMember`,
  of reservations in `Reservations!Erase`.
* In `Reservations`, `Plan(op, u)` is the sequence of locks a transaction requests,
  read off the code's statements, and `tx[c].held` how many it has. `Decide` is
  everything up to the INSERT or UPDATE, `Write` that statement: between them
  others move, as far as the locks let them. The car lock of a family and the
  chat lock of a user are one namespace of advisory keys, so `Car` takes either
  id; `cleanup` sorts the two.

Abstractions. Time is an integer and NULL a value before every instant. UUIDs
are positive integers: the code compares them only for equality and to break
ties. The work budget of `vehicle_work.py` has many dimensions; two limits stand
for it, the number of replayed events and of checkpoint rows, which are the two
that end in different answers (refuse the event; stop maintenance early).
`IsLatest` is the code's strict test for the incremental path. Names,
coordinates and wording are left out. In `ChatRequests` every deadline is the
time left until it, which needs no clock; the reservation rules are the choice
whether a mutation changes anything; a user's change of family between retries
is left out, and the identity gate of a deletion is added by `AccountDeletion`.
Names of families and resolved places are values; being within 50 metres is a
symmetric relation, not assumed to be transitive. In `Reservations` times are
the canonical Jerusalem wall-clock times the tables hold. A user finds a
reservation to change by its reference or by its times; the second finds a
subset of what the first does, so only the first is a step.

## 3. Runs

The vehicle runs bound the number of ids and the clock, so the last state of a
behaviour has no successor, and a chat run stands still when every message has
ended and every timer has run out; families and identities are used up for good,
and at the last instant every reservation may be past: hence
`CHECK_DEADLOCK FALSE`. That transactions do not block each other is therefore an
invariant of its own, `NobodyBlocked`.

Two runs assume fairness. In `chat_progress` time passes, and the client repeats
a message until it has ended, as the web client does from its stored copy.
Workers owe nothing; a message must end whichever of them stop. In `deletion`
time passes and the Auth service serves what reaches it (weak fairness), and
each step of recovery that is possible again and again is at last taken (strong
fairness): a loop is started with every server process and tries again every few
seconds, so the assumption is that no step fails, crashes or loses its request
*every* time. Strong fairness is needed because a crash or a lost claim disables
a step before it is taken. Lookups and chat workers again owe nothing. The
other operations promise no progress: each is one client request.

Symmetry is used over vehicles, connections and rows of reservations, over
identities, families and codes, and, in `provider_capacity`, over two messages
of the same user; device owners, ids and instants are not interchangeable, and
no run that checks liveness uses symmetry.

| Run | Question | Bounds, and why they are enough |
| --- | --- | --- |
| `reconciliation` | Does the engine compute the declared history, with disjoint sessions, and from any checkpoint that of the evidence it is given? | two users, two vehicles, one device and the Shortcut, two instants, all sets of up to four events: four events reach a handover, a switch and an alias on a tie |
| `frozen_return` | Is a RETURN that is over a no-op for a replay? (violated, section 5) | two users, one vehicle, five events: four cannot have a session, the handover that ends it, a late RETURN of it, the same device's next event and another user's between them |
| `late_evidence` | Do stored rows stay the history of all evidence when it arrives in any order across checkpoints? Does a replay ever raise or touch the frozen past? | two drivers with a device each, two vehicles, four accepted events, window 2 and clock 2..4: an event can be late by the window, and the boundary passes two earlier instants (two and a half minutes) |
| `retirement` | Can late evidence bring a retired vehicle back into use, or leave a TAKE without its session? | one user with two devices, four events, retirement at any moment; two devices are needed since one device's evidence is in order (two minutes) |
| `erasure` | Does erasing a member between others' evidence disturb them? Does a refusal by policy, or a maintenance checkpoint that stops early, bend the history? | two users, three events that may be refused once, erasure and revocation at any moment; two replayed events and one checkpoint row, so that three events overflow both; the abstract machine still knows the erased evidence (1.1 million states, two minutes) |
| `shortcut` | Do two acquisitions of each user mix with native evidence, rebinding, retirement, revocation and erasure safely? | three events: two Shortcut TAKEs and the old RETURN |
| `stale_return` | The adapter's promise for the projection as a whole (violated, section 5) | one vehicle, a device clock one instant ahead, four events; the owner of the phone has bound no vehicle, so that the acquisitions and the native evidence are different users' |
| `chat_progress` | Does one message take effect and end at most once, have one call at a time, and end at last? | one message, three claims with two rounds each; a lease of three instants leaves two to the worker, so that every later claim can meet an earlier worker alive |
| `provider_capacity` | Do abandoned calls keep counting until the provider is certain to be done? | three messages of two users, one permit, one place per user, one attempt each: a place is contested by the same user and by another |
| `family` | Do founding, joining, moving, new codes and deletions keep the membership tables consistent, in every order and with lookups in between? | two identities, two families, two codes, three places on a street where only neighbours are near: nearness is not transitive, a code can run out and come back, a family can lose its last member while the other joins; two tries, so that a lock follows a correction (1.4 million states, two minutes) |
| `deletion` | Is data erased only after the providers are done, does it stay erased, does the job complete? | one identity deleted by two recovery workers that may crash at every step, in the middle of one lookup and one message; a second identity competes for the geocoder's one place (94 thousand states; liveness takes most of three minutes) |
| `reservations` | Can two transactions book one car twice, book a retired vehicle, or wait for each other? | two connections, two users of whom one has the id of the family, so that the shared car keys coincide and differ; two vehicles, two rows, instants 0..2: intervals can be disjoint, overlap or touch (2.3 million states, two and a half minutes) |

The id of an event decides between simultaneous ones, so it matters in which order
ids arrive. In `late_evidence` and `retirement` the four ids arrive in the orders
1 2 3 4 and 3 1 4 2 and their mixtures (`FourArrivals`): of any two arrivals either
may have the smaller id. In `erasure` they arrive as 2 3 1, so that the last event is
the first among simultaneous ones; `shortcut` has operation ids in both orders.
`reconciliation` and the theorems are about all orders.

In `deletion` a state constraint, `Competing`, keeps the product small: the
second identity is not deleted itself, and its lookup does not run while the
first one's message does. It may run with the first one's lookup, which is the
competition `LookupsWithinCapacity` is about. Its assumptions stated as ASSUME are
`Deadline + Linger <= PermitTime` and `Linger <= Uncertain` (30 and 60 seconds in
the code leave 30 for the provider to notice that a client is gone), and `Ask`
has the guard that the permit still covers the call: the code starts the child
right after the admission and compares nothing. `MaxRecent` admissions in a
window are not reached by an identity's single lookup there.

Each property of a passing run has a mutant, a plausible bug in the operator it
watches (a `<=` for a `<`, a forgotten seed, a refusal that does not consume its
sequence number). The mutants stand beside the definitions they replace, marked
`mutant`; under them TLC finds the property violated in the run's own bounds.

What the properties say:

* `EngineMatchesHistory`, `Disjoint`: the engine.
* `CheckpointTransparent`: a replay from a checkpoint ends in the history of all
  evidence but the RETURNs `_load_replay` leaves out. That these RETURNs mean
  nothing is `FrozenReturnIsNoop`, which is not so (section 5).
* `ImplementsHistory`: a refinement. The tables, mapped to evidence, finalized
  instant and visible sessions, take only steps of `VehicleHistory`: so both
  projection paths, checkpoints, seeds, policy refusals and erasure are
  invisible in the history. The abstract machine may leave `Spent` RETURNs out
  of the evidence: those of sessions that ended before them, by the finalized
  instant.
* `NeverRaises`: no reachable row state makes the loader or the engine raise on
  eligible evidence. A raise rolls the receipt back, and the device would
  deliver the same event forever.
* `AnchorsResolve`: every accepted TAKE names exactly one stored session.
* `PastFrozen`: a session that ended by the boundary never changes, and a public
  reference never comes to denote another driver or car.
* `RetiredNotInUse`, `LogComplete`, `CausallyOrdered`, `EvidencePermanent`:
  retirement, the device log, causal order, permanence of receipts.
* `OpenAcquisitionSpared`: a late Shortcut RETURN spares a newer acquisition.
* `ImplementsContract`: a refinement. Whatever the workers of a message do and
  wherever they stop, its rows take only steps of `RequestContract`.
* `ProviderWithinCapacity`, `OneCallPerRequest`, `UserShare`: about the calls
  really in progress and not the permits. More permits than the limit can be
  active: `finish` extends one that has expired after its place was given away.
  The limit on calls holds nevertheless.
* `Settles`: a message whose client keeps retrying ends.
* `Governed`, `FamiliesApart`, `CodesRecorded`: relations between rows that
  different users change, with stale checks in between: an address is confirmed
  up to fifteen minutes before a family settles there.
* `JoinersBound`, `StaleCodeAdmitsNobody`, `GuessesLimited`: a joiner's session
  against what happens to the family meanwhile. The limit on guesses is one of
  the session: with the family's last member its joiners' sessions are deleted,
  and a new one starts at zero.
* `ErasedLeavesNothing`, `NothingReturns`: what is erased stays erased, whoever
  was caught in the middle.
* `LookupsWithinCapacity`, `DrainedBeforeErased`: again about the provider and not
  about the rows; more permits than the policy allows can be active here too.
* `Completes`: a confirmed deletion ends, with the identity gone.
* `NoDoubleBooking`: also between a reservation without a vehicle, which blocks
  every car, and vehicles that are created later.
* `RetiredNotNewlyBooked`: the choice of a vehicle and the write are two steps, and
  a reservation that has a retired vehicle may keep it.
* `NobodyBlocked`: the lock plans of six kinds of transaction never form a circle.

## 4. Proofs

`VehicleAdmissionProofs` proves for every number of users, vehicles, devices and
events, every window, skew and work limit:

| Theorem | Property |
| --- | --- |
| `EvidenceTypes` | the types of everything but the projection's rows |
| `LogIsComplete` | `[]LogComplete` |
| `EvidenceIsCausal` | `[]CausallyOrdered` |
| `EvidenceIsPermanent` | `EvidencePermanent` |
| `RetiredStaysUnused` | `[]RetiredNotInUse` |

`ReconciliationProofs` proves of the engine, `EngineHistoryProofs` of all evidence
that can arrive, for any number of users, vehicles, devices, instants and events,
and `VehicleProjectionProofs` of the stored sessions, with native evidence alone and
with the Shortcut's:

| Theorem | Property |
| --- | --- |
| `ReplayKeepsInvariant` | a replay of orderable evidence from an admissible seed is sound and keeps the replay's invariant |
| `EngineIsHistory` | from nothing, the replay ends in the sessions and anchors of `History` |
| `EngineAlwaysHistory` | `[]EngineMatchesHistory` |
| `AlwaysDisjoint` | `[]Disjoint` |
| `CheckpointAlwaysTransparent` | `[]CheckpointTransparent` |
| `ProjectionInvariant` | the table is always what the next replay needs |
| `AdmissionTypes` | `[]TypeOK` |
| `NeverRaised` | `[]NeverRaises` |
| `AnchorsAlwaysResolve` | `[]AnchorsResolve` |
| `PastIsFrozen` | `PastFrozen` |
| `ShortcutKeepsTable` | the invariants and `PastFrozen`, of `ShortcutSpec` |
| `ShortcutNeverRaises` | `[]NeverRaises`, of `ShortcutSpec` |

`ChatRequestsProofs` for every number of messages, users, attempts and
rounds, every limit and all durations:

| Theorem | Property |
| --- | --- |
| `ChatTypes` | `[]TypeOK` |
| `CapacityRespected` | `[]ProviderWithinCapacity` |
| `OneCall` | `[]OneCallPerRequest` |
| `SharesRespected` | `[]UserShare` |
| `ContractImplemented` | `ImplementsContract` |

`FamilyMembershipProofs` for every number of identities, families, names, codes
and places, every symmetric nearness and all limits:

| Theorem | Property |
| --- | --- |
| `MembershipTypes` | `[]TypeOK` |
| `AlwaysGoverned` | `[]Governed` |
| `AlwaysApart` | `[]FamiliesApart` |
| `AlwaysRecorded` | `[]CodesRecorded` |
| `AlwaysBound` | `[]JoinersBound` |
| `ErasedForGood` | `[]ErasedLeavesNothing` |
| `GuessesAlwaysLimited` | `[]GuessesLimited` |
| `StaleCodesAdmitNobody` | `StaleCodeAdmitsNobody` |

`ReservationsProofs` for every number of connections, users, vehicles, rows and
instants:

| Theorem | Property |
| --- | --- |
| `ReservationTypes` | `[]TypeOK` |
| `NeverDoubleBooked` | `[]NoDoubleBooking` |
| `RetiredVehiclesNotBooked` | `RetiredNotNewlyBooked` |
| `NeverDeadlocked` | `[]NobodyBlocked` |

and `AccountDeletionProofs` for every number of identities, lookups, messages and
recovery loops, every policy and all durations:

| Theorem | Property |
| --- | --- |
| `DeletionTypes` | `[]TypeOK` |
| `CapacityKept` | `[]LookupsWithinCapacity` |
| `WorkDrained` | `[]DrainedBeforeErased` |
| `ErasedStays` | `[]NothingReturns` |

The first rest on the named assumptions of `VehicleAdmission`: devices and ids are
positive integers, every device has an owner among the users, the window is at
least one, the limits are naturals. The second rest on those of `ChatRequests`:
durations and limits are naturals, and `Uncertainty <= Margin`, which the
constants of the code (45 and 45 seconds) satisfy with nothing to spare. The
others rest on `MembershipAssumption`, `ReservationAssumption` (ids of users and
family are bounded naturals, since the two share the advisory keys),
`LookupAssumption` and `DeletionAssumption`.

The argument. `LogComplete` and `CausallyOrdered` are not inductive alone.
`EvidenceInv` joins them with their types and with `Provenance`: a native
receipt's user owns its device, and a Shortcut receipt has none. Without it,
`EraseMember` could take part of a device's log away, and a device's cursor
would no longer match. Admission is factored through one lemma about `Record`,
so that each invariant is argued once for a new receipt and then reused; the
projection is left opaque, since what the receipts say does not depend on what
the engine makes of them. Erasure removes a RETURN together with its TAKE
because both have the same user, and its new boundary is a maximum of a finite
set, which exists by `GreatestElement`.

`RetiredNotInUse` has its own invariant, `RetirementInv`. A step of `Record`
leaves untouched rows, for which it held, and rows of the projection, which
`ReopensRetired` checked: this does not depend on the engine either.

The engine is a fold over the events in causal order, so its proof is an
induction over the prefixes of that order. First, the order exists: among the
events without a predecessor there is always a first, because `Precedes`, as
admission feeds it, has no circle, and `Ordered` lists every event once, after
its predecessors (`OrderedIsOrder`, by `SetInduction`). Then `RunInv`, for the
events applied so far: the sessions are disjoint for every user and vehicle,
those that are open are the latest of theirs, each is opened by one of the TAKEs
applied or carried by the seed, every TAKE applied has an anchor, and an anchor's
session has the TAKE's driver and vehicle and began no later. Each event keeps
it, whichever of the alias, handover, switch, return and no-op cases it is.

The history is about positions in that order, not about a state, so the two are
related prefix by prefix. `Held` is recursive in the position at which it looks;
`HeldDefined` shows that it exists and that a use lasts until the first event that
displaces it or returns it. Two TAKEs belong to `OneUse` if one lasts to the other,
which is an equivalence (`OneUseShared`, by induction on positions, since what ends
a use is defined with it), and every use has one TAKE that opens it (`OpensUse`). `Tracks` then
says of the state after m events that its sessions `Mirror` the uses opened so far,
open exactly as long as these last and ended by the event that ends them, and
that every anchor is the opening of its TAKE's use. Each event keeps it: a TAKE
opens, continues or displaces a use where the engine opens, aliases or closes a
session, and a RETURN ends the use of its cause because its anchor is that use's
opening (`ApplyTracks`). The lemma is stated for a segment of a longer order and for
a set `gone` of uses that the replay leaves out, if they are over or nothing after
concerns their drivers. `EngineIsHistory` is the segment that is everything. A
checkpoint is two segments: `OrderedSplits` shows that evidence up to an instant is
replayed before the rest and each part in its own order, the first segment ends in
`Past`, and the second starts from its open sessions, `gone` being the uses that are
over. `EngineHistoryProofs` supplies the hypotheses: `Evidence`, which every arrival
keeps, makes any part of the evidence that holds its causes replayable, and the
sessions open across a boundary an admissible seed.

`ProjectionInv` is what this needs of the table, and what admission gives back:
rows are disjoint, a row bears the current generation exactly if it is held
across the boundary, and every accepted TAKE resolves to one row of its driver and
vehicle. From it a replay's seed is admissible (`Setting`), so that the
engine does not raise; every mutable row finds its new session or is gone; and
the RETURNs left out are those of rows that ended. A checkpoint keeps it only
because it marks old seeds and new starts alike: without either
(`CheckpointRowsForgotten`, `CheckpointRowsStrict`) TLC finds a raise. The
Shortcut's transitions keep it because they, too, change the tables only through
`Record` and the lemma about it asks only for an `Arrival`, which the adapter's
own guard establishes.

The capacity theorems share `CapacityInv`. Counting calls is not inductive:
nothing in the code counts them. The invariant adds that every call in progress
is `Covered` by a permit of its own request and token that does not expire before
it, that a request has one permit, and that a worker whose call has been
answered or rejected has none in progress, so that deleting its permit uncovers
nothing. At a new call the old ones map one to one into the permits that count,
of which there are fewer than the limit. `Uncertainty <= Margin` enters there: a
call may last until the usable end of the lease and then `Uncertainty` longer,
and its permit lasts as long as the lease. `ShareInv` does the same for the
places of a user. The refinement needs only that effects without a recorded
action do not exist (`Recorded`): the fences do the rest, whatever the
durations are.

Families. `Governed`, `FamiliesApart`, `CodesRecorded` and `ErasedLeavesNothing` are
inductive once the types are known; the other two need `SessionsSound`: a session
at a step where an address has been shown is bound to a live family of the name
given, a session that is not locked has tries left, and one that waits for a name
carries the proof of the code its family has *now*. Regeneration keeps the last
part only because it puts such sessions back, and deletion of the last member the
first only because it ends the sessions of joiners: the two mutants drop these.
`GuessesLimited` counts wrong codes in a sequence of the instants until which each
still weighs. The counter of a session is not that length: it is reset when a lock
expires, and a session that is given up starts at zero. `Remembered` relates the
two (`Counted`): the list is ascending, each weighs no longer than a lock, an
unlocked session has counted as many tries as still weigh at least, and a
locked one is locked for longer than any of them weighs.

Reservations. A transaction's decision must stay right until it writes:
`StillRight` says that the value it has decided on still conflicts with nothing
and names an active vehicle or the one the row has. It is preserved because
whoever decides, writes, changes the fleet or erases holds the family's row, and
`Exclusion` says that incompatible locks have one holder. For `NeverDeadlocked`
every plan is shown to be strictly increasing in one order of locks, `Rank`,
whatever the two car keys of a deletion are. Ranks are bounded, so that among the
locks waited for there is one of greatest rank (`GreatestElement`): its holder
does not wait, as it could only wait for a greater one.

Deletion. The permits of lookups are not bounded by the policy, since an expired
permit is extended after its place was given away. What is bounded is the set of
lookups that are `Pending`, those the provider works on or may still be asked for:
each has a permit that lasts as long, only an admission adds one, and an admission
counts the permits. `LookupInv` states that; `CallInv` says the same of model calls,
with weaker types than in `ChatRequestsProofs`, since here a worker may outlive the
rows of its message. A drained identity therefore has nothing at a provider.
`JobInv` adds that a recovery loop past the clean-up, and a request the Auth
service still has to serve, belong to an erased identity: without it, a loop
that stood still for long could remove an identity whose data is still there.
`NothingReturns` is then preserved step by step: the gate of an erased identity is
closed for good, and the steps without a gate change only rows that still exist.
`DeletionTypes` needs two bounds that the types themselves do not carry: a worker's
round never exceeds the rounds of its message (`RoundInv`), and every time that is
stored lies at most one window or lease ahead (`TimesInv`), which a tick only
shortens.

Only model-checked: `Settles` and `Completes`, which are about fairness; the
refinement `ImplementsHistory`, which carries the theorems about checkpoints over to
the tables; and `OpenAcquisitionSpared`.

## 5. Findings

`carplay_adapter.py:45-47` and `CARPLAY_VEHICLE_AUTHORITY.md:31-32` promise that
an old acquisition's RETURN never closes a session that a newer acquisition
joined. The guard looks for the newer TAKE only on a session that is open in the
table. The run `stale_return` shows the order that escapes it: u1 connects with
one acquisition at 2 and with a newer one at 3; at 4 u2's phone, whose clock is ahead within
the allowed skew, reports a TAKE of the car at 5, which ends u1's row in the table
by a handover at 5; still at 4 the late RETURN of the
first acquisition arrives. No open session is
anchored to its TAKE, the guard passes, and the full replay applies the RETURN
before the TAKE at 5: the session that the newer acquisition had joined
now ends at 4, by the old one's RETURN.

`OpenAcquisitionSpared` is the part of the promise that the code keeps, and the
`shortcut` run and its mutant show the guard is needed for it.

`reconcile` asks for "the complete accepted suffix" (`vehicle_reconciliation.py:186`).
`_load_replay` leaves out of it the RETURNs of sessions that ended by the boundary
(`vehicle_admission.py:142`), and `test_vehicle_admission.py:285` calls such a RETURN
a no-op. It ends nothing, but it has a place in the order. The run `frozen_return`
shows it: at one instant u1 takes v1 and u2 takes it over, both through the
Shortcut, and the boundary passes the handover, which ended u1's session. At a later
instant u1's phone reports the RETURN of that session (id 5) and then a new TAKE of
v1 (id 3), and u2 connects to v1 again (id 4). With the RETURN, id 3 has to wait for
id 5, so that id 4 comes first, joins u2's session, and u1 drives in the end; without
it id 3 comes first and u2 takes the car back. A family therefore sees one or the
other depending on where its checkpoint was. The three events must carry the same
timestamp; either order respects the devices, and no evidence is lost. The four
events of `reconciliation` cannot show it, five do.

## 6. Plan

What is left, each with its MC module, properties and mutants:

1. `NativeOutbox`: the Android store and delivery worker composed with the
   receipts of admission (retry, gap and conflict answers become real there).
2. Creation of vehicles: idempotency keys and quotas; the admission window of the
   Shortcut's rate limit in `database.py`.
3. Change of family between two claims of one message.

Theorems to add: the refinement of `VehicleHistory`, with the uses that are frozen
or forgotten as the ones `ReplayTracks` leaves out, and `OpenAcquisitionSpared`.

### Not modelled

Token verification and key fetching are cryptography and HTTP. Push is sent best
effort, after the transaction, and no state depends on its arrival. The Android
companion and the web client are planned or presentation. Which of a geocoder's
results is precise enough, prompt construction, token accounting and the work of
model tools that only read are data. A family role is a label no rule reads. The
hour that is repeated when summer time ends has two instants with one wall-clock
time; reservations are compared by wall-clock time, and clock changes are not
in the model. The bootstrap and test tooling has no state another part depends
on. Serialization of a single row (a family's, a car's, the reservations'
advisory key) is assumed of PostgreSQL, as are its foreign keys.
