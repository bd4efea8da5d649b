-------------------------- MODULE VehicleAdmission --------------------------
(***************************************************************************)
(* Evidence admission for one family: backend/vehicle_admission.py and     *)
(* vehicle_work.py over the tables vehicle_events (receipts),              *)
(* vehicle_driver_sessions (sessions), registered_devices, vehicles and    *)
(* families.  Every operation holds the family's advisory lock and row, so *)
(* each is one atomic step; what interleaves is the ORDER of operations:   *)
(* late evidence, checkpoints, retirement, revocation and erasure.         *)
(*                                                                         *)
(* Answers that change nothing (retry, gap, conflict, unavailable,         *)
(* future_clock_skew) are stuttering steps and need no action.             *)
(***************************************************************************)
EXTENDS Integers, FiniteSets, Reconciliation

CONSTANTS
  Users,              \* the family's members
  Vehicles,           \* its vehicles
  Devices,            \* registered native devices, positive integers
  Owner,              \* Owner[d] is the user of device d
  EventIds,           \* event UUIDs, positive integers
  NativeIds,          \* those that native clients generate
  Window,             \* CORRECTION_HOURS
  Skew,               \* the future_clock_skew allowance (5 minutes)
  LastInstant,        \* BOUND: the clock stops here
  MaxReplayEvents,    \* WorkLimits.events
  MaxCheckpointRows   \* WorkLimits.checkpoint

ASSUME DeviceAssumption ==
  /\ Devices \subseteq Nat \ {NoDevice}
  /\ Owner \in [Devices -> Users]

ASSUME IdAssumption == EventIds \subseteq Nat \ {NoEvent} /\ NativeIds \subseteq EventIds

ASSUME PolicyAssumption ==
  /\ Window \in Nat \ {0} /\ Skew \in Nat /\ LastInstant \in Nat
  /\ MaxReplayEvents \in Nat \ {0} /\ MaxCheckpointRows \in Nat

VARIABLES
  now,          \* clock_timestamp()
  boundary,     \* families.vehicle_finalized_through
  generation,   \* families.vehicle_reconciliation_generation
  receipts,     \* vehicle_events: [event, outcome, anchor]
  sessions,     \* vehicle_driver_sessions
  lastSeq,      \* registered_devices.last_processed_sequence
  revoked,      \* devices with revoked_at
  retired,      \* vehicles with retired_at
  members,      \* users rows of the family
  erased,       \* history: accepted events of deleted members
  raised        \* history: an admission has raised ReconciliationError

vars == <<now, boundary, generation, receipts, sessions, lastSeq, revoked,
          retired, members, erased, raised>>

----------------------------------------------------------------------------
(* Types.  A NULL boundary is the instant before every possible target,    *)
(* and a NULL checkpoint_generation is NoGeneration.                       *)

NeverFinalized == -1 - Window
NoGeneration   == -1

Event ==
  [id : EventIds, user : Users, vehicle : Vehicles, type : {"take", "return"},
   source : {"native", "legacy_shortcut"}, time : Int, device : Devices \union {NoDevice},
   seq : Nat, cause : Nat]

Outcome ==
  {"accepted", "before_finalized_boundary", "invalid_chronology", "vehicle_retired",
   "causal_conflict", "reconciliation_policy_exceeded"}

Session ==
  [ref : Nat, user : Users, vehicle : Vehicles, start : Int, anchor : EventIds, end : Int,
   endEvent : EventIds \union {NoEvent}, reason : {"open", "return", "handover", "vehicle_switch"},
   gen : Nat \union {NoGeneration}]

Init ==
  /\ now = Window
  /\ boundary = NeverFinalized
  /\ generation = 0
  /\ receipts = {}
  /\ sessions = {}
  /\ lastSeq = [d \in Devices |-> 0]
  /\ revoked = {}
  /\ retired = {}
  /\ members = Users
  /\ erased = {}
  /\ raised = FALSE

----------------------------------------------------------------------------
(* Reading the tables.                                                     *)

AcceptedReceipts == {r \in receipts : r.outcome = "accepted"}
Accepted         == {r.event : r \in AcceptedReceipts}

\* The accepted TAKE a RETURN names: same driver, same car, not later.
CauseReceipts(e) ==
  {r \in AcceptedReceipts :
     /\ r.event.id = e.cause /\ r.event.type = "take"
     /\ r.event.user = e.user /\ r.event.vehicle = e.vehicle
     /\ r.event.time <= e.time}

\* The session row a TAKE's receipt is anchored to.
AnchoredRows(rows, r) ==
  {s \in rows : s.anchor = r.anchor /\ s.user = r.event.user /\ s.vehicle = r.event.vehicle}

CauseRows(rows, e) == UNION {AnchoredRows(rows, r) : r \in CauseReceipts(e)}

The(S) == CHOOSE x \in S : TRUE

----------------------------------------------------------------------------
(* rolling_checkpoint: finalize through t and mark the sessions held       *)
(* across it with the new generation.  Nothing moves when t is not ahead.  *)

CheckpointRowsStrict(t) ==   \* mutant: a session that starts exactly at t is missed
  {s \in sessions : s.gen = generation \/ (boundary < s.start /\ s.start < t)}

CheckpointRowsForgotten(t) ==   \* mutant: seeds of the previous checkpoint are not carried on
  {s \in sessions : boundary < s.start /\ s.start <= t}

CheckpointRows(t) ==
  {s \in sessions : s.gen = generation \/ (boundary < s.start /\ s.start <= t)}

RolledTo(t) ==
  IF t <= boundary
  THEN [within |-> TRUE, boundary |-> boundary, generation |-> generation, rows |-> sessions]
  ELSE [within     |-> Cardinality(CheckpointRows(t)) <= MaxCheckpointRows,
        boundary   |-> t,
        generation |-> generation + 1,
        rows       |-> {IF s \in CheckpointRows(t) /\ s.start <= t /\ EndsAfter(s, t)
                        THEN [s EXCEPT !.gen = generation + 1] ELSE s : s \in sessions}]

\* No admission may use a boundary younger than the correction window.
Target == IF boundary < now - Window THEN now - Window ELSE boundary

----------------------------------------------------------------------------
(* Two ways to project an accepted event e, both through Reconcile.  Each  *)
(* returns the rows it may rewrite, the projection, and the anchor of a    *)
(* RETURN that changes no session (NoEvent otherwise).                     *)

Projected(s) ==
  [user |-> s.user, vehicle |-> s.vehicle, start |-> s.start, anchor |-> s.anchor,
   end |-> s.end, endEvent |-> s.endEvent, reason |-> s.reason]

Unprojected(anchor) ==
  [mutable |-> {}, projection |-> [sessions |-> {}, anchors |-> <<>>, sound |-> TRUE],
   events |-> {}, frozenAnchor |-> anchor]

\* _incremental: e is later than all accepted evidence.
Incremental(checkpoint, e) ==
  LET causeRow == The(CauseRows(checkpoint.rows, e))
      active   == IF e.type = "return" THEN {causeRow}
                  ELSE {s \in checkpoint.rows :
                          Open(s) /\ (s.user = e.user \/ s.vehicle = e.vehicle)}
      latest   == {a.time : a \in Accepted}
      seed     == [boundary |-> IF latest = {} THEN e.time - 1
                                ELSE CHOOSE t \in latest : \A u \in latest : u <= t,
                   sessions |-> {Projected(s) : s \in active},
                   anchors  |-> IF e.type = "return" THEN [c \in {e.cause} |-> causeRow.anchor]
                                ELSE <<>>]
  IN  IF e.type = "return" /\ CauseRows(checkpoint.rows, e) = {}
      THEN [Unprojected(NoEvent) EXCEPT !.projection.sound = FALSE]
      ELSE IF e.type = "return" /\ ~Open(causeRow) THEN Unprojected(causeRow.anchor)
      ELSE [mutable |-> active, projection |-> Reconcile(seed, {e}), events |-> {e},
            frozenAnchor |-> NoEvent]

\* _load_replay and reconcile: all accepted evidence after the boundary.
SuffixFromEvent(checkpoint, e) ==   \* mutant: only the evidence from the event on is replayed
  {a \in Accepted : a.time > checkpoint.boundary /\ a.time >= e.time} \union {e}

Suffix(checkpoint, e) == {a \in Accepted : a.time > checkpoint.boundary} \union {e}

FullReplay(checkpoint, e) ==
  LET loaded   == Suffix(checkpoint, e)
      seeds    == {s \in checkpoint.rows : s.gen = checkpoint.generation}
      mutable  == seeds \union {s \in checkpoint.rows : s.start > checkpoint.boundary}
      ids      == {a.id : a \in loaded}
      external == {a \in loaded : a.type = "return" /\ a.cause \notin ids}
      row(a)   == The(CauseRows(checkpoint.rows, a))
      frozen   == {a \in external : ~EndsAfter(row(a), checkpoint.boundary)}
      aliased  == external \ frozen
      seed     == [boundary |-> checkpoint.boundary,
                   sessions |-> {Projected(s) : s \in seeds},
                   anchors  |-> [c \in {a.cause : a \in aliased} |->
                                   row(The({a \in aliased : a.cause = c})).anchor]]
      sound    == /\ \A s \in seeds : s.start <= checkpoint.boundary /\ EndsAfter(s, checkpoint.boundary)
                  /\ \A a \in external :
                       /\ CauseRows(checkpoint.rows, a) # {}
                       /\ \A r \in CauseReceipts(a) : r.event.time <= checkpoint.boundary
                  /\ \A a \in aliased : row(a) \in seeds
      projection == Reconcile(seed, loaded \ frozen)
  IN  IF ~sound THEN [Unprojected(NoEvent) EXCEPT !.projection.sound = FALSE]
      ELSE [mutable |-> mutable, projection |-> projection, events |-> loaded \ frozen,
            frozenAnchor |-> IF e \in frozen THEN row(e).anchor ELSE NoEvent]

\* Strictly later than everything accepted.
IsLatest(e) == \A a \in Accepted : e.time > a.time

Projection(checkpoint, e) ==
  IF IsLatest(e) THEN Incremental(checkpoint, e) ELSE FullReplay(checkpoint, e)

----------------------------------------------------------------------------
(* _plan_materialization: a projected session keeps the row, and so the    *)
(* public session_ref, with its own anchor, or else the earliest row whose *)
(* opening TAKE is now an alias of it.                                     *)

Retained(work, s) ==
  LET own    == {m \in work.mutable : m.anchor = s.anchor}
      merged == {m \in work.mutable : /\ m.anchor \in DOMAIN work.projection.anchors
                                      /\ work.projection.anchors[m.anchor] = s.anchor}
  IN  IF own # {} THEN own
      ELSE {m \in merged : \A n \in merged \ {m} : m.start < n.start \/ (m.start = n.start /\ m.ref < n.ref)}

\* What _plan_materialization insists on before it writes.
Materializable(work, incremental) ==
  /\ \A s, r \in work.projection.sessions : s # r => Retained(work, s) \intersect Retained(work, r) = {}
  /\ incremental => work.mutable \subseteq UNION {Retained(work, s) : s \in work.projection.sessions}

\* New rows take the smallest references no row has.
FreshRef(taken, k) ==
  CHOOSE n \in 1..(Cardinality(taken) + k) :
    n \notin taken /\ Cardinality((1..n) \ taken) = k

UntouchedDropsEnded(checkpoint, work) ==   \* mutant: the replay also deletes frozen sessions
  {s \in checkpoint.rows \ work.mutable : EndsAfter(s, checkpoint.boundary)}

Untouched(checkpoint, work) == checkpoint.rows \ work.mutable

Materialized(checkpoint, work, incremental) ==
  LET desired == work.projection.sessions
      new     == {s \in desired : Retained(work, s) = {}}
      taken   == {r.ref : r \in checkpoint.rows}
      rank(s) == Cardinality({n \in new : n.anchor <= s.anchor})
      gen(s)  == IF Retained(work, s) = {} THEN NoGeneration
                 ELSE IF incremental THEN The(Retained(work, s)).gen
                 ELSE IF s.start <= checkpoint.boundary THEN checkpoint.generation
                 ELSE NoGeneration
      ref(s)  == IF s \in new THEN FreshRef(taken, rank(s)) ELSE The(Retained(work, s)).ref
      row(s)  == [ref |-> ref(s), user |-> s.user, vehicle |-> s.vehicle, start |-> s.start,
                  anchor |-> s.anchor, end |-> s.end, endEvent |-> s.endEvent,
                  reason |-> s.reason, gen |-> gen(s)]
  IN  Untouched(checkpoint, work) \union {row(s) : s \in desired}

AnchorOnce(work, r) ==   \* mutant: earlier TAKEs are not associated anew
  IF r.event \notin work.events \/ r.anchor # NoEvent THEN r.anchor
  ELSE work.projection.anchors[IF r.event.type = "take" THEN r.event.id ELSE r.event.cause]

\* The anchor every replayed event is now stored with.
AnchorAfter(work, r) ==
  IF r.event \notin work.events THEN r.anchor
  ELSE work.projection.anchors[IF r.event.type = "take" THEN r.event.id ELSE r.event.cause]

----------------------------------------------------------------------------
(* Admission of evidence that is new: no receipt has its id, and for       *)
(* native evidence its sequence number is the device's next.               *)

LastAcceptedOf(d) ==
  {a \in Accepted : a.device = d /\ \A b \in Accepted : b.device = d => b.seq <= a.seq}

EligibilityUnlisted(e) ==   \* mutant: an outcome the table's CHECK does not list
  IF e.time <= Target THEN "finalized"
  ELSE IF e.type = "return" /\ CauseReceipts(e) = {} THEN "causal_conflict"
  ELSE "accepted"

EligibilityUnbounded(e) ==   \* mutant: no comparison with the target
  IF e.source = "native" /\ \E a \in LastAcceptedOf(e.device) : e.time < a.time THEN "invalid_chronology"
  ELSE IF e.type = "take" /\ e.vehicle \in retired THEN "vehicle_retired"
  ELSE IF e.type = "return" /\ CauseReceipts(e) = {} THEN "causal_conflict"
  ELSE "accepted"

Eligibility(e) ==
  IF e.time <= Target THEN "before_finalized_boundary"
  ELSE IF e.source = "native" /\ \E a \in LastAcceptedOf(e.device) : e.time < a.time THEN "invalid_chronology"
  ELSE IF e.type = "take" /\ e.vehicle \in retired THEN "vehicle_retired"
  ELSE IF e.type = "return" /\ CauseReceipts(e) = {} THEN "causal_conflict"
  ELSE "accepted"

WithinPolicy(checkpoint, e) ==
  /\ checkpoint.within
  /\ ~IsLatest(e) => Cardinality(Suffix(checkpoint, e)) <= MaxReplayEvents

ReopensNothing(work) == FALSE   \* mutant: the projection is not checked

\* An open session of the projection on a retired vehicle.
ReopensRetired(work) == \E s \in work.projection.sessions : Open(s) /\ s.vehicle \in retired

\* What the transaction would write: outcome and rows, or `sound` FALSE.
AdmissionPlan(e) ==
  LET checkpoint == RolledTo(Target)
      work       == Projection(checkpoint, e)
      sound      == work.projection.sound /\ Materializable(work, IsLatest(e))
      refusal(o) == [outcome |-> o, sound |-> TRUE, checkpoint |-> RolledTo(boundary),
                     work |-> Unprojected(NoEvent)]
  IN  IF Eligibility(e) # "accepted" THEN refusal(Eligibility(e))
      ELSE IF ~WithinPolicy(checkpoint, e) THEN refusal("reconciliation_policy_exceeded")
      ELSE IF sound /\ ReopensRetired(work) THEN refusal("vehicle_retired")
      ELSE [outcome |-> "accepted", sound |-> sound, checkpoint |-> checkpoint, work |-> work]

NewReceipt(e, plan) ==
  [event |-> e, outcome |-> plan.outcome,
   anchor |-> IF e \in plan.work.events THEN AnchorAfter(plan.work, [event |-> e, anchor |-> NoEvent])
              ELSE plan.work.frozenAnchor]

ConsumedIfAccepted(e, outcome) ==   \* mutant: a refusal does not consume the sequence number
  [d \in Devices |-> IF d = e.device /\ outcome = "accepted" THEN e.seq ELSE lastSeq[d]]

\* Refused or not, the sequence number is used up.
Consumed(e, outcome) == [d \in Devices |-> IF d = e.device THEN e.seq ELSE lastSeq[d]]

\* The body of _admit after its early returns.  A raised error rolls back.
Record(e) ==
  \E plan \in {AdmissionPlan(e)} :
    /\ raised' = (raised \/ ~plan.sound)
    /\ IF plan.sound
       THEN /\ boundary' = plan.checkpoint.boundary
            /\ generation' = plan.checkpoint.generation
            /\ sessions' = Materialized(plan.checkpoint, plan.work, IsLatest(e))
            /\ receipts' = {[r EXCEPT !.anchor = AnchorAfter(plan.work, r)] : r \in receipts}
                             \union {NewReceipt(e, plan)}
            /\ lastSeq' = Consumed(e, plan.outcome)
       ELSE UNCHANGED <<boundary, generation, sessions, receipts, lastSeq>>

\* Clients generate UUIDs: an id is not reused even after its row is erased.
FreshId(id) == (\A r \in receipts : r.event.id # id) /\ (\A a \in erased : a.id # id)

\* The instants worth enumerating: one that is already too old, up to one
\* that is just within the skew allowance.
Instants == (now - Window)..(now + Skew)

AdmitNative(d) ==
  /\ d \notin revoked /\ Owner[d] \in members
  /\ \E id \in NativeIds, v \in Vehicles, t \in Instants :
       /\ FreshId(id)
       /\ \E type \in {"take", "return"}, cause \in (EventIds \union {NoEvent}) \ {id} :
            /\ type = "take" <=> cause = NoEvent
            /\ Record([id |-> id, user |-> Owner[d], vehicle |-> v, type |-> type,
                       source |-> "native", time |-> t, device |-> d,
                       seq |-> lastSeq[d] + 1, cause |-> cause])
  /\ UNCHANGED <<now, revoked, retired, members, erased>>

----------------------------------------------------------------------------
(* maintain_native_checkpoint: as far towards the target as a complete     *)
(* boundary fits the row limit, never splitting a group of equal starts.   *)

MaintenanceBoundaries(t) ==
  {u \in (boundary + 1)..t : Cardinality(CheckpointRows(u)) <= MaxCheckpointRows}

MaintainCheckpoint ==
  /\ members # {}
  /\ \E u \in MaintenanceBoundaries(Target) :
       /\ \A w \in MaintenanceBoundaries(Target) : w <= u
       /\ boundary' = u
       /\ generation' = RolledTo(u).generation
       /\ sessions' = RolledTo(u).rows
  /\ UNCHANGED <<now, receipts, lastSeq, revoked, retired, members, erased, raised>>

\* retire_vehicle: refused while the vehicle is in use.
RetireVehicle(v) ==
  /\ members # {}
  /\ v \notin retired
  /\ \A s \in sessions : s.vehicle = v => ~Open(s)
  /\ retired' = retired \union {v}
  /\ UNCHANGED <<now, boundary, generation, receipts, sessions, lastSeq, revoked, members, erased, raised>>

\* revoke_device: ends neither occupancy nor evidence.
RevokeDevice(d) ==
  /\ Owner[d] \in members
  /\ d \notin revoked
  /\ revoked' = revoked \union {d}
  /\ UNCHANGED <<now, boundary, generation, receipts, sessions, lastSeq, retired, members, erased, raised>>

KeptUnmarked(s, gone) ==   \* mutant: survivors' open sessions are not carried
  [s EXCEPT !.endEvent = IF @ \in gone THEN NoEvent ELSE @]

\* A survivor's session when the events with ids in `gone` are deleted.
Kept(s, gone) ==
  [s EXCEPT !.gen      = IF Open(s) THEN generation + 1 ELSE @,
            !.endEvent = IF @ \in gone THEN NoEvent ELSE @]

CursorsReset(u) == [d \in Devices |-> 0]   \* mutant: the family's devices start anew

\* The devices of u are deleted; the others keep their place.
Cursors(u) == [d \in Devices |-> IF Owner[d] = u THEN 0 ELSE lastSeq[d]]

(***************************************************************************)
(* _checkpoint_vehicle_identity, inside the deletion transaction of user   *)
(* u: finalize everything, carry only the survivors' open sessions, delete *)
(* u's rows.  References of survivors to u's events become NULL.  With the *)
(* last member the family row goes and every other operation is disabled.  *)
(***************************************************************************)
EraseMember(u) ==
  LET instants == {boundary, now} \union {a.time : a \in Accepted}
      gone     == {r.event.id : r \in {q \in receipts : q.event.user = u}}
  IN  /\ u \in members
      /\ members' = members \ {u}
      /\ boundary' = CHOOSE t \in instants : \A i \in instants : i <= t
      /\ generation' = generation + 1
      /\ sessions' = {Kept(s, gone) : s \in {r \in sessions : r.user # u}}
      /\ receipts' = {r \in receipts : r.event.user # u}
      /\ lastSeq' = Cursors(u)
      /\ erased' = erased \union {a \in Accepted : a.user = u}
      /\ UNCHANGED <<now, revoked, retired, raised>>

Tick ==
  /\ now < LastInstant
  /\ now' = now + 1
  /\ UNCHANGED <<boundary, generation, receipts, sessions, lastSeq, revoked, retired, members, erased, raised>>

Next ==
  \/ \E d \in Devices : AdmitNative(d) \/ RevokeDevice(d)
  \/ \E v \in Vehicles : RetireVehicle(v)
  \/ \E u \in Users : EraseMember(u)
  \/ MaintainCheckpoint
  \/ Tick

Spec == Init /\ [][Next]_vars

----------------------------------------------------------------------------
(* Properties.                                                             *)

\* What is received, judged and administered.
EvidenceTypeOK ==
  /\ now \in Nat /\ boundary \in Int /\ generation \in Nat
  /\ \A r \in receipts : /\ r = [event |-> r.event, outcome |-> r.outcome, anchor |-> r.anchor]
                          /\ r.event \in Event /\ r.outcome \in Outcome
  /\ lastSeq \in [Devices -> Nat]
  /\ revoked \subseteq Devices /\ retired \subseteq Vehicles /\ members \subseteq Users
  /\ erased \subseteq Event
  /\ raised \in BOOLEAN

\* What the engine writes.
ProjectionTypeOK ==
  /\ \A r \in receipts : r.anchor \in EventIds \union {NoEvent}
  /\ sessions \subseteq Session

\* The rows of the tables have the types the schema gives them.
TypeOK == EvidenceTypeOK /\ ProjectionTypeOK

(***************************************************************************)
(* No stored state makes the engine or the loader raise ReconciliationError*)
(* on eligible evidence: seeds are well formed, every anchor resolves,     *)
(* every cause is either replayed, frozen or carried.  A raise would roll  *)
(* back the receipt and leave the device retrying the event forever.       *)
(***************************************************************************)
NeverRaises == ~raised

(***************************************************************************)
(* Every accepted TAKE, however old and however often its session was      *)
(* re-projected, is anchored to exactly one stored session, of the same    *)
(* driver and car, already running at the TAKE (_cause relies on it).      *)
(***************************************************************************)
AnchorsResolve ==
  \A r \in AcceptedReceipts : r.event.type = "take" =>
    /\ Cardinality(AnchoredRows(sessions, r)) = 1
    /\ The(AnchoredRows(sessions, r)).start <= r.event.time

(***************************************************************************)
(* A retired vehicle is never left in use, not even when evidence that     *)
(* arrives after the retirement re-projects an earlier use of it.          *)
(***************************************************************************)
RetiredNotInUse == \A s \in sessions : Open(s) => s.vehicle \notin retired

(***************************************************************************)
(* The device log is complete: a device's receipts carry each sequence     *)
(* number 1 .. last_processed_sequence exactly once, refused evidence      *)
(* included, and no two receipts of the family share an event id.          *)
(***************************************************************************)
LogComplete ==
  /\ \A d \in Devices :
       {r.event.seq : r \in {q \in receipts : q.event.device = d}} = 1..lastSeq[d]
  /\ \A r, q \in receipts :
       \/ r.event.id = q.event.id
       \/ r.event.device # NoDevice /\ r.event.device = q.event.device /\ r.event.seq = q.event.seq
       => r = q

(***************************************************************************)
(* Accepted evidence is causally ordered: a RETURN follows an accepted     *)
(* TAKE of the same driver and car, and a device's evidence never goes     *)
(* back in time, whatever was refused in between.                          *)
(***************************************************************************)
CausallyOrdered ==
  /\ \A e \in Accepted : e.type = "return" => CauseReceipts(e) # {}
  /\ \A a, b \in Accepted :
       a.device # NoDevice /\ a.device = b.device /\ a.seq < b.seq => a.time <= b.time

(***************************************************************************)
(* Receipts are permanent: while their user is a member, no step changes   *)
(* what was received or how it was judged, and nothing is accepted at or   *)
(* before the finalized boundary.                                          *)
(***************************************************************************)
EvidencePermanent ==
  [][/\ \A r \in receipts : r.event.user \in members' =>
          \E q \in receipts' : q.event = r.event /\ q.outcome = r.outcome
     /\ \A q \in receipts' : q.event \in {r.event : r \in receipts} \/ q.outcome # "accepted"
                             \/ q.event.time > boundary'
     /\ boundary <= boundary' /\ generation <= generation']_vars

(***************************************************************************)
(* The finalized past is frozen: a session that ended by the boundary      *)
(* keeps its row, reference, times and reason for as long as its driver is *)
(* a member, whatever arrives later; and a session_ref a client has seen   *)
(* never comes to denote another driver or car.                            *)
(***************************************************************************)
PastFrozen ==
  [][\A s \in sessions : s.user \in members' =>
       /\ ~EndsAfter(s, boundary) =>
            \E r \in sessions' : [r EXCEPT !.endEvent = s.endEvent] = s
       /\ \A r \in sessions' : r.ref = s.ref => r.user = s.user /\ r.vehicle = s.vehicle]_vars

\* The visible history, in the terms of VehicleHistory.
Shown(s) ==
  [user |-> s.user, vehicle |-> s.vehicle, anchor |-> s.anchor, start |-> s.start,
   end |-> IF Open(s) THEN s.start ELSE s.end, reason |-> s.reason]

Abstract ==
  INSTANCE VehicleHistory WITH
    evidence  <- Accepted \union erased,
    finalized <- boundary,
    forgotten <- Users \ members,
    occupancy <- {Shown(s) : s \in sessions}

(***************************************************************************)
(* Checkpoints, carried seeds, anchors, the incremental path and the       *)
(* materialization together implement VehicleHistory: the stored sessions  *)
(* are always the declarative history of ALL evidence ever accepted.       *)
(***************************************************************************)
ImplementsHistory == Abstract!HistorySpec
=============================================================================
