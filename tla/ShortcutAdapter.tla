--------------------------- MODULE ShortcutAdapter ---------------------------
(***************************************************************************)
(* The CarPlay Shortcut edge: backend/carplay_adapter.py over the same     *)
(* admission.  An acquisition is one physical CarPlay cycle; its TAKE and  *)
(* its RETURN have operation ids derived from the user and the acquisition,*)
(* so a retried request names the receipt it already has and changes       *)
(* nothing (a stuttering step).  The vehicle comes from the user's binding *)
(* and the time from the server.                                           *)
(***************************************************************************)
EXTENDS VehicleAdmission

CONSTANTS
  Acquisitions,   \* acquisition UUIDs of a user
  OperationId,    \* operation_id: [Users \X Acquisitions \X {"take", "return"} -> EventIds]
  Unbound         \* no row in carplay_vehicle_bindings

Operations == Users \X Acquisitions \X {"take", "return"}

ASSUME OperationAssumption ==
  /\ OperationId \in [Operations -> EventIds \ NativeIds]
  /\ \A o, p \in Operations : OperationId[o] = OperationId[p] => o = p
  /\ Unbound \notin Vehicles

VARIABLE binding   \* carplay_vehicle_bindings: the vehicle of each user

shortcutVars == <<vars, binding>>

ShortcutInit == Init /\ binding = [u \in Users |-> Unbound]

----------------------------------------------------------------------------
\* bind_vehicle: the latest choice wins; a retired vehicle is refused.
Bind(u, v) ==
  /\ u \in members
  /\ v \notin retired
  /\ binding' = [binding EXCEPT ![u] = v]
  /\ UNCHANGED vars

Usable(u) == u \in members /\ binding[u] # Unbound /\ binding[u] \notin retired

ShortcutEvent(u, a, type) ==
  [id |-> OperationId[u, a, type], user |-> u, vehicle |-> binding[u], type |-> type,
   source |-> "legacy_shortcut", time |-> now, device |-> NoDevice, seq |-> 0,
   cause |-> IF type = "take" THEN NoEvent ELSE OperationId[u, a, "take"]]

SupersededNever(u, a) == FALSE   \* mutant: no comparison with newer acquisitions

\* A later Shortcut TAKE is an alias of the session that is open on this
\* acquisition's own TAKE.
Superseded(u, a) ==
  \E cause \in receipts : \E s \in sessions : \E newer \in AcceptedReceipts :
    /\ cause.event.id = OperationId[u, a, "take"] /\ cause.event.user = u
    /\ s.anchor = cause.anchor /\ Open(s)
    /\ newer.anchor = s.anchor /\ newer.event.source = "legacy_shortcut"
    /\ newer.event.type = "take"
    /\ Earlier(cause.event, newer.event)

Connect(u, a) ==
  /\ Usable(u)
  /\ FreshId(OperationId[u, a, "take"])
  /\ Record(ShortcutEvent(u, a, "take"))
  /\ UNCHANGED <<now, revoked, retired, members, erased, binding>>

Disconnect(u, a) ==
  /\ Usable(u)
  /\ FreshId(OperationId[u, a, "return"])
  /\ ~Superseded(u, a)
  /\ Record(ShortcutEvent(u, a, "return"))
  /\ UNCHANGED <<now, revoked, retired, members, erased, binding>>

\* Deleting the user cascades to the binding.
EraseBoundMember(u) ==
  /\ EraseMember(u)
  /\ binding' = [binding EXCEPT ![u] = Unbound]

Elsewhere ==
  \/ \E d \in Devices : AdmitNative(d) \/ RevokeDevice(d)
  \/ \E v \in Vehicles : RetireVehicle(v)
  \/ MaintainCheckpoint
  \/ Tick

ShortcutNext ==
  \/ \E u \in Users : EraseBoundMember(u) \/ \E v \in Vehicles : Bind(u, v)
  \/ \E u \in Users, a \in Acquisitions : Connect(u, a) \/ Disconnect(u, a)
  \/ Elsewhere /\ UNCHANGED binding

ShortcutSpec == ShortcutInit /\ [][ShortcutNext]_shortcutVars

----------------------------------------------------------------------------
ShortcutTake(r) ==
  r.event.source = "legacy_shortcut" /\ r.event.type = "take" /\ r.outcome = "accepted"

\* r is the receipt of a Shortcut RETURN, and the session s holds a Shortcut
\* TAKE strictly newer than r's own and strictly older than r.
HoldsNewer(s, r) ==
  \E cause \in CauseReceipts(r.event) : \E newer \in receipts :
    /\ ShortcutTake(newer) /\ newer.anchor = s.anchor
    /\ cause.event.time < newer.event.time /\ newer.event.time < r.event.time

EndedByShortcut(s, r) ==
  r.event.source = "legacy_shortcut" /\ s.reason = "return" /\ s.endEvent = r.event.id

(***************************************************************************)
(* An old acquisition's late RETURN never takes the car away from a newer  *)
(* acquisition while the newer one's session is open in the table: a step  *)
(* that records such a RETURN leaves the session open.                     *)
(***************************************************************************)
OpenAcquisitionSpared ==
  [][\A s \in sessions : Open(s) =>
       \A t \in sessions' : t.anchor = s.anchor =>
         \A r \in receipts' \ receipts :
           EndedByShortcut(t, r) => ~HoldsNewer(s, r)]_shortcutVars

(***************************************************************************)
(* The same promise for the projection as a whole: no session that a newer *)
(* Shortcut acquisition is driving ends with an older acquisition's RETURN *)
(* (instants shared with other evidence set aside).  The adapter only      *)
(* looks at sessions that are open in the table.                           *)
(***************************************************************************)
NewerAcquisitionKept ==
  \A s \in sessions : \A r \in receipts :
    /\ EndedByShortcut(s, r)
    /\ \A q \in receipts \ {r} : q.event.time # r.event.time
    => ~HoldsNewer(s, r)
=============================================================================
