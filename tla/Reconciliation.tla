--------------------------- MODULE Reconciliation ---------------------------
(***************************************************************************)
(* The pure projection engine of backend/vehicle_reconciliation.py: from   *)
(* the accepted TAKE / RETURN evidence of one family, and optionally the   *)
(* sessions carried over a checkpoint boundary, it computes who drove      *)
(* which vehicle and when.                                                 *)
(*                                                                         *)
(* An event is a record                                                    *)
(*   [id, user, vehicle, type, source, time, device, seq, cause]           *)
(* and a projected session a record                                        *)
(*   [user, vehicle, start, anchor, end, endEvent, reason].                *)
(* Ids are positive integers, ordered as the code orders UUIDs.  A session *)
(* is identified by `anchor`, the TAKE that opened it: the code's          *)
(* SessionKey("take", id), and for a carried session its start_event_id,   *)
(* which every row written by the engine has.  The code's NULL end is      *)
(* reason "open".                                                          *)
(***************************************************************************)
EXTENDS Integers, FiniteSets, Sequences, SequencesExt

NoEvent  == 0    \* NULL event reference
NoDevice == 0    \* NULL device of legacy_shortcut evidence

Open(s) == s.reason = "open"

\* Held past instant t: ended_at IS NULL or ended_at > t.
EndsAfter(s, t) == Open(s) \/ s.end > t

----------------------------------------------------------------------------
(* Order of replay: device sequences and cause -> RETURN are edges; among  *)
(* the events without a pending predecessor the heap yields the least      *)
(* (occurred_at, event_id).                                                *)

PrecedesBySequence(a, b) ==   \* mutant: a RETURN may replay before its TAKE
  a.source = "native" /\ b.source = "native" /\ a.device = b.device /\ a.seq < b.seq

Precedes(a, b) ==
  \/ a.source = "native" /\ b.source = "native" /\ a.device = b.device /\ a.seq < b.seq
  \/ b.type = "return" /\ b.cause = a.id

Earlier(a, b) == a.time < b.time \/ (a.time = b.time /\ a.id < b.id)

Ready(S) == {b \in S : \A a \in S : ~Precedes(a, b)}

First(S) == CHOOSE a \in S : \A b \in S \ {a} : Earlier(a, b)

Ordered(E) ==
  LET from[S \in SUBSET E] ==
        IF S = {} THEN <<>>
        ELSE LET a == First(Ready(S)) IN <<a>> \o from[S \ {a}]
  IN  from[E]

\* What _ordered requires of its input, beyond types and distinct ids.
Orderable(E, boundary, aliasIds) ==
  /\ \A e \in E : e.time > boundary /\ e.id \notin aliasIds
  /\ \A a, b \in E :
       /\ a # b => a.id # b.id
       /\ Precedes(a, b) => a.time <= b.time
       /\ a.device = b.device /\ a.device # NoDevice => a.user = b.user
       /\ a # b /\ a.device = b.device /\ a.device # NoDevice => a.seq # b.seq
       /\ b.type = "return" /\ b.cause = a.id =>
            a.type = "take" /\ a.user = b.user /\ a.vehicle = b.vehicle
  /\ \A S \in (SUBSET E) \ {{}} : Ready(S) # {}

----------------------------------------------------------------------------
(* One event applied to the running projection                             *)
(*   p = [sessions |-> ..., anchors |-> [TAKE id -> anchor], sound |-> ...]*)
(* `sound` turns FALSE where the code raises ReconciliationError.          *)

EndReasonByOccupancy(s, e, returned) ==   \* mutant: a RETURN ends what its driver holds now
  IF e.type = "return" THEN IF s.user = e.user THEN "return" ELSE "open"
  ELSE IF s.user = e.user       THEN "vehicle_switch"
  ELSE IF s.vehicle = e.vehicle THEN "handover"
  ELSE "open"

EndReasonNoHandover(s, e, returned) ==   \* mutant: the previous driver is not displaced
  IF e.type = "return" THEN IF s.anchor = returned THEN "return" ELSE "open"
  ELSE IF s.user = e.user THEN "vehicle_switch" ELSE "open"

\* A session's holder returns it, moves to another vehicle, or loses it.
EndReason(s, e, returned) ==
  IF e.type = "return" THEN IF s.anchor = returned THEN "return" ELSE "open"
  ELSE IF s.user = e.user       THEN "vehicle_switch"
  ELSE IF s.vehicle = e.vehicle THEN "handover"
  ELSE "open"

Close(s, e, reason) == [s EXCEPT !.end = e.time, !.endEvent = e.id, !.reason = reason]

\* Close every open session that e ends.
CloseFor(sessions, e, returned) ==
  {LET reason == EndReason(s, e, returned)
   IN  IF Open(s) /\ reason # "open" THEN Close(s, e, reason) ELSE s : s \in sessions}

Opened(e) ==
  [user |-> e.user, vehicle |-> e.vehicle, start |-> e.time, anchor |-> e.id,
   end |-> e.time, endEvent |-> NoEvent, reason |-> "open"]

Associate(anchors, take, anchor) ==
  [t \in DOMAIN anchors \union {take} |-> IF t = take THEN anchor ELSE anchors[t]]

TakeEvent(p, e) ==
  LET same == {s \in p.sessions : Open(s) /\ s.user = e.user /\ s.vehicle = e.vehicle}
  IN  IF same # {}
      THEN [p EXCEPT !.anchors = Associate(@, e.id, (CHOOSE s \in same : TRUE).anchor)]
      ELSE [sessions |-> CloseFor(p.sessions, e, NoEvent) \union {Opened(e)},
            anchors  |-> Associate(p.anchors, e.id, e.id),
            sound    |-> /\ p.sound
                         /\ \A s \in p.sessions :
                              Open(s) /\ EndReason(s, e, NoEvent) # "open" => s.start <= e.time]

ReturnEvent(p, e) ==
  IF e.cause \notin DOMAIN p.anchors THEN [p EXCEPT !.sound = FALSE]   \* missing_take
  ELSE LET anchor == p.anchors[e.cause]
       IN  [p EXCEPT !.sessions = CloseFor(@, e, anchor),
                     !.sound    = @ /\ \A s \in p.sessions : s.anchor = anchor =>
                                         /\ s.user = e.user /\ s.vehicle = e.vehicle
                                         /\ Open(s) => s.start <= e.time]

Apply(p, e) == IF e.type = "take" THEN TakeEvent(p, e) ELSE ReturnEvent(p, e)

----------------------------------------------------------------------------
(* A checkpoint seed: boundary, the sessions open across it, and the       *)
(* anchors of the earlier TAKEs that later RETURNs may still name.         *)

EmptySeed(boundary) == [boundary |-> boundary, sessions |-> {}, anchors |-> <<>>]

Reopened(s) == [s EXCEPT !.end = s.start, !.endEvent = NoEvent, !.reason = "open"]

SoundSeedStrict(seed) ==   \* mutant: a session may not start exactly at the boundary
  /\ \A s \in seed.sessions : s.start < seed.boundary
  /\ \A s, r \in seed.sessions : s # r => s.user # r.user /\ s.vehicle # r.vehicle
  /\ \A t \in DOMAIN seed.anchors : \E s \in seed.sessions : s.anchor = seed.anchors[t]

SoundSeed(seed) ==
  /\ \A s \in seed.sessions : s.start <= seed.boundary
  /\ \A s, r \in seed.sessions : s # r => s.user # r.user /\ s.vehicle # r.vehicle
  /\ \A t \in DOMAIN seed.anchors : \E s \in seed.sessions : s.anchor = seed.anchors[t]

Reconcile(seed, E) ==
  LET carried == {Reopened(s) : s \in seed.sessions}
      own     == {s.anchor : s \in carried}
      start   == [sessions |-> carried,
                  anchors  |-> [t \in own \union DOMAIN seed.anchors |->
                                  IF t \in own THEN t ELSE seed.anchors[t]],
                  sound    |-> TRUE]
  IN  IF SoundSeed(seed) /\ Orderable(E, seed.boundary, DOMAIN start.anchors)
      THEN FoldLeft(Apply, start, Ordered(E))
      ELSE [start EXCEPT !.sound = FALSE]
=============================================================================
