-------------------------- MODULE MCReconciliation --------------------------
(***************************************************************************)
(* Exhaustive check of the pure engine.  A state is a set of evidence that *)
(* admission can have accepted; a step accepts one more event, at any time *)
(* its device's chronology and its cause allow, so every arrival order     *)
(* that leads to the same set is covered by that one state.                *)
(***************************************************************************)
EXTENDS Integers, FiniteSets, Sequences, TLC, OccupancyHistory

CONSTANTS
  Users, Vehicles,
  Sources,      \* 0 is the Shortcut, d > 0 the device d
  MaxTime,      \* events occur at 1 .. MaxTime
  MaxEvents     \* largest evidence set

ASSUME Bounds == MaxTime \in Nat /\ MaxEvents \in Nat

VARIABLE E

Event(id, u, v, d, t, type, cause) ==
  [id |-> id, user |-> u, vehicle |-> v, type |-> type, time |-> t,
   source |-> IF d = NoDevice THEN "legacy_shortcut" ELSE "native",
   device |-> d,
   seq    |-> IF d = NoDevice THEN 0 ELSE 1 + Cardinality({e \in E : e.device = d}),
   cause  |-> cause]

InDeviceOrder(d, u, t) ==
  \A e \in E : d # NoDevice /\ e.device = d => e.user = u /\ e.time <= t

FreshIds == (1..MaxEvents) \ {e.id : e \in E}

Arrive ==
  \E id \in FreshIds, d \in Sources, t \in 1..MaxTime :
    \/ \E u \in Users, v \in Vehicles :
         /\ InDeviceOrder(d, u, t)
         /\ E' = E \union {Event(id, u, v, d, t, "take", NoEvent)}
    \/ \E c \in E :
         /\ c.type = "take" /\ c.time <= t
         /\ InDeviceOrder(d, c.user, t)
         /\ E' = E \union {Event(id, c.user, c.vehicle, d, t, "return", c.id)}

Spec == E = {} /\ [][Arrive]_E

Symmetry == Permutations(Users) \union Permutations(Vehicles)

----------------------------------------------------------------------------
Whole == Reconcile(EmptySeed(0), E)

(***************************************************************************)
(* Folding the evidence event by event (reconcile) yields exactly the      *)
(* declarative history: which TAKEs open a session, which RETURN, handover *)
(* or vehicle switch ends it, and which session every TAKE is an alias of. *)
(***************************************************************************)
EngineMatchesHistory ==
  LET whole == Whole
  IN  /\ whole.sound
      /\ {AsHistory(s) : s \in whole.sessions} = History(E)
      /\ \A e \in E : e.type = "take" => whole.anchors[e.id] = AnchorOf(E, e.id)

(***************************************************************************)
(* No vehicle has two drivers and no user two vehicles at one instant: the *)
(* projected sessions are pairwise disjoint as half-open intervals, which  *)
(* the vehicle_driver_sessions exclusion constraints also demand.          *)
(***************************************************************************)
Disjoint ==
  LET sessions == Whole.sessions
  IN  \A s, r \in sessions :
        s # r /\ (s.user = r.user \/ s.vehicle = r.vehicle) =>
          ~EndsAfter(s, r.start) \/ ~EndsAfter(r, s.start)

\* What a replay from a checkpoint at the boundary starts from and is given
\* (_load_replay): the RETURNs of sessions that are over by then are left out.
Checkpoint(boundary) ==
  LET before   == {e \in E : e.time <= boundary}
      after    == E \ before
      past     == Reconcile(EmptySeed(0), before)
      over     == {s \in past.sessions : ~Open(s)}
      external == {e \in after : e.type = "return" /\ e.cause \in DOMAIN past.anchors}
      settled  == {e \in external : \E s \in over : s.anchor = past.anchors[e.cause]}
  IN  [frozen  |-> over,
       settled |-> settled,
       suffix  |-> after \ settled,
       seed    |-> [boundary |-> boundary, sessions |-> past.sessions \ over,
                    anchors  |-> [c \in {e.cause : e \in external \ settled} |-> past.anchors[c]]]]

(***************************************************************************)
(* A checkpoint loses nothing but those RETURNs: replaying only the        *)
(* evidence after any boundary, from the sessions open across it and the   *)
(* anchors of the TAKEs that later RETURNs still name, ends in the same    *)
(* sessions as replaying everything else from the start, and the sessions  *)
(* ended by the boundary are the frozen rest.                              *)
(***************************************************************************)
CheckpointTransparent ==
  \A boundary \in 1..(MaxTime - 1) :
    LET c      == Checkpoint(boundary)
        future == Reconcile(c.seed, c.suffix)
    IN  /\ future.sound
        /\ {AsHistory(s) : s \in c.frozen \union future.sessions} = History(E \ c.settled)

\* Who drove what and when, whatever evidence says so.
Drives(sessions) ==
  {[AsHistory(s) EXCEPT !.anchor = NoEvent] : s \in sessions}

(***************************************************************************)
(* A RETURN of a session that was over at the boundary is a no-op, which   *)
(* makes the suffix without it complete (the docstring of reconcile asks   *)
(* for the complete one, and a test calls such a RETURN a no-op): the      *)
(* replay without it ends in the drives of the replay of everything.       *)
(***************************************************************************)
FrozenReturnIsNoop ==
  \A boundary \in 1..(MaxTime - 1) :
    LET c == Checkpoint(boundary)
    IN  Drives(c.frozen \union Reconcile(c.seed, c.suffix).sessions) = Drives(Whole.sessions)
=============================================================================
