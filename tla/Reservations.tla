---------------------------- MODULE Reservations ----------------------------
(***************************************************************************)
(* The reservations of one family (database.py, reservation_rules.py,      *)
(* reservation_service.py, and the tool mutations of chat_service.py)      *)
(* among the other transactions that lock what they lock: claims of chat   *)
(* requests, changes of the family, vehicles, and account deletion.        *)
(*                                                                         *)
(* A transaction takes its locks one by one, in the order the code         *)
(* requests them, and keeps them to its end.  What it reads and what it    *)
(* writes are two steps: only the locks keep others out in between.  A     *)
(* transaction that is refused, fails or dies releases its locks and has   *)
(* changed nothing.  Times are canonical Jerusalem wall-clock times.       *)
(***************************************************************************)
EXTENDS Integers, Sequences, FiniteSets

CONSTANTS
  Clients,       \* connections of the pool
  Users,         \* ids of the family's users, numbers
  Family,        \* id of the family, a number too
  Vehicles,      \* vehicles the family may ever have
  Reservations,  \* rows of reservations
  NoVehicle,     \* a vehicle_id that is NULL
  Nil,           \* no row, no value given
  MaxId,         \* the largest id, that of an int4 column
  LastTime       \* the last instant

ASSUME ReservationAssumption ==
  /\ MaxId \in Nat /\ Users \subseteq 0..MaxId /\ Family \in 0..MaxId /\ LastTime \in Nat
  /\ NoVehicle \notin Vehicles /\ Nil \notin Vehicles \union Reservations \union {NoVehicle}

VARIABLES
  booking,   \* active reservations, by row
  vehicle,   \* vehicles: "none", "active" or "retired"
  closed,    \* users behind a closed identity gate
  now,       \* local_now
  tx         \* tx[c]: what the transaction on connection c is doing

vars == <<booking, vehicle, closed, now, tx>>

----------------------------------------------------------------------------
(* Locks.                                                                  *)

Gate(u)    == <<"gate", u>>
Request(u) == <<"request", u>>
Row        == <<"families", Family>>
Founding   == <<"family creation", 0>>
Booking    == <<"reservations", Family>>

\* One namespace for the car of a family and for the chat of a user.
Car(key) == <<"car", key>>

\* cleanup: both keys, sorted and without duplicates.
Cars(u) ==
  IF u = Family THEN <<Car(u)>>
  ELSE IF u < Family THEN <<Car(u), Car(Family)>> ELSE <<Car(Family), Car(u)>>

ToolPlanRequestFirst(u) ==   \* mutant: the tool mutation locks its request first
  <<Gate(u), Request(u), Car(Family), Row, Booking>>

\* _execute_mutation
ToolPlan(u) == <<Gate(u), Car(Family), Row, Request(u), Booking>>

\* cleanup
ErasePlan(u) == <<Gate(u), Founding>> \o Cars(u) \o <<Row, Request(u), Booking>>

\* The locks of each transaction in the order it takes them.
Plan(op, u) ==
  CASE op = "form"    -> <<Gate(u), Car(Family), Row, Booking>>
    [] op = "tool"    -> ToolPlan(u)
    [] op = "claim"   -> <<Gate(u), Car(u), Request(u)>>
    [] op = "vehicle" -> <<Gate(u), Car(Family), Row>>
    [] op = "govern"  -> <<Gate(u), Founding, Row>>
    [] op = "erase"   -> ErasePlan(u)
    [] OTHER          -> <<>>

Operations == {"form", "tool", "claim", "vehicle", "govern", "erase"}

PlanOf(c) == Plan(tx[c].op, tx[c].user)

Locked(c) == tx[c].op # "idle" /\ tx[c].held = Len(PlanOf(c))

Holds(c, lock) == \E k \in 1..tx[c].held : PlanOf(c)[k] = lock

\* Only the identity gate is shared, by all but deletion.
Compatible(c, d, lock) == lock[1] = "gate" /\ "erase" \notin {tx[c].op, tx[d].op}

Grantable(c) ==
  LET next == PlanOf(c)[tx[c].held + 1]
  IN  \A d \in Clients \ {c} : Holds(d, next) => Compatible(c, d, next)

----------------------------------------------------------------------------
(* Rules.                                                                  *)

Free == [owner |-> Nil, from |-> 0, to |-> 0, vehicle |-> NoVehicle]

Taken == {r \in Reservations : booking[r] # Free}

Active == {v \in Vehicles : vehicle[v] = "active"}

IntervalAny(from, to) == TRUE   \* mutant: the end may lie before the start

\* interval
Interval(from, to) == from < to

\* validate_create
CreatableAt(from, to) == Interval(from, to) /\ from >= now

\* validate_target
Changeable(r) == booking[r].to > now

\* validate_update
MovableTo(r, from, to) ==
  /\ Changeable(r)
  /\ Interval(from, to)
  /\ to > now
  /\ from >= now \/ from = booking[r].from

\* The vehicle of a new reservation: ref is Nil when none is chosen.
ChosenForNew(ref) ==
  IF ref \notin {Nil, NoVehicle} THEN {ref} \intersect Active
  ELSE CASE Cardinality(Active) = 0 -> {NoVehicle}
         [] Cardinality(Active) = 1 -> Active
         [] OTHER -> {}

ChosenRetired(r, ref) ==   \* mutant: retirement only matters for new reservations
  CASE ref = Nil -> {booking[r].vehicle}
    [] ref = NoVehicle -> {NoVehicle}
    [] OTHER -> {v \in {ref} : vehicle[v] # "none"}

\* The vehicle of a changed one: it may keep a vehicle that has been retired.
Chosen(r, ref) ==
  CASE ref = Nil -> {booking[r].vehicle}
    [] ref = NoVehicle -> {NoVehicle}
    [] OTHER -> {v \in {ref} : vehicle[v] = "active" \/ (vehicle[v] = "retired" /\ booking[r].vehicle = v)}

SharesVehicleIfNamed(v, w) == v = w   \* mutant: a general reservation only clashes with its like

\* A reservation without a vehicle blocks them all.
SharesVehicle(v, w) == v = NoVehicle \/ w = NoVehicle \/ v = w

\* _get_conflicting_reservation
Conflict(excluded, from, to, v) ==
  \E q \in Taken \ {excluded} :
    /\ booking[q].from < to /\ booking[q].to > from
    /\ SharesVehicle(booking[q].vehicle, v)

----------------------------------------------------------------------------
Idle == [op |-> "idle", user |-> Nil, held |-> 0, row |-> Nil, value |-> Free]

Init ==
  /\ booking = [r \in Reservations |-> Free]
  /\ vehicle = [v \in Vehicles |-> "none"]
  /\ closed = {}
  /\ now = 0
  /\ tx = [c \in Clients |-> Idle]

Begin(c, op, u) ==
  /\ tx[c] = Idle
  /\ (u \in closed) = (op = "erase")
  /\ tx' = [tx EXCEPT ![c].op = op, ![c].user = u]
  /\ UNCHANGED <<booking, vehicle, closed, now>>

\* The first lock is the gate: who passes it has checked that it is open.
Lock(c) ==
  /\ tx[c].op # "idle" /\ ~Locked(c)
  /\ Grantable(c)
  /\ tx[c].held > 0 \/ tx[c].op = "erase" \/ tx[c].user \notin closed
  /\ tx' = [tx EXCEPT ![c].held = @ + 1]
  /\ UNCHANGED <<booking, vehicle, closed, now>>

\* A refusal, an error or a crash; also the end of what changes nothing here.
End(c) ==
  /\ tx[c].op # "idle"
  /\ tx' = [tx EXCEPT ![c] = Idle]
  /\ UNCHANGED <<booking, vehicle, closed, now>>

Deciding(c) == Locked(c) /\ tx[c].op \in {"form", "tool"} /\ tx[c].row = Nil

Decided(c, r, value) ==
  /\ tx' = [tx EXCEPT ![c].row = r, ![c].value = value]
  /\ UNCHANGED <<booking, vehicle, closed, now>>

\* _create_reservation_on_connection, up to the INSERT
DecideCreate(c, r, from, to, ref) ==
  /\ r \notin Taken
  /\ CreatableAt(from, to)
  /\ \E v \in ChosenForNew(ref) :
       /\ ~Conflict(r, from, to, v)
       /\ Decided(c, r, [owner |-> tx[c].user, from |-> from, to |-> to, vehicle |-> v])

\* _update_reservation_on_connection, up to the UPDATE
DecideUpdate(c, r, from, to, ref) ==
  /\ booking[r].owner = tx[c].user
  /\ MovableTo(r, from, to)
  /\ \E v \in Chosen(r, ref) :
       /\ ~Conflict(r, from, to, v)
       /\ Decided(c, r, [booking[r] EXCEPT !.from = from, !.to = to, !.vehicle = v])

\* _cancel_reservation_on_connection, up to the UPDATE
DecideCancel(c, r) ==
  /\ booking[r].owner = tx[c].user
  /\ Changeable(r)
  /\ Decided(c, r, Free)

Decide(c) ==
  \E r \in Reservations :
    \/ \E from, to \in 0..LastTime, ref \in Vehicles \union {Nil, NoVehicle} :
         DecideCreate(c, r, from, to, ref) \/ DecideUpdate(c, r, from, to, ref)
    \/ DecideCancel(c, r)

Write(c) ==
  /\ Locked(c) /\ tx[c].row # Nil
  /\ booking' = [booking EXCEPT ![tx[c].row] = tx[c].value]
  /\ tx' = [tx EXCEPT ![c] = Idle]
  /\ UNCHANGED <<vehicle, closed, now>>

\* create_vehicle and retire_vehicle; whether a vehicle is in use is VehicleAdmission's.
ChangeVehicle(c, v) ==
  /\ Locked(c) /\ tx[c].op = "vehicle"
  /\ vehicle[v] # "retired"
  /\ vehicle' = [vehicle EXCEPT ![v] = IF @ = "none" THEN "active" ELSE "retired"]
  /\ tx' = [tx EXCEPT ![c] = Idle]
  /\ UNCHANGED <<booking, closed, now>>

\* confirm, under the exclusive gate
CloseGate(u) ==
  /\ u \notin closed
  /\ \A c \in Clients : ~Holds(c, Gate(u))
  /\ closed' = closed \union {u}
  /\ UNCHANGED <<booking, vehicle, now, tx>>

\* cleanup: DELETE FROM reservations
Erase(c) ==
  /\ Locked(c) /\ tx[c].op = "erase"
  /\ booking' = [r \in Reservations |-> IF booking[r].owner = tx[c].user THEN Free ELSE booking[r]]
  /\ tx' = [tx EXCEPT ![c] = Idle]
  /\ UNCHANGED <<vehicle, closed, now>>

Tick ==
  /\ now < LastTime
  /\ now' = now + 1
  /\ UNCHANGED <<booking, vehicle, closed, tx>>

Transaction(c) ==
  \/ \E op \in Operations, u \in Users : Begin(c, op, u)
  \/ Lock(c)
  \/ End(c)
  \/ Deciding(c) /\ Decide(c)
  \/ Write(c)
  \/ \E v \in Vehicles : ChangeVehicle(c, v)
  \/ Erase(c)

Next ==
  \/ \E c \in Clients : Transaction(c)
  \/ \E u \in Users : CloseGate(u)
  \/ Tick

Spec == Init /\ [][Next]_vars

----------------------------------------------------------------------------
Value == [owner : Users, from : 0..LastTime, to : 0..LastTime, vehicle : Vehicles \union {NoVehicle}]

TypeOK ==
  /\ booking \in [Reservations -> {w \in Value : w.from < w.to} \union {Free}]
  /\ vehicle \in [Vehicles -> {"none", "active", "retired"}]
  /\ closed \subseteq Users
  /\ now \in 0..LastTime
  /\ tx \in [Clients -> [op : Operations \union {"idle"}, user : Users \union {Nil}, held : 0..7,
                         row : Reservations \union {Nil}, value : Value \union {Free}]]

\* No car is promised twice: of two reservations that overlap, both name a vehicle and
\* not the same one, whatever concurrent requests, changes of the fleet and later moves
\* to another time, another vehicle or to no vehicle in particular did.
NoDoubleBooking ==
  \A q, r \in Taken :
    (q # r /\ booking[q].from < booking[r].to /\ booking[r].from < booking[q].to) =>
      /\ NoVehicle \notin {booking[q].vehicle, booking[r].vehicle}
      /\ booking[q].vehicle # booking[r].vehicle

\* No reservation comes to a vehicle that is retired at that moment, even when the
\* retirement races with the request; one that has it already may be moved in time.
RetiredNotNewlyBooked ==
  [][\A r \in Reservations :
       (booking'[r].vehicle # booking[r].vehicle /\ booking'[r].vehicle # NoVehicle)
         => vehicle[booking'[r].vehicle] = "active"]_vars

\* Transactions never wait for each other in a circle: while some are waiting, one of
\* those under way holds all its locks or can be granted the next.
NobodyBlocked ==
  LET busy == {c \in Clients : tx[c].op # "idle"}
  IN  busy # {} => \E c \in busy : Locked(c) \/ Grantable(c)
=============================================================================
