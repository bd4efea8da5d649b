------------------------- MODULE ReservationsProofs -------------------------
(***************************************************************************)
(* Theorems about Reservations: no double booking, no new booking of a     *)
(* retired vehicle, and no circle of waiting transactions, for any number  *)
(* of connections, users, vehicles, reservations and instants.             *)
(***************************************************************************)
EXTENDS Reservations, WellFoundedInduction, TLAPS

(***************************************************************************)
(* The invariant.  What a transaction has decided stays right until it     *)
(* writes, because nobody else gets past the family's row: that is what    *)
(* the exclusion of incompatible locks is needed for.                      *)
(***************************************************************************)
UnderWay ==
  \A c \in Clients :
    /\ tx[c].op = "idle" => tx[c] = Idle
    /\ tx[c].op # "idle" => tx[c].user \in Users
    /\ tx[c].held <= Len(PlanOf(c))
    /\ tx[c].row # Nil => Locked(c) /\ tx[c].op \in {"form", "tool"}

Exclusion ==
  \A c, d \in Clients : c # d =>
    \A lock : Holds(c, lock) /\ Holds(d, lock) => Compatible(c, d, lock)

\* The value is one that row r may get as things are.
Fits(r, value) ==
  /\ value \in {w \in Value : w.from < w.to} \union {Free}
  /\ value # Free => ~Conflict(r, value.from, value.to, value.vehicle)
  /\ value.vehicle \notin {booking[r].vehicle, NoVehicle} => vehicle[value.vehicle] = "active"

StillRight == \A c \in Clients : tx[c].row # Nil => Fits(tx[c].row, tx[c].value)

IInv == TypeOK /\ UnderWay /\ Exclusion /\ StillRight /\ NoDoubleBooking

----------------------------------------------------------------------------
(* Locks and their order.                                                  *)

\* The one order all plans follow.
Rank(lock) ==
  CASE lock[1] = "gate"            -> 0
    [] lock[1] = "family creation" -> 1
    [] lock[1] = "car"             -> 2 + lock[2]
    [] lock[1] = "families"        -> MaxId + 3
    [] lock[1] = "request"         -> MaxId + 4
    [] lock[1] = "reservations"    -> MaxId + 5

LEMMA Ranks ==
  ASSUME NEW u
  PROVE  /\ Rank(Gate(u)) = 0 /\ Rank(Founding) = 1 /\ Rank(Car(u)) = 2 + u
         /\ Rank(Row) = MaxId + 3 /\ Rank(Request(u)) = MaxId + 4 /\ Rank(Booking) = MaxId + 5
  BY DEF Rank, Gate, Founding, Car, Row, Request, Booking

Ordered(plan) ==
  /\ \A k \in 1..Len(plan) : Rank(plan[k]) \in 0..MaxId + 5
  /\ \A j, k \in 1..Len(plan) : j < k => Rank(plan[j]) < Rank(plan[k])

\* plan has the locks of list.
Lists(plan, list) == Len(plan) = Len(list) /\ \A k \in 1..Len(list) : plan[k] = list[k]

LEMMA ErasePlanUnfolded ==
  ASSUME NEW u \in Users
  PROVE  \/ Lists(ErasePlan(u), <<Gate(u), Founding, Car(u), Row, Request(u), Booking>>)
         \/ /\ u < Family
            /\ Lists(ErasePlan(u), <<Gate(u), Founding, Car(u), Car(Family), Row, Request(u), Booking>>)
         \/ /\ Family < u
            /\ Lists(ErasePlan(u), <<Gate(u), Founding, Car(Family), Car(u), Row, Request(u), Booking>>)
<1>1. u \in Int /\ Family \in Int
  BY ReservationAssumption
<1>2. CASE u = Family
  <2>1. Cars(u) = <<Car(u)>>
    BY <1>2, Zenon DEF Cars
  <2> QED
    BY <2>1 DEF ErasePlan, Lists
<1>3. CASE u < Family
  <2>1. Cars(u) = <<Car(u), Car(Family)>>
    BY <1>1, <1>3 DEF Cars
  <2> QED
    BY <2>1, <1>3 DEF ErasePlan, Lists
<1>4. CASE Family < u
  <2>1. Cars(u) = <<Car(Family), Car(u)>>
    BY <1>1, <1>4 DEF Cars
  <2> QED
    BY <2>1, <1>4 DEF ErasePlan, Lists
<1> QED
  BY <1>1, <1>2, <1>3, <1>4

LEMMA OrderedAlike ==
  ASSUME NEW plan, NEW list, Lists(plan, list), Len(list) \in Nat, Ordered(list)
  PROVE  Ordered(plan)
BY DEF Lists, Ordered

LEMMA PlanOrdered ==
  ASSUME NEW op \in Operations, NEW u \in Users
  PROVE  /\ Len(Plan(op, u)) \in 3..7
         /\ Ordered(Plan(op, u))
<1>1. u \in 0..MaxId /\ Family \in 0..MaxId /\ MaxId \in Nat
  BY ReservationAssumption
<1>2. CASE op = "form"
  <2>1. Plan(op, u) = <<Gate(u), Car(Family), Row, Booking>>
    BY <1>2, Zenon DEF Plan
  <2> QED
    BY <1>1, <2>1, Ranks DEF Ordered
<1>3. CASE op = "tool"
  <2>1. Plan(op, u) = <<Gate(u), Car(Family), Row, Request(u), Booking>>
    BY <1>3 DEF Plan, ToolPlan
  <2> QED
    BY <1>1, <2>1, Ranks DEF Ordered
<1>4. CASE op = "claim"
  <2>1. Plan(op, u) = <<Gate(u), Car(u), Request(u)>>
    BY <1>4 DEF Plan
  <2> QED
    BY <1>1, <2>1, Ranks DEF Ordered
<1>5. CASE op = "vehicle"
  <2>1. Plan(op, u) = <<Gate(u), Car(Family), Row>>
    BY <1>5 DEF Plan
  <2> QED
    BY <1>1, <2>1, Ranks DEF Ordered
<1>6. CASE op = "govern"
  <2>1. Plan(op, u) = <<Gate(u), Founding, Row>>
    BY <1>6 DEF Plan
  <2> QED
    BY <1>1, <2>1, Ranks DEF Ordered
<1>7. CASE op = "erase"
  <2>1. Plan(op, u) = ErasePlan(u)
    BY <1>7 DEF Plan
  <2>2. /\ Ordered(<<Gate(u), Founding, Car(u), Row, Request(u), Booking>>)
        /\ u < Family => Ordered(<<Gate(u), Founding, Car(u), Car(Family), Row, Request(u), Booking>>)
        /\ Family < u => Ordered(<<Gate(u), Founding, Car(Family), Car(u), Row, Request(u), Booking>>)
    BY <1>1, Ranks DEF Ordered
  <2>3. PICK list :
          /\ Lists(ErasePlan(u), list) /\ Ordered(list) /\ Len(list) \in 6..7
    BY <2>2, ErasePlanUnfolded
  <2>4. Len(ErasePlan(u)) \in 6..7 /\ Len(list) \in Nat
    BY <2>3 DEF Lists
  <2> QED
    BY <2>1, <2>3, <2>4, OrderedAlike
<1> QED
  BY <1>2, <1>3, <1>4, <1>5, <1>6, <1>7 DEF Operations

LEMMA RowTaken ==
  ASSUME NEW op \in {"form", "tool", "vehicle", "erase"}, NEW u \in Users
  PROVE  \E k \in 1..Len(Plan(op, u)) : Plan(op, u)[k] = Row
<1>2. CASE op = "form"
  <2>1. Plan(op, u) = <<Gate(u), Car(Family), Row, Booking>>
    BY <1>2, Zenon DEF Plan
  <2> QED
    BY <2>1
<1>3. CASE op = "tool"
  <2>1. Plan(op, u) = <<Gate(u), Car(Family), Row, Request(u), Booking>>
    BY <1>3 DEF Plan, ToolPlan
  <2> QED
    BY <2>1
<1>5. CASE op = "vehicle"
  <2>1. Plan(op, u) = <<Gate(u), Car(Family), Row>>
    BY <1>5 DEF Plan
  <2> QED
    BY <2>1
<1>7. CASE op = "erase"
  <2>1. Plan(op, u) = ErasePlan(u)
    BY <1>7 DEF Plan
  <2>2. \/ Len(ErasePlan(u)) = 6 /\ ErasePlan(u)[4] = Row
        \/ Len(ErasePlan(u)) = 7 /\ ErasePlan(u)[5] = Row
    <3>1. ASSUME NEW plan, NEW a, Lists(plan, <<Gate(u), Founding, a, Row, Request(u), Booking>>)
          PROVE  Len(plan) = 6 /\ plan[4] = Row
      BY <3>1 DEF Lists
    <3>2. ASSUME NEW plan, NEW a, NEW b, Lists(plan, <<Gate(u), Founding, a, b, Row, Request(u), Booking>>)
          PROVE  Len(plan) = 7 /\ plan[5] = Row
      BY <3>2 DEF Lists
    <3> QED
      BY <3>1, <3>2, ErasePlanUnfolded, Zenon
  <2> QED
    BY <2>1, <2>2
<1> QED
  BY <1>2, <1>3, <1>5, <1>7

----------------------------------------------------------------------------
(* Nobody else is at work while one holds the row of the family.           *)

LEMMA RowHeld ==
  ASSUME UnderWay, NEW c \in Clients, Locked(c), tx[c].op \in {"form", "tool", "vehicle", "erase"}
  PROVE  Holds(c, Row)
<1>1. tx[c].user \in Users /\ tx[c].held = Len(PlanOf(c))
  BY DEF UnderWay, Locked
<1> QED
  BY <1>1, RowTaken DEF Holds, PlanOf

LEMMA Alone ==
  ASSUME UnderWay, Exclusion, NEW c \in Clients, NEW d \in Clients, c # d,
         Locked(c), tx[c].op \in {"form", "tool", "vehicle", "erase"},
         Locked(d), tx[d].op \in {"form", "tool", "vehicle", "erase"}
  PROVE  FALSE
<1>1. Holds(c, Row) /\ Holds(d, Row)
  BY RowHeld
<1>2. Compatible(c, d, Row)
  BY <1>1 DEF Exclusion
<1>3. Row[1] = "families"
  BY DEF Row
<1> QED
  BY <1>2, <1>3 DEF Compatible
----------------------------------------------------------------------------
(* Types and locks, transaction by transaction.                            *)

Tx == [op : Operations \union {"idle"}, user : Users \union {Nil}, held : 0..7,
       row : Reservations \union {Nil}, value : Value \union {Free}]

LEMMA IdleTyped == Idle \in Tx
BY DEF Idle, Tx

\* What is to show for one transaction when the others stay as they are.
LEMMA OthersStay ==
  ASSUME tx \in [Clients -> Tx], UnderWay, Exclusion, NEW c \in Clients,
         tx' \in [Clients -> Tx],
         \A d \in Clients : d # c => tx'[d] = tx[d],
         tx'[c].op = "idle" => tx'[c] = Idle,
         tx'[c].op # "idle" => tx'[c].user \in Users,
         tx'[c].held <= Len(PlanOf(c)'),
         tx'[c].row # Nil => (Locked(c)' /\ tx'[c].op \in {"form", "tool"}),
         \A d \in Clients : \A lock : (c # d /\ Holds(c, lock)' /\ Holds(d, lock)) => Compatible(c, d, lock)'
  PROVE  UnderWay' /\ Exclusion'
<1>1. UnderWay'
  <2> SUFFICES ASSUME NEW d \in Clients
               PROVE  /\ tx'[d].op = "idle" => tx'[d] = Idle
                      /\ tx'[d].op # "idle" => tx'[d].user \in Users
                      /\ tx'[d].held <= Len(PlanOf(d)')
                      /\ tx'[d].row # Nil => Locked(d)' /\ tx'[d].op \in {"form", "tool"}
    BY DEF UnderWay
  <2>1. CASE d = c
    BY <2>1
  <2>2. CASE d # c
    BY <2>2 DEF UnderWay, PlanOf, Locked
  <2> QED
    BY <2>1, <2>2
<1>2. Exclusion'
  <2> SUFFICES ASSUME NEW d \in Clients, NEW e \in Clients, d # e, NEW lock,
                      Holds(d, lock)', Holds(e, lock)'
               PROVE  Compatible(d, e, lock)'
    BY DEF Exclusion
  <2>1. \A f \in Clients : f # c => (Holds(f, lock)' = Holds(f, lock))
    BY DEF Holds, PlanOf
  <2>2. CASE d = c
    <3>1. Holds(e, lock)
      BY <2>1, <2>2
    <3> QED
      BY <2>2, <3>1
  <2>3. CASE e = c
    <3>1. Compatible(c, d, lock)'
      BY <2>1, <2>3
    <3> QED
      BY <2>3, <3>1 DEF Compatible
  <2>4. CASE d # c /\ e # c
    <3>1. Compatible(d, e, lock)
      BY <2>1, <2>4, Zenon DEF Exclusion
    <3> QED
      BY <2>4, <3>1 DEF Compatible
  <2> QED
    BY <2>2, <2>3, <2>4
<1> QED
  BY <1>1, <1>2

LEMMA PlanLength ==
  ASSUME NEW op, NEW u
  PROVE  (op \in Operations /\ u \in Users) => Len(Plan(op, u)) \in 3..7
BY PlanOrdered

LEMMA Releases ==
  ASSUME tx \in [Clients -> Tx], UnderWay, Exclusion, NEW c \in Clients, tx' = [tx EXCEPT ![c] = Idle]
  PROVE  /\ tx' \in [Clients -> Tx] /\ UnderWay' /\ Exclusion'
         /\ \A d \in Clients : tx'[d].row # Nil => d # c /\ tx'[d] = tx[d]
<1>1. tx' \in [Clients -> Tx] /\ tx'[c] = Idle /\ \A d \in Clients : d # c => tx'[d] = tx[d]
  BY IdleTyped
<1>2. PlanOf(c)' = <<>>
  BY <1>1, Zenon DEF PlanOf, Plan, Idle
<1>3. Idle.held = 0 /\ Idle.row = Nil /\ Idle.op = "idle"
  BY DEF Idle
<1>4. \A lock : ~Holds(c, lock)'
  BY <1>1, <1>3 DEF Holds
<1>5. UnderWay' /\ Exclusion'
  BY <1>1, <1>2, <1>3, <1>4, OthersStay
<1> QED
  BY <1>1, <1>3, <1>5

LEMMA BeginKeeps ==
  ASSUME tx \in [Clients -> Tx], UnderWay, Exclusion, NEW c \in Clients,
         NEW op \in Operations, NEW u \in Users, Begin(c, op, u)
  PROVE  /\ tx' \in [Clients -> Tx] /\ UnderWay' /\ Exclusion'
         /\ \A d \in Clients : tx'[d].row # Nil => tx'[d] = tx[d]
<1>1. tx[c] = Idle /\ Idle.held = 0 /\ Idle.row = Nil /\ Idle \in Tx
  BY IdleTyped DEF Begin, Idle
<1>2. PICK w : w = [[tx[c] EXCEPT !.op = op] EXCEPT !.user = u]
  OBVIOUS
<1>3. w \in Tx /\ w.op = op /\ w.user = u /\ w.held = 0 /\ w.row = Nil
  BY <1>1, <1>2 DEF Tx
<1>4. tx' = [tx EXCEPT ![c] = w]
  BY <1>2 DEF Begin
<1>5. tx' \in [Clients -> Tx] /\ tx'[c] = w /\ \A d \in Clients : d # c => tx'[d] = tx[d]
  BY <1>3, <1>4
<1>6. \A lock : ~Holds(c, lock)'
  BY <1>3, <1>5 DEF Holds
<1>7. Len(PlanOf(c)') \in 3..7
  BY <1>3, <1>5, PlanLength DEF PlanOf
<1>8. op # "idle"
  BY DEF Operations
<1>9. UnderWay' /\ Exclusion'
  BY <1>3, <1>5, <1>6, <1>7, <1>8, OthersStay
<1> QED
  BY <1>3, <1>5, <1>9

LEMMA Successor ==
  ASSUME NEW h \in 0..7, NEW n \in 3..7, h < n
  PROVE  h + 1 \in 0..7
OBVIOUS

LEMMA LockKeeps ==
  ASSUME tx \in [Clients -> Tx], UnderWay, Exclusion, NEW c \in Clients, Lock(c)
  PROVE  /\ tx' \in [Clients -> Tx] /\ UnderWay' /\ Exclusion'
         /\ \A d \in Clients : tx'[d].row # Nil => tx'[d] = tx[d]
<1>1. /\ tx[c].op \in Operations /\ tx[c].user \in Users /\ tx[c].row = Nil
      /\ tx[c].held < Len(PlanOf(c)) /\ Len(PlanOf(c)) \in 3..7 /\ tx[c].held \in 0..7
  <2>1. tx[c] \in Tx /\ tx[c].op # "idle" /\ ~Locked(c)
    BY DEF Lock
  <2>2. tx[c].op \in Operations /\ tx[c].user \in Users /\ tx[c].row = Nil /\ tx[c].held \in 0..7
    BY <2>1 DEF Tx, UnderWay
  <2>3. Len(PlanOf(c)) \in 3..7
    BY <2>2, PlanLength DEF PlanOf
  <2> QED
    BY <2>1, <2>2, <2>3 DEF UnderWay, Locked
<1>2. PICK w : w = [tx[c] EXCEPT !.held = @ + 1]
  OBVIOUS
<1>3. /\ w \in Tx /\ w.op = tx[c].op /\ w.user = tx[c].user
      /\ w.held = tx[c].held + 1 /\ w.row = Nil
  <2>1. tx[c].held + 1 \in 0..7
    BY <1>1, Successor, Zenon
  <2>2. PICK h : h = tx[c].held + 1
    OBVIOUS
  <2>3. w = [tx[c] EXCEPT !.held = h]
    BY <1>2, <2>2
  <2> QED
    BY <1>1, <2>1, <2>2, <2>3 DEF Tx
<1>4. tx' = [tx EXCEPT ![c] = w]
  BY <1>2 DEF Lock
<1>5. tx' \in [Clients -> Tx] /\ tx'[c] = w /\ \A d \in Clients : d # c => tx'[d] = tx[d]
  BY <1>3, <1>4
<1>6. PlanOf(c)' = PlanOf(c)
  BY <1>3, <1>5 DEF PlanOf
<1>7. \A lock : Holds(c, lock)' => Holds(c, lock) \/ lock = PlanOf(c)[tx[c].held + 1]
  <2> SUFFICES ASSUME NEW lock, NEW k \in 1..(tx[c].held + 1), PlanOf(c)[k] = lock
               PROVE  Holds(c, lock) \/ lock = PlanOf(c)[tx[c].held + 1]
    BY <1>3, <1>5, <1>6 DEF Holds
  <2> QED
    BY <1>1 DEF Holds
<1>8. \A d \in Clients : \A lock : (c # d /\ Holds(c, lock)' /\ Holds(d, lock)) => Compatible(c, d, lock)'
  <2> SUFFICES ASSUME NEW d \in Clients, NEW lock, c # d, Holds(c, lock)', Holds(d, lock)
               PROVE  Compatible(c, d, lock)'
    OBVIOUS
  <2>1. CASE Holds(c, lock)
    <3>1. Compatible(c, d, lock)
      BY <2>1, Zenon DEF Exclusion
    <3> QED
      BY <1>3, <1>5, <3>1 DEF Compatible
  <2>2. CASE lock = PlanOf(c)[tx[c].held + 1]
    <3>1. Compatible(c, d, lock)
      BY <2>2, Zenon DEF Lock, Grantable
    <3> QED
      BY <1>3, <1>5, <3>1 DEF Compatible
  <2> QED
    BY <1>7, <2>1, <2>2
<1>9. tx[c].op # "idle"
  BY DEF Lock
<1>10. UnderWay' /\ Exclusion'
  <2>1. tx'[c].op # "idle" /\ tx'[c].user \in Users /\ tx'[c].row = Nil
    BY <1>1, <1>3, <1>5, <1>9
  <2>2. tx'[c].held <= Len(PlanOf(c)')
    BY <1>1, <1>3, <1>5, <1>6
  <2> QED
    BY <1>5, <1>8, <2>1, <2>2, OthersStay
<1> QED
  BY <1>3, <1>5, <1>10

LEMMA DecidedKeeps ==
  ASSUME tx \in [Clients -> Tx], UnderWay, Exclusion, NEW c \in Clients, Deciding(c),
         NEW r \in Reservations, NEW value \in Value \union {Free}, Decided(c, r, value)
  PROVE  /\ tx' \in [Clients -> Tx] /\ UnderWay' /\ Exclusion'
         /\ tx'[c].row = r /\ tx'[c].value = value
         /\ \A d \in Clients : d # c => tx'[d] = tx[d]
<1>1. tx[c] \in Tx /\ Locked(c) /\ tx[c].op \in {"form", "tool"}
  BY DEF Deciding
<1>2. PICK w : w = [[tx[c] EXCEPT !.row = r] EXCEPT !.value = value]
  OBVIOUS
<1>3. /\ w \in Tx /\ w.op = tx[c].op /\ w.user = tx[c].user
      /\ w.held = tx[c].held /\ w.row = r /\ w.value = value
  BY <1>1, <1>2 DEF Tx
<1>4. tx' = [tx EXCEPT ![c] = w]
  BY <1>2 DEF Decided
<1>5. tx' \in [Clients -> Tx] /\ tx'[c] = w /\ \A d \in Clients : d # c => tx'[d] = tx[d]
  BY <1>3, <1>4
<1>6. PlanOf(c)' = PlanOf(c) /\ (Locked(c)' = Locked(c)) /\ \A lock : Holds(c, lock)' = Holds(c, lock)
  BY <1>3, <1>5 DEF PlanOf, Locked, Holds
<1>7. \A d \in Clients : \A lock : (c # d /\ Holds(c, lock)' /\ Holds(d, lock)) => Compatible(c, d, lock)'
  <2> SUFFICES ASSUME NEW d \in Clients, NEW lock, c # d, Holds(c, lock), Holds(d, lock)
               PROVE  Compatible(c, d, lock)'
    BY <1>6
  <2>1. Compatible(c, d, lock)
    BY Zenon DEF Exclusion
  <2> QED
    BY <1>3, <1>5, <2>1 DEF Compatible
<1>8. w.op # "idle" /\ w.user \in Users /\ w.held <= Len(PlanOf(c))
  BY <1>1, <1>3 DEF UnderWay
<1>9. UnderWay' /\ Exclusion'
  <2>1. tx'[c].op # "idle" /\ tx'[c].user \in Users /\ tx'[c].held <= Len(PlanOf(c)')
    BY <1>3, <1>5, <1>6, <1>8
  <2>2. Locked(c)' /\ tx'[c].op \in {"form", "tool"}
    BY <1>1, <1>3, <1>5, <1>6
  <2> QED
    BY <1>5, <1>7, <2>1, <2>2, OthersStay
<1> QED
  BY <1>3, <1>5, <1>9

----------------------------------------------------------------------------
(* Decisions.                                                              *)

LEMMA TypesOfTx == TypeOK => tx \in [Clients -> Tx]
BY DEF TypeOK, Tx

LEMMA NewVehicle ==
  ASSUME NEW ref \in Vehicles \union {Nil, NoVehicle}, NEW v \in ChosenForNew(ref)
  PROVE  v = NoVehicle \/ (v \in Vehicles /\ vehicle[v] = "active")
<1>1. CASE ref \notin {Nil, NoVehicle}
  BY <1>1, Zenon DEF ChosenForNew, Active
<1>2. CASE ref \in {Nil, NoVehicle}
  <2>1. \/ v \in {NoVehicle}
        \/ v \in Active
        \/ v \in {}
    <3> DEFINE n == Cardinality(Active)
    <3>1. ChosenForNew(ref) = CASE n = 0 -> {NoVehicle} [] n = 1 -> Active [] OTHER -> {}
      BY <1>2, Zenon DEF ChosenForNew
    <3> HIDE DEF n
    <3>2. CASE n = 0
      <4>1. n # 1
        BY <3>2
      <4> QED
        BY <3>1, <3>2, <4>1, Zenon
    <3>3. CASE n = 1
      <4>1. n # 0
        BY <3>3
      <4> QED
        BY <3>1, <3>3, <4>1, Zenon
    <3>4. CASE n # 0 /\ n # 1
      BY <3>1, <3>4, Zenon
    <3> QED
      BY <3>2, <3>3, <3>4
  <2> QED
    BY <2>1 DEF Active
<1> QED
  BY <1>1, <1>2

LEMMA OtherVehicle ==
  ASSUME NEW r \in Reservations, NEW ref \in Vehicles \union {Nil, NoVehicle}, NEW v \in Chosen(r, ref)
  PROVE  v \in {booking[r].vehicle, NoVehicle} \/ (v \in Vehicles /\ vehicle[v] = "active")
<1>1. Nil # NoVehicle
  BY ReservationAssumption
<1>2. CASE ref = Nil
  BY <1>1, <1>2, Zenon DEF Chosen
<1>3. CASE ref = NoVehicle
  BY <1>1, <1>3, Zenon DEF Chosen
<1>4. CASE ref \notin {Nil, NoVehicle}
  BY <1>4, Zenon DEF Chosen
<1> QED
  BY <1>2, <1>3, <1>4

LEMMA DecisionFits ==
  ASSUME TypeOK, UnderWay, NEW c \in Clients, Deciding(c), Decide(c)
  PROVE  \E r \in Reservations, value \in Value \union {Free} : Fits(r, value) /\ Decided(c, r, value)
<1>1. PICK r \in Reservations :
        \/ \E from, to \in 0..LastTime, ref \in Vehicles \union {Nil, NoVehicle} :
             DecideCreate(c, r, from, to, ref) \/ DecideUpdate(c, r, from, to, ref)
        \/ DecideCancel(c, r)
  BY Zenon DEF Decide
<1>2. Free.vehicle = NoVehicle /\ Free.to = 0 /\ now \in Nat
  BY ReservationAssumption DEF Free, TypeOK
<1>3. booking[r] \in Value \union {Free}
  BY DEF TypeOK
<1>4. CASE DecideCancel(c, r)
  BY <1>2, <1>4 DEF DecideCancel, Fits
<1>5. ASSUME NEW from \in 0..LastTime, NEW to \in 0..LastTime,
             NEW ref \in Vehicles \union {Nil, NoVehicle}, DecideCreate(c, r, from, to, ref)
      PROVE  \E value \in Value \union {Free} : Fits(r, value) /\ Decided(c, r, value)
  <2>1. PICK v \in ChosenForNew(ref) :
          /\ ~Conflict(r, from, to, v)
          /\ Decided(c, r, [owner |-> tx[c].user, from |-> from, to |-> to, vehicle |-> v])
    BY <1>5, Zenon DEF DecideCreate
  <2>2. PICK w : w = [owner |-> tx[c].user, from |-> from, to |-> to, vehicle |-> v]
    OBVIOUS
  <2>3. v = NoVehicle \/ (v \in Vehicles /\ vehicle[v] = "active")
    BY NewVehicle
  <2>4. tx[c].user \in Users
    BY DEF UnderWay, Deciding
  <2>5. w \in Value /\ w.from = from /\ w.to = to /\ w.vehicle = v
    BY <2>2, <2>3, <2>4 DEF Value
  <2>6. from < to
    BY <1>5 DEF DecideCreate, CreatableAt, Interval
  <2>7. Fits(r, w)
    BY <2>1, <2>3, <2>5, <2>6 DEF Fits
  <2> QED
    BY <2>1, <2>2, <2>5, <2>7
<1>6. ASSUME NEW from \in 0..LastTime, NEW to \in 0..LastTime,
             NEW ref \in Vehicles \union {Nil, NoVehicle}, DecideUpdate(c, r, from, to, ref)
      PROVE  \E value \in Value \union {Free} : Fits(r, value) /\ Decided(c, r, value)
  <2>1. PICK v \in Chosen(r, ref) :
          /\ ~Conflict(r, from, to, v)
          /\ Decided(c, r, [booking[r] EXCEPT !.from = from, !.to = to, !.vehicle = v])
    BY <1>6, Zenon DEF DecideUpdate
  <2>2. PICK w : w = [booking[r] EXCEPT !.from = from, !.to = to, !.vehicle = v]
    OBVIOUS
  <2>3. booking[r].to > now /\ from < to
    BY <1>6 DEF DecideUpdate, MovableTo, Changeable, Interval
  <2>4. booking[r] \in Value
    BY <1>2, <1>3, <2>3
  <2>5. v \in {booking[r].vehicle, NoVehicle} \/ (v \in Vehicles /\ vehicle[v] = "active")
    BY OtherVehicle
  <2>6. w \in Value /\ w.from = from /\ w.to = to /\ w.vehicle = v
    BY <2>2, <2>4, <2>5 DEF Value
  <2>7. Fits(r, w)
    BY <2>1, <2>3, <2>5, <2>6 DEF Fits
  <2> QED
    BY <2>1, <2>2, <2>6, <2>7
<1> QED
  BY <1>1, <1>4, <1>5, <1>6, Zenon

----------------------------------------------------------------------------
(* The invariant.                                                          *)

BookingValue == {w \in Value : w.from < w.to} \union {Free}

LEMMA Types ==
  TypeOK <=> /\ booking \in [Reservations -> BookingValue]
             /\ vehicle \in [Vehicles -> {"none", "active", "retired"}]
             /\ closed \subseteq Users
             /\ now \in 0..LastTime
             /\ tx \in [Clients -> Tx]
BY DEF TypeOK, Tx, BookingValue

\* Where nothing is booked or retired, what was decided stays right.
LEMMA Undisturbed ==
  ASSUME IInv, booking' = booking, vehicle' = vehicle, closed' \subseteq Users, now' \in 0..LastTime,
         tx' \in [Clients -> Tx], UnderWay', Exclusion',
         \A d \in Clients : tx'[d].row # Nil =>
            \/ tx'[d] = tx[d]
            \/ Fits(tx'[d].row, tx'[d].value)
  PROVE  IInv'
<1>1. TypeOK'
  BY Types, Zenon DEF IInv, TypeOK, Tx
<1>2. \A r, value : Fits(r, value)' = Fits(r, value)
  BY DEF Fits, Conflict, Taken
<1>3. StillRight'
  BY <1>2 DEF IInv, StillRight
<1>4. NoDoubleBooking'
  BY DEF IInv, NoDoubleBooking, Taken
<1> QED
  BY <1>1, <1>3, <1>4 DEF IInv

\* When one that holds the family's row ends, nothing decided is left.
LEMMA NothingDecided ==
  ASSUME IInv, NEW c \in Clients, Locked(c), tx[c].op \in {"form", "tool", "vehicle", "erase"},
         tx' = [tx EXCEPT ![c] = Idle]
  PROVE  tx' \in [Clients -> Tx] /\ UnderWay' /\ Exclusion' /\ StillRight'
<1>1. tx \in [Clients -> Tx] /\ UnderWay /\ Exclusion
  BY TypesOfTx DEF IInv
<1>2. /\ tx' \in [Clients -> Tx] /\ UnderWay' /\ Exclusion'
      /\ \A d \in Clients : tx'[d].row # Nil => d # c /\ tx'[d] = tx[d]
  BY <1>1, Releases
<1>3. ASSUME NEW d \in Clients, tx'[d].row # Nil PROVE FALSE
  <2>1. d # c /\ tx[d].row # Nil
    BY <1>2, <1>3
  <2>2. Locked(d) /\ tx[d].op \in {"form", "tool"}
    BY <1>1, <2>1 DEF UnderWay
  <2> QED
    BY <1>1, <2>1, <2>2, Alone
<1>4. StillRight'
  BY <1>3 DEF StillRight
<1> QED
  BY <1>2, <1>4

LEMMA WriteKeeps ==
  ASSUME IInv, NEW c \in Clients, Write(c)
  PROVE  IInv'
<1> DEFINE r == tx[c].row
           value == tx[c].value
<1>1. tx[c] \in Tx /\ r \in Reservations /\ Locked(c) /\ tx[c].op \in {"form", "tool"}
  BY TypesOfTx DEF IInv, Write, UnderWay, Tx
<1>2. Fits(r, value)
  BY DEF IInv, StillRight, Write
<1>3. booking' = [booking EXCEPT ![r] = value] /\ booking \in [Reservations -> BookingValue]
  BY Types DEF Write, IInv
<1>4. value \in BookingValue
  BY <1>2 DEF Fits, BookingValue
<1>5. tx' \in [Clients -> Tx] /\ UnderWay' /\ Exclusion' /\ StillRight'
  BY <1>1, NothingDecided DEF Write
<1>6. TypeOK'
  BY <1>3, <1>4, <1>5, Types DEF Write, IInv, TypeOK, Tx, BookingValue
<1> HIDE DEF r, value
<1>7. NoDoubleBooking'
  <2> SUFFICES ASSUME NEW p \in Taken', NEW q \in Taken', p # q,
                      booking'[p].from < booking'[q].to, booking'[q].from < booking'[p].to
               PROVE  /\ NoVehicle \notin {booking'[p].vehicle, booking'[q].vehicle}
                      /\ booking'[p].vehicle # booking'[q].vehicle
    BY DEF NoDoubleBooking
  <2>1. \A o \in Reservations : o # r => booking'[o] = booking[o]
    BY <1>3
  <2>2. booking'[r] = value
    BY <1>1, <1>3
  <2>3. p \in Reservations /\ q \in Reservations
    BY DEF Taken
  <2>4. \A o \in Taken' : o # r => o \in Taken
    BY <2>1 DEF Taken
  <2>5. r \in Taken' => value # Free
    BY <2>2 DEF Taken
  <2>6. CASE p # r /\ q # r
    BY <2>1, <2>3, <2>4, <2>6 DEF IInv, NoDoubleBooking
  <2>7. CASE p = r
    <3>1. q \in Taken \ {r} /\ booking'[q] = booking[q] /\ ~Conflict(r, value.from, value.to, value.vehicle)
      BY <1>2, <2>1, <2>3, <2>4, <2>5, <2>7 DEF Fits
    <3>2. ~SharesVehicle(booking[q].vehicle, value.vehicle)
      BY <2>2, <2>7, <3>1 DEF Conflict
    <3> QED
      BY <2>2, <2>7, <3>1, <3>2 DEF SharesVehicle
  <2>8. CASE q = r
    <3>1. p \in Taken \ {r} /\ booking'[p] = booking[p] /\ ~Conflict(r, value.from, value.to, value.vehicle)
      BY <1>2, <2>1, <2>3, <2>4, <2>5, <2>8 DEF Fits
    <3>2. ~SharesVehicle(booking[p].vehicle, value.vehicle)
      BY <2>2, <2>8, <3>1 DEF Conflict
    <3> QED
      BY <2>2, <2>8, <3>1, <3>2 DEF SharesVehicle
  <2> QED
    BY <2>6, <2>7, <2>8
<1> QED
  BY <1>5, <1>6, <1>7 DEF IInv

LEMMA EraseKeeps ==
  ASSUME IInv, NEW c \in Clients, Erase(c)
  PROVE  IInv'
<1>1. tx' \in [Clients -> Tx] /\ UnderWay' /\ Exclusion' /\ StillRight'
  BY NothingDecided DEF Erase
<1>2. /\ booking' = [r \in Reservations |-> IF booking[r].owner = tx[c].user THEN Free ELSE booking[r]]
      /\ booking \in [Reservations -> BookingValue] /\ Free \in BookingValue
  BY Types DEF Erase, IInv, BookingValue
<1>3. \A r \in Taken' : r \in Taken /\ booking'[r] = booking[r]
  BY <1>2 DEF Taken
<1>4. NoDoubleBooking'
  BY <1>3 DEF IInv, NoDoubleBooking
<1>5. booking' \in [Reservations -> BookingValue]
  BY <1>2
<1>6. TypeOK'
  BY <1>1, <1>5, Types DEF Erase, IInv, TypeOK, Tx, BookingValue
<1> QED
  BY <1>1, <1>4, <1>6 DEF IInv

LEMMA ChangeVehicleKeeps ==
  ASSUME IInv, NEW c \in Clients, NEW v \in Vehicles, ChangeVehicle(c, v)
  PROVE  IInv'
<1>1. tx' \in [Clients -> Tx] /\ UnderWay' /\ Exclusion' /\ StillRight'
  BY NothingDecided DEF ChangeVehicle
<1>2. vehicle' \in [Vehicles -> {"none", "active", "retired"}]
  BY Types DEF ChangeVehicle, IInv
<1>3. NoDoubleBooking'
  BY DEF IInv, NoDoubleBooking, Taken, ChangeVehicle
<1>4. TypeOK'
  BY <1>1, <1>2, Types DEF ChangeVehicle, IInv, TypeOK, Tx, BookingValue
<1> QED
  BY <1>1, <1>3, <1>4 DEF IInv

LEMMA TransactionKeeps ==
  ASSUME IInv, NEW c \in Clients, Transaction(c)
  PROVE  IInv'
<1>1. tx \in [Clients -> Tx] /\ UnderWay /\ Exclusion /\ closed \subseteq Users /\ now \in 0..LastTime
  BY Types DEF IInv
<1>2. ASSUME NEW op \in Operations, NEW u \in Users, Begin(c, op, u)
      PROVE  IInv'
  BY <1>1, <1>2, BeginKeeps, Undisturbed DEF Begin
<1>3. CASE Lock(c)
  BY <1>1, <1>3, LockKeeps, Undisturbed DEF Lock
<1>4. CASE End(c)
  BY <1>1, <1>4, Releases, Undisturbed DEF End
<1>5. CASE Deciding(c) /\ Decide(c)
  <2>1. PICK r \in Reservations, value \in Value \union {Free} : Fits(r, value) /\ Decided(c, r, value)
    BY <1>5, DecisionFits DEF IInv
  <2>2. /\ tx' \in [Clients -> Tx] /\ UnderWay' /\ Exclusion'
        /\ tx'[c].row = r /\ tx'[c].value = value
        /\ \A d \in Clients : d # c => tx'[d] = tx[d]
    BY <1>1, <1>5, <2>1, DecidedKeeps
  <2> QED
    BY <1>1, <2>1, <2>2, Undisturbed DEF Decided
<1>6. CASE Write(c)
  BY <1>6, WriteKeeps
<1>7. ASSUME NEW v \in Vehicles, ChangeVehicle(c, v)
      PROVE  IInv'
  BY <1>7, ChangeVehicleKeeps
<1>8. CASE Erase(c)
  BY <1>8, EraseKeeps
<1> QED
  BY <1>2, <1>3, <1>4, <1>5, <1>6, <1>7, <1>8 DEF Transaction

LEMMA StepKeeps ==
  ASSUME IInv, [Next]_vars
  PROVE  IInv'
<1>1. tx \in [Clients -> Tx] /\ UnderWay /\ Exclusion /\ closed \subseteq Users /\ now \in 0..LastTime
  BY Types DEF IInv
<1>2. ASSUME tx' = tx PROVE UnderWay' /\ Exclusion'
  BY <1>1, <1>2 DEF UnderWay, Exclusion, Locked, PlanOf, Holds, Compatible
<1>3. ASSUME NEW c \in Clients, Transaction(c) PROVE IInv'
  BY <1>3, TransactionKeeps
<1>4. ASSUME NEW u \in Users, CloseGate(u) PROVE IInv'
  BY <1>1, <1>2, <1>4, Undisturbed DEF CloseGate
<1>5. CASE Tick
  <2>1. now' \in 0..LastTime
    BY <1>1, <1>5, ReservationAssumption DEF Tick
  <2> QED
    BY <1>1, <1>2, <1>5, <2>1, Undisturbed DEF Tick
<1>6. CASE UNCHANGED vars
  BY <1>1, <1>2, <1>6, Undisturbed DEF vars
<1> QED
  BY <1>3, <1>4, <1>5, <1>6 DEF Next

LEMMA InitHolds == Init => IInv
<1> SUFFICES ASSUME Init PROVE IInv
  OBVIOUS
<1>1. \A c \in Clients : tx[c] = Idle
  BY DEF Init
<1>2. Idle.op = "idle" /\ Idle.held = 0 /\ Idle.row = Nil
  BY DEF Idle
<1>3. TypeOK
  BY IdleTyped, Types, ReservationAssumption DEF Init, BookingValue
<1>4. \A c \in Clients : PlanOf(c) = <<>>
  BY <1>1, <1>2, Zenon DEF PlanOf, Plan
<1>5. UnderWay
  BY <1>1, <1>2, <1>4 DEF UnderWay
<1>6. Exclusion
  BY <1>1, <1>2 DEF Exclusion, Holds
<1>7. StillRight /\ NoDoubleBooking
  BY <1>1, <1>2 DEF StillRight, NoDoubleBooking, Taken, Init
<1> QED
  BY <1>3, <1>5, <1>6, <1>7 DEF IInv

LEMMA Invariance == Spec => []IInv
BY InitHolds, StepKeeps, PTL DEF Spec

----------------------------------------------------------------------------
(* Theorems.                                                               *)

\* The types of the tables and of the transactions under way.
THEOREM ReservationTypes == Spec => []TypeOK
BY Invariance, PTL DEF IInv

\* No car is promised twice, however many requests, form or chat, run at once.
THEOREM NeverDoubleBooked == Spec => []NoDoubleBooking
BY Invariance, PTL DEF IInv

LEMMA NewlyBookedActive ==
  ASSUME IInv, [Next]_vars, NEW r \in Reservations,
         booking'[r].vehicle # booking[r].vehicle, booking'[r].vehicle # NoVehicle
  PROVE  vehicle[booking'[r].vehicle] = "active"
<1>1. booking \in [Reservations -> BookingValue] /\ Free.vehicle = NoVehicle
  BY Types DEF IInv, Free
<1>2. booking' # booking
  OBVIOUS
<1>3. PICK c \in Clients : Write(c) \/ Erase(c)
  <2>1. ASSUME NEW c \in Clients, Transaction(c) PROVE Write(c) \/ Erase(c)
    <3>1. \A op \in Operations, u \in Users : ~Begin(c, op, u)
      BY <1>2 DEF Begin
    <3>2. ~Lock(c) /\ ~End(c) /\ \A v \in Vehicles : ~ChangeVehicle(c, v)
      BY <1>2 DEF Lock, End, ChangeVehicle
    <3>3. \A s, value : ~Decided(c, s, value)
      BY <1>2 DEF Decided
    <3>4. ~Decide(c)
      BY <3>3, Zenon DEF Decide, DecideCreate, DecideUpdate, DecideCancel
    <3> QED
      BY <2>1, <3>1, <3>2, <3>4, Zenon DEF Transaction
  <2>2. ~Tick /\ ~(UNCHANGED vars) /\ \A u \in Users : ~CloseGate(u)
    BY <1>2 DEF Tick, vars, CloseGate
  <2> QED
    BY <2>1, <2>2, Zenon DEF Next
<1>4. CASE Write(c)
  <2>1. booking' = [booking EXCEPT ![tx[c].row] = tx[c].value] /\ tx[c].row # Nil
    BY <1>4 DEF Write
  <2>2. r = tx[c].row /\ booking'[r] = tx[c].value
    BY <1>1, <2>1
  <2>3. Fits(r, booking'[r])
    BY <2>1, <2>2 DEF IInv, StillRight
  <2> QED
    BY <2>3 DEF Fits
<1>5. CASE Erase(c)
  BY <1>1, <1>5 DEF Erase
<1> QED
  BY <1>3, <1>4, <1>5

\* No reservation comes to a retired vehicle, even when the two transactions race.
THEOREM RetiredVehiclesNotBooked == Spec => RetiredNotNewlyBooked
<1>1. IInv /\ [Next]_vars =>
        [\A r \in Reservations :
           (booking'[r].vehicle # booking[r].vehicle /\ booking'[r].vehicle # NoVehicle)
             => vehicle[booking'[r].vehicle] = "active"]_vars
  BY NewlyBookedActive
<1> QED
  BY <1>1, Invariance, PTL DEF Spec, RetiredNotNewlyBooked

LEMMA NextRank ==
  ASSUME IInv, NEW c \in Clients, tx[c].op # "idle", ~Locked(c)
  PROVE  /\ tx[c].held + 1 \in 1..Len(PlanOf(c))
         /\ Rank(PlanOf(c)[tx[c].held + 1]) \in 0..MaxId + 5
<1>1. tx[c] \in Tx /\ tx[c].op \in Operations /\ tx[c].user \in Users /\ tx[c].held \in 0..7
  BY TypesOfTx DEF IInv, UnderWay, Tx
<1>2. Len(PlanOf(c)) \in 3..7 /\ Ordered(PlanOf(c))
  BY <1>1, PlanOrdered DEF PlanOf
<1>3. tx[c].held <= Len(PlanOf(c)) /\ tx[c].held # Len(PlanOf(c))
  BY DEF IInv, UnderWay, Locked
<1>4. tx[c].held + 1 \in 1..Len(PlanOf(c))
  BY <1>1, <1>2, <1>3
<1> QED
  BY <1>2, <1>4 DEF Ordered

\* A nonempty set of integers that is bounded above has a greatest element.
LEMMA GreatestElement ==
  ASSUME NEW T, T \subseteq Int, T # {}, NEW b \in Int, \A x \in T : x <= b
  PROVE  \E x \in T : \A y \in T : y <= x
<1> DEFINE R == OpToRel(<, Nat)
           D == {b - x : x \in T}
<1>1. IsWellFoundedOn(R, Nat) /\ D \subseteq Nat /\ D # {}
  <2>1. IsWellFoundedOn(R, Nat)
    BY NatLessThanWellFounded, Zenon
  <2>2. \A x \in T : b - x \in Nat
    OBVIOUS
  <2> HIDE DEF R
  <2> QED
    BY <2>1, <2>2
<1>2. \A x, y \in Nat : y < x => <<y, x>> \in R
  BY DEF OpToRel
<1> HIDE DEF R
<1>3. PICK d \in D : \A c \in D : <<c, d>> \notin R
  <2> HIDE DEF D
  <2> QED
    BY <1>1, WFMin, Zenon
<1>4. PICK x \in T : d = b - x
  OBVIOUS
<1>5. ASSUME NEW y \in T PROVE y <= x
  <2>1. b - y \in D /\ b - y \in Nat /\ b - x \in Nat
    OBVIOUS
  <2>2. ~(b - y < b - x)
    BY <1>2, <1>3, <1>4, <2>1
  <2> QED
    BY <2>2
<1> QED
  BY <1>5

\* Whoever waits, waits for one whose next lock comes later in the order.
LEMMA WaitsForLater ==
  ASSUME IInv, NEW c \in Clients, tx[c].op # "idle", ~Locked(c), ~Grantable(c),
         \A d \in Clients : tx[d].op # "idle" => ~Locked(d)
  PROVE  \E d \in Clients :
           /\ tx[d].op # "idle"
           /\ Rank(PlanOf(c)[tx[c].held + 1]) < Rank(PlanOf(d)[tx[d].held + 1])
<1> DEFINE next == PlanOf(c)[tx[c].held + 1]
<1>1. PICK d \in Clients \ {c} : Holds(d, next)
  BY DEF Grantable
<1>2. PICK k \in 1..tx[d].held : PlanOf(d)[k] = next
  BY <1>1 DEF Holds
<1>3. tx[d] \in Tx /\ tx[d].held \in 0..7
  BY TypesOfTx DEF IInv, Tx
<1>4. tx[d].op # "idle"
  <2>1. Idle.held = 0
    BY DEF Idle
  <2> QED
    BY <1>2, <1>3, <2>1 DEF IInv, UnderWay
<1>5. tx[d].op \in Operations /\ tx[d].user \in Users /\ ~Locked(d)
  BY <1>3, <1>4 DEF Tx, IInv, UnderWay
<1>6. Len(PlanOf(d)) \in 3..7 /\ Ordered(PlanOf(d))
  BY <1>5, PlanOrdered DEF PlanOf
<1>7. tx[d].held + 1 \in 1..Len(PlanOf(d))
  BY <1>4, <1>5, NextRank
<1>8. k \in 1..Len(PlanOf(d)) /\ k < tx[d].held + 1
  BY <1>2, <1>3, <1>6, <1>7
<1>9. Rank(PlanOf(d)[k]) < Rank(PlanOf(d)[tx[d].held + 1])
  BY <1>6, <1>7, <1>8 DEF Ordered
<1> QED
  BY <1>2, <1>4, <1>9

LEMMA SomebodyMoves == IInv => NobodyBlocked
<1> SUFFICES ASSUME IInv,
                    NEW busy, busy = {c \in Clients : tx[c].op # "idle"}, busy # {},
                    \A c \in busy : ~Locked(c) /\ ~Grantable(c)
             PROVE  FALSE
  BY DEF NobodyBlocked
<1> DEFINE R(c) == Rank(PlanOf(c)[tx[c].held + 1])
           T == {R(c) : c \in busy}
<1>1. \A c \in busy : R(c) \in 0..MaxId + 5
  BY NextRank
<1>2. \A c \in busy : \E d \in busy : R(c) < R(d)
  BY WaitsForLater
<1> HIDE DEF R
<1>3. MaxId + 5 \in Int /\ T \subseteq Int /\ T # {} /\ \A x \in T : x <= MaxId + 5
  BY <1>1, ReservationAssumption
<1>4. PICK x \in T : \A y \in T : y <= x
  BY <1>3, GreatestElement
<1>5. PICK c \in busy : x = R(c)
  OBVIOUS
<1>6. PICK d \in busy : R(c) < R(d)
  BY <1>2
<1>7. R(c) \in Int /\ R(d) \in Int /\ R(d) <= R(c)
  BY <1>1, <1>4, <1>5, ReservationAssumption
<1> QED
  BY <1>6, <1>7

\* Transactions never wait in a circle: some transaction can always take a step.
THEOREM NeverDeadlocked == Spec => []NobodyBlocked
BY Invariance, SomebodyMoves, PTL
=============================================================================
