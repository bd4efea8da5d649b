---------------------- MODULE VehicleProjectionProofs ----------------------
(***************************************************************************)
(* What holds of the rows that admission writes, for all users, devices,   *)
(* vehicles, ids, windows and limits: the bridge between the evidence log  *)
(* (VehicleAdmissionProofs) and the engine (ReconciliationProofs).         *)
(***************************************************************************)
EXTENDS ShortcutAdapter, VehicleAdmissionProofs

----------------------------------------------------------------------------
(* The inductive invariant of the session table, over the accepted receipts*)
(* R, the rows, the finalized boundary b and the generation g.             *)

\* r is the TAKE that the row's public identity and start come from.
Opens(r, s) ==
  /\ r.event.type = "take" /\ r.event.id = s.anchor
  /\ r.event.user = s.user /\ r.event.vehicle = s.vehicle /\ r.event.time = s.start

Grounded(R, rows) == \A s \in rows : \E r \in R : Opens(r, s)

\* A row ends with accepted evidence, or in the finalized past.
EndsKnown(R, rows, b) ==
  \A s \in rows : /\ s.start <= s.end
                  /\ Open(s) \/ s.end <= b \/ \E r \in R : r.event.time = s.end

Distinct(rows) == \A s, r \in rows : s.anchor = r.anchor \/ s.ref = r.ref => s = r

Exclusive(rows) == \A s, r \in rows : s # r => Apart(s, r)

\* Exactly the rows held across the boundary carry its generation.
Marked(rows, b, g) ==
  \A s \in rows : s.gen <= g /\ (s.gen = g <=> s.start <= b /\ EndsAfter(s, b))

\* The row a TAKE is associated with.
Holds(s, r) ==
  /\ s.anchor = r.anchor /\ s.start <= r.event.time
  /\ s.user = r.event.user /\ s.vehicle = r.event.vehicle

Anchored(R, rows) == \A r \in R : r.event.type = "take" => \E s \in rows : Holds(s, r)

RowsInv(R, rows, b, g) ==
  /\ IsFiniteSet(rows) /\ rows \subseteq Session
  /\ Grounded(R, rows)
  /\ EndsKnown(R, rows, b)
  /\ Distinct(rows)
  /\ Exclusive(rows)
  /\ Marked(rows, b, g)
  /\ Anchored(R, rows)

\* No circle of device sequences and causes.
Sortable(A) == \A S \in (SUBSET A) \ {{}} : Ready(S) # {}

AnchorsTyped(R) == \A r \in R : r.anchor \in EventIds \union {NoEvent}

ProjectionInv ==
  /\ IsFiniteSet(receipts) /\ Sortable(Accepted) /\ AnchorsTyped(receipts)
  /\ RowsInv(AcceptedReceipts, sessions, boundary, generation)
  /\ ~raised

----------------------------------------------------------------------------
(* The evidence a replay is given: what was accepted, and the arrival e.   *)

\* What the log guarantees of any set of accepted evidence.
Evidenced(A) ==
  /\ \A a \in A : a \in Event /\ WellSourced(a)
  /\ \A a, b \in A : a # b => a.id # b.id
  /\ \A a, b \in A : a # b /\ a.device = b.device /\ a.device # NoDevice => a.seq # b.seq
  /\ \A a, b \in A : Precedes(a, b) => a.time <= b.time
  /\ \A a, b \in A : b.type = "return" /\ b.cause = a.id =>
       a.type = "take" /\ a.user = b.user /\ a.vehicle = b.vehicle

Admissible(e) == Arrival(e) /\ Eligibility(e) = "accepted"

LEMMA AcceptedFacts ==
  ASSUME EvidenceInv
  PROVE  /\ \A a \in Accepted : /\ a \in Event /\ WellSourced(a)
                                /\ a.device # NoDevice => a.seq \in 1..lastSeq[a.device]
                                /\ \E r \in AcceptedReceipts : r.event = a
         /\ \A r, q \in receipts : r.event.id = q.event.id => r = q
         /\ \A a, b \in Accepted : a.id = b.id => a = b
         /\ \A a, b \in Accepted :
              a.device # NoDevice /\ a.device = b.device /\ a.seq = b.seq => a = b
         /\ \A d \in Devices : lastSeq[d] \in Nat
<1>1. \A r, q \in receipts :
        \/ r.event.id = q.event.id
        \/ r.event.device # NoDevice /\ r.event.device = q.event.device /\ r.event.seq = q.event.seq
        => r = q
  BY DEF EvidenceInv, LogComplete
<1>2. \A a \in Accepted : \E r \in AcceptedReceipts : r.event = a /\ r \in receipts
  BY DEF Accepted, AcceptedReceipts
<1>3. ASSUME NEW a \in Accepted
      PROVE  /\ a \in Event /\ WellSourced(a)
             /\ a.device # NoDevice => a.seq \in 1..lastSeq[a.device]
  <2>1. PICK r \in receipts : r.event = a
    BY <1>2
  <2>2. a \in Event /\ WellSourced(a)
    BY <2>1 DEF EvidenceInv, EvidenceTypeOK, Provenance
  <2> QED
    BY <2>1, <2>2 DEF EvidenceInv, LogComplete, WellSourced
<1>4. \A d \in Devices : lastSeq[d] \in Nat
  BY DEF EvidenceInv, EvidenceTypeOK
<1>5. \A a, b \in Accepted : a.id = b.id => a = b
  BY <1>1, <1>2
<1>6. \A a, b \in Accepted :
        a.device # NoDevice /\ a.device = b.device /\ a.seq = b.seq => a = b
  BY <1>1, <1>2
<1> QED
  BY <1>1, <1>2, <1>3, <1>4, <1>5, <1>6

\* The cause of admissible evidence is one stored TAKE.
LEMMA CauseIsStored ==
  ASSUME EvidenceInv, NEW e, Admissible(e), NEW b \in Accepted \union {e}, b.type = "return"
  PROVE  \E r \in AcceptedReceipts :
           /\ CauseReceipts(b) = {r} /\ r.event \in Accepted
           /\ r.event.id = b.cause /\ r.event.type = "take"
           /\ r.event.user = b.user /\ r.event.vehicle = b.vehicle
           /\ r.event.time <= b.time
<1>1. CauseReceipts(b) # {}
  BY DEF EvidenceInv, CausallyOrdered, Admissible, Eligibility
<1>2. PICK r \in AcceptedReceipts :
        /\ r.event.id = b.cause /\ r.event.type = "take"
        /\ r.event.user = b.user /\ r.event.vehicle = b.vehicle /\ r.event.time <= b.time
  BY <1>1 DEF CauseReceipts
<1>3. \A q \in CauseReceipts(b) : q = r
  <2>1. \A q \in CauseReceipts(b) : q \in receipts /\ q.event.id = b.cause
    BY DEF CauseReceipts, AcceptedReceipts
  <2>2. r \in receipts
    BY DEF AcceptedReceipts
  <2> QED
    BY <1>2, <2>1, <2>2, AcceptedFacts
<1>4. r \in CauseReceipts(b)
  BY <1>2 DEF CauseReceipts
<1> QED
  BY <1>2, <1>3, <1>4 DEF Accepted

LEMMA ArrivalIsNew ==
  ASSUME EvidenceInv, NEW e, Admissible(e)
  PROVE  /\ \A r \in receipts : r.event.id # e.id
         /\ \A a \in Accepted : a.id # e.id
         /\ \A a \in Accepted : a.device = e.device /\ a.device # NoDevice => a.seq < e.seq
         /\ e.seq \in Nat
<1>1. \A r \in receipts : r.event.id # e.id
  BY DEF Admissible, Arrival, FreshId
<1>2. ASSUME NEW a \in Accepted, a.device = e.device, a.device # NoDevice PROVE a.seq < e.seq
  <2>1. a.seq \in 1..lastSeq[e.device] /\ e.seq = lastSeq[e.device] + 1 /\ e.device \in Devices
    BY <1>2, AcceptedFacts DEF Admissible, Arrival, WellSourced
  <2>2. lastSeq[e.device] \in Nat
    BY <2>1, AcceptedFacts
  <2> QED
    BY <2>1, <2>2
<1>3. \A a \in Accepted : a.id # e.id
  BY <1>1, AcceptedFacts DEF AcceptedReceipts
<1>4. e.seq \in Nat
  BY DEF Admissible, Arrival, Event
<1> QED
  BY <1>1, <1>2, <1>3, <1>4

LEMMA ArrivalEvidenced ==
  ASSUME EvidenceInv, NEW e, Admissible(e)
  PROVE  Evidenced(Accepted \union {e})
<1>1. e \in Event /\ WellSourced(e)
  BY DEF Admissible, Arrival
<1>2. \A a \in Accepted \union {e} : a \in Event /\ WellSourced(a)
  BY <1>1, AcceptedFacts
<1>3. \A a, b \in Accepted \union {e} : a # b => a.id # b.id
  BY AcceptedFacts, ArrivalIsNew
<1>4. \A a \in Accepted \union {e} : a.time \in Int /\ a.seq \in Nat
  BY <1>2 DEF Event
<1>5. ASSUME NEW a \in Accepted \union {e}, NEW b \in Accepted \union {e},
             a # b, a.device = b.device, a.device # NoDevice
      PROVE  a.seq # b.seq
  <2>1. CASE a \in Accepted /\ b \in Accepted
    BY <1>5, <2>1, AcceptedFacts
  <2>2. CASE a = e /\ b \in Accepted
    BY <1>4, <1>5, <2>2, ArrivalIsNew
  <2>3. CASE b = e /\ a \in Accepted
    BY <1>4, <1>5, <2>3, ArrivalIsNew
  <2> QED
    BY <1>5, <2>1, <2>2, <2>3
<1>6. ASSUME NEW a \in Accepted \union {e}, NEW b \in Accepted \union {e},
             b.type = "return", b.cause = a.id
      PROVE  a.type = "take" /\ a.user = b.user /\ a.vehicle = b.vehicle /\ a.time <= b.time
  <2>1. PICK r \in AcceptedReceipts :
          /\ r.event \in Accepted /\ r.event.id = b.cause /\ r.event.type = "take"
          /\ r.event.user = b.user /\ r.event.vehicle = b.vehicle /\ r.event.time <= b.time
    BY <1>6, CauseIsStored
  <2>2. a = r.event
    BY <1>3, <1>6, <2>1
  <2> QED
    BY <2>1, <2>2
<1>7. ASSUME NEW a \in Accepted \union {e}, NEW b \in Accepted \union {e},
             a.device # NoDevice, a.device = b.device, a.seq < b.seq
      PROVE  a.time <= b.time
  <2>1. CASE a \in Accepted /\ b \in Accepted
    BY <1>7, <2>1 DEF EvidenceInv, CausallyOrdered
  <2>2. CASE a = e
    <3>1. b \in Accepted
      BY <1>4, <1>7, <2>2
    <3> QED
      BY <1>4, <1>7, <2>2, <3>1, ArrivalIsNew
  <2>3. CASE a \in Accepted /\ b = e
    <3>1. e.source = "native" /\ e.device \in Devices
      BY <1>1, <1>7, <2>3 DEF WellSourced
    <3>2. PICK c \in LastAcceptedOf(e.device) : a.seq <= c.seq
      BY <1>7, <2>3, <3>1, LastAcceptedExists
    <3>3. c \in Accepted /\ c.device = e.device
      BY <3>2 DEF LastAcceptedOf
    <3>4. ~(e.time < c.time)
      BY <3>1, <3>2 DEF Admissible, Eligibility
    <3>5. a.time <= c.time
      <4>1. CASE a.seq < c.seq
        BY <1>7, <2>3, <3>3, <4>1 DEF EvidenceInv, CausallyOrdered
      <4>2. CASE a.seq = c.seq
        <5>1. a = c
          BY <1>7, <2>3, <3>3, <4>2, AcceptedFacts
        <5> QED
          BY <1>4, <5>1
      <4>3. a.seq \in Nat /\ c.seq \in Nat
        BY <1>4, <3>3
      <4> QED
        BY <3>2, <4>1, <4>2, <4>3
    <3> QED
      BY <1>4, <2>3, <3>3, <3>4, <3>5
  <2> QED
    BY <2>1, <2>2, <2>3
<1>8. ASSUME NEW a \in Accepted \union {e}, NEW b \in Accepted \union {e}, Precedes(a, b)
      PROVE  a.time <= b.time
  <2>1. CASE b.type = "return" /\ b.cause = a.id
    BY <1>6, <2>1
  <2>2. CASE a.source = "native" /\ a.device = b.device /\ a.seq < b.seq
    BY <1>2, <1>7, <2>2 DEF WellSourced
  <2> QED
    BY <1>8, <2>1, <2>2 DEF Precedes
<1> QED
  BY <1>2, <1>3, <1>5, <1>6, <1>8 DEF Evidenced

\* The newest evidence precedes nothing, so it closes no circle.
LEMMA ArrivalSortable ==
  ASSUME EvidenceInv, Sortable(Accepted), NEW e, Admissible(e)
  PROVE  Sortable(Accepted \union {e})
<1>1. ASSUME NEW b \in Accepted \union {e} PROVE ~Precedes(e, b)
  <2>1. e.cause # e.id /\ e.seq \in Nat
    BY ArrivalIsNew DEF Admissible, Arrival
  <2>2. ~(b.type = "return" /\ b.cause = e.id)
    <3> SUFFICES ASSUME b.type = "return", b.cause = e.id PROVE FALSE
      OBVIOUS
    <3>1. PICK r \in AcceptedReceipts : r.event \in Accepted /\ r.event.id = b.cause
      BY CauseIsStored
    <3> QED
      BY <3>1, ArrivalIsNew
  <2>3. ~(e.source = "native" /\ b.source = "native" /\ e.device = b.device /\ e.seq < b.seq)
    <3> SUFFICES ASSUME e.source = "native", e.device = b.device, e.seq < b.seq PROVE FALSE
      OBVIOUS
    <3>1. e.device # NoDevice
      BY DEF Admissible, Arrival, WellSourced
    <3>2. CASE b = e
      BY <2>1, <3>2
    <3>3. CASE b \in Accepted
      <4>1. b.seq < e.seq /\ b.seq \in Nat
        BY <3>1, <3>3, ArrivalIsNew, AcceptedFacts DEF Event
      <4> QED
        BY <2>1, <4>1
    <3> QED
      BY <3>2, <3>3
  <2> QED
    BY <2>2, <2>3 DEF Precedes
<1>2. ASSUME NEW S \in (SUBSET (Accepted \union {e})) \ {{}} PROVE Ready(S) # {}
  <2>1. CASE S \ {e} = {}
    <3>1. S = {e}
      BY <2>1
    <3>2. e \in Ready(S)
      BY <1>1, <3>1 DEF Ready
    <3> QED
      BY <3>2
  <2>2. CASE S \ {e} # {}
    <3>1. S \ {e} \in (SUBSET Accepted) \ {{}}
      BY <2>2
    <3>2. PICK b \in Ready(S \ {e}) : TRUE
      BY <3>1 DEF Sortable
    <3>3. b \in S \ {e} /\ \A a \in S \ {e} : ~Precedes(a, b)
      BY <3>2 DEF Ready
    <3>4. ~Precedes(e, b)
      BY <1>1, <3>3
    <3>5. b \in Ready(S)
      BY <3>3, <3>4 DEF Ready
    <3> QED
      BY <3>5
  <2> QED
    BY <2>1, <2>2
<1> QED
  BY <1>2 DEF Sortable

----------------------------------------------------------------------------
(* Marking rows: a checkpoint changes the generation of rows only.         *)

\* x is s, up to what a checkpoint or an erasure changes.
SameRow(x, s) ==
  /\ x.ref = s.ref /\ x.user = s.user /\ x.vehicle = s.vehicle /\ x.start = s.start
  /\ x.anchor = s.anchor /\ x.end = s.end /\ x.reason = s.reason

\* f remarks the rows `sub`, all that the receipts Q are about, for c and h.
Remarks(f, rows, sub, R, Q, c, h) ==
  /\ sub \subseteq rows /\ Q \subseteq R
  /\ \A s \in sub : f[s] \in Session /\ SameRow(f[s], s)
  /\ \A s \in sub : \A r \in R : Opens(r, s) => r \in Q
  /\ \A s \in rows : \A r \in Q : Holds(s, r) => s \in sub
  /\ \A s \in sub : Open(s) \/ s.end <= c \/ \E r \in Q : r.event.time = s.end
  /\ \A s \in sub : f[s].gen <= h /\ (f[s].gen = h <=> s.start <= c /\ EndsAfter(s, c))

LEMMA RemarkedKeeps ==
  ASSUME NEW R, NEW rows, NEW b, NEW g, RowsInv(R, rows, b, g),
         NEW sub, NEW Q, NEW c, NEW h, NEW f, Remarks(f, rows, sub, R, Q, c, h)
  PROVE  RowsInv(Q, {f[s] : s \in sub}, c, h)
<1>0. /\ sub \subseteq rows /\ Q \subseteq R
      /\ \A s \in sub : f[s] \in Session /\ SameRow(f[s], s)
      /\ \A s \in sub : \A r \in R : Opens(r, s) => r \in Q
      /\ \A s \in rows : \A r \in Q : Holds(s, r) => s \in sub
      /\ \A s \in sub : Open(s) \/ s.end <= c \/ \E r \in Q : r.event.time = s.end
      /\ \A s \in sub : f[s].gen <= h /\ (f[s].gen = h <=> s.start <= c /\ EndsAfter(s, c))
  BY DEF Remarks
<1> DEFINE marked == {f[s] : s \in sub}
<1>1. IsFiniteSet(marked)
  <2>1. IsFiniteSet(sub)
    BY <1>0, FS_Subset DEF RowsInv
  <2> QED
    BY <2>1, FiniteImage
<1>2. marked \subseteq Session
  BY <1>0
<1>3. \A x \in marked : \E s \in sub : x = f[s] /\ s \in rows /\ SameRow(x, s)
  BY <1>0
<1>4. \A s \in sub : f[s] \in marked /\ SameRow(f[s], s)
  BY <1>0
<1>5. Marked(marked, c, h)
  BY <1>0 DEF Marked, EndsAfter, Open, SameRow
<1> HIDE DEF marked
<1>6. Grounded(Q, marked)
  BY <1>0, <1>3 DEF RowsInv, Grounded, Opens, SameRow
<1>7. EndsKnown(Q, marked, c)
  <2>1. \A s \in sub : s.start <= s.end
    BY <1>0 DEF RowsInv, EndsKnown
  <2> QED
    BY <1>0, <1>3, <2>1 DEF EndsKnown, SameRow, Open
<1>8. Distinct(marked)
  <2> SUFFICES ASSUME NEW x \in marked, NEW y \in marked, x.anchor = y.anchor \/ x.ref = y.ref
               PROVE  x = y
    BY DEF Distinct
  <2>1. PICK s \in sub : x = f[s] /\ s \in rows /\ SameRow(x, s)
    BY <1>3
  <2>2. PICK r \in sub : y = f[r] /\ r \in rows /\ SameRow(y, r)
    BY <1>3
  <2>3. s = r
    BY <2>1, <2>2 DEF SameRow, RowsInv, Distinct
  <2> QED
    BY <2>1, <2>2, <2>3
<1>9. Exclusive(marked)
  <2> SUFFICES ASSUME NEW x \in marked, NEW y \in marked, x # y PROVE Apart(x, y)
    BY DEF Exclusive
  <2>1. PICK s \in sub : x = f[s] /\ s \in rows /\ SameRow(x, s)
    BY <1>3
  <2>2. PICK r \in sub : y = f[r] /\ r \in rows /\ SameRow(y, r)
    BY <1>3
  <2>3. Apart(s, r)
    BY <2>1, <2>2 DEF RowsInv, Exclusive
  <2> QED
    BY <2>1, <2>2, <2>3 DEF SameRow, Apart, EndsAfter, Open
<1>10. Anchored(Q, marked)
  <2> SUFFICES ASSUME NEW r \in Q, r.event.type = "take" PROVE \E x \in marked : Holds(x, r)
    BY DEF Anchored
  <2>1. PICK s \in rows : Holds(s, r)
    BY <1>0 DEF RowsInv, Anchored
  <2> QED
    BY <1>0, <1>4, <2>1 DEF Holds, SameRow
<1>11. RowsInv(Q, marked, c, h)
  BY <1>1, <1>2, <1>5, <1>6, <1>7, <1>8, <1>9, <1>10 DEF RowsInv
<1> QED
  BY <1>11 DEF marked

LEMMA RowFields ==
  ASSUME NEW s \in Session
  PROVE  /\ SessionShape(s) /\ s.ref \in Nat /\ s.user \in Users /\ s.vehicle \in Vehicles
         /\ s.start \in Int /\ s.anchor \in EventIds /\ s.end \in Int
         /\ s.endEvent \in EventIds \union {NoEvent}
         /\ s.reason \in {"open", "return", "handover", "vehicle_switch"}
         /\ s.gen \in Int
<1>1. s.gen \in Nat \union {NoGeneration}
  BY DEF Session
<1>2. s.gen \in Int
  BY <1>1 DEF NoGeneration
<1> QED
  BY <1>2 DEF Session, SessionShape

LEMMA RemarkedRow ==
  ASSUME NEW s \in Session, NEW g \in Nat
  PROVE  /\ [s EXCEPT !.gen = g] \in Session
         /\ SameRow([s EXCEPT !.gen = g], s)
         /\ [s EXCEPT !.gen = g].gen = g
<1>1. [s EXCEPT !.gen = g] =
        [ref |-> s.ref, user |-> s.user, vehicle |-> s.vehicle, start |-> s.start,
         anchor |-> s.anchor, end |-> s.end, endEvent |-> s.endEvent, reason |-> s.reason, gen |-> g]
  BY DEF Session
<1> QED
  BY <1>1, RowFields DEF SameRow, Session

\* How a checkpoint marks the rows, and what it leaves exactly as it was.
Rolls(f, t) ==
  /\ RolledTo(t).rows = {f[s] : s \in sessions}
  /\ \A s \in sessions : f[s] \in Session /\ SameRow(f[s], s)
  /\ \A s \in sessions : ~EndsAfter(s, t) => f[s] = s

LEMMA RolledIs ==
  ASSUME RowsInv(AcceptedReceipts, sessions, boundary, generation), boundary \in Int,
         generation \in Nat, NEW t \in Int, boundary <= t
  PROVE  \E f : /\ Rolls(f, t)
                /\ \A s \in sessions :
                     /\ f[s].gen <= RolledTo(t).generation
                     /\ f[s].gen = RolledTo(t).generation <=> s.start <= t /\ EndsAfter(s, t)
<1>0. \A s \in sessions : s \in Session /\ s.gen \in Int /\ s.start \in Int /\ s.end \in Int
  BY RowFields DEF RowsInv
<1>00. \A s \in sessions :
         s.gen <= generation /\ (s.gen = generation <=> s.start <= boundary /\ EndsAfter(s, boundary))
  BY DEF RowsInv, Marked
<1>1. CASE t <= boundary
  <2>1. t = boundary
    BY <1>1
  <2>2. RolledTo(t).rows = sessions /\ RolledTo(t).generation = generation
    BY <1>1 DEF RolledTo
  <2> DEFINE f == [s \in sessions |-> s]
  <2>3. sessions = {f[s] : s \in sessions}
    OBVIOUS
  <2>4. \A s \in sessions : f[s] = s
    OBVIOUS
  <2> HIDE DEF f
  <2>5. Rolls(f, t)
    BY <1>0, <2>2, <2>3, <2>4 DEF Rolls, SameRow
  <2> QED
    BY <1>00, <2>1, <2>2, <2>4, <2>5
<1>2. CASE ~(t <= boundary)
  <2> DEFINE held(s) == s \in CheckpointRows(t) /\ s.start <= t /\ EndsAfter(s, t)
             mark(s) == IF held(s) THEN [s EXCEPT !.gen = generation + 1] ELSE s
             f == [s \in sessions |-> mark(s)]
             rows == {mark(s) : s \in sessions}
  <2>1. RolledTo(t) = [within |-> Cardinality(CheckpointRows(t)) <= MaxCheckpointRows,
                       boundary |-> t, generation |-> generation + 1, rows |-> rows]
    BY <1>2, Zenon DEF RolledTo
  <2>2. rows = {f[s] : s \in sessions} /\ \A s \in sessions : f[s] = mark(s)
    BY Zenon
  <2> HIDE DEF rows, f
  <2>3. RolledTo(t).rows = rows /\ RolledTo(t).generation = generation + 1
    BY <2>1
  <2>4. ASSUME NEW s \in sessions PROVE held(s) <=> s.start <= t /\ EndsAfter(s, t)
    <3> SUFFICES ASSUME s.start <= t, EndsAfter(s, t) PROVE s \in CheckpointRows(t)
      BY Zenon
    <3>1. CASE boundary < s.start
      BY <3>1 DEF CheckpointRows
    <3>2. CASE s.start <= boundary
      <4>1. EndsAfter(s, boundary)
        BY <1>0, <1>2 DEF EndsAfter
      <4> QED
        BY <1>00, <3>2, <4>1 DEF CheckpointRows
    <3> QED
      BY <1>0, <3>1, <3>2
  <2>5. ASSUME NEW s \in sessions
        PROVE  /\ f[s] \in Session /\ SameRow(f[s], s) /\ (~EndsAfter(s, t) => f[s] = s)
               /\ f[s].gen <= generation + 1
               /\ f[s].gen = generation + 1 <=> s.start <= t /\ EndsAfter(s, t)
    <3> DEFINE x == [s EXCEPT !.gen = generation + 1]
    <3>1. x \in Session /\ SameRow(x, s) /\ x.gen = generation + 1
      BY <1>0, RemarkedRow
    <3>2. ASSUME s.start <= t, EndsAfter(s, t) PROVE f[s] = x
      <4>1. held(s)
        BY <2>4, <3>2, Zenon
      <4>2. f[s] = mark(s)
        BY <2>2
      <4> QED
        BY <4>1, <4>2, Zenon
    <3>3. ASSUME ~(s.start <= t /\ EndsAfter(s, t)) PROVE f[s] = s
      <4>1. ~held(s)
        BY <2>4, <3>3, Zenon
      <4>2. f[s] = mark(s)
        BY <2>2
      <4> QED
        BY <4>1, <4>2, Zenon
    <3>4. SameRow(s, s) /\ s.gen < generation + 1
      BY <1>0, <1>00 DEF SameRow
    <3> HIDE DEF x
    <3>5. ASSUME s.start <= t, EndsAfter(s, t)
          PROVE  /\ f[s] \in Session /\ SameRow(f[s], s) /\ f[s].gen = generation + 1
      BY <3>1, <3>2, <3>5
    <3>6. ASSUME ~(s.start <= t /\ EndsAfter(s, t))
          PROVE  /\ f[s] \in Session /\ SameRow(f[s], s) /\ f[s].gen < generation + 1
                 /\ f[s] = s
      BY <1>0, <3>3, <3>4, <3>6
    <3>7. generation + 1 \in Int /\ f[s].gen \in Int
      BY <1>0, <3>5, <3>6, RowFields
    <3> QED
      BY <3>5, <3>6, <3>7
  <2>6. Rolls(f, t)
    BY <2>2, <2>3, <2>5 DEF Rolls
  <2> QED
    BY <2>3, <2>5, <2>6
<1> QED
  BY <1>1, <1>2

LEMMA RolledKeeps ==
  ASSUME RowsInv(AcceptedReceipts, sessions, boundary, generation), boundary \in Int,
         generation \in Nat, NEW t \in Int, boundary <= t
  PROVE  RowsInv(AcceptedReceipts, RolledTo(t).rows, t, RolledTo(t).generation)
<1>1. PICK f : /\ Rolls(f, t)
               /\ \A s \in sessions :
                    /\ f[s].gen <= RolledTo(t).generation
                    /\ f[s].gen = RolledTo(t).generation <=> s.start <= t /\ EndsAfter(s, t)
  BY RolledIs
<1>2. RolledTo(t).rows = {f[s] : s \in sessions}
  BY <1>1 DEF Rolls
<1>3. \A s \in sessions : f[s] \in Session /\ SameRow(f[s], s)
  BY <1>1 DEF Rolls
<1>4. \A s \in sessions : Open(s) \/ s.end <= t \/ \E r \in AcceptedReceipts : r.event.time = s.end
  <2> SUFFICES ASSUME NEW s \in sessions, s.end <= boundary PROVE s.end <= t
    BY DEF RowsInv, EndsKnown
  <2>1. s.end \in Int
    BY RowFields DEF RowsInv
  <2> QED
    BY <2>1
<1> DEFINE h == RolledTo(t).generation
           rows == {f[s] : s \in sessions}
<1>5. \A s \in sessions : f[s].gen <= h /\ (f[s].gen = h <=> s.start <= t /\ EndsAfter(s, t))
  BY <1>1
<1> HIDE DEF h
<1>6. RowsInv(AcceptedReceipts, rows, t, h)
  <2>1. Remarks(f, sessions, sessions, AcceptedReceipts, AcceptedReceipts, t, h)
    BY <1>3, <1>4, <1>5 DEF Remarks
  <2> QED
    BY <2>1, RemarkedKeeps
<1> QED
  BY <1>2, <1>6 DEF h

----------------------------------------------------------------------------
(* What an admission looks up: k is the checkpoint it uses, e the arrival. *)

Checked(k, e) ==
  /\ EvidenceInv /\ IsFiniteSet(receipts) /\ Sortable(Accepted) /\ Admissible(e)
  /\ RowsInv(AcceptedReceipts, k.rows, k.boundary, k.generation)
  /\ k.boundary \in Int /\ k.generation \in Nat /\ k.boundary < e.time

\* The one row that a RETURN's TAKE is associated with.
CausedBy(k, b, r, s) ==
  /\ r \in AcceptedReceipts /\ r.event \in Accepted /\ CauseReceipts(b) = {r}
  /\ r.event.id = b.cause /\ r.event.type = "take"
  /\ r.event.user = b.user /\ r.event.vehicle = b.vehicle /\ r.event.time <= b.time
  /\ s \in k.rows /\ Holds(s, r) /\ CauseRows(k.rows, b) = {s}

LEMMA CauseRow ==
  ASSUME NEW k, NEW e, Checked(k, e), NEW b \in Accepted \union {e}, b.type = "return"
  PROVE  \E r, s : CausedBy(k, b, r, s)
<1>1. EvidenceInv /\ Admissible(e)
  BY DEF Checked
<1>2. PICK r \in AcceptedReceipts :
        /\ CauseReceipts(b) = {r} /\ r.event \in Accepted
        /\ r.event.id = b.cause /\ r.event.type = "take"
        /\ r.event.user = b.user /\ r.event.vehicle = b.vehicle /\ r.event.time <= b.time
  BY <1>1, CauseIsStored
<1>3. PICK s \in k.rows : Holds(s, r)
  BY <1>2 DEF Checked, RowsInv, Anchored
<1>4. AnchoredRows(k.rows, r) = {s}
  <2>1. s \in AnchoredRows(k.rows, r)
    BY <1>3 DEF AnchoredRows, Holds
  <2>2. \A x \in AnchoredRows(k.rows, r) : x = s
    BY <1>3 DEF AnchoredRows, Holds, Checked, RowsInv, Distinct
  <2> QED
    BY <2>1, <2>2
<1>5. CauseRows(k.rows, b) = {s}
  BY <1>2, <1>4 DEF CauseRows
<1> QED
  BY <1>2, <1>3, <1>5 DEF CausedBy

LEMMA TheOnly ==
  ASSUME NEW x
  PROVE  The({x}) = x
BY DEF The

LEMMA ProjectedFields ==
  ASSUME NEW s
  PROVE  /\ ProjectedShape(Projected(s))
         /\ Projected(s).user = s.user /\ Projected(s).vehicle = s.vehicle
         /\ Projected(s).start = s.start /\ Projected(s).anchor = s.anchor
         /\ Projected(s).end = s.end /\ Projected(s).reason = s.reason
BY DEF Projected, ProjectedShape

\* Any part of the evidence can be replayed after an instant before it.
LEMMA PartOrderable ==
  ASSUME NEW k, NEW e, Checked(k, e), NEW E \in SUBSET (Accepted \union {e}),
         NEW t, \A a \in E : t < a.time, NEW ids, \A a \in E : a.id \notin ids
  PROVE  /\ IsFiniteSet(E)
         /\ \A a \in E : a.time \in Int /\ a.id \in Nat /\ a.type \in {"take", "return"}
         /\ Orderable(E, t, ids)
<1>1. Evidenced(Accepted \union {e}) /\ Sortable(Accepted \union {e})
  BY ArrivalEvidenced, ArrivalSortable DEF Checked
<1>2. \A a \in E : a.time \in Int /\ a.id \in Nat /\ a.type \in {"take", "return"}
  BY <1>1, IdAssumption DEF Evidenced, Event
<1>3. IsFiniteSet(E)
  <2>1. IsFiniteSet(AcceptedReceipts)
    BY FS_Subset DEF Checked, AcceptedReceipts
  <2> DEFINE ev == [r \in AcceptedReceipts |-> r.event]
  <2>2. Accepted = {ev[r] : r \in AcceptedReceipts}
    BY DEF Accepted
  <2> HIDE DEF ev
  <2>3. IsFiniteSet(Accepted)
    BY <2>1, <2>2, FiniteImage
  <2>4. IsFiniteSet(Accepted \union {e})
    BY <2>3, FS_AddElement
  <2> QED
    BY <2>4, FS_Subset
<1>4. \A a, b \in E :
        /\ a # b => a.id # b.id
        /\ Precedes(a, b) => a.time <= b.time
        /\ a # b /\ a.device = b.device /\ a.device # NoDevice => a.seq # b.seq
        /\ b.type = "return" /\ b.cause = a.id =>
             a.type = "take" /\ a.user = b.user /\ a.vehicle = b.vehicle
  BY <1>1 DEF Evidenced
<1>5. \A a, b \in E : a.device = b.device /\ a.device # NoDevice => a.user = b.user
  BY <1>1 DEF Evidenced, WellSourced
<1>6. \A S \in (SUBSET E) \ {{}} : Ready(S) # {}
  BY <1>1 DEF Sortable
<1> QED
  BY <1>2, <1>3, <1>4, <1>5, <1>6 DEF Orderable

\* Sessions held across an instant seed a replay after it.
LEMMA SeedsShape ==
  ASSUME NEW k, NEW e, Checked(k, e), NEW seeds \in SUBSET k.rows, NEW t \in Int,
         \A s \in seeds : s.start <= t /\ EndsAfter(s, t),
         NEW seed, seed.boundary = t, seed.sessions = {Projected(s) : s \in seeds},
         \A c \in DOMAIN seed.anchors : \E s \in seeds : s.anchor = seed.anchors[c]
  PROVE  SeedShape(seed) /\ SoundSeed(seed)
<1>1. \A x \in seed.sessions : \E s \in seeds : x = Projected(s)
  OBVIOUS
<1>2. \A s \in seeds : s \in k.rows /\ s \in Session
  BY DEF Checked, RowsInv
<1>3. IsFiniteSet(seed.sessions)
  <2>1. IsFiniteSet(seeds)
    BY FS_Subset DEF Checked, RowsInv
  <2> DEFINE f == [s \in seeds |-> Projected(s)]
  <2>2. seed.sessions = {f[s] : s \in seeds}
    OBVIOUS
  <2> HIDE DEF f
  <2>3. IsFiniteSet({f[s] : s \in seeds})
    BY <2>1, FiniteImage
  <2> QED
    BY <2>2, <2>3, Zenon
<1>4. \A x \in seed.sessions : ProjectedShape(x) /\ x.start \in Int /\ x.start <= t
  BY <1>1, <1>2, ProjectedFields, RowFields
<1>5. \A x, y \in seed.sessions : x.anchor = y.anchor => x = y
  BY <1>1, <1>2, ProjectedFields DEF Checked, RowsInv, Distinct
<1>6. ASSUME NEW x \in seed.sessions, NEW y \in seed.sessions, x # y
      PROVE  x.user # y.user /\ x.vehicle # y.vehicle
  <2>1. PICK s \in seeds : x = Projected(s)
    BY <1>1
  <2>2. PICK r \in seeds : y = Projected(r)
    BY <1>1
  <2>3. Apart(s, r)
    BY <1>2, <1>6, <2>1, <2>2 DEF Checked, RowsInv, Exclusive
  <2>4. s.start \in Int /\ r.start \in Int /\ s.end \in Int /\ r.end \in Int
    BY <1>2, RowFields
  <2>5. EndsAfter(s, r.start) /\ EndsAfter(r, s.start)
    BY <2>4 DEF EndsAfter
  <2> QED
    BY <2>1, <2>2, <2>3, <2>5, ProjectedFields DEF Apart
<1>7. \A c \in DOMAIN seed.anchors : \E x \in seed.sessions : x.anchor = seed.anchors[c]
  BY ProjectedFields
<1>8. SeedShape(seed)
  BY <1>3, <1>4, <1>5 DEF SeedShape
<1> QED
  BY <1>4, <1>6, <1>7, <1>8 DEF SoundSeed

\* Every seed was opened by an accepted TAKE at or before the seed's instant.
LEMMA SeedIsGrounded ==
  ASSUME NEW k, NEW e, Checked(k, e), NEW s \in k.rows
  PROVE  \E r \in AcceptedReceipts : Opens(r, s) /\ r.event \in Accepted
<1>1. PICK r \in AcceptedReceipts : Opens(r, s)
  BY DEF Checked, RowsInv, Grounded
<1> QED
  BY <1>1 DEF Accepted

\* A replay of E from the rows in `seeds`, carried over the instant t.
Seeding(k, e, seeds, t, seed, E) ==
  /\ seeds \subseteq k.rows /\ E \subseteq Accepted \union {e} /\ t \in Int
  /\ \A s \in seeds : s.start <= t /\ EndsAfter(s, t)
  /\ seed.boundary = t /\ seed.sessions = {Projected(s) : s \in seeds}
  /\ \A c \in DOMAIN seed.anchors : \E s \in seeds : s.anchor = seed.anchors[c]
  /\ \A a \in E : t < a.time /\ a.id \notin DOMAIN seed.anchors
  /\ \A b \in E : b.type = "return" =>
       \/ \E a \in E : a.id = b.cause
       \/ /\ b.cause \in DOMAIN seed.anchors
          /\ \E s \in seeds : /\ s.anchor = seed.anchors[b.cause]
                              /\ s.user = b.user /\ s.vehicle = b.vehicle

LEMMA SeedsSetting ==
  ASSUME NEW k, NEW e, Checked(k, e), NEW seeds, NEW t, NEW seed, NEW E,
         Seeding(k, e, seeds, t, seed, E)
  PROVE  Setting(seed, E)
<1> USE DEF Seeding
<1>1. SeedShape(seed) /\ SoundSeed(seed)
  BY SeedsShape
<1>2. Evidenced(Accepted \union {e}) /\ EvidenceInv /\ Admissible(e)
  BY ArrivalEvidenced DEF Checked
<1>3. Own(seed) = {c.anchor : c \in seed.sessions}
  BY <1>1, OwnAnchors
<1>4. \A c \in Own(seed) : \E s \in seeds : s.anchor = c
  BY <1>3, ProjectedFields
<1>5. ASSUME NEW a \in E PROVE a.id \notin Own(seed)
  <2> SUFFICES ASSUME a.id \in Own(seed) PROVE FALSE
    OBVIOUS
  <2>1. PICK s \in seeds : s.anchor = a.id
    BY <1>4
  <2>2. PICK r \in AcceptedReceipts : Opens(r, s) /\ r.event \in Accepted
    BY SeedIsGrounded
  <2>3. r.event = a
    BY <1>2, <2>1, <2>2 DEF Evidenced, Opens
  <2>4. a.time = s.start /\ s.start <= t /\ t < a.time /\ a.time \in Int
    BY <1>2, <2>2, <2>3 DEF Opens, Evidenced, Event
  <2> QED
    BY <2>4
<1>6. DOMAIN StartAnchors(seed) = Own(seed) \union DOMAIN seed.anchors
  BY DEF StartAnchors
<1>7. \A a \in E : t < a.time
  OBVIOUS
<1>8. \A a \in E : a.id \notin DOMAIN StartAnchors(seed)
  BY <1>5, <1>6
<1> DEFINE ids == DOMAIN StartAnchors(seed)
<1>9. /\ IsFiniteSet(E)
      /\ \A a \in E : a.time \in Int /\ a.id \in Nat /\ a.type \in {"take", "return"}
      /\ Orderable(E, t, ids)
  <2> HIDE DEF ids
  <2>1. \A a \in E : a.id \notin ids
    BY <1>8 DEF ids
  <2> QED
    BY <1>7, <2>1, PartOrderable
<1>10. CausesKnown(seed, E)
  <2> SUFFICES ASSUME NEW b \in E, b.type = "return", ~ \E a \in E : a.id = b.cause
               PROVE  /\ b.cause \in DOMAIN StartAnchors(seed)
                      /\ \E c \in seed.sessions : /\ c.anchor = StartAnchors(seed)[b.cause]
                                                  /\ c.user = b.user /\ c.vehicle = b.vehicle
    BY DEF CausesKnown
  <2>1. PICK s \in seeds : /\ s.anchor = seed.anchors[b.cause]
                           /\ s.user = b.user /\ s.vehicle = b.vehicle
    OBVIOUS
  <2>2. b.cause \in DOMAIN StartAnchors(seed)
    BY <1>6
  <2>3. CASE b.cause \in Own(seed)
    <3>1. StartAnchors(seed)[b.cause] = b.cause
      BY <1>1, <2>3, OwnAnchors
    <3>2. PICK x \in seeds : x.anchor = b.cause
      BY <1>4, <2>3
    <3>3. PICK r \in AcceptedReceipts : Opens(r, x) /\ r.event \in Accepted
      BY SeedIsGrounded
    <3>4. PICK q \in AcceptedReceipts :
            /\ q.event \in Accepted /\ q.event.id = b.cause
            /\ q.event.user = b.user /\ q.event.vehicle = b.vehicle
      BY <1>2, CauseIsStored
    <3>5. r.event = q.event
      BY <1>2, <3>2, <3>3, <3>4 DEF Opens, Evidenced
    <3>6. x.user = b.user /\ x.vehicle = b.vehicle
      BY <3>3, <3>4, <3>5 DEF Opens
    <3>7. Projected(x) \in seed.sessions
      OBVIOUS
    <3> QED
      BY <2>2, <3>1, <3>2, <3>6, <3>7, ProjectedFields
  <2>4. CASE b.cause \notin Own(seed)
    <3>1. StartAnchors(seed)[b.cause] = seed.anchors[b.cause]
      BY <2>2, <2>4 DEF StartAnchors
    <3>2. Projected(s) \in seed.sessions
      OBVIOUS
    <3> QED
      BY <2>1, <2>2, <3>1, <3>2, ProjectedFields
  <2> QED
    BY <2>3, <2>4
<1> HIDE DEF ids
<1>11. Orderable(E, seed.boundary, DOMAIN StartAnchors(seed))
  BY <1>9 DEF ids
<1> QED
  BY <1>1, <1>9, <1>10, <1>11 DEF Setting

----------------------------------------------------------------------------
(* The two ways to project an arrival do the same for the table: the rows  *)
(* `seeds` are continued, other rows they may rewrite belong to replayed   *)
(* TAKEs, and what is left alone overlaps with none of it.                 *)

Shares(a, u) == a.user = u.user \/ a.vehicle = u.vehicle

Untroubled(seeds, E, u) ==
  /\ \A s \in seeds : Shares(s, u) => ~EndsAfter(u, s.start)
  /\ \A a \in E : a.type = "take" /\ Shares(a, u) => ~EndsAfter(u, a.time)
  /\ \A a \in E : a.id # u.anchor

Faithful(k, e, incremental, work, seeds, seed) ==
  /\ work.events \subseteq Accepted \union {e} /\ \A a \in work.events : k.boundary < a.time
  /\ e \in work.events \/ (e.type = "return" /\ work.frozenAnchor \in EventIds)
  /\ seed.sessions = {Projected(s) : s \in seeds} /\ Setting(seed, work.events)
  /\ RunInv(seed, work.events, work.events, work.projection)
  /\ seeds \subseteq work.mutable /\ work.mutable \subseteq k.rows
  /\ \A s \in seeds : EndsAfter(s, k.boundary)
  /\ \A m \in work.mutable \ seeds : \E a \in work.events : a.type = "take" /\ a.id = m.anchor
  /\ \A u \in k.rows \ work.mutable : Untroubled(seeds, work.events, u)
  /\ \A r \in AcceptedReceipts : r.event.type = "take" /\ r.event \notin work.events =>
       \A s \in k.rows : Holds(s, r) => s \in seeds \/ s \notin work.mutable
  /\ IF incremental THEN work.mutable = seeds ELSE \A s \in seeds : s.start <= k.boundary

LEMMA FullReplayFaithful ==
  ASSUME NEW k, NEW e, Checked(k, e)
  PROVE  \E seeds, seed : Faithful(k, e, FALSE, FullReplay(k, e), seeds, seed)
<1> DEFINE loaded   == Suffix(k, e)
           seeds    == {s \in k.rows : s.gen = k.generation}
           mutable  == seeds \union {s \in k.rows : s.start > k.boundary}
           ids      == {a.id : a \in loaded}
           external == {a \in loaded : a.type = "return" /\ a.cause \notin ids}
           row(a)   == The(CauseRows(k.rows, a))
           frozen   == {a \in external : ~EndsAfter(row(a), k.boundary)}
           aliased  == external \ frozen
           seed     == [boundary |-> k.boundary,
                        sessions |-> {Projected(s) : s \in seeds},
                        anchors  |-> [c \in {a.cause : a \in aliased} |->
                                        row(The({a \in aliased : a.cause = c})).anchor]]
           sound    == /\ \A s \in seeds : s.start <= k.boundary /\ EndsAfter(s, k.boundary)
                       /\ \A a \in external :
                            /\ CauseRows(k.rows, a) # {}
                            /\ \A r \in CauseReceipts(a) : r.event.time <= k.boundary
                       /\ \A a \in aliased : row(a) \in seeds
           E        == loaded \ frozen
           work     == [mutable |-> mutable, projection |-> Reconcile(seed, E), events |-> E,
                        frozenAnchor |-> IF e \in frozen THEN row(e).anchor ELSE NoEvent]
<1>1. sound => FullReplay(k, e) = work
  BY Zenon DEF FullReplay
<1>2. /\ loaded \subseteq Accepted \union {e} /\ e \in loaded
      /\ \A a \in loaded : k.boundary < a.time
      /\ \A a \in Accepted : k.boundary < a.time => a \in loaded
  <2>1. Evidenced(Accepted \union {e}) /\ k.boundary \in Int /\ k.boundary < e.time
    BY ArrivalEvidenced DEF Checked
  <2>2. \A a \in Accepted \union {e} : a.time > k.boundary <=> k.boundary < a.time
    BY <2>1 DEF Evidenced, Event
  <2> QED
    BY <2>1, <2>2 DEF Suffix
<1> HIDE DEF loaded
<1>3. \A s \in k.rows : /\ s \in Session /\ s.start \in Int /\ s.end \in Int
                        /\ s \in seeds <=> s.start <= k.boundary /\ EndsAfter(s, k.boundary)
                        /\ s \in mutable <=> s \in seeds \/ ~(s.start <= k.boundary)
  <2>1. \A s \in k.rows : s \in Session /\ s.start \in Int /\ s.end \in Int
    BY RowFields DEF Checked, RowsInv
  <2>2. \A s \in k.rows : s \in seeds <=> s.start <= k.boundary /\ EndsAfter(s, k.boundary)
    BY DEF Checked, RowsInv, Marked
  <2>3. k.boundary \in Int
    BY DEF Checked
  <2>4. \A s \in k.rows : s.start > k.boundary <=> ~(s.start <= k.boundary)
    BY <2>1, <2>3
  <2> QED
    BY <2>1, <2>2, <2>4
<1>4. seeds \subseteq k.rows /\ mutable \subseteq k.rows /\ seeds \subseteq mutable
  OBVIOUS
<1> HIDE DEF seeds, mutable
<1>5. ASSUME NEW a \in external
      PROVE  \E r, s : CausedBy(k, a, r, s) /\ row(a) = s /\ s.start <= k.boundary
  <2>1. a \in Accepted \union {e} /\ a.type = "return"
    BY <1>2
  <2>2. PICK r, s : CausedBy(k, a, r, s)
    BY <2>1, CauseRow
  <2>3. row(a) = s
    BY <2>2, TheOnly DEF CausedBy
  <2>4. ~(k.boundary < r.event.time)
    <3> SUFFICES ASSUME k.boundary < r.event.time PROVE FALSE
      OBVIOUS
    <3>1. r.event \in loaded /\ r.event.id = a.cause
      BY <1>2, <2>2 DEF CausedBy
    <3> QED
      BY <3>1
  <2>5. r.event.time \in Int /\ k.boundary \in Int
    BY <2>2, ArrivalEvidenced DEF CausedBy, Checked, Evidenced, Event
  <2>6. s.start <= r.event.time /\ s.start \in Int
    BY <1>3, <2>2 DEF CausedBy, Holds
  <2>7. s.start <= k.boundary
    BY <2>4, <2>5, <2>6
  <2> HIDE DEF row
  <2> QED
    BY <2>2, <2>3, <2>7
<1>6. \A a \in aliased : row(a) \in seeds
  <2> SUFFICES ASSUME NEW a \in aliased PROVE row(a) \in seeds
    OBVIOUS
  <2>1. PICK r, s : CausedBy(k, a, r, s) /\ row(a) = s /\ s.start <= k.boundary
    BY <1>5
  <2>2. s \in k.rows /\ EndsAfter(s, k.boundary)
    BY <2>1 DEF CausedBy
  <2> HIDE DEF row
  <2> QED
    BY <1>3, <2>1, <2>2
<1>7. sound
  <2>1. ASSUME NEW a \in external
        PROVE  CauseRows(k.rows, a) # {} /\ \A r \in CauseReceipts(a) : r.event.time <= k.boundary
    <3>1. PICK r, s : CausedBy(k, a, r, s) /\ row(a) = s /\ s.start <= k.boundary
      BY <1>5
    <3>2. ~(k.boundary < r.event.time)
      <4> SUFFICES ASSUME k.boundary < r.event.time PROVE FALSE
        OBVIOUS
      <4>1. r.event \in loaded /\ r.event.id = a.cause
        BY <1>2, <3>1 DEF CausedBy
      <4> QED
        BY <4>1
    <3>3. r.event.time \in Int /\ k.boundary \in Int
      BY <3>1, ArrivalEvidenced DEF CausedBy, Checked, Evidenced, Event
    <3> QED
      BY <3>1, <3>2, <3>3 DEF CausedBy
  <2> HIDE DEF row, external, aliased
  <2> QED
    BY <1>3, <1>4, <1>6, <2>1
<1>8. FullReplay(k, e) = work
  <2> HIDE DEF sound, work
  <2> QED
    BY <1>1, <1>7
<1> HIDE DEF sound
<1>9. /\ seed.boundary = k.boundary /\ seed.sessions = {Projected(s) : s \in seeds}
      /\ DOMAIN seed.anchors = {a.cause : a \in aliased}
  BY Zenon
<1>10. ASSUME NEW a \in aliased
       PROVE  \E s \in seeds : /\ s.anchor = seed.anchors[a.cause]
                               /\ s.user = a.user /\ s.vehicle = a.vehicle
  <2> DEFINE same == {b \in aliased : b.cause = a.cause}
             b == The(same)
  <2>1. b \in same
    <3>1. a \in same
      OBVIOUS
    <3> HIDE DEF same
    <3> QED
      BY <3>1 DEF The
  <2>2. seed.anchors[a.cause] = row(b).anchor
    <3>1. a.cause \in {x.cause : x \in aliased}
      OBVIOUS
    <3> HIDE DEF row, aliased
    <3> QED
      BY <3>1
  <2>3. b \in aliased /\ b \in external /\ b.cause = a.cause
    BY <2>1
  <2> HIDE DEF b
  <2>4. PICK r, s : CausedBy(k, b, r, s) /\ row(b) = s
    BY <1>5, <2>3
  <2>5. PICK q, x : CausedBy(k, a, q, x)
    BY <1>5
  <2>6. r.event = q.event
    BY <2>3, <2>4, <2>5, AcceptedFacts DEF CausedBy, Checked
  <2>7. s \in seeds
    BY <1>6, <2>3, <2>4
  <2>8. s.anchor = seed.anchors[a.cause]
    BY <2>2, <2>4
  <2>9. s.user = a.user /\ s.vehicle = a.vehicle
    BY <2>4, <2>5, <2>6 DEF CausedBy, Holds
  <2> HIDE DEF seed, row, same
  <2> QED
    BY <2>7, <2>8, <2>9
<1>11. \A c \in DOMAIN seed.anchors : \E s \in seeds : s.anchor = seed.anchors[c]
  <2> HIDE DEF seed, aliased
  <2> QED
    BY <1>9, <1>10
<1> HIDE DEF seed
<1>12. \A a \in loaded : a.type = "take" => a \in E
  OBVIOUS
<1>13. /\ E \subseteq Accepted \union {e}
       /\ \A a \in E : k.boundary < a.time /\ a.id \notin DOMAIN seed.anchors
  <2>1. E \subseteq loaded /\ \A c \in {a.cause : a \in aliased} : c \notin ids
    OBVIOUS
  <2>2. \A a \in loaded : a.id \in ids
    OBVIOUS
  <2> HIDE DEF E, ids, aliased
  <2> QED
    BY <1>2, <1>9, <2>1, <2>2
<1>14. ASSUME NEW b \in E, b.type = "return"
       PROVE  \/ \E a \in E : a.id = b.cause
              \/ /\ b.cause \in DOMAIN seed.anchors
                 /\ \E s \in seeds : /\ s.anchor = seed.anchors[b.cause]
                                     /\ s.user = b.user /\ s.vehicle = b.vehicle
  <2>1. CASE b \in external
    <3>1. b \in aliased
      BY <2>1
    <3>2. b.cause \in DOMAIN seed.anchors
      <4> HIDE DEF aliased
      <4> QED
        BY <1>9, <3>1
    <3> HIDE DEF aliased
    <3> QED
      BY <1>10, <3>1, <3>2
  <2>2. CASE b \notin external
    <3>1. b.cause \in ids
      BY <1>14, <2>2
    <3>2. PICK a \in loaded : a.id = b.cause
      BY <3>1
    <3>3. a.type = "take"
      BY <1>2, <1>13, <1>14, <3>2, ArrivalEvidenced DEF Checked, Evidenced
    <3> QED
      BY <1>12, <3>2, <3>3
  <2> QED
    BY <2>1, <2>2
<1>15. \A s \in seeds : s.start <= k.boundary /\ EndsAfter(s, k.boundary)
  BY <1>3, <1>4
<1> HIDE DEF E
<1>16. Setting(seed, E)
  <2>1. k.boundary \in Int
    BY DEF Checked
  <2> HIDE DEF aliased, external, frozen
  <2>2. Seeding(k, e, seeds, k.boundary, seed, E)
    BY <1>4, <1>9, <1>11, <1>13, <1>14, <1>15, <2>1 DEF Seeding
  <2> QED
    BY <2>2, SeedsSetting
<1>17. ASSUME NEW m \in mutable \ seeds PROVE \E a \in E : a.type = "take" /\ a.id = m.anchor
  <2>1. m \in k.rows /\ ~(m.start <= k.boundary) /\ m.start \in Int /\ k.boundary \in Int
    BY <1>3, <1>4 DEF Checked
  <2>2. PICK r \in AcceptedReceipts : Opens(r, m) /\ r.event \in Accepted
    BY <2>1, SeedIsGrounded
  <2>3. r.event \in loaded /\ r.event.type = "take" /\ r.event.id = m.anchor
    BY <1>2, <2>1, <2>2 DEF Opens
  <2> QED
    BY <1>12, <2>3
<1>18. ASSUME NEW u \in k.rows \ mutable PROVE Untroubled(seeds, E, u)
  <2>1. /\ u.start <= k.boundary /\ ~EndsAfter(u, k.boundary) /\ u \notin seeds
        /\ u.start \in Int /\ u.end \in Int /\ k.boundary \in Int
    BY <1>3 DEF Checked
  <2>2. ~Open(u) /\ u.end <= k.boundary
    BY <2>1 DEF EndsAfter
  <2>3. ASSUME NEW a \in E PROVE ~EndsAfter(u, a.time)
    <3>1. k.boundary < a.time /\ a.time \in Int
      BY <1>13, ArrivalEvidenced DEF Checked, Evidenced, Event
    <3> QED
      BY <2>1, <2>2, <3>1 DEF EndsAfter
  <2>4. ASSUME NEW s \in seeds, Shares(s, u) PROVE ~EndsAfter(u, s.start)
    <3>1. Apart(s, u)
      BY <1>4, <2>1 DEF Checked, RowsInv, Exclusive
    <3>2. EndsAfter(s, u.start)
      BY <1>3, <1>4, <1>15, <2>1 DEF EndsAfter
    <3> QED
      BY <2>4, <3>1, <3>2 DEF Apart, Shares
  <2>5. ASSUME NEW a \in E PROVE a.id # u.anchor
    <3>1. PICK r \in AcceptedReceipts : Opens(r, u) /\ r.event \in Accepted
      BY SeedIsGrounded
    <3>2. r.event.time <= k.boundary /\ r.event.time \in Int /\ k.boundary < a.time
      BY <1>13, <2>1, <3>1 DEF Opens
    <3>3. r.event # a
      BY <2>1, <3>2
    <3>4. r.event.id # a.id
      BY <1>13, <3>1, <3>3, ArrivalEvidenced DEF Checked, Evidenced
    <3> QED
      BY <3>1, <3>4 DEF Opens
  <2> QED
    BY <2>3, <2>4, <2>5 DEF Untroubled
<1>19. ASSUME NEW r \in AcceptedReceipts, r.event.type = "take", r.event \notin E,
              NEW s \in k.rows, Holds(s, r)
       PROVE  s \in seeds \/ s \notin mutable
  <2>1. r.event \in Accepted
    BY DEF Accepted
  <2>2. ~(k.boundary < r.event.time)
    BY <1>2, <1>12, <1>19, <2>1
  <2>3. r.event.time \in Int /\ k.boundary \in Int
    BY <2>1, AcceptedFacts DEF Checked, Event
  <2>4. s.start <= k.boundary
    BY <1>3, <1>19, <2>2, <2>3 DEF Holds
  <2> QED
    BY <1>3, <2>4
<1>20. e \in E \/ (e.type = "return" /\ e \in frozen)
  BY <1>2 DEF E
<1>21. ASSUME e \in frozen PROVE row(e).anchor \in EventIds
  <2>1. e \in external
    BY <1>21
  <2>2. PICK r, s : CausedBy(k, e, r, s) /\ row(e) = s
    BY <1>5, <2>1
  <2>3. s \in Session
    BY <1>3, <2>2 DEF CausedBy
  <2>4. s.anchor \in EventIds
    BY <2>3, RowFields
  <2> HIDE DEF row
  <2> QED
    BY <2>2, <2>4
<1>22. RunInv(seed, E, E, Reconcile(seed, E))
  BY <1>16, ReplayKeepsInvariant
<1> HIDE DEF frozen, row
<1>23. /\ work.mutable = mutable /\ work.projection = Reconcile(seed, E) /\ work.events = E
       /\ e \in frozen => work.frozenAnchor = row(e).anchor
  OBVIOUS
<1> HIDE DEF work
<1>24. e \in work.events \/ (e.type = "return" /\ work.frozenAnchor \in EventIds)
  BY <1>20, <1>21, <1>23
<1>25. Faithful(k, e, FALSE, work, seeds, seed)
  BY <1>4, <1>9, <1>13, <1>15, <1>16, <1>17, <1>18, <1>19, <1>22, <1>23, <1>24 DEF Faithful
<1> QED
  BY <1>8, <1>25

\* Nothing is projected: the RETURN's session has long ended.
LEMMA UnprojectedFaithful ==
  ASSUME NEW k, NEW e, Checked(k, e), e.type = "return", NEW anchor \in EventIds
  PROVE  Faithful(k, e, TRUE, Unprojected(anchor), {}, EmptySeed(k.boundary))
<1> DEFINE seed == EmptySeed(k.boundary)
           work == Unprojected(anchor)
           none == [sessions |-> {}, anchors |-> <<>>, sound |-> TRUE]
<1>1. /\ seed.boundary = k.boundary /\ seed.sessions = {} /\ DOMAIN seed.anchors = {}
      /\ work.mutable = {} /\ work.events = {} /\ work.frozenAnchor = anchor
      /\ work.projection = none
  BY DEF EmptySeed, Unprojected
<1> HIDE DEF seed, work
<1>2. Setting(seed, {})
  <2>1. /\ {} \subseteq k.rows /\ {} \subseteq Accepted \union {e} /\ k.boundary \in Int
        /\ seed.sessions = {Projected(s) : s \in {}}
    BY <1>1 DEF Checked
  <2>2. Seeding(k, e, {}, k.boundary, seed, {})
    BY <1>1, <2>1 DEF Seeding
  <2> QED
    BY <2>2, SeedsSetting
<1>3. DOMAIN StartAnchors(seed) = {}
  BY <1>1 DEF StartAnchors, Own, Carried
<1>4. RunInv(seed, {}, {}, none)
  <2>1. none = [sessions |-> none.sessions, anchors |-> none.anchors, sound |-> TRUE]
        /\ none.sessions = {} /\ none.anchors = <<>>
    OBVIOUS
  <2>2. SessionsInv(seed, {}, {}, {})
    BY <1>1, FS_EmptySet DEF SessionsInv
  <2>3. AnchorsInv(seed, {}, {}, <<>>)
    <3>1. <<>> = [t \in DOMAIN <<>> |-> <<>>[t]] /\ DOMAIN <<>> = {}
      OBVIOUS
    <3> QED
      BY <1>3, <3>1 DEF AnchorsInv
  <2> HIDE DEF none
  <2> QED
    BY <2>1, <2>2, <2>3 DEF RunInv
<1> HIDE DEF none
<1>5. seed.sessions = {Projected(s) : s \in {}}
  BY <1>1
<1>6. Faithful(k, e, TRUE, work, {}, seed)
  BY <1>1, <1>2, <1>4, <1>5 DEF Faithful, Untroubled
<1> QED
  BY <1>6 DEF seed, work

LEMMA IncrementalFaithful ==
  ASSUME NEW k, NEW e, Checked(k, e), IsLatest(e)
  PROVE  \E seeds, seed : Faithful(k, e, TRUE, Incremental(k, e), seeds, seed)
<1> DEFINE causeRow == The(CauseRows(k.rows, e))
           active   == IF e.type = "return" THEN {causeRow}
                       ELSE {s \in k.rows : Open(s) /\ (s.user = e.user \/ s.vehicle = e.vehicle)}
           latest   == {a.time : a \in Accepted}
           t        == IF latest = {} THEN e.time - 1
                       ELSE CHOOSE x \in latest : \A u \in latest : u <= x
           seed     == [boundary |-> t,
                        sessions |-> {Projected(s) : s \in active},
                        anchors  |-> IF e.type = "return" THEN [c \in {e.cause} |-> causeRow.anchor]
                                     ELSE <<>>]
           work     == [mutable |-> active, projection |-> Reconcile(seed, {e}), events |-> {e},
                        frozenAnchor |-> NoEvent]
<1>0. /\ e \in Event /\ e.time \in Int /\ e.type \in {"take", "return"}
      /\ \A a \in Accepted : a.time \in Int /\ a.time < e.time
      /\ \A s \in k.rows : s \in Session /\ s.start \in Int /\ s.end \in Int /\ s.anchor \in EventIds
      /\ k.boundary \in Int /\ k.boundary < e.time
  <2>1. Evidenced(Accepted \union {e})
    BY ArrivalEvidenced DEF Checked
  <2>2. \A a \in Accepted : a.time \in Int /\ a.time < e.time
    BY <2>1 DEF Evidenced, Event, IsLatest
  <2> QED
    BY <2>1, <2>2, RowFields DEF Evidenced, Event, Checked, RowsInv
<1>1. Incremental(k, e) =
        IF e.type = "return" /\ CauseRows(k.rows, e) = {}
        THEN [Unprojected(NoEvent) EXCEPT !.projection.sound = FALSE]
        ELSE IF e.type = "return" /\ ~Open(causeRow) THEN Unprojected(causeRow.anchor)
        ELSE work
  BY Zenon DEF Incremental
<1>2. ASSUME e.type = "return"
      PROVE  \E r, s : CausedBy(k, e, r, s) /\ causeRow = s
  <2>1. PICK r, s : CausedBy(k, e, r, s)
    BY <1>2, CauseRow
  <2>2. causeRow = s
    BY <2>1, TheOnly DEF CausedBy
  <2> QED
    BY <2>1, <2>2
<1>3. CASE e.type = "return" /\ ~Open(causeRow)
  <2>1. PICK r, s : CausedBy(k, e, r, s) /\ causeRow = s
    BY <1>2, <1>3
  <2>2. CauseRows(k.rows, e) # {} /\ s.anchor \in EventIds
    BY <1>0, <2>1 DEF CausedBy
  <2> HIDE DEF work
  <2>3. Incremental(k, e) = Unprojected(causeRow.anchor)
    BY <1>1, <1>3, <2>2
  <2> HIDE DEF causeRow
  <2> QED
    BY <1>3, <2>1, <2>2, <2>3, UnprojectedFaithful
<1>4. CASE ~(e.type = "return" /\ ~Open(causeRow))
  <2>1. Incremental(k, e) = work
    <3>1. ~(e.type = "return" /\ CauseRows(k.rows, e) = {})
      BY <1>2 DEF CausedBy
    <3> HIDE DEF work
    <3> QED
      BY <1>1, <1>4, <3>1
  <2>2. t \in Int /\ t < e.time /\ \A a \in Accepted : a.time <= t
    <3>1. CASE latest = {}
      BY <1>0, <3>1
    <3>2. CASE latest # {}
      <4>1. latest \subseteq Int /\ \A x \in latest : x <= e.time
        BY <1>0
      <4>2. \E x \in latest : \A u \in latest : u <= x
        <5> HIDE DEF latest
        <5> QED
          BY <1>0, <3>2, <4>1, GreatestElement, Zenon
      <4>3. t = CHOOSE x \in latest : \A u \in latest : u <= x
        <5> HIDE DEF latest
        <5> QED
          BY <3>2
      <4>4. t \in latest /\ \A u \in latest : u <= t
        <5> HIDE DEF latest, t
        <5> QED
          BY <4>2, <4>3, Zenon
      <4> HIDE DEF t
      <4> QED
        BY <1>0, <4>4
    <3> QED
      BY <3>1, <3>2
  <2> HIDE DEF t
  <2>3. active \subseteq k.rows /\ \A s \in active : Open(s)
    BY <1>2, <1>4 DEF CausedBy
  <2>4. \A s \in k.rows : s.start <= t
    BY <2>2, SeedIsGrounded DEF Opens
  <2>5. \A s \in active : s.start <= t /\ EndsAfter(s, t) /\ EndsAfter(s, k.boundary)
    BY <2>3, <2>4 DEF EndsAfter
  <2>6. /\ seed.boundary = t /\ seed.sessions = {Projected(s) : s \in active}
        /\ e.type = "return" => DOMAIN seed.anchors = {e.cause} /\ seed.anchors[e.cause] = causeRow.anchor
        /\ e.type # "return" => DOMAIN seed.anchors = {}
    <3> HIDE DEF active, causeRow
    <3> QED
      OBVIOUS
  <2>7. e.type = "return" => causeRow \in active
    OBVIOUS
  <2>8. \A u \in k.rows : e.type = "take" /\ Open(u) /\ Shares(e, u) => u \in active
    BY DEF Shares
  <2> HIDE DEF active, seed
  <2>9. Seeding(k, e, active, t, seed, {e})
    <3>1. \A c \in DOMAIN seed.anchors : \E s \in active : s.anchor = seed.anchors[c]
      BY <2>6, <2>7
    <3>2. e.id \notin DOMAIN seed.anchors
      BY <2>6 DEF Checked, Admissible, Arrival
    <3>3. e.type = "return" =>
            /\ e.cause \in DOMAIN seed.anchors
            /\ \E s \in active : /\ s.anchor = seed.anchors[e.cause]
                                 /\ s.user = e.user /\ s.vehicle = e.vehicle
      <4> SUFFICES ASSUME e.type = "return"
                   PROVE  causeRow.user = e.user /\ causeRow.vehicle = e.vehicle
        BY <2>6, <2>7
      <4> QED
        BY <1>2 DEF CausedBy, Holds
    <3> QED
      BY <2>2, <2>3, <2>5, <2>6, <3>1, <3>2, <3>3 DEF Seeding
  <2>10. Setting(seed, {e})
    BY <2>9, SeedsSetting
  <2>11. RunInv(seed, {e}, {e}, Reconcile(seed, {e}))
    BY <2>10, ReplayKeepsInvariant
  <2>12. ASSUME NEW u \in k.rows \ active PROVE Untroubled(active, {e}, u)
    <3>1. ASSUME NEW s \in active, Shares(s, u) PROVE ~EndsAfter(u, s.start)
      <4>1. Apart(s, u)
        BY <2>3 DEF Checked, RowsInv, Exclusive
      <4>2. EndsAfter(s, u.start)
        BY <2>3 DEF EndsAfter
      <4> QED
        BY <3>1, <4>1, <4>2 DEF Apart, Shares
    <3>2. ASSUME e.type = "take", Shares(e, u) PROVE ~EndsAfter(u, e.time)
      <4>1. ~Open(u)
        BY <2>8, <3>2
      <4>2. u.end <= k.boundary \/ \E r \in AcceptedReceipts : r.event.time = u.end
        BY <4>1 DEF Checked, RowsInv, EndsKnown
      <4>3. u.end <= k.boundary \/ u.end < e.time
        BY <1>0, <4>2 DEF Accepted
      <4> QED
        BY <1>0, <4>1, <4>3 DEF EndsAfter
    <3>3. e.id # u.anchor
      BY SeedIsGrounded, ArrivalIsNew DEF Opens, Checked
    <3> QED
      BY <3>1, <3>2, <3>3 DEF Untroubled
  <2>13. /\ work.mutable = active /\ work.projection = Reconcile(seed, {e}) /\ work.events = {e}
    OBVIOUS
  <2> HIDE DEF work
  <2>14. Faithful(k, e, TRUE, work, active, seed)
    BY <1>0, <2>3, <2>5, <2>6, <2>10, <2>11, <2>12, <2>13 DEF Faithful
  <2> QED
    BY <2>1, <2>14
<1> QED
  BY <1>3, <1>4

----------------------------------------------------------------------------
(* New references: distinct, and different from those in the table.        *)

LEMMA FreshRefs ==
  ASSUME NEW taken, IsFiniteSet(taken), NEW k \in Nat, k # 0
  PROVE  /\ FreshRef(taken, k) \in Nat /\ FreshRef(taken, k) \notin taken
         /\ Cardinality((1..FreshRef(taken, k)) \ taken) = k
<1> DEFINE free(n) == Cardinality((1..n) \ taken)
           T == {n \in Nat : k <= free(n) => \E m \in 1..n : m \notin taken /\ free(m) = k}
           N == Cardinality(taken) + k
<1>0. \A n \in Nat : IsFiniteSet((1..n) \ taken) /\ free(n) \in Nat
  <2> SUFFICES ASSUME NEW n \in Nat PROVE IsFiniteSet((1..n) \ taken) /\ free(n) \in Nat
    OBVIOUS
  <2>1. IsFiniteSet(1..n)
    BY FS_Interval
  <2>2. IsFiniteSet((1..n) \ taken)
    BY <2>1, FS_Difference
  <2> QED
    BY <2>2, FS_CardinalityType
<1>1. 0 \in T
  <2>1. (1..0) \ taken = {}
    OBVIOUS
  <2>2. free(0) = 0
    BY <2>1, FS_EmptySet
  <2> QED
    BY <2>2
<1>2. ASSUME NEW n \in Nat, n \in T PROVE n + 1 \in T
  <2> SUFFICES ASSUME k <= free(n + 1)
               PROVE  \E m \in 1..(n + 1) : m \notin taken /\ free(m) = k
    OBVIOUS
  <2>1. CASE k <= free(n)
    <3>1. PICK m \in 1..n : m \notin taken /\ free(m) = k
      BY <1>2, <2>1
    <3>2. m \in 1..(n + 1)
      BY <3>1
    <3> QED
      BY <3>1, <3>2
  <2>2. CASE ~(k <= free(n))
    <3>1. CASE n + 1 \in taken
      <4>1. (1..(n + 1)) \ taken = (1..n) \ taken
        BY <3>1
      <4> QED
        BY <2>2, <4>1
    <3>2. CASE n + 1 \notin taken
      <4>1. (1..(n + 1)) \ taken = ((1..n) \ taken) \union {n + 1} /\ n + 1 \notin (1..n) \ taken
        BY <3>2
      <4>2. free(n + 1) = free(n) + 1
        BY <1>0, <4>1, FS_AddElement
      <4>3. free(n) \in Nat
        BY <1>0
      <4> HIDE DEF free
      <4>4. free(n + 1) = k
        BY <2>2, <4>2, <4>3
      <4> QED
        BY <3>2, <4>4
    <3> QED
      BY <3>1, <3>2
  <2> QED
    BY <2>1, <2>2
<1>3. N \in T /\ N \in Nat
  <2>1. Nat \subseteq T
    <3> HIDE DEF T
    <3> QED
      BY <1>1, <1>2, SetInduction, Zenon
  <2>2. N \in Nat
    BY FS_CardinalityType
  <2> HIDE DEF T, N
  <2> QED
    BY <2>1, <2>2
<1>4. k <= free(N)
  <2> DEFINE A == (1..N) \ taken
  <2>1. /\ IsFiniteSet(A) /\ Cardinality(A) \in Nat /\ Cardinality(taken) \in Nat
        /\ IsFiniteSet(1..N) /\ Cardinality(1..N) = N
    <3>1. Cardinality(taken) \in Nat
      BY FS_CardinalityType
    <3>2. IsFiniteSet(1..N) /\ Cardinality(1..N) = N
      BY <1>3, FS_Interval
    <3> QED
      BY <1>0, <1>3, <3>1, <3>2
  <2>2. 1..N \in SUBSET (A \union taken)
    OBVIOUS
  <2> HIDE DEF A
  <2>3. /\ IsFiniteSet(A \union taken)
        /\ Cardinality(A \union taken) = Cardinality(A) + Cardinality(taken) - Cardinality(A \intersect taken)
    BY <2>1, FS_Union
  <2>4. Cardinality(A \intersect taken) \in Nat
    BY <2>1, FS_Intersection, FS_CardinalityType
  <2>5. Cardinality(1..N) <= Cardinality(A \union taken)
    BY <2>2, <2>3, FS_Subset
  <2>6. N = Cardinality(taken) + k
    OBVIOUS
  <2> HIDE DEF N
  <2>7. k <= Cardinality(A)
    BY <2>1, <2>3, <2>4, <2>5, <2>6
  <2> QED
    BY <2>7 DEF A
<1>5. \E m \in 1..N : m \notin taken /\ Cardinality((1..m) \ taken) = k
  BY <1>3, <1>4
<1>6. FreshRef(taken, k) = CHOOSE m \in 1..N : m \notin taken /\ Cardinality((1..m) \ taken) = k
  BY Zenon DEF FreshRef
<1> HIDE DEF N
<1>7. /\ FreshRef(taken, k) \in 1..N /\ FreshRef(taken, k) \notin taken
      /\ Cardinality((1..FreshRef(taken, k)) \ taken) = k
  BY <1>5, <1>6, Zenon
<1> QED
  BY <1>3, <1>7

LEMMA RankGrows ==
  ASSUME NEW S, IsFiniteSet(S), \A x \in S : x.anchor \in Nat, NEW s \in S, NEW r \in S,
         s.anchor # r.anchor
  PROVE  /\ Cardinality({n \in S : n.anchor <= s.anchor}) \in Nat
         /\ Cardinality({n \in S : n.anchor <= s.anchor}) # 0
         /\ Cardinality({n \in S : n.anchor <= s.anchor}) # Cardinality({n \in S : n.anchor <= r.anchor})
<1> DEFINE upTo(a) == {n \in S : n.anchor <= a}
<1>1. \A a : IsFiniteSet(upTo(a)) /\ Cardinality(upTo(a)) \in Nat
  BY FS_Subset, FS_CardinalityType
<1>2. s \in upTo(s.anchor)
  OBVIOUS
<1>3. Cardinality(upTo(s.anchor)) # 0
  BY <1>1, <1>2, FS_EmptySet
<1>4. ASSUME NEW x \in S, NEW y \in S, x.anchor < y.anchor
      PROVE  Cardinality(upTo(x.anchor)) # Cardinality(upTo(y.anchor))
  <2>1. upTo(x.anchor) \in SUBSET upTo(y.anchor)
    BY <1>4
  <2>2. y \in upTo(y.anchor) /\ y \notin upTo(x.anchor)
    BY <1>4
  <2> HIDE DEF upTo
  <2> QED
    BY <1>1, <2>1, <2>2, FS_Subset
<1>5. s.anchor < r.anchor \/ r.anchor < s.anchor
  OBVIOUS
<1> HIDE DEF upTo
<1>6. Cardinality(upTo(s.anchor)) # Cardinality(upTo(r.anchor))
  BY <1>4, <1>5
<1> QED
  BY <1>1, <1>3, <1>6 DEF upTo

----------------------------------------------------------------------------
(* The sessions of a faithful projection, and the rows they keep.          *)

\* Session s goes on as the seed c.
ContinuesSeed(s, c) ==
  s.anchor = c.anchor /\ s.user = c.user /\ s.vehicle = c.vehicle /\ s.start = c.start

LEMMA ProjectedSession ==
  ASSUME NEW k, NEW e, Checked(k, e), NEW incremental, NEW work, NEW seeds, NEW seed,
         Faithful(k, e, incremental, work, seeds, seed), NEW s \in work.projection.sessions
  PROVE  /\ s.user \in Users /\ s.vehicle \in Vehicles /\ s.start \in Int /\ s.anchor \in EventIds
         /\ s.end \in Int /\ s.endEvent \in EventIds \union {NoEvent} /\ s.start <= s.end
         /\ s.reason \in {"open", "return", "handover", "vehicle_switch"}
         /\ (\E c \in seeds : ContinuesSeed(s, c)) \/ (\E a \in work.events : OpensAt(s, a))
         /\ \E a \in Accepted \union {e} : OpensAt(s, a)
         /\ Open(s) \/ \E a \in work.events : s.end = a.time
         /\ EndsAfter(s, k.boundary)
<1>1. Traced(seed, work.events, s)
  BY DEF Faithful, RunInv, SessionsInv
<1>2. \A a \in work.events : a \in Event /\ a \in Accepted \union {e} /\ k.boundary < a.time
  BY ArrivalEvidenced DEF Faithful, Checked, Evidenced
<1>3. (\E c \in seeds : ContinuesSeed(s, c)) \/ (\E a \in work.events : OpensAt(s, a))
  <2>1. CASE \E x \in seed.sessions : SameStart(s, x)
    <3>1. PICK x \in seed.sessions : SameStart(s, x)
      BY <2>1
    <3>2. PICK c \in seeds : x = Projected(c)
      BY DEF Faithful
    <3> QED
      BY <3>1, <3>2, ProjectedFields DEF SameStart, ContinuesSeed
  <2> QED
    BY <1>1, <2>1 DEF Traced
<1>4. PICK a \in Accepted \union {e} : OpensAt(s, a)
  <2>1. CASE \E c \in seeds : ContinuesSeed(s, c)
    <3>1. PICK c \in seeds : ContinuesSeed(s, c)
      BY <2>1
    <3>2. PICK r \in AcceptedReceipts : Opens(r, c) /\ r.event \in Accepted
      BY SeedIsGrounded DEF Faithful
    <3>3. OpensAt(s, r.event)
      BY <3>1, <3>2 DEF ContinuesSeed, Opens, OpensAt
    <3> QED
      BY <3>2, <3>3
  <2> QED
    BY <1>2, <1>3, <2>1
<1>5. a \in Event
  BY ArrivalEvidenced DEF Checked, Evidenced
<1>6. /\ s.user \in Users /\ s.vehicle \in Vehicles /\ s.start \in Int /\ s.anchor \in EventIds
  BY <1>4, <1>5 DEF OpensAt, Event
<1>7. s.end \in Int /\ s.reason \in {"open", "return", "handover", "vehicle_switch"}
  BY <1>1 DEF Traced
<1>8. CASE Open(s)
  <2>1. s.end = s.start /\ s.endEvent = NoEvent
    BY <1>1, <1>8 DEF Traced
  <2> QED
    BY <1>3, <1>4, <1>6, <1>7, <1>8, <2>1 DEF EndsAfter
<1>9. CASE ~Open(s)
  <2>1. PICK b \in work.events : EndsAt(s, b)
    BY <1>1, <1>9 DEF Traced
  <2>2. s.endEvent \in EventIds /\ s.start <= s.end /\ s.end = b.time
    BY <1>2, <2>1 DEF EndsAt, Event
  <2>3. k.boundary < s.end /\ k.boundary \in Int
    BY <1>2, <2>2 DEF Checked
  <2>4. EndsAfter(s, k.boundary)
    BY <1>7, <2>3 DEF EndsAfter
  <2> QED
    BY <1>3, <1>4, <1>6, <1>7, <2>2, <2>4
<1> QED
  BY <1>8, <1>9

\* A seed's anchor stays the anchor of its own session.
LEMMA SeedContinues ==
  ASSUME NEW k, NEW e, Checked(k, e), NEW incremental, NEW work, NEW seeds, NEW seed,
         Faithful(k, e, incremental, work, seeds, seed), NEW c \in seeds
  PROVE  /\ c.anchor \in DOMAIN work.projection.anchors
         /\ work.projection.anchors[c.anchor] = c.anchor
         /\ \E s \in work.projection.sessions : ContinuesSeed(s, c)
         /\ \A s \in work.projection.sessions : s.anchor = c.anchor => ContinuesSeed(s, c)
<1> DEFINE S == work.projection.sessions
           E == work.events
<1>1. Projected(c) \in seed.sessions /\ Setting(seed, E) /\ SessionsInv(seed, E, E, S)
      /\ AnchorsInv(seed, E, S, work.projection.anchors) /\ E \subseteq E
  BY DEF Faithful, RunInv
<1>2. \A s \in S : s.anchor = c.anchor => ContinuesSeed(s, c)
  <2> SUFFICES ASSUME NEW s \in S, s.anchor = c.anchor PROVE ContinuesSeed(s, c)
    OBVIOUS
  <2>1. s.anchor = Projected(c).anchor
    BY ProjectedFields
  <2> HIDE DEF S, E
  <2>2. SameStart(s, Projected(c))
    BY <1>1, <2>1, CarriedUse
  <2> QED
    BY <2>2, ProjectedFields DEF SameStart, ContinuesSeed
<1>3. PICK s \in S : s.anchor = c.anchor
  BY <1>1, ProjectedFields DEF SessionsInv
<1>4. c.anchor \in DOMAIN work.projection.anchors /\ work.projection.anchors[c.anchor] = c.anchor
  BY <1>1, <1>3 DEF AnchorsInv
<1> QED
  BY <1>2, <1>3, <1>4

\* What a row owes its opening TAKE.
LEMMA SameAnchorSameUse ==
  ASSUME NEW k, NEW e, Checked(k, e), NEW incremental, NEW work, NEW seeds, NEW seed,
         Faithful(k, e, incremental, work, seeds, seed), NEW s \in work.projection.sessions,
         NEW m \in k.rows, m.anchor = s.anchor
  PROVE  m.user = s.user /\ m.vehicle = s.vehicle /\ m.start = s.start
<1>1. PICK a \in Accepted \union {e} : OpensAt(s, a)
  BY ProjectedSession
<1>2. PICK r \in AcceptedReceipts : Opens(r, m) /\ r.event \in Accepted
  BY SeedIsGrounded
<1>3. a = r.event
  BY <1>1, <1>2, ArrivalEvidenced DEF Checked, Evidenced, OpensAt, Opens
<1> QED
  BY <1>1, <1>2, <1>3 DEF OpensAt, Opens

\* A projected session keeps a row of its own driver and car, no two keep
\* the same row, and a carried row is kept by its own session.
LEMMA Retention ==
  ASSUME NEW k, NEW e, Checked(k, e), NEW incremental, NEW work, NEW seeds, NEW seed,
         Faithful(k, e, incremental, work, seeds, seed), NEW s \in work.projection.sessions
  PROVE  /\ \A m \in Retained(work, s) :
              /\ m \in work.mutable /\ m \in k.rows /\ m.user = s.user /\ m.vehicle = s.vehicle
              /\ m.anchor = s.anchor \/ (/\ m.anchor \in DOMAIN work.projection.anchors
                                         /\ work.projection.anchors[m.anchor] = s.anchor)
              /\ m \in seeds => ContinuesSeed(s, m)
         /\ \A c \in seeds : ContinuesSeed(s, c) => Retained(work, s) # {} /\ Retained(work, s) \subseteq {c}
<1> DEFINE own    == {m \in work.mutable : m.anchor = s.anchor}
           merged == {m \in work.mutable : /\ m.anchor \in DOMAIN work.projection.anchors
                                           /\ work.projection.anchors[m.anchor] = s.anchor}
           earliest == {m \in merged : \A n \in merged \ {m} :
                          m.start < n.start \/ (m.start = n.start /\ m.ref < n.ref)}
<1>1. Retained(work, s) = IF own # {} THEN own ELSE earliest
  BY Zenon DEF Retained
<1>2. Retained(work, s) \subseteq own \union merged /\ (own # {} => Retained(work, s) = own)
  BY <1>1
<1>3. \A m \in own \union merged : m \in work.mutable /\ m \in k.rows
  BY DEF Faithful
<1>4. ASSUME NEW m \in merged PROVE m.user = s.user /\ m.vehicle = s.vehicle
  <2>1. CASE m \in seeds
    <3>1. m.anchor = s.anchor
      BY <2>1, SeedContinues
    <3> QED
      BY <1>3, <3>1, SameAnchorSameUse
  <2>2. CASE m \notin seeds
    <3>1. PICK a \in work.events : a.type = "take" /\ a.id = m.anchor
      BY <2>2 DEF Faithful
    <3>2. PICK x \in work.projection.sessions :
            /\ x.anchor = work.projection.anchors[a.id] /\ x.user = a.user /\ x.vehicle = a.vehicle
      BY <3>1 DEF Faithful, RunInv, AnchorsInv
    <3>3. x = s
      BY <3>1, <3>2 DEF Faithful, RunInv, SessionsInv
    <3>4. PICK r \in AcceptedReceipts : Opens(r, m) /\ r.event \in Accepted
      BY <1>3, SeedIsGrounded
    <3>5. a = r.event
      BY <3>1, <3>4, ArrivalEvidenced DEF Checked, Evidenced, Opens, Faithful
    <3> QED
      BY <3>2, <3>3, <3>4, <3>5 DEF Opens
  <2> QED
    BY <2>1, <2>2
<1>5. ASSUME NEW m \in own PROVE m.user = s.user /\ m.vehicle = s.vehicle
  BY <1>3, SameAnchorSameUse
<1>6. ASSUME NEW m \in own \union merged, m \in seeds PROVE ContinuesSeed(s, m)
  <2>1. m.anchor = s.anchor
    BY <1>6, SeedContinues
  <2> QED
    BY <1>6, <2>1, SeedContinues
<1>7. ASSUME NEW c \in seeds, ContinuesSeed(s, c) PROVE own = {c}
  <2>1. c \in own
    BY <1>7 DEF Faithful, ContinuesSeed
  <2>2. \A m \in own : m = c
    BY <1>3, <1>7, <2>1 DEF ContinuesSeed, Checked, RowsInv, Distinct
  <2> QED
    BY <2>1, <2>2
<1>8. \A m \in own \union merged :
        m.anchor = s.anchor \/ (/\ m.anchor \in DOMAIN work.projection.anchors
                                /\ work.projection.anchors[m.anchor] = s.anchor)
  OBVIOUS
<1> HIDE DEF own, merged
<1> QED
  BY <1>2, <1>3, <1>4, <1>5, <1>6, <1>7, <1>8

LEMMA RetainedApart ==
  ASSUME NEW k, NEW e, Checked(k, e), NEW incremental, NEW work, NEW seeds, NEW seed,
         Faithful(k, e, incremental, work, seeds, seed),
         NEW s \in work.projection.sessions, NEW r \in work.projection.sessions, s # r
  PROVE  Retained(work, s) \intersect Retained(work, r) = {}
<1> SUFFICES ASSUME NEW m, m \in Retained(work, s), m \in Retained(work, r) PROVE FALSE
  OBVIOUS
<1> DEFINE anchors == work.projection.anchors
<1>1. \A x \in work.projection.sessions : x.anchor \in DOMAIN anchors /\ anchors[x.anchor] = x.anchor
  BY DEF Faithful, RunInv, AnchorsInv
<1>2. m.anchor = s.anchor \/ (m.anchor \in DOMAIN anchors /\ anchors[m.anchor] = s.anchor)
  BY Retention
<1>3. m.anchor = r.anchor \/ (m.anchor \in DOMAIN anchors /\ anchors[m.anchor] = r.anchor)
  BY Retention
<1>4. s.anchor = r.anchor
  BY <1>1, <1>2, <1>3
<1> QED
  BY <1>4 DEF Faithful, RunInv, SessionsInv

\* Nothing that admission checks before it writes can fail.
LEMMA FaithfulSound ==
  ASSUME NEW k, NEW e, Checked(k, e), NEW incremental, NEW work, NEW seeds, NEW seed,
         Faithful(k, e, incremental, work, seeds, seed)
  PROVE  work.projection.sound = TRUE /\ Materializable(work, incremental)
<1>1. work.projection.sound = TRUE
  BY DEF Faithful, RunInv
<1>2. \A s, r \in work.projection.sessions : s # r => Retained(work, s) \intersect Retained(work, r) = {}
  BY RetainedApart
<1>3. ASSUME incremental, NEW m \in work.mutable
      PROVE  \E s \in work.projection.sessions : m \in Retained(work, s)
  <2>1. m \in seeds
    BY <1>3 DEF Faithful
  <2>2. PICK s \in work.projection.sessions : ContinuesSeed(s, m)
    BY <2>1, SeedContinues
  <2>3. Retained(work, s) # {} /\ Retained(work, s) \subseteq {m}
    BY <2>1, <2>2, Retention
  <2> QED
    BY <2>3
<1> QED
  BY <1>1, <1>2, <1>3 DEF Materializable

----------------------------------------------------------------------------
(* What is written.                                                        *)

\* The row x stores the projected session s.
Stores(x, s) ==
  /\ x.user = s.user /\ x.vehicle = s.vehicle /\ x.start = s.start /\ x.anchor = s.anchor
  /\ x.end = s.end /\ x.endEvent = s.endEvent /\ x.reason = s.reason

\* f gives each projected session its row: typed, marked when it is held
\* across the boundary, and with a reference that no other row has.
Rewrites(f, k, work) ==
  /\ \A s \in work.projection.sessions :
       /\ f[s] \in Session /\ Stores(f[s], s)
       /\ f[s].gen <= k.generation /\ (f[s].gen = k.generation <=> s.start <= k.boundary)
       /\ \/ f[s].ref \notin {r.ref : r \in k.rows}
          \/ \E m \in Retained(work, s) : f[s].ref = m.ref
  /\ \A s, r \in work.projection.sessions : f[s].ref = f[r].ref => s = r

LEMMA MaterializedIs ==
  ASSUME NEW k, NEW e, Checked(k, e), NEW incremental, NEW work, NEW seeds, NEW seed,
         Faithful(k, e, incremental, work, seeds, seed)
  PROVE  \E f : /\ Rewrites(f, k, work)
                /\ Materialized(k, work, incremental) =
                     (k.rows \ work.mutable) \union {f[s] : s \in work.projection.sessions}
<1> DEFINE desired == work.projection.sessions
           new     == {s \in desired : Retained(work, s) = {}}
           taken   == {r.ref : r \in k.rows}
           rank(s) == Cardinality({n \in new : n.anchor <= s.anchor})
           gen(s)  == IF Retained(work, s) = {} THEN NoGeneration
                      ELSE IF incremental THEN The(Retained(work, s)).gen
                      ELSE IF s.start <= k.boundary THEN k.generation
                      ELSE NoGeneration
           ref(s)  == IF s \in new THEN FreshRef(taken, rank(s)) ELSE The(Retained(work, s)).ref
           row(s)  == [ref |-> ref(s), user |-> s.user, vehicle |-> s.vehicle, start |-> s.start,
                       anchor |-> s.anchor, end |-> s.end, endEvent |-> s.endEvent,
                       reason |-> s.reason, gen |-> gen(s)]
           f == [s \in desired |-> row(s)]
<1>1. Materialized(k, work, incremental) = (k.rows \ work.mutable) \union {row(s) : s \in desired}
  BY Zenon DEF Materialized, Untouched
<1>2. \A s \in desired : f[s] = row(s)
  <2> HIDE DEF row, desired
  <2> QED
    OBVIOUS
<1>3. {row(s) : s \in desired} = {f[s] : s \in desired}
  <2> HIDE DEF row, desired, f
  <2> QED
    BY <1>2, Zenon
<1>4. \A s \in desired :
        /\ f[s].ref = ref(s) /\ f[s].gen = gen(s) /\ Stores(f[s], s)
        /\ (s.user \in Users /\ s.vehicle \in Vehicles /\ s.start \in Int /\ s.anchor \in EventIds
            /\ s.end \in Int /\ s.endEvent \in EventIds \union {NoEvent}
            /\ s.reason \in {"open", "return", "handover", "vehicle_switch"}
            /\ ref(s) \in Nat /\ gen(s) \in Nat \union {NoGeneration}
            => f[s] \in Session)
  <2> HIDE DEF f, ref, gen, desired
  <2> SUFFICES ASSUME NEW s \in desired
               PROVE  /\ f[s].ref = ref(s) /\ f[s].gen = gen(s) /\ Stores(f[s], s)
                      /\ (s.user \in Users /\ s.vehicle \in Vehicles /\ s.start \in Int /\ s.anchor \in EventIds
                          /\ s.end \in Int /\ s.endEvent \in EventIds \union {NoEvent}
                          /\ s.reason \in {"open", "return", "handover", "vehicle_switch"}
                          /\ ref(s) \in Nat /\ gen(s) \in Nat \union {NoGeneration}
                          => f[s] \in Session)
    OBVIOUS
  <2>1. f[s] = row(s)
    BY <1>2
  <2>2. /\ row(s).ref = ref(s) /\ row(s).gen = gen(s) /\ Stores(row(s), s)
        /\ (s.user \in Users /\ s.vehicle \in Vehicles /\ s.start \in Int /\ s.anchor \in EventIds
            /\ s.end \in Int /\ s.endEvent \in EventIds \union {NoEvent}
            /\ s.reason \in {"open", "return", "handover", "vehicle_switch"}
            /\ ref(s) \in Nat /\ gen(s) \in Nat \union {NoGeneration}
            => row(s) \in Session)
    BY DEF Stores, Session
  <2> HIDE DEF row
  <2> QED
    BY <2>1, <2>2
<1> HIDE DEF f, row
<1>5. \A m \in k.rows : m \in Session /\ m.ref \in Nat /\ m.gen \in Nat \union {NoGeneration}
  BY DEF Checked, RowsInv, Session
<1>6. IsFiniteSet(taken)
  <2> DEFINE refs == [r \in k.rows |-> r.ref]
  <2>1. taken = {refs[r] : r \in k.rows}
    OBVIOUS
  <2>2. IsFiniteSet(k.rows)
    BY DEF Checked, RowsInv
  <2> HIDE DEF refs, taken
  <2>3. IsFiniteSet({refs[r] : r \in k.rows})
    BY <2>2, FiniteImage
  <2> QED
    BY <2>1, <2>3, Zenon
<1>7. \A s \in desired : Retained(work, s) # {} =>
        The(Retained(work, s)) \in Retained(work, s) /\ The(Retained(work, s)) \in k.rows
  <2>1. \A s \in desired : Retained(work, s) # {} => The(Retained(work, s)) \in Retained(work, s)
    BY DEF The
  <2> QED
    BY <2>1, Retention
<1>8. /\ IsFiniteSet(new) /\ \A s \in desired : s.anchor \in Nat
      /\ \A s, r \in desired : s.anchor = r.anchor => s = r
  <2>1. IsFiniteSet(desired) /\ \A s, r \in desired : s.anchor = r.anchor => s = r
    BY DEF Faithful, RunInv, SessionsInv
  <2>2. IsFiniteSet(new)
    BY <2>1, FS_Subset
  <2>3. \A s \in desired : s.anchor \in Nat
    BY ProjectedSession, IdAssumption
  <2> QED
    BY <2>1, <2>2, <2>3
<1>9. \A s \in new : rank(s) \in Nat /\ rank(s) # 0
  <2> SUFFICES ASSUME NEW s \in new PROVE rank(s) \in Nat /\ rank(s) # 0
    OBVIOUS
  <2> DEFINE upTo == {n \in new : n.anchor <= s.anchor}
  <2>1. s \in upTo
    BY <1>8
  <2>2. IsFiniteSet(upTo)
    BY <1>8, FS_Subset
  <2> HIDE DEF upTo
  <2>3. Cardinality(upTo) \in Nat /\ Cardinality(upTo) # 0
    BY <2>1, <2>2, FS_CardinalityType, FS_EmptySet
  <2> QED
    BY <2>3 DEF upTo
<1>10. \A s, r \in new : s # r => rank(s) # rank(r)
  <2> SUFFICES ASSUME NEW s \in new, NEW r \in new, s # r PROVE rank(s) # rank(r)
    OBVIOUS
  <2>1. s.anchor # r.anchor /\ \A x \in new : x.anchor \in Nat
    BY <1>8
  <2> HIDE DEF new
  <2> QED
    BY <1>8, <2>1, RankGrows
<1> HIDE DEF rank
<1>11. \A s \in new : /\ FreshRef(taken, rank(s)) \in Nat /\ FreshRef(taken, rank(s)) \notin taken
                      /\ Cardinality((1..FreshRef(taken, rank(s))) \ taken) = rank(s)
  <2> HIDE DEF new, taken
  <2> QED
    BY <1>6, <1>9, FreshRefs
<1>12. \A s \in desired : /\ ref(s) \in Nat
                          /\ s \in new => ref(s) = FreshRef(taken, rank(s)) /\ ref(s) \notin taken
                          /\ s \notin new => /\ The(Retained(work, s)) \in Retained(work, s)
                                             /\ The(Retained(work, s)) \in k.rows
                                             /\ ref(s) = The(Retained(work, s)).ref /\ ref(s) \in taken
  <2> SUFFICES ASSUME NEW s \in desired
               PROVE  /\ ref(s) \in Nat
                      /\ s \in new => ref(s) = FreshRef(taken, rank(s)) /\ ref(s) \notin taken
                      /\ s \notin new => /\ The(Retained(work, s)) \in Retained(work, s)
                                         /\ The(Retained(work, s)) \in k.rows
                                         /\ ref(s) = The(Retained(work, s)).ref /\ ref(s) \in taken
    OBVIOUS
  <2>1. CASE s \in new
    <3>1. ref(s) = FreshRef(taken, rank(s))
      BY <2>1
    <3> QED
      BY <1>11, <2>1, <3>1
  <2>2. CASE s \notin new
    <3>1. ref(s) = The(Retained(work, s)).ref
      BY <2>2
    <3>2. The(Retained(work, s)) \in Retained(work, s) /\ The(Retained(work, s)) \in k.rows
      BY <1>7, <2>2
    <3> QED
      BY <1>5, <2>2, <3>1, <3>2
  <2> QED
    BY <2>1, <2>2
<1> HIDE DEF ref
<1>13. ASSUME NEW s \in desired, NEW r \in desired, ref(s) = ref(r) PROVE s = r
  <2>1. CASE s \in new /\ r \in new
    <3>1. rank(s) = rank(r)
      BY <1>11, <1>12, <1>13, <2>1
    <3> QED
      BY <1>10, <2>1, <3>1
  <2>2. CASE s \notin new /\ r \notin new
    <3>1. /\ The(Retained(work, s)).ref = The(Retained(work, r)).ref
          /\ The(Retained(work, s)) \in k.rows /\ The(Retained(work, r)) \in k.rows
      BY <1>12, <1>13, <2>2
    <3>2. The(Retained(work, s)) = The(Retained(work, r))
      BY <3>1 DEF Checked, RowsInv, Distinct
    <3>3. Retained(work, s) \intersect Retained(work, r) # {}
      BY <1>12, <2>2, <3>2
    <3> QED
      BY <3>3, RetainedApart
  <2>3. ~(s \in new /\ r \notin new) /\ ~(s \notin new /\ r \in new)
    BY <1>12, <1>13
  <2> QED
    BY <2>1, <2>2, <2>3
<1>14. ASSUME NEW s \in desired
       PROVE  /\ gen(s) \in Nat \union {NoGeneration}
              /\ gen(s) <= k.generation /\ (gen(s) = k.generation <=> s.start <= k.boundary)
  <2>0. /\ k.generation \in Nat /\ NoGeneration < k.generation /\ NoGeneration # k.generation
        /\ k.boundary \in Int /\ s.start \in Int
    BY ProjectedSession DEF Checked, NoGeneration
  <2>1. CASE \E c \in seeds : ContinuesSeed(s, c)
    <3>1. PICK c \in seeds : ContinuesSeed(s, c)
      BY <2>1
    <3>2. Retained(work, s) # {} /\ The(Retained(work, s)) = c
      BY <1>7, <3>1, Retention
    <3>3. c \in k.rows /\ EndsAfter(c, k.boundary) /\ c.start = s.start
      BY <3>1 DEF Faithful, ContinuesSeed
    <3>4. c.gen <= k.generation /\ (c.gen = k.generation <=> s.start <= k.boundary)
      BY <3>3 DEF Checked, RowsInv, Marked
    <3>5. CASE incremental
      <4>1. gen(s) = c.gen
        BY <3>2, <3>5
      <4> QED
        BY <1>5, <3>3, <3>4, <4>1
    <3>6. CASE ~incremental
      <4>1. s.start <= k.boundary
        BY <3>1, <3>3, <3>6 DEF Faithful
      <4>2. gen(s) = k.generation
        BY <3>2, <3>6, <4>1
      <4> QED
        BY <2>0, <4>1, <4>2
    <3> QED
      BY <3>5, <3>6
  <2>2. CASE ~ \E c \in seeds : ContinuesSeed(s, c)
    <3>1. PICK a \in work.events : OpensAt(s, a)
      BY <2>2, ProjectedSession
    <3>2. k.boundary < s.start
      BY <3>1 DEF Faithful, OpensAt
    <3>3. ~(s.start <= k.boundary)
      BY <2>0, <3>2
    <3>4. incremental => Retained(work, s) = {}
      <4> SUFFICES ASSUME incremental, NEW m \in Retained(work, s) PROVE FALSE
        OBVIOUS
      <4>1. m \in seeds
        <5>1. m \in work.mutable
          BY Retention
        <5> QED
          BY <5>1 DEF Faithful
      <4> QED
        BY <2>2, <4>1, Retention
    <3>5. gen(s) = NoGeneration
      BY <3>3, <3>4
    <3> HIDE DEF gen
    <3>6. NoGeneration <= k.generation
      BY <2>0 DEF NoGeneration
    <3> QED
      BY <2>0, <3>3, <3>5, <3>6
  <2> QED
    BY <2>1, <2>2
<1> HIDE DEF gen, new
<1>15. Rewrites(f, k, work)
  <2>1. \A s \in desired :
          /\ f[s] \in Session /\ Stores(f[s], s)
          /\ f[s].gen <= k.generation /\ (f[s].gen = k.generation <=> s.start <= k.boundary)
    <3> SUFFICES ASSUME NEW s \in desired
                 PROVE  /\ f[s] \in Session /\ Stores(f[s], s) /\ f[s].gen <= k.generation
                        /\ f[s].gen = k.generation <=> s.start <= k.boundary
      OBVIOUS
    <3>1. /\ s.user \in Users /\ s.vehicle \in Vehicles /\ s.start \in Int /\ s.anchor \in EventIds
          /\ s.end \in Int /\ s.endEvent \in EventIds \union {NoEvent}
          /\ s.reason \in {"open", "return", "handover", "vehicle_switch"}
      BY ProjectedSession
    <3> HIDE DEF desired
    <3>2. f[s] \in Session /\ Stores(f[s], s) /\ f[s].gen = gen(s)
      BY <1>4, <1>12, <1>14, <3>1
    <3> QED
      BY <1>14, <3>2
  <2>2. \A s \in desired : \/ f[s].ref \notin taken
                           \/ \E m \in Retained(work, s) : f[s].ref = m.ref
    BY <1>4, <1>12
  <2>3. \A s, r \in desired : f[s].ref = f[r].ref => s = r
    BY <1>4, <1>13
  <2> QED
    BY <2>1, <2>2, <2>3 DEF Rewrites
<1> QED
  BY <1>1, <1>3, <1>15

----------------------------------------------------------------------------
(* The table after an accepted admission.                                  *)

AnchorKey(a) == IF a.type = "take" THEN a.id ELSE a.cause

\* What a replayed event is associated with from now on.
LEMMA AnchorOfEvent ==
  ASSUME NEW k, NEW e, Checked(k, e), NEW incremental, NEW work, NEW seeds, NEW seed,
         Faithful(k, e, incremental, work, seeds, seed), NEW a \in work.events
  PROVE  /\ work.projection.anchors[AnchorKey(a)] \in EventIds
         /\ a.type = "take" => \E s \in work.projection.sessions :
              /\ s.anchor = work.projection.anchors[AnchorKey(a)] /\ s.start <= a.time
              /\ s.user = a.user /\ s.vehicle = a.vehicle
<1> DEFINE anchors == work.projection.anchors
<1>1. ASSUME NEW b \in work.events, b.type = "take"
      PROVE  \E s \in work.projection.sessions :
               /\ s.anchor = anchors[b.id] /\ s.start <= b.time
               /\ s.user = b.user /\ s.vehicle = b.vehicle /\ s.anchor \in EventIds
  <2>1. PICK s \in work.projection.sessions :
          /\ s.anchor = anchors[b.id] /\ s.start <= b.time
          /\ s.user = b.user /\ s.vehicle = b.vehicle
    BY <1>1 DEF Faithful, RunInv, AnchorsInv
  <2>2. s.anchor \in EventIds
    BY ProjectedSession
  <2> QED
    BY <2>1, <2>2
<1>2. CASE a.type = "take"
  BY <1>1, <1>2 DEF AnchorKey
<1>3. CASE a.type # "take"
  <2>1. a \in Event /\ a.type = "return" /\ AnchorKey(a) = a.cause
    BY <1>3, ArrivalEvidenced DEF Faithful, Checked, Evidenced, Event, AnchorKey
  <2>2. \/ \E b \in work.events : b.id = a.cause
        \/ /\ a.cause \in DOMAIN StartAnchors(seed)
           /\ \E c \in seed.sessions : c.anchor = StartAnchors(seed)[a.cause]
    BY <2>1 DEF Faithful, Setting, CausesKnown
  <2>3. CASE \E b \in work.events : b.id = a.cause
    <3>1. PICK b \in work.events : b.id = a.cause
      BY <2>3
    <3>2. b.type = "take"
      BY <2>1, <3>1, ArrivalEvidenced DEF Faithful, Checked, Evidenced
    <3> QED
      BY <1>1, <1>3, <2>1, <3>1, <3>2
  <2>4. CASE /\ a.cause \in DOMAIN StartAnchors(seed)
             /\ \E c \in seed.sessions : c.anchor = StartAnchors(seed)[a.cause]
    <3>1. PICK x \in seeds : Projected(x).anchor = StartAnchors(seed)[a.cause]
      BY <2>4 DEF Faithful
    <3>2. x.anchor \in EventIds
      BY RowFields DEF Faithful, Checked, RowsInv
    <3>3. anchors[a.cause] = StartAnchors(seed)[a.cause]
      BY <2>4 DEF Faithful, RunInv, AnchorsInv
    <3> QED
      BY <1>3, <2>1, <3>1, <3>2, <3>3, ProjectedFields
  <2> QED
    BY <2>2, <2>3, <2>4
<1> QED
  BY <1>2, <1>3

\* The accepted receipts once e is recorded and the replayed ones re-anchored.
Rebased(R, e, work) ==
  /\ \A a \in Accepted \union {e} : \E q \in R : q.event = a
  /\ \A q \in R : q.event \in Accepted \union {e}
  /\ \A q \in R : IF q.event \in work.events
                  THEN q.anchor = work.projection.anchors[AnchorKey(q.event)]
                  ELSE q.event # e => \E r \in AcceptedReceipts : r.event = q.event /\ r.anchor = q.anchor

LEMMA MaterializedKeeps ==
  ASSUME NEW k, NEW e, Checked(k, e), NEW incremental, NEW work, NEW seeds, NEW seed,
         Faithful(k, e, incremental, work, seeds, seed), NEW R, Rebased(R, e, work)
  PROVE  RowsInv(R, Materialized(k, work, incremental), k.boundary, k.generation)
<1> DEFINE S   == work.projection.sessions
           old == k.rows \ work.mutable
<1>1. PICK f : /\ Rewrites(f, k, work)
               /\ Materialized(k, work, incremental) = old \union {f[s] : s \in S}
  BY MaterializedIs
<1> DEFINE rows == old \union {f[s] : s \in S}
<1>2. \A x \in rows : x \in old \/ \E s \in S : x = f[s]
  OBVIOUS
<1>3. \A s \in S : /\ f[s] \in rows /\ f[s] \in Session /\ Stores(f[s], s)
                   /\ f[s].gen <= k.generation /\ (f[s].gen = k.generation <=> s.start <= k.boundary)
  BY <1>1 DEF Rewrites
<1>4. \A u \in old : /\ u \in rows /\ u \in k.rows /\ u \in Session /\ u \notin work.mutable
                     /\ Untroubled(seeds, work.events, u)
  BY DEF Checked, RowsInv, Faithful
<1>5. \A a \in Accepted \union {e} : \E q \in R : q.event = a
  BY DEF Rebased
<1>6. IsFiniteSet(rows) /\ rows \subseteq Session
  <2>1. IsFiniteSet(old)
    BY FS_Subset DEF Checked, RowsInv
  <2>2. IsFiniteSet({f[s] : s \in S})
    BY FiniteImage DEF Faithful, RunInv, SessionsInv
  <2>3. IsFiniteSet(rows)
    <3> HIDE DEF old, S
    <3> QED
      BY <2>1, <2>2, FS_Union
  <2> QED
    BY <1>2, <1>3, <1>4, <2>3
<1> HIDE DEF rows, old
<1>7. Grounded(R, rows)
  <2>1. ASSUME NEW u \in old PROVE \E q \in R : Opens(q, u)
    BY <1>4, <1>5, SeedIsGrounded DEF Opens
  <2>2. ASSUME NEW s \in S PROVE \E q \in R : Opens(q, f[s])
    <3>1. PICK a \in Accepted \union {e} : OpensAt(s, a)
      BY ProjectedSession
    <3> QED
      BY <1>3, <1>5, <3>1 DEF OpensAt, Opens, Stores
  <2> QED
    BY <1>2, <2>1, <2>2 DEF Grounded
<1>8. EndsKnown(R, rows, k.boundary)
  <2>1. ASSUME NEW u \in old
        PROVE  /\ u.start <= u.end
               /\ Open(u) \/ u.end <= k.boundary \/ \E q \in R : q.event.time = u.end
    <3>1. /\ u.start <= u.end
          /\ Open(u) \/ u.end <= k.boundary \/ \E r \in AcceptedReceipts : r.event.time = u.end
      BY <1>4 DEF Checked, RowsInv, EndsKnown
    <3>2. \A r \in AcceptedReceipts : r.event \in Accepted
      BY DEF Accepted
    <3> QED
      BY <1>5, <3>1, <3>2
  <2>2. ASSUME NEW s \in S
        PROVE  /\ f[s].start <= f[s].end
               /\ Open(f[s]) \/ \E q \in R : q.event.time = f[s].end
    <3>1. s.start <= s.end /\ (Open(s) \/ \E a \in work.events : s.end = a.time)
      BY ProjectedSession
    <3>2. \A a \in work.events : a \in Accepted \union {e}
      BY DEF Faithful
    <3> QED
      BY <1>3, <1>5, <3>1, <3>2 DEF Stores, Open
  <2> QED
    BY <1>2, <2>1, <2>2 DEF EndsKnown
<1>9. ASSUME NEW u \in old, NEW s \in S PROVE u.anchor # f[s].anchor /\ u.ref # f[s].ref
  <2>1. u.anchor # s.anchor
    <3>1. CASE \E c \in seeds : ContinuesSeed(s, c)
      <4>1. PICK c \in seeds : c.anchor = s.anchor
        BY <3>1 DEF ContinuesSeed
      <4>2. c \in k.rows /\ c # u
        BY <1>4 DEF Faithful
      <4> QED
        BY <1>4, <4>1, <4>2 DEF Checked, RowsInv, Distinct
    <3>2. CASE \E a \in work.events : OpensAt(s, a)
      BY <1>4, <3>2 DEF Untroubled, OpensAt
    <3> QED
      BY <3>1, <3>2, ProjectedSession
  <2>2. u.ref # f[s].ref
    <3> SUFFICES ASSUME u.ref = f[s].ref PROVE FALSE
      OBVIOUS
    <3>1. PICK m \in Retained(work, s) : m.ref = u.ref
      BY <1>1, <1>4 DEF Rewrites
    <3>2. m \in k.rows /\ m \in work.mutable
      BY Retention
    <3>3. m = u
      BY <1>4, <3>1, <3>2 DEF Checked, RowsInv, Distinct
    <3> QED
      BY <1>4, <3>2, <3>3
  <2> QED
    BY <1>3, <2>1, <2>2 DEF Stores
<1>10. Distinct(rows)
  <2>1. ASSUME NEW u \in old, NEW v \in old, u.anchor = v.anchor \/ u.ref = v.ref PROVE u = v
    BY <1>4, <2>1 DEF Checked, RowsInv, Distinct
  <2>2. ASSUME NEW s \in S, NEW r \in S, f[s].anchor = f[r].anchor \/ f[s].ref = f[r].ref PROVE f[s] = f[r]
    <3>1. CASE f[s].anchor = f[r].anchor
      <4>1. s.anchor = r.anchor
        BY <1>3, <3>1 DEF Stores
      <4>2. s = r
        BY <4>1 DEF Faithful, RunInv, SessionsInv
      <4> QED
        BY <4>2
    <3>2. CASE f[s].ref = f[r].ref
      BY <1>1, <3>2 DEF Rewrites
    <3> QED
      BY <2>2, <3>1, <3>2
  <2> HIDE DEF S
  <2> QED
    BY <1>2, <1>9, <2>1, <2>2 DEF Distinct
<1>11. ASSUME NEW u \in old, NEW s \in S PROVE Apart(u, f[s]) /\ Apart(f[s], u)
  <2>1. ASSUME Shares(s, u) PROVE ~EndsAfter(u, s.start)
    <3>1. CASE \E c \in seeds : ContinuesSeed(s, c)
      BY <1>4, <2>1, <3>1 DEF Untroubled, ContinuesSeed, Shares
    <3>2. CASE \E a \in work.events : OpensAt(s, a)
      BY <1>4, <2>1, <3>2 DEF Untroubled, OpensAt, Shares
    <3> QED
      BY <3>1, <3>2, ProjectedSession
  <2> QED
    BY <1>3, <2>1 DEF Apart, Shares, Stores
<1>12. Exclusive(rows)
  <2>1. ASSUME NEW u \in old, NEW v \in old, u # v PROVE Apart(u, v)
    BY <1>4, <2>1 DEF Checked, RowsInv, Exclusive
  <2>2. ASSUME NEW s \in S, NEW r \in S, f[s] # f[r] PROVE Apart(f[s], f[r])
    <3>1. Apart(s, r)
      BY <2>2 DEF Faithful, RunInv, SessionsInv
    <3> QED
      BY <1>3, <3>1 DEF Apart, Stores, EndsAfter, Open
  <2> HIDE DEF S
  <2> QED
    BY <1>2, <1>11, <2>1, <2>2 DEF Exclusive
<1>13. Marked(rows, k.boundary, k.generation)
  <2>1. ASSUME NEW u \in old
        PROVE  /\ u.gen <= k.generation
               /\ u.gen = k.generation <=> u.start <= k.boundary /\ EndsAfter(u, k.boundary)
    BY <1>4 DEF Checked, RowsInv, Marked
  <2>2. ASSUME NEW s \in S
        PROVE  /\ f[s].gen <= k.generation
               /\ f[s].gen = k.generation <=> f[s].start <= k.boundary /\ EndsAfter(f[s], k.boundary)
    <3>1. EndsAfter(s, k.boundary)
      BY ProjectedSession
    <3> QED
      BY <1>3, <3>1 DEF Stores, EndsAfter, Open
  <2> QED
    BY <1>2, <2>1, <2>2 DEF Marked
<1>14. Anchored(R, rows)
  <2> SUFFICES ASSUME NEW q \in R, q.event.type = "take" PROVE \E x \in rows : Holds(x, q)
    BY DEF Anchored
  <2>1. CASE q.event \in work.events
    <3>1. q.anchor = work.projection.anchors[AnchorKey(q.event)]
      BY <2>1 DEF Rebased
    <3>2. PICK s \in S :
            /\ s.anchor = work.projection.anchors[AnchorKey(q.event)] /\ s.start <= q.event.time
            /\ s.user = q.event.user /\ s.vehicle = q.event.vehicle
      BY <2>1, AnchorOfEvent
    <3>3. Holds(f[s], q)
      BY <1>3, <3>1, <3>2 DEF Holds, Stores
    <3> QED
      BY <1>3, <3>3
  <2>2. CASE q.event \notin work.events
    <3>1. q.event # e
      BY <2>2 DEF Faithful
    <3>2. PICK r \in AcceptedReceipts : r.event = q.event /\ r.anchor = q.anchor
      BY <2>2, <3>1 DEF Rebased
    <3>3. PICK x \in k.rows : Holds(x, r)
      BY <3>2 DEF Checked, RowsInv, Anchored
    <3>4. Holds(x, q)
      BY <3>2, <3>3 DEF Holds
    <3>5. CASE x \in seeds
      <4>1. PICK s \in S : ContinuesSeed(s, x)
        BY <3>5, SeedContinues
      <4>2. Holds(f[s], q)
        BY <1>3, <3>4, <4>1 DEF Holds, Stores, ContinuesSeed
      <4> QED
        BY <1>3, <4>2
    <3>6. CASE x \notin work.mutable
      BY <3>4, <3>6 DEF rows, old
    <3>7. x \in seeds \/ x \notin work.mutable
      BY <2>2, <3>2, <3>3 DEF Faithful
    <3> QED
      BY <3>5, <3>6, <3>7
  <2> QED
    BY <2>1, <2>2
<1>15. RowsInv(R, rows, k.boundary, k.generation)
  BY <1>6, <1>7, <1>8, <1>10, <1>12, <1>13, <1>14 DEF RowsInv
<1> QED
  BY <1>1, <1>15 DEF rows

----------------------------------------------------------------------------
(* The step that records evidence.                                         *)

Refuses(plan) ==
  /\ plan.outcome # "accepted" /\ plan.sound = TRUE
  /\ plan.checkpoint = RolledTo(boundary) /\ plan.work = Unprojected(NoEvent)

Accepts(plan, e) ==
  /\ plan.outcome = "accepted" /\ Eligibility(e) = "accepted"
  /\ plan.checkpoint = RolledTo(Target) /\ plan.work = Projection(RolledTo(Target), e)
  /\ plan.sound <=> plan.work.projection.sound /\ Materializable(plan.work, IsLatest(e))

LEMMA PlanIs ==
  ASSUME NEW e
  PROVE  Refuses(AdmissionPlan(e)) \/ Accepts(AdmissionPlan(e), e)
<1> DEFINE checkpoint == RolledTo(Target)
           work       == Projection(checkpoint, e)
           sound      == work.projection.sound /\ Materializable(work, IsLatest(e))
           refusal(o) == [outcome |-> o, sound |-> TRUE, checkpoint |-> RolledTo(boundary),
                          work |-> Unprojected(NoEvent)]
           accept     == [outcome |-> "accepted", sound |-> sound,
                          checkpoint |-> checkpoint, work |-> work]
<1>1. \A o : o # "accepted" => Refuses(refusal(o))
  BY DEF Refuses
<1>2. CASE Eligibility(e) # "accepted"
  <2>1. AdmissionPlan(e) = refusal(Eligibility(e))
    BY <1>2, Zenon DEF AdmissionPlan
  <2> QED
    BY <1>1, <1>2, <2>1
<1>3. CASE Eligibility(e) = "accepted" /\ ~WithinPolicy(checkpoint, e)
  <2>1. AdmissionPlan(e) = refusal("reconciliation_policy_exceeded")
    BY <1>3, Zenon DEF AdmissionPlan
  <2> QED
    BY <1>1, <2>1
<1>4. CASE Eligibility(e) = "accepted" /\ WithinPolicy(checkpoint, e) /\ sound /\ ReopensRetired(work)
  <2>1. AdmissionPlan(e) = refusal("vehicle_retired")
    BY <1>4, Zenon DEF AdmissionPlan
  <2> QED
    BY <1>1, <2>1
<1>5. CASE /\ Eligibility(e) = "accepted" /\ WithinPolicy(checkpoint, e)
           /\ ~(sound /\ ReopensRetired(work))
  <2>1. AdmissionPlan(e) = accept
    BY <1>5, Zenon DEF AdmissionPlan
  <2>2. /\ work = Projection(RolledTo(Target), e) /\ checkpoint = RolledTo(Target)
        /\ sound <=> work.projection.sound /\ Materializable(work, IsLatest(e))
    OBVIOUS
  <2> HIDE DEF work, checkpoint, sound
  <2>3. /\ accept.outcome = "accepted" /\ accept.sound = sound
        /\ accept.checkpoint = checkpoint /\ accept.work = work
    OBVIOUS
  <2> HIDE DEF accept
  <2> QED
    BY <1>5, <2>1, <2>2, <2>3, Zenon DEF Accepts
<1> QED
  BY <1>2, <1>3, <1>4, <1>5, Zenon

\* Nothing is rewritten when nothing is projected.
LEMMA UnprojectedRows ==
  ASSUME NEW k, NEW incremental
  PROVE  Materialized(k, Unprojected(NoEvent), incremental) = k.rows
<1> DEFINE work    == Unprojected(NoEvent)
           desired == work.projection.sessions
           new     == {s \in desired : Retained(work, s) = {}}
           taken   == {r.ref : r \in k.rows}
           rank(s) == Cardinality({n \in new : n.anchor <= s.anchor})
           gen(s)  == IF Retained(work, s) = {} THEN NoGeneration
                      ELSE IF incremental THEN The(Retained(work, s)).gen
                      ELSE IF s.start <= k.boundary THEN k.generation
                      ELSE NoGeneration
           ref(s)  == IF s \in new THEN FreshRef(taken, rank(s)) ELSE The(Retained(work, s)).ref
           row(s)  == [ref |-> ref(s), user |-> s.user, vehicle |-> s.vehicle, start |-> s.start,
                       anchor |-> s.anchor, end |-> s.end, endEvent |-> s.endEvent,
                       reason |-> s.reason, gen |-> gen(s)]
<1>1. Materialized(k, work, incremental) = (k.rows \ work.mutable) \union {row(s) : s \in desired}
  BY Zenon DEF Materialized, Untouched
<1>2. work.mutable = {} /\ desired = {}
  BY DEF Unprojected
<1> HIDE DEF row, work, desired
<1> QED
  BY <1>1, <1>2 DEF work

\* The checkpoint that accepted evidence is projected from.
LEMMA AcceptanceChecked ==
  ASSUME EvidenceInv, ProjectionInv, NEW e, Arrival(e), Eligibility(e) = "accepted"
  PROVE  Checked(RolledTo(Target), e)
<1>1. now \in Nat /\ boundary \in Int /\ generation \in Nat
  BY DEF EvidenceInv, EvidenceTypeOK
<1>2. Target \in Int /\ boundary <= Target
  BY <1>1, TargetBounds
<1>3. /\ RolledTo(Target).boundary = Target /\ RolledTo(Target).generation \in Nat
  BY <1>1, <1>2, RolledBounds
<1>4. RowsInv(AcceptedReceipts, sessions, boundary, generation)
  BY DEF ProjectionInv
<1>5. RowsInv(AcceptedReceipts, RolledTo(Target).rows, Target, RolledTo(Target).generation)
  BY <1>1, <1>2, <1>4, RolledKeeps
<1>6. Target < e.time
  <2>1. ~(e.time <= Target)
    BY DEF Eligibility
  <2>2. e.time \in Int
    BY DEF Arrival, Event
  <2> QED
    BY <1>2, <2>1, <2>2
<1> QED
  BY <1>2, <1>3, <1>5, <1>6 DEF Checked, Admissible, ProjectionInv

LEMMA ProjectionFaithful ==
  ASSUME NEW k, NEW e, Checked(k, e)
  PROVE  \E seeds, seed : Faithful(k, e, IsLatest(e), Projection(k, e), seeds, seed)
<1>1. CASE IsLatest(e)
  <2>1. Projection(k, e) = Incremental(k, e) /\ IsLatest(e) = TRUE
    BY <1>1 DEF Projection
  <2>2. \E seeds, seed : Faithful(k, e, TRUE, Incremental(k, e), seeds, seed)
    BY <1>1, IncrementalFaithful
  <2> QED
    BY <2>1, <2>2
<1>2. CASE ~IsLatest(e)
  <2>1. Projection(k, e) = FullReplay(k, e) /\ IsLatest(e) = FALSE
    BY <1>2 DEF Projection
  <2>2. \E seeds, seed : Faithful(k, e, FALSE, FullReplay(k, e), seeds, seed)
    BY FullReplayFaithful
  <2> QED
    BY <2>1, <2>2
<1> QED
  BY <1>1, <1>2

\* A refusal stores its receipt and nothing else.
Refused(e) ==
  /\ UNCHANGED <<boundary, generation, sessions>>
  /\ \E new : /\ ReceiptShape(new) /\ new.event = e
              /\ new.outcome # "accepted" /\ new.anchor = NoEvent
              /\ receipts' = receipts \union {new}

\* An acceptance stores the rows of `work` and associates its events anew.
Admitted(e, k, work, moved, new) ==
  /\ boundary' = k.boundary /\ generation' = k.generation
  /\ sessions' = Materialized(k, work, IsLatest(e))
  /\ Extends(e, moved, new) /\ new.outcome = "accepted"
  /\ \A r \in receipts : moved[r].anchor = IF r.event \in work.events
                                           THEN work.projection.anchors[AnchorKey(r.event)]
                                           ELSE r.anchor
  /\ new.anchor = IF e \in work.events THEN work.projection.anchors[AnchorKey(e)]
                  ELSE work.frozenAnchor

LEMMA RecordSteps ==
  ASSUME EvidenceInv, ProjectionInv, NEW e, Arrival(e), Record(e)
  PROVE  /\ UNCHANGED raised
         /\ \/ Refused(e)
            \/ \E work, seeds, seed, moved, new :
                 /\ Checked(RolledTo(Target), e)
                 /\ Faithful(RolledTo(Target), e, IsLatest(e), work, seeds, seed)
                 /\ Admitted(e, RolledTo(Target), work, moved, new)
<1> DEFINE plan == AdmissionPlan(e)
<1>1. /\ raised' = (raised \/ ~plan.sound)
      /\ plan.sound => /\ boundary' = plan.checkpoint.boundary
                       /\ generation' = plan.checkpoint.generation
                       /\ sessions' = Materialized(plan.checkpoint, plan.work, IsLatest(e))
                       /\ receipts' = {[r EXCEPT !.anchor = AnchorAfter(plan.work, r)] : r \in receipts}
                                        \union {NewReceipt(e, plan)}
  BY Zenon DEF Record
<1>2. Refuses(plan) \/ Accepts(plan, e)
  BY PlanIs
<1> HIDE DEF plan
<1>3. raised = FALSE /\ \A r \in receipts : ReceiptShape(r)
  BY DEF ProjectionInv, EvidenceInv, EvidenceTypeOK, ReceiptShape
<1>03. plan.sound => UNCHANGED raised
  BY <1>1, <1>3, Zenon
<1> DEFINE new      == NewReceipt(e, plan)
           after(r) == AnchorAfter(plan.work, r)
           moved    == [r \in receipts |-> [r EXCEPT !.anchor = after(r)]]
<1>4. /\ new = [event |-> e, outcome |-> plan.outcome,
                anchor |-> IF e \in plan.work.events
                           THEN AnchorAfter(plan.work, [event |-> e, anchor |-> NoEvent])
                           ELSE plan.work.frozenAnchor]
  BY DEF NewReceipt
<1>5. ReceiptShape(new) /\ new.event = e /\ new.outcome = plan.outcome
  BY <1>4 DEF ReceiptShape
<1>6. new.anchor = IF e \in plan.work.events THEN plan.work.projection.anchors[AnchorKey(e)]
                   ELSE plan.work.frozenAnchor
  BY <1>4 DEF AnchorAfter, AnchorKey
<1>7. \A r \in receipts : after(r) = IF r.event \in plan.work.events
                                     THEN plan.work.projection.anchors[AnchorKey(r.event)]
                                     ELSE r.anchor
  BY DEF AnchorAfter, AnchorKey
<1>8. /\ DOMAIN moved = receipts
      /\ {moved[r] : r \in receipts} = {[r EXCEPT !.anchor = after(r)] : r \in receipts}
  BY Zenon
<1>9. \A r \in receipts : /\ ReceiptShape(moved[r]) /\ moved[r].event = r.event
                          /\ moved[r].outcome = r.outcome /\ moved[r].anchor = after(r)
  <2> HIDE DEF after
  <2> SUFFICES ASSUME NEW r \in receipts
               PROVE  /\ ReceiptShape(moved[r]) /\ moved[r].event = r.event
                      /\ moved[r].outcome = r.outcome /\ moved[r].anchor = after(r)
    OBVIOUS
  <2> DEFINE a == after(r)
  <2>1. moved[r] = [r EXCEPT !.anchor = a]
    BY DEF a
  <2> HIDE DEF a
  <2>2. [r EXCEPT !.anchor = a] = [event |-> r.event, outcome |-> r.outcome, anchor |-> a]
    BY <1>3 DEF ReceiptShape
  <2> QED
    BY <2>1, <2>2 DEF ReceiptShape, a
<1> HIDE DEF moved, after, new
<1>10. plan.sound => receipts' = {moved[r] : r \in receipts} \union {new}
  BY <1>1, <1>8 DEF new, after
<1>11. ASSUME Refuses(plan) PROVE UNCHANGED raised /\ Refused(e)
  <2>1. /\ plan.outcome # "accepted" /\ plan.sound = TRUE
        /\ plan.checkpoint = RolledTo(boundary) /\ plan.work = Unprojected(NoEvent)
    BY <1>11 DEF Refuses
  <2>2. plan.work.events = {} /\ plan.work.frozenAnchor = NoEvent
    BY <2>1 DEF Unprojected
  <2>3. \A r \in receipts : moved[r] = r
    <3> SUFFICES ASSUME NEW r \in receipts PROVE moved[r] = r
      OBVIOUS
    <3>1. moved[r].anchor = r.anchor
      BY <1>7, <1>9, <2>2
    <3> QED
      BY <1>3, <1>9, <3>1 DEF ReceiptShape
  <2>4. receipts' = receipts \union {new}
    <3>1. {moved[r] : r \in receipts} = receipts
      BY <2>3
    <3> QED
      BY <1>10, <2>1, <3>1
  <2>5. /\ RolledTo(boundary).boundary = boundary /\ RolledTo(boundary).generation = generation
        /\ RolledTo(boundary).rows = sessions
    <3>1. boundary <= boundary
      BY DEF EvidenceInv, EvidenceTypeOK
    <3> QED
      BY <3>1 DEF RolledTo
  <2>6. UNCHANGED <<boundary, generation, sessions>>
    BY <1>1, <2>1, <2>5, UnprojectedRows
  <2>7. UNCHANGED raised
    BY <1>03, <2>1
  <2>8. new.anchor = NoEvent
    BY <1>6, <2>2
  <2> QED
    BY <1>5, <2>1, <2>4, <2>6, <2>7, <2>8 DEF Refused
<1>12. ASSUME Accepts(plan, e)
       PROVE  /\ UNCHANGED raised
              /\ \E work, seeds, seed, mv, nw :
                   /\ Checked(RolledTo(Target), e)
                   /\ Faithful(RolledTo(Target), e, IsLatest(e), work, seeds, seed)
                   /\ Admitted(e, RolledTo(Target), work, mv, nw)
  <2> DEFINE k == RolledTo(Target)
  <2>1. /\ plan.outcome = "accepted" /\ Eligibility(e) = "accepted"
        /\ plan.checkpoint = k /\ plan.work = Projection(k, e)
        /\ plan.sound <=> plan.work.projection.sound /\ Materializable(plan.work, IsLatest(e))
    BY <1>12 DEF Accepts
  <2> HIDE DEF k
  <2>2. Checked(k, e)
    BY <2>1, AcceptanceChecked DEF k
  <2>3. PICK seeds, seed : Faithful(k, e, IsLatest(e), plan.work, seeds, seed)
    BY <2>1, <2>2, ProjectionFaithful
  <2>4. plan.work.projection.sound = TRUE /\ Materializable(plan.work, IsLatest(e))
    BY <2>2, <2>3, FaithfulSound
  <2>5. plan.sound
    BY <2>1, <2>4
  <2>6. UNCHANGED raised
    BY <1>03, <2>5
  <2>7. Extends(e, moved, new)
    <3>1. new.outcome \in Outcome
      BY <1>5, <2>1 DEF Outcome
    <3> QED
      BY <1>5, <1>8, <1>9, <1>10, <2>1, <2>5, <3>1 DEF Extends
  <2>8. Admitted(e, k, plan.work, moved, new)
    BY <1>1, <1>5, <1>6, <1>7, <1>9, <2>1, <2>5, <2>7 DEF Admitted
  <2> QED
    BY <2>2, <2>3, <2>6, <2>8 DEF k
<1> QED
  BY <1>2, <1>11, <1>12

LEMMA RefusedKeeps ==
  ASSUME ProjectionInv, NEW e, Refused(e), UNCHANGED raised
  PROVE  ProjectionInv'
<1>1. PICK new : new.outcome # "accepted" /\ new.anchor = NoEvent /\ receipts' = receipts \union {new}
  BY DEF Refused
<1>2. AcceptedReceipts' = AcceptedReceipts
  BY <1>1 DEF AcceptedReceipts
<1>3. Accepted' = Accepted
  BY <1>2 DEF Accepted
<1>4. IsFiniteSet(receipts')
  BY <1>1, FS_AddElement DEF ProjectionInv
<1>5. AnchorsTyped(receipts')
  BY <1>1 DEF AnchorsTyped, ProjectionInv
<1>6. Sortable(Accepted')
  BY <1>3 DEF ProjectionInv
<1>7. RowsInv(AcceptedReceipts', sessions', boundary', generation')
  BY <1>2 DEF ProjectionInv, Refused
<1>8. ~raised'
  BY DEF ProjectionInv
<1> QED
  BY <1>4, <1>5, <1>6, <1>7, <1>8 DEF ProjectionInv

LEMMA AdmittedKeeps ==
  ASSUME ProjectionInv, UNCHANGED raised, NEW k, NEW e, Checked(k, e), NEW work, NEW seeds, NEW seed,
         Faithful(k, e, IsLatest(e), work, seeds, seed),
         NEW moved, NEW new, Admitted(e, k, work, moved, new)
  PROVE  ProjectionInv'
<1> DEFINE R == AcceptedReceipts'
<1>1. /\ EvidenceInv /\ Admissible(e) /\ Eligibility(e) = "accepted" /\ IsFiniteSet(receipts)
      /\ Sortable(Accepted)
  BY DEF Checked, Admissible
<1>2. /\ receipts' = {moved[r] : r \in receipts} \union {new}
      /\ new.event = e /\ new.outcome = "accepted"
      /\ \A r \in receipts : moved[r].event = r.event /\ moved[r].outcome = r.outcome
  BY DEF Admitted, Extends
<1>3. \A r \in receipts : moved[r].anchor = IF r.event \in work.events
                                            THEN work.projection.anchors[AnchorKey(r.event)]
                                            ELSE r.anchor
  BY DEF Admitted
<1>4. new.anchor = IF e \in work.events THEN work.projection.anchors[AnchorKey(e)]
                   ELSE work.frozenAnchor
  BY DEF Admitted
<1>5. /\ work.events \subseteq Accepted \union {e}
      /\ e \in work.events \/ (e.type = "return" /\ work.frozenAnchor \in EventIds)
  BY DEF Faithful
<1>6. \A r \in AcceptedReceipts : r \in receipts /\ r.outcome = "accepted" /\ r.event \in Accepted
  BY DEF AcceptedReceipts, Accepted
<1>7. \A q \in R : q = new \/ \E r \in AcceptedReceipts : q = moved[r]
  <2>1. \A q \in R : q \in receipts' /\ q.outcome = "accepted"
    BY DEF AcceptedReceipts
  <2> QED
    BY <1>2, <2>1 DEF AcceptedReceipts
<1>8. new \in R /\ \A r \in AcceptedReceipts : moved[r] \in R
  BY <1>2, <1>6 DEF AcceptedReceipts
<1> HIDE DEF R
<1>9. Rebased(R, e, work)
  <2>1. \A a \in Accepted \union {e} : \E q \in R : q.event = a
    <3>1. \A a \in Accepted : \E r \in AcceptedReceipts : r.event = a
      BY DEF Accepted
    <3> QED
      BY <1>2, <1>6, <1>8, <3>1
  <2>2. \A q \in R : q.event \in Accepted \union {e}
    BY <1>2, <1>6, <1>7
  <2>3. ASSUME NEW q \in R
        PROVE  IF q.event \in work.events
               THEN q.anchor = work.projection.anchors[AnchorKey(q.event)]
               ELSE q.event # e => \E r \in AcceptedReceipts : r.event = q.event /\ r.anchor = q.anchor
    <3>1. CASE q = new
      BY <1>2, <1>4, <3>1
    <3>2. CASE \E r \in AcceptedReceipts : q = moved[r]
      <4>1. PICK r \in AcceptedReceipts : q = moved[r]
        BY <3>2
      <4>2. q.event = r.event
        BY <1>2, <1>6, <4>1
      <4> QED
        BY <1>3, <1>6, <4>1, <4>2
    <3> QED
      BY <1>7, <3>1, <3>2
  <2> QED
    BY <2>1, <2>2, <2>3 DEF Rebased
<1>10. RowsInv(AcceptedReceipts', sessions', boundary', generation')
  <2>1. RowsInv(R, Materialized(k, work, IsLatest(e)), k.boundary, k.generation)
    BY <1>9, MaterializedKeeps
  <2> QED
    BY <2>1 DEF Admitted, R
<1>11. IsFiniteSet(receipts')
  <2>1. IsFiniteSet({moved[r] : r \in receipts})
    BY <1>1, FiniteImage
  <2> QED
    BY <1>2, <2>1, FS_AddElement
<1>12. Accepted' = Accepted \union {e}
  <2>1. Accepted' = {q.event : q \in R}
    BY DEF Accepted, R
  <2> QED
    BY <1>9, <2>1 DEF Rebased
<1>13. Sortable(Accepted')
  BY <1>1, <1>12, ArrivalSortable
<1>14. AnchorsTyped(receipts')
  <2>1. \A a \in work.events : work.projection.anchors[AnchorKey(a)] \in EventIds
    BY AnchorOfEvent
  <2>2. new.anchor \in EventIds
    BY <1>4, <1>5, <2>1
  <2>3. \A r \in receipts : moved[r].anchor \in EventIds \union {NoEvent}
    BY <1>3, <2>1 DEF ProjectionInv, AnchorsTyped
  <2> QED
    BY <1>2, <2>2, <2>3 DEF AnchorsTyped
<1>15. ~raised'
  BY DEF ProjectionInv
<1> QED
  BY <1>10, <1>11, <1>13, <1>14, <1>15 DEF ProjectionInv

LEMMA RecordKeeps ==
  ASSUME EvidenceInv, ProjectionInv, NEW e, Arrival(e), Record(e)
  PROVE  ProjectionInv'
<1>1. UNCHANGED raised
  BY RecordSteps
<1>2. CASE Refused(e)
  BY <1>1, <1>2, RefusedKeeps
<1>3. CASE \E work, seeds, seed, moved, new :
             /\ Checked(RolledTo(Target), e)
             /\ Faithful(RolledTo(Target), e, IsLatest(e), work, seeds, seed)
             /\ Admitted(e, RolledTo(Target), work, moved, new)
  BY <1>1, <1>3, AdmittedKeeps
<1> QED
  BY <1>2, <1>3, RecordSteps

----------------------------------------------------------------------------
(* The other steps.                                                        *)

LEMMA MaintainKeeps ==
  ASSUME EvidenceInv, ProjectionInv, MaintainCheckpoint
  PROVE  ProjectionInv'
<1>1. PICK u \in (boundary + 1)..Target :
        boundary' = u /\ generation' = RolledTo(u).generation /\ sessions' = RolledTo(u).rows
  BY DEF MaintainCheckpoint, MaintenanceBoundaries
<1>2. boundary \in Int /\ generation \in Nat /\ Target \in Int
  BY TargetBounds DEF EvidenceInv, EvidenceTypeOK
<1>3. u \in Int /\ boundary <= u
  BY <1>2
<1>4. RowsInv(AcceptedReceipts, sessions, boundary, generation)
  BY DEF ProjectionInv
<1>5. RowsInv(AcceptedReceipts, RolledTo(u).rows, u, RolledTo(u).generation)
  BY <1>2, <1>3, <1>4, RolledKeeps
<1>6. UNCHANGED receipts /\ UNCHANGED raised
  BY DEF MaintainCheckpoint
<1>7. AcceptedReceipts' = AcceptedReceipts /\ Accepted' = Accepted
  BY <1>6 DEF AcceptedReceipts, Accepted
<1> QED
  BY <1>1, <1>5, <1>6, <1>7 DEF ProjectionInv

\* What an erasure makes of a survivor's row.
LEMMA KeptRow ==
  ASSUME generation \in Nat, NEW s \in Session, NEW gone
  PROVE  /\ Kept(s, gone) \in Session /\ SameRow(Kept(s, gone), s)
         /\ Kept(s, gone).gen = IF Open(s) THEN generation + 1 ELSE s.gen
<1> DEFINE g == IF Open(s) THEN generation + 1 ELSE s.gen
           x == IF s.endEvent \in gone THEN NoEvent ELSE s.endEvent
           m == [s EXCEPT !.gen = g]
<1>1. g \in Nat \union {NoGeneration} /\ x \in EventIds \union {NoEvent}
  BY DEF Session
<1>2. Kept(s, gone) = [m EXCEPT !.endEvent = x]
  BY DEF Kept, Session
<1>3. m = [ref |-> s.ref, user |-> s.user, vehicle |-> s.vehicle, start |-> s.start,
           anchor |-> s.anchor, end |-> s.end, endEvent |-> s.endEvent, reason |-> s.reason, gen |-> g]
  BY DEF Session
<1> HIDE DEF g, x, m
<1>4. [m EXCEPT !.endEvent = x] =
        [ref |-> s.ref, user |-> s.user, vehicle |-> s.vehicle, start |-> s.start,
         anchor |-> s.anchor, end |-> s.end, endEvent |-> x, reason |-> s.reason, gen |-> g]
  BY <1>3
<1> DEFINE y == [ref |-> s.ref, user |-> s.user, vehicle |-> s.vehicle, start |-> s.start,
                 anchor |-> s.anchor, end |-> s.end, endEvent |-> x, reason |-> s.reason, gen |-> g]
<1>5. y \in Session
  BY <1>1 DEF Session
<1>6. SameRow(y, s) /\ y.gen = g
  BY DEF SameRow
<1> HIDE DEF y
<1>7. Kept(s, gone) = y
  BY <1>2, <1>4 DEF y
<1> QED
  BY <1>5, <1>6, <1>7 DEF g

LEMMA EraseRemarks ==
  ASSUME EvidenceInv, ProjectionInv, NEW u, EraseMember(u), NEW gone, NEW f, NEW sub,
         sub = {s \in sessions : s.user # u}, f = [s \in sub |-> Kept(s, gone)]
  PROVE  Remarks(f, sessions, sub, AcceptedReceipts, {r \in AcceptedReceipts : r.event.user # u},
                 boundary', generation + 1)
<1> DEFINE Q == {r \in AcceptedReceipts : r.event.user # u}
<1>1. RowsInv(AcceptedReceipts, sessions, boundary, generation)
  BY DEF ProjectionInv
<1>2. /\ generation \in Nat /\ boundary \in Int /\ boundary' \in Int /\ boundary <= boundary'
      /\ \A a \in Accepted : a.time <= boundary'
  BY ErasureBoundary DEF EvidenceInv, EvidenceTypeOK
<1>3. \A s \in sub : s \in sessions /\ s.user # u /\ s \in Session
  BY <1>1 DEF RowsInv
<1>4. \A r \in AcceptedReceipts : r.event \in Accepted
  BY DEF Accepted
<1>5. \A s \in sub : /\ f[s] \in Session /\ SameRow(f[s], s)
                     /\ f[s].gen = IF Open(s) THEN generation + 1 ELSE s.gen
  <2> SUFFICES ASSUME NEW s \in sub
               PROVE  /\ f[s] \in Session /\ SameRow(f[s], s)
                      /\ f[s].gen = IF Open(s) THEN generation + 1 ELSE s.gen
    OBVIOUS
  <2>1. f[s] = Kept(s, gone)
    OBVIOUS
  <2> QED
    BY <1>2, <1>3, <2>1, KeptRow
<1>6. ASSUME NEW s \in sub
      PROVE  /\ s.start <= boundary' /\ (Open(s) \/ s.end <= boundary')
             /\ s.end \in Int /\ s.gen \in Int /\ s.gen <= generation
  <2>1. PICK r \in AcceptedReceipts : Opens(r, s)
    BY <1>1, <1>3 DEF RowsInv, Grounded
  <2>2. s.start <= boundary'
    BY <1>2, <1>4, <2>1 DEF Opens
  <2>3. Open(s) \/ s.end <= boundary \/ \E q \in AcceptedReceipts : q.event.time = s.end
    BY <1>1, <1>3 DEF RowsInv, EndsKnown
  <2>4. s.end \in Int /\ s.gen \in Int
    BY <1>3, RowFields
  <2>5. Open(s) \/ s.end <= boundary'
    BY <1>2, <1>4, <2>3, <2>4
  <2> QED
    BY <1>1, <1>3, <2>2, <2>4, <2>5 DEF RowsInv, Marked
<1>7. \A s \in sub : \A r \in AcceptedReceipts : Opens(r, s) => r \in Q
  BY <1>3 DEF Opens
<1>8. \A s \in sessions : \A r \in Q : Holds(s, r) => s \in sub
  BY DEF Holds
<1>9. ASSUME NEW s \in sub
      PROVE  /\ f[s].gen <= generation + 1
             /\ f[s].gen = generation + 1 <=> s.start <= boundary' /\ EndsAfter(s, boundary')
  <2>1. CASE Open(s)
    BY <1>2, <1>5, <1>6, <2>1 DEF EndsAfter
  <2>2. CASE ~Open(s)
    <3>1. s.end <= boundary' /\ f[s].gen = s.gen
      BY <1>5, <1>6, <2>2
    <3>2. ~EndsAfter(s, boundary')
      BY <1>2, <1>6, <2>2, <3>1 DEF EndsAfter
    <3>3. s.gen < generation + 1
      BY <1>2, <1>6
    <3> QED
      BY <1>2, <1>6, <3>1, <3>2, <3>3
  <2> QED
    BY <2>1, <2>2
<1> HIDE DEF Q
<1>10. Remarks(f, sessions, sub, AcceptedReceipts, Q, boundary', generation + 1)
  <2>1. sub \subseteq sessions /\ Q \subseteq AcceptedReceipts
    BY DEF Q
  <2>2. \A s \in sub : f[s] \in Session /\ SameRow(f[s], s)
    BY <1>5
  <2>3. \A s \in sub : Open(s) \/ s.end <= boundary' \/ \E r \in Q : r.event.time = s.end
    BY <1>6
  <2> QED
    BY <1>7, <1>8, <1>9, <2>1, <2>2, <2>3 DEF Remarks
<1> QED
  BY <1>10 DEF Q

LEMMA EraseKeeps ==
  ASSUME EvidenceInv, ProjectionInv, NEW u, EraseMember(u)
  PROVE  ProjectionInv'
<1> DEFINE gone == {r.event.id : r \in {q \in receipts : q.event.user = u}}
           sub  == {s \in sessions : s.user # u}
           f    == [s \in sub |-> Kept(s, gone)]
           Q    == {r \in AcceptedReceipts : r.event.user # u}
<1>1. /\ sessions' = {Kept(s, gone) : s \in sub}
      /\ receipts' = {r \in receipts : r.event.user # u}
      /\ generation' = generation + 1 /\ UNCHANGED raised
  BY Zenon DEF EraseMember
<1>2. {f[s] : s \in sub} = {Kept(s, gone) : s \in sub}
  BY Zenon
<1>3. Remarks(f, sessions, sub, AcceptedReceipts, Q, boundary', generation + 1)
  <2> HIDE DEF gone
  <2>1. sub = {s \in sessions : s.user # u} /\ f = [s \in sub |-> Kept(s, gone)]
    OBVIOUS
  <2> HIDE DEF f, sub
  <2> QED
    BY <2>1, EraseRemarks
<1>4. RowsInv(AcceptedReceipts, sessions, boundary, generation)
  BY DEF ProjectionInv
<1> HIDE DEF gone, f, sub, Q
<1>5. RowsInv(Q, {f[s] : s \in sub}, boundary', generation + 1)
  BY <1>3, <1>4, RemarkedKeeps
<1>6. AcceptedReceipts' = Q /\ Accepted' \subseteq Accepted
  BY <1>1 DEF AcceptedReceipts, Accepted, Q
<1>7. RowsInv(AcceptedReceipts', sessions', boundary', generation')
  BY <1>1, <1>2, <1>5, <1>6
<1>8. IsFiniteSet(receipts')
  BY <1>1, FS_Subset DEF ProjectionInv
<1>9. Sortable(Accepted')
  BY <1>6 DEF Sortable, ProjectionInv
<1>10. AnchorsTyped(receipts')
  BY <1>1 DEF AnchorsTyped, ProjectionInv
<1>11. ~raised'
  BY <1>1 DEF ProjectionInv
<1> QED
  BY <1>7, <1>8, <1>9, <1>10, <1>11 DEF ProjectionInv

LEMMA ProjectionUnchanged ==
  ASSUME ProjectionInv, UNCHANGED <<boundary, generation, receipts, sessions, raised>>
  PROVE  ProjectionInv'
<1>1. AcceptedReceipts' = AcceptedReceipts /\ Accepted' = Accepted
  BY DEF AcceptedReceipts, Accepted
<1> QED
  BY <1>1 DEF ProjectionInv

LEMMA InitProjection == Init => ProjectionInv
<1> SUFFICES ASSUME Init PROVE ProjectionInv
  OBVIOUS
<1>1. receipts = {} /\ sessions = {} /\ ~raised
  BY DEF Init
<1>2. AcceptedReceipts = {} /\ Accepted = {}
  BY <1>1 DEF AcceptedReceipts, Accepted
<1>3. Sortable(Accepted) /\ AnchorsTyped(receipts) /\ IsFiniteSet(receipts)
  BY <1>1, <1>2, FS_EmptySet DEF Sortable, AnchorsTyped
<1>4. RowsInv(AcceptedReceipts, sessions, boundary, generation)
  BY <1>1, <1>2, FS_EmptySet
     DEF RowsInv, Grounded, EndsKnown, Distinct, Exclusive, Marked, Anchored
<1> QED
  BY <1>1, <1>3, <1>4 DEF ProjectionInv

LEMMA NextProjection == EvidenceInv /\ ProjectionInv /\ [Next]_vars => ProjectionInv'
<1> SUFFICES ASSUME EvidenceInv, ProjectionInv, [Next]_vars PROVE ProjectionInv'
  OBVIOUS
<1>1. ASSUME NEW d \in Devices, AdmitNative(d) PROVE ProjectionInv'
  BY <1>1, AdmitNativeArrives, RecordKeeps
<1>2. ASSUME NEW u \in Users, EraseMember(u) PROVE ProjectionInv'
  BY <1>2, EraseKeeps
<1>3. CASE MaintainCheckpoint
  BY <1>3, MaintainKeeps
<1>4. CASE UNCHANGED <<boundary, generation, receipts, sessions, raised>>
  BY <1>4, ProjectionUnchanged
<1> QED
  BY <1>1, <1>2, <1>3, <1>4 DEF Next, RevokeDevice, RetireVehicle, Tick, vars

(***************************************************************************)
(* The session table and its receipts are always in the state admission    *)
(* relies on: rows are grounded in accepted TAKEs, distinct and exclusive, *)
(* exactly those held across the boundary carry its generation, and every  *)
(* TAKE's anchor names a row that is already running.                      *)
(***************************************************************************)
THEOREM ProjectionInvariant == Spec => [](EvidenceInv /\ ProjectionInv)
<1>1. Init => EvidenceInv /\ ProjectionInv
  BY InitInv, InitProjection
<1>2. (EvidenceInv /\ ProjectionInv) /\ [Next]_vars => (EvidenceInv /\ ProjectionInv)'
  BY NextInv, NextProjection
<1> QED
  BY <1>1, <1>2, PTL DEF Spec

(***************************************************************************)
(* Receipts, sessions, references and generations keep the types of their  *)
(* columns, the rows the engine writes included.                           *)
(***************************************************************************)
THEOREM AdmissionTypes == Spec => []TypeOK
<1>1. EvidenceInv /\ ProjectionInv => TypeOK
  BY DEF EvidenceInv, ProjectionInv, RowsInv, AnchorsTyped, TypeOK, ProjectionTypeOK
<1> QED
  BY <1>1, ProjectionInvariant, PTL

(***************************************************************************)
(* Whatever arrives, however late, and whatever was finalized, refused,    *)
(* retired or erased before: eligible evidence never makes the loader, the *)
(* engine or the materialization raise.                                    *)
(***************************************************************************)
THEOREM NeverRaised == Spec => []NeverRaises
<1>1. ProjectionInv => NeverRaises
  BY DEF ProjectionInv, NeverRaises
<1> QED
  BY <1>1, ProjectionInvariant, PTL

LEMMA AnchorsAreResolved == ProjectionInv => AnchorsResolve
<1> SUFFICES ASSUME ProjectionInv, NEW r \in AcceptedReceipts, r.event.type = "take"
             PROVE  /\ Cardinality(AnchoredRows(sessions, r)) = 1
                    /\ The(AnchoredRows(sessions, r)).start <= r.event.time
  BY DEF AnchorsResolve
<1>1. PICK s \in sessions : Holds(s, r)
  BY DEF ProjectionInv, RowsInv, Anchored
<1>2. \A x \in AnchoredRows(sessions, r) : x = s
  BY <1>1 DEF AnchoredRows, Holds, ProjectionInv, RowsInv, Distinct
<1>3. s \in AnchoredRows(sessions, r)
  BY <1>1 DEF AnchoredRows, Holds
<1>4. AnchoredRows(sessions, r) = {s}
  BY <1>2, <1>3
<1>5. The(AnchoredRows(sessions, r)) = s /\ Cardinality(AnchoredRows(sessions, r)) = 1
  BY <1>4, FS_Singleton DEF The
<1> QED
  BY <1>1, <1>5 DEF Holds

(***************************************************************************)
(* Every accepted TAKE resolves to exactly one stored session of its       *)
(* driver and car that is running at it, however often re-projected.       *)
(***************************************************************************)
THEOREM AnchorsAlwaysResolve == Spec => []AnchorsResolve
BY AnchorsAreResolved, ProjectionInvariant, PTL

----------------------------------------------------------------------------
(* The finalized past is frozen.                                           *)

\* How a step that deletes none of the rows in `kept` may change them.
FrozenRows(kept) ==
  \A s \in kept :
    /\ ~EndsAfter(s, boundary) => \E r \in sessions' : [r EXCEPT !.endEvent = s.endEvent] = s
    /\ \A r \in sessions' : r.ref = s.ref => r.user = s.user /\ r.vehicle = s.vehicle

FrozenStep == FrozenRows({s \in sessions : s.user \in members'})

LEMMA RowItself ==
  ASSUME NEW s \in Session
  PROVE  [s EXCEPT !.endEvent = s.endEvent] = s
BY DEF Session

LEMMA SameRowsFrozen ==
  ASSUME RowsInv(AcceptedReceipts, sessions, boundary, generation), UNCHANGED sessions
  PROVE  FrozenRows(sessions)
<1>1. \A s \in sessions : s \in Session
  BY DEF RowsInv
<1>2. \A s, r \in sessions : r.ref = s.ref => r = s
  BY DEF RowsInv, Distinct
<1> QED
  BY <1>1, <1>2, RowItself DEF FrozenRows

LEMMA RolledFrozen ==
  ASSUME RowsInv(AcceptedReceipts, sessions, boundary, generation), boundary \in Int,
         generation \in Nat, NEW t \in Int, boundary <= t, sessions' = RolledTo(t).rows
  PROVE  FrozenRows(sessions)
<1>1. PICK f : Rolls(f, t)
  BY RolledIs
<1>2. /\ sessions' = {f[s] : s \in sessions}
      /\ \A s \in sessions : f[s] \in Session /\ SameRow(f[s], s)
      /\ \A s \in sessions : ~EndsAfter(s, t) => f[s] = s
  BY <1>1 DEF Rolls
<1>3. ASSUME NEW s \in sessions, ~EndsAfter(s, boundary)
      PROVE  \E r \in sessions' : [r EXCEPT !.endEvent = s.endEvent] = s
  <2>1. s \in Session /\ s.end \in Int
    BY RowFields DEF RowsInv
  <2>2. ~EndsAfter(s, t)
    BY <1>3, <2>1 DEF EndsAfter
  <2>3. s \in sessions'
    BY <1>2, <2>2
  <2> QED
    BY <2>1, <2>3, RowItself
<1>4. ASSUME NEW s \in sessions, NEW r \in sessions', r.ref = s.ref
      PROVE  r.user = s.user /\ r.vehicle = s.vehicle
  <2>1. PICK p \in sessions : r = f[p] /\ SameRow(r, p)
    BY <1>2
  <2>2. p = s
    BY <1>4, <2>1 DEF SameRow, RowsInv, Distinct
  <2> QED
    BY <2>1, <2>2 DEF SameRow
<1> QED
  BY <1>3, <1>4 DEF FrozenRows

\* What the engine may rewrite ended after the boundary, if it ended at all.
LEMMA EndedUntouched ==
  ASSUME NEW k, NEW e, Checked(k, e), NEW incremental, NEW work, NEW seeds, NEW seed,
         Faithful(k, e, incremental, work, seeds, seed),
         NEW m \in work.mutable
  PROVE  EndsAfter(m, k.boundary)
<1>1. m \in k.rows /\ m \in Session
  BY DEF Faithful, Checked, RowsInv
<1>2. CASE m \in seeds
  BY <1>2 DEF Faithful
<1>3. CASE m \notin seeds
  <2>1. PICK a \in work.events : a.type = "take" /\ a.id = m.anchor
    BY <1>3 DEF Faithful
  <2>2. a \in Accepted \union {e} /\ k.boundary < a.time
    BY DEF Faithful
  <2>3. PICK r \in AcceptedReceipts : Opens(r, m)
    BY <1>1 DEF Checked, RowsInv, Grounded
  <2>4. r.event \in Accepted /\ r.event.id = m.anchor /\ r.event.time = m.start
    BY <2>3 DEF Accepted, Opens
  <2>5. a = r.event
    BY <2>1, <2>2, <2>4, ArrivalEvidenced DEF Checked, Evidenced
  <2>6. m.start <= m.end
    BY <1>1 DEF Checked, RowsInv, EndsKnown
  <2>7. m.start \in Int /\ m.end \in Int /\ k.boundary \in Int
    BY <1>1, RowFields DEF Checked
  <2> QED
    BY <2>2, <2>4, <2>5, <2>6, <2>7 DEF EndsAfter
<1> QED
  BY <1>2, <1>3

\* A reference never comes to denote another driver or car.
LEMMA ReferencesKept ==
  ASSUME NEW k, NEW e, Checked(k, e), NEW incremental, NEW work, NEW seeds, NEW seed,
         Faithful(k, e, incremental, work, seeds, seed),
         NEW s \in k.rows, NEW x \in Materialized(k, work, incremental), x.ref = s.ref
  PROVE  x.user = s.user /\ x.vehicle = s.vehicle
<1> DEFINE S == work.projection.sessions
<1>1. PICK f : /\ Rewrites(f, k, work)
               /\ Materialized(k, work, incremental) = (k.rows \ work.mutable) \union {f[p] : p \in S}
  BY MaterializedIs
<1>2. \A p, q \in k.rows : p.ref = q.ref => p = q
  BY DEF Checked, RowsInv, Distinct
<1>3. CASE x \in k.rows
  BY <1>2, <1>3
<1>4. CASE \E p \in S : x = f[p]
  <2>1. PICK p \in S : x = f[p]
    BY <1>4
  <2>2. /\ Stores(x, p)
        /\ x.ref \notin {r.ref : r \in k.rows} \/ \E m \in Retained(work, p) : x.ref = m.ref
    BY <1>1, <2>1 DEF Rewrites
  <2>3. PICK m \in Retained(work, p) : s.ref = m.ref
    BY <2>2
  <2>4. m \in k.rows /\ m.user = p.user /\ m.vehicle = p.vehicle
    BY Retention
  <2>5. m = s
    BY <1>2, <2>3, <2>4
  <2> QED
    BY <2>2, <2>4, <2>5 DEF Stores
<1> QED
  BY <1>1, <1>3, <1>4

LEMMA AdmittedFrozen ==
  ASSUME EvidenceInv, ProjectionInv, NEW e, Checked(RolledTo(Target), e),
         NEW work, NEW seeds, NEW seed,
         Faithful(RolledTo(Target), e, IsLatest(e), work, seeds, seed),
         NEW moved, NEW new, Admitted(e, RolledTo(Target), work, moved, new)
  PROVE  FrozenRows(sessions)
<1> DEFINE k == RolledTo(Target)
<1>1. boundary \in Int /\ generation \in Nat /\ Target \in Int /\ boundary <= Target
  BY TargetBounds DEF EvidenceInv, EvidenceTypeOK
<1>2. k.boundary = Target
  BY <1>1, RolledBounds
<1>3. RowsInv(AcceptedReceipts, sessions, boundary, generation)
  BY DEF ProjectionInv
<1>4. PICK f : Rolls(f, Target)
  BY <1>1, <1>3, RolledIs
<1>5. /\ k.rows = {f[s] : s \in sessions}
      /\ \A s \in sessions : SameRow(f[s], s)
      /\ \A s \in sessions : ~EndsAfter(s, Target) => f[s] = s
  BY <1>4 DEF Rolls
<1>6. /\ Checked(k, e) /\ Faithful(k, e, IsLatest(e), work, seeds, seed)
      /\ sessions' = Materialized(k, work, IsLatest(e))
  BY DEF Admitted
<1> HIDE DEF k
<1>7. ASSUME NEW s \in sessions, ~EndsAfter(s, boundary)
      PROVE  \E r \in sessions' : [r EXCEPT !.endEvent = s.endEvent] = s
  <2>1. s \in Session /\ s.end \in Int
    BY <1>3, RowFields DEF RowsInv
  <2>2. ~EndsAfter(s, Target)
    BY <1>1, <1>7, <2>1 DEF EndsAfter
  <2>3. s \in k.rows
    BY <1>5, <2>2
  <2>4. s \notin work.mutable
    <3> SUFFICES ASSUME s \in work.mutable PROVE FALSE
      OBVIOUS
    <3>1. EndsAfter(s, k.boundary)
      BY <1>6, EndedUntouched
    <3> QED
      BY <1>2, <2>2, <3>1
  <2>5. PICK g : Materialized(k, work, IsLatest(e)) =
                   (k.rows \ work.mutable) \union {g[p] : p \in work.projection.sessions}
    BY <1>6, MaterializedIs
  <2>6. s \in sessions'
    BY <1>6, <2>3, <2>4, <2>5
  <2> QED
    BY <2>1, <2>6, RowItself
<1>8. ASSUME NEW s \in sessions, NEW r \in sessions', r.ref = s.ref
      PROVE  r.user = s.user /\ r.vehicle = s.vehicle
  <2>1. f[s] \in k.rows /\ SameRow(f[s], s)
    BY <1>5
  <2>2. r \in Materialized(k, work, IsLatest(e)) /\ r.ref = f[s].ref
    BY <1>6, <1>8, <2>1 DEF SameRow
  <2>3. r.user = f[s].user /\ r.vehicle = f[s].vehicle
    BY <1>6, <2>1, <2>2, ReferencesKept
  <2> QED
    BY <2>1, <2>3 DEF SameRow
<1> QED
  BY <1>7, <1>8 DEF FrozenRows

LEMMA RecordFrozen ==
  ASSUME EvidenceInv, ProjectionInv, NEW e, Arrival(e), Record(e)
  PROVE  FrozenRows(sessions)
<1>1. CASE Refused(e)
  BY <1>1, SameRowsFrozen DEF Refused, ProjectionInv
<1>2. CASE \E work, seeds, seed, moved, new :
             /\ Checked(RolledTo(Target), e)
             /\ Faithful(RolledTo(Target), e, IsLatest(e), work, seeds, seed)
             /\ Admitted(e, RolledTo(Target), work, moved, new)
  BY <1>2, AdmittedFrozen
<1> QED
  BY <1>1, <1>2, RecordSteps

LEMMA EraseFrozen ==
  ASSUME EvidenceInv, ProjectionInv, NEW u, EraseMember(u)
  PROVE  FrozenStep
<1> DEFINE gone == {r.event.id : r \in {q \in receipts : q.event.user = u}}
           kept == {s \in sessions : s.user # u}
<1>1. /\ sessions' = {Kept(s, gone) : s \in kept}
      /\ members' = members \ {u}
  BY Zenon DEF EraseMember
<1>2. generation \in Nat /\ \A s \in sessions : s \in Session
  BY DEF EvidenceInv, EvidenceTypeOK, ProjectionInv, RowsInv
<1> HIDE DEF gone
<1>3. \A s \in kept : Kept(s, gone) \in sessions' /\ SameRow(Kept(s, gone), s)
  BY <1>1, <1>2, KeptRow
<1>4. ASSUME NEW s \in kept, ~EndsAfter(s, boundary)
      PROVE  [Kept(s, gone) EXCEPT !.endEvent = s.endEvent] = s
  <2>1. ~Open(s) /\ s \in Session
    BY <1>2, <1>4 DEF EndsAfter
  <2> DEFINE x == IF s.endEvent \in gone THEN NoEvent ELSE s.endEvent
  <2>2. Kept(s, gone) = [s EXCEPT !.gen = s.gen, !.endEvent = x]
    BY <2>1 DEF Kept
  <2> HIDE DEF x
  <2> QED
    BY <2>1, <2>2 DEF Session
<1>5. ASSUME NEW s \in kept, NEW r \in sessions', r.ref = s.ref
      PROVE  r.user = s.user /\ r.vehicle = s.vehicle
  <2>1. PICK p \in kept : r = Kept(p, gone) /\ SameRow(r, p)
    BY <1>1, <1>3
  <2>2. p = s
    BY <1>5, <2>1 DEF SameRow, ProjectionInv, RowsInv, Distinct
  <2> QED
    BY <2>1, <2>2 DEF SameRow
<1>6. {s \in sessions : s.user \in members'} \subseteq kept
  BY <1>1
<1> HIDE DEF kept
<1> QED
  BY <1>3, <1>4, <1>5, <1>6 DEF FrozenStep, FrozenRows

LEMMA FrozenAll ==
  ASSUME FrozenRows(sessions)
  PROVE  FrozenStep
BY DEF FrozenStep, FrozenRows

LEMMA NextFrozen == EvidenceInv /\ ProjectionInv /\ [Next]_vars => FrozenStep
<1> SUFFICES ASSUME EvidenceInv, ProjectionInv, [Next]_vars PROVE FrozenStep
  OBVIOUS
<1>1. RowsInv(AcceptedReceipts, sessions, boundary, generation)
  BY DEF ProjectionInv
<1>2. ASSUME NEW d \in Devices, AdmitNative(d) PROVE FrozenStep
  BY <1>2, AdmitNativeArrives, RecordFrozen, FrozenAll
<1>3. ASSUME NEW u \in Users, EraseMember(u) PROVE FrozenStep
  BY <1>3, EraseFrozen
<1>4. CASE MaintainCheckpoint
  <2>1. PICK t \in (boundary + 1)..Target : sessions' = RolledTo(t).rows
    BY <1>4 DEF MaintainCheckpoint, MaintenanceBoundaries
  <2>2. boundary \in Int /\ generation \in Nat /\ Target \in Int
    BY TargetBounds DEF EvidenceInv, EvidenceTypeOK
  <2>3. t \in Int /\ boundary <= t
    BY <2>2
  <2> QED
    BY <1>1, <2>1, <2>2, <2>3, RolledFrozen, FrozenAll
<1>5. CASE UNCHANGED sessions
  BY <1>1, <1>5, SameRowsFrozen, FrozenAll
<1> QED
  BY <1>2, <1>3, <1>4, <1>5 DEF Next, RevokeDevice, RetireVehicle, Tick, vars

(***************************************************************************)
(* A session that ended by the boundary keeps its row while its driver is  *)
(* a member, and a reference once given never denotes another driver or    *)
(* car: late evidence, checkpoints and erasures included.                  *)
(***************************************************************************)
THEOREM PastIsFrozen == Spec => PastFrozen
<1>1. EvidenceInv /\ ProjectionInv /\ [Next]_vars => [FrozenStep]_vars
  BY NextFrozen
<1>2. FrozenStep => \A s \in sessions : s.user \in members' =>
       /\ ~EndsAfter(s, boundary) =>
            \E r \in sessions' : [r EXCEPT !.endEvent = s.endEvent] = s
       /\ \A r \in sessions' : r.ref = s.ref => r.user = s.user /\ r.vehicle = s.vehicle
  BY DEF FrozenStep, FrozenRows
<1> QED
  BY <1>1, <1>2, ProjectionInvariant, PTL DEF Spec, PastFrozen

----------------------------------------------------------------------------
(* The same for the Shortcut edge, whose requests go through admission.    *)

BindingTypeOK == binding \in [Users -> Vehicles \union {Unbound}]

LEMMA EdgeArrives ==
  ASSUME EvidenceInv, NEW id \in EventIds, NEW u \in Users, NEW v \in Vehicles,
         NEW type \in {"take", "return"}, NEW cause \in Nat, cause # id, FreshId(id)
  PROVE  Arrival([id |-> id, user |-> u, vehicle |-> v, type |-> type,
                  source |-> "legacy_shortcut", time |-> now, device |-> NoDevice, seq |-> 0,
                  cause |-> cause])
<1> DEFINE e == [id |-> id, user |-> u, vehicle |-> v, type |-> type,
                 source |-> "legacy_shortcut", time |-> now, device |-> NoDevice, seq |-> 0,
                 cause |-> cause]
<1>1. now \in Int /\ now <= now + Skew
  BY PolicyAssumption DEF EvidenceInv, EvidenceTypeOK
<1>2. e \in Event
  BY <1>1 DEF Event
<1> QED
  BY <1>1, <1>2 DEF Arrival, WellSourced

LEMMA OperationsApart ==
  /\ NoEvent \in Nat /\ NoEvent \notin EventIds /\ EventIds \subseteq Nat
  /\ \A u \in Users, a \in Acquisitions : \A type \in {"take", "return"} :
       /\ <<u, a, type>> \in Operations
       /\ type # "take" => <<u, a, "take">> # <<u, a, type>>
BY IdAssumption DEF NoEvent, Operations

LEMMA ShortcutArrives ==
  ASSUME EvidenceInv, BindingTypeOK, NEW u \in Users, NEW a \in Acquisitions,
         NEW type \in {"take", "return"}, Usable(u), FreshId(OperationId[u, a, type])
  PROVE  Arrival(ShortcutEvent(u, a, type))
<1> DEFINE id    == OperationId[u, a, type]
           own   == OperationId[u, a, "take"]
           cause == IF type = "take" THEN NoEvent ELSE own
<1>1. <<u, a, type>> \in Operations /\ <<u, a, "take">> \in Operations
  BY OperationsApart, Zenon
<1>2. id \in EventIds /\ own \in EventIds
  BY <1>1, OperationAssumption, Zenon
<1>3. type # "take" => own # id
  BY <1>1, OperationsApart, OperationAssumption, Zenon
<1>4. ShortcutEvent(u, a, type) =
        [id |-> id, user |-> u, vehicle |-> binding[u], type |-> type,
         source |-> "legacy_shortcut", time |-> now, device |-> NoDevice, seq |-> 0,
         cause |-> cause]
  BY Zenon DEF ShortcutEvent
<1>5. FreshId(id)
  BY Zenon
<1>6. binding[u] \in Vehicles
  BY Zenon DEF BindingTypeOK, Usable
<1> HIDE DEF id, own
<1>7. cause \in Nat /\ cause # id
  <2>1. CASE type = "take"
    BY <1>2, <2>1, OperationsApart, Zenon
  <2>2. CASE type # "take"
    BY <1>2, <1>3, <2>2, OperationsApart, Zenon
  <2> QED
    BY <2>1, <2>2, Zenon
<1> HIDE DEF cause
<1> QED
  BY <1>2, <1>4, <1>5, <1>6, <1>7, EdgeArrives, Zenon

ShortcutInv == EvidenceInv /\ ProjectionInv /\ BindingTypeOK

LEMMA ShortcutRecords ==
  ASSUME ShortcutInv, NEW u \in Users, NEW a \in Acquisitions, Connect(u, a) \/ Disconnect(u, a)
  PROVE  /\ \E e : Arrival(e) /\ Record(e)
         /\ UNCHANGED <<now, revoked, retired, members, erased, binding>>
<1>1. EvidenceInv /\ BindingTypeOK
  BY DEF ShortcutInv
<1>2. PICK type \in {"take", "return"} :
        /\ Usable(u) /\ FreshId(OperationId[u, a, type]) /\ Record(ShortcutEvent(u, a, type))
        /\ UNCHANGED <<now, revoked, retired, members, erased, binding>>
  BY Zenon DEF Connect, Disconnect
<1>3. Arrival(ShortcutEvent(u, a, type))
  BY <1>1, <1>2, ShortcutArrives, Zenon
<1> QED
  BY <1>2, <1>3, Zenon

LEMMA ShortcutKeeps == ShortcutInv /\ [ShortcutNext]_shortcutVars => ShortcutInv' /\ FrozenStep
<1> SUFFICES ASSUME ShortcutInv, [ShortcutNext]_shortcutVars PROVE ShortcutInv' /\ FrozenStep
  OBVIOUS
<1>1. EvidenceInv /\ ProjectionInv /\ BindingTypeOK
  BY DEF ShortcutInv
<1>2. ASSUME [Next]_vars, BindingTypeOK' PROVE ShortcutInv' /\ FrozenStep
  BY <1>1, <1>2, NextInv, NextProjection, NextFrozen DEF ShortcutInv
<1>3. ASSUME NEW u \in Users, EraseBoundMember(u) PROVE ShortcutInv' /\ FrozenStep
  <2>1. Next
    BY <1>3 DEF EraseBoundMember, Next
  <2>2. BindingTypeOK'
    BY <1>1, <1>3 DEF EraseBoundMember, BindingTypeOK
  <2> QED
    BY <1>2, <2>1, <2>2
<1>4. ASSUME NEW u \in Users, NEW v \in Vehicles, Bind(u, v) PROVE ShortcutInv' /\ FrozenStep
  BY <1>1, <1>2, <1>4 DEF Bind, BindingTypeOK
<1>5. ASSUME NEW u \in Users, NEW a \in Acquisitions, Connect(u, a) \/ Disconnect(u, a)
      PROVE  ShortcutInv' /\ FrozenStep
  <2>1. PICK e : Arrival(e) /\ Record(e)
    BY <1>5, ShortcutRecords
  <2>2. UNCHANGED <<now, revoked, retired, members, erased, binding>>
    BY <1>5, ShortcutRecords
  <2>3. EvidenceInv'
    BY <1>1, <2>1, <2>2, RecordInv
  <2>4. ProjectionInv' /\ FrozenStep
    BY <1>1, <2>1, RecordKeeps, RecordFrozen, FrozenAll
  <2>5. BindingTypeOK'
    BY <1>1, <2>2 DEF BindingTypeOK
  <2> QED
    BY <2>3, <2>4, <2>5 DEF ShortcutInv
<1>6. CASE Elsewhere /\ UNCHANGED binding
  <2>1. Next
    BY <1>6 DEF Elsewhere, Next
  <2>2. BindingTypeOK'
    BY <1>1, <1>6 DEF BindingTypeOK
  <2> QED
    BY <1>2, <2>1, <2>2
<1>7. CASE UNCHANGED shortcutVars
  <2>1. UNCHANGED vars /\ UNCHANGED binding
    BY <1>7 DEF shortcutVars
  <2> QED
    BY <1>1, <1>2, <2>1 DEF BindingTypeOK
<1> QED
  BY <1>3, <1>4, <1>5, <1>6, <1>7 DEF ShortcutNext

LEMMA ShortcutStarts == ShortcutInit => ShortcutInv
<1> SUFFICES ASSUME ShortcutInit PROVE ShortcutInv
  OBVIOUS
<1>1. Init /\ BindingTypeOK
  BY DEF ShortcutInit, BindingTypeOK
<1> QED
  BY <1>1, InitInv, InitProjection DEF ShortcutInv

(***************************************************************************)
(* The table keeps its invariant when Shortcut acquisitions, rebound       *)
(* vehicles and native evidence interleave, and its past stays frozen.     *)
(***************************************************************************)
THEOREM ShortcutKeepsTable == ShortcutSpec => [](EvidenceInv /\ ProjectionInv) /\ PastFrozen
<1>1. ShortcutInv => EvidenceInv /\ ProjectionInv
  BY DEF ShortcutInv
<1>2. ShortcutInv /\ [ShortcutNext]_shortcutVars => [FrozenStep]_vars
  BY ShortcutKeeps
<1>3. FrozenStep => \A s \in sessions : s.user \in members' =>
       /\ ~EndsAfter(s, boundary) =>
            \E r \in sessions' : [r EXCEPT !.endEvent = s.endEvent] = s
       /\ \A r \in sessions' : r.ref = s.ref => r.user = s.user /\ r.vehicle = s.vehicle
  BY DEF FrozenStep, FrozenRows
<1>4. ShortcutInv /\ [ShortcutNext]_shortcutVars => ShortcutInv'
  BY ShortcutKeeps
<1> QED
  BY <1>1, <1>2, <1>3, <1>4, ShortcutStarts, PTL DEF ShortcutSpec, PastFrozen

(***************************************************************************)
(* No Shortcut request, however it interleaves with native evidence, makes *)
(* the projection raise: a retry is never refused by an error of ours.     *)
(***************************************************************************)
THEOREM ShortcutNeverRaises == ShortcutSpec => []NeverRaises
<1>1. ProjectionInv => NeverRaises
  BY DEF ProjectionInv, NeverRaises
<1> QED
  BY <1>1, ShortcutKeepsTable, PTL
=============================================================================
