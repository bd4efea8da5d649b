----------------------- MODULE VehicleAdmissionProofs -----------------------
(***************************************************************************)
(* What holds of VehicleAdmission for all users, devices, vehicles, ids,   *)
(* windows and limits.  The proofs use nothing about the projection engine *)
(* except where its result is stored: they are about the evidence log, its *)
(* checkpoints and the guards around the engine.                           *)
(***************************************************************************)
EXTENDS VehicleAdmission, ReconciliationProofs

----------------------------------------------------------------------------
(* Provenance and time of what is stored.                                  *)

\* Native evidence has a device of its user, other evidence has none.
WellSourced(e) ==
  /\ e.source = "native" <=> e.device # NoDevice
  /\ e.device # NoDevice => e.device \in Devices /\ e.user = Owner[e.device]

\* Evidence as Record receives it.
Arrival(e) ==
  /\ e \in Event
  /\ WellSourced(e)
  /\ FreshId(e.id)
  /\ e.time <= now + Skew
  /\ e.device # NoDevice => e.seq = lastSeq[e.device] + 1
  /\ e.cause # e.id

Provenance ==
  \A r \in receipts : WellSourced(r.event) /\ r.event.time <= now + Skew

----------------------------------------------------------------------------
(* What AdmissionPlan can be, whatever the engine returns.                 *)

LEMMA TargetBounds ==
  ASSUME now \in Nat, boundary \in Int
  PROVE  Target \in Int /\ boundary <= Target
BY PolicyAssumption DEF Target

LEMMA RolledBounds ==
  ASSUME boundary \in Int, generation \in Nat, NEW t \in Int, boundary <= t
  PROVE  /\ RolledTo(t).boundary = t
         /\ RolledTo(t).generation \in Nat /\ generation <= RolledTo(t).generation
<1>1. CASE t <= boundary
  <2>1. t = boundary
    BY <1>1
  <2>2. RolledTo(t).boundary = boundary /\ RolledTo(t).generation = generation
    BY <1>1 DEF RolledTo
  <2> QED
    BY <2>1, <2>2
<1>2. CASE ~(t <= boundary)
  <2>1. RolledTo(t).boundary = t /\ RolledTo(t).generation = generation + 1
    BY <1>2 DEF RolledTo
  <2> QED
    BY <2>1
<1> QED
  BY <1>1, <1>2

LEMMA EligibilityType ==
  ASSUME NEW e
  PROVE  Eligibility(e) \in Outcome
BY DEF Eligibility, Outcome

LEMMA PlanFacts ==
  ASSUME now \in Nat, boundary \in Int, generation \in Nat, NEW e
  PROVE  /\ AdmissionPlan(e).outcome \in Outcome
         /\ AdmissionPlan(e).outcome = "accepted" => Eligibility(e) = "accepted"
         /\ AdmissionPlan(e).checkpoint \in {RolledTo(Target), RolledTo(boundary)}
         /\ \/ AdmissionPlan(e).work = Unprojected(NoEvent)
            \/ AdmissionPlan(e).sound => ~ReopensRetired(AdmissionPlan(e).work)
<1> DEFINE checkpoint == RolledTo(Target)
           work       == Projection(checkpoint, e)
           sound      == work.projection.sound /\ Materializable(work, IsLatest(e))
           refusal(o) == [outcome |-> o, sound |-> TRUE, checkpoint |-> RolledTo(boundary),
                          work |-> Unprojected(NoEvent)]
           accept     == [outcome |-> "accepted", sound |-> sound,
                          checkpoint |-> checkpoint, work |-> work]
<1>1. CASE Eligibility(e) # "accepted"
  <2>1. AdmissionPlan(e) = refusal(Eligibility(e))
    BY <1>1, Zenon DEF AdmissionPlan
  <2> QED
    BY <1>1, <2>1, EligibilityType
<1>2. CASE Eligibility(e) = "accepted" /\ ~WithinPolicy(checkpoint, e)
  <2>1. AdmissionPlan(e) = refusal("reconciliation_policy_exceeded")
    BY <1>2, Zenon DEF AdmissionPlan
  <2> QED
    BY <2>1 DEF Outcome
<1>3. CASE /\ Eligibility(e) = "accepted" /\ WithinPolicy(checkpoint, e)
           /\ sound /\ ReopensRetired(work)
  <2>1. AdmissionPlan(e) = refusal("vehicle_retired")
    BY <1>3, Zenon DEF AdmissionPlan
  <2> QED
    BY <2>1 DEF Outcome
<1>4. CASE /\ Eligibility(e) = "accepted" /\ WithinPolicy(checkpoint, e)
           /\ ~(sound /\ ReopensRetired(work))
  <2>1. AdmissionPlan(e) = accept
    BY <1>4, Zenon DEF AdmissionPlan
  <2> HIDE DEF work, checkpoint, sound
  <2>2. /\ accept.outcome = "accepted" /\ accept.sound = sound
        /\ accept.checkpoint = checkpoint /\ accept.work = work
    OBVIOUS
  <2> HIDE DEF accept
  <2>3. AdmissionPlan(e).outcome \in Outcome
    BY <2>1, <2>2 DEF Outcome
  <2>4. AdmissionPlan(e).checkpoint = RolledTo(Target)
    BY <2>1, <2>2 DEF checkpoint
  <2>5. AdmissionPlan(e).sound => ~ReopensRetired(AdmissionPlan(e).work)
    BY <2>1, <2>2, <1>4, Zenon
  <2> QED
    BY <1>4, <2>3, <2>4, <2>5
<1> QED
  BY <1>1, <1>2, <1>3, <1>4, Zenon

----------------------------------------------------------------------------
(* What Record does to the log and to the boundary.                        *)

ReceiptShape(r) == r = [event |-> r.event, outcome |-> r.outcome, anchor |-> r.anchor]

\* The stored receipts keep event and outcome, and one for e is added.
Extends(e, moved, new) ==
  /\ DOMAIN moved = receipts
  /\ \A r \in receipts :
       ReceiptShape(moved[r]) /\ moved[r].event = r.event /\ moved[r].outcome = r.outcome
  /\ receipts' = {moved[r] : r \in receipts} \union {new}
  /\ ReceiptShape(new) /\ new.event = e /\ new.outcome \in Outcome
  /\ new.outcome = "accepted" => Eligibility(e) = "accepted"

LEMMA RecordReceipts ==
  ASSUME EvidenceTypeOK, NEW e, Record(e)
  PROVE  \/ UNCHANGED <<boundary, generation, sessions, receipts, lastSeq>>
         \/ /\ \E moved, new : Extends(e, moved, new)
            /\ lastSeq' = [d \in Devices |-> IF d = e.device THEN e.seq ELSE lastSeq[d]]
            /\ boundary' \in {boundary, Target} /\ boundary' >= boundary
            /\ generation' \in Nat /\ generation' >= generation
<1>1. PICK plan \in {AdmissionPlan(e)} :
        IF plan.sound
        THEN /\ boundary' = plan.checkpoint.boundary
             /\ generation' = plan.checkpoint.generation
             /\ sessions' = Materialized(plan.checkpoint, plan.work, IsLatest(e))
             /\ receipts' = {[r EXCEPT !.anchor = AnchorAfter(plan.work, r)] : r \in receipts}
                              \union {NewReceipt(e, plan)}
             /\ lastSeq' = Consumed(e, plan.outcome)
        ELSE UNCHANGED <<boundary, generation, sessions, receipts, lastSeq>>
  BY DEF Record
<1>2. CASE ~plan.sound
  BY <1>1, <1>2
<1>3. CASE plan.sound
  <2> DEFINE moved == [r \in receipts |-> [r EXCEPT !.anchor = AnchorAfter(plan.work, r)]]
             new   == NewReceipt(e, plan)
  <2>1. /\ now \in Nat /\ boundary \in Int /\ generation \in Nat
        /\ \A r \in receipts : ReceiptShape(r)
    BY DEF EvidenceTypeOK, ReceiptShape
  <2>2. /\ plan.outcome \in Outcome
        /\ plan.outcome = "accepted" => Eligibility(e) = "accepted"
        /\ plan.checkpoint \in {RolledTo(Target), RolledTo(boundary)}
    BY <2>1, PlanFacts
  <2>3. /\ boundary' \in {boundary, Target} /\ boundary' >= boundary
        /\ generation' \in Nat /\ generation' >= generation
    <3>1. Target \in Int /\ boundary <= Target
      BY <2>1, TargetBounds
    <3>2. /\ RolledTo(Target).boundary = Target
          /\ RolledTo(Target).generation \in Nat /\ generation <= RolledTo(Target).generation
      BY <2>1, <3>1, RolledBounds
    <3>3. /\ RolledTo(boundary).boundary = boundary
          /\ RolledTo(boundary).generation \in Nat /\ generation <= RolledTo(boundary).generation
      <4>1. boundary <= boundary
        BY <2>1
      <4> QED
        BY <2>1, <4>1, RolledBounds
    <3>4. boundary' = plan.checkpoint.boundary /\ generation' = plan.checkpoint.generation
      BY <1>1, <1>3
    <3> QED
      BY <2>1, <2>2, <3>1, <3>2, <3>3, <3>4
  <2>4. \A r \in receipts :
          ReceiptShape(moved[r]) /\ moved[r].event = r.event /\ moved[r].outcome = r.outcome
    <3> SUFFICES ASSUME NEW r \in receipts
                 PROVE  ReceiptShape(moved[r]) /\ moved[r].event = r.event /\ moved[r].outcome = r.outcome
      OBVIOUS
    <3> DEFINE a == AnchorAfter(plan.work, r)
    <3> HIDE DEF a
    <3>1. moved[r] = [r EXCEPT !.anchor = a]
      BY DEF a
    <3>2. [r EXCEPT !.anchor = a] = [event |-> r.event, outcome |-> r.outcome, anchor |-> a]
      BY <2>1 DEF ReceiptShape
    <3> QED
      BY <3>1, <3>2 DEF ReceiptShape
  <2>5. ReceiptShape(new) /\ new.event = e /\ new.outcome = plan.outcome
    BY DEF NewReceipt, ReceiptShape
  <2>6. receipts' = {moved[r] : r \in receipts} \union {new}
    BY <1>1, <1>3, Zenon
  <2>7. DOMAIN moved = receipts
    OBVIOUS
  <2>8. lastSeq' = [d \in Devices |-> IF d = e.device THEN e.seq ELSE lastSeq[d]]
    BY <1>1, <1>3 DEF Consumed
  <2> HIDE DEF moved, new
  <2>9. Extends(e, moved, new)
    BY <2>2, <2>4, <2>5, <2>6, <2>7 DEF Extends
  <2> QED
    BY <2>3, <2>8, <2>9
<1> QED
  BY <1>2, <1>3

----------------------------------------------------------------------------
(* The inductive invariant of the evidence log.                            *)

EvidenceInv == EvidenceTypeOK /\ Provenance /\ LogComplete /\ CausallyOrdered

\* Accepted evidence under a recorded event.
LEMMA ExtendsAccepted ==
  ASSUME NEW e, NEW moved, NEW new, Extends(e, moved, new)
  PROVE  /\ \A q \in receipts' : (\E r \in receipts : q = moved[r]) \/ q = new
         /\ \A a \in Accepted : a \in Accepted'
         /\ \A a \in Accepted' : a \in Accepted \/ (a = e /\ Eligibility(e) = "accepted")
<1>1. \A q \in receipts' : (\E r \in receipts : q = moved[r]) \/ q = new
  BY DEF Extends
<1>2. ASSUME NEW a \in Accepted PROVE a \in Accepted'
  <2>1. PICK r \in receipts : r.outcome = "accepted" /\ r.event = a
    BY DEF Accepted, AcceptedReceipts
  <2>2. moved[r] \in receipts' /\ moved[r].outcome = "accepted" /\ moved[r].event = a
    BY <2>1 DEF Extends
  <2> QED
    BY <2>2 DEF Accepted, AcceptedReceipts
<1>3. ASSUME NEW a \in Accepted'
      PROVE  a \in Accepted \/ (a = e /\ Eligibility(e) = "accepted")
  <2>1. PICK q \in receipts' : q.outcome = "accepted" /\ q.event = a
    BY DEF Accepted, AcceptedReceipts
  <2>2. CASE q = new
    BY <2>1, <2>2 DEF Extends
  <2>3. CASE \E r \in receipts : q = moved[r]
    <3>1. PICK r \in receipts : q = moved[r]
      BY <2>3
    <3>2. r.outcome = "accepted" /\ r.event = a
      BY <2>1, <3>1 DEF Extends
    <3> QED
      BY <3>2 DEF Accepted, AcceptedReceipts
  <2> QED
    BY <1>1, <2>2, <2>3
<1> QED
  BY <1>1, <1>2, <1>3

\* A RETURN keeps its cause when the log is extended.
LEMMA ExtendsCauses ==
  ASSUME NEW e, NEW moved, NEW new, Extends(e, moved, new),
         NEW a, CauseReceipts(a) # {}
  PROVE  CauseReceipts(a)' # {}
<1>1. PICK r \in receipts :
        /\ r.outcome = "accepted" /\ r.event.id = a.cause /\ r.event.type = "take"
        /\ r.event.user = a.user /\ r.event.vehicle = a.vehicle /\ r.event.time <= a.time
  BY DEF CauseReceipts, AcceptedReceipts
<1>2. moved[r] \in receipts' /\ moved[r].outcome = "accepted" /\ moved[r].event = r.event
  BY <1>1 DEF Extends
<1> QED
  BY <1>1, <1>2 DEF CauseReceipts, AcceptedReceipts

\* Every device has a last accepted event once it has an accepted event.
LEMMA LastAcceptedExists ==
  ASSUME EvidenceInv, NEW d \in Devices, NEW b \in Accepted, b.device = d
  PROVE  \E a \in LastAcceptedOf(d) : b.seq <= a.seq
<1> DEFINE seqs == {c.seq : c \in {x \in Accepted : x.device = d}}
<1>1. \A c \in Accepted : c.device = d => c.seq \in 1..lastSeq[d]
  <2> SUFFICES ASSUME NEW c \in Accepted, c.device = d PROVE c.seq \in 1..lastSeq[d]
    OBVIOUS
  <2>1. PICK r \in receipts : r.event = c
    BY DEF Accepted, AcceptedReceipts
  <2> QED
    BY <2>1 DEF EvidenceInv, LogComplete
<1>2. lastSeq[d] \in Nat
  BY DEF EvidenceInv, EvidenceTypeOK
<1>3. seqs \subseteq Int /\ seqs # {} /\ \A n \in seqs : n <= lastSeq[d]
  BY <1>1, <1>2
<1>4. \E n \in seqs : \A m \in seqs : m <= n
  <2>1. lastSeq[d] \in Int
    BY <1>2
  <2> HIDE DEF seqs
  <2> QED
    BY <1>3, <2>1, GreatestElement, Zenon
<1>5. PICK a \in Accepted : a.device = d /\ \A m \in seqs : m <= a.seq
  BY <1>4
<1>6. \A c \in Accepted : c.device = d => c.seq <= a.seq
  BY <1>5
<1> QED
  BY <1>5, <1>6 DEF LastAcceptedOf

LEMMA RecordType ==
  ASSUME EvidenceInv, NEW e, Arrival(e), NEW moved, NEW new, Extends(e, moved, new),
         boundary' \in {boundary, Target}, generation' \in Nat,
         lastSeq' = [d \in Devices |-> IF d = e.device THEN e.seq ELSE lastSeq[d]],
         raised' \in BOOLEAN, UNCHANGED <<now, revoked, retired, members, erased>>
  PROVE  EvidenceTypeOK' /\ Provenance'
<1>1. EvidenceTypeOK /\ Provenance
  BY DEF EvidenceInv
<1>2. Target \in Int
  BY <1>1, TargetBounds DEF EvidenceTypeOK
<1>3. \A q \in receipts' :
        ReceiptShape(q) /\ q.event \in Event /\ q.outcome \in Outcome
        /\ WellSourced(q.event) /\ q.event.time <= now + Skew
  <2> SUFFICES ASSUME NEW q \in receipts'
               PROVE  ReceiptShape(q) /\ q.event \in Event /\ q.outcome \in Outcome
                      /\ WellSourced(q.event) /\ q.event.time <= now + Skew
    OBVIOUS
  <2>1. CASE q = new
    BY <2>1 DEF Extends, Arrival
  <2>2. CASE \E r \in receipts : q = moved[r]
    <3>1. PICK r \in receipts : q = moved[r]
      BY <2>2
    <3> QED
      BY <1>1, <3>1 DEF Extends, EvidenceTypeOK, Provenance
  <2> QED
    BY <2>1, <2>2, ExtendsAccepted
<1>4. lastSeq' \in [Devices -> Nat]
  <2>1. e.seq \in Nat
    BY DEF Arrival, Event
  <2> QED
    BY <1>1, <2>1 DEF EvidenceTypeOK
<1> QED
  BY <1>1, <1>2, <1>3, <1>4 DEF EvidenceTypeOK, Provenance, ReceiptShape, WellSourced

LEMMA RecordLogComplete ==
  ASSUME EvidenceInv, NEW e, Arrival(e), NEW moved, NEW new, Extends(e, moved, new),
         lastSeq' = [d \in Devices |-> IF d = e.device THEN e.seq ELSE lastSeq[d]]
  PROVE  LogComplete'
<1> DEFINE seqs(d) == {r.event.seq : r \in {q \in receipts : q.event.device = d}}
           seen(d) == {r.event.seq : r \in {q \in receipts' : q.event.device = d}}
<1>1. \A d \in Devices : seqs(d) = 1..lastSeq[d] /\ lastSeq[d] \in Nat
  BY DEF EvidenceInv, LogComplete, EvidenceTypeOK
<1>2. ASSUME NEW d \in Devices PROVE seen(d) = 1..lastSeq'[d]
  <2>1. \A r \in receipts : r.event.device = d => r.event.seq \in seen(d)
    BY DEF Extends
  <2>2. \A n \in seen(d) : n \in seqs(d) \/ (e.device = d /\ n = e.seq)
    <3> SUFFICES ASSUME NEW q \in receipts', q.event.device = d
                 PROVE  q.event.seq \in seqs(d) \/ (e.device = d /\ q.event.seq = e.seq)
      OBVIOUS
    <3> QED
      BY ExtendsAccepted DEF Extends
  <2>3. \A n \in seqs(d) : n \in seen(d)
    BY <2>1
  <2>4. CASE e.device = d
    <3>1. e.seq = lastSeq[d] + 1 /\ lastSeq'[d] = e.seq
      BY <2>4, DeviceAssumption DEF Arrival
    <3>2. e.seq \in seen(d)
      BY <2>4 DEF Extends
    <3>3. 1..(lastSeq[d] + 1) = (1..lastSeq[d]) \union {lastSeq[d] + 1}
      BY <1>1
    <3> HIDE DEF seqs, seen
    <3> QED
      BY <1>1, <2>2, <2>3, <3>1, <3>2, <3>3
  <2>5. CASE e.device # d
    <3>1. lastSeq'[d] = lastSeq[d]
      BY <2>5
    <3> HIDE DEF seqs, seen
    <3> QED
      BY <1>1, <2>2, <2>3, <2>5, <3>1
  <2> QED
    BY <2>4, <2>5
<1>3. ASSUME NEW p \in receipts', NEW q \in receipts',
             \/ p.event.id = q.event.id
             \/ p.event.device # NoDevice /\ p.event.device = q.event.device /\ p.event.seq = q.event.seq
      PROVE  p = q
  <2>1. \A r \in receipts :
          /\ r.event.id # e.id
          /\ ~ (r.event.device # NoDevice /\ r.event.device = e.device /\ r.event.seq = e.seq)
    <3> SUFFICES ASSUME NEW r \in receipts, r.event.device # NoDevice,
                        r.event.device = e.device, r.event.seq = e.seq
                 PROVE  FALSE
      BY DEF Arrival, FreshId
    <3>1. e.device \in Devices /\ e.seq = lastSeq[e.device] + 1
      BY DEF Arrival, WellSourced
    <3>2. e.seq \in 1..lastSeq[e.device]
      BY <1>1, <3>1
    <3> QED
      BY <1>1, <3>1, <3>2
  <2>2. \A r, t \in receipts :
          \/ r.event.id = t.event.id
          \/ r.event.device # NoDevice /\ r.event.device = t.event.device /\ r.event.seq = t.event.seq
          => r = t
    BY DEF EvidenceInv, LogComplete
  <2>3. CASE p = new /\ q = new
    BY <2>3
  <2>4. ASSUME NEW r \in receipts, p = moved[r], q = new PROVE FALSE
    BY <1>3, <2>1, <2>4 DEF Extends
  <2>5. ASSUME NEW r \in receipts, q = moved[r], p = new PROVE FALSE
    BY <1>3, <2>1, <2>5 DEF Extends
  <2>6. ASSUME NEW r \in receipts, NEW t \in receipts, p = moved[r], q = moved[t] PROVE p = q
    <3>1. p.event = r.event /\ q.event = t.event
      BY <2>6 DEF Extends
    <3> QED
      BY <1>3, <2>2, <2>6, <3>1
  <2> QED
    BY <2>3, <2>4, <2>5, <2>6, ExtendsAccepted
<1> QED
  BY <1>2, <1>3 DEF LogComplete

LEMMA RecordCausallyOrdered ==
  ASSUME EvidenceInv, NEW e, Arrival(e), NEW moved, NEW new, Extends(e, moved, new)
  PROVE  CausallyOrdered'
<1> DEFINE InOrderPair(a, b) ==
             a.device # NoDevice /\ a.device = b.device /\ a.seq < b.seq => a.time <= b.time
<1>1. \A a \in Accepted' : a \in Accepted \/ (a = e /\ Eligibility(e) = "accepted")
  BY ExtendsAccepted
<1>2. ASSUME NEW a \in Accepted', a.type = "return" PROVE CauseReceipts(a)' # {}
  <2>1. CASE a \in Accepted
    BY <1>2, <2>1, ExtendsCauses DEF EvidenceInv, CausallyOrdered
  <2>2. CASE a = e /\ Eligibility(e) = "accepted"
    <3>1. CauseReceipts(e) # {}
      BY <1>2, <2>2 DEF Eligibility
    <3> QED
      BY <2>2, <3>1, ExtendsCauses
  <2> QED
    BY <1>1, <2>1, <2>2
<1>3. ASSUME NEW a \in Accepted', NEW b \in Accepted',
             a.device # NoDevice, a.device = b.device, a.seq < b.seq
      PROVE  a.time <= b.time
  <2>1. \A c \in Accepted : /\ c \in Event /\ WellSourced(c)
                            /\ c.device # NoDevice => c.seq \in 1..lastSeq[c.device]
    <3> SUFFICES ASSUME NEW c \in Accepted
                 PROVE  /\ c \in Event /\ WellSourced(c)
                        /\ c.device # NoDevice => c.seq \in 1..lastSeq[c.device]
      OBVIOUS
    <3>1. PICK r \in receipts : r.event = c
      BY DEF Accepted, AcceptedReceipts
    <3>2. c \in Event /\ WellSourced(c)
      BY <3>1 DEF EvidenceInv, EvidenceTypeOK, Provenance
    <3> QED
      BY <3>1, <3>2 DEF EvidenceInv, LogComplete, WellSourced
  <2>2. \A d \in Devices : lastSeq[d] \in Nat
    BY DEF EvidenceInv, EvidenceTypeOK
  <2>3. CASE a \in Accepted /\ b \in Accepted
    BY <1>3, <2>3 DEF EvidenceInv, CausallyOrdered
  <2>4. CASE a = e
    \* No accepted event of the device has a higher sequence number.
    <3>1. e.device \in Devices /\ e.seq = lastSeq[e.device] + 1
      BY <1>3, <2>4 DEF Arrival, WellSourced
    <3>2. b = e \/ b.seq <= lastSeq[e.device]
      BY <1>1, <1>3, <2>1, <2>2, <2>4, <3>1
    <3>3. b \in Event
      BY <1>1, <2>1 DEF Arrival
    <3>4. a.seq \in Nat /\ b.seq \in Nat
      BY <2>4, <3>3 DEF Arrival, Event
    <3> QED
      BY <1>3, <2>2, <2>4, <3>1, <3>2, <3>4
  <2>5. CASE a \in Accepted /\ b = e /\ Eligibility(e) = "accepted"
    <3>1. e.device \in Devices /\ e.source = "native"
      BY <1>3, <2>5 DEF Arrival, WellSourced
    <3>2. PICK c \in LastAcceptedOf(e.device) : a.seq <= c.seq
      BY <1>3, <2>5, <3>1, LastAcceptedExists
    <3>3. ~(e.time < c.time)
      BY <2>5, <3>1, <3>2 DEF Eligibility
    <3>4. c \in Accepted /\ c.device = e.device
      BY <3>2 DEF LastAcceptedOf
    <3>5. a \in Event /\ c \in Event /\ e \in Event
      BY <2>1, <2>5, <3>4 DEF Arrival
    <3>6. a.time \in Int /\ c.time \in Int /\ e.time \in Int /\ a.seq \in Nat /\ c.seq \in Nat
      BY <3>5 DEF Event
    <3>7. CASE a.seq < c.seq
      <4>1. a.time <= c.time
        BY <1>3, <2>5, <3>4, <3>7 DEF EvidenceInv, CausallyOrdered
      <4> QED
        BY <2>5, <3>3, <3>6, <4>1
    <3>8. CASE a.seq = c.seq
      <4>1. PICK r \in receipts : r.event = a
        BY <2>5 DEF Accepted, AcceptedReceipts
      <4>2. PICK t \in receipts : t.event = c
        BY <3>4 DEF Accepted, AcceptedReceipts
      <4>3. r = t
        BY <1>3, <2>5, <3>4, <3>8, <4>1, <4>2 DEF EvidenceInv, LogComplete
      <4> QED
        BY <2>5, <3>3, <3>6, <4>1, <4>2, <4>3
    <3> QED
      BY <3>2, <3>6, <3>7, <3>8
  <2> QED
    BY <1>1, <2>3, <2>4, <2>5
<1> QED
  BY <1>2, <1>3 DEF CausallyOrdered

\* Native evidence arrives in the form Record expects.
LEMMA AdmitNativeArrives ==
  ASSUME EvidenceInv, NEW d \in Devices, AdmitNative(d)
  PROVE  \E e : Arrival(e) /\ Record(e)
<1>1. PICK id \in NativeIds, v \in Vehicles, t \in Instants :
        /\ FreshId(id)
        /\ \E type \in {"take", "return"}, cause \in (EventIds \union {NoEvent}) \ {id} :
             Record([id |-> id, user |-> Owner[d], vehicle |-> v, type |-> type,
                     source |-> "native", time |-> t, device |-> d,
                     seq |-> lastSeq[d] + 1, cause |-> cause])
  BY DEF AdmitNative
<1>2. PICK type \in {"take", "return"}, cause \in (EventIds \union {NoEvent}) \ {id} :
        Record([id |-> id, user |-> Owner[d], vehicle |-> v, type |-> type,
                source |-> "native", time |-> t, device |-> d,
                seq |-> lastSeq[d] + 1, cause |-> cause])
  BY <1>1
<1> DEFINE e == [id |-> id, user |-> Owner[d], vehicle |-> v, type |-> type,
                 source |-> "native", time |-> t, device |-> d,
                 seq |-> lastSeq[d] + 1, cause |-> cause]
<1>3. t \in Int /\ t <= now + Skew
  BY PolicyAssumption DEF Instants, EvidenceInv, EvidenceTypeOK
<1>4. lastSeq[d] + 1 \in Nat /\ cause \in Nat /\ id \in EventIds /\ Owner[d] \in Users
  BY IdAssumption, DeviceAssumption DEF EvidenceInv, EvidenceTypeOK, NoEvent
<1>5. e \in Event
  BY <1>3, <1>4 DEF Event
<1>6. d # NoDevice
  BY DeviceAssumption
<1>7. Arrival(e)
  BY <1>1, <1>3, <1>5, <1>6 DEF Arrival, WellSourced
<1> QED
  BY <1>2, <1>7

\* The invariant does not mind time, boundary or sessions.
LEMMA LogUnchanged ==
  ASSUME EvidenceInv, UNCHANGED <<receipts, lastSeq>>, now' \in Nat, now <= now'
  PROVE  Provenance' /\ LogComplete' /\ CausallyOrdered'
<1>1. \A r \in receipts : r.event.time <= now' + Skew
  BY PolicyAssumption DEF EvidenceInv, EvidenceTypeOK, Provenance, Event
<1>2. Provenance'
  BY <1>1 DEF EvidenceInv, Provenance, WellSourced
<1>3. LogComplete'
  BY DEF EvidenceInv, LogComplete
<1>4. Accepted' = Accepted /\ \A e : CauseReceipts(e)' = CauseReceipts(e)
  BY DEF Accepted, AcceptedReceipts, CauseReceipts
<1>5. CausallyOrdered'
  BY <1>4 DEF EvidenceInv, CausallyOrdered
<1> QED
  BY <1>2, <1>3, <1>5

LEMMA RecordInv ==
  ASSUME EvidenceInv, NEW e, Arrival(e), Record(e),
         UNCHANGED <<now, revoked, retired, members, erased>>
  PROVE  EvidenceInv'
<1>1. raised' \in BOOLEAN
  BY DEF Record, EvidenceInv, EvidenceTypeOK
<1>2. CASE UNCHANGED <<boundary, generation, sessions, receipts, lastSeq>>
  BY <1>1, <1>2, LogUnchanged DEF EvidenceInv, EvidenceTypeOK
<1>3. ASSUME NEW moved, NEW new, Extends(e, moved, new),
             lastSeq' = [x \in Devices |-> IF x = e.device THEN e.seq ELSE lastSeq[x]],
             boundary' \in {boundary, Target}, generation' \in Nat
      PROVE  EvidenceInv'
  <2>1. EvidenceTypeOK' /\ Provenance'
    BY <1>1, <1>3, RecordType
  <2>2. LogComplete'
    BY <1>3, RecordLogComplete
  <2>3. CausallyOrdered'
    BY <1>3, RecordCausallyOrdered
  <2> QED
    BY <2>1, <2>2, <2>3 DEF EvidenceInv
<1>4. EvidenceTypeOK
  BY DEF EvidenceInv
<1> QED
  BY <1>2, <1>3, <1>4, RecordReceipts

LEMMA AdmitInv ==
  ASSUME EvidenceInv, NEW d \in Devices, AdmitNative(d)
  PROVE  EvidenceInv'
<1>1. PICK e : Arrival(e) /\ Record(e)
  BY AdmitNativeArrives
<1>2. UNCHANGED <<now, revoked, retired, members, erased>>
  BY DEF AdmitNative
<1> QED
  BY <1>1, <1>2, RecordInv

\* The boundary an erasure finalizes through.
LEMMA ErasureBoundary ==
  ASSUME EvidenceInv, NEW u, EraseMember(u)
  PROVE  boundary' \in Int /\ boundary <= boundary' /\ \A a \in Accepted : a.time <= boundary'
<1> DEFINE instants == {boundary, now} \union {a.time : a \in Accepted}
           bound    == IF boundary < now + Skew THEN now + Skew ELSE boundary
<1>1. boundary \in Int /\ now \in Nat /\ Skew \in Nat
  BY PolicyAssumption DEF EvidenceInv, EvidenceTypeOK
<1>2. \A a \in Accepted : a.time \in Int /\ a.time <= now + Skew
  <2> SUFFICES ASSUME NEW a \in Accepted PROVE a.time \in Int /\ a.time <= now + Skew
    OBVIOUS
  <2>1. PICK r \in receipts : r.event = a
    BY DEF Accepted, AcceptedReceipts
  <2> QED
    BY <2>1 DEF EvidenceInv, EvidenceTypeOK, Provenance, Event
<1>3. /\ instants \subseteq Int /\ instants # {} /\ bound \in Int
      /\ \A t \in instants : t <= bound
  BY <1>1, <1>2
<1>4. boundary' = CHOOSE t \in instants : \A i \in instants : i <= t
  BY DEF EraseMember
<1>5. boundary \in instants /\ \A a \in Accepted : a.time \in instants
  OBVIOUS
<1> HIDE DEF instants, bound
<1>6. \E t \in instants : \A i \in instants : i <= t
  BY <1>3, GreatestElement, Zenon
<1>7. boundary' \in instants /\ \A i \in instants : i <= boundary'
  BY <1>4, <1>6, Zenon
<1> QED
  BY <1>3, <1>5, <1>7

LEMMA EraseInv ==
  ASSUME EvidenceInv, NEW u \in Users, EraseMember(u)
  PROVE  EvidenceInv'
<1>1. /\ receipts' = {r \in receipts : r.event.user # u}
      /\ lastSeq' = [d \in Devices |-> IF Owner[d] = u THEN 0 ELSE lastSeq[d]]
      /\ generation' = generation + 1 /\ members' = members \ {u}
      /\ erased' = erased \union {a \in Accepted : a.user = u}
      /\ UNCHANGED <<now, revoked, retired, raised>>
  BY DEF EraseMember, Cursors
<1>2. boundary' \in Int
  BY ErasureBoundary
<1>3. EvidenceTypeOK'
  <2>1. Accepted \subseteq Event
    BY DEF EvidenceInv, EvidenceTypeOK, Accepted, AcceptedReceipts
  <2>2. lastSeq' \in [Devices -> Nat]
    BY <1>1 DEF EvidenceInv, EvidenceTypeOK
  <2> QED
    BY <1>1, <1>2, <2>1, <2>2 DEF EvidenceInv, EvidenceTypeOK
<1>4. Provenance'
  BY <1>1 DEF EvidenceInv, Provenance, WellSourced
<1>5. LogComplete'
  <2>1. ASSUME NEW d \in Devices
        PROVE  {r.event.seq : r \in {q \in receipts' : q.event.device = d}} = 1..lastSeq'[d]
    <3>1. \A r \in receipts : r.event.device = d => r.event.user = Owner[d]
      BY DeviceAssumption DEF EvidenceInv, Provenance, WellSourced
    <3>2. CASE Owner[d] = u
      <4>1. {q \in receipts' : q.event.device = d} = {}
        BY <1>1, <3>1, <3>2
      <4>2. lastSeq'[d] = 0
        BY <1>1, <3>2
      <4> QED
        BY <4>1, <4>2
    <3>3. CASE Owner[d] # u
      <4>1. {q \in receipts' : q.event.device = d} = {q \in receipts : q.event.device = d}
        BY <1>1, <3>1, <3>3
      <4>2. lastSeq'[d] = lastSeq[d]
        BY <1>1, <3>3
      <4> QED
        BY <4>1, <4>2 DEF EvidenceInv, LogComplete
    <3> QED
      BY <3>2, <3>3
  <2> QED
    BY <1>1, <2>1 DEF EvidenceInv, LogComplete
<1>6. CausallyOrdered'
  <2>1. \A a \in Accepted' : a \in Accepted /\ a.user # u
    BY <1>1 DEF Accepted, AcceptedReceipts
  <2>2. ASSUME NEW a \in Accepted', a.type = "return" PROVE CauseReceipts(a)' # {}
    <3>1. PICK r \in receipts :
            /\ r.outcome = "accepted" /\ r.event.id = a.cause /\ r.event.type = "take"
            /\ r.event.user = a.user /\ r.event.vehicle = a.vehicle /\ r.event.time <= a.time
      BY <2>1, <2>2 DEF EvidenceInv, CausallyOrdered, CauseReceipts, AcceptedReceipts
    <3>2. r \in receipts'
      BY <1>1, <2>1, <3>1
    <3> QED
      BY <3>1, <3>2 DEF CauseReceipts, AcceptedReceipts
  <2> QED
    BY <2>1, <2>2 DEF EvidenceInv, CausallyOrdered
<1> QED
  BY <1>3, <1>4, <1>5, <1>6 DEF EvidenceInv

LEMMA MaintainBoundary ==
  ASSUME EvidenceTypeOK, MaintainCheckpoint
  PROVE  /\ boundary' \in Int /\ boundary <= boundary'
         /\ generation' \in Nat /\ generation <= generation'
<1>1. PICK u \in (boundary + 1)..Target : boundary' = u /\ generation' = RolledTo(u).generation
  BY DEF MaintainCheckpoint, MaintenanceBoundaries
<1>2. boundary \in Int /\ generation \in Nat /\ Target \in Int
  BY TargetBounds DEF EvidenceTypeOK
<1>3. u \in Int /\ boundary <= u
  BY <1>2
<1>4. RolledTo(u).generation \in Nat /\ generation <= RolledTo(u).generation
  BY <1>2, <1>3, RolledBounds
<1> QED
  BY <1>1, <1>3, <1>4

LEMMA InitInv == Init => EvidenceInv
<1> SUFFICES ASSUME Init PROVE EvidenceInv
  OBVIOUS
<1>1. EvidenceTypeOK
  <2>1. now \in Nat /\ boundary \in Int /\ generation \in Nat
    BY PolicyAssumption DEF Init, NeverFinalized
  <2>2. lastSeq \in [Devices -> Nat]
    BY DEF Init
  <2> QED
    BY <2>1, <2>2 DEF Init, EvidenceTypeOK
<1>2. Provenance
  BY DEF Init, Provenance
<1>3. LogComplete
  BY DEF Init, LogComplete
<1>4. CausallyOrdered
  BY DEF Init, CausallyOrdered, Accepted, AcceptedReceipts
<1> QED
  BY <1>1, <1>2, <1>3, <1>4 DEF EvidenceInv

LEMMA NextInv == EvidenceInv /\ [Next]_vars => EvidenceInv'
<1> SUFFICES ASSUME EvidenceInv, [Next]_vars PROVE EvidenceInv'
  OBVIOUS
<1>0. EvidenceTypeOK
  BY DEF EvidenceInv
<1>1. ASSUME NEW d \in Devices, AdmitNative(d) PROVE EvidenceInv'
  BY <1>1, AdmitInv
<1>2. ASSUME NEW d \in Devices, RevokeDevice(d) PROVE EvidenceInv'
  <2>1. UNCHANGED <<now, boundary, generation, receipts, lastSeq, retired, members, erased, raised>>
        /\ revoked' = revoked \union {d}
    BY <1>2 DEF RevokeDevice
  <2>2. EvidenceTypeOK'
    BY <1>0, <2>1 DEF EvidenceTypeOK
  <2> QED
    BY <1>0, <2>1, <2>2, LogUnchanged DEF EvidenceInv, EvidenceTypeOK
<1>3. ASSUME NEW v \in Vehicles, RetireVehicle(v) PROVE EvidenceInv'
  <2>1. UNCHANGED <<now, boundary, generation, receipts, lastSeq, revoked, members, erased, raised>>
        /\ retired' = retired \union {v}
    BY <1>3 DEF RetireVehicle
  <2>2. EvidenceTypeOK'
    BY <1>0, <2>1 DEF EvidenceTypeOK
  <2> QED
    BY <1>0, <2>1, <2>2, LogUnchanged DEF EvidenceInv, EvidenceTypeOK
<1>4. ASSUME NEW u \in Users, EraseMember(u) PROVE EvidenceInv'
  BY <1>4, EraseInv
<1>5. CASE MaintainCheckpoint
  <2>1. UNCHANGED <<now, receipts, lastSeq, revoked, retired, members, erased, raised>>
    BY <1>5 DEF MaintainCheckpoint
  <2>2. EvidenceTypeOK'
    BY <1>0, <1>5, <2>1, MaintainBoundary DEF EvidenceTypeOK
  <2> QED
    BY <1>0, <2>1, <2>2, LogUnchanged DEF EvidenceInv, EvidenceTypeOK
<1>6. CASE Tick
  <2>1. now' = now + 1 /\ UNCHANGED <<boundary, generation, receipts, lastSeq, revoked, retired, members, erased, raised>>
    BY <1>6 DEF Tick
  <2>2. EvidenceTypeOK' /\ now' \in Nat /\ now <= now'
    BY <1>0, <2>1 DEF EvidenceTypeOK
  <2> QED
    BY <2>1, <2>2, LogUnchanged DEF EvidenceInv
<1>7. CASE UNCHANGED vars
  <2>1. EvidenceTypeOK'
    BY <1>0, <1>7 DEF vars, EvidenceTypeOK
  <2> QED
    BY <1>0, <1>7, <2>1, LogUnchanged DEF EvidenceInv, EvidenceTypeOK, vars
<1> QED
  BY <1>1, <1>2, <1>3, <1>4, <1>5, <1>6, <1>7 DEF Next

THEOREM EvidenceInvariant == Spec => []EvidenceInv
BY InitInv, NextInv, PTL DEF Spec

(***************************************************************************)
(* The types of everything received, judged and administered, for every    *)
(* instance; those of the rows need the engine (AdmissionTypes).           *)
(***************************************************************************)
THEOREM EvidenceTypes == Spec => []EvidenceTypeOK
<1>1. EvidenceInv => EvidenceTypeOK
  BY DEF EvidenceInv
<1> QED
  BY <1>1, EvidenceInvariant, PTL

(***************************************************************************)
(* A device's log has no gap and no duplicate, across refusals, policy     *)
(* limits, engine errors, checkpoints and the erasure of any member.       *)
(***************************************************************************)
THEOREM LogIsComplete == Spec => []LogComplete
<1>1. EvidenceInv => LogComplete
  BY DEF EvidenceInv
<1> QED
  BY <1>1, EvidenceInvariant, PTL

(***************************************************************************)
(* Accepted evidence stays causally ordered, although refused evidence     *)
(* leaves holes in the accepted sequence and erasure removes causes.       *)
(***************************************************************************)
THEOREM EvidenceIsCausal == Spec => []CausallyOrdered
<1>1. EvidenceInv => CausallyOrdered
  BY DEF EvidenceInv
<1> QED
  BY <1>1, EvidenceInvariant, PTL

----------------------------------------------------------------------------
(* Receipts are permanent, and the finalized boundary is a one-way gate.   *)

LEMMA ExtendsPermanent ==
  ASSUME EvidenceInv, NEW e, NEW moved, NEW new, Extends(e, moved, new), Arrival(e),
         boundary' \in {boundary, Target}
  PROVE  /\ \A r \in receipts : \E q \in receipts' : q.event = r.event /\ q.outcome = r.outcome
         /\ \A q \in receipts' : \/ q.event \in {r.event : r \in receipts}
                                 \/ q.outcome # "accepted"
                                 \/ q.event.time > boundary'
<1>1. \A r \in receipts : \E q \in receipts' : q.event = r.event /\ q.outcome = r.outcome
  BY DEF Extends
<1>2. ASSUME NEW q \in receipts'
      PROVE  \/ q.event \in {r.event : r \in receipts}
             \/ q.outcome # "accepted"
             \/ q.event.time > boundary'
  <2>1. CASE \E r \in receipts : q = moved[r]
    BY <2>1 DEF Extends
  <2>2. CASE q = new /\ q.outcome = "accepted"
    <3>1. q.event = e /\ Eligibility(e) = "accepted"
      BY <2>2 DEF Extends
    <3>2. ~(e.time <= Target)
      BY <3>1 DEF Eligibility
    <3>3. now \in Nat /\ boundary \in Int
      BY DEF EvidenceInv, EvidenceTypeOK
    <3>4. e.time \in Int /\ boundary \in Int /\ Target \in Int /\ boundary <= Target
      BY <3>3, TargetBounds DEF Arrival, Event
    <3> QED
      BY <3>1, <3>2, <3>4
  <2> QED
    BY <2>1, <2>2, ExtendsAccepted
<1> QED
  BY <1>1, <1>2

PermanentStep ==
  /\ \A r \in receipts : r.event.user \in members' =>
       \E q \in receipts' : q.event = r.event /\ q.outcome = r.outcome
  /\ \A q \in receipts' : q.event \in {r.event : r \in receipts} \/ q.outcome # "accepted"
                          \/ q.event.time > boundary'
  /\ boundary <= boundary' /\ generation <= generation'

LEMMA NextPermanent == EvidenceInv /\ [Next]_vars => PermanentStep
<1> SUFFICES ASSUME EvidenceInv, [Next]_vars PROVE PermanentStep
  OBVIOUS
<1>1. EvidenceTypeOK /\ boundary \in Int /\ generation \in Nat
  BY DEF EvidenceInv, EvidenceTypeOK
<1>2. ASSUME UNCHANGED receipts, boundary' >= boundary, boundary' \in Int,
             generation' >= generation, generation' \in Nat
      PROVE  PermanentStep
  BY <1>1, <1>2 DEF PermanentStep
<1>3. ASSUME NEW d \in Devices, AdmitNative(d) PROVE PermanentStep
  <2>1. PICK e : Arrival(e) /\ Record(e)
    BY <1>3, AdmitNativeArrives
  <2>2. CASE UNCHANGED <<boundary, generation, sessions, receipts, lastSeq>>
    BY <1>1, <1>2, <2>2
  <2>3. ASSUME NEW moved, NEW new, Extends(e, moved, new), boundary' \in {boundary, Target},
               boundary' >= boundary, generation' \in Nat, generation' >= generation
        PROVE  PermanentStep
    <3>1. Target \in Int
      BY <1>1, TargetBounds DEF EvidenceTypeOK
    <3> QED
      BY <1>1, <2>1, <2>3, <3>1, ExtendsPermanent DEF PermanentStep
  <2> QED
    BY <1>1, <2>1, <2>2, <2>3, RecordReceipts
<1>4. ASSUME NEW u \in Users, EraseMember(u) PROVE PermanentStep
  <2>1. /\ receipts' = {r \in receipts : r.event.user # u}
        /\ members' = members \ {u} /\ generation' = generation + 1
    BY <1>4 DEF EraseMember
  <2>2. boundary' \in Int /\ boundary <= boundary'
    BY <1>4, ErasureBoundary
  <2> QED
    BY <1>1, <2>1, <2>2 DEF PermanentStep
<1>5. CASE MaintainCheckpoint
  <2>1. UNCHANGED receipts
    BY <1>5 DEF MaintainCheckpoint
  <2> QED
    BY <1>1, <1>2, <1>5, <2>1, MaintainBoundary
<1>6. CASE UNCHANGED <<receipts, boundary, generation>>
  BY <1>1, <1>2, <1>6
<1> QED
  BY <1>3, <1>4, <1>5, <1>6 DEF Next, RevokeDevice, RetireVehicle, Tick, vars

(***************************************************************************)
(* No step rewrites or drops a member's receipt, and nothing is accepted   *)
(* at or before the boundary the step leaves behind.                       *)
(***************************************************************************)
THEOREM EvidenceIsPermanent == Spec => EvidencePermanent
<1>1. EvidenceInv /\ [Next]_vars => [PermanentStep]_vars
  BY NextPermanent
<1> QED
  BY <1>1, EvidenceInvariant, PTL DEF Spec, EvidencePermanent, PermanentStep

----------------------------------------------------------------------------
(* Retired vehicles stay out of use, whatever the engine projects: the     *)
(* guard on its result and the shape of the rows are enough.               *)

SessionShape(s) ==
  s = [ref |-> s.ref, user |-> s.user, vehicle |-> s.vehicle, start |-> s.start,
       anchor |-> s.anchor, end |-> s.end, endEvent |-> s.endEvent, reason |-> s.reason,
       gen |-> s.gen]

\* The same use of the same vehicle.
SameUse(s, r) == SessionShape(s) /\ s.vehicle = r.vehicle /\ s.reason = r.reason

RetirementInv == RetiredNotInUse /\ \A s \in sessions : SessionShape(s)

LEMMA MarkedRow ==
  ASSUME NEW s, SessionShape(s), NEW g, NEW k
  PROVE  /\ SameUse([s EXCEPT !.gen = g], s)
         /\ SameUse([s EXCEPT !.gen = g, !.endEvent = k], s)
<1>1. [s EXCEPT !.gen = g] =
        [ref |-> s.ref, user |-> s.user, vehicle |-> s.vehicle, start |-> s.start,
         anchor |-> s.anchor, end |-> s.end, endEvent |-> s.endEvent, reason |-> s.reason, gen |-> g]
  BY DEF SessionShape
<1> DEFINE m == [s EXCEPT !.gen = g]
<1>2. [s EXCEPT !.gen = g, !.endEvent = k] = [m EXCEPT !.endEvent = k]
  BY Zenon
<1>3. SessionShape(m) /\ m.vehicle = s.vehicle /\ m.reason = s.reason
  BY <1>1 DEF SessionShape
<1> HIDE DEF m
<1>4. [m EXCEPT !.endEvent = k] =
        [ref |-> m.ref, user |-> m.user, vehicle |-> m.vehicle, start |-> m.start,
         anchor |-> m.anchor, end |-> m.end, endEvent |-> k, reason |-> m.reason, gen |-> m.gen]
  BY <1>3 DEF SessionShape
<1>5. SameUse([m EXCEPT !.endEvent = k], s)
  BY <1>3, <1>4 DEF SameUse, SessionShape
<1> QED
  BY <1>2, <1>3, <1>5 DEF SameUse, m

LEMMA RolledRows ==
  ASSUME \A s \in sessions : SessionShape(s), NEW t
  PROVE  \A x \in RolledTo(t).rows : \E s \in sessions : SameUse(x, s)
<1> DEFINE held(s) == s \in CheckpointRows(t) /\ s.start <= t /\ EndsAfter(s, t)
           mark(s) == IF held(s) THEN [s EXCEPT !.gen = generation + 1] ELSE s
<1>1. \A s \in sessions : SameUse(s, s)
  BY DEF SameUse
<1>2. \A s \in sessions : SameUse(mark(s), s)
  <2> SUFFICES ASSUME NEW s \in sessions PROVE SameUse(mark(s), s)
    OBVIOUS
  <2>1. CASE held(s)
    <3>1. mark(s) = [s EXCEPT !.gen = generation + 1]
      BY <2>1, Zenon
    <3> QED
      BY <3>1, MarkedRow, Zenon
  <2>2. CASE ~held(s)
    <3>1. mark(s) = s
      BY <2>2, Zenon
    <3> QED
      BY <1>1, <3>1, Zenon
  <2> QED
    BY <2>1, <2>2, Zenon
<1>3. RolledTo(t).rows = sessions \/ RolledTo(t).rows = {mark(s) : s \in sessions}
  <2>1. CASE t <= boundary
    BY <2>1 DEF RolledTo
  <2>2. CASE ~(t <= boundary)
    <3> DEFINE rows == {mark(s) : s \in sessions}
    <3>1. RolledTo(t) = [within |-> Cardinality(CheckpointRows(t)) <= MaxCheckpointRows,
                         boundary |-> t, generation |-> generation + 1, rows |-> rows]
      BY <2>2, Zenon DEF RolledTo
    <3> HIDE DEF rows
    <3>2. RolledTo(t).rows = rows
      BY <3>1
    <3> QED
      BY <3>2 DEF rows
  <2> QED
    BY <2>1, <2>2
<1> HIDE DEF mark
<1> QED
  BY <1>1, <1>2, <1>3, Zenon

LEMMA MaterializedRows ==
  ASSUME NEW checkpoint, NEW work, NEW incremental,
         NEW x \in Materialized(checkpoint, work, incremental)
  PROVE  x \in checkpoint.rows \/ \E s \in work.projection.sessions : SameUse(x, s)
<1> DEFINE desired == work.projection.sessions
           new     == {s \in desired : Retained(work, s) = {}}
           taken   == {r.ref : r \in checkpoint.rows}
           rank(s) == Cardinality({n \in new : n.anchor <= s.anchor})
           gen(s)  == IF Retained(work, s) = {} THEN NoGeneration
                      ELSE IF incremental THEN The(Retained(work, s)).gen
                      ELSE IF s.start <= checkpoint.boundary THEN checkpoint.generation
                      ELSE NoGeneration
           ref(s)  == IF s \in new THEN FreshRef(taken, rank(s)) ELSE The(Retained(work, s)).ref
           row(s)  == [ref |-> ref(s), user |-> s.user, vehicle |-> s.vehicle, start |-> s.start,
                       anchor |-> s.anchor, end |-> s.end, endEvent |-> s.endEvent,
                       reason |-> s.reason, gen |-> gen(s)]
<1>1. x \in (checkpoint.rows \ work.mutable) \union {row(s) : s \in desired}
  BY Zenon DEF Materialized, Untouched
<1> HIDE DEF ref, gen
<1>2. \A s : SameUse(row(s), s)
  BY DEF SameUse, SessionShape
<1> HIDE DEF row
<1> QED
  BY <1>1, <1>2, Zenon

LEMMA RecordRetirement ==
  ASSUME EvidenceTypeOK, RetirementInv, NEW e, Record(e), UNCHANGED retired
  PROVE  RetirementInv'
<1>1. PICK plan \in {AdmissionPlan(e)} :
        IF plan.sound THEN sessions' = Materialized(plan.checkpoint, plan.work, IsLatest(e))
                      ELSE UNCHANGED sessions
  BY DEF Record
<1>2. CASE ~plan.sound
  BY <1>1, <1>2 DEF RetirementInv, RetiredNotInUse, Open
<1>3. CASE plan.sound
  <2>1. plan.checkpoint \in {RolledTo(Target), RolledTo(boundary)}
    BY PlanFacts DEF EvidenceTypeOK
  <2>2. ~ReopensRetired(plan.work)
    <3>1. plan.work = Unprojected(NoEvent) \/ ~ReopensRetired(plan.work)
      BY <1>3, PlanFacts DEF EvidenceTypeOK
    <3>2. ~ReopensRetired(Unprojected(NoEvent))
      BY DEF ReopensRetired, Unprojected
    <3> QED
      BY <3>1, <3>2
  <2>3. ASSUME NEW x \in sessions'
        PROVE  SessionShape(x) /\ (Open(x) => x.vehicle \notin retired)
    <3>1. x \in plan.checkpoint.rows \/ \E s \in plan.work.projection.sessions : SameUse(x, s)
      BY <1>1, <1>3, MaterializedRows
    <3>2. CASE x \in plan.checkpoint.rows
      <4>1. PICK s \in sessions : SameUse(x, s)
        BY <2>1, <3>2, RolledRows DEF RetirementInv
      <4> QED
        BY <4>1 DEF SameUse, RetirementInv, RetiredNotInUse, Open
    <3>3. CASE \E s \in plan.work.projection.sessions : SameUse(x, s)
      BY <2>2, <3>3 DEF SameUse, ReopensRetired, Open
    <3> QED
      BY <3>1, <3>2, <3>3
  <2> QED
    BY <2>3 DEF RetirementInv, RetiredNotInUse, Open, SessionShape
<1> QED
  BY <1>2, <1>3

LEMMA NextRetirement == EvidenceInv /\ RetirementInv /\ [Next]_vars => RetirementInv'
<1> SUFFICES ASSUME EvidenceInv, RetirementInv, [Next]_vars PROVE RetirementInv'
  OBVIOUS
<1>1. EvidenceTypeOK
  BY DEF EvidenceInv
\* It is enough that every row continues the use of an earlier one.
<1>2. ASSUME UNCHANGED retired, \A x \in sessions' : \E s \in sessions : SameUse(x, s)
      PROVE  RetirementInv'
  BY <1>2 DEF RetirementInv, RetiredNotInUse, SameUse, SessionShape, Open
<1>3. \A s \in sessions : SameUse(s, s)
  BY DEF SameUse, RetirementInv
<1>4. ASSUME NEW d \in Devices, AdmitNative(d) PROVE RetirementInv'
  <2>1. PICK e : Record(e)
    BY <1>4, AdmitNativeArrives
  <2>2. UNCHANGED retired
    BY <1>4 DEF AdmitNative
  <2> QED
    BY <1>1, <2>1, <2>2, RecordRetirement
<1>5. ASSUME NEW v \in Vehicles, RetireVehicle(v) PROVE RetirementInv'
  <2>1. /\ \A s \in sessions : s.vehicle = v => ~Open(s)
        /\ retired' = retired \union {v} /\ UNCHANGED sessions
    BY <1>5 DEF RetireVehicle
  <2> QED
    BY <2>1 DEF RetirementInv, RetiredNotInUse, SessionShape, Open
<1>6. ASSUME NEW u \in Users, EraseMember(u) PROVE RetirementInv'
  <2> DEFINE gone == {r.event.id : r \in {q \in receipts : q.event.user = u}}
  <2>1. sessions' = {Kept(s, gone) : s \in {r \in sessions : r.user # u}}
    BY <1>6, Zenon DEF EraseMember
  <2>2. ASSUME NEW s \in sessions PROVE SameUse(Kept(s, gone), s)
    <3> DEFINE g == IF Open(s) THEN generation + 1 ELSE s.gen
               k == IF s.endEvent \in gone THEN NoEvent ELSE s.endEvent
    <3>1. SessionShape(s)
      BY DEF RetirementInv
    <3> HIDE DEF gone
    <3>2. Kept(s, gone) = [s EXCEPT !.gen = g, !.endEvent = k]
      BY DEF Kept
    <3>3. SameUse([s EXCEPT !.gen = g, !.endEvent = k], s)
      <4> HIDE DEF g, k
      <4> QED
        BY <3>1, MarkedRow, Zenon
    <3> HIDE DEF g, k
    <3> QED
      BY <3>2, <3>3, Zenon
  <2>3. UNCHANGED retired
    BY <1>6 DEF EraseMember
  <2> HIDE DEF gone
  <2> QED
    BY <1>2, <2>1, <2>2, <2>3
<1>7. CASE MaintainCheckpoint
  <2>1. PICK t : sessions' = RolledTo(t).rows
    BY <1>7 DEF MaintainCheckpoint
  <2>2. UNCHANGED retired
    BY <1>7 DEF MaintainCheckpoint
  <2> QED
    BY <1>2, <2>1, <2>2, RolledRows DEF RetirementInv
<1>8. CASE UNCHANGED <<sessions, retired>>
  BY <1>2, <1>3, <1>8
<1> QED
  BY <1>4, <1>5, <1>6, <1>7, <1>8 DEF Next, RevokeDevice, Tick, vars

(***************************************************************************)
(* No retired vehicle is ever in use, however late the evidence, whatever  *)
(* the engine returns and in whatever order members are erased.            *)
(***************************************************************************)
THEOREM RetiredStaysUnused == Spec => []RetiredNotInUse
<1>1. Init => RetirementInv
  BY DEF Init, RetirementInv, RetiredNotInUse
<1>2. RetirementInv => RetiredNotInUse
  BY DEF RetirementInv
<1> QED
  BY <1>1, <1>2, NextRetirement, EvidenceInvariant, PTL DEF Spec
=============================================================================
