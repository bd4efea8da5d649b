------------------------ MODULE EngineHistoryProofs ------------------------
(***************************************************************************)
(* What the runs of MCReconciliation check on a few events, for any number *)
(* of users, vehicles, devices, instants and events: whatever evidence     *)
(* arrives, the engine's sessions are the declarative history and no       *)
(* driver or vehicle is used twice at once.                                *)
(***************************************************************************)
EXTENDS MCReconciliation, ReconciliationProofs

\* The evidence of device d.
FromDevice(d) == {e \in E : e.device = d}

\* Every RETURN is of the driver and vehicle of an earlier TAKE.
Caused(e) ==
  e.type = "return" =>
    \E c \in E : c.type = "take" /\ c.id = e.cause /\ c.user = e.user /\ c.vehicle = e.vehicle /\ c.time <= e.time

\* A device numbers its evidence in the order in which it happened.
InOrder(a, b) ==
  a.device = b.device /\ a.device # NoDevice =>
    /\ a.user = b.user
    /\ a # b => a.seq # b.seq
    /\ a.seq < b.seq => a.time <= b.time

\* The evidence that can have arrived.
Evidence ==
  /\ IsFiniteSet(E)
  /\ \A e \in E : /\ e.id \in 1..MaxEvents /\ e.time \in 1..MaxTime /\ e.type \in {"take", "return"}
                  /\ e.source = "native" <=> e.device # NoDevice
                  /\ e.device # NoDevice => e.seq \in 1..Cardinality(FromDevice(e.device))
                  /\ Caused(e)
  /\ \A a, b \in E : (a # b => a.id # b.id) /\ InOrder(a, b)
  /\ \A S \in (SUBSET E) \ {{}} : Ready(S) # {}

\* x is admissible as the next piece of evidence.
Fits(x) ==
  /\ x.id \in FreshIds /\ x.time \in 1..MaxTime /\ x.type \in {"take", "return"}
  /\ x.source = "native" <=> x.device # NoDevice
  /\ x.device # NoDevice => x.seq = 1 + Cardinality(FromDevice(x.device))
  /\ InDeviceOrder(x.device, x.user, x.time)
  /\ Caused(x)

\* An arriving event fits, whichever of its two kinds it is.
LEMMA ArrivalFits ==
  ASSUME Arrive
  PROVE  \E x : Fits(x) /\ E' = E \union {x}
<1>1. PICK id \in FreshIds, d \in Sources, t \in 1..MaxTime :
        \/ \E u \in Users, v \in Vehicles :
             /\ InDeviceOrder(d, u, t)
             /\ E' = E \union {Event(id, u, v, d, t, "take", NoEvent)}
        \/ \E c \in E :
             /\ c.type = "take" /\ c.time <= t
             /\ InDeviceOrder(d, c.user, t)
             /\ E' = E \union {Event(id, c.user, c.vehicle, d, t, "return", c.id)}
  BY Zenon DEF Arrive
<1>2. ASSUME NEW u \in Users, NEW v \in Vehicles, InDeviceOrder(d, u, t)
      PROVE  Fits(Event(id, u, v, d, t, "take", NoEvent))
  BY <1>1, <1>2 DEF Fits, Event, Caused, FromDevice
<1>3. ASSUME NEW c \in E, c.type = "take", c.time <= t, InDeviceOrder(d, c.user, t)
      PROVE  Fits(Event(id, c.user, c.vehicle, d, t, "return", c.id))
  BY <1>1, <1>3 DEF Fits, Event, Caused, FromDevice
<1> QED
  BY <1>1, <1>2, <1>3

\* The evidence stays orderable with one more event.
LEMMA ReadyGrows ==
  ASSUME Evidence, NEW x, Fits(x), NEW S, S \subseteq E \union {x}, S # {}
  PROVE  Ready(S) # {}
<1>1. x.id \notin {e.id : e \in E} /\ \A e \in E : Caused(e)
  BY DEF Fits, FreshIds, Evidence
<1>2. ~Precedes(x, x)
  <2>1. Caused(x) /\ (x.device # NoDevice => x.seq \in Nat)
    BY FS_CardinalityType, FS_Subset DEF Fits, FromDevice, Evidence
  <2>2. x.source = "native" <=> x.device # NoDevice
    BY DEF Fits
  <2>3. ~(x.type = "return" /\ x.cause = x.id)
    BY <1>1, <2>1 DEF Caused
  <2> QED
    BY <2>1, <2>2, <2>3 DEF Precedes
<1>3. ASSUME NEW r \in E PROVE ~Precedes(x, r)
  <2>1. ~(r.type = "return" /\ r.cause = x.id)
    BY <1>1, <1>3 DEF Caused
  <2>2. ASSUME x.source = "native", r.source = "native", x.device = r.device, x.seq < r.seq PROVE FALSE
    <3>1. x.device # NoDevice /\ r.seq \in 1..Cardinality(FromDevice(x.device))
      BY <1>3, <2>2 DEF Fits, Evidence
    <3>2. x.seq = 1 + Cardinality(FromDevice(x.device)) /\ Cardinality(FromDevice(x.device)) \in Nat
      BY <3>1, FS_CardinalityType, FS_Subset DEF Fits, FromDevice, Evidence
    <3> QED
      BY <2>2, <3>1, <3>2
  <2> QED
    BY <2>1, <2>2 DEF Precedes
<1>4. CASE S \subseteq {x}
  <2>1. S = {x}
    BY <1>4
  <2> QED
    BY <1>2, <2>1 DEF Ready
<1>5. CASE ~(S \subseteq {x})
  <2>1. S \ {x} \in (SUBSET E) \ {{}}
    BY <1>5
  <2>2. PICK r : r \in Ready(S \ {x})
    BY <2>1 DEF Evidence
  <2>3. r \in E /\ r \in S /\ \A a \in S \ {x} : ~Precedes(a, r)
    BY <2>1, <2>2 DEF Ready
  <2> QED
    BY <1>3, <2>3 DEF Ready
<1> QED
  BY <1>4, <1>5

LEMMA EvidenceGrows ==
  ASSUME Evidence, NEW x, Fits(x), E' = E \union {x}
  PROVE  Evidence'
<1>1. x \notin E /\ x.id \in 1..MaxEvents /\ \A e \in E : x.id # e.id
  BY DEF Fits, FreshIds
<1>2. IsFiniteSet(E')
  BY FS_AddElement DEF Evidence
<1>3. \A d : /\ Cardinality(FromDevice(d)) \in Nat
             /\ FromDevice(d)' = IF d = x.device THEN FromDevice(d) \union {x} ELSE FromDevice(d)
             /\ Cardinality(FromDevice(d)') = IF d = x.device THEN Cardinality(FromDevice(d)) + 1
                                                              ELSE Cardinality(FromDevice(d))
  <2> TAKE d
  <2>1. IsFiniteSet(FromDevice(d)) /\ x \notin FromDevice(d)
    BY <1>1, FS_Subset DEF FromDevice, Evidence
  <2>2. FromDevice(d)' = IF d = x.device THEN FromDevice(d) \union {x} ELSE FromDevice(d)
    BY DEF FromDevice
  <2>3. /\ Cardinality(FromDevice(d)) \in Nat
        /\ Cardinality(FromDevice(d) \union {x}) = Cardinality(FromDevice(d)) + 1
    BY <2>1, FS_CardinalityType, FS_AddElement
  <2> QED
    BY <2>2, <2>3
<1>4. ASSUME NEW e \in E'
      PROVE  /\ e.id \in 1..MaxEvents /\ e.time \in 1..MaxTime /\ e.type \in {"take", "return"}
             /\ e.source = "native" <=> e.device # NoDevice
             /\ e.device # NoDevice => e.seq \in 1..Cardinality(FromDevice(e.device)')
             /\ Caused(e)'
  <2>1. ASSUME Caused(e) PROVE Caused(e)'
    BY <2>1 DEF Caused
  <2>2. CASE e = x
    <3>1. e.device # NoDevice => e.seq \in 1..Cardinality(FromDevice(e.device)')
      BY <1>3, <2>2 DEF Fits
    <3> QED
      BY <1>1, <2>1, <2>2, <3>1 DEF Fits
  <2>3. CASE e \in E
    <3>1. e.device # NoDevice => e.seq \in 1..Cardinality(FromDevice(e.device)')
      <4>1. e.device # NoDevice => e.seq \in 1..Cardinality(FromDevice(e.device))
        BY <2>3 DEF Evidence
      <4> QED
        BY <1>3, <4>1
    <3> QED
      BY <2>1, <2>3, <3>1 DEF Evidence
  <2> QED
    BY <2>2, <2>3
<1>5. ASSUME NEW e \in E PROVE InOrder(e, x) /\ InOrder(x, e)
  <2> SUFFICES ASSUME e.device = x.device, x.device # NoDevice PROVE InOrder(e, x) /\ InOrder(x, e)
    BY DEF InOrder
  <2>1. e.user = x.user /\ e.time <= x.time
    BY DEF Fits, InDeviceOrder
  <2>2. e.seq \in 1..Cardinality(FromDevice(x.device)) /\ x.seq = 1 + Cardinality(FromDevice(x.device))
    BY DEF Evidence, Fits
  <2>3. e.seq # x.seq /\ ~(x.seq < e.seq)
    BY <1>3, <2>2
  <2> QED
    BY <2>1, <2>3 DEF InOrder
<1>6. InOrder(x, x)
  <2>1. x.device # NoDevice => x.seq \in Nat
    BY <1>3 DEF Fits
  <2> QED
    BY <2>1 DEF InOrder
<1>7. \A a, b \in E' : (a # b => a.id # b.id) /\ InOrder(a, b)
  BY <1>1, <1>5, <1>6 DEF Evidence
<1>8. \A S \in (SUBSET E') \ {{}} : Ready(S) # {}
  BY ReadyGrows
<1>9. \A e \in E' : /\ e.id \in 1..MaxEvents /\ e.time \in 1..MaxTime /\ e.type \in {"take", "return"}
                    /\ e.source = "native" <=> e.device # NoDevice
                    /\ e.device # NoDevice => e.seq \in 1..Cardinality(FromDevice(e.device)')
                    /\ Caused(e)'
  BY <1>4
<1> QED
  BY <1>2, <1>7, <1>8, <1>9 DEF Evidence

LEMMA CauseIsTake ==
  ASSUME Evidence, NEW a \in E, NEW b \in E, b.type = "return", b.cause = a.id
  PROVE  a.type = "take" /\ a.user = b.user /\ a.vehicle = b.vehicle /\ a.time <= b.time
<1>1. PICK c \in E : c.type = "take" /\ c.id = b.cause /\ c.user = b.user /\ c.vehicle = b.vehicle /\ c.time <= b.time
  BY DEF Evidence, Caused
<1>2. c = a
  BY <1>1 DEF Evidence
<1> QED
  BY <1>1, <1>2

\* Evidence whose causes are all there can be replayed from nothing.
LEMMA EvidenceSetting ==
  ASSUME Evidence, NEW F, F \subseteq E, \A e \in F : e.type = "return" => \E c \in F : c.id = e.cause
  PROVE  Setting(EmptySeed(0), F)
<1> DEFINE seed == EmptySeed(0)
<1>1. seed.boundary = 0 /\ seed.sessions = {} /\ DOMAIN seed.anchors = {}
  BY DEF EmptySeed
<1> HIDE DEF seed
<1>2. SeedShape(seed) /\ SoundSeed(seed) /\ DOMAIN StartAnchors(seed) = {}
  BY <1>1, FS_EmptySet DEF SeedShape, SoundSeed, StartAnchors, Own, Carried
<1>3. /\ IsFiniteSet(F)
      /\ \A e \in F : e.id \in Nat /\ e.time \in Int /\ e.time > 0 /\ e.type \in {"take", "return"}
  BY Bounds, FS_Subset DEF Evidence
<1>4. CausesKnown(seed, F)
  BY DEF CausesKnown
<1>5. \A a, b \in F :
       /\ a # b => a.id # b.id
       /\ a.device = b.device /\ a.device # NoDevice => a.user = b.user
       /\ a # b /\ a.device = b.device /\ a.device # NoDevice => a.seq # b.seq
  BY DEF Evidence, InOrder
<1>6. \A a, b \in F : b.type = "return" /\ b.cause = a.id =>
            a.type = "take" /\ a.user = b.user /\ a.vehicle = b.vehicle /\ a.time <= b.time
  BY CauseIsTake
<1>7. \A a, b \in F : Precedes(a, b) => a.time <= b.time
  BY <1>6 DEF Precedes, Evidence, InOrder
<1>8. \A S \in (SUBSET F) \ {{}} : Ready(S) # {}
  BY DEF Evidence
<1>9. Orderable(F, seed.boundary, DOMAIN StartAnchors(seed))
  BY <1>1, <1>2, <1>3, <1>5, <1>6, <1>7, <1>8 DEF Orderable
<1> QED
  BY <1>2, <1>3, <1>4, <1>9 DEF Setting, seed

\* Evidence is accepted one event at a time, and always fits.
LEMMA EvidenceAlways == Spec => []Evidence
<1>1. E = {} => Evidence
  BY FS_EmptySet DEF Evidence, InOrder, Caused
<1>2. Evidence /\ [Arrive]_E => Evidence'
  <2> SUFFICES ASSUME Evidence, [Arrive]_E PROVE Evidence'
    OBVIOUS
  <2>1. CASE Arrive
    BY <2>1, ArrivalFits, EvidenceGrows
  <2>2. CASE UNCHANGED E
    <3>1. E' = E /\ (\A d : FromDevice(d)' = FromDevice(d)) /\ \A e : Caused(e)' <=> Caused(e)
      BY <2>2 DEF FromDevice, Caused
    <3> QED
      BY <3>1 DEF Evidence
  <2> QED
    BY <2>1, <2>2
<1> QED
  BY <1>1, <1>2, PTL DEF Spec

(***************************************************************************)
(* Whatever evidence has arrived, folding it (reconcile) yields exactly    *)
(* the declarative history and the anchor of every TAKE.                   *)
(***************************************************************************)
THEOREM EngineAlwaysHistory == Spec => []EngineMatchesHistory
<1>1. Evidence => EngineMatchesHistory
  <2> SUFFICES ASSUME Evidence PROVE EngineMatchesHistory
    OBVIOUS
  <2>1. Setting(EmptySeed(0), E)
    BY EvidenceSetting DEF Evidence, Caused
  <2> QED
    BY <2>1, EngineIsHistory, Zenon DEF EngineMatchesHistory, Whole
<1> QED
  BY <1>1, EvidenceAlways, PTL

(***************************************************************************)
(* Whatever evidence has arrived, no driver has two vehicles and no        *)
(* vehicle two drivers at one instant.                                     *)
(***************************************************************************)
THEOREM AlwaysDisjoint == Spec => []Disjoint
<1>1. Evidence => Disjoint
  <2> SUFFICES ASSUME Evidence PROVE Disjoint
    OBVIOUS
  <2>1. RunInv(EmptySeed(0), E, E, Whole)
    BY EvidenceSetting, ReplayKeepsInvariant DEF Whole, Evidence, Caused
  <2> HIDE DEF Whole
  <2>2. \A s, r \in Whole.sessions : s # r => Apart(s, r)
    BY <2>1 DEF RunInv, SessionsInv
  <2> QED
    BY <2>2 DEF Disjoint, Apart
<1> QED
  BY <1>1, EvidenceAlways, PTL

----------------------------------------------------------------------------
(* A checkpoint at a boundary, and its parts.                              *)

Before(b)   == {e \in E : e.time <= b}
Past(b)     == Reconcile(EmptySeed(0), Before(b))
Over(b)     == {s \in Past(b).sessions : ~Open(s)}
External(b) == {e \in E \ Before(b) : e.type = "return" /\ e.cause \in DOMAIN Past(b).anchors}
Settled(b)  == {e \in External(b) : \E s \in Over(b) : s.anchor = Past(b).anchors[e.cause]}
Suffix(b)   == (E \ Before(b)) \ Settled(b)
Seed(b)     == [boundary |-> b, sessions |-> Past(b).sessions \ Over(b),
                anchors  |-> [c \in {e.cause : e \in External(b) \ Settled(b)} |-> Past(b).anchors[c]]]

LEMMA CheckpointParts ==
  ASSUME NEW b
  PROVE  Checkpoint(b) = [frozen |-> Over(b), settled |-> Settled(b), suffix |-> Suffix(b), seed |-> Seed(b)]
BY Zenon DEF Checkpoint, Before, Past, Over, External, Settled, Suffix, Seed

\* What the replay of the evidence up to the boundary ends in.
LEMMA PastFacts ==
  ASSUME Evidence, NEW b \in Int
  PROVE  /\ Setting(EmptySeed(0), Before(b))
         /\ IsFiniteSet(Past(b).sessions)
         /\ \A s \in Past(b).sessions :
              /\ ProjectedShape(s) /\ s.start \in Int /\ s.start <= b
              /\ Open(s) => s.end = s.start /\ s.endEvent = NoEvent
              /\ \E e \in Before(b) : e.type = "take" /\ s.anchor = e.id
              /\ s.anchor \in DOMAIN Past(b).anchors /\ Past(b).anchors[s.anchor] = s.anchor
         /\ \A s, r \in Past(b).sessions : s.anchor = r.anchor => s = r
         /\ \A s, r \in Past(b).sessions : s # r /\ Open(s) /\ Open(r) => s.user # r.user /\ s.vehicle # r.vehicle
         /\ DOMAIN Past(b).anchors = {e.id : e \in {a \in Before(b) : a.type = "take"}}
         /\ \A a \in Before(b) : a.type = "take" =>
              \E s \in Past(b).sessions : /\ s.anchor = Past(b).anchors[a.id]
                                          /\ s.user = a.user /\ s.vehicle = a.vehicle
<1> DEFINE B == Before(b)
           P == Past(b)
<1>1. Setting(EmptySeed(0), B)
  <2>1. B \subseteq E
    BY DEF Before
  <2>2. ASSUME NEW e \in B, e.type = "return" PROVE \E c \in B : c.id = e.cause
    <3>1. PICK c \in E : c.id = e.cause /\ c.time <= e.time
      BY <2>1, <2>2 DEF Evidence, Caused
    <3>2. e.time <= b /\ e.time \in Int /\ c.time \in Int
      BY <2>1, Bounds DEF Before, Evidence
    <3>3. c.time <= b
      BY <3>1, <3>2
    <3> QED
      BY <3>1, <3>3 DEF Before
  <2> HIDE DEF B
  <2> QED
    BY <2>1, <2>2, EvidenceSetting
<1>2. RunInv(EmptySeed(0), B, B, P)
  BY <1>1, ReplayKeepsInvariant DEF Past
<1>3. EmptySeed(0).sessions = {} /\ DOMAIN StartAnchors(EmptySeed(0)) = {}
  BY DEF EmptySeed, StartAnchors, Own, Carried
<1>4. \A e \in B : e.time \in Int /\ e.time <= b
  BY DEF Before, Evidence
<1> HIDE DEF B, P
<1>5. SessionsInv(EmptySeed(0), B, B, P.sessions) /\ AnchorsInv(EmptySeed(0), B, P.sessions, P.anchors)
  BY <1>2 DEF RunInv
<1>6. ASSUME NEW s \in P.sessions
      PROVE  /\ ProjectedShape(s) /\ s.start \in Int /\ s.start <= b
             /\ Open(s) => s.end = s.start /\ s.endEvent = NoEvent
             /\ \E e \in B : e.type = "take" /\ s.anchor = e.id
             /\ s.anchor \in DOMAIN P.anchors /\ P.anchors[s.anchor] = s.anchor
  <2>1. Traced(EmptySeed(0), B, s)
    BY <1>5 DEF SessionsInv
  <2>2. PICK e \in B : OpensAt(s, e)
    BY <1>3, <2>1 DEF Traced
  <2>3. s.start <= b
    BY <1>4, <2>2 DEF OpensAt
  <2>4. s.anchor \in DOMAIN P.anchors /\ P.anchors[s.anchor] = s.anchor
    BY <1>5 DEF AnchorsInv
  <2> QED
    BY <2>1, <2>2, <2>3, <2>4 DEF Traced, OpensAt
<1>7. /\ IsFiniteSet(P.sessions)
      /\ \A s, r \in P.sessions : s.anchor = r.anchor => s = r
      /\ \A s, r \in P.sessions : s # r /\ Open(s) /\ Open(r) => s.user # r.user /\ s.vehicle # r.vehicle
  BY <1>5 DEF SessionsInv
<1>8. /\ DOMAIN P.anchors = {e.id : e \in {a \in B : a.type = "take"}}
      /\ \A a \in B : a.type = "take" =>
           \E s \in P.sessions : s.anchor = P.anchors[a.id] /\ s.user = a.user /\ s.vehicle = a.vehicle
  <2>1. DOMAIN P.anchors = DOMAIN StartAnchors(EmptySeed(0)) \union {e.id : e \in {a \in B : a.type = "take"}}
    BY <1>5, Zenon DEF AnchorsInv
  <2>2. DOMAIN P.anchors = {e.id : e \in {a \in B : a.type = "take"}}
    BY <1>3, <2>1
  <2> QED
    BY <1>5, <2>2 DEF AnchorsInv
<1> QED
  BY <1>1, <1>6, <1>7, <1>8 DEF B, P

\* The seed carries the open sessions, and anchors as the past had them.
LEMMA SeedParts ==
  ASSUME Evidence, NEW b \in Int
  PROVE  /\ SeedShape(Seed(b))
         /\ Seed(b).boundary = b
         /\ Seed(b).sessions = {s \in Past(b).sessions : Open(s)}
         /\ DOMAIN Seed(b).anchors = {e.cause : e \in External(b) \ Settled(b)}
         /\ \A t \in DOMAIN Seed(b).anchors : Seed(b).anchors[t] = Past(b).anchors[t]
         /\ \A t \in DOMAIN StartAnchors(Seed(b)) :
              t \in DOMAIN Past(b).anchors /\ StartAnchors(Seed(b))[t] = Past(b).anchors[t]
<1> DEFINE P == Past(b)
           seed == Seed(b)
<1>1. /\ IsFiniteSet(P.sessions)
      /\ \A s \in P.sessions : /\ ProjectedShape(s) /\ s.start \in Int
                               /\ s.anchor \in DOMAIN P.anchors /\ P.anchors[s.anchor] = s.anchor
      /\ \A s, r \in P.sessions : s.anchor = r.anchor => s = r
  BY PastFacts
<1> HIDE DEF P
<1>2. /\ seed.boundary = b
      /\ seed.sessions = {s \in P.sessions : Open(s)}
      /\ DOMAIN seed.anchors = {e.cause : e \in External(b) \ Settled(b)}
      /\ \A t \in DOMAIN seed.anchors : seed.anchors[t] = P.anchors[t]
  BY DEF Seed, Over, P
<1> HIDE DEF seed
<1>3. SeedShape(seed)
  <2>1. IsFiniteSet(seed.sessions)
    BY <1>1, <1>2, FS_Subset
  <2> QED
    BY <1>1, <1>2, <2>1 DEF SeedShape
<1>4. \A t \in DOMAIN StartAnchors(seed) : t \in DOMAIN P.anchors /\ StartAnchors(seed)[t] = P.anchors[t]
  <2>1. Own(seed) = {c.anchor : c \in seed.sessions}
    BY <1>3, OwnAnchors
  <2>2. \A t \in Own(seed) : t \in DOMAIN P.anchors /\ P.anchors[t] = t
    BY <1>1, <1>2, <2>1
  <2>3. \A t \in DOMAIN seed.anchors : t \in DOMAIN P.anchors /\ seed.anchors[t] = P.anchors[t]
    BY <1>2 DEF External, P
  <2> QED
    BY <2>2, <2>3 DEF StartAnchors
<1> QED
  BY <1>2, <1>3, <1>4 DEF P, seed

\* The sessions open across the boundary are a seed for what comes after it.
LEMMA SeedSetting ==
  ASSUME Evidence, NEW b \in Int
  PROVE  Setting(Seed(b), Suffix(b))
<1> DEFINE P == Past(b)
           seed == Seed(b)
           F == Suffix(b)
<1>1. /\ IsFiniteSet(P.sessions)
      /\ \A s \in P.sessions :
              /\ ProjectedShape(s) /\ s.start \in Int /\ s.start <= b
              /\ \E e \in Before(b) : e.type = "take" /\ s.anchor = e.id
              /\ s.anchor \in DOMAIN P.anchors /\ P.anchors[s.anchor] = s.anchor
      /\ \A s, r \in P.sessions : s.anchor = r.anchor => s = r
      /\ \A s, r \in P.sessions : s # r /\ Open(s) /\ Open(r) => s.user # r.user /\ s.vehicle # r.vehicle
      /\ DOMAIN P.anchors = {e.id : e \in {a \in Before(b) : a.type = "take"}}
      /\ \A a \in Before(b) : a.type = "take" =>
           \E s \in P.sessions : s.anchor = P.anchors[a.id] /\ s.user = a.user /\ s.vehicle = a.vehicle
  BY PastFacts
<1>2. /\ SeedShape(seed)
      /\ seed.boundary = b
      /\ seed.sessions = {s \in P.sessions : Open(s)}
      /\ DOMAIN seed.anchors = {e.cause : e \in External(b) \ Settled(b)}
      /\ \A t \in DOMAIN seed.anchors : seed.anchors[t] = P.anchors[t]
      /\ \A t \in DOMAIN StartAnchors(seed) : t \in DOMAIN P.anchors /\ StartAnchors(seed)[t] = P.anchors[t]
  BY SeedParts
<1> HIDE DEF P, seed
<1>3. ASSUME NEW e \in External(b) \ Settled(b)
      PROVE  \E s \in seed.sessions : s.anchor = P.anchors[e.cause] /\ s.user = e.user /\ s.vehicle = e.vehicle
  <2>1. e \in E /\ e.type = "return" /\ e.cause \in DOMAIN P.anchors
    BY DEF External, P
  <2>2. PICK a \in Before(b) : a.type = "take" /\ a.id = e.cause
    BY <1>1, <2>1
  <2>3. a.user = e.user /\ a.vehicle = e.vehicle
    BY <2>1, <2>2, CauseIsTake DEF Before
  <2>4. PICK s \in P.sessions : s.anchor = P.anchors[a.id] /\ s.user = a.user /\ s.vehicle = a.vehicle
    BY <1>1, <2>2
  <2>5. Open(s)
    BY <2>2, <2>4 DEF Settled, Over, P
  <2> QED
    BY <1>2, <2>2, <2>3, <2>4, <2>5
<1>4. SoundSeed(seed)
  <2>1. \A t \in DOMAIN seed.anchors : \E s \in seed.sessions : s.anchor = seed.anchors[t]
    BY <1>2, <1>3
  <2> QED
    BY <1>1, <1>2, <2>1 DEF SoundSeed
<1>5. F \subseteq E /\ \A e \in F : e \notin Before(b)
  BY DEF Suffix
<1>6. \A e \in F : e.time > b /\ e.time \in Int /\ e.id \in Nat /\ e.type \in {"take", "return"}
  BY <1>5, Bounds DEF Before, Evidence
<1>7. \A e \in F : e.id \notin DOMAIN StartAnchors(seed)
  <2>1. \A e \in F, a \in Before(b) : e.id # a.id
    BY <1>5 DEF Evidence, Before
  <2> QED
    BY <1>1, <1>2, <2>1
<1>8. CausesKnown(seed, F)
  <2> SUFFICES ASSUME NEW e \in F, e.type = "return"
               PROVE  \/ \E a \in F : a.id = e.cause
                      \/ /\ e.cause \in DOMAIN StartAnchors(seed)
                         /\ \E c \in seed.sessions : /\ c.anchor = StartAnchors(seed)[e.cause]
                                                     /\ c.user = e.user /\ c.vehicle = e.vehicle
    BY DEF CausesKnown
  <2>1. PICK a \in E : a.type = "take" /\ a.id = e.cause
    BY <1>5 DEF Evidence, Caused
  <2>2. CASE a \in Before(b)
    <3>1. e \in External(b) \ Settled(b)
      BY <1>1, <1>5, <2>1, <2>2 DEF External, Suffix, P
    <3>2. e.cause \in DOMAIN StartAnchors(seed)
      BY <1>2, <3>1 DEF StartAnchors
    <3> QED
      BY <1>2, <1>3, <3>1, <3>2
  <2>3. CASE a \notin Before(b)
    BY <2>1, <2>3 DEF Suffix, Settled, External
  <2> QED
    BY <2>2, <2>3
<1>9. \A a, c \in F :
         /\ a # c => a.id # c.id
         /\ Precedes(a, c) => a.time <= c.time
         /\ a.device = c.device /\ a.device # NoDevice => a.user = c.user
         /\ a # c /\ a.device = c.device /\ a.device # NoDevice => a.seq # c.seq
         /\ c.type = "return" /\ c.cause = a.id => a.type = "take" /\ a.user = c.user /\ a.vehicle = c.vehicle
  BY <1>5, CauseIsTake DEF Evidence, InOrder, Precedes
<1>10. /\ \A S \in (SUBSET F) \ {{}} : Ready(S) # {}
       /\ IsFiniteSet(F)
  BY <1>5, FS_Subset DEF Evidence
<1>11. Orderable(F, seed.boundary, DOMAIN StartAnchors(seed))
  BY <1>2, <1>6, <1>7, <1>9, <1>10 DEF Orderable
<1> HIDE DEF F
<1>12. Setting(seed, F)
  BY <1>2, <1>4, <1>6, <1>8, <1>10, <1>11 DEF Setting
<1> QED
  BY <1>12 DEF seed, F

\* The uses that are over by position m.
OverAt(q, m) == {c \in Openers(q, m) : ~Lasts(q, c, m + 1)}

\* The evidence that counts, in the order in which all of it is replayed.
LEMMA CountedOrder ==
  ASSUME Evidence, NEW b \in Int, NEW q, q = Ordered(E \ Settled(b))
  PROVE  /\ Replayed(q)
         /\ Segment(q, 0, Before(b)) /\ Segment(q, Cardinality(Before(b)), Suffix(b))
         /\ Len(q) = Cardinality(Before(b)) + Cardinality(Suffix(b))
<1> DEFINE F == E \ Settled(b)
           B == Before(b)
           A == Suffix(b)
<1>1. F = B \union A
  BY DEF Before, Suffix, Settled, External
<1>2. SplitInTime(F, B, A)
  <2>1. \A x \in B, y \in A : x.time < y.time
    BY Bounds DEF Before, Suffix, Evidence
  <2> QED
    BY <1>1, <2>1, Zenon DEF SplitInTime
<1>3. Setting(EmptySeed(0), F)
  <2>1. \A e \in F : e.type = "return" => \E c \in F : c.id = e.cause
    BY DEF Evidence, Caused, Settled, External
  <2> QED
    BY <2>1, EvidenceSetting
<1>4. Replayable(F) /\ Replayed(Ordered(F)) /\ Len(Ordered(F)) = Cardinality(F)
  BY <1>3, SettingReplayable, OrderReplayed
<1>5. q = Ordered(F)
  OBVIOUS
<1> HIDE DEF F, B, A
<1>6. /\ Cardinality(B) \in Nat /\ Cardinality(A) \in Nat
      /\ Cardinality(F) = Cardinality(B) + Cardinality(A)
      /\ \A k \in 1..Cardinality(B) : q[k] = Ordered(B)[k]
      /\ \A k \in 1..Cardinality(A) : q[Cardinality(B) + k] = Ordered(A)[k]
  <2>1. /\ Cardinality(B) \in Nat /\ Cardinality(A) \in Nat
        /\ Cardinality(F) = Cardinality(B) + Cardinality(A)
        /\ \A k \in 1..Cardinality(B) : Ordered(F)[k] = Ordered(B)[k]
        /\ \A k \in 1..Cardinality(A) : Ordered(F)[Cardinality(B) + k] = Ordered(A)[k]
    BY <1>2, <1>4, OrderedSplits
  <2> QED
    BY <1>5, <2>1
<1>7. Replayed(q) /\ Len(q) = Cardinality(B) + Cardinality(A)
  BY <1>4, <1>5, <1>6
<1>8. Segment(q, 0, B) /\ Segment(q, Cardinality(B), A)
  <2>1. \A k \in 1..Cardinality(B) : q[0 + k] = Ordered(B)[k]
    BY <1>6
  <2>2. 0 \in Nat /\ 0 + Cardinality(B) <= Len(q) /\ Cardinality(B) + Cardinality(A) <= Len(q)
    BY <1>6, <1>7
  <2> QED
    BY <1>6, <2>1, <2>2, Zenon DEF Segment
<1> QED
  BY <1>7, <1>8 DEF B, A

\* The replay of the past keeps track of the history of all that counts.
LEMMA PastTracks ==
  ASSUME Evidence, NEW b \in Int, NEW q, Replayed(q), Segment(q, 0, Before(b))
  PROVE  Tracks(q, {}, Cardinality(Before(b)), Past(b))
<1> DEFINE start == Start(EmptySeed(0))
<1>1. start.sessions = {}
  BY DEF Start, Carried, EmptySeed
<1> HIDE DEF start
<1>2. Openers(q, 0) = {} /\ \A c \in Takes(q) : ~(c <= 0)
  BY DEF Openers, Takes, Replayed
<1>3. Aside(q, {}, 0) /\ Tracks(q, {}, 0, start)
  BY <1>1, <1>2 DEF Aside, Tracks, SessionsTrack, AnchorsTrack
<1>4. Setting(EmptySeed(0), Before(b))
  BY PastFacts
<1>5. Tracks(q, {}, 0 + Cardinality(Before(b)), Past(b))
  BY <1>3, <1>4, ReplayTracks DEF start, Past
<1>6. 0 + Cardinality(Before(b)) = Cardinality(Before(b))
  BY DEF Segment
<1> QED
  BY <1>5, <1>6

\* The seed keeps track of what is not over.
LEMMA SeedTracks ==
  ASSUME Evidence, NEW b \in Int, NEW q, Replayed(q), NEW m, Tracks(q, {}, m, Past(b))
  PROVE  Tracks(q, OverAt(q, m), m, Start(Seed(b)))
<1> DEFINE P == Past(b)
           S == {s \in P.sessions : Open(s)}
           gone == OverAt(q, m)
           start == Start(Seed(b))
<1>1. \A s \in P.sessions : ProjectedShape(s) /\ (Open(s) => s.end = s.start /\ s.endEvent = NoEvent)
  BY PastFacts
<1>2. \A s \in S : Reopened(s) = s
  <2> SUFFICES ASSUME NEW s \in S PROVE Reopened(s) = s
    OBVIOUS
  <2>1. ProjectedShape(s) /\ s.end = s.start /\ s.endEvent = NoEvent /\ s.reason = "open"
    BY <1>1 DEF Open
  <2>2. /\ ProjectedShape(Reopened(s)) /\ SameStart(Reopened(s), s) /\ Reopened(s).reason = "open"
        /\ Reopened(s).end = s.start /\ Reopened(s).endEvent = NoEvent
    BY <2>1, ReopenedFacts DEF Open
  <2> QED
    BY <2>1, <2>2 DEF ProjectedShape, SameStart
<1>3. Carried(Seed(b)) = S
  <2>1. Seed(b).sessions = S
    BY SeedParts
  <2> HIDE DEF S
  <2> QED
    BY <1>2, <2>1 DEF Carried
<1>4. start.sessions = S /\ start.anchors = StartAnchors(Seed(b))
  BY <1>3 DEF Start
<1>5. SessionsTrack(q, {}, m, m, P.sessions) /\ AnchorsTrack(q, m, P.anchors)
  BY DEF Tracks
<1> HIDE DEF start, P
<1>6. SessionsTrack(q, gone, m, m, S)
  <2>1. ASSUME NEW s \in S PROVE \E c \in Openers(q, m) \ gone : Mirrors(q, m, s, c)
    <3>1. PICK c \in Openers(q, m) : Mirrors(q, m, s, c)
      BY <1>5 DEF SessionsTrack
    <3>2. Lasts(q, c, m + 1)
      BY <3>1 DEF Mirrors
    <3> QED
      BY <3>1, <3>2 DEF OverAt
  <2>2. ASSUME NEW c \in Openers(q, m) \ gone PROVE \E s \in S : Mirrors(q, m, s, c)
    <3>1. PICK s \in P.sessions : Mirrors(q, m, s, c)
      BY <1>5 DEF SessionsTrack
    <3>2. Lasts(q, c, m + 1)
      BY DEF OverAt
    <3>3. Open(s)
      BY <3>1, <3>2 DEF Mirrors
    <3> QED
      BY <3>1, <3>3
  <2> HIDE DEF S, gone
  <2> QED
    BY <2>1, <2>2 DEF SessionsTrack
<1>7. AnchorsTrack(q, m, StartAnchors(Seed(b)))
  <2>1. \A t \in DOMAIN StartAnchors(Seed(b)) : t \in DOMAIN P.anchors /\ StartAnchors(Seed(b))[t] = P.anchors[t]
    BY SeedParts DEF P
  <2> QED
    BY <1>5, <2>1 DEF AnchorsTrack
<1> QED
  BY <1>4, <1>6, <1>7 DEF Tracks, start

\* What was over at the boundary is the history of the uses over by then.
LEMMA FrozenIsOver ==
  ASSUME NEW b, NEW q, Replayed(q), NEW m \in Nat, m <= Len(q), Tracks(q, {}, m, Past(b))
  PROVE  {AsHistory(s) : s \in Over(b)} = {HistorySession(q, Held(q), c) : c \in OverAt(q, m)}
<1> DEFINE Of(c) == HistorySession(q, Held(q), c)
           C == OverAt(q, m)
<1>1. SessionsTrack(q, {}, m, m, Past(b).sessions)
  BY DEF Tracks
<1>2. ASSUME NEW s \in Over(b), NEW c \in Openers(q, m), Mirrors(q, m, s, c)
      PROVE  AsHistory(s) = Of(c)
  <2>1. c \in Takes(q) /\ c <= m /\ ~Open(s)
    BY DEF Openers, Over
  <2>2. Mirrors(q, Len(q), s, c)
    BY <1>2, <2>1, EndedStays
  <2> QED
    BY <2>1, <2>2, MirrorIsEntry
<1>3. \A s \in Over(b) : \E c \in C : AsHistory(s) = Of(c)
  <2> SUFFICES ASSUME NEW s \in Over(b) PROVE \E c \in C : AsHistory(s) = Of(c)
    OBVIOUS
  <2>1. PICK c \in Openers(q, m) : Mirrors(q, m, s, c)
    BY <1>1 DEF SessionsTrack, Over
  <2>2. c \in C
    BY <2>1 DEF OverAt, Mirrors, Over
  <2> QED
    BY <1>2, <2>1, <2>2
<1>4. \A c \in C : \E s \in Over(b) : AsHistory(s) = Of(c)
  <2> SUFFICES ASSUME NEW c \in C PROVE \E s \in Over(b) : AsHistory(s) = Of(c)
    OBVIOUS
  <2>1. c \in Openers(q, m) /\ ~Lasts(q, c, m + 1)
    BY DEF OverAt
  <2>2. PICK s \in Past(b).sessions : Mirrors(q, m, s, c)
    BY <1>1, <2>1 DEF SessionsTrack
  <2>3. s \in Over(b)
    BY <2>1, <2>2 DEF Mirrors, Over
  <2> QED
    BY <1>2, <2>1, <2>2, <2>3
<1> HIDE DEF Of, C
<1>5. {AsHistory(s) : s \in Over(b)} = {Of(c) : c \in C}
  BY <1>3, <1>4
<1> QED
  BY <1>5 DEF Of, C

(***************************************************************************)
(* A checkpoint at any boundary loses nothing but the RETURNs of sessions  *)
(* over by then: the frozen sessions, and the replay of the rest from the  *)
(* open ones, are the declarative history of everything else.              *)
(***************************************************************************)
THEOREM CheckpointAlwaysTransparent == Spec => []CheckpointTransparent
<1>1. ASSUME Evidence, NEW b \in Int
      PROVE  LET c      == Checkpoint(b)
                 future == Reconcile(c.seed, c.suffix)
             IN  /\ future.sound
                 /\ {AsHistory(s) : s \in c.frozen \union future.sessions} = History(E \ c.settled)
  <2> DEFINE q == Ordered(E \ Settled(b))
             m == Cardinality(Before(b))
             gone == OverAt(q, m)
             later == Reconcile(Seed(b), Suffix(b))
             Of(c) == HistorySession(q, Held(q), c)
  <2>1. /\ Replayed(q) /\ Segment(q, 0, Before(b)) /\ Segment(q, m, Suffix(b))
        /\ Len(q) = m + Cardinality(Suffix(b))
    BY <1>1, CountedOrder
  <2>2. m \in Nat /\ m <= Len(q) /\ Len(q) \in Nat
    BY <2>1 DEF Segment
  <2>3. Tracks(q, {}, m, Past(b))
    BY <1>1, <2>1, PastTracks
  <2>4. Setting(Seed(b), Suffix(b))
    BY <1>1, SeedSetting
  <2>h. History(E \ Settled(b)) = HistoryOf(q)
    BY <2>1, HistoryOfOrder
  <2> HIDE DEF q, m, later
  <2>5. Tracks(q, gone, Len(q), later)
    <3>1. Tracks(q, gone, m, Start(Seed(b)))
      BY <1>1, <2>1, <2>3, SeedTracks
    <3>2. Aside(q, gone, m)
      BY <2>2 DEF Aside, OverAt, Openers, Takes
    <3> HIDE DEF gone
    <3> QED
      BY <2>1, <2>4, <3>1, <3>2, ReplayTracks DEF later
  <2>6. {AsHistory(s) : s \in later.sessions} = {Of(c) : c \in Openers(q, Len(q)) \ gone}
    <3> HIDE DEF gone
    <3> QED
      BY <2>1, <2>5, TracksEnd DEF Tracks
  <2>7. {AsHistory(s) : s \in Over(b)} = {Of(c) : c \in gone}
    BY <2>1, <2>2, <2>3, FrozenIsOver
  <2>8. gone \subseteq Openers(q, Len(q))
    BY <2>2 DEF OverAt, Openers, Takes
  <2>9. later.sound
    BY <2>4, ReplayKeepsInvariant DEF RunInv, later
  <2> HIDE DEF gone, Of
  <2>10. {AsHistory(s) : s \in Over(b) \union later.sessions} = {Of(c) : c \in Openers(q, Len(q))}
    <3>1. {AsHistory(s) : s \in Over(b) \union later.sessions}
            = {AsHistory(s) : s \in Over(b)} \union {AsHistory(s) : s \in later.sessions}
      OBVIOUS
    <3>2. {Of(c) : c \in gone} \union {Of(c) : c \in Openers(q, Len(q)) \ gone} = {Of(c) : c \in Openers(q, Len(q))}
      BY <2>8
    <3> QED
      BY <2>6, <2>7, <3>1, <3>2
  <2>11. {AsHistory(s) : s \in Over(b) \union later.sessions} = History(E \ Settled(b))
    BY <2>10, <2>h DEF HistoryOf, Of
  <2>12. /\ Checkpoint(b).frozen = Over(b) /\ Checkpoint(b).settled = Settled(b)
         /\ Checkpoint(b).suffix = Suffix(b) /\ Checkpoint(b).seed = Seed(b)
    BY CheckpointParts
  <2> QED
    BY <2>9, <2>11, <2>12 DEF later
<1>2. Evidence => CheckpointTransparent
  <2> SUFFICES ASSUME Evidence, NEW b \in 1..(MaxTime - 1)
               PROVE  LET c      == Checkpoint(b)
                          future == Reconcile(c.seed, c.suffix)
                      IN  /\ future.sound
                          /\ {AsHistory(s) : s \in c.frozen \union future.sessions} = History(E \ c.settled)
    BY Zenon DEF CheckpointTransparent
  <2>1. b \in Int
    OBVIOUS
  <2> QED
    BY <1>1, <2>1
<1> QED
  BY <1>2, EvidenceAlways, PTL
=============================================================================
