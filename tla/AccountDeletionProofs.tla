------------------------ MODULE AccountDeletionProofs ------------------------
(***************************************************************************)
(* Theorems about AccountDeletion: types, the capacity of address lookups, *)
(* that data is erased only when no provider works for the identity any    *)
(* more, and that nothing of it returns.  They hold for any number of      *)
(* identities, lookups, messages and recovery loops and for all durations  *)
(* the assumptions allow.                                                  *)
(***************************************************************************)
EXTENDS AccountDeletion, FiniteSetTheorems, TLAPS

AttemptRow == [row : BOOLEAN, recent : 0..Window, held : BOOLEAN, permit : 0..Longest]

\* Lookups the provider works on, or may still be asked for.
Pending == {l \in Lookups : provider[l] > 0 \/ (at[l] = "admitted" /\ attempt[l].permit > 0)}

(***************************************************************************)
(* The invariant has four parts.  Permits that count are not bounded by    *)
(* the policy, since an expired one can be extended after its place was    *)
(* given away; what is bounded is the lookups that are pending, and each   *)
(* of them has a permit that lasts as long.                                *)
(***************************************************************************)
LookupInv ==
  /\ attempt \in [Lookups -> AttemptRow]
  /\ at \in [Lookups -> {"new", "admitted", "asking", "answered", "unsure", "done"}]
  /\ provider \in [Lookups -> 0..(Deadline + Linger)]
  /\ \A l \in Lookups : /\ provider[l] <= attempt[l].permit
                        /\ attempt[l].permit > 0 => attempt[l].held
                        /\ at[l] \in {"new", "answered"} => provider[l] = 0
  /\ IsFiniteSet(Active)
  /\ IsFiniteSet(Pending) /\ Cardinality(Pending) <= MaxLookups
  /\ \A k, l \in Pending : Caller[k] = Caller[l] => k = l

\* Where the Auth service is asked to delete an identity, its data is gone.
JobInv ==
  /\ auth \in [Identities -> BOOLEAN]
  /\ phase \in [Identities -> {"none", "draining", "auth_pending"}]
  /\ due \in [Identities -> 0..RetryTime]
  /\ deletes \subseteq {i \in Identities : Erased(i)}
  /\ recoverer \in [Recoverers -> [at : {"idle", "erased", "asking", "closing"},
                                   jobs : SUBSET Identities, job : SUBSET Identities]]
  /\ \A w \in Recoverers : recoverer[w].at # "idle" =>
       recoverer[w].job # {} /\ recoverer[w].job \subseteq {i \in Identities : Erased(i)}

----------------------------------------------------------------------------
(* Lookups.                                                                *)

LEMMA Durations ==
  /\ Deadline \in Nat /\ Linger \in Nat /\ PermitTime \in Nat /\ Uncertain \in Nat /\ Window \in Nat
  /\ MaxLookups \in Nat /\ Longest \in Nat /\ PermitTime <= Longest /\ Uncertain <= Longest
  /\ Deadline > 0 /\ Deadline + Linger <= PermitTime /\ PermitTime > 0
BY LookupAssumption DEF Longest

LEMMA AbsentTyped == Absent \in AttemptRow /\ Absent.permit = 0 /\ ~Absent.held /\ Absent.recent = 0
BY Durations DEF Absent, AttemptRow

LEMMA OnlyAbsent ==
  ASSUME NEW v \in AttemptRow, ~v.row, ~v.held, v.recent = 0, v.permit = 0
  PROVE  v = Absent
<1>1. Absent \in AttemptRow /\ ~Absent.row /\ ~Absent.held /\ Absent.recent = 0 /\ Absent.permit = 0
  BY AbsentTyped DEF Absent
<1> QED
  BY <1>1, SMT DEF AttemptRow

\* Nothing of a row that is not there can be taken away.
LEMMA AbsentKept ==
  /\ [[Absent EXCEPT !.held = FALSE] EXCEPT !.permit = 0] = Absent
  /\ [Absent EXCEPT !.recent = 0, !.permit = 0] = Absent
<1> DEFINE settled == [[Absent EXCEPT !.held = FALSE] EXCEPT !.permit = 0]
           aged == [Absent EXCEPT !.recent = 0, !.permit = 0]
<1>1. settled \in AttemptRow /\ ~settled.row /\ ~settled.held /\ settled.recent = 0 /\ settled.permit = 0
  <2>1. settled \in [row : BOOLEAN, recent : Nat, held : BOOLEAN, permit : Nat]
    BY DEF Absent
  <2>2. ~settled.row /\ settled.recent = 0 /\ settled.permit = 0
    BY DEF Absent
  <2>3. ~settled.held
    BY DEF Absent
  <2> HIDE DEF settled
  <2> QED
    BY <2>1, <2>2, <2>3, Durations, SMT DEF AttemptRow
<1>2. aged \in AttemptRow /\ ~aged.row /\ ~aged.held /\ aged.recent = 0 /\ aged.permit = 0
  <2>1. aged \in [row : BOOLEAN, recent : Nat, held : BOOLEAN, permit : Nat]
    BY DEF Absent
  <2>2. ~aged.row /\ aged.recent = 0 /\ aged.permit = 0
    BY DEF Absent
  <2>3. ~aged.held
    BY DEF Absent
  <2> HIDE DEF aged
  <2> QED
    BY <2>1, <2>2, <2>3, Durations, SMT DEF AttemptRow
<1> HIDE DEF settled, aged
<1>3. settled = Absent /\ aged = Absent
  BY <1>1, <1>2, OnlyAbsent
<1> QED
  BY <1>3 DEF settled, aged

\* Pending lookups only become fewer.
LEMMA FewerPending ==
  ASSUME LookupInv, NEW S, S \subseteq Pending
  PROVE  /\ IsFiniteSet(S) /\ Cardinality(S) <= MaxLookups
         /\ \A k, l \in S : Caller[k] = Caller[l] => k = l
<1>1. IsFiniteSet(S) /\ Cardinality(S) <= Cardinality(Pending)
  BY FS_Subset DEF LookupInv
<1>2. Cardinality(S) \in Nat /\ Cardinality(Pending) \in Nat
  BY <1>1, FS_CardinalityType DEF LookupInv
<1>3. \A k, l \in Pending : Caller[k] = Caller[l] => k = l
  BY DEF LookupInv
<1> QED
  BY <1>1, <1>2, <1>3, Durations DEF LookupInv

LEMMA SweptRow ==
  ASSUME LookupInv, NEW l \in Lookups
  PROVE  Swept(l) \in AttemptRow /\ Swept(l).permit = attempt[l].permit /\ (Swept(l).permit > 0 => Swept(l).held)
<1>1. attempt[l] \in AttemptRow
  BY DEF LookupInv
<1>2. PICK h \in BOOLEAN : h = (attempt[l].permit > 0)
  <2>1. CASE attempt[l].permit > 0
    <3>1. TRUE = (attempt[l].permit > 0)
      BY <2>1
    <3> QED
      BY <3>1, Zenon
  <2>2. CASE ~(attempt[l].permit > 0)
    <3>1. FALSE = (attempt[l].permit > 0)
      BY <2>2
    <3> QED
      BY <3>1, Zenon
  <2> QED
    BY <2>1, <2>2
<1>3. PICK w : w = [attempt[l] EXCEPT !.held = h]
  OBVIOUS
<1>4. w \in AttemptRow /\ w.permit = attempt[l].permit /\ w.held = h
  BY <1>1, <1>3 DEF AttemptRow
<1>5. CASE attempt[l].permit = 0 /\ attempt[l].recent = 0
  BY <1>5, AbsentTyped DEF Swept
<1>6. CASE ~(attempt[l].permit = 0 /\ attempt[l].recent = 0)
  <2>1. Swept(l) = w
    BY <1>2, <1>3, <1>6 DEF Swept
  <2> QED
    BY <1>2, <1>4, <2>1
<1> QED
  BY <1>5, <1>6

LEMMA AcquireKeeps ==
  ASSUME LookupInv, NEW l \in Lookups, Acquire(l)
  PROVE  LookupInv'
<1>1. Issued \in AttemptRow /\ Issued.permit = PermitTime /\ Issued.held
  BY Durations DEF Issued, AttemptRow
<1>2. /\ attempt' = [k \in Lookups |-> IF k = l THEN Issued ELSE Swept(k)]
      /\ at' = [at EXCEPT ![l] = "admitted"] /\ provider' = provider /\ at[l] = "new" /\ provider[l] = 0
  BY DEF Acquire, LookupInv
<1>3. \A k \in Lookups : /\ attempt'[k] \in AttemptRow /\ (attempt'[k].permit > 0 => attempt'[k].held)
                         /\ k # l => attempt'[k].permit = attempt[k].permit /\ at'[k] = at[k]
  BY <1>1, <1>2, SweptRow DEF LookupInv
<1>4. attempt'[l].permit = PermitTime /\ at'[l] = "admitted"
  BY <1>1, <1>2 DEF LookupInv
<1>5. /\ attempt' \in [Lookups -> AttemptRow]
      /\ at' \in [Lookups -> {"new", "admitted", "asking", "answered", "unsure", "done"}]
      /\ provider' \in [Lookups -> 0..(Deadline + Linger)]
  BY <1>2, <1>3 DEF LookupInv
<1>6. \A k \in Lookups : /\ provider'[k] <= attempt'[k].permit
                         /\ at'[k] \in {"new", "answered"} => provider'[k] = 0
  BY <1>2, <1>3, <1>4, Durations DEF LookupInv
<1>7. Active' \subseteq Active \union {l}
  BY <1>3 DEF Active
<1>8. Pending' = Pending \union {l}
  BY <1>2, <1>3, <1>4, Durations DEF Pending
<1>9. Pending \subseteq Active
  <2>1. \A k \in Lookups : provider[k] \in Nat /\ attempt[k].permit \in Nat /\ provider[k] <= attempt[k].permit
    BY Durations DEF LookupInv, AttemptRow
  <2> QED
    BY <2>1 DEF Pending, Active
<1>10. IsFiniteSet(Active')
  <2>1. IsFiniteSet(Active \union {l})
    BY FS_AddElement DEF LookupInv
  <2> QED
    BY <1>7, <2>1, FS_Subset
<1>11. IsFiniteSet(Pending') /\ Cardinality(Pending') <= MaxLookups
  <2>1. IsFiniteSet(Active) /\ IsFiniteSet(Pending) /\ Cardinality(Pending) <= Cardinality(Active)
    BY <1>9, FS_Subset DEF LookupInv
  <2>2. Cardinality(Active) < MaxLookups
    BY DEF Acquire
  <2>3. l \notin Pending
    BY <1>2 DEF Pending
  <2>4. IsFiniteSet(Pending') /\ Cardinality(Pending') = Cardinality(Pending) + 1
    BY <1>8, <2>1, <2>3, FS_AddElement
  <2>5. Cardinality(Pending) \in Nat /\ Cardinality(Active) \in Nat
    BY <2>1, FS_CardinalityType
  <2> QED
    BY <2>1, <2>2, <2>4, <2>5, Durations
<1>12. \A j, k \in Pending' : Caller[j] = Caller[k] => j = k
  <2>1. \A k \in Pending : Caller[k] # Caller[l]
    BY <1>9 DEF Acquire, Own, Pending
  <2> QED
    BY <1>8, <2>1 DEF LookupInv
<1> QED
  BY <1>3, <1>5, <1>6, <1>10, <1>11, <1>12 DEF LookupInv

LEMMA AskKeeps ==
  ASSUME LookupInv, NEW l \in Lookups, Ask(l)
  PROVE  LookupInv'
<1>1. /\ attempt' = attempt /\ at' = [at EXCEPT ![l] = "asking"] /\ at[l] = "admitted"
      /\ provider' = [provider EXCEPT ![l] = Deadline + Linger] /\ attempt[l].permit >= Deadline + Linger
  BY DEF Ask
<1>2. Deadline + Linger \in 0..(Deadline + Linger) /\ Deadline + Linger > 0
  BY Durations
<1>3. attempt[l].permit \in Nat
  BY Durations DEF LookupInv, AttemptRow
<1>4. Pending' \subseteq Pending /\ Active' = Active
  BY <1>1, <1>2, <1>3, Durations DEF Pending, Active, LookupInv
<1>5. /\ IsFiniteSet(Pending') /\ Cardinality(Pending') <= MaxLookups
      /\ \A j, k \in Pending' : Caller[j] = Caller[k] => j = k
  BY <1>4, FewerPending
<1>6. \A k \in Lookups : /\ provider'[k] <= attempt'[k].permit
                         /\ attempt'[k].permit > 0 => attempt'[k].held
                         /\ at'[k] \in {"new", "answered"} => provider'[k] = 0
  BY <1>1, <1>3, Durations DEF LookupInv
<1> QED
  BY <1>1, <1>2, <1>4, <1>5, <1>6 DEF LookupInv

LEMMA AnswerKeeps ==
  ASSUME LookupInv, NEW l \in Lookups, Answer(l)
  PROVE  LookupInv'
<1>1. /\ attempt' = attempt /\ at' = [at EXCEPT ![l] = "answered"] /\ provider' = [provider EXCEPT ![l] = 0]
  BY DEF Answer
<1>2. Pending' \subseteq Pending /\ Active' = Active
  BY <1>1 DEF Pending, Active, LookupInv
<1>3. /\ IsFiniteSet(Pending') /\ Cardinality(Pending') <= MaxLookups
      /\ \A j, k \in Pending' : Caller[j] = Caller[k] => j = k
  BY <1>2, FewerPending
<1>4. \A k \in Lookups : /\ provider'[k] <= attempt'[k].permit
                         /\ attempt'[k].permit > 0 => attempt'[k].held
                         /\ at'[k] \in {"new", "answered"} => provider'[k] = 0
  BY <1>1, Durations DEF LookupInv, AttemptRow
<1>5. 0 \in 0..(Deadline + Linger)
  BY Durations
<1> QED
  BY <1>1, <1>2, <1>3, <1>4, <1>5 DEF LookupInv

LEMMA AbandonKeeps ==
  ASSUME LookupInv, NEW l \in Lookups, Abandon(l)
  PROVE  LookupInv'
<1>1. provider[l] \in 0..(Deadline + Linger) /\ attempt[l].permit \in Nat
  BY Durations DEF LookupInv, AttemptRow
<1>2. PICK n : n = IF provider[l] > Linger THEN Linger ELSE provider[l]
  OBVIOUS
<1>3. n \in 0..(Deadline + Linger) /\ n <= provider[l]
  BY <1>1, <1>2, Durations
<1>4. attempt' = attempt /\ at' = [at EXCEPT ![l] = "unsure"] /\ provider' = [provider EXCEPT ![l] = n]
  BY <1>2 DEF Abandon
<1>5. Pending' \subseteq Pending /\ Active' = Active
  BY <1>1, <1>3, <1>4 DEF Pending, Active, LookupInv
<1>6. /\ IsFiniteSet(Pending') /\ Cardinality(Pending') <= MaxLookups
      /\ \A j, k \in Pending' : Caller[j] = Caller[k] => j = k
  BY <1>5, FewerPending
<1>7. \A k \in Lookups : /\ provider'[k] <= attempt'[k].permit
                         /\ attempt'[k].permit > 0 => attempt'[k].held
                         /\ at'[k] \in {"new", "answered"} => provider'[k] = 0
  BY <1>1, <1>3, <1>4 DEF LookupInv
<1> QED
  BY <1>3, <1>4, <1>5, <1>6, <1>7 DEF LookupInv

LEMMA SettledRow ==
  ASSUME LookupInv, NEW l \in Lookups, at[l] \in {"answered", "unsure"}
  PROVE  /\ Settled(l) \in AttemptRow
         /\ Settled(l).permit > 0 => Settled(l).held
         /\ provider[l] <= Settled(l).permit
<1>1. attempt[l] \in AttemptRow /\ attempt[l].permit \in Nat /\ provider[l] \in Nat
  BY Durations DEF LookupInv, AttemptRow
<1>2. CASE at[l] = "answered"
  <2>1. PICK w : w = [[attempt[l] EXCEPT !.held = FALSE] EXCEPT !.permit = 0]
    OBVIOUS
  <2>2. w \in AttemptRow /\ w.permit = 0
    <3>1. 0 \in 0..Longest
      BY Durations
    <3> QED
      BY <1>1, <2>1, <3>1 DEF AttemptRow
  <2>3. Settled(l) = w /\ provider[l] = 0
    BY <1>2, <2>1 DEF Settled, LookupInv
  <2> QED
    BY <2>2, <2>3
<1>3. CASE at[l] # "answered" /\ attempt[l].held /\ attempt[l].permit < Uncertain
  <2>1. PICK w : w = [attempt[l] EXCEPT !.permit = Uncertain]
    OBVIOUS
  <2>2. w \in AttemptRow /\ w.permit = Uncertain /\ w.held
    BY <1>1, <1>3, <2>1, Durations DEF AttemptRow
  <2>3. Settled(l) = w
    BY <1>3, <2>1 DEF Settled
  <2>4. provider[l] <= Uncertain
    BY <1>1, <1>3, Durations DEF LookupInv
  <2> QED
    BY <2>2, <2>3, <2>4
<1>4. CASE at[l] # "answered" /\ ~(attempt[l].held /\ attempt[l].permit < Uncertain)
  <2>1. Settled(l) = attempt[l]
    BY <1>4 DEF Settled
  <2> QED
    BY <1>1, <2>1 DEF LookupInv
<1> QED
  BY <1>2, <1>3, <1>4

LEMMA FinishKeeps ==
  ASSUME LookupInv, NEW l \in Lookups, Finish(l)
  PROVE  LookupInv'
<1>1. /\ attempt' = [attempt EXCEPT ![l] = Settled(l)] /\ at' = [at EXCEPT ![l] = "done"]
      /\ provider' = provider /\ at[l] \in {"answered", "unsure"}
  BY DEF Finish
<1>2. /\ Settled(l) \in AttemptRow
      /\ Settled(l).permit > 0 => Settled(l).held
      /\ provider[l] <= Settled(l).permit
  BY <1>1, SettledRow
<1>3. Pending' \subseteq Pending /\ Active' \subseteq Active \union {l}
  BY <1>1 DEF Pending, Active, LookupInv
<1>4. /\ IsFiniteSet(Pending') /\ Cardinality(Pending') <= MaxLookups
      /\ \A j, k \in Pending' : Caller[j] = Caller[k] => j = k
  BY <1>3, FewerPending
<1>5. IsFiniteSet(Active')
  <2>1. IsFiniteSet(Active \union {l})
    BY FS_AddElement DEF LookupInv
  <2> QED
    BY <1>3, <2>1, FS_Subset
<1>6. \A k \in Lookups : /\ provider'[k] <= attempt'[k].permit
                         /\ attempt'[k].permit > 0 => attempt'[k].held
                         /\ at'[k] \in {"new", "answered"} => provider'[k] = 0
  BY <1>1, <1>2 DEF LookupInv
<1> QED
  BY <1>1, <1>2, <1>4, <1>5, <1>6 DEF LookupInv

LEMMA LookupKeeps ==
  ASSUME LookupInv, NEW l \in Lookups, Lookup(l)
  PROVE  LookupInv'
BY AcquireKeeps, AskKeeps, AnswerKeeps, AbandonKeeps, FinishKeeps DEF Lookup

LEMMA LessTyped ==
  ASSUME NEW limit \in Nat, NEW n \in 0..limit
  PROVE  Less(n) \in 0..limit /\ Less(n) <= n /\ (Less(n) > 0 => n > 0)
BY DEF Less

LEMMA AgedRow ==
  ASSUME NEW row \in AttemptRow
  PROVE  LET old == [row EXCEPT !.recent = Less(@), !.permit = Less(@)]
         IN  old \in AttemptRow /\ old.permit = Less(row.permit) /\ old.held = row.held
<1>1. row.recent \in 0..Window /\ row.permit \in 0..Longest
  BY DEF AttemptRow
<1>2. PICK m \in 0..Window : m = Less(row.recent)
  BY <1>1, LessTyped, Durations
<1>3. PICK n \in 0..Longest : n = Less(row.permit)
  BY <1>1, LessTyped, Durations
<1>4. PICK w : w = [[row EXCEPT !.recent = m] EXCEPT !.permit = n]
  OBVIOUS
<1>5. w \in AttemptRow /\ w.permit = n /\ w.held = row.held
  BY <1>4 DEF AttemptRow
<1>6. [row EXCEPT !.recent = Less(@), !.permit = Less(@)] = w
  BY <1>2, <1>3, <1>4 DEF AttemptRow
<1> QED
  BY <1>3, <1>5, <1>6

LEMMA LookupsAge ==
  ASSUME LookupInv, LookupTick, at' = at
  PROVE  LookupInv'
<1>1. /\ attempt' = [l \in Lookups |-> [attempt[l] EXCEPT !.recent = Less(@), !.permit = Less(@)]]
      /\ provider' = [l \in Lookups |-> Less(provider[l])]
  BY DEF LookupTick
<1>2. ASSUME NEW l \in Lookups
      PROVE  /\ attempt'[l] \in AttemptRow /\ attempt'[l].permit = Less(attempt[l].permit)
             /\ attempt'[l].held = attempt[l].held /\ provider'[l] = Less(provider[l])
             /\ provider'[l] \in 0..(Deadline + Linger)
             /\ attempt[l].permit \in Nat /\ provider[l] \in Nat
  <2>1. attempt[l] \in AttemptRow /\ provider[l] \in 0..(Deadline + Linger) /\ attempt[l].permit \in 0..Longest
    BY DEF LookupInv, AttemptRow
  <2>2. Less(provider[l]) \in 0..(Deadline + Linger)
    BY <2>1, LessTyped, Durations
  <2>3. /\ attempt'[l] = [attempt[l] EXCEPT !.recent = Less(@), !.permit = Less(@)]
        /\ provider'[l] = Less(provider[l])
    BY <1>1
  <2>4. /\ attempt'[l] \in AttemptRow /\ attempt'[l].permit = Less(attempt[l].permit)
        /\ attempt'[l].held = attempt[l].held
    BY <2>1, <2>3, AgedRow
  <2>5. attempt[l].permit \in Nat /\ provider[l] \in Nat
    BY <2>1, Durations
  <2> QED
    BY <2>2, <2>3, <2>4, <2>5
<1>3. /\ attempt' \in [Lookups -> AttemptRow]
      /\ provider' \in [Lookups -> 0..(Deadline + Linger)]
  BY <1>1, <1>2
<1>4. \A l \in Lookups : /\ provider'[l] <= attempt'[l].permit
                         /\ attempt'[l].permit > 0 => attempt'[l].held
                         /\ at'[l] \in {"new", "answered"} => provider'[l] = 0
  BY <1>2 DEF LookupInv, Less
<1>5. Pending' \subseteq Pending /\ Active' \subseteq Active
  BY <1>2 DEF Pending, Active, Less
<1>6. /\ IsFiniteSet(Pending') /\ Cardinality(Pending') <= MaxLookups
      /\ \A j, k \in Pending' : Caller[j] = Caller[k] => j = k
  BY <1>5, FewerPending
<1>7. IsFiniteSet(Active')
  BY <1>5, FS_Subset DEF LookupInv
<1> QED
  BY <1>3, <1>4, <1>6, <1>7 DEF LookupInv

\* A drained identity has no lookup that the provider could still work on.
LEMMA DrainedLookups ==
  ASSUME LookupInv, NEW i, Own(i) \intersect Active = {}, NEW l \in Own(i)
  PROVE  l \in Lookups /\ attempt[l].permit = 0 /\ provider[l] = 0
<1>1. l \in Lookups /\ attempt[l].permit \in Nat /\ provider[l] \in Nat /\ provider[l] <= attempt[l].permit
  BY Durations DEF Own, LookupInv, AttemptRow
<1>2. ~(attempt[l].permit > 0)
  BY <1>1 DEF Active
<1> QED
  BY <1>1, <1>2

LEMMA LookupsErased ==
  ASSUME LookupInv, NEW i, Own(i) \intersect Active = {},
         attempt' = [l \in Lookups |-> IF Caller[l] = i THEN Absent ELSE attempt[l]],
         UNCHANGED <<at, provider>>
  PROVE  LookupInv'
<1>1. \A l \in Lookups : Caller[l] = i => attempt[l].permit = 0 /\ provider[l] = 0
  BY DrainedLookups DEF Own
<1>2. Pending' \subseteq Pending /\ Active' \subseteq Active
  BY <1>1, AbsentTyped DEF Pending, Active
<1>3. /\ IsFiniteSet(Pending') /\ Cardinality(Pending') <= MaxLookups
      /\ \A j, k \in Pending' : Caller[j] = Caller[k] => j = k
  BY <1>2, FewerPending
<1>4. IsFiniteSet(Active')
  BY <1>2, FS_Subset DEF LookupInv
<1>5. \A l \in Lookups : /\ provider'[l] <= attempt'[l].permit
                         /\ attempt'[l].permit > 0 => attempt'[l].held
                         /\ at'[l] \in {"new", "answered"} => provider'[l] = 0
  BY <1>1, AbsentTyped DEF LookupInv
<1> QED
  BY <1>3, <1>4, <1>5, AbsentTyped DEF LookupInv

----------------------------------------------------------------------------
(* Jobs.                                                                   *)

\* What was erased is not open again.
LEMMA ErasedClosed ==
  ASSUME NEW i, Erased(i)
  PROVE  ~Open(i)
BY DEF Erased, Open

\* A step that leaves the identities and jobs alone.
LEMMA JobsStay ==
  ASSUME JobInv, UNCHANGED <<gateVars, deletes, recoverer>>, due' \in [Identities -> 0..RetryTime]
  PROVE  JobInv' /\ \A i \in Identities : Erased(i)' = Erased(i)
BY DEF JobInv, Erased, gateVars

LEMMA ConfirmKeeps ==
  ASSUME JobInv, NEW i \in Identities, Confirm(i)
  PROVE  JobInv' /\ \A j \in Identities : Erased(j)' = Erased(j)
<1>1. \A j \in Identities : Erased(j)' = Erased(j)
  BY DEF JobInv, Confirm, Erased
<1>2. due' \in [Identities -> 0..RetryTime]
  BY DeletionAssumption DEF JobInv, Confirm
<1> QED
  BY <1>1, <1>2 DEF JobInv, Confirm

LEMMA AuthDeletesKeeps ==
  ASSUME JobInv, NEW i \in Identities, AuthDeletes(i)
  PROVE  JobInv' /\ \A j \in Identities : Erased(j)' = Erased(j)
<1>1. \A j \in Identities : Erased(j)' = Erased(j)
  BY DEF JobInv, AuthDeletes, Erased
<1> QED
  BY <1>1 DEF JobInv, AuthDeletes

\* A recovery loop that does not erase anything itself.
LEMMA RecoverKeeps ==
  ASSUME JobInv, NEW w \in Recoverers, Recover(w), \A i \in Identities : ~Erase(w, i)
  PROVE  JobInv' /\ \A j \in Identities : Erased(j)' = Erased(j)
<1> DEFINE Loop == [at : {"idle", "erased", "asking", "closing"}, jobs : SUBSET Identities, job : SUBSET Identities]
<1>1. recoverer \in [Recoverers -> Loop] /\ recoverer[w] \in Loop /\ Idle \in Loop /\ Idle.at = "idle"
  BY DEF JobInv, Idle
<1>2. ASSUME NEW v \in Loop, recoverer' = [recoverer EXCEPT ![w] = v],
             v.at # "idle" => v.job # {} /\ v.job \subseteq {i \in Identities : Erased(i)},
             UNCHANGED <<gateVars, deletes>>, due' \in [Identities -> 0..RetryTime]
      PROVE  JobInv' /\ \A j \in Identities : Erased(j)' = Erased(j)
  BY <1>1, <1>2 DEF JobInv, Erased, gateVars
<1>3. CASE Claim(w)
  <2>1. PICK jobs \in SUBSET Identities :
          /\ due' = [i \in Identities |-> IF i \in jobs THEN RetryTime ELSE due[i]]
          /\ recoverer' = [recoverer EXCEPT ![w].jobs = jobs]
          /\ recoverer[w] = Idle /\ UNCHANGED <<gateVars, deletes>>
    BY <1>3 DEF Claim, Jobs
  <2>2. PICK v : v = [recoverer[w] EXCEPT !.jobs = jobs]
    OBVIOUS
  <2>3. v \in Loop /\ v.at = "idle" /\ recoverer' = [recoverer EXCEPT ![w] = v]
    BY <1>1, <2>1, <2>2
  <2>4. due' \in [Identities -> 0..RetryTime]
    BY <2>1, DeletionAssumption DEF JobInv
  <2> QED
    BY <1>2, <2>1, <2>3, <2>4
<1>4. ASSUME NEW i \in Identities, Resume(w, i)
      PROVE  JobInv' /\ \A j \in Identities : Erased(j)' = Erased(j)
  <2>1. PICK v : v = [at |-> "erased", jobs |-> recoverer[w].jobs \ {i}, job |-> {i}]
    OBVIOUS
  <2>2. v \in Loop /\ v.job = {i} /\ Erased(i) /\ recoverer' = [recoverer EXCEPT ![w] = v]
    BY <1>1, <1>4, <2>1 DEF Resume, Resumes, Erased, Proceeds
  <2> QED
    BY <1>2, <1>4, <2>2 DEF Resume, JobInv
<1>5. ASSUME NEW i \in Identities, Postpone(w, i)
      PROVE  JobInv' /\ \A j \in Identities : Erased(j)' = Erased(j)
  <2>1. PICK v : v = [recoverer[w] EXCEPT !.jobs = recoverer[w].jobs \ {i}]
    OBVIOUS
  <2>2. v \in Loop /\ v.at = recoverer[w].at /\ v.job = recoverer[w].job /\ recoverer' = [recoverer EXCEPT ![w] = v]
    BY <1>1, <1>5, <2>1 DEF Postpone, MovesOn
  <2> QED
    BY <1>2, <1>5, <2>2 DEF Postpone, JobInv
<1>6. CASE Look(w) \/ Request(w) \/ LoseRequest(w)
  <2>1. /\ recoverer[w].at # "idle" /\ recoverer[w].job # {}
        /\ recoverer[w].job \subseteq {i \in Identities : Erased(i)}
    BY <1>6 DEF JobInv, Look, Request, LoseRequest
  <2>2. ASSUME NEW place \in {"asking", "closing"}, recoverer' = [recoverer EXCEPT ![w].at = place]
        PROVE  \E v \in Loop : v.job = recoverer[w].job /\ recoverer' = [recoverer EXCEPT ![w] = v]
    <3>1. PICK v : v = [recoverer[w] EXCEPT !.at = place]
      OBVIOUS
    <3> QED
      BY <1>1, <2>2, <3>1
  <2>3. CASE LoseRequest(w)
    <3>1. PICK v \in Loop : v.job = recoverer[w].job /\ recoverer' = [recoverer EXCEPT ![w] = v]
      BY <2>2, <2>3 DEF LoseRequest
    <3> QED
      BY <1>2, <2>1, <2>3, <3>1 DEF LoseRequest, JobInv
  <2>4. CASE Look(w)
    <3>1. \E place \in {"asking", "closing"} : recoverer' = [recoverer EXCEPT ![w].at = place]
      BY <2>1, <2>4 DEF Look
    <3>2. PICK v \in Loop : v.job = recoverer[w].job /\ recoverer' = [recoverer EXCEPT ![w] = v]
      BY <2>2, <3>1
    <3> QED
      BY <1>2, <2>1, <2>4, <3>2 DEF Look, JobInv
  <2>5. CASE Request(w)
    <3>1. PICK v \in Loop : v.job = recoverer[w].job /\ recoverer' = [recoverer EXCEPT ![w] = v]
      BY <2>2, <2>5 DEF Request
    <3>2. deletes' \subseteq {i \in Identities : Erased(i)}
      BY <2>1, <2>5 DEF Request, JobInv
    <3> QED
      BY <1>1, <2>1, <2>5, <3>1, <3>2 DEF Request, JobInv, Erased, gateVars
  <2> QED
    BY <1>6, <2>3, <2>4, <2>5
<1>7. CASE Close(w)
  <2>1. /\ phase' = [i \in Identities |->
             IF i \in recoverer[w].job /\ phase[i] = "auth_pending" /\ ~auth[i] THEN "none" ELSE phase[i]]
        /\ UNCHANGED <<auth, due, deletes>>
    BY <1>7 DEF Close, Closable
  <2>2. \A j \in Identities : Erased(j)' = Erased(j)
    BY <2>1 DEF Erased, JobInv
  <2>3. PICK v : v = [[recoverer[w] EXCEPT !.at = "idle"] EXCEPT !.job = {}]
    OBVIOUS
  <2>4. v \in Loop /\ v.at = "idle" /\ recoverer' = [recoverer EXCEPT ![w] = v]
    BY <1>1, <1>7, <2>3 DEF Close
  <2> QED
    BY <1>1, <2>1, <2>2, <2>4 DEF JobInv
<1>8. CASE Skip(w)
  <2>3. PICK v : v = [[recoverer[w] EXCEPT !.at = "idle"] EXCEPT !.job = {}]
    OBVIOUS
  <2>4. v \in Loop /\ v.at = "idle" /\ recoverer' = [recoverer EXCEPT ![w] = v]
    BY <1>1, <1>8, <2>3 DEF Skip
  <2> QED
    BY <1>2, <1>8, <2>4 DEF Skip, JobInv
<1>9. CASE Crash(w)
  BY <1>1, <1>2, <1>9 DEF Crash, JobInv
<1> QED
  BY <1>3, <1>4, <1>5, <1>6, <1>7, <1>8, <1>9 DEF Recover

----------------------------------------------------------------------------
(* Chat.  The types of ChatRequests do not do here: after the rows of a    *)
(* message are gone its workers may still be in the tool loop.             *)

AnyWorker == [at : Chat!Place, round : Int, mutated : BOOLEAN]

RowInv ==
  /\ status \in [Requests -> {"none", "processing", "completed", "failed"}]
  /\ lease \in [Requests -> Nat]
  /\ attempts \in [Requests -> 0..MaxAttempts]
  /\ action \in [Requests -> BOOLEAN]
  /\ answers \in [Requests -> Nat]

\* Every call has a permit that does not expire before it; one that has ended is nowhere.
CallInv ==
  /\ worker \in [Requests -> [Chat!Attempts -> AnyWorker]]
  /\ permits \subseteq Chat!Permit /\ calls \subseteq Chat!Permit
  /\ \A c \in calls :
       /\ c.left > 0
       /\ \E p \in permits : p.request = c.request /\ p.token = c.token /\ c.left <= p.left
  /\ \A r \in Requests, a \in Chat!Attempts :
       worker[r][a].at \in {"late", "answered", "rejected"} =>
         ~\E c \in calls : c.request = r /\ c.token = a

LEMMA ChatConstants ==
  /\ Lease \in Nat /\ Margin \in Nat /\ Reserve \in Nat /\ CallTimeout \in Nat /\ CallTimeout > 0
  /\ Uncertainty \in Nat /\ Uncertainty <= Margin
  /\ MaxAttempts \in Nat /\ MaxAttempts > 0 /\ MaxRounds \in Nat
BY DeletionAssumption DEF Chat!DurationAssumption, Chat!LimitAssumption

\* The worker with token a of r, and no other, becomes w.
Becomes(r, a, w) ==
  /\ w \in AnyWorker
  /\ worker' = [worker EXCEPT ![r] = [worker[r] EXCEPT ![a] = w]]

LEMMA GoesInto ==
  ASSUME CallInv, NEW r \in Requests, NEW a \in Chat!Attempts, NEW place \in Chat!Place,
         Chat!Goes(r, a, place)
  PROVE  \E w : w.at = place /\ w.round = worker[r][a].round /\ Becomes(r, a, w)
<1>1. worker[r][a] \in AnyWorker
  BY DEF CallInv
<1>2. PICK w : w = [worker[r][a] EXCEPT !.at = place]
  OBVIOUS
<1>3. w \in AnyWorker /\ w.at = place /\ w.round = worker[r][a].round
  BY <1>1, <1>2 DEF AnyWorker
<1>4. worker' = [worker EXCEPT ![r] = [worker[r] EXCEPT ![a] = w]]
  BY <1>2, Zenon DEF Chat!Goes
<1> QED
  BY <1>3, <1>4 DEF Becomes

LEMMA EndsThere ==
  ASSUME CallInv, NEW r \in Requests, NEW a \in Chat!Attempts, Chat!Ends(r, a)
  PROVE  \E w : w.at = "done" /\ w.round = 0 /\ Becomes(r, a, w)
<1>1. PICK w : w = Chat!Nowhere("done")
  OBVIOUS
<1>2. w \in AnyWorker /\ w.at = "done" /\ w.round = 0
  BY <1>1 DEF AnyWorker, Chat!Nowhere, Chat!Place
<1>3. worker' = [worker EXCEPT ![r] = [worker[r] EXCEPT ![a] = w]]
  BY <1>1, Zenon DEF Chat!Ends
<1> QED
  BY <1>2, <1>3 DEF Becomes

LEMMA WorkersAfter ==
  ASSUME CallInv, NEW r \in Requests, NEW a \in Chat!Attempts, NEW w, Becomes(r, a, w)
  PROVE  /\ worker' \in [Requests -> [Chat!Attempts -> AnyWorker]]
         /\ worker'[r][a] = w
         /\ \A q \in Requests, b \in Chat!Attempts : q # r \/ b # a => worker'[q][b] = worker[q][b]
<1>1. worker[r] \in [Chat!Attempts -> AnyWorker]
  BY DEF CallInv
<1>2. PICK W : W = [worker[r] EXCEPT ![a] = w]
  OBVIOUS
<1>3. W \in [Chat!Attempts -> AnyWorker] /\ W[a] = w /\ \A b \in Chat!Attempts : b # a => W[b] = worker[r][b]
  BY <1>1, <1>2 DEF Becomes
<1>4. worker' = [worker EXCEPT ![r] = W]
  BY <1>2 DEF Becomes
<1> QED
  BY <1>3, <1>4 DEF CallInv

\* Steps that have nothing to do with the provider.
LEMMA QuietStep ==
  ASSUME CallInv, NEW r \in Requests, NEW a \in Chat!Attempts, NEW w,
         Becomes(r, a, w), w.at \notin {"late", "answered", "rejected"}, UNCHANGED <<permits, calls>>
  PROVE  CallInv'
<1>1. /\ worker' \in [Requests -> [Chat!Attempts -> AnyWorker]]
      /\ worker'[r][a] = w
      /\ \A q \in Requests, b \in Chat!Attempts : q # r \/ b # a => worker'[q][b] = worker[q][b]
  BY WorkersAfter
<1> QED
  BY <1>1 DEF CallInv

LEMMA QuietGoes ==
  ASSUME CallInv, NEW r \in Requests, NEW a \in Chat!Attempts,
         NEW place \in Chat!Place \ {"late", "answered", "rejected"},
         Chat!Goes(r, a, place), UNCHANGED <<permits, calls>>
  PROVE  CallInv'
BY GoesInto, QuietStep

LEMMA QuietEnds ==
  ASSUME CallInv, NEW r \in Requests, NEW a \in Chat!Attempts,
         Chat!Ends(r, a), UNCHANGED <<permits, calls>>
  PROVE  CallInv'
<1>1. PICK w : w.at = "done" /\ Becomes(r, a, w)
  BY EndsThere
<1> QED
  BY <1>1, QuietStep

LEMMA ClaimCalls ==
  ASSUME RowInv, CallInv, NEW r \in Requests, Chat!Submit(r) \/ Chat!Retry(r)
  PROVE  CallInv'
<1>1. "claimed" \in Chat!Place \ {"late", "answered", "rejected"}
  BY DEF Chat!Place
<1>2. CASE Chat!Submit(r)
  <2>1. 1 \in Chat!Attempts
    BY ChatConstants DEF Chat!Attempts
  <2> QED
    BY <1>1, <1>2, <2>1, QuietGoes DEF Chat!Submit
<1>3. CASE Chat!ClaimFinalizes(r)
  BY <1>3 DEF Chat!ClaimFinalizes, CallInv
<1>4. CASE Chat!ClaimExhausts(r)
  BY <1>4 DEF Chat!ClaimExhausts, CallInv
<1>5. CASE Chat!ClaimRecovers(r)
  <2>1. attempts[r] + 1 \in Chat!Attempts
    BY <1>5, ChatConstants DEF RowInv, Chat!Attempts, Chat!ClaimRecovers, Chat!HasAttempts
  <2>2. Chat!Goes(r, attempts[r] + 1, "claimed") /\ UNCHANGED <<permits, calls>>
    BY <1>5 DEF Chat!ClaimRecovers
  <2> QED
    BY <1>1, <2>1, <2>2, QuietGoes
<1> QED
  BY <1>2, <1>3, <1>4, <1>5 DEF Chat!Retry

LEMMA MutationReturns ==
  ASSUME CallInv, NEW r \in Requests, NEW a \in Chat!Attempts, Chat!Mutate(r, a)
  PROVE  \E w : w.at \in {Chat!Onward(r, a), "failing"} /\ w.round = worker[r][a].round /\ Becomes(r, a, w)
<1>1. worker[r] \in [Chat!Attempts -> AnyWorker] /\ worker[r][a] \in AnyWorker /\ worker \in [Requests -> [Chat!Attempts -> AnyWorker]]
  BY DEF CallInv
<1>2. PICK place \in {Chat!Onward(r, a), "failing"} :
        worker' = [worker EXCEPT ![r][a].at = place, ![r][a].mutated = TRUE]
  BY Zenon DEF Chat!Mutate
<1>3. place \in Chat!Place
  BY DEF Chat!Onward, Chat!Place
<1>4. PICK w : w = [worker[r][a] EXCEPT !.at = place, !.mutated = TRUE]
  OBVIOUS
<1>5. w \in AnyWorker /\ w.at = place /\ w.round = worker[r][a].round
  BY <1>1, <1>3, <1>4 DEF AnyWorker
<1>6. worker' = [worker EXCEPT ![r] = [worker[r] EXCEPT ![a] = w]]
  BY <1>1, <1>2, <1>4
<1> QED
  BY <1>5, <1>6 DEF Becomes

LEMMA MutateCalls ==
  ASSUME CallInv, NEW r \in Requests, NEW a \in Chat!Attempts, Chat!Mutate(r, a)
  PROVE  CallInv'
<1>1. PICK w : w.at \in {Chat!Onward(r, a), "failing"} /\ Becomes(r, a, w)
  BY MutationReturns
<1>2. w.at \notin {"late", "answered", "rejected"}
  BY <1>1 DEF Chat!Onward
<1>3. UNCHANGED <<permits, calls>>
  BY DEF Chat!Mutate
<1> QED
  BY <1>1, <1>2, <1>3, QuietStep

\* The steps of a worker outside of the provider call and its settlement.
LEMMA WorkerCalls ==
  ASSUME CallInv, NEW r \in Requests, NEW a \in Chat!Attempts,
         \/ Chat!Start(r, a) \/ Chat!LoseLease(r, a) \/ Chat!GiveUp(r, a) \/ Chat!Break(r, a)
         \/ Chat!ReadTool(r, a) \/ Chat!Finalize(r, a) \/ Chat!Fail(r, a) \/ Chat!Yield(r, a)
  PROVE  CallInv'
<1> DEFINE Quiet == Chat!Place \ {"late", "answered", "rejected"}
<1>1. /\ {"closing", "thinking", "failing", "yielding", "salvaging"} \subseteq Quiet
      /\ Chat!Onward(r, a) \in Quiet /\ Chat!Refused(r) \in Quiet
  BY DEF Chat!Place, Chat!Onward, Chat!Refused
<1>2. UNCHANGED <<permits, calls>>
  BY DEF Chat!Start, Chat!LoseLease, Chat!GiveUp, Chat!Break, Chat!ReadTool, Chat!Finalize, Chat!Fail, Chat!Yield
<1>3. Chat!Ends(r, a) \/ \E place \in Quiet : Chat!Goes(r, a, place)
  <2>1. CASE Chat!Start(r, a)
    <3>1. PICK place \in {"closing", "thinking"} : place = IF action[r] THEN "closing" ELSE "thinking"
      OBVIOUS
    <3>2. Chat!Goes(r, a, place)
      BY <2>1, <3>1 DEF Chat!Start
    <3> QED
      BY <1>1, <3>2
  <2>2. CASE Chat!LoseLease(r, a)
    BY <1>1, <2>2 DEF Chat!LoseLease
  <2>3. CASE Chat!GiveUp(r, a) \/ Chat!Break(r, a) \/ Chat!ReadTool(r, a)
    BY <1>1, <2>3 DEF Chat!GiveUp, Chat!Break, Chat!ReadTool
  <2>4. CASE Chat!Finalize(r, a) \/ Chat!Fail(r, a) \/ Chat!Yield(r, a)
    BY <1>1, <2>4 DEF Chat!Finalize, Chat!Fail, Chat!Yield
  <2> QED
    BY <2>1, <2>2, <2>3, <2>4
<1> HIDE DEF Quiet
<1>4. ASSUME NEW place \in Quiet, Chat!Goes(r, a, place) PROVE CallInv'
  BY <1>2, <1>4, QuietGoes DEF Quiet
<1> QED
  BY <1>2, <1>3, <1>4, QuietEnds

\* A permit is granted only where no call of the message can be going on.
LEMMA PermitGranted ==
  ASSUME RowInv, CallInv, NEW r \in Requests, NEW a \in Chat!Attempts, Chat!Granted(r, a)
  PROVE  /\ permits' \subseteq Chat!Permit
         /\ lease[r] \in Nat /\ lease[r] > Margin + Reserve
         /\ \E p \in permits' : p.request = r /\ p.token = a /\ p.left = lease[r]
         /\ \A c \in calls :
              /\ c.request # r /\ c.left > 0
              /\ \E p \in permits' : p.request = c.request /\ p.token = c.token /\ c.left <= p.left
<1>1. permits' = Chat!ActivePermits \union {[request |-> r, token |-> a, left |-> lease[r]]}
  BY DEF Chat!Granted
<1>2. lease[r] \in Nat /\ lease[r] > Margin + Reserve
  BY DEF RowInv, Chat!Granted
<1>3. PICK n : n = [request |-> r, token |-> a, left |-> lease[r]]
  OBVIOUS
<1>4. n \in Chat!Permit /\ n.request = r /\ n.token = a /\ n.left = lease[r] /\ n \in permits'
  BY <1>1, <1>2, <1>3 DEF Chat!Permit
<1>5. permits' \subseteq Chat!Permit
  BY <1>1, <1>3, <1>4 DEF CallInv, Chat!ActivePermits
<1>6. ASSUME NEW c \in calls
      PROVE  /\ c.request # r /\ c.left > 0
             /\ \E p \in permits' : p.request = c.request /\ p.token = c.token /\ c.left <= p.left
  <2>1. PICK p \in permits : p.request = c.request /\ p.token = c.token /\ c.left <= p.left
    BY DEF CallInv
  <2>2. c.left > 0 /\ c.left \in Nat /\ p.left \in Nat
    BY DEF CallInv, Chat!Permit
  <2>3. p \in Chat!ActivePermits
    BY <2>1, <2>2 DEF Chat!ActivePermits
  <2>4. p.request # r
    BY <2>3 DEF Chat!Granted, Chat!Retained
  <2> QED
    BY <1>1, <2>1, <2>2, <2>3, <2>4
<1> QED
  BY <1>2, <1>4, <1>5, <1>6

LEMMA CallBegins ==
  ASSUME CallInv, NEW r \in Requests, NEW a \in Chat!Attempts, Chat!Call(r, a)
  PROVE  \E w : w.at = "calling" /\ w.round = worker[r][a].round + 1 /\ Becomes(r, a, w)
<1>1. worker \in [Requests -> [Chat!Attempts -> AnyWorker]] /\ worker[r] \in [Chat!Attempts -> AnyWorker]
      /\ worker[r][a] \in AnyWorker
  BY DEF CallInv
<1>2. PICK w : w = [worker[r][a] EXCEPT !.at = "calling", !.round = @ + 1]
  OBVIOUS
<1>3. w \in AnyWorker /\ w.at = "calling" /\ w.round = worker[r][a].round + 1
  <2>1. "calling" \in Chat!Place
    BY DEF Chat!Place
  <2>2. PICK m \in Int : m = worker[r][a].round + 1
    BY <1>1 DEF AnyWorker
  <2>3. w = [[worker[r][a] EXCEPT !.at = "calling"] EXCEPT !.round = m]
    BY <1>1, <1>2, <2>2 DEF AnyWorker
  <2> QED
    BY <1>1, <2>1, <2>2, <2>3 DEF AnyWorker
<1>4. worker' = [worker EXCEPT ![r] = [worker[r] EXCEPT ![a] = w]]
  <2>1. worker' = [worker EXCEPT ![r][a].at = "calling", ![r][a].round = @ + 1]
    BY DEF Chat!Call
  <2> QED
    BY <1>1, <1>2, <2>1 DEF AnyWorker
<1> QED
  BY <1>3, <1>4 DEF Becomes

LEMMA CallCalls ==
  ASSUME RowInv, CallInv, NEW r \in Requests, NEW a \in Chat!Attempts, Chat!Call(r, a)
  PROVE  CallInv'
<1>1. /\ permits' \subseteq Chat!Permit
      /\ lease[r] \in Nat /\ lease[r] > Margin + Reserve
      /\ \E p \in permits' : p.request = r /\ p.token = a /\ p.left = lease[r]
      /\ \A c \in calls :
           /\ c.request # r /\ c.left > 0
           /\ \E p \in permits' : p.request = c.request /\ p.token = c.token /\ c.left <= p.left
  BY PermitGranted DEF Chat!Call
<1>2. /\ Chat!Allowed(r) + Uncertainty \in Nat
      /\ Chat!Allowed(r) + Uncertainty > 0
      /\ Chat!Allowed(r) + Uncertainty <= lease[r]
  BY <1>1, ChatConstants DEF Chat!Allowed, Chat!Least
<1>3. PICK n : n = [request |-> r, token |-> a, left |-> Chat!Allowed(r) + Uncertainty]
  OBVIOUS
<1>4. /\ n \in Chat!Permit /\ n.request = r /\ n.token = a
      /\ n.left = Chat!Allowed(r) + Uncertainty /\ calls' = calls \union {n}
  BY <1>2, <1>3 DEF Chat!Permit, Chat!Call
<1>5. \E w : w.at = "calling" /\ Becomes(r, a, w)
  BY CallBegins
<1>6. /\ worker' \in [Requests -> [Chat!Attempts -> AnyWorker]]
      /\ worker'[r][a].at = "calling"
      /\ \A q \in Requests, b \in Chat!Attempts : q # r \/ b # a => worker'[q][b] = worker[q][b]
  BY <1>5, WorkersAfter
<1>7. \A c \in calls' :
        /\ c.left > 0
        /\ \E p \in permits' : p.request = c.request /\ p.token = c.token /\ c.left <= p.left
  BY <1>1, <1>2, <1>4
<1>8. \A q \in Requests, b \in Chat!Attempts :
        worker'[q][b].at \in {"late", "answered", "rejected"} =>
          ~\E c \in calls' : c.request = q /\ c.token = b
  BY <1>4, <1>6 DEF CallInv
<1>9. calls' \subseteq Chat!Permit
  BY <1>4 DEF CallInv
<1> QED
  BY <1>1, <1>6, <1>7, <1>8, <1>9 DEF CallInv

LEMMA TooLateCalls ==
  ASSUME RowInv, CallInv, NEW r \in Requests, NEW a \in Chat!Attempts, Chat!TooLate(r, a)
  PROVE  CallInv'
<1>1. /\ permits' \subseteq Chat!Permit
      /\ \A c \in calls :
           /\ c.request # r /\ c.left > 0
           /\ \E p \in permits' : p.request = c.request /\ p.token = c.token /\ c.left <= p.left
  BY PermitGranted DEF Chat!TooLate
<1>2. "late" \in Chat!Place /\ Chat!Goes(r, a, "late") /\ calls' = calls
  BY DEF Chat!TooLate, Chat!Place
<1>3. /\ worker' \in [Requests -> [Chat!Attempts -> AnyWorker]]
      /\ \A q \in Requests, b \in Chat!Attempts : q # r \/ b # a => worker'[q][b] = worker[q][b]
  BY <1>2, GoesInto, WorkersAfter
<1>4. \A q \in Requests, b \in Chat!Attempts :
        worker'[q][b].at \in {"late", "answered", "rejected"} =>
          ~\E c \in calls' : c.request = q /\ c.token = b
  BY <1>1, <1>2, <1>3 DEF CallInv
<1> QED
  BY <1>1, <1>2, <1>3, <1>4 DEF CallInv

LEMMA RespondCalls ==
  ASSUME CallInv, NEW r \in Requests, NEW a \in Chat!Attempts, Chat!Respond(r, a)
  PROVE  CallInv'
<1>1. calls' = calls \ {c \in calls : c.request = r /\ c.token = a} /\ permits' = permits
  BY DEF Chat!Respond, Chat!Ended
<1>2. PICK place \in {"answered", "rejected"} : Chat!Goes(r, a, place)
  BY DEF Chat!Respond
<1>3. place \in Chat!Place
  BY DEF Chat!Place
<1>4. /\ worker' \in [Requests -> [Chat!Attempts -> AnyWorker]]
      /\ \A q \in Requests, b \in Chat!Attempts : q # r \/ b # a => worker'[q][b] = worker[q][b]
  BY <1>2, <1>3, GoesInto, WorkersAfter
<1>5. \A q \in Requests, b \in Chat!Attempts :
        worker'[q][b].at \in {"late", "answered", "rejected"} =>
          ~\E c \in calls' : c.request = q /\ c.token = b
  BY <1>1, <1>4 DEF CallInv
<1> QED
  BY <1>1, <1>4, <1>5 DEF CallInv

LEMMA HangCalls ==
  ASSUME CallInv, NEW r \in Requests, NEW a \in Chat!Attempts, Chat!Hang(r, a)
  PROVE  CallInv'
<1> DEFINE Cut(c) == [c EXCEPT !.left = Chat!Least(c.left, Uncertainty)]
           own == {c \in calls : c.request = r /\ c.token = a}
<1>1. ASSUME NEW c \in Chat!Permit
      PROVE  /\ Cut(c).request = c.request /\ Cut(c).token = c.token
             /\ Cut(c).left \in Nat /\ Cut(c).left <= c.left
             /\ c.left > 0 /\ Uncertainty > 0 => Cut(c).left > 0
             /\ Cut(c) \in Chat!Permit
  BY ChatConstants DEF Chat!Permit, Chat!Least
<1>2. permits' = permits /\ calls' = (calls \ own) \union {Cut(c) : c \in {d \in own : Uncertainty > 0}}
  BY Zenon DEF Chat!Hang, Chat!Ended
<1>3. own \subseteq calls /\ calls \subseteq Chat!Permit
  BY DEF CallInv
<1> HIDE DEF Cut, own
<1>4. \A d \in calls' : \E c \in calls :
        c.request = d.request /\ c.token = d.token /\ d.left <= c.left /\ d.left > 0 /\ d \in Chat!Permit
  <2> SUFFICES ASSUME NEW d \in calls'
               PROVE  \E c \in calls : c.request = d.request /\ c.token = d.token /\ d.left <= c.left
                                       /\ d.left > 0 /\ d \in Chat!Permit
    OBVIOUS
  <2>1. CASE d \in calls
    BY <1>3, <2>1 DEF CallInv, Chat!Permit
  <2>2. CASE d \notin calls
    <3>1. PICK c \in own : d = Cut(c) /\ Uncertainty > 0
      BY <1>2, <2>2, Zenon
    <3>2. c \in calls /\ c \in Chat!Permit /\ c.left > 0
      BY <1>3, <3>1 DEF CallInv
    <3> QED
      BY <1>1, <3>1, <3>2
  <2> QED
    BY <2>1, <2>2
<1>5. \A d \in calls' :
        /\ d.left > 0
        /\ \E p \in permits' : p.request = d.request /\ p.token = d.token /\ d.left <= p.left
  <2> SUFFICES ASSUME NEW d \in calls'
               PROVE  /\ d.left > 0
                      /\ \E p \in permits : p.request = d.request /\ p.token = d.token /\ d.left <= p.left
    BY <1>2
  <2>1. PICK c \in calls :
          c.request = d.request /\ c.token = d.token /\ d.left <= c.left /\ d.left > 0 /\ d \in Chat!Permit
    BY <1>4
  <2>2. PICK p \in permits : p.request = c.request /\ p.token = c.token /\ c.left <= p.left
    BY DEF CallInv
  <2>3. c.left \in Nat /\ p.left \in Nat /\ d.left \in Nat
    BY <2>1 DEF CallInv, Chat!Permit
  <2> QED
    BY <2>1, <2>2, <2>3
<1>6. Chat!Goes(r, a, "unknown") /\ "unknown" \in Chat!Place
  BY DEF Chat!Hang, Chat!Place
<1>7. /\ worker' \in [Requests -> [Chat!Attempts -> AnyWorker]]
      /\ worker'[r][a].at = "unknown"
      /\ \A q \in Requests, b \in Chat!Attempts : q # r \/ b # a => worker'[q][b] = worker[q][b]
  BY <1>6, GoesInto, WorkersAfter
<1>8. \A q \in Requests, b \in Chat!Attempts :
        worker'[q][b].at \in {"late", "answered", "rejected"} =>
          ~\E c \in calls' : c.request = q /\ c.token = b
  BY <1>4, <1>7 DEF CallInv
<1>9. calls' \subseteq Chat!Permit
  BY <1>4
<1> QED
  BY <1>2, <1>5, <1>7, <1>8, <1>9 DEF CallInv

LEMMA SettleGoes ==
  ASSUME NEW r, NEW a, Chat!Settle(r, a)
  PROVE  \E place \in {Chat!Refused(r), "deciding", "failing"} : Chat!Goes(r, a, place)
<1>1. CASE Chat!At(r, a) = "late"
  BY <1>1, Zenon DEF Chat!Settle
<1>2. CASE Chat!At(r, a) = "answered"
  <2>1. Chat!At(r, a) # "late"
    BY <1>2
  <2> QED
    BY <1>2, <2>1, Zenon DEF Chat!Settle
<1>3. CASE Chat!At(r, a) # "late" /\ Chat!At(r, a) # "answered"
  BY <1>3, Zenon DEF Chat!Settle
<1> QED
  BY <1>1, <1>2, <1>3

\* Also what is known of the permits: they are those there were, or extended ones.
LEMMA SettleCalls ==
  ASSUME CallInv, NEW r \in Requests, NEW a \in Chat!Attempts, Chat!Settle(r, a)
  PROVE  CallInv' /\ \A p \in permits' : \E q \in permits : q.request = p.request
<1> DEFINE own == {p \in permits : p.request = r /\ p.token = a}
           Kept(p) == [p EXCEPT !.left = IF @ < Uncertainty THEN Uncertainty ELSE @]
<1>1. calls' = calls
  BY DEF Chat!Settle
<1>2. permits' = (permits \ own) \union {Kept(p) : p \in {q \in own : Chat!At(r, a) = "unknown"}}
  BY Zenon DEF Chat!Settle, Chat!Released
<1>3. ASSUME NEW p \in Chat!Permit
      PROVE  /\ Kept(p) \in Chat!Permit /\ Kept(p).request = p.request /\ Kept(p).token = p.token
             /\ Kept(p).left >= p.left /\ Kept(p).left \in Nat
  BY ChatConstants DEF Chat!Permit
<1>4. own \subseteq permits /\ permits \subseteq Chat!Permit
  BY DEF CallInv
<1> HIDE DEF Kept
<1>5. \A p \in permits' : p \in Chat!Permit /\ \E q \in permits : q.request = p.request
  <2> SUFFICES ASSUME NEW p \in permits' PROVE p \in Chat!Permit /\ \E q \in permits : q.request = p.request
    OBVIOUS
  <2>1. CASE p \in permits
    BY <1>4, <2>1
  <2>2. CASE p \notin permits
    <3>1. PICK q \in own : p = Kept(q)
      BY <1>2, <2>2, Zenon
    <3> HIDE DEF own
    <3> QED
      BY <1>3, <1>4, <3>1
  <2> QED
    BY <2>1, <2>2
<1>6. ASSUME NEW c \in calls
      PROVE  /\ c.left > 0
             /\ \E p \in permits' : p.request = c.request /\ p.token = c.token /\ c.left <= p.left
  <2>1. PICK p \in permits : p.request = c.request /\ p.token = c.token /\ c.left <= p.left
    BY DEF CallInv
  <2>2. c.left > 0 /\ c.left \in Nat /\ p.left \in Nat
    BY DEF CallInv, Chat!Permit
  <2>3. CASE p \notin own
    BY <1>2, <2>1, <2>2, <2>3
  <2>4. CASE p \in own
    <3>1. worker[r][a].at = "unknown"
      BY <2>1, <2>4 DEF Chat!Settle, CallInv, Chat!At
    <3>2. Kept(p) \in permits'
      BY <1>2, <2>4, <3>1 DEF Chat!At
    <3>3. Kept(p).request = p.request /\ Kept(p).token = p.token /\ Kept(p).left >= p.left /\ Kept(p).left \in Nat
      BY <1>3, <1>4, <2>4
    <3> QED
      BY <2>1, <2>2, <3>2, <3>3
  <2> QED
    BY <2>3, <2>4
<1>7. PICK place \in {Chat!Refused(r), "deciding", "failing"} : Chat!Goes(r, a, place)
  BY SettleGoes
<1>8. place \in Chat!Place \ {"late", "answered", "rejected"}
  BY DEF Chat!Refused, Chat!Place
<1>9. /\ worker' \in [Requests -> [Chat!Attempts -> AnyWorker]]
      /\ worker'[r][a].at = place
      /\ \A q \in Requests, b \in Chat!Attempts : q # r \/ b # a => worker'[q][b] = worker[q][b]
  BY <1>7, <1>8, GoesInto, WorkersAfter
<1>10. \A q \in Requests, b \in Chat!Attempts :
        worker'[q][b].at \in {"late", "answered", "rejected"} =>
          ~\E c \in calls' : c.request = q /\ c.token = b
  BY <1>1, <1>8, <1>9 DEF CallInv
<1>11. permits' \subseteq Chat!Permit /\ calls' \subseteq Chat!Permit
  BY <1>1, <1>5 DEF CallInv
<1> QED
  BY <1>1, <1>5, <1>6, <1>9, <1>10, <1>11 DEF CallInv

\* Time passes for a call and its permit alike.
LEMMA CallsAge ==
  ASSUME CallInv, Chat!Tick
  PROVE  CallInv' /\ \A p \in permits' : \E q \in permits : q.request = p.request
<1> DEFINE Aged(p) == [p EXCEPT !.left = Chat!Down(@)]
<1>1. permits \subseteq Chat!Permit /\ calls \subseteq Chat!Permit
  BY DEF CallInv
<1>2. permits' = {Aged(p) : p \in permits} /\ calls' = {c \in {Aged(d) : d \in calls} : c.left > 0}
      /\ worker' = worker
  BY Zenon DEF Chat!Tick, Chat!Older
<1>3. \A p \in Chat!Permit :
        Aged(p) \in Chat!Permit /\ Aged(p).request = p.request /\ Aged(p).token = p.token
        /\ Aged(p).left = Chat!Down(p.left)
  BY DEF Chat!Permit, Chat!Down
<1> HIDE DEF Aged
<1>4. ASSUME NEW d \in calls'
      PROVE  /\ d.left > 0
             /\ \E p \in permits' : p.request = d.request /\ p.token = d.token /\ d.left <= p.left
             /\ \E c \in calls : c.request = d.request /\ c.token = d.token
  <2>1. PICK c \in calls : d = Aged(c) /\ d.left > 0
    BY <1>2
  <2>2. PICK p \in permits : p.request = c.request /\ p.token = c.token /\ c.left <= p.left
    BY DEF CallInv
  <2>3. Aged(p) \in permits'
    BY <1>2
  <2>4. c.left \in Nat /\ p.left \in Nat
    BY <1>1 DEF Chat!Permit
  <2>5. d.left <= Aged(p).left
    BY <1>1, <1>3, <2>1, <2>2, <2>4 DEF Chat!Down
  <2> QED
    BY <1>1, <1>3, <2>1, <2>2, <2>3, <2>5
<1>5. \A q \in Requests, b \in Chat!Attempts :
        worker'[q][b].at \in {"late", "answered", "rejected"} =>
          ~\E c \in calls' : c.request = q /\ c.token = b
  BY <1>2, <1>4 DEF CallInv
<1>6. permits' \subseteq Chat!Permit /\ calls' \subseteq Chat!Permit
  BY <1>1, <1>2, <1>3
<1>7. \A p \in permits' : \E q \in permits : q.request = p.request
  BY <1>1, <1>2, <1>3
<1> QED
  BY <1>2, <1>4, <1>5, <1>6, <1>7 DEF CallInv

\* All steps of chat behind the gate.
LEMMA ChatCalls ==
  ASSUME RowInv, CallInv, NEW r \in Requests, ChatStep(r)
  PROVE  CallInv'
<1>1. ASSUME NEW a \in Chat!Attempts,
             \/ Chat!Start(r, a) \/ Chat!LoseLease(r, a) \/ Chat!GiveUp(r, a) \/ Chat!Break(r, a)
             \/ Chat!ReadTool(r, a) \/ Chat!Finalize(r, a) \/ Chat!Fail(r, a) \/ Chat!Yield(r, a)
      PROVE  CallInv'
  BY <1>1, WorkerCalls
<1>2. ASSUME NEW a \in Chat!Attempts, Chat!Call(r, a) \/ Chat!TooLate(r, a) \/ Chat!Mutate(r, a)
      PROVE  CallInv'
  BY <1>2, CallCalls, TooLateCalls, MutateCalls
<1>3. ASSUME NEW a \in Chat!Attempts, Chat!Respond(r, a) \/ Chat!Hang(r, a) \/ Chat!Settle(r, a)
      PROVE  CallInv'
  BY <1>3, RespondCalls, HangCalls, SettleCalls
<1>4. CASE Gated(r)
  BY <1>1, <1>2, <1>4, ClaimCalls DEF Gated
<1>5. CASE Ungated(r)
  BY <1>1, <1>3, <1>5 DEF Ungated
<1>6. CASE Fenced(r)
  BY <1>6, QuietEnds DEF Fenced
<1>7. CASE \E a \in Chat!Attempts : Chat!LoseLease(r, a)
  BY <1>1, <1>7
<1> QED
  BY <1>4, <1>5, <1>6, <1>7 DEF ChatStep

LEMMA ClaimRows ==
  ASSUME RowInv, NEW r \in Requests, Chat!Submit(r) \/ Chat!Retry(r)
  PROVE  /\ RowInv'
         /\ \A q \in Requests : q # r =>
              status'[q] = status[q] /\ action'[q] = action[q] /\ answers'[q] = answers[q]
         /\ permits' = permits
<1>1. CASE Chat!Submit(r)
  <2>1. 1 \in 0..MaxAttempts /\ Lease \in Nat
    BY ChatConstants
  <2> QED
    BY <1>1, <2>1 DEF RowInv, Chat!Submit, Chat!result
<1>2. CASE Chat!ClaimFinalizes(r)
  BY <1>2 DEF RowInv, Chat!ClaimFinalizes
<1>3. CASE Chat!ClaimExhausts(r)
  BY <1>3 DEF RowInv, Chat!ClaimExhausts, Chat!result
<1>4. CASE Chat!ClaimRecovers(r)
  <2>1. PICK n \in 0..MaxAttempts : n = attempts[r] + 1
    BY <1>4, ChatConstants DEF RowInv, Chat!ClaimRecovers, Chat!HasAttempts
  <2>2. attempts' = [attempts EXCEPT ![r] = n] /\ lease' = [lease EXCEPT ![r] = Lease]
        /\ UNCHANGED <<status, action, answers, permits>>
    BY <1>4, <2>1 DEF Chat!ClaimRecovers, Chat!result
  <2> QED
    BY <2>2, ChatConstants DEF RowInv
<1> QED
  BY <1>1, <1>2, <1>3, <1>4 DEF Chat!Retry

LEMMA WorkerRows ==
  ASSUME RowInv, NEW r \in Requests, NEW a \in Chat!Attempts,
         \/ Chat!Mutate(r, a) \/ Chat!Finalize(r, a) \/ Chat!Fail(r, a) \/ Chat!Yield(r, a)
  PROVE  /\ RowInv'
         /\ \A q \in Requests : q # r =>
              status'[q] = status[q] /\ action'[q] = action[q] /\ answers'[q] = answers[q]
         /\ permits' = permits
<1>1. CASE Chat!Mutate(r, a)
  BY <1>1 DEF RowInv, Chat!Mutate, Chat!rows
<1>2. CASE Chat!Finalize(r, a)
  BY <1>2 DEF RowInv, Chat!Finalize
<1>3. CASE Chat!Fail(r, a)
  BY <1>3 DEF RowInv, Chat!Fail, Chat!result
<1>4. CASE Chat!Yield(r, a)
  BY <1>4 DEF RowInv, Chat!Yield, Chat!result
<1> QED
  BY <1>1, <1>2, <1>3, <1>4

\* The other steps of a worker leave the rows of every message alone.
LEMMA RowsStay ==
  ASSUME NEW r \in Requests, NEW a \in Chat!Attempts,
         \/ Chat!Start(r, a) \/ Chat!LoseLease(r, a) \/ Chat!Call(r, a) \/ Chat!TooLate(r, a)
         \/ Chat!GiveUp(r, a) \/ Chat!Respond(r, a) \/ Chat!Hang(r, a) \/ Chat!Settle(r, a)
         \/ Chat!Break(r, a) \/ Chat!ReadTool(r, a)
  PROVE  UNCHANGED <<status, lease, attempts, action, answers>>
BY DEF Chat!Start, Chat!LoseLease, Chat!Call, Chat!TooLate, Chat!GiveUp, Chat!Respond, Chat!Hang,
       Chat!Settle, Chat!Break, Chat!ReadTool, Chat!rows, Chat!result

\* Permits a step leaves behind: those there were, for the same messages, and
\* at most one for the message of the worker that is granted it.
LEMMA PermitsAfter ==
  ASSUME CallInv, NEW r \in Requests, NEW a \in Chat!Attempts,
         \/ Chat!Start(r, a) \/ Chat!LoseLease(r, a) \/ Chat!Call(r, a) \/ Chat!TooLate(r, a)
         \/ Chat!GiveUp(r, a) \/ Chat!Respond(r, a) \/ Chat!Hang(r, a) \/ Chat!Settle(r, a)
         \/ Chat!Break(r, a) \/ Chat!ReadTool(r, a)
  PROVE  \A p \in permits' : \/ \E q \in permits : q.request = p.request
                             \/ p.request = r /\ (Chat!Call(r, a) \/ Chat!TooLate(r, a))
<1>1. CASE Chat!Call(r, a) \/ Chat!TooLate(r, a)
  <2>1. permits' = Chat!ActivePermits \union {[request |-> r, token |-> a, left |-> lease[r]]}
    BY <1>1 DEF Chat!Call, Chat!TooLate, Chat!Granted
  <2> QED
    BY <1>1, <2>1 DEF Chat!ActivePermits
<1>2. CASE Chat!Settle(r, a)
  BY <1>2, SettleCalls
<1>3. CASE \/ Chat!Start(r, a) \/ Chat!LoseLease(r, a) \/ Chat!GiveUp(r, a) \/ Chat!Respond(r, a)
           \/ Chat!Hang(r, a) \/ Chat!Break(r, a) \/ Chat!ReadTool(r, a)
  <2>1. permits' = permits
    BY <1>3 DEF Chat!Start, Chat!LoseLease, Chat!GiveUp, Chat!Respond, Chat!Hang, Chat!Break, Chat!ReadTool
  <2> QED
    BY <2>1
<1> QED
  BY <1>1, <1>2, <1>3

LEMMA ChatRows ==
  ASSUME RowInv, CallInv, NEW r \in Requests, ChatStep(r)
  PROVE  /\ RowInv'
         /\ \A q \in Requests : (q # r \/ ~Open(UserOf[r])) =>
              status'[q] = status[q] /\ action'[q] = action[q] /\ answers'[q] = answers[q]
         /\ \A p \in permits' : \/ \E q \in permits : q.request = p.request
                                \/ p.request = r /\ Open(UserOf[r])
<1> DEFINE Good == /\ RowInv'
                   /\ \A q \in Requests : (q # r \/ ~Open(UserOf[r])) =>
                        status'[q] = status[q] /\ action'[q] = action[q] /\ answers'[q] = answers[q]
                   /\ \A p \in permits' : \/ \E q \in permits : q.request = p.request
                                          \/ p.request = r /\ Open(UserOf[r])
<1> SUFFICES Good
  OBVIOUS
<1>1. ASSUME UNCHANGED <<status, lease, attempts, action, answers>>,
             \A p \in permits' : \/ \E q \in permits : q.request = p.request
                                 \/ p.request = r /\ Open(UserOf[r])
      PROVE  Good
  BY <1>1 DEF RowInv
<1>2. CASE Open(UserOf[r]) /\ Gated(r)
  <2>1. ASSUME Chat!Submit(r) \/ Chat!Retry(r) PROVE Good
    BY <1>2, <2>1, ClaimRows
  <2>2. ASSUME NEW a \in Chat!Attempts,
               \/ Chat!Mutate(r, a) \/ Chat!Finalize(r, a) \/ Chat!Fail(r, a) \/ Chat!Yield(r, a)
        PROVE  Good
    BY <1>2, <2>2, WorkerRows
  <2>3. ASSUME NEW a \in Chat!Attempts,
               \/ Chat!Call(r, a) \/ Chat!TooLate(r, a) \/ Chat!GiveUp(r, a) \/ Chat!ReadTool(r, a)
        PROVE  Good
    BY <1>1, <1>2, <2>3, RowsStay, PermitsAfter
  <2> HIDE DEF Good
  <2> QED
    BY <1>2, <2>1, <2>2, <2>3 DEF Gated
<1>3. CASE Open(UserOf[r]) /\ \E a \in Chat!Attempts : Chat!LoseLease(r, a)
  <2>1. PICK a \in Chat!Attempts : Chat!LoseLease(r, a)
    BY <1>3
  <2>2. UNCHANGED <<status, lease, attempts, action, answers>> /\ permits' = permits
    BY <2>1, RowsStay DEF Chat!LoseLease
  <2> QED
    BY <1>1, <2>2
<1>4. CASE Ungated(r)
  <2>1. PICK a \in Chat!Attempts :
          \/ Chat!Start(r, a) \/ Chat!Respond(r, a) \/ Chat!Hang(r, a) \/ Chat!Settle(r, a) \/ Chat!Break(r, a)
    BY <1>4 DEF Ungated
  <2>2. UNCHANGED <<status, lease, attempts, action, answers>>
    BY <2>1, RowsStay
  <2>3. \A p \in permits' : \E q \in permits : q.request = p.request
    <3>1. CASE Chat!Settle(r, a)
      BY <3>1, SettleCalls
    <3>2. CASE ~Chat!Settle(r, a)
      BY <2>1, <3>2 DEF Chat!Start, Chat!Respond, Chat!Hang, Chat!Break
    <3> QED
      BY <3>1, <3>2
  <2> QED
    BY <1>1, <2>2, <2>3
<1>5. CASE Fenced(r)
  BY <1>1, <1>5 DEF Fenced
<1> HIDE DEF Good
<1> QED
  BY <1>2, <1>3, <1>4, <1>5 DEF ChatStep

----------------------------------------------------------------------------
(* Types.  What the message rows say of the workers (RoundsLeft of         *)
(* ChatRequestsProofs) is no longer true once the rows are erased: a       *)
(* worker may be left over whose token is beyond the attempts.  It is not  *)
(* needed there either, because nothing claims an erased message.          *)

\* A worker that is to ask the model has a round left, and one whose token has not
\* been drawn yet has them all.
RoundInv ==
  /\ \A r \in Requests, a \in Chat!Attempts :
       /\ worker[r][a].round \in 0..MaxRounds
       /\ worker[r][a].at \in {"claimed", "thinking"} => worker[r][a].round < MaxRounds
       /\ a > attempts[r] /\ ~Erased(UserOf[r]) => worker[r][a].round = 0
  /\ \A r \in Requests : status[r] = "none" => attempts[r] = 0

Timely ==
  /\ lease \in [Requests -> 0..Lease] /\ recent \in [Requests -> 0..RateWindow]
  /\ effects \in [Requests -> Nat]

\* Attempts are only drawn, and rows only added.
Onwards ==
  /\ \A q \in Requests : attempts'[q] >= attempts[q] /\ (status'[q] = "none" => attempts'[q] = 0)
  /\ UNCHANGED gateVars

LEMMA RoundStep ==
  ASSUME RowInv, RowInv', CallInv, RoundInv, Onwards,
         NEW r \in Requests, NEW a \in Chat!Attempts, NEW w, Becomes(r, a, w),
         w.round \in 0..MaxRounds, w.at \in {"claimed", "thinking"} => w.round < MaxRounds,
         a > attempts[r] /\ ~Erased(UserOf[r]) => w.round = 0
  PROVE  RoundInv'
<1>1. /\ worker'[r][a] = w
      /\ \A q \in Requests, b \in Chat!Attempts : q # r \/ b # a => worker'[q][b] = worker[q][b]
  BY WorkersAfter
<1>2. \A i : Erased(i)' <=> Erased(i)
  BY DEF Onwards, gateVars, Erased
<1>3. \A q \in Requests, b \in Chat!Attempts : b > attempts'[q] => b > attempts[q]
  BY DEF Onwards, RowInv, Chat!Attempts
<1>4. ASSUME NEW q \in Requests, NEW b \in Chat!Attempts
      PROVE  /\ worker'[q][b].round \in 0..MaxRounds
             /\ worker'[q][b].at \in {"claimed", "thinking"} => worker'[q][b].round < MaxRounds
             /\ b > attempts'[q] /\ ~Erased(UserOf[q]) => worker'[q][b].round = 0
  <2>1. CASE q = r /\ b = a
    BY <1>1, <1>3, <2>1
  <2>2. CASE q # r \/ b # a
    BY <1>1, <1>3, <2>2 DEF RoundInv
  <2> QED
    BY <2>1, <2>2
<1> QED
  BY <1>2, <1>4 DEF RoundInv, Onwards

\* A worker that goes elsewhere, to the model only with a round left.
LEMMA RoundGoes ==
  ASSUME RowInv, RowInv', CallInv, RoundInv, Onwards,
         NEW r \in Requests, NEW a \in Chat!Attempts, NEW place \in Chat!Place, Chat!Goes(r, a, place),
         place \in {"claimed", "thinking"} => worker[r][a].round < MaxRounds
  PROVE  RoundInv'
<1>1. PICK w : w.at = place /\ w.round = worker[r][a].round /\ Becomes(r, a, w)
  BY GoesInto
<1> QED
  BY <1>1, RoundStep DEF RoundInv

LEMMA RoundEnds ==
  ASSUME RowInv, RowInv', CallInv, RoundInv, Onwards,
         NEW r \in Requests, NEW a \in Chat!Attempts, Chat!Ends(r, a)
  PROVE  RoundInv'
<1>1. PICK w : w.at = "done" /\ w.round = 0 /\ Becomes(r, a, w)
  BY EndsThere
<1>2. 0 \in 0..MaxRounds
  BY ChatConstants
<1> QED
  BY <1>1, <1>2, RoundStep

LEMMA ClaimRounds ==
  ASSUME RowInv, RowInv', CallInv, RoundInv, UNCHANGED gateVars, NEW r \in Requests,
         ~Erased(UserOf[r]), Chat!Submit(r) \/ Chat!Retry(r)
  PROVE  RoundInv'
<1>0. MaxRounds \in Nat \ {0}
  BY DeletionAssumption DEF Chat!LimitAssumption
<1>1. ASSUME NEW a, a = attempts[r] + 1, a \in Chat!Attempts, Chat!Goes(r, a, "claimed"), Onwards
      PROVE  RoundInv'
  <2>1. a > attempts[r] /\ worker[r][a].round = 0
    BY <1>1 DEF RoundInv, RowInv
  <2>2. "claimed" \in Chat!Place
    BY DEF Chat!Place
  <2> QED
    BY <1>0, <1>1, <2>1, <2>2, RoundGoes
<1>2. CASE Chat!Submit(r)
  <2>1. attempts[r] = 0 /\ attempts' = [attempts EXCEPT ![r] = 1] /\ status' = [status EXCEPT ![r] = "processing"]
        /\ Chat!Goes(r, 1, "claimed")
    BY <1>2 DEF Chat!Submit, RoundInv
  <2>2. 1 = attempts[r] + 1 /\ 1 \in Chat!Attempts
    BY <2>1, ChatConstants DEF Chat!Attempts
  <2>3. Onwards
    BY <2>1 DEF Onwards, RowInv, RoundInv
  <2> QED
    BY <1>1, <2>1, <2>2, <2>3
<1>3. CASE Chat!ClaimFinalizes(r) \/ Chat!ClaimExhausts(r)
  <2>1. UNCHANGED <<attempts, worker>> /\ \A q \in Requests : status'[q] = "none" => status[q] = "none"
    BY <1>3 DEF Chat!ClaimFinalizes, Chat!ClaimExhausts, RowInv
  <2> QED
    BY <2>1 DEF RoundInv, Erased, gateVars
<1>4. CASE Chat!ClaimRecovers(r)
  <2>1. /\ status[r] = "processing" /\ attempts[r] < MaxAttempts /\ status' = status
        /\ attempts' = [attempts EXCEPT ![r] = @ + 1] /\ Chat!Goes(r, attempts[r] + 1, "claimed")
    BY <1>4 DEF Chat!ClaimRecovers, Chat!Expired, Chat!HasAttempts
  <2>2. attempts[r] \in 0..MaxAttempts
    BY DEF RowInv
  <2>3. attempts[r] + 1 \in Chat!Attempts
    BY <2>1, <2>2, ChatConstants DEF Chat!Attempts
  <2>4. Onwards
    BY <2>1 DEF Onwards, RowInv, RoundInv
  <2> QED
    BY <1>1, <2>1, <2>3, <2>4
<1> QED
  BY <1>2, <1>3, <1>4 DEF Chat!Retry

LEMMA WorkerRounds ==
  ASSUME RowInv, RowInv', CallInv, RoundInv, UNCHANGED gateVars,
         NEW r \in Requests, NEW a \in Chat!Attempts, Chat!WorkerStep(r, a)
  PROVE  RoundInv'
<1> DEFINE Elsewhere == Chat!Place \ {"claimed", "thinking"}
<1>1. Onwards
  <2>1. UNCHANGED attempts /\ \A q \in Requests : status'[q] = "none" => status[q] = "none"
    <3>1. CASE Chat!Finalize(r, a)
      BY <3>1 DEF Chat!Finalize, RowInv
    <3>2. CASE Chat!Fail(r, a)
      BY <3>2 DEF Chat!Fail, RowInv
    <3>3. CASE Chat!Mutate(r, a) \/ Chat!Yield(r, a)
      BY <3>3 DEF Chat!Mutate, Chat!Yield, Chat!rows
    <3> QED
      BY <3>1, <3>2, <3>3, RowsStay DEF Chat!WorkerStep
  <2> QED
    BY <2>1 DEF Onwards, RowInv, RoundInv
<1>2. ASSUME NEW place \in Elsewhere, Chat!Goes(r, a, place) PROVE RoundInv'
  BY <1>1, <1>2, RoundGoes
<1>3. ASSUME Chat!Ends(r, a) PROVE RoundInv'
  BY <1>1, <1>3, RoundEnds
<1>4. ASSUME Chat!Goes(r, a, "thinking"), worker[r][a].round < MaxRounds PROVE RoundInv'
  <2>1. "thinking" \in Chat!Place
    BY DEF Chat!Place
  <2> QED
    BY <1>1, <1>4, <2>1, RoundGoes
<1>5. /\ {"closing", "yielding", "salvaging", "failing", "late", "answered", "rejected", "unknown", "deciding"} \subseteq Elsewhere
      /\ Chat!Refused(r) \in Elsewhere
  BY DEF Chat!Place, Chat!Refused
<1> HIDE DEF Elsewhere
<1>6. CASE Chat!Start(r, a)
  <2>1. worker[r][a].round < MaxRounds
    BY <1>6 DEF Chat!Start, Chat!At, RoundInv
  <2>2. Chat!Goes(r, a, "closing") \/ Chat!Goes(r, a, "thinking")
    BY <1>6 DEF Chat!Start
  <2> QED
    BY <1>2, <1>4, <1>5, <2>1, <2>2
<1>7. CASE Chat!LoseLease(r, a)
  BY <1>2, <1>3, <1>5, <1>7 DEF Chat!LoseLease
<1>8. CASE Chat!Call(r, a)
  <2>1. PICK w : w.at = "calling" /\ w.round = worker[r][a].round + 1 /\ Becomes(r, a, w)
    BY <1>8, CallBegins
  <2>2. worker[r][a].round \in 0..MaxRounds /\ worker[r][a].round < MaxRounds /\ attempts[r] = a
    BY <1>8 DEF Chat!Call, Chat!Granted, Chat!At, Chat!Owned, RoundInv
  <2>3. w.round \in 0..MaxRounds /\ ~(a > attempts[r])
    BY <2>1, <2>2, ChatConstants DEF Chat!Attempts
  <2> QED
    BY <1>1, <2>1, <2>3, RoundStep
<1>9. CASE Chat!TooLate(r, a) \/ Chat!GiveUp(r, a) \/ Chat!Respond(r, a) \/ Chat!Hang(r, a) \/ Chat!Break(r, a)
  BY <1>2, <1>5, <1>9 DEF Chat!TooLate, Chat!GiveUp, Chat!Respond, Chat!Hang, Chat!Break
<1>10. CASE Chat!Settle(r, a)
  BY <1>2, <1>5, <1>10, SettleGoes
<1>11. Chat!Onward(r, a) = "thinking" => worker[r][a].round < MaxRounds
  BY DEF Chat!Onward
<1>12. Chat!Onward(r, a) \in {"thinking", "failing"}
  BY DEF Chat!Onward
<1>13. CASE Chat!ReadTool(r, a)
  BY <1>2, <1>4, <1>5, <1>11, <1>12, <1>13 DEF Chat!ReadTool
<1>14. CASE Chat!Mutate(r, a)
  <2>1. PICK w : w.at \in {Chat!Onward(r, a), "failing"} /\ w.round = worker[r][a].round /\ Becomes(r, a, w)
    BY <1>14, MutationReturns
  <2>2. w.at \in {"claimed", "thinking"} => w.round < MaxRounds
    BY <1>11, <1>12, <2>1
  <2> QED
    BY <1>1, <2>1, <2>2, RoundStep DEF RoundInv
<1>15. CASE Chat!Finalize(r, a) \/ Chat!Fail(r, a) \/ Chat!Yield(r, a)
  BY <1>2, <1>3, <1>5, <1>15 DEF Chat!Finalize, Chat!Fail, Chat!Yield
<1> QED
  BY <1>6, <1>7, <1>8, <1>9, <1>10, <1>13, <1>14, <1>15 DEF Chat!WorkerStep

----------------------------------------------------------------------------
(* Nothing returns.                                                        *)

IInv == LookupInv /\ JobInv /\ RowInv /\ CallInv /\ NothingReturns

\* A step erases nobody and gives the erased nothing back.
LEMMA StaysGone ==
  ASSUME NothingReturns, \A i \in Identities : Erased(i)' = Erased(i),
         \A l \in Lookups : Erased(Caller[l]) /\ attempt[l] = Absent => attempt'[l] = Absent,
         \A r \in Requests : Erased(UserOf[r]) =>
           status'[r] = status[r] /\ action'[r] = action[r] /\ answers'[r] = answers[r],
         \A p \in permits' : Erased(UserOf[p.request]) => \E q \in permits : q.request = p.request
  PROVE  NothingReturns'
<1> SUFFICES ASSUME NEW i \in Identities, Erased(i)
             PROVE  /\ \A l \in Own(i) : attempt'[l] = Absent
                    /\ \A r \in RequestsOf(i) : status'[r] = "none" /\ ~action'[r] /\ answers'[r] = 0
                    /\ \A p \in permits' : UserOf[p.request] # i
  BY DEF NothingReturns
<1>1. \A l \in Own(i) : attempt'[l] = Absent
  BY DEF NothingReturns, Own
<1>2. \A r \in RequestsOf(i) : status'[r] = "none" /\ ~action'[r] /\ answers'[r] = 0
  BY DEF NothingReturns, RequestsOf
<1>3. \A p \in permits' : UserOf[p.request] # i
  BY DEF NothingReturns
<1> QED
  BY <1>1, <1>2, <1>3

LEMMA LookupStepKeeps ==
  ASSUME IInv, NEW l \in Lookups, Lookup(l), UNCHANGED <<jobVars, chatVars>>
  PROVE  IInv'
<1>1. LookupInv'
  BY LookupKeeps DEF IInv
<1>2. UNCHANGED gateVars
  BY DEF Lookup, Acquire, Ask, Answer, Abandon, Finish
<1>3. JobInv' /\ \A i \in Identities : Erased(i)' = Erased(i)
  BY <1>2, JobsStay DEF IInv, JobInv, jobVars
<1>4. RowInv' /\ CallInv'
  BY DEF IInv, RowInv, CallInv, chatVars
<1>5. ASSUME NEW k \in Lookups, Erased(Caller[k]), attempt[k] = Absent PROVE attempt'[k] = Absent
  <2>1. CASE Acquire(l)
    <3>1. k # l
      BY <1>5, <2>1, ErasedClosed DEF Acquire
    <3>2. attempt'[k] = Swept(k)
      BY <2>1, <3>1 DEF Acquire
    <3> QED
      BY <1>5, <3>2 DEF Swept, Absent
  <2>2. CASE Finish(l)
    <3>1. CASE k = l
      <4>1. attempt[k].held = FALSE
        BY <1>5, AbsentTyped
      <4>2. PICK w : w = [[attempt[k] EXCEPT !.held = FALSE] EXCEPT !.permit = 0]
        OBVIOUS
      <4>3. w = Absent
        BY <1>5, <4>2, AbsentKept
      <4>4. Settled(k) \in {w, attempt[k]}
        BY <4>1, <4>2 DEF Settled
      <4>5. Settled(k) = Absent
        BY <1>5, <4>3, <4>4
      <4> QED
        BY <2>2, <3>1, <4>5 DEF Finish, IInv, LookupInv
    <3> QED
      BY <1>5, <2>2, <3>1 DEF Finish, IInv, LookupInv
  <2>3. CASE Ask(l) \/ Answer(l) \/ Abandon(l)
    BY <1>5, <2>3 DEF Ask, Answer, Abandon
  <2> QED
    BY <2>1, <2>2, <2>3 DEF Lookup
<1>6. UNCHANGED <<status, action, answers, permits>>
  BY DEF chatVars
<1>7. NothingReturns'
  BY <1>3, <1>5, <1>6, StaysGone DEF IInv
<1> QED
  BY <1>1, <1>3, <1>4, <1>7 DEF IInv

LEMMA ChatStepKeeps ==
  ASSUME IInv, NEW r \in Requests, ChatStep(r)
  PROVE  IInv'
<1>1. UNCHANGED <<gateVars, lookupVars, jobVars>>
  BY DEF ChatStep
<1>2. LookupInv'
  BY <1>1 DEF IInv, LookupInv, Active, Pending, lookupVars
<1>3. JobInv' /\ \A i \in Identities : Erased(i)' = Erased(i)
  BY <1>1, JobsStay DEF IInv, JobInv, jobVars
<1>4. /\ RowInv' /\ CallInv'
      /\ \A q \in Requests : (q # r \/ ~Open(UserOf[r])) =>
           status'[q] = status[q] /\ action'[q] = action[q] /\ answers'[q] = answers[q]
      /\ \A p \in permits' : \/ \E q \in permits : q.request = p.request
                             \/ p.request = r /\ Open(UserOf[r])
  BY ChatRows, ChatCalls DEF IInv
<1>5. Erased(UserOf[r]) => ~Open(UserOf[r])
  BY ErasedClosed
<1>6. NothingReturns'
  BY <1>1, <1>3, <1>4, <1>5, StaysGone DEF IInv, lookupVars
<1> QED
  BY <1>2, <1>3, <1>4, <1>6 DEF IInv

\* A step of the jobs that erases nobody.
LEMMA JobStepKeeps ==
  ASSUME IInv, JobInv', \A i \in Identities : Erased(i)' = Erased(i), UNCHANGED <<lookupVars, chatVars>>
  PROVE  IInv'
<1>1. LookupInv'
  BY DEF IInv, LookupInv, Active, Pending, lookupVars
<1>2. RowInv' /\ CallInv'
  BY DEF IInv, RowInv, CallInv, chatVars
<1>3. NothingReturns'
  BY StaysGone DEF IInv, lookupVars, chatVars
<1> QED
  BY <1>1, <1>2, <1>3 DEF IInv

\* The clean-up of a drained identity: none of its lookups or calls is going on.
LEMMA EraseStepKeeps ==
  ASSUME IInv, NEW w \in Recoverers, NEW i \in Identities, Erase(w, i)
  PROVE  IInv'
<1> USE DEF IInv
<1>1. /\ phase[i] = "draining" /\ phase' = [phase EXCEPT ![i] = "auth_pending"] /\ auth' = auth
      /\ attempt' = [l \in Lookups |-> IF Caller[l] = i THEN Absent ELSE attempt[l]]
      /\ permits' = {p \in permits : p.request \notin RequestsOf(i)}
      /\ status' = [r \in Requests |-> IF UserOf[r] = i THEN "none" ELSE status[r]]
      /\ action' = [r \in Requests |-> action[r] /\ UserOf[r] # i]
      /\ UNCHANGED <<at, provider, due, deletes, effects, worker, calls>>
  BY DEF Erase
<1>2. /\ lease' = [r \in Requests |-> IF UserOf[r] = i THEN 0 ELSE lease[r]]
      /\ attempts' = [r \in Requests |-> IF UserOf[r] = i THEN 0 ELSE attempts[r]]
      /\ answers' = [r \in Requests |-> IF UserOf[r] = i THEN 0 ELSE answers[r]]
  BY DEF Erase
<1>3. Own(i) \intersect Active = {} /\ ~\E p \in permits : p.request \in RequestsOf(i) /\ p.left > 0
  BY DEF Erase, Drained
<1>4. LookupInv'
  BY <1>1, <1>3, LookupsErased
<1>5. \A j \in Identities : Erased(j)' <=> Erased(j) \/ j = i
  BY <1>1 DEF Erased, JobInv
<1>6. JobInv'
  <2>1. PICK v : v = [at |-> "erased", jobs |-> recoverer[w].jobs \ {i}, job |-> {i}]
    OBVIOUS
  <2>2. /\ v \in [at : {"idle", "erased", "asking", "closing"}, jobs : SUBSET Identities, job : SUBSET Identities]
        /\ v.job = {i} /\ recoverer' = [recoverer EXCEPT ![w] = v]
    <3>1. recoverer[w].jobs \subseteq Identities
      BY DEF JobInv
    <3> QED
      BY <2>1, <3>1 DEF Erase, Proceeds
  <2> QED
    BY <1>1, <1>5, <2>2 DEF JobInv
<1>7. RowInv'
  <2>1. 0 \in Nat /\ 0 \in 0..MaxAttempts
    BY ChatConstants
  <2>2. \A r \in Requests : (action[r] /\ UserOf[r] # i) \in BOOLEAN
    OBVIOUS
  <2>3. action' \in [Requests -> BOOLEAN]
    BY <1>1, <2>2, Zenon
  <2> QED
    BY <1>1, <1>2, <2>1, <2>3 DEF RowInv
<1>8. CallInv'
  <2>1. ASSUME NEW c \in calls
        PROVE  \E p \in permits' : p.request = c.request /\ p.token = c.token /\ c.left <= p.left
    <3>1. PICK p \in permits : p.request = c.request /\ p.token = c.token /\ c.left <= p.left
      BY DEF CallInv
    <3>2. p.left > 0
      BY <3>1 DEF CallInv, Chat!Permit
    <3> QED
      BY <1>1, <1>3, <3>1, <3>2
  <2> QED
    BY <1>1, <2>1 DEF CallInv
<1>9. NothingReturns'
  <2> SUFFICES ASSUME NEW j \in Identities, Erased(j) \/ j = i
               PROVE  /\ \A l \in Own(j) : attempt'[l] = Absent
                      /\ \A r \in RequestsOf(j) : status'[r] = "none" /\ ~action'[r] /\ answers'[r] = 0
                      /\ \A p \in permits' : UserOf[p.request] # j
    BY <1>5 DEF NothingReturns
  <2>1. \A l \in Own(j) : attempt'[l] = Absent
    BY <1>1 DEF NothingReturns, Own
  <2>2. \A r \in RequestsOf(j) : status'[r] = "none" /\ answers'[r] = 0
    BY <1>1, <1>2 DEF NothingReturns, RequestsOf
  <2>3. ASSUME NEW r \in RequestsOf(j) PROVE ~action'[r]
    <3>1. ~(action[r] /\ UserOf[r] # i)
      BY DEF NothingReturns, RequestsOf
    <3>2. r \in Requests
      BY DEF RequestsOf
    <3> QED
      BY <1>1, <3>1, <3>2, Zenon
  <2>4. \A p \in permits' : UserOf[p.request] # j
    <3>1. \A p \in permits : p.request \in Requests
      BY DEF CallInv, Chat!Permit
    <3> QED
      BY <1>1, <3>1 DEF NothingReturns, RequestsOf
  <2> QED
    BY <2>1, <2>2, <2>3, <2>4
<1> QED
  BY <1>4, <1>6, <1>7, <1>8, <1>9

LEMMA TickKeeps ==
  ASSUME IInv, Tick
  PROVE  IInv'
<1> USE DEF IInv
<1>1. LookupTick /\ Chat!Tick /\ UNCHANGED <<gateVars, at, deletes, recoverer>>
      /\ due' = [i \in Identities |-> Less(due[i])]
  BY DEF Tick
<1>2. LookupInv'
  BY <1>1, LookupsAge
<1>3. due' \in [Identities -> 0..RetryTime]
  BY <1>1, LessTyped, DeletionAssumption DEF JobInv
<1>4. JobInv' /\ \A i \in Identities : Erased(i)' = Erased(i)
  BY <1>1, <1>3, JobsStay
<1>5. CallInv' /\ \A p \in permits' : \E q \in permits : q.request = p.request
  BY <1>1, CallsAge
<1>6. UNCHANGED <<status, attempts, action, answers>>
  BY <1>1 DEF Chat!Tick, Chat!result
<1>7. lease' \in [Requests -> Nat]
  BY <1>1 DEF RowInv, Chat!Tick, Chat!Down
<1>8. RowInv'
  BY <1>6, <1>7 DEF RowInv
<1>9. ASSUME NEW l \in Lookups, attempt[l] = Absent PROVE attempt'[l] = Absent
  <2>1. attempt'[l] = [Absent EXCEPT !.recent = Less(@), !.permit = Less(@)]
    BY <1>1, <1>9 DEF LookupTick
  <2>2. Less(0) = 0
    BY DEF Less
  <2>3. [Absent EXCEPT !.recent = Less(@), !.permit = Less(@)] = Absent
    BY <2>2, AbsentTyped, AbsentKept
  <2> QED
    BY <2>1, <2>3
<1>10. NothingReturns'
  BY <1>4, <1>5, <1>6, <1>9, StaysGone
<1> QED
  BY <1>2, <1>4, <1>5, <1>8, <1>10

LEMMA InitHolds == Init => IInv
<1> SUFFICES ASSUME Init PROVE IInv
  OBVIOUS
<1>1. /\ auth = [i \in Identities |-> TRUE] /\ phase = [i \in Identities |-> "none"]
      /\ attempt = [l \in Lookups |-> Absent] /\ at = [l \in Lookups |-> "new"]
      /\ provider = [l \in Lookups |-> 0] /\ due = [i \in Identities |-> 0]
      /\ deletes = {} /\ recoverer = [w \in Recoverers |-> Idle]
  BY DEF Init, LookupInit
<1>2. LookupInv
  <2>1. Active = {} /\ Pending = {}
    BY <1>1, AbsentTyped DEF Active, Pending
  <2>2. \A l \in Lookups : /\ provider[l] <= attempt[l].permit
                           /\ attempt[l].permit > 0 => attempt[l].held
                           /\ at[l] \in {"new", "answered"} => provider[l] = 0
    BY <1>1, AbsentTyped
  <2>3. IsFiniteSet({}) /\ Cardinality({}) = 0
    BY FS_EmptySet
  <2>4. 0 \in 0..(Deadline + Linger)
    BY Durations
  <2>5. IsFiniteSet(Active) /\ IsFiniteSet(Pending) /\ Cardinality(Pending) <= MaxLookups
    BY <2>1, <2>3, Durations
  <2> QED
    BY <1>1, <2>1, <2>2, <2>4, <2>5, AbsentTyped DEF LookupInv
<1>3. \A i \in Identities : ~Erased(i)
  BY <1>1 DEF Erased
<1>4. JobInv
  BY <1>1, <1>3, DeletionAssumption DEF JobInv, Idle
<1>5. Chat!Init
  BY DEF Init
<1>6. RowInv
  BY <1>5, ChatConstants DEF RowInv, Chat!Init
<1>7. CallInv
  <2>1. Chat!Nowhere("idle") \in AnyWorker /\ Chat!Nowhere("idle").at = "idle"
    BY DEF Chat!Nowhere, AnyWorker, Chat!Place
  <2> QED
    BY <1>5, <2>1 DEF CallInv, Chat!Init
<1>8. NothingReturns
  BY <1>3 DEF NothingReturns
<1> QED
  BY <1>2, <1>4, <1>6, <1>7, <1>8 DEF IInv

LEMMA StepKeeps == IInv /\ [Next]_vars => IInv'
<1> SUFFICES ASSUME IInv, [Next]_vars PROVE IInv'
  OBVIOUS
<1>1. ASSUME NEW l \in Lookups, Lookup(l), UNCHANGED <<jobVars, chatVars>> PROVE IInv'
  BY <1>1, LookupStepKeeps
<1>2. ASSUME NEW r \in Requests, ChatStep(r) PROVE IInv'
  BY <1>2, ChatStepKeeps
<1>3. ASSUME NEW i \in Identities, Confirm(i) \/ AuthDeletes(i) PROVE IInv'
  <2>1. JobInv' /\ \A j \in Identities : Erased(j)' = Erased(j)
    BY <1>3, ConfirmKeeps, AuthDeletesKeeps DEF IInv
  <2>2. UNCHANGED <<lookupVars, chatVars>>
    BY <1>3 DEF Confirm, AuthDeletes
  <2> QED
    BY <2>1, <2>2, JobStepKeeps
<1>4. ASSUME NEW w \in Recoverers, Recover(w) PROVE IInv'
  <2>1. CASE \E i \in Identities : Erase(w, i)
    BY <2>1, EraseStepKeeps
  <2>2. CASE \A i \in Identities : ~Erase(w, i)
    <3>1. JobInv' /\ \A j \in Identities : Erased(j)' = Erased(j)
      BY <1>4, <2>2, RecoverKeeps DEF IInv
    <3>2. UNCHANGED <<lookupVars, chatVars>>
      BY <1>4, <2>2 DEF Recover, Claim, Resume, Postpone, Look, Request, LoseRequest, Close, Skip, Crash
    <3> QED
      BY <3>1, <3>2, JobStepKeeps
  <2> QED
    BY <2>1, <2>2
<1>5. CASE Tick
  BY <1>5, TickKeeps
<1>6. CASE UNCHANGED vars
  <2>1. UNCHANGED <<gateVars, lookupVars, jobVars, chatVars>>
    BY <1>6 DEF vars
  <2>2. JobInv' /\ \A j \in Identities : Erased(j)' = Erased(j)
    BY <2>1, JobsStay DEF IInv, JobInv, jobVars
  <2> QED
    BY <2>1, <2>2, JobStepKeeps
<1> QED
  BY <1>1, <1>2, <1>3, <1>4, <1>5, <1>6 DEF Next

LEMMA Invariance == Spec => []IInv
BY InitHolds, StepKeeps, PTL DEF Spec

----------------------------------------------------------------------------
(* Types, continued: every step keeps the rounds and the times.            *)

TimesInv == RoundInv /\ Timely

LEMMA TimesOfClaim ==
  ASSUME Timely, NEW r \in Requests, Chat!Submit(r) \/ Chat!Retry(r)
  PROVE  Timely'
<1>1. Lease \in 0..Lease /\ RateWindow \in 0..RateWindow
  BY ChatConstants, DeletionAssumption DEF Chat!DurationAssumption
<1>2. CASE Chat!Submit(r)
  BY <1>1, <1>2 DEF Timely, Chat!Submit, Chat!result
<1>3. CASE Chat!ClaimFinalizes(r)
  BY <1>3 DEF Timely, Chat!ClaimFinalizes
<1>4. CASE Chat!ClaimExhausts(r)
  BY <1>4 DEF Timely, Chat!ClaimExhausts, Chat!result
<1>5. CASE Chat!ClaimRecovers(r)
  BY <1>1, <1>5 DEF Timely, Chat!ClaimRecovers, Chat!result
<1> QED
  BY <1>2, <1>3, <1>4, <1>5 DEF Chat!Retry

LEMMA TimesOfWorker ==
  ASSUME Timely, NEW r \in Requests, NEW a \in Chat!Attempts, Chat!WorkerStep(r, a)
  PROVE  Timely'
<1>1. CASE Chat!Mutate(r, a)
  <2>1. UNCHANGED <<lease, recent>>
    BY <1>1 DEF Chat!Mutate, Chat!rows
  <2>2. PICK changed \in {0, 1} : effects' = [effects EXCEPT ![r] = @ + changed]
    BY <1>1 DEF Chat!Mutate
  <2>3. effects[r] + changed \in Nat
    BY <2>2 DEF Timely
  <2> QED
    BY <2>1, <2>2, <2>3 DEF Timely
<1>2. CASE Chat!Yield(r, a)
  <2>1. 0 \in 0..Lease
    BY ChatConstants
  <2> QED
    BY <1>2, <2>1 DEF Timely, Chat!Yield, Chat!result
<1>3. CASE Chat!Finalize(r, a) \/ Chat!Fail(r, a)
  BY <1>3 DEF Timely, Chat!Finalize, Chat!Fail, Chat!result
<1>4. CASE \/ Chat!Start(r, a) \/ Chat!LoseLease(r, a) \/ Chat!Call(r, a) \/ Chat!TooLate(r, a)
           \/ Chat!GiveUp(r, a) \/ Chat!Respond(r, a) \/ Chat!Hang(r, a) \/ Chat!Settle(r, a)
           \/ Chat!Break(r, a) \/ Chat!ReadTool(r, a)
  <2>1. UNCHANGED <<lease, recent, effects>>
    BY <1>4 DEF Chat!Start, Chat!LoseLease, Chat!Call, Chat!TooLate, Chat!GiveUp, Chat!Respond, Chat!Hang,
                Chat!Settle, Chat!Break, Chat!ReadTool, Chat!rows, Chat!result
  <2> QED
    BY <2>1 DEF Timely
<1> QED
  BY <1>1, <1>2, <1>3, <1>4 DEF Chat!WorkerStep

\* Whatever a step of chat is, it is one of a claim, of a worker, or the end of a worker
\* whose identity is gone.
LEMMA ChatTimes ==
  ASSUME IInv, RowInv', TimesInv, NEW r \in Requests, ChatStep(r)
  PROVE  TimesInv'
<1>1. RowInv /\ CallInv /\ UNCHANGED gateVars
  BY DEF IInv, ChatStep
<1>2. ASSUME Open(UserOf[r]), Chat!Submit(r) \/ Chat!Retry(r) PROVE TimesInv'
  <2>1. ~Erased(UserOf[r])
    BY <1>2, ErasedClosed
  <2> QED
    BY <1>1, <1>2, <2>1, ClaimRounds, TimesOfClaim DEF TimesInv
<1>3. ASSUME NEW a \in Chat!Attempts, Chat!WorkerStep(r, a) PROVE TimesInv'
  BY <1>1, <1>3, WorkerRounds, TimesOfWorker DEF TimesInv
<1>4. ASSUME NEW a \in Chat!Attempts, Chat!Ends(r, a),
             UNCHANGED <<status, lease, attempts, recent, action, answers, effects, permits, calls>>
      PROVE  TimesInv'
  <2>1. Onwards
    BY <1>1, <1>4 DEF Onwards, RowInv, RoundInv, TimesInv
  <2>2. RoundInv'
    BY <1>1, <1>4, <2>1, RoundEnds DEF TimesInv
  <2> QED
    BY <1>4, <2>2 DEF Timely, TimesInv
<1>5. CASE Open(UserOf[r]) /\ Gated(r)
  BY <1>2, <1>3, <1>5 DEF Gated, Chat!WorkerStep
<1>6. CASE \E a \in Chat!Attempts : Chat!LoseLease(r, a)
  BY <1>3, <1>6 DEF Chat!WorkerStep
<1>7. CASE Ungated(r)
  BY <1>3, <1>7 DEF Ungated, Chat!WorkerStep
<1>8. CASE Fenced(r)
  BY <1>4, <1>8 DEF Fenced
<1> QED
  BY <1>5, <1>6, <1>7, <1>8 DEF ChatStep

\* The rows of the erased identity start over, but none of its messages is claimed again.
LEMMA EraseTimes ==
  ASSUME IInv, TimesInv, NEW w \in Recoverers, NEW i \in Identities, Erase(w, i)
  PROVE  TimesInv'
<1>1. /\ phase' = [phase EXCEPT ![i] = "auth_pending"] /\ UNCHANGED <<auth, worker, effects>>
      /\ status' = [r \in Requests |-> IF UserOf[r] = i THEN "none" ELSE status[r]]
      /\ lease' = [r \in Requests |-> IF UserOf[r] = i THEN 0 ELSE lease[r]]
      /\ attempts' = [r \in Requests |-> IF UserOf[r] = i THEN 0 ELSE attempts[r]]
      /\ recent' = [r \in Requests |-> IF UserOf[r] = i THEN 0 ELSE recent[r]]
  BY DEF Erase
<1>2. Erased(i)' /\ \A j \in Identities : Erased(j) => Erased(j)'
  BY <1>1 DEF Erased, IInv, JobInv
<1>3. \A r \in Requests : UserOf[r] \in Identities
  BY DeletionAssumption
<1>4. ASSUME NEW r \in Requests, NEW a \in Chat!Attempts, a > attempts'[r], ~Erased(UserOf[r])'
      PROVE  worker[r][a].round = 0
  <2>1. UserOf[r] # i /\ ~Erased(UserOf[r])
    BY <1>2, <1>3, <1>4
  <2>2. a > attempts[r]
    BY <1>1, <1>4, <2>1
  <2> QED
    BY <2>1, <2>2 DEF TimesInv, RoundInv
<1>5. RoundInv'
  BY <1>1, <1>4 DEF TimesInv, RoundInv
<1>6. 0 \in 0..Lease /\ 0 \in 0..RateWindow
  BY ChatConstants, DeletionAssumption DEF Chat!DurationAssumption
<1>7. Timely'
  BY <1>1, <1>6 DEF TimesInv, Timely
<1> QED
  BY <1>5, <1>7 DEF TimesInv

\* Steps that erase nobody and leave chat alone.
LEMMA TimesStay ==
  ASSUME TimesInv, \A i \in Identities : Erased(i)' = Erased(i), UNCHANGED chatVars
  PROVE  TimesInv'
<1>1. \A r \in Requests : UserOf[r] \in Identities
  BY DeletionAssumption
<1> QED
  BY <1>1 DEF TimesInv, RoundInv, Timely, chatVars

LEMMA TickTimes ==
  ASSUME TimesInv, Tick
  PROVE  TimesInv'
<1>1. /\ lease' = [r \in Requests |-> Chat!Down(lease[r])]
      /\ recent' = [r \in Requests |-> Chat!Down(recent[r])]
      /\ UNCHANGED <<status, attempts, worker, effects>> /\ UNCHANGED gateVars
  BY DEF Tick, Chat!Tick, Chat!result
<1>2. \A limit \in Nat : \A n \in 0..limit : Chat!Down(n) \in 0..limit
  BY DEF Chat!Down
<1>3. Lease \in Nat /\ RateWindow \in Nat
  BY ChatConstants, DeletionAssumption DEF Chat!DurationAssumption
<1>4. Timely'
  BY <1>1, <1>2, <1>3 DEF TimesInv, Timely
<1>5. RoundInv'
  BY <1>1 DEF TimesInv, RoundInv, Erased, gateVars
<1> QED
  BY <1>4, <1>5 DEF TimesInv

LEMMA TimesInit == Init => TimesInv
<1> SUFFICES ASSUME Init PROVE TimesInv
  OBVIOUS
<1>1. Chat!Init
  BY DEF Init
<1>2. \A r \in Requests, a \in Chat!Attempts : worker[r][a] = Chat!Nowhere("idle")
  BY <1>1 DEF Chat!Init
<1>3. Chat!Nowhere("idle").at = "idle" /\ Chat!Nowhere("idle").round = 0
  BY DEF Chat!Nowhere
<1>4. 0 \in 0..MaxRounds /\ 0 \in 0..Lease /\ 0 \in 0..RateWindow
  BY ChatConstants, DeletionAssumption DEF Chat!DurationAssumption
<1>5. RoundInv
  BY <1>1, <1>2, <1>3, <1>4 DEF RoundInv, Chat!Init
<1>6. Timely
  BY <1>1, <1>4 DEF Timely, Chat!Init
<1> QED
  BY <1>5, <1>6 DEF TimesInv

LEMMA TimesStep == IInv /\ IInv' /\ TimesInv /\ [Next]_vars => TimesInv'
<1> SUFFICES ASSUME IInv, IInv', TimesInv, [Next]_vars PROVE TimesInv'
  OBVIOUS
<1>1. ASSUME NEW l \in Lookups, Lookup(l), UNCHANGED <<jobVars, chatVars>> PROVE TimesInv'
  <2>1. UNCHANGED gateVars
    BY <1>1 DEF Lookup, Acquire, Ask, Answer, Abandon, Finish
  <2> QED
    BY <1>1, <2>1, TimesStay DEF Erased, gateVars
<1>2. ASSUME NEW r \in Requests, ChatStep(r) PROVE TimesInv'
  BY <1>2, ChatTimes DEF IInv
<1>3. ASSUME NEW i \in Identities, Confirm(i) \/ AuthDeletes(i) PROVE TimesInv'
  <2>1. \A j \in Identities : Erased(j)' = Erased(j)
    BY <1>3, ConfirmKeeps, AuthDeletesKeeps DEF IInv
  <2>2. UNCHANGED chatVars
    BY <1>3 DEF Confirm, AuthDeletes
  <2> QED
    BY <2>1, <2>2, TimesStay
<1>4. ASSUME NEW w \in Recoverers, Recover(w) PROVE TimesInv'
  <2>1. CASE \E i \in Identities : Erase(w, i)
    BY <2>1, EraseTimes
  <2>2. CASE \A i \in Identities : ~Erase(w, i)
    <3>1. \A j \in Identities : Erased(j)' = Erased(j)
      BY <1>4, <2>2, RecoverKeeps DEF IInv
    <3>2. UNCHANGED chatVars
      BY <1>4, <2>2 DEF Recover, Claim, Resume, Postpone, Look, Request, LoseRequest, Close, Skip, Crash
    <3> QED
      BY <3>1, <3>2, TimesStay
  <2> QED
    BY <2>1, <2>2
<1>5. CASE Tick
  BY <1>5, TickTimes
<1>6. CASE UNCHANGED vars
  <2>1. UNCHANGED gateVars /\ UNCHANGED chatVars
    BY <1>6 DEF vars
  <2> QED
    BY <2>1, TimesStay DEF Erased, gateVars
<1> QED
  BY <1>1, <1>2, <1>3, <1>4, <1>5, <1>6 DEF Next

(***************************************************************************)
(* The theorems.                                                           *)
(***************************************************************************)
\* Address lookups: the provider never works on more than the policy of
\* geocoding_capacity.py allows, nor on two of one identity.
THEOREM CapacityKept == Spec => []LookupsWithinCapacity
<1>1. IInv => LookupsWithinCapacity
  <2> SUFFICES ASSUME IInv PROVE LookupsWithinCapacity
    OBVIOUS
  <2>1. {l \in Lookups : provider[l] > 0} \subseteq Pending
    BY DEF Pending
  <2> QED
    BY <2>1, FewerPending DEF IInv, LookupsWithinCapacity
<1> QED
  BY <1>1, Invariance, PTL

\* Account deletion: cleanup erases only what no provider works on any more, and
\* none begins to afterwards.
THEOREM WorkDrained == Spec => []DrainedBeforeErased
<1>1. IInv => DrainedBeforeErased
  <2> SUFFICES ASSUME IInv, NEW i \in Identities, Erased(i)
               PROVE  /\ \A l \in Own(i) : provider[l] = 0
                      /\ \A c \in calls : UserOf[c.request] # i
    BY DEF DrainedBeforeErased
  <2>1. ASSUME NEW l \in Own(i) PROVE provider[l] = 0
    <3>1. l \in Lookups /\ attempt[l].permit = 0
      BY AbsentTyped DEF IInv, NothingReturns, Own
    <3>2. provider[l] <= 0 /\ provider[l] \in Nat
      BY <3>1, Durations DEF IInv, LookupInv
    <3> QED
      BY <3>2
  <2>2. ASSUME NEW c \in calls PROVE UserOf[c.request] # i
    <3>1. PICK p \in permits : p.request = c.request
      BY DEF IInv, CallInv
    <3> QED
      BY <3>1 DEF IInv, NothingReturns
  <2> QED
    BY <2>1, <2>2
<1> QED
  BY <1>1, Invariance, PTL

\* Account deletion: nothing that was erased is written again, by a worker caught in
\* the middle of a lookup or of a message, or by a later phase of any recovery loop.
THEOREM ErasedStays == Spec => []NothingReturns
<1>1. IInv => NothingReturns
  BY DEF IInv
<1> QED
  BY <1>1, Invariance, PTL

\* Account deletion: the columns of every table and the local variables of every
\* worker keep their ranges, through erasure and for workers left over by it.
THEOREM DeletionTypes == Spec => []TypeOK
<1>1. IInv /\ TimesInv => TypeOK
  <2> SUFFICES ASSUME IInv, TimesInv PROVE TypeOK
    OBVIOUS
  <2>1. LookupTypeOK
    BY DEF LookupTypeOK, IInv, LookupInv, JobInv, AttemptRow
  <2>2. worker \in [Requests -> [Chat!Attempts -> Chat!Worker]]
    <3>1. \A r \in Requests, a \in Chat!Attempts : worker[r][a] \in AnyWorker /\ worker[r][a].round \in 0..MaxRounds
      BY DEF IInv, CallInv, TimesInv, RoundInv
    <3>2. \A w \in AnyWorker : w.round \in 0..MaxRounds => w \in Chat!Worker
      BY DEF AnyWorker, Chat!Worker
    <3> QED
      BY <3>1, <3>2, Zenon DEF IInv, CallInv
  <2>3. Chat!TypeOK
    BY <2>2 DEF Chat!TypeOK, IInv, RowInv, CallInv, TimesInv, Timely
  <2>4. /\ due \in [Identities -> 0..RetryTime]
        /\ deletes \subseteq Identities
        /\ recoverer \in [Recoverers -> [at : {"idle", "erased", "asking", "closing"},
                                         jobs : SUBSET Identities, job : SUBSET Identities]]
    BY DEF IInv, JobInv
  <2> QED
    BY <2>1, <2>3, <2>4 DEF TypeOK
<1>2. Spec => []TimesInv
  <2>1. Init => IInv
    BY InitHolds
  <2> QED
    BY <2>1, Invariance, TimesInit, TimesStep, PTL DEF Spec
<1> QED
  BY <1>1, <1>2, Invariance, PTL
=============================================================================
