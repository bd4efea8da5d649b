----------------------- MODULE FamilyMembershipProofs -----------------------
(***************************************************************************)
(* Theorems about FamilyMembership: families keep an administrator, stand  *)
(* apart and never share a code; joiners stay bound to a family that       *)
(* exists and guess no more often than they may; a regenerated code admits *)
(* nobody; an erased identity keeps no row.  They hold for any number of   *)
(* identities, families, names, codes and places, any limits of time and   *)
(* any number of tries.                                                    *)
(***************************************************************************)
EXTENDS FamilyMembership, WellFoundedInduction, TLAPS, FiniteSetTheorems, SequenceTheorems

FamilyRow == [state : {"none", "live", "deleted"}, name : Names \union {Nil},
              code : Codes \union {Nil}, place : Places \union {Nil}, creator : Identities \union {Nil}]
JoinRow   == [step : Steps, name : Names \union {Nil}, family : Families \union {Nil},
              nameTries : 0..MaxTries, codeTries : 0..MaxTries, wait : 0..LockTime]
OfferRow  == [place : Places \union {Nil}, left : 0..OfferTime]
ProofRow  == [family : Families \union {Nil}, code : Codes \union {Nil}]

Shown == {"address_confirmed", "family_code", "user_name"}

(***************************************************************************)
(* The invariant.  A join session that is not locked has a try left, else  *)
(* its counters would outgrow their type; and who waits only for a name to *)
(* be typed has proved the code the family has now, not an earlier one.    *)
(***************************************************************************)
Sound(fam, s, p) ==
  /\ s \in JoinRow
  /\ s.step # "locked" => s.nameTries < MaxTries /\ s.codeTries < MaxTries
  /\ s.step \in Shown => /\ s.family \in Families
                         /\ fam[s.family].state = "live"
                         /\ fam[s.family].name = s.name
  /\ s.step = "user_name" => p = [family |-> s.family, code |-> fam[s.family].code]

Typed ==
  /\ gate \in [Identities -> {"open", "deleting", "erased"}]
  /\ member \in [Identities -> Families \union {Nil}]
  /\ family \in [Families -> FamilyRow]
  /\ history \subseteq Codes
  /\ session \in [Identities -> JoinRow]
  /\ offer \in [Identities -> [Purposes -> OfferRow]]
  /\ lookup \in [Identities -> Purposes \union {"none", "join"}]
  /\ proof \in [Identities -> ProofRow]

SessionsSound == \A i \in Identities : Sound(family, session[i], proof[i])

IInv ==
  /\ Typed /\ SessionsSound
  /\ Governed /\ FamiliesApart /\ CodesRecorded /\ ErasedLeavesNothing

LEMMA TypedOK == Typed => TypeOK
BY DEF Typed, TypeOK, FamilyRow, JoinRow, OfferRow, ProofRow

----------------------------------------------------------------------------
(* Sessions.                                                               *)

LEMMA BlankSound == \A r, p : Sound(r, NoJoin, p) /\ Sound(r, NewJoin, p)
<1>1. MaxTries \in Nat \ {0} /\ LockTime \in Nat
  BY MembershipAssumption
<1>2. PICK s : s = [NoJoin EXCEPT !.step = "family_name"]
  OBVIOUS
<1>3. NoJoin \in JoinRow /\ NoJoin.step = "none" /\ NoJoin.nameTries = 0 /\ NoJoin.codeTries = 0
  BY <1>1 DEF NoJoin, JoinRow, Steps
<1>4. s \in JoinRow /\ s.step = "family_name" /\ s.nameTries = 0 /\ s.codeTries = 0
  BY <1>2, <1>3 DEF JoinRow, Steps
<1>5. NewJoin = s
  BY <1>2 DEF NewJoin
<1> QED
  BY <1>1, <1>3, <1>4, <1>5 DEF Sound, Shown

LEMMA EnteredSound ==
  ASSUME SessionsSound, NEW i \in Identities
  PROVE  Sound(family, Entered(i), proof[i])
BY BlankSound DEF SessionsSound, Entered

LEMMA LockedOutSound ==
  ASSUME NEW r, NEW p, NEW t \in JoinRow
  PROVE  Sound(r, LockedOut(t), p)
<1>1. LockTime \in Nat
  BY MembershipAssumption
<1>2. PICK w : w = [t EXCEPT !.step = "locked", !.name = Nil, !.family = Nil, !.wait = LockTime]
  OBVIOUS
<1>3. w \in JoinRow /\ w.step = "locked"
  <2>1. LockTime \in 0..LockTime /\ "locked" \in Steps
    BY <1>1 DEF Steps
  <2>2. w = [[[[t EXCEPT !.step = "locked"] EXCEPT !.name = Nil] EXCEPT !.family = Nil] EXCEPT !.wait = LockTime]
    BY <1>2
  <2> HIDE DEF Steps
  <2> QED
    BY <2>1, <2>2 DEF JoinRow
<1> QED
  BY <1>2, <1>3 DEF LockedOut, Sound, Shown

LEMMA NameFailedSound ==
  ASSUME NEW r, NEW p, NEW s, Sound(r, s, p), s.step # "locked"
  PROVE  Sound(r, NameFailed(s), p)
<1>1. PICK t : t = [s EXCEPT !.nameTries = @ + 1]
  OBVIOUS
<1>2. MaxTries \in Nat /\ s \in JoinRow /\ s.nameTries \in Nat /\ s.nameTries < MaxTries
  BY MembershipAssumption DEF Sound, JoinRow
<1>3. PICK n \in 0..MaxTries : n = s.nameTries + 1
  BY <1>2
<1>4. /\ t \in JoinRow /\ t.step = s.step /\ t.name = s.name /\ t.family = s.family
      /\ t.nameTries = n /\ t.codeTries = s.codeTries
  <2>1. t = [s EXCEPT !.nameTries = n]
    BY <1>1, <1>3
  <2> QED
    BY <1>2, <2>1 DEF JoinRow
<1>5. NameFailed(s) = IF n >= MaxTries THEN LockedOut(t) ELSE t
  BY <1>1, <1>4, Zenon DEF NameFailed
<1>6. n < MaxTries => Sound(r, t, p)
  BY <1>4 DEF Sound
<1>7. n >= MaxTries \/ n < MaxTries
  BY <1>2
<1> QED
  BY <1>4, <1>5, <1>6, <1>7, LockedOutSound

LEMMA CodeFailedSound ==
  ASSUME NEW r, NEW p, NEW s, Sound(r, s, p), s.step # "locked"
  PROVE  Sound(r, CodeFailed(s), p)
<1>1. PICK t : t = [s EXCEPT !.codeTries = @ + 1]
  OBVIOUS
<1>2. MaxTries \in Nat /\ s \in JoinRow /\ s.codeTries \in Nat /\ s.codeTries < MaxTries
  BY MembershipAssumption DEF Sound, JoinRow
<1>3. PICK n \in 0..MaxTries : n = s.codeTries + 1
  BY <1>2
<1>4. /\ t \in JoinRow /\ t.step = s.step /\ t.name = s.name /\ t.family = s.family
      /\ t.codeTries = n /\ t.nameTries = s.nameTries
  <2>1. t = [s EXCEPT !.codeTries = n]
    BY <1>1, <1>3
  <2> QED
    BY <1>2, <2>1 DEF JoinRow
<1>5. CodeFailed(s) = IF n >= MaxTries THEN LockedOut(t) ELSE t
  BY <1>1, <1>4, Zenon DEF CodeFailed
<1>6. n < MaxTries => Sound(r, t, p)
  BY <1>4 DEF Sound
<1>7. n >= MaxTries \/ n < MaxTries
  BY <1>2
<1> QED
  BY <1>4, <1>5, <1>6, <1>7, LockedOutSound

\* A step of an admitted identity that only changes its own session.
LEMMA SessionStep ==
  ASSUME IInv, NEW i \in Identities, Admitted(i),
         NEW s, NEW p \in ProofRow, Sound(family, s, p),
         session' = [session EXCEPT ![i] = s], proof' = [proof EXCEPT ![i] = p],
         lookup' \in [Identities -> Purposes \union {"none", "join"}],
         UNCHANGED <<gate, member, family, history, offer>>
  PROVE  IInv'
<1>1. s \in JoinRow
  BY DEF Sound
<1>2. Typed'
  BY <1>1 DEF IInv, Typed
<1>3. \A j \in Identities : Sound(family, session'[j], proof'[j])
  BY DEF IInv, Typed, SessionsSound
<1>4. SessionsSound'
  BY <1>3 DEF SessionsSound
<1>5. Governed' /\ FamiliesApart' /\ CodesRecorded'
  BY DEF IInv, Governed, FamiliesApart, CodesRecorded, Live
<1>6. ErasedLeavesNothing'
  BY DEF IInv, Typed, ErasedLeavesNothing, Admitted
<1> QED
  BY <1>2, <1>4, <1>5, <1>6 DEF IInv

LEMMA JoinKeeps ==
  ASSUME IInv, NEW i \in Identities, Join(i), ~CompleteJoin(i)
  PROVE  IInv'
<1>1. /\ Sound(family, session[i], proof[i]) /\ Sound(family, Entered(i), proof[i])
      /\ proof[i] \in ProofRow /\ proof = [proof EXCEPT ![i] = proof[i]]
      /\ session = [session EXCEPT ![i] = session[i]]
      /\ lookup \in [Identities -> Purposes \union {"none", "join"}]
  BY EnteredSound DEF IInv, Typed, SessionsSound
<1>2. \A steps : MayEnter(i, steps) =>
        /\ Admitted(i) /\ Entered(i).step \in steps
        /\ Entered(i).step # "family_name" => Entered(i) = session[i]
  <2>1. NewJoin.step = "family_name"
    BY DEF NewJoin, NoJoin
  <2> QED
    BY <2>1 DEF MayEnter, Entered
<1>3. CASE StartJoin(i)
  BY <1>1, <1>2, <1>3, SessionStep DEF StartJoin
<1>4. ASSUME NEW n \in Names \union {Nil}, SubmitName(i, n) PROVE IInv'
  <2>1. Admitted(i) /\ Entered(i).step # "locked"
    BY <1>2, <1>4 DEF SubmitName
  <2>2. CASE \E f \in Live : family[f].name = n
    <3>1. PICK w : w = [Entered(i) EXCEPT !.step = "address", !.name = n, !.family = Nil]
      OBVIOUS
    <3>2. Entered(i) \in JoinRow
      BY <1>1 DEF Sound
    <3>3. /\ w \in JoinRow /\ w.step = "address"
          /\ w.nameTries = Entered(i).nameTries /\ w.codeTries = Entered(i).codeTries
      BY <3>1, <3>2 DEF JoinRow, Steps
    <3>4. Sound(family, w, proof[i])
      BY <1>1, <2>1, <3>3 DEF Sound, Shown
    <3>5. session' = [session EXCEPT ![i] = w] /\ proof' = proof /\ lookup' = lookup
          /\ UNCHANGED <<gate, member, family, history, offer>>
      BY <1>4, <2>2, <3>1 DEF SubmitName
    <3> QED
      BY <1>1, <2>1, <3>4, <3>5, SessionStep
  <2>3. CASE ~\E f \in Live : family[f].name = n
    <3>1. Sound(family, NameFailed(Entered(i)), proof[i])
      BY <1>1, <2>1, NameFailedSound
    <3>2. session' = [session EXCEPT ![i] = NameFailed(Entered(i))] /\ proof' = proof /\ lookup' = lookup
          /\ UNCHANGED <<gate, member, family, history, offer>>
      BY <1>4, <2>3 DEF SubmitName
    <3> QED
      BY <1>1, <2>1, <3>1, <3>2, SessionStep
  <2> QED
    BY <2>2, <2>3
<1>5. CASE LocateJoin(i)
  <2>1. /\ Admitted(i) /\ session' = session /\ proof' = proof
        /\ lookup' \in [Identities -> Purposes \union {"none", "join"}]
        /\ UNCHANGED <<gate, member, family, history, offer>>
    BY <1>1, <1>2, <1>5 DEF LocateJoin, rows
  <2> QED
    BY <1>1, <2>1, SessionStep
<1>6. ASSUME NEW p \in Places, NEW f \in Families, SubmitAddress(i, p, f) PROVE IInv'
  <2>1. Admitted(i) /\ session[i].step \in {"address", "address_confirmed", "family_code"}
    BY <1>2, <1>6 DEF SubmitAddress, LocatingSteps
  <2>2. PICK w : w = [[session[i] EXCEPT !.step = "address_confirmed"] EXCEPT !.family = f]
    OBVIOUS
  <2>3. session[i] \in JoinRow
    BY <1>1 DEF Sound
  <2>4. /\ w \in JoinRow /\ w.step = "address_confirmed" /\ w.family = f /\ w.name = session[i].name
        /\ w.nameTries = session[i].nameTries /\ w.codeTries = session[i].codeTries
    BY <2>2, <2>3 DEF JoinRow, Steps
  <2>5. Sound(family, w, proof[i])
    BY <1>1, <1>6, <2>1, <2>4 DEF Sound, Shown, SubmitAddress, Live
  <2>6. /\ session' = [session EXCEPT ![i] = w] /\ proof' = proof
        /\ lookup' \in [Identities -> Purposes \union {"none", "join"}]
        /\ UNCHANGED <<gate, member, family, history, offer>>
    BY <1>1, <1>6, <2>2 DEF SubmitAddress
  <2> QED
    BY <1>1, <2>1, <2>5, <2>6, SessionStep
<1>7. CASE ConfirmAddress(i)
  <2>1. Admitted(i) /\ session[i].step = "address_confirmed"
    BY <1>2, <1>7 DEF ConfirmAddress
  <2>2. PICK w : w = [session[i] EXCEPT !.step = "family_code"]
    OBVIOUS
  <2>3. session[i] \in JoinRow
    BY <1>1 DEF Sound
  <2>4. /\ w \in JoinRow /\ w.step = "family_code" /\ w.family = session[i].family /\ w.name = session[i].name
        /\ w.nameTries = session[i].nameTries /\ w.codeTries = session[i].codeTries
    BY <2>2, <2>3 DEF JoinRow, Steps
  <2>5. Sound(family, w, proof[i])
    BY <1>1, <2>1, <2>4 DEF Sound, Shown
  <2>6. session' = [session EXCEPT ![i] = w] /\ proof' = proof /\ lookup' = lookup
        /\ UNCHANGED <<gate, member, family, history, offer>>
    BY <1>7, <2>2 DEF ConfirmAddress
  <2> QED
    BY <1>1, <2>1, <2>5, <2>6, SessionStep
<1>8. CASE RejectAddress(i)
  <2>1. Admitted(i) /\ session[i].step # "locked"
    BY <1>2, <1>8 DEF RejectAddress, LocatingSteps
  <2>2. PICK w : w = [[session[i] EXCEPT !.step = "address"] EXCEPT !.family = Nil]
    OBVIOUS
  <2>3. session[i] \in JoinRow
    BY <1>1 DEF Sound
  <2>4. /\ w \in JoinRow /\ w.step = "address"
        /\ w.nameTries = session[i].nameTries /\ w.codeTries = session[i].codeTries
    BY <2>2, <2>3 DEF JoinRow, Steps
  <2>5. Sound(family, w, proof[i])
    BY <1>1, <2>1, <2>4 DEF Sound, Shown
  <2>6. session' = [session EXCEPT ![i] = w] /\ proof' = proof /\ lookup' = lookup
        /\ UNCHANGED <<gate, member, family, history, offer>>
    BY <1>8, <2>2 DEF RejectAddress
  <2> QED
    BY <1>1, <2>1, <2>5, <2>6, SessionStep
<1>9. ASSUME NEW c \in Codes, RightCode(i, c) PROVE IInv'
  <2>1. Admitted(i) /\ session[i].step = "family_code"
    BY <1>2, <1>9 DEF RightCode
  <2>2. PICK w : w = [session[i] EXCEPT !.step = "user_name"]
    OBVIOUS
  <2>3. session[i] \in JoinRow
    BY <1>1 DEF Sound
  <2>4. /\ w \in JoinRow /\ w.step = "user_name" /\ w.family = session[i].family /\ w.name = session[i].name
        /\ w.nameTries = session[i].nameTries /\ w.codeTries = session[i].codeTries
    BY <2>2, <2>3 DEF JoinRow, Steps
  <2>5. PICK q \in ProofRow : q = [family |-> session[i].family, code |-> c]
    BY <2>3 DEF ProofRow, JoinRow
  <2>6. Sound(family, w, q)
    BY <1>1, <1>9, <2>1, <2>4, <2>5 DEF Sound, Shown, RightCode
  <2>7. /\ session' = [session EXCEPT ![i] = w] /\ proof' = [proof EXCEPT ![i] = q] /\ lookup' = lookup
        /\ UNCHANGED <<gate, member, family, history, offer>>
    BY <1>9, <2>2, <2>5 DEF RightCode
  <2> QED
    BY <1>1, <2>1, <2>6, <2>7, SessionStep
<1>10. CASE WrongCode(i)
  <2>1. Admitted(i) /\ session[i].step = "family_code"
    BY <1>2, <1>10 DEF WrongCode
  <2>2. Sound(family, CodeFailed(session[i]), proof[i])
    BY <1>1, <2>1, CodeFailedSound
  <2> QED
    BY <1>1, <1>10, <2>1, <2>2, SessionStep DEF WrongCode
<1> QED
  BY <1>3, <1>4, <1>5, <1>6, <1>7, <1>8, <1>9, <1>10 DEF Join

LEMMA CompleteJoinKeeps ==
  ASSUME IInv, NEW i \in Identities, CompleteJoin(i)
  PROVE  IInv'
<1>1. NewJoin.step = "family_name" /\ NoJoin \in JoinRow /\ NoProof \in ProofRow
  BY BlankSound DEF NewJoin, NoJoin, NoProof, ProofRow, Sound
<1>2. Admitted(i) /\ session[i].family \in Live
  BY DEF CompleteJoin, MayEnter
<1>3. Typed'
  BY <1>1, <1>2 DEF IInv, Typed, CompleteJoin, Live
<1>4. \A j \in Identities : Sound(family', session'[j], proof'[j])
  BY BlankSound DEF IInv, Typed, SessionsSound, CompleteJoin
<1>5. SessionsSound'
  BY <1>4 DEF SessionsSound
<1>6. Governed'
  <2>1. member[i] = Nil /\ Nil \notin Families
    BY MembershipAssumption DEF CompleteJoin, MayEnter
  <2> QED
    BY <1>2, <2>1 DEF IInv, Typed, Governed, Live, CompleteJoin
<1>7. FamiliesApart' /\ CodesRecorded'
  BY DEF IInv, FamiliesApart, CodesRecorded, Live, CompleteJoin
<1>8. ErasedLeavesNothing'
  BY <1>2 DEF IInv, Typed, ErasedLeavesNothing, Admitted, CompleteJoin
<1> QED
  BY <1>3, <1>5, <1>6, <1>7, <1>8 DEF IInv

----------------------------------------------------------------------------
(* Families and addresses.                                                 *)

\* What is sound stays so while families keep their name, and their code where
\* it has been proved.
LEMMA SoundStays ==
  ASSUME NEW old, NEW new, NEW s, NEW p, Sound(old, s, p),
         s.step \in Shown => /\ new[s.family].state = old[s.family].state
                             /\ new[s.family].name = old[s.family].name,
         s.step = "user_name" => new[s.family].code = old[s.family].code
  PROVE  Sound(new, s, p)
BY DEF Sound

\* A step that only issues or forgets an address for one who is admitted.
LEMMA OfferStep ==
  ASSUME IInv, NEW i \in Identities, Admitted(i), NEW u \in Purposes, NEW o \in OfferRow,
         offer' = [offer EXCEPT ![i][u] = o],
         lookup' \in [Identities -> Purposes \union {"none", "join"}],
         UNCHANGED <<gate, member, family, history, session, proof>>
  PROVE  IInv'
<1>1. PICK w \in [Purposes -> OfferRow] : w = [offer[i] EXCEPT ![u] = o]
  BY DEF IInv, Typed
<1>2. offer' = [offer EXCEPT ![i] = w]
  BY <1>1
<1>3. Typed'
  BY <1>2 DEF IInv, Typed
<1>4. SessionsSound' /\ Governed' /\ FamiliesApart' /\ CodesRecorded'
  BY DEF IInv, SessionsSound, Governed, FamiliesApart, CodesRecorded, Live
<1>5. ErasedLeavesNothing'
  BY <1>2 DEF IInv, Typed, ErasedLeavesNothing, Admitted
<1> QED
  BY <1>3, <1>4, <1>5 DEF IInv

LEMMA LocateHomeKeeps ==
  ASSUME IInv, NEW i \in Identities, NEW u \in Purposes, LocateHome(i, u)
  PROVE  IInv'
<1>1. /\ lookup' \in [Identities -> Purposes \union {"none", "join"}]
      /\ UNCHANGED <<gate, member, family, history, session, offer, proof>> /\ Admitted(i)
  BY DEF IInv, Typed, LocateHome, MayLocate, rows
<1>2. offer[i][u] \in OfferRow /\ offer = [offer EXCEPT ![i][u] = offer[i][u]]
  BY DEF IInv, Typed
<1> QED
  BY <1>1, <1>2, OfferStep

LEMMA OfferHomeKeeps ==
  ASSUME IInv, NEW i \in Identities, NEW p \in Places, OfferHome(i, p)
  PROVE  IInv'
<1>1. PICK u \in Purposes : u = lookup[i]
  BY DEF OfferHome
<1>2. PICK o : o = [place |-> p, left |-> OfferTime]
  OBVIOUS
<1>3. o \in OfferRow
  BY <1>2, MembershipAssumption DEF OfferRow
<1>4. /\ Admitted(i) /\ offer' = [offer EXCEPT ![i][u] = o]
      /\ lookup' \in [Identities -> Purposes \union {"none", "join"}]
      /\ UNCHANGED <<gate, member, family, history, session, proof>>
  BY <1>1, <1>2 DEF OfferHome, MayLocate, IInv, Typed
<1> QED
  BY <1>3, <1>4, OfferStep

LEMMA NoOfferTyped == NoOffer \in OfferRow
BY MembershipAssumption DEF NoOffer, OfferRow

LEMMA CreateFamilyKeeps ==
  ASSUME IInv, NEW i \in Identities, NEW f \in Families, NEW n \in Names, NEW c \in Codes,
         CreateFamily(i, f, n, c)
  PROVE  IInv'
<1> DEFINE home == offer[i]["create_family"]
<1>1. PICK row : row = [state |-> "live", name |-> n, code |-> c, place |-> home.place, creator |-> i]
  OBVIOUS
<1>2. /\ family' = [family EXCEPT ![f] = row] /\ family[f].state = "none"
      /\ member' = [member EXCEPT ![i] = f] /\ member[i] = Nil /\ Nil \notin Families
      /\ history' = history \union {c} /\ Admitted(i) /\ ~Occupied(home.place, Nil)
      /\ c \notin {family[g].code : g \in Live}
      /\ UNCHANGED <<gate, session, lookup, proof>>
  BY <1>1, MembershipAssumption DEF CreateFamily, Allocatable
<1>3. offer[i] \in [Purposes -> OfferRow] /\ home \in OfferRow
  BY DEF IInv, Typed, Purposes
<1>4. PICK w \in [Purposes -> OfferRow] : w = [offer[i] EXCEPT !["create_family"] = NoOffer]
  BY <1>3, NoOfferTyped
<1>5. offer' = [offer EXCEPT ![i] = w]
  BY <1>4 DEF CreateFamily
<1> HIDE DEF home
<1>6. row \in FamilyRow
  BY <1>1, <1>3 DEF FamilyRow, OfferRow
<1>7. Typed'
  BY <1>2, <1>5, <1>6 DEF IInv, Typed
<1>8. Live' = Live \union {f} /\ f \notin Live /\ \A g \in Live : family'[g] = family[g]
  <2>1. row.state = "live"
    BY <1>1
  <2> QED
    BY <1>2, <2>1 DEF IInv, Typed, Live
<1>9. SessionsSound'
  <2>1. ASSUME NEW j \in Identities PROVE Sound(family', session[j], proof[j])
    <3>1. Sound(family, session[j], proof[j])
      BY DEF IInv, SessionsSound
    <3>2. session[j].step \in Shown => session[j].family \in Live
      BY <3>1 DEF Sound, Live
    <3> QED
      BY <1>8, <3>1, <3>2, SoundStays DEF Shown
  <2> QED
    BY <1>2, <2>1 DEF SessionsSound
<1>10. family'[f].creator = i /\ family'[f].code = c /\ family'[f].place = home.place
  BY <1>1, <1>2 DEF IInv, Typed
<1>11. Governed'
  <2>1. \A g \in Live : family[g].creator \in Identities \ {i}
    BY <1>2 DEF IInv, Governed, Live
  <2> QED
    BY <1>2, <1>8, <1>10, <2>1 DEF IInv, Typed, Governed
<1>12. FamiliesApart'
  <2>1. \A g \in Live : <<family[g].place, home.place>> \notin Near
    BY <1>2 DEF Occupied, Live
  <2>2. \A g \in Live : <<home.place, family[g].place>> \notin Near
    BY <2>1, MembershipAssumption
  <2> QED
    BY <1>8, <1>10, <2>1, <2>2 DEF IInv, FamiliesApart
<1>13. CodesRecorded'
  BY <1>2, <1>8, <1>10 DEF IInv, CodesRecorded
<1>14. ErasedLeavesNothing'
  BY <1>2, <1>5 DEF IInv, Typed, ErasedLeavesNothing, Admitted
<1> QED
  BY <1>7, <1>9, <1>11, <1>12, <1>13, <1>14 DEF IInv

\* Families that only change in place, code or creator, with nobody leaving.
LEMMA MoveFamilyKeeps ==
  ASSUME IInv, NEW i \in Identities, MoveFamily(i)
  PROVE  IInv'
<1> DEFINE home == offer[i]["family_address_update"]
           f == member[i]
<1>1. f \in Live /\ f \in Families /\ Admitted(i) /\ ~Occupied(home.place, f)
  BY DEF MoveFamily, Governs, Live
<1>2. PICK row : row = [family[f] EXCEPT !.place = home.place]
  OBVIOUS
<1>3. offer[i] \in [Purposes -> OfferRow] /\ home \in OfferRow /\ family[f] \in FamilyRow
  BY <1>1 DEF IInv, Typed, Purposes
<1>4. PICK w \in [Purposes -> OfferRow] : w = [offer[i] EXCEPT !["family_address_update"] = NoOffer]
  BY <1>3, NoOfferTyped
<1>5. offer' = [offer EXCEPT ![i] = w] /\ family' = [family EXCEPT ![f] = row]
      /\ UNCHANGED <<gate, member, history, session, lookup, proof>>
  BY <1>2, <1>4 DEF MoveFamily
<1> HIDE DEF home, f
<1>6. /\ row \in FamilyRow /\ row.state = family[f].state /\ row.name = family[f].name
      /\ row.code = family[f].code /\ row.creator = family[f].creator /\ row.place = home.place
  BY <1>2, <1>3 DEF FamilyRow, OfferRow
<1>7. Typed'
  BY <1>5, <1>6 DEF IInv, Typed
<1>8. /\ Live' = Live
      /\ \A g \in Families : /\ g # f => family'[g] = family[g]
                             /\ family'[g].state = family[g].state /\ family'[g].name = family[g].name
                             /\ family'[g].code = family[g].code /\ family'[g].creator = family[g].creator
      /\ family'[f].place = home.place
  BY <1>1, <1>5, <1>6 DEF IInv, Typed, Live
<1>9. SessionsSound'
  <2>1. ASSUME NEW j \in Identities PROVE Sound(family', session[j], proof[j])
    <3>1. Sound(family, session[j], proof[j])
      BY DEF IInv, SessionsSound
    <3>2. session[j].step \in Shown => session[j].family \in Families
      BY <3>1 DEF Sound
    <3> QED
      BY <1>8, <3>1, <3>2, SoundStays DEF Shown
  <2> QED
    BY <1>5, <2>1 DEF SessionsSound
<1>10. Governed' /\ CodesRecorded'
  BY <1>5, <1>8 DEF IInv, Governed, CodesRecorded, Live
<1>11. FamiliesApart'
  <2>1. \A g \in Live \ {f} : <<family[g].place, home.place>> \notin Near
    BY <1>1 DEF Occupied
  <2>2. \A g \in Live \ {f} : <<home.place, family[g].place>> \notin Near
    BY <2>1, MembershipAssumption
  <2> QED
    BY <1>1, <1>8, <2>1, <2>2 DEF IInv, FamiliesApart, Live
<1>12. ErasedLeavesNothing'
  BY <1>1, <1>5 DEF IInv, Typed, ErasedLeavesNothing, Admitted
<1> QED
  BY <1>7, <1>9, <1>10, <1>11, <1>12 DEF IInv

LEMMA RegenerateCodeKeeps ==
  ASSUME IInv, NEW i \in Identities, NEW c \in Codes, RegenerateCode(i, c)
  PROVE  IInv'
<1> DEFINE f == member[i]
<1>1. f \in Live /\ f \in Families /\ Admitted(i)
      /\ c \notin {family[g].code : g \in Live}
  BY DEF RegenerateCode, Governs, Live, Allocatable
<1>2. PICK row : row = [family[f] EXCEPT !.code = c]
  OBVIOUS
<1>3. family[f] \in FamilyRow
  BY <1>1 DEF IInv, Typed
<1>4. /\ family' = [family EXCEPT ![f] = row] /\ history' = history \union {c} /\ session' = Unverified(f)
      /\ UNCHANGED <<gate, member, offer, lookup, proof>>
  BY <1>2 DEF RegenerateCode
<1> HIDE DEF f
<1>5. /\ row \in FamilyRow /\ row.state = family[f].state /\ row.name = family[f].name
      /\ row.code = c /\ row.creator = family[f].creator /\ row.place = family[f].place
  BY <1>2, <1>3 DEF FamilyRow
<1>6. /\ Live' = Live
      /\ \A g \in Families : /\ g # f => family'[g] = family[g]
                             /\ family'[g].state = family[g].state /\ family'[g].name = family[g].name
                             /\ family'[g].place = family[g].place /\ family'[g].creator = family[g].creator
      /\ family'[f].code = c
  BY <1>1, <1>4, <1>5 DEF IInv, Typed, Live
<1>7. \A j \in Identities : session'[j] =
        IF session[j].family = f /\ session[j].step = "user_name"
        THEN [session[j] EXCEPT !.step = "family_code"] ELSE session[j]
  BY <1>4 DEF Unverified
<1>8. ASSUME NEW j \in Identities PROVE Sound(family', session'[j], proof'[j])
  <2>1. Sound(family, session[j], proof[j])
    BY DEF IInv, SessionsSound
  <2>2. session[j] \in JoinRow /\ (session[j].step \in Shown => session[j].family \in Families)
    BY <2>1 DEF Sound
  <2>3. CASE session[j].family = f /\ session[j].step = "user_name"
    <3>1. PICK w : w = [session[j] EXCEPT !.step = "family_code"]
      OBVIOUS
    <3>2. /\ w \in JoinRow /\ w.step = "family_code" /\ w.family = f /\ w.name = session[j].name
          /\ w.nameTries = session[j].nameTries /\ w.codeTries = session[j].codeTries
      BY <2>2, <2>3, <3>1 DEF JoinRow, Steps
    <3>3. Sound(family', w, proof'[j])
      BY <1>1, <1>6, <2>1, <2>3, <3>2 DEF Sound, Shown
    <3> QED
      BY <1>7, <2>3, <3>1, <3>3
  <2>4. CASE ~(session[j].family = f /\ session[j].step = "user_name")
    <3>1. Sound(family', session[j], proof[j])
      BY <1>6, <2>1, <2>2, <2>4, SoundStays DEF Shown
    <3> QED
      BY <1>4, <1>7, <2>4, <3>1
  <2> QED
    BY <2>3, <2>4
<1>9. SessionsSound'
  BY <1>8 DEF SessionsSound
<1>10. Typed'
  <2>1. session' \in [Identities -> JoinRow]
    <3>1. \A j \in Identities : session'[j] \in JoinRow
      BY <1>8 DEF Sound
    <3> QED
      BY <1>4, <3>1 DEF Unverified
  <2> QED
    BY <1>4, <1>5, <2>1 DEF IInv, Typed
<1>11. Governed'
  BY <1>4, <1>6 DEF IInv, Governed, Live
<1>12. FamiliesApart'
  BY <1>6 DEF IInv, FamiliesApart, Live
<1>13. CodesRecorded'
  BY <1>1, <1>4, <1>6 DEF IInv, CodesRecorded, Live
<1>14. ErasedLeavesNothing'
  <2>1. NoJoin.step = "none"
    BY DEF NoJoin
  <2> QED
    BY <1>4, <1>7, <2>1 DEF IInv, ErasedLeavesNothing
<1> QED
  BY <1>9, <1>10, <1>11, <1>12, <1>13, <1>14 DEF IInv

----------------------------------------------------------------------------
(* Leaving, and time.                                                      *)

LEMMA ConfirmDeletionKeeps ==
  ASSUME IInv, NEW i \in Identities, ConfirmDeletion(i)
  PROVE  IInv'
<1>1. gate' = [gate EXCEPT ![i] = "deleting"] /\ gate \in [Identities -> {"open", "deleting", "erased"}]
      /\ UNCHANGED <<member, family, history, session, offer, lookup, proof>>
  BY DEF ConfirmDeletion, IInv, Typed
<1>2. Typed' /\ SessionsSound' /\ Governed' /\ FamiliesApart' /\ CodesRecorded'
  BY <1>1 DEF IInv, Typed, SessionsSound, Governed, FamiliesApart, CodesRecorded, Live
<1>3. ErasedLeavesNothing'
  BY <1>1 DEF IInv, ErasedLeavesNothing
<1> QED
  BY <1>2, <1>3 DEF IInv

\* What the families look like without i.
LEMMA FamiliesWithout ==
  ASSUME IInv, NEW i \in Identities, NEW successor \in Identities \union {Nil}, EraseMember(i, successor)
  PROVE  /\ family' \in [Families -> FamilyRow]
         /\ Live' \subseteq Live
         /\ \A g \in Live' : /\ family'[g].name = family[g].name
                             /\ family'[g].code = family[g].code
                             /\ family'[g].place = family[g].place
                             /\ family'[g].creator \in Members(g) \ {i}
         /\ \A j \in Identities \ {i} : member[j] # Nil => member[j] \in Live'
         /\ \A j \in Identities \ SessionsEnded(i) :
              session[j].family \in Live => session[j].family \in Live'
<1> DEFINE f == member[i]
<1>1. family' = FamilyWithout(i, successor) /\ family \in [Families -> FamilyRow] /\ f \in Families \union {Nil}
      /\ Nil \notin Families
  BY MembershipAssumption DEF EraseMember, IInv, Typed
<1>2. /\ \A g \in Live : family[g].creator \in Members(g) /\ g \in Families
      /\ \A j \in Identities : member[j] # Nil => member[j] \in Live
  BY DEF IInv, Governed, Members, Live
<1>3. \A g \in Live : g # f => family[g].creator # i
  BY <1>2 DEF Members
<1>4. CASE f \notin Live
  <2>1. family' = family /\ Live' = Live
    BY <1>1, <1>4 DEF FamilyWithout, Live
  <2> QED
    BY <1>1, <1>2, <1>3, <1>4, <2>1
<1>5. CASE f \in Live /\ Members(f) = {i}
  <2>1. PICK row : row = [Blank EXCEPT !.state = "deleted"]
    OBVIOUS
  <2>2. row \in FamilyRow /\ row.state = "deleted"
    <3>1. Blank \in FamilyRow
      BY DEF Blank, FamilyRow
    <3> QED
      BY <2>1, <3>1 DEF FamilyRow
  <2>3. family' = [family EXCEPT ![f] = row]
    BY <1>1, <1>5, <2>1 DEF FamilyWithout
  <2>4. family' \in [Families -> FamilyRow] /\ Live' = Live \ {f} /\ \A g \in Live' : family'[g] = family[g]
    BY <1>1, <1>2, <1>5, <2>2, <2>3 DEF Live
  <2>5. \A j \in Identities \ {i} : member[j] # f
    BY <1>5 DEF Members
  <2>6. \A j \in Identities \ SessionsEnded(i) : session[j].family # f
    BY <1>5 DEF SessionsEnded
  <2>7. \A g \in Live' : family'[g].creator \in Members(g) \ {i}
    BY <1>2, <1>3, <2>4
  <2> QED
    BY <1>2, <2>4, <2>5, <2>6, <2>7
<1>6. CASE f \in Live /\ Members(f) # {i} /\ family[f].creator # i
  <2>1. family' = family /\ Live' = Live
    BY <1>1, <1>6 DEF FamilyWithout, Live
  <2> QED
    BY <1>1, <1>2, <1>3, <1>6, <2>1
<1>7. CASE f \in Live /\ Members(f) # {i} /\ family[f].creator = i
  <2>1. successor \in Members(f) \ {i} /\ successor \in Identities
    BY <1>1, <1>2, <1>7 DEF EraseMember, Members
  <2>2. PICK row : row = [family[f] EXCEPT !.creator = successor]
    OBVIOUS
  <2>3. family' = [family EXCEPT ![f] = row]
    BY <1>1, <1>7, <2>2 DEF FamilyWithout
  <2>4. family[f] \in FamilyRow
    BY <1>1, <1>2, <1>7
  <2>5. /\ row \in FamilyRow /\ row.state = family[f].state /\ row.name = family[f].name
        /\ row.code = family[f].code /\ row.place = family[f].place /\ row.creator = successor
    BY <2>1, <2>2, <2>4 DEF FamilyRow
  <2>6. /\ family' \in [Families -> FamilyRow] /\ Live' = Live
        /\ family'[f] = row /\ \A g \in Live : g # f => family'[g] = family[g]
    BY <1>1, <1>2, <1>7, <2>3, <2>5 DEF Live
  <2>7. \A g \in Live : /\ family'[g].name = family[g].name
                        /\ family'[g].code = family[g].code
                        /\ family'[g].place = family[g].place
                        /\ family'[g].creator \in Members(g) \ {i}
    <3> HIDE DEF f
    <3>1. ASSUME NEW g \in Live, g = f
          PROVE  /\ family'[g].name = family[g].name
                 /\ family'[g].code = family[g].code
                 /\ family'[g].place = family[g].place
                 /\ family'[g].creator \in Members(g) \ {i}
      BY <2>1, <2>5, <2>6, <3>1
    <3>2. ASSUME NEW g \in Live, g # f
          PROVE  family'[g] = family[g] /\ family[g].creator \in Members(g) \ {i}
      BY <1>2, <1>3, <2>6, <3>2
    <3> QED
      BY <3>1, <3>2
  <2> QED
    BY <1>2, <2>6, <2>7
<1> QED
  BY <1>4, <1>5, <1>6, <1>7

LEMMA EraseMemberKeeps ==
  ASSUME IInv, NEW i \in Identities, NEW successor \in Identities \union {Nil}, EraseMember(i, successor)
  PROVE  IInv'
<1>1. /\ gate' = [gate EXCEPT ![i] = "erased"]
      /\ member' = [member EXCEPT ![i] = Nil]
      /\ session' = [j \in Identities |-> IF j \in SessionsEnded(i) THEN NoJoin ELSE session[j]]
      /\ proof' = [proof EXCEPT ![i] = NoProof]
      /\ offer' = [offer EXCEPT ![i] = [u \in Purposes |-> NoOffer]]
      /\ UNCHANGED <<history, lookup>> /\ i \in SessionsEnded(i)
  BY DEF EraseMember, SessionsEnded
<1>2. /\ family' \in [Families -> FamilyRow]
      /\ Live' \subseteq Live
      /\ \A g \in Live' : /\ family'[g].name = family[g].name
                          /\ family'[g].code = family[g].code
                          /\ family'[g].place = family[g].place
                          /\ family'[g].creator \in Members(g) \ {i}
      /\ \A j \in Identities \ {i} : member[j] # Nil => member[j] \in Live'
      /\ \A j \in Identities \ SessionsEnded(i) :
           session[j].family \in Live => session[j].family \in Live'
  BY FamiliesWithout
<1>3. Typed'
  <2>1. NoProof \in ProofRow /\ NoJoin \in JoinRow
    BY BlankSound DEF NoProof, ProofRow, Sound
  <2>2. [u \in Purposes |-> NoOffer] \in [Purposes -> OfferRow]
    BY NoOfferTyped
  <2>3. offer' \in [Identities -> [Purposes -> OfferRow]]
    BY <1>1, <2>2 DEF IInv, Typed
  <2> QED
    BY <1>1, <1>2, <2>1, <2>3 DEF IInv, Typed
<1>4. ASSUME NEW j \in Identities PROVE Sound(family', session'[j], proof'[j])
  <2>1. CASE j \in SessionsEnded(i)
    BY <1>1, <2>1, BlankSound
  <2>2. CASE j \notin SessionsEnded(i)
    <3>1. session'[j] = session[j] /\ proof'[j] = proof[j]
      BY <1>1, <2>2 DEF IInv, Typed
    <3>2. Sound(family, session[j], proof[j])
      BY DEF IInv, SessionsSound
    <3>3. session[j].step \in Shown => session[j].family \in Live
      BY <3>2 DEF Sound, Live
    <3>4. \A g \in Live' : family'[g].state = "live" /\ family[g].state = "live"
      BY <1>2 DEF Live
    <3>5. Sound(family', session[j], proof[j])
      BY <1>2, <2>2, <3>2, <3>3, <3>4, SoundStays DEF Shown
    <3> QED
      BY <3>1, <3>5
  <2> QED
    BY <2>1, <2>2
<1>5. SessionsSound'
  BY <1>4 DEF SessionsSound
<1>6. Governed'
  BY <1>1, <1>2 DEF IInv, Typed, Governed, Members
<1>7. FamiliesApart' /\ CodesRecorded'
  BY <1>1, <1>2 DEF IInv, FamiliesApart, CodesRecorded
<1>8. ErasedLeavesNothing'
  BY <1>1 DEF IInv, Typed, ErasedLeavesNothing
<1> QED
  BY <1>3, <1>5, <1>6, <1>7, <1>8 DEF IInv

LEMMA DownTyped ==
  ASSUME NEW limit \in Nat, NEW n \in 0..limit
  PROVE  Down(n) \in 0..limit
BY DEF Down

LEMMA TickKeeps ==
  ASSUME IInv, Tick
  PROVE  IInv'
<1>1. /\ session' = [i \in Identities |-> [session[i] EXCEPT !.wait = Down(@)]]
      /\ offer' = [i \in Identities |-> [u \in Purposes |-> Aged(offer[i][u])]]
      /\ UNCHANGED <<gate, member, family, history, lookup, proof>>
  BY DEF Tick
<1>2. ASSUME NEW i \in Identities
      PROVE  session'[i] \in JoinRow /\ Sound(family, session'[i], proof[i])
  <2>1. PICK t : t = Down(session[i].wait)
    OBVIOUS
  <2>2. session[i] \in JoinRow /\ session[i].wait \in 0..LockTime
    BY DEF IInv, Typed, JoinRow
  <2>3. t \in 0..LockTime
    BY <2>1, <2>2, DownTyped, MembershipAssumption
  <2>4. PICK w : w = [session[i] EXCEPT !.wait = t]
    OBVIOUS
  <2>5. /\ w \in JoinRow /\ w.step = session[i].step /\ w.family = session[i].family /\ w.name = session[i].name
        /\ w.nameTries = session[i].nameTries /\ w.codeTries = session[i].codeTries
    BY <2>2, <2>3, <2>4 DEF JoinRow
  <2>6. Sound(family, w, proof[i])
    BY <2>5 DEF IInv, SessionsSound, Sound
  <2>7. session'[i] = w
    BY <1>1, <2>1, <2>4
  <2> QED
    BY <2>5, <2>6, <2>7
<1>3. ASSUME NEW o \in OfferRow PROVE Aged(o) \in OfferRow
  <2>1. CASE o.left <= 1
    BY <2>1, NoOfferTyped DEF Aged
  <2>2. CASE ~(o.left <= 1)
    <3>1. PICK n \in 0..OfferTime : n = o.left - 1
      BY <2>2, MembershipAssumption DEF OfferRow
    <3>2. Aged(o) = [o EXCEPT !.left = n]
      BY <2>2, <3>1 DEF Aged
    <3> QED
      BY <3>2 DEF OfferRow
  <2> QED
    BY <2>1, <2>2
<1>4. Typed'
  <2>1. session' \in [Identities -> JoinRow]
    BY <1>1, <1>2
  <2>2. offer' \in [Identities -> [Purposes -> OfferRow]]
    BY <1>1, <1>3 DEF IInv, Typed
  <2> QED
    BY <1>1, <2>1, <2>2 DEF IInv, Typed
<1>5. SessionsSound'
  BY <1>1, <1>2 DEF SessionsSound
<1>6. Governed' /\ FamiliesApart' /\ CodesRecorded'
  BY <1>1 DEF IInv, Governed, FamiliesApart, CodesRecorded, Live
<1>7. ErasedLeavesNothing'
  <2>1. [NoJoin EXCEPT !.wait = Down(@)] = NoJoin
    BY DEF NoJoin, Down
  <2>2. Aged(NoOffer) = NoOffer
    BY DEF Aged, NoOffer
  <2> QED
    BY <1>1, <2>1, <2>2 DEF IInv, ErasedLeavesNothing
<1> QED
  BY <1>4, <1>5, <1>6, <1>7 DEF IInv

----------------------------------------------------------------------------
LEMMA InitHolds == Init => IInv
<1> SUFFICES ASSUME Init PROVE IInv
  OBVIOUS
<1>1. Typed
  <2>1. NoProof \in ProofRow /\ NoJoin \in JoinRow /\ Blank \in FamilyRow
    BY BlankSound DEF NoProof, ProofRow, Sound, Blank, FamilyRow
  <2> QED
    BY <2>1, NoOfferTyped DEF Init, Typed
<1>2. SessionsSound
  BY BlankSound DEF Init, SessionsSound
<1>3. Live = {}
  BY DEF Init, Live, Blank
<1>4. Governed /\ FamiliesApart /\ CodesRecorded /\ ErasedLeavesNothing
  BY <1>3 DEF Init, Governed, FamiliesApart, CodesRecorded, ErasedLeavesNothing
<1> QED
  BY <1>1, <1>2, <1>4 DEF IInv

LEMMA StepKeeps ==
  ASSUME IInv, [Next]_vars
  PROVE  IInv'
<1>1. ASSUME NEW i \in Identities, Join(i) PROVE IInv'
  BY <1>1, JoinKeeps, CompleteJoinKeeps
<1>2. ASSUME NEW i \in Identities, Govern(i) PROVE IInv'
  BY <1>2, LocateHomeKeeps, OfferHomeKeeps, CreateFamilyKeeps, MoveFamilyKeeps, RegenerateCodeKeeps DEF Govern
<1>3. ASSUME NEW i \in Identities, Leave(i) PROVE IInv'
  BY <1>3, ConfirmDeletionKeeps, EraseMemberKeeps DEF Leave
<1>4. CASE Tick
  BY <1>4, TickKeeps
<1>5. CASE UNCHANGED vars
  BY <1>5 DEF vars, IInv, Typed, SessionsSound, Governed, FamiliesApart, CodesRecorded, ErasedLeavesNothing, Live
<1> QED
  BY <1>1, <1>2, <1>3, <1>4, <1>5 DEF Next

LEMMA Invariance == Spec => []IInv
BY InitHolds, StepKeeps, PTL DEF Spec

----------------------------------------------------------------------------
(* The rate of wrong codes.  A session that is not locked has counted every *)
(* wrong code that is still remembered, and a locked one stays so at least *)
(* as long as the last of them is: with the lock they are forgotten.       *)

Ascending(w) == \A a, b \in 1..Len(w) : a <= b => w[a] <= w[b]

Counted(s, w) ==
  /\ w \in Seq(1..LockTime) /\ Ascending(w)
  /\ s.step = "none" => Len(w) = 0
  /\ s.step # "locked" => Len(w) <= s.codeTries
  /\ s.step = "locked" => /\ Len(w) <= MaxTries
                          /\ \A k \in 1..Len(w) : w[k] <= s.wait

Remembered ==
  /\ wrong \in [Identities -> Seq(1..LockTime)]
  /\ \A i \in Identities : Counted(session[i], wrong[i])

LEMMA RowIsSequence ==
  ASSUME NEW S, NEW n \in Nat, NEW f \in [1..n -> S]
  PROVE  f \in Seq(S) /\ Len(f) = n
OBVIOUS

\* A nonempty set of integers that is bounded above has a greatest element.
LEMMA GreatestElement ==
  ASSUME NEW T, T \subseteq Int, T # {}, NEW b \in Int, \A x \in T : x <= b
  PROVE  \E x \in T : \A y \in T : y <= x
<1> DEFINE R == OpToRel(<, Nat)
           D == {b - x : x \in T}
<1>1. IsWellFoundedOn(R, Nat) /\ D \subseteq Nat /\ D # {}
  <2>1. IsWellFoundedOn(R, Nat)
    BY NatLessThanWellFounded, Zenon
  <2>2. \A x \in T : b - x \in Nat
    OBVIOUS
  <2> HIDE DEF R
  <2> QED
    BY <2>1, <2>2
<1>2. \A x, y \in Nat : y < x => <<y, x>> \in R
  BY DEF OpToRel
<1> HIDE DEF R
<1>3. PICK d \in D : \A c \in D : <<c, d>> \notin R
  <2> HIDE DEF D
  <2> QED
    BY <1>1, WFMin, Zenon
<1>4. PICK x \in T : d = b - x
  OBVIOUS
<1>5. ASSUME NEW y \in T PROVE y <= x
  <2>1. b - y \in D /\ b - y \in Nat /\ b - x \in Nat
    OBVIOUS
  <2>2. ~(b - y < b - x)
    BY <1>2, <1>3, <1>4, <2>1
  <2> QED
    BY <2>2
<1> QED
  BY <1>5

\* In an ascending sequence the entries that are over come first.
LEMMA OverFirst ==
  ASSUME NEW w \in Seq(1..LockTime), Ascending(w)
  PROVE  \E m \in 0..Len(w) : {k \in 1..Len(w) : w[k] <= 1} = 1..m
<1> DEFINE P == {k \in 1..Len(w) : w[k] <= 1}
<1>1. LockTime \in Nat /\ Len(w) \in Nat /\ \A k \in 1..Len(w) : w[k] \in Int
  BY MembershipAssumption
<1>2. CASE P = {}
  BY <1>1, <1>2
<1>3. CASE P # {}
  <2>1. P \subseteq Int /\ \A k \in P : k <= Len(w)
    OBVIOUS
  <2>2. PICK m \in P : \A k \in P : k <= m
    <3>1. Len(w) \in Int
      BY <1>1
    <3> HIDE DEF P
    <3> QED
      BY <1>3, <2>1, <3>1, GreatestElement, Zenon
  <2>3. ASSUME NEW k \in 1..m PROVE k \in P
    <3>1. k \in 1..Len(w) /\ m \in 1..Len(w) /\ k <= m /\ w[m] <= 1
      BY <1>1
    <3>2. w[k] <= w[m]
      BY <3>1 DEF Ascending
    <3> QED
      BY <1>1, <3>1, <3>2
  <2> QED
    BY <1>1, <2>2, <2>3
<1> QED
  BY <1>2, <1>3

LEMMA UnexpiredIs ==
  ASSUME NEW w \in Seq(1..LockTime), Ascending(w)
  PROVE  \E m \in 0..Len(w) :
           /\ \A k \in (m + 1)..Len(w) : w[k] \in 2..LockTime
           /\ Unexpired(w) = [k \in 1..(Len(w) - m) |-> w[k + m] - 1]
<1>1. LockTime \in Nat /\ Len(w) \in Nat /\ DOMAIN w = 1..Len(w)
      /\ \A k \in 1..Len(w) : w[k] \in 1..LockTime
  BY MembershipAssumption
<1>2. PICK m \in 0..Len(w) : {k \in 1..Len(w) : w[k] <= 1} = 1..m
  BY OverFirst
<1>3. Cardinality(1..m) = m
  <2>1. m \in Nat
    OBVIOUS
  <2>2. Cardinality(1..m) = IF 1 > m THEN 0 ELSE m - 1 + 1
    BY <2>1, FS_Interval
  <2> QED
    BY <2>1, <2>2
<1>4. Unexpired(w) = [k \in 1..(Len(w) - m) |-> w[k + m] - 1]
  BY <1>1, <1>2, <1>3 DEF Unexpired
<1>5. ASSUME NEW k \in (m + 1)..Len(w) PROVE w[k] \in 2..LockTime
  <2>1. k \in 1..Len(w) /\ k \notin 1..m
    BY <1>1
  <2> QED
    BY <1>1, <1>2, <2>1
<1> QED
  BY <1>4, <1>5

\* An hour of the clock: what is over is forgotten, the rest is one nearer to its end.
LEMMA CountedTick ==
  ASSUME NEW s, NEW w, NEW t, Counted(s, w), s.wait \in 0..LockTime,
         t.step = s.step, t.codeTries = s.codeTries, t.wait = Down(s.wait), s.codeTries \in 0..MaxTries
  PROVE  Counted(t, Unexpired(w))
<1>1. w \in Seq(1..LockTime) /\ Ascending(w) /\ LockTime \in Nat /\ MaxTries \in Nat /\ Len(w) \in Nat
      /\ \A k \in 1..Len(w) : w[k] \in 1..LockTime
  BY MembershipAssumption DEF Counted
<1>2. PICK m \in 0..Len(w) : /\ \A k \in (m + 1)..Len(w) : w[k] \in 2..LockTime
                             /\ Unexpired(w) = [k \in 1..(Len(w) - m) |-> w[k + m] - 1]
  BY <1>1, UnexpiredIs
<1>3. PICK n \in Nat : n = Len(w) - m /\ n <= Len(w)
  <2>1. \A l \in Nat : \A k \in 0..l : l - k \in Nat /\ l - k <= l
    OBVIOUS
  <2> QED
    BY <1>1, <2>1, Zenon
<1>4. PICK u : u = Unexpired(w)
  OBVIOUS
<1>5. u = [k \in 1..n |-> w[k + m] - 1]
  BY <1>2, <1>3, <1>4
<1>6. ASSUME NEW k \in 1..n
      PROVE  k + m \in (m + 1)..Len(w) /\ k + m \in 1..Len(w) /\ u[k] = w[k + m] - 1 /\ u[k] \in 1..LockTime
  <2>1. k + m \in (m + 1)..Len(w) /\ k + m \in 1..Len(w)
    <3>1. PICK l \in Nat : l = Len(w)
      BY <1>1
    <3>2. m \in Nat /\ k \in Nat /\ 1 <= k /\ k <= n /\ n = l - m
      BY <1>3, <3>1
    <3>3. k + m \in (m + 1)..l /\ k + m \in 1..l
      BY <3>2
    <3> QED
      BY <3>1, <3>3
  <2>2. w[k + m] \in 2..LockTime /\ u[k] = w[k + m] - 1
    BY <1>2, <1>5, <2>1
  <2>3. \A x \in 2..LockTime : x - 1 \in 1..LockTime
    BY <1>1
  <2> QED
    BY <2>1, <2>2, <2>3, Zenon
<1>7. u \in Seq(1..LockTime) /\ Len(u) = n
  <2>1. u \in [1..n -> 1..LockTime]
    BY <1>5, <1>6, Zenon
  <2> QED
    BY <2>1, RowIsSequence
<1>8. Ascending(u)
  <2>1. ASSUME NEW a \in 1..n, NEW b \in 1..n, a <= b PROVE u[a] <= u[b]
    <3>1. w[a + m] <= w[b + m]
      <4>1. a + m \in 1..Len(w) /\ b + m \in 1..Len(w) /\ a + m <= b + m
        BY <1>6, <2>1
      <4> QED
        BY <1>1, <4>1 DEF Ascending
    <3>2. w[a + m] \in Int /\ w[b + m] \in Int
      <4>1. w[a + m] \in 1..LockTime /\ w[b + m] \in 1..LockTime
        BY <1>1, <1>6, Zenon
      <4> QED
        BY <4>1
    <3>3. \A x, y \in Int : x <= y => x - 1 <= y - 1
      OBVIOUS
    <3>4. w[a + m] - 1 <= w[b + m] - 1
      BY <3>1, <3>2, <3>3, Zenon
    <3> QED
      BY <1>6, <3>4, Zenon
  <2> QED
    BY <1>7, <2>1 DEF Ascending
<1>9. s.step # "locked" => n <= s.codeTries
  BY <1>1, <1>3 DEF Counted
<1>10. s.step = "none" => n = 0
  BY <1>1, <1>3 DEF Counted
<1>11. s.step = "locked" => n <= MaxTries /\ \A k \in 1..n : u[k] <= Down(s.wait)
  <2>1. ASSUME s.step = "locked", NEW k \in 1..n PROVE u[k] <= Down(s.wait)
    <3>1. w[k + m] <= s.wait /\ w[k + m] \in 2..LockTime /\ u[k] = w[k + m] - 1
      BY <1>2, <1>6, <2>1 DEF Counted
    <3> QED
      BY <1>1, <3>1 DEF Down
  <2>2. s.step = "locked" => n <= MaxTries
    BY <1>1, <1>3 DEF Counted
  <2> QED
    BY <2>1, <2>2
<1> QED
  BY <1>4, <1>7, <1>8, <1>9, <1>10, <1>11 DEF Counted

\* Without wrong codes a session may begin again.
LEMMA CountedNew ==
  ASSUME NEW w \in Seq(1..LockTime), Len(w) = 0
  PROVE  Counted(NoJoin, w) /\ Counted(NewJoin, w)
<1>1. Ascending(w)
  BY DEF Ascending
<1>2. NoJoin.step = "none" /\ NoJoin.codeTries = 0 /\ NewJoin.step = "family_name" /\ NewJoin.codeTries = 0
  BY DEF NoJoin, NewJoin
<1> QED
  BY <1>1, <1>2 DEF Counted

\* A lock that is over has outlived every wrong code.
LEMMA CountedEntered ==
  ASSUME IInv, Remembered, NEW i \in Identities
  PROVE  Counted(Entered(i), wrong[i])
<1> DEFINE w == wrong[i]
<1>1. w \in Seq(1..LockTime) /\ Counted(session[i], w)
  BY DEF Remembered
<1>2. CASE session[i].step = "none"
  BY <1>1, <1>2, CountedNew DEF Counted, Entered
<1>3. CASE session[i].step = "locked" /\ session[i].wait = 0
  <2>1. ASSUME Len(w) # 0 PROVE FALSE
    <3>1. Len(w) \in Nat /\ 1 \in 1..Len(w)
      BY <1>1, <2>1
    <3>2. w[1] \in 1..LockTime
      BY <1>1, <3>1, ElementOfSeq
    <3>3. w[1] <= 0
      BY <1>1, <1>3, <3>1 DEF Counted
    <3> QED
      BY <3>2, <3>3
  <2> QED
    BY <1>1, <1>3, <2>1, CountedNew DEF Entered
<1>4. CASE ~(session[i].step = "none" \/ (session[i].step = "locked" /\ session[i].wait = 0))
  BY <1>1, <1>4 DEF Entered
<1> QED
  BY <1>2, <1>3, <1>4

LEMMA CountedSame ==
  ASSUME NEW s, NEW t, NEW w, Counted(s, w), s.step # "locked",
         t.step \notin {"none", "locked"}, t.codeTries = s.codeTries
  PROVE  Counted(t, w)
BY DEF Counted

LEMMA CountedLockedOut ==
  ASSUME NEW t \in JoinRow, NEW w \in Seq(1..LockTime), Ascending(w), Len(w) <= MaxTries
  PROVE  Counted(LockedOut(t), w)
<1>1. PICK u : u = [t EXCEPT !.step = "locked", !.name = Nil, !.family = Nil, !.wait = LockTime]
  OBVIOUS
<1>2. u.step = "locked" /\ u.wait = LockTime
  BY <1>1 DEF JoinRow
<1>3. LockTime \in Nat /\ \A k \in 1..Len(w) : w[k] \in 1..LockTime
  BY MembershipAssumption
<1>4. \A k \in 1..Len(w) : w[k] <= LockTime
  BY <1>3
<1>5. Counted(u, w)
  BY <1>2, <1>4 DEF Counted
<1> QED
  BY <1>1, <1>5 DEF LockedOut

LEMMA CountedNameFailed ==
  ASSUME NEW s \in JoinRow, NEW w, Counted(s, w), s.step \notin {"none", "locked"}, s.nameTries < MaxTries
  PROVE  Counted(NameFailed(s), w)
<1>1. MaxTries \in Nat /\ s.nameTries \in Nat /\ s.codeTries \in 0..MaxTries
  BY MembershipAssumption DEF JoinRow
<1>2. PICK n \in 0..MaxTries : n = s.nameTries + 1
  BY <1>1
<1>3. PICK t : t = [s EXCEPT !.nameTries = n]
  OBVIOUS
<1>4. t \in JoinRow /\ t.step = s.step /\ t.codeTries = s.codeTries /\ t.nameTries = n
  BY <1>3 DEF JoinRow
<1>5. NameFailed(s) = IF n >= MaxTries THEN LockedOut(t) ELSE t
  BY <1>2, <1>3, <1>4, Zenon DEF NameFailed
<1>6. Counted(t, w)
  BY <1>4, CountedSame
<1>7. w \in Seq(1..LockTime) /\ Ascending(w) /\ Len(w) <= MaxTries
  BY <1>1 DEF Counted
<1>8. Counted(LockedOut(t), w)
  BY <1>4, <1>7, CountedLockedOut
<1> QED
  BY <1>5, <1>6, <1>8

LEMMA AscendingAppend ==
  ASSUME NEW w \in Seq(1..LockTime), Ascending(w)
  PROVE  /\ Append(w, LockTime) \in Seq(1..LockTime) /\ Ascending(Append(w, LockTime))
         /\ Len(Append(w, LockTime)) = Len(w) + 1
<1>1. LockTime \in Nat /\ LockTime \in 1..LockTime
  BY MembershipAssumption
<1>2. PICK n \in Nat : n = Len(w)
  OBVIOUS
<1>3. PICK u : u = Append(w, LockTime)
  OBVIOUS
<1>4. u \in Seq(1..LockTime) /\ Len(u) = n + 1 /\ u[n + 1] = LockTime /\ \A k \in 1..n : u[k] = w[k]
  BY <1>1, <1>2, <1>3
<1>5. \A k \in 1..n : w[k] \in 1..LockTime
  BY <1>2, ElementOfSeq
<1>6. ASSUME NEW a \in 1..(n + 1), NEW b \in 1..(n + 1), a <= b
      PROVE  u[a] <= u[b]
  <2>1. CASE b \in 1..n
    <3>1. a \in 1..n
      BY <1>6, <2>1
    <3>2. w[a] <= w[b]
      BY <1>2, <1>6, <2>1, <3>1 DEF Ascending
    <3> QED
      BY <1>4, <2>1, <3>1, <3>2
  <2>2. CASE b = n + 1 /\ a \in 1..n
    <3>1. w[a] \in 1..LockTime
      BY <1>5, <2>2
    <3>2. w[a] <= LockTime
      BY <1>1, <3>1
    <3> QED
      BY <1>4, <2>2, <3>2
  <2>3. CASE b = n + 1 /\ a = n + 1
    BY <1>1, <1>4, <2>3
  <2> QED
    BY <1>6, <2>1, <2>2, <2>3
<1>7. Ascending(u)
  BY <1>4, <1>6 DEF Ascending
<1> QED
  BY <1>2, <1>3, <1>4, <1>7

LEMMA CountedCodeFailed ==
  ASSUME NEW s \in JoinRow, NEW w, Counted(s, w), s.step = "family_code", s.codeTries < MaxTries
  PROVE  Counted(CodeFailed(s), Append(w, LockTime))
<1>1. MaxTries \in Nat /\ s.codeTries \in Nat /\ s.codeTries \in 0..MaxTries
  BY MembershipAssumption DEF JoinRow
<1>2. PICK n \in 0..MaxTries : n = s.codeTries + 1
  BY <1>1
<1>3. PICK t : t = [s EXCEPT !.codeTries = n]
  OBVIOUS
<1>4. t \in JoinRow /\ t.step = s.step /\ t.codeTries = n
  BY <1>3 DEF JoinRow
<1>5. CodeFailed(s) = IF n >= MaxTries THEN LockedOut(t) ELSE t
  BY <1>2, <1>3, <1>4, Zenon DEF CodeFailed
<1>6. PICK u : u = Append(w, LockTime)
  OBVIOUS
<1>7. w \in Seq(1..LockTime) /\ Ascending(w) /\ Len(w) \in Nat /\ Len(w) <= s.codeTries
  BY DEF Counted
<1>8. u \in Seq(1..LockTime) /\ Ascending(u) /\ Len(u) = Len(w) + 1
  BY <1>6, <1>7, AscendingAppend
<1>9. Len(u) <= n /\ Len(u) <= MaxTries
  BY <1>1, <1>2, <1>7, <1>8
<1>10. Counted(t, u)
  BY <1>4, <1>8, <1>9 DEF Counted
<1>11. Counted(LockedOut(t), u)
  BY <1>4, <1>8, <1>9, CountedLockedOut
<1> QED
  BY <1>5, <1>6, <1>10, <1>11

\* A step that changes one session and what is remembered of it.
LEMMA CountedStep ==
  ASSUME Remembered, session \in [Identities -> JoinRow], NEW i \in Identities, NEW s, NEW w, Counted(s, w),
         session' = [session EXCEPT ![i] = s], wrong' = [wrong EXCEPT ![i] = w]
  PROVE  Remembered'
<1>1. w \in Seq(1..LockTime)
  BY DEF Counted
<1>2. wrong' \in [Identities -> Seq(1..LockTime)]
  BY <1>1 DEF Remembered
<1>3. \A j \in Identities : Counted(session'[j], wrong'[j])
  BY DEF Remembered
<1> QED
  BY <1>2, <1>3 DEF Remembered

LEMMA JoinRemembers ==
  ASSUME IInv, Remembered, NEW i \in Identities, Join(i)
  PROVE  Remembered'
<1>1. /\ session \in [Identities -> JoinRow] /\ session = [session EXCEPT ![i] = session[i]]
      /\ wrong = [wrong EXCEPT ![i] = wrong[i]]
      /\ Counted(session[i], wrong[i]) /\ Counted(Entered(i), wrong[i])
      /\ Sound(family, session[i], proof[i]) /\ Sound(family, Entered(i), proof[i])
  BY CountedEntered, EnteredSound DEF IInv, Typed, SessionsSound, Remembered
<1>2. session[i] \in JoinRow /\ Entered(i) \in JoinRow
  BY <1>1 DEF Sound
<1>3. /\ Entered(i).step # "none"
      /\ \A steps : MayEnter(i, steps) =>
           /\ Entered(i).step \in steps
           /\ Entered(i).step # "family_name" => Entered(i) = session[i]
  <2>1. NewJoin.step = "family_name"
    BY DEF NewJoin, NoJoin
  <2> QED
    BY <2>1 DEF MayEnter, Entered
<1>4. CASE StartJoin(i)
  <2>1. session' = [session EXCEPT ![i] = Entered(i)] /\ wrong' = [wrong EXCEPT ![i] = wrong[i]]
    BY <1>1, <1>4 DEF StartJoin
  <2> QED
    BY <1>1, <2>1, CountedStep
<1>5. ASSUME NEW n \in Names \union {Nil}, SubmitName(i, n) PROVE Remembered'
  <2>1. Entered(i).step \notin {"none", "locked"} /\ wrong' = [wrong EXCEPT ![i] = wrong[i]]
    BY <1>1, <1>3, <1>5 DEF SubmitName
  <2>2. CASE \E f \in Live : family[f].name = n
    <3>1. PICK t : t = [Entered(i) EXCEPT !.step = "address", !.name = n, !.family = Nil]
      OBVIOUS
    <3>2. t.step = "address" /\ t.codeTries = Entered(i).codeTries
      BY <1>2, <3>1 DEF JoinRow
    <3>3. Counted(t, wrong[i])
      BY <1>1, <2>1, <3>2, CountedSame
    <3>4. session' = [session EXCEPT ![i] = t]
      BY <1>5, <2>2, <3>1 DEF SubmitName
    <3> QED
      BY <1>1, <2>1, <3>3, <3>4, CountedStep
  <2>3. CASE ~\E f \in Live : family[f].name = n
    <3>1. Entered(i).nameTries < MaxTries
      BY <1>1, <2>1 DEF Sound
    <3>2. Counted(NameFailed(Entered(i)), wrong[i])
      BY <1>1, <1>2, <2>1, <3>1, CountedNameFailed
    <3>3. session' = [session EXCEPT ![i] = NameFailed(Entered(i))]
      BY <1>5, <2>3 DEF SubmitName
    <3> QED
      BY <1>1, <2>1, <3>2, <3>3, CountedStep
  <2> QED
    BY <2>2, <2>3
<1>6. CASE LocateJoin(i)
  <2>1. session' = [session EXCEPT ![i] = session[i]] /\ wrong' = [wrong EXCEPT ![i] = wrong[i]]
    BY <1>1, <1>6 DEF LocateJoin, rows
  <2> QED
    BY <1>1, <2>1, CountedStep
<1>7. ASSUME NEW t, session[i].step # "locked", t.step \notin {"none", "locked"},
             t.codeTries = session[i].codeTries, session' = [session EXCEPT ![i] = t], wrong' = wrong
      PROVE  Remembered'
  <2>1. Counted(t, wrong[i])
    BY <1>1, <1>7, CountedSame
  <2>2. wrong' = [wrong EXCEPT ![i] = wrong[i]]
    BY <1>1, <1>7
  <2> QED
    BY <1>1, <1>7, <2>1, <2>2, CountedStep
<1>8. ASSUME NEW p \in Places, NEW f \in Families, SubmitAddress(i, p, f) PROVE Remembered'
  <2>1. PICK t : t = [[session[i] EXCEPT !.step = "address_confirmed"] EXCEPT !.family = f]
    OBVIOUS
  <2>2. t.step = "address_confirmed" /\ t.codeTries = session[i].codeTries
    BY <1>2, <2>1 DEF JoinRow
  <2>3. MayEnter(i, LocatingSteps) /\ session' = [session EXCEPT ![i] = t] /\ wrong' = wrong
    BY <1>8, <2>1 DEF SubmitAddress
  <2>4. session[i].step # "locked"
    BY <1>3, <2>3 DEF LocatingSteps
  <2> QED
    BY <1>7, <2>2, <2>3, <2>4
<1>9. CASE ConfirmAddress(i)
  <2>1. PICK t : t = [session[i] EXCEPT !.step = "family_code"]
    OBVIOUS
  <2>2. t.step = "family_code" /\ t.codeTries = session[i].codeTries
    BY <1>2, <2>1 DEF JoinRow
  <2>3. session[i].step # "locked" /\ session' = [session EXCEPT ![i] = t] /\ wrong' = wrong
    BY <1>3, <1>9, <2>1 DEF ConfirmAddress
  <2> QED
    BY <1>7, <2>2, <2>3
<1>10. CASE RejectAddress(i)
  <2>1. PICK t : t = [[session[i] EXCEPT !.step = "address"] EXCEPT !.family = Nil]
    OBVIOUS
  <2>2. t.step = "address" /\ t.codeTries = session[i].codeTries
    BY <1>2, <2>1 DEF JoinRow
  <2>3. MayEnter(i, LocatingSteps) /\ session' = [session EXCEPT ![i] = t] /\ wrong' = wrong
    BY <1>10, <2>1 DEF RejectAddress
  <2>4. session[i].step # "locked"
    BY <1>3, <2>3 DEF LocatingSteps
  <2> QED
    BY <1>7, <2>2, <2>3, <2>4
<1>11. ASSUME NEW c \in Codes, RightCode(i, c) PROVE Remembered'
  <2>1. PICK t : t = [session[i] EXCEPT !.step = "user_name"]
    OBVIOUS
  <2>2. t.step = "user_name" /\ t.codeTries = session[i].codeTries
    BY <1>2, <2>1 DEF JoinRow
  <2>3. session[i].step # "locked" /\ session' = [session EXCEPT ![i] = t] /\ wrong' = wrong
    BY <1>3, <1>11, <2>1 DEF RightCode
  <2> QED
    BY <1>7, <2>2, <2>3
<1>12. CASE WrongCode(i)
  <2>1. session[i].step = "family_code"
    BY <1>3, <1>12 DEF WrongCode
  <2>2. session[i].codeTries < MaxTries
    BY <1>1, <2>1 DEF Sound
  <2>3. Counted(CodeFailed(session[i]), Append(wrong[i], LockTime))
    BY <1>1, <1>2, <2>1, <2>2, CountedCodeFailed
  <2>4. session' = [session EXCEPT ![i] = CodeFailed(session[i])]
        /\ wrong' = [wrong EXCEPT ![i] = Append(wrong[i], LockTime)]
    BY <1>12 DEF WrongCode
  <2> QED
    BY <1>1, <2>3, <2>4, CountedStep
<1>13. CASE CompleteJoin(i)
  <2>1. Counted(NoJoin, <<>>)
    <3>1. <<>> \in Seq(1..LockTime) /\ Len(<<>>) = 0
      OBVIOUS
    <3> QED
      BY <3>1, CountedNew
  <2>2. session' = [session EXCEPT ![i] = NoJoin] /\ wrong' = [wrong EXCEPT ![i] = <<>>]
    BY <1>13 DEF CompleteJoin
  <2> QED
    BY <1>1, <2>1, <2>2, CountedStep
<1> QED
  BY <1>4, <1>5, <1>6, <1>8, <1>9, <1>10, <1>11, <1>12, <1>13 DEF Join

LEMMA StepRemembers ==
  ASSUME IInv, Remembered, [Next]_vars
  PROVE  Remembered'
<1>1. /\ session \in [Identities -> JoinRow]
      /\ \A j \in Identities : session[j] \in JoinRow /\ Counted(session[j], wrong[j])
      /\ wrong \in [Identities -> Seq(1..LockTime)]
  BY DEF IInv, Typed, Remembered
<1>2. ASSUME UNCHANGED <<session, wrong>> PROVE Remembered'
  BY <1>2 DEF Remembered
<1>3. ASSUME NEW i \in Identities, Join(i) PROVE Remembered'
  BY <1>3, JoinRemembers
<1>4. ASSUME NEW i \in Identities, NEW c \in Codes, RegenerateCode(i, c) PROVE Remembered'
  <2>1. wrong' = wrong /\ session' = Unverified(member[i])
    BY <1>4 DEF RegenerateCode
  <2>2. ASSUME NEW j \in Identities PROVE Counted(session'[j], wrong[j])
    <3>1. CASE session[j].family = member[i] /\ session[j].step = "user_name"
      <4>1. PICK t : t = [session[j] EXCEPT !.step = "family_code"]
        OBVIOUS
      <4>2. t.step = "family_code" /\ t.codeTries = session[j].codeTries
        BY <1>1, <4>1 DEF JoinRow
      <4>3. session'[j] = t
        BY <2>1, <3>1, <4>1 DEF Unverified
      <4> QED
        BY <1>1, <3>1, <4>2, <4>3, CountedSame
    <3>2. CASE ~(session[j].family = member[i] /\ session[j].step = "user_name")
      BY <1>1, <2>1, <3>2 DEF Unverified
    <3> QED
      BY <3>1, <3>2
  <2> QED
    BY <1>1, <2>1, <2>2 DEF Remembered
<1>5. ASSUME NEW i \in Identities, Govern(i) PROVE Remembered'
  BY <1>2, <1>4, <1>5 DEF Govern, LocateHome, OfferHome, CreateFamily, MoveFamily, rows
<1>6. ASSUME NEW i \in Identities, NEW successor, EraseMember(i, successor) PROVE Remembered'
  <2>1. /\ session' = [j \in Identities |-> IF j \in SessionsEnded(i) THEN NoJoin ELSE session[j]]
        /\ wrong' = [j \in Identities |-> IF j \in SessionsEnded(i) THEN <<>> ELSE wrong[j]]
    BY <1>6 DEF EraseMember
  <2>2. <<>> \in Seq(1..LockTime) /\ Len(<<>>) = 0
    OBVIOUS
  <2>3. Counted(NoJoin, <<>>)
    BY <2>2, CountedNew
  <2>4. \A j \in Identities : Counted(session'[j], wrong'[j])
    BY <1>1, <2>1, <2>3
  <2>5. wrong' \in [Identities -> Seq(1..LockTime)]
    BY <1>1, <2>1, <2>2
  <2> QED
    BY <2>4, <2>5 DEF Remembered
<1>7. ASSUME NEW i \in Identities, Leave(i) PROVE Remembered'
  BY <1>2, <1>6, <1>7 DEF Leave, ConfirmDeletion
<1>8. CASE Tick
  <2>1. /\ session' = [i \in Identities |-> [session[i] EXCEPT !.wait = Down(@)]]
        /\ wrong' = [i \in Identities |-> Unexpired(wrong[i])]
    BY <1>8 DEF Tick
  <2>2. ASSUME NEW j \in Identities PROVE Counted(session'[j], wrong'[j])
    <3>1. PICK t : t = [session[j] EXCEPT !.wait = Down(session[j].wait)]
      OBVIOUS
    <3>2. /\ t.step = session[j].step /\ t.codeTries = session[j].codeTries /\ t.wait = Down(session[j].wait)
          /\ session[j].wait \in 0..LockTime /\ session[j].codeTries \in 0..MaxTries
      BY <1>1, <3>1 DEF JoinRow
    <3>3. Counted(t, Unexpired(wrong[j]))
      BY <1>1, <3>2, CountedTick
    <3> QED
      BY <2>1, <3>1, <3>3
  <2>3. \A j \in Identities : wrong'[j] \in Seq(1..LockTime)
    BY <2>2 DEF Counted
  <2>4. wrong' \in [Identities -> Seq(1..LockTime)]
    BY <2>1, <2>3
  <2> QED
    BY <2>2, <2>4 DEF Remembered
<1>9. CASE UNCHANGED vars
  BY <1>2, <1>9 DEF vars
<1> QED
  BY <1>3, <1>5, <1>7, <1>8, <1>9 DEF Next

----------------------------------------------------------------------------
(* Theorems.                                                               *)

\* The types of the membership tables; the tries of a session never outgrow their limit.
THEOREM MembershipTypes == Spec => []TypeOK
BY Invariance, TypedOK, PTL DEF IInv

\* Every family has an administrator among its members, and every member a family.
THEOREM AlwaysGoverned == Spec => []Governed
BY Invariance, PTL DEF IInv

\* No two families come to live within reach of each other's address.
THEOREM AlwaysApart == Spec => []FamiliesApart
BY Invariance, PTL DEF IInv

\* Codes of families differ, and none is given out unrecorded.
THEOREM AlwaysRecorded == Spec => []CodesRecorded
BY Invariance, PTL DEF IInv

\* A joiner who has been shown an address is bound to a family that exists.
THEOREM AlwaysBound == Spec => []JoinersBound
<1>1. IInv => JoinersBound
  BY DEF IInv, SessionsSound, Sound, Shown, JoinersBound, Live
<1> QED
  BY <1>1, Invariance, PTL

\* An erased identity stays without rows.
THEOREM ErasedForGood == Spec => []ErasedLeavesNothing
BY Invariance, PTL DEF IInv

\* One joiner gets at most MaxTries wrong codes answered within the time of a lock,
\* by whatever order of names, addresses, codes and waiting the lock is tried to be evaded.
THEOREM GuessesAlwaysLimited == Spec => []GuessesLimited
<1>1. Init => Remembered
  <2>1. <<>> \in Seq(1..LockTime) /\ Len(<<>>) = 0
    OBVIOUS
  <2>2. Counted(NoJoin, <<>>)
    BY <2>1, CountedNew
  <2> QED
    BY <2>1, <2>2 DEF Init, Remembered
<1>2. IInv /\ Remembered /\ [Next]_vars => Remembered'
  BY StepRemembers
<1>3. IInv /\ Remembered => GuessesLimited
  <2>1. ASSUME IInv, Remembered, NEW i \in Identities PROVE Len(wrong[i]) <= MaxTries
    <3>1. session[i] \in JoinRow /\ Counted(session[i], wrong[i]) /\ wrong[i] \in Seq(1..LockTime)
      BY <2>1 DEF IInv, Typed, Remembered
    <3>2. Len(wrong[i]) \in Nat /\ session[i].codeTries \in 0..MaxTries /\ MaxTries \in Nat
      BY <3>1, MembershipAssumption DEF JoinRow
    <3> QED
      BY <3>1, <3>2 DEF Counted
  <2> QED
    BY <2>1 DEF GuessesLimited
<1> QED
  BY <1>1, <1>2, <1>3, Invariance, PTL DEF Spec

LEMMA JoinedWithProof ==
  ASSUME IInv, [Next]_vars, NEW i \in Identities, member[i] = Nil, member'[i] \in Live
  PROVE  proof[i] = [family |-> member'[i], code |-> family[member'[i]].code]
<1>1. Nil \notin Live /\ member' # member /\ member \in [Identities -> Families \union {Nil}]
  BY MembershipAssumption DEF Live, IInv, Typed
<1>2. ASSUME NEW j \in Identities, CompleteJoin(j)
      PROVE  proof[i] = [family |-> member'[i], code |-> family[member'[i]].code]
  <2>1. member' = [member EXCEPT ![j] = session[j].family]
    BY <1>2 DEF CompleteJoin
  <2>2. j = i /\ member'[i] = session[i].family
    BY <1>1, <2>1
  <2>3. session[i].step = "user_name"
    <3>1. NewJoin.step = "family_name"
      BY DEF NewJoin, NoJoin
    <3> QED
      BY <1>2, <2>2, <3>1 DEF CompleteJoin, MayEnter, Entered
  <2>4. Sound(family, session[i], proof[i])
    BY DEF IInv, SessionsSound
  <2> QED
    BY <2>2, <2>3, <2>4 DEF Sound
<1>3. ASSUME NEW j \in Identities, Join(j) PROVE CompleteJoin(j)
  BY <1>1, <1>3 DEF Join, StartJoin, SubmitName, LocateJoin, SubmitAddress, ConfirmAddress,
                    RejectAddress, RightCode, WrongCode, rows
<1>4. ASSUME NEW j \in Identities, Govern(j) PROVE FALSE
  <2>1. ASSUME NEW f \in Families, NEW n \in Names, NEW c \in Codes, CreateFamily(j, f, n, c)
        PROVE  FALSE
    <3>1. member' = [member EXCEPT ![j] = f] /\ f \notin Live
      BY <2>1 DEF CreateFamily, Live
    <3> QED
      BY <1>1, <3>1
  <2> QED
    BY <1>1, <1>4, <2>1 DEF Govern, LocateHome, OfferHome, MoveFamily, RegenerateCode, rows
<1>5. ASSUME NEW j \in Identities, Leave(j) PROVE FALSE
  <2>1. ASSUME NEW successor, EraseMember(j, successor) PROVE FALSE
    BY <1>1, <2>1 DEF EraseMember
  <2> QED
    BY <1>1, <1>5, <2>1 DEF Leave, ConfirmDeletion
<1>6. ~Tick /\ ~(UNCHANGED vars)
  BY <1>1 DEF Tick, vars
<1> QED
  BY <1>2, <1>3, <1>4, <1>5, <1>6 DEF Next

\* Nobody joins with a code that has been replaced since it was checked.
THEOREM StaleCodesAdmitNobody == Spec => StaleCodeAdmitsNobody
<1>1. IInv /\ [Next]_vars =>
        [\A i \in Identities :
           (member[i] = Nil /\ member'[i] \in Live) =>
             proof[i] = [family |-> member'[i], code |-> family[member'[i]].code]]_vars
  BY JoinedWithProof
<1> QED
  BY <1>1, Invariance, PTL DEF Spec, StaleCodeAdmitsNobody
=============================================================================
