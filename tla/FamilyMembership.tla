-------------------------- MODULE FamilyMembership --------------------------
(***************************************************************************)
(* Founding, joining, governing and leaving a family: database.py (family  *)
(* codes, address confirmations, join sessions), join_family_service.py,   *)
(* family_creation_service.py and family_service.py.                       *)
(*                                                                         *)
(* Every mutation is one transaction that first passes the identity gate   *)
(* and then takes PWA_FAMILY_CREATION_LOCK_ID, so it is one step here; an  *)
(* operation that looks an address up does so between two transactions,    *)
(* holding nothing.  A transaction that raises rolls back everything,      *)
(* also the reset of an expired lock: a refusal is a stuttering step.      *)
(*                                                                         *)
(* An identity has at most one users row and never a second one, so a user *)
(* is named by its identity.  Every deadline is the time LEFT until it.    *)
(***************************************************************************)
EXTENDS Integers, Sequences, FiniteSets

CONSTANTS
  Identities,   \* rows of auth.users
  Families,     \* ids the sequence of families can still give out
  Names,        \* canonical family names
  Codes,        \* family codes
  Places,       \* resolved home locations
  Near,         \* pairs of places at most 50 metres apart
  Nil,          \* SQL's NULL
  MaxTries,     \* wrong answers that lock a join session (3)
  LockTime,     \* how long it stays locked (15 minutes)
  OfferTime     \* how long an address confirmation can be used (15 minutes)

ASSUME MembershipAssumption ==
  /\ Near \subseteq Places \X Places
  /\ \A p, q \in Places : <<p, q>> \in Near <=> <<q, p>> \in Near
  /\ Nil \notin Identities \union Families \union Names \union Codes \union Places
  /\ MaxTries \in Nat \ {0} /\ LockTime \in Nat \ {0} /\ OfferTime \in Nat \ {0}

VARIABLES
  gate,      \* what deletion_gate makes of an identity: "open", "deleting" or "erased"
  member,    \* users.family_id, Nil without a row
  family,    \* families
  history,   \* family_code_history
  session,   \* pwa_join_sessions
  offer,     \* family_address_confirmations, by owner and purpose
  lookup,    \* what for a caller is resolving an address, outside of any transaction
  proof,     \* history: the family and code an identity last proved to know
  wrong      \* history: time left of the lock a wrong code would have earned, per wrong code

rows == <<gate, member, family, history, session, offer>>
vars == <<gate, member, family, history, session, offer, lookup, proof, wrong>>

----------------------------------------------------------------------------
Steps == {"none", "family_name", "address", "address_confirmed", "family_code", "user_name", "locked"}
Purposes == {"create_family", "family_address_update"}

Blank   == [state |-> "none", name |-> Nil, code |-> Nil, place |-> Nil, creator |-> Nil]
NoJoin  == [step |-> "none", name |-> Nil, family |-> Nil, nameTries |-> 0, codeTries |-> 0, wait |-> 0]
NoOffer == [place |-> Nil, left |-> 0]
NoProof == [family |-> Nil, code |-> Nil]

Init ==
  /\ gate = [i \in Identities |-> "open"]
  /\ member = [i \in Identities |-> Nil]
  /\ family = [f \in Families |-> Blank]
  /\ history = {}
  /\ session = [i \in Identities |-> NoJoin]
  /\ offer = [i \in Identities |-> [u \in Purposes |-> NoOffer]]
  /\ lookup = [i \in Identities |-> "none"]
  /\ proof = [i \in Identities |-> NoProof]
  /\ wrong = [i \in Identities |-> <<>>]

----------------------------------------------------------------------------
Live == {f \in Families : family[f].state = "live"}

Members(f) == {i \in Identities : member[i] = f}

AdmittedIfPresent(i) == i \in Identities   \* mutant: the deletion job is not looked for

\* require_auth
Admitted(i) == gate[i] = "open"

\* _get_family_by_location, without the family excluded
OccupiedByOwner(p, excluded) ==   \* mutant: the excluded family is the only one looked at
  \E f \in Live \intersect {excluded} : <<family[f].place, p>> \in Near

Occupied(p, excluded) ==
  \E f \in Live \ {excluded} : <<family[f].place, p>> \in Near

\* Whom _require_address_creator and regenerate_family_code let pass.
Governs(i) == member[i] \in Live /\ family[member[i]].creator = i

\* Codes _allocate_family_code may end with: the samples are random, so a
\* released code can come up although unused ones are left.
FreshForCaller(excluded) ==   \* mutant: only the caller's own code is avoided
  Codes \ {excluded}

Allocatable(excluded) ==
  Codes \ ({family[f].code : f \in Live} \union {excluded})

----------------------------------------------------------------------------
(* Joining.                                                                *)

\* The session _lock_pwa_join_session returns: a new row, or one whose lock
\* is over, starts again.
NewJoin == [NoJoin EXCEPT !.step = "family_name"]

EnteredReset(i) ==   \* mutant: the lock does not outlive the next call
  IF session[i].step \in {"none", "locked"} THEN NewJoin ELSE session[i]

Entered(i) ==
  IF session[i].step = "none" \/ (session[i].step = "locked" /\ session[i].wait = 0)
  THEN NewJoin
  ELSE session[i]

MayEnter(i, steps) ==
  /\ Admitted(i)
  /\ member[i] = Nil
  /\ Entered(i).step \in steps

\* _increment_join_failure_locked
LockedOut(s) == [s EXCEPT !.step = "locked", !.name = Nil, !.family = Nil, !.wait = LockTime]

NameFailed(s) ==
  LET t == [s EXCEPT !.nameTries = @ + 1]
  IN  IF t.nameTries >= MaxTries THEN LockedOut(t) ELSE t

CodeFailedLate(s) ==   \* mutant: one wrong code too many
  LET t == [s EXCEPT !.codeTries = @ + 1]
  IN  IF s.codeTries >= MaxTries THEN LockedOut(t) ELSE t

CodeFailed(s) ==
  LET t == [s EXCEPT !.codeTries = @ + 1]
  IN  IF t.codeTries >= MaxTries THEN LockedOut(t) ELSE t

StartJoin(i) ==
  /\ MayEnter(i, Steps \ {"locked"})
  /\ session' = [session EXCEPT ![i] = Entered(i)]
  /\ UNCHANGED <<gate, member, family, history, offer, lookup, proof, wrong>>

\* A name that is no human name counts as one that no family has.
SubmitName(i, n) ==
  /\ MayEnter(i, {"family_name", "address", "address_confirmed", "family_code"})
  /\ session' = [session EXCEPT ![i] =
       IF \E f \in Live : family[f].name = n
       THEN [Entered(i) EXCEPT !.step = "address", !.name = n, !.family = Nil]
       ELSE NameFailed(Entered(i))]
  /\ UNCHANGED <<gate, member, family, history, offer, lookup, proof, wrong>>

LocatingSteps == {"address", "address_confirmed", "family_code"}

\* precheck_pwa_join_address
LocateJoin(i) ==
  /\ MayEnter(i, LocatingSteps)
  /\ lookup' = [lookup EXCEPT ![i] = "join"]
  /\ UNCHANGED <<rows, proof, wrong>>

\* submit_pwa_join_address, once the geocoder has answered with p.  Of several
\* families in reach the nearest is taken.
SubmitAddress(i, p, f) ==
  /\ lookup[i] = "join"
  /\ MayEnter(i, LocatingSteps)
  /\ f \in Live
  /\ family[f].name = session[i].name
  /\ <<family[f].place, p>> \in Near
  /\ session' = [session EXCEPT ![i].step = "address_confirmed", ![i].family = f]
  /\ lookup' = [lookup EXCEPT ![i] = "none"]
  /\ UNCHANGED <<gate, member, family, history, offer, proof, wrong>>

ConfirmAddress(i) ==
  /\ MayEnter(i, {"address_confirmed"})
  /\ session' = [session EXCEPT ![i].step = "family_code"]
  /\ UNCHANGED <<gate, member, family, history, offer, lookup, proof, wrong>>

RejectAddress(i) ==
  /\ MayEnter(i, LocatingSteps)
  /\ session' = [session EXCEPT ![i].step = "address", ![i].family = Nil]
  /\ UNCHANGED <<gate, member, family, history, offer, lookup, proof, wrong>>

\* verify_pwa_join_family_code, and record_pwa_join_failure for a malformed code
RightCode(i, c) ==
  /\ MayEnter(i, {"family_code"})
  /\ session[i].family \in Live
  /\ family[session[i].family].code = c
  /\ session' = [session EXCEPT ![i].step = "user_name"]
  /\ proof' = [proof EXCEPT ![i] = [family |-> session[i].family, code |-> c]]
  /\ UNCHANGED <<gate, member, family, history, offer, lookup, wrong>>

WrongCode(i) ==
  /\ MayEnter(i, {"family_code"})
  /\ session' = [session EXCEPT ![i] = CodeFailed(session[i])]
  /\ wrong' = [wrong EXCEPT ![i] = Append(@, LockTime)]
  /\ UNCHANGED <<gate, member, family, history, offer, lookup, proof>>

CompleteJoin(i) ==
  /\ MayEnter(i, {"user_name"})
  /\ session[i].family \in Live
  /\ member' = [member EXCEPT ![i] = session[i].family]
  /\ session' = [session EXCEPT ![i] = NoJoin]
  /\ proof' = [proof EXCEPT ![i] = NoProof]
  /\ wrong' = [wrong EXCEPT ![i] = <<>>]
  /\ UNCHANGED <<gate, family, history, offer, lookup>>

----------------------------------------------------------------------------
(* Confirmed addresses.                                                    *)

\* Who may ask for an address, and for what.
MayLocate(i, u) ==
  /\ Admitted(i)
  /\ IF u = "create_family" THEN member[i] = Nil ELSE Governs(i)

LocateHome(i, u) ==
  /\ MayLocate(i, u)
  /\ lookup' = [lookup EXCEPT ![i] = u]
  /\ UNCHANGED <<rows, proof, wrong>>

\* issue_family_address_confirmation, after the geocoder has answered with p and
\* the checks were repeated.  It replaces the previous one of its purpose; the
\* expired rows it also deletes could not be used any more.
OfferHome(i, p) ==
  LET u == lookup[i]
  IN  /\ u \in Purposes
      /\ MayLocate(i, u)
      /\ ~Occupied(p, member[i])
      /\ offer' = [offer EXCEPT ![i][u] = [place |-> p, left |-> OfferTime]]
      /\ lookup' = [lookup EXCEPT ![i] = "none"]
      /\ UNCHANGED <<gate, member, family, history, session, proof, wrong>>

\* create_family_with_first_user.  A join session of the founder stays behind.
CreateFamily(i, f, n, c) ==
  LET home == offer[i]["create_family"]
  IN  /\ Admitted(i)
      /\ home.left > 0
      /\ member[i] = Nil
      /\ ~Occupied(home.place, Nil)
      /\ family[f].state = "none"
      /\ c \in Allocatable(Nil)
      /\ family' = [family EXCEPT ![f] =
           [state |-> "live", name |-> n, code |-> c, place |-> home.place, creator |-> i]]
      /\ history' = history \union {c}
      /\ member' = [member EXCEPT ![i] = f]
      /\ offer' = [offer EXCEPT ![i]["create_family"] = NoOffer]
      /\ UNCHANGED <<gate, session, lookup, proof, wrong>>

\* update_family_address
MoveFamily(i) ==
  LET home == offer[i]["family_address_update"]
  IN  /\ Admitted(i)
      /\ home.left > 0
      /\ Governs(i)
      /\ ~Occupied(home.place, member[i])
      /\ family' = [family EXCEPT ![member[i]].place = home.place]
      /\ offer' = [offer EXCEPT ![i]["family_address_update"] = NoOffer]
      /\ UNCHANGED <<gate, member, history, session, lookup, proof, wrong>>

\* regenerate_family_code: who has proved the old code must prove the new one.
UnverifiedNobody(f) ==   \* mutant: verified joiners keep their step
  session

Unverified(f) ==
  [i \in Identities |->
     IF session[i].family = f /\ session[i].step = "user_name"
     THEN [session[i] EXCEPT !.step = "family_code"]
     ELSE session[i]]

RegenerateCode(i, c) ==
  /\ Admitted(i)
  /\ Governs(i)
  /\ c \in Allocatable(family[member[i]].code)
  /\ family' = [family EXCEPT ![member[i]].code = c]
  /\ history' = history \union {c}
  /\ session' = Unverified(member[i])
  /\ UNCHANGED <<gate, member, offer, lookup, proof, wrong>>

----------------------------------------------------------------------------
(* Leaving: account_deletion.confirm, and what cleanup does to membership. *)

ConfirmDeletion(i) ==
  /\ Admitted(i)
  /\ gate' = [gate EXCEPT ![i] = "deleting"]
  /\ UNCHANGED <<member, family, history, session, offer, lookup, proof, wrong>>

\* What becomes of the family of i; the code takes the member of lowest id.
FamilyUnled(i, successor) ==   \* mutant: the administrator is never replaced
  IF member[i] \notin Live THEN family
  ELSE IF Members(member[i]) = {i}
       THEN [family EXCEPT ![member[i]] = [Blank EXCEPT !.state = "deleted"]]
       ELSE family

FamilyWithout(i, successor) ==
  IF member[i] \notin Live THEN family
  ELSE IF Members(member[i]) = {i}
       THEN [family EXCEPT ![member[i]] = [Blank EXCEPT !.state = "deleted"]]
       ELSE IF family[member[i]].creator = i
            THEN [family EXCEPT ![member[i]].creator = successor]
            ELSE family

\* The sessions cleanup deletes: that of i, and with the last member those of joiners.
SessionsEndedOwn(i) ==   \* mutant: joiners of a deleted family keep their session
  {i}

SessionsEnded(i) ==
  {i} \union {j \in Identities : /\ member[i] \in Live
                                 /\ Members(member[i]) = {i}
                                 /\ session[j].family = member[i]}

EraseMember(i, successor) ==
  /\ gate[i] = "deleting"
  /\ \/ successor \in Members(member[i]) \ {i}
     \/ successor = Nil /\ (member[i] = Nil \/ Members(member[i]) = {i})
  /\ gate' = [gate EXCEPT ![i] = "erased"]
  /\ family' = FamilyWithout(i, successor)
  /\ member' = [member EXCEPT ![i] = Nil]
  /\ session' = [j \in Identities |-> IF j \in SessionsEnded(i) THEN NoJoin ELSE session[j]]
  /\ wrong' = [j \in Identities |-> IF j \in SessionsEnded(i) THEN <<>> ELSE wrong[j]]
  /\ proof' = [proof EXCEPT ![i] = NoProof]
  /\ offer' = [offer EXCEPT ![i] = [u \in Purposes |-> NoOffer]]
  /\ UNCHANGED <<history, lookup>>

----------------------------------------------------------------------------
Down(n) == IF n = 0 THEN 0 ELSE n - 1

Aged(o) == IF o.left <= 1 THEN NoOffer ELSE [o EXCEPT !.left = @ - 1]

\* The oldest locks are over first.
Unexpired(locks) ==
  LET over == Cardinality({k \in DOMAIN locks : locks[k] <= 1})
  IN  [k \in 1..(Len(locks) - over) |-> locks[k + over] - 1]

Tick ==
  /\ session' = [i \in Identities |-> [session[i] EXCEPT !.wait = Down(@)]]
  /\ offer' = [i \in Identities |-> [u \in Purposes |-> Aged(offer[i][u])]]
  /\ wrong' = [i \in Identities |-> Unexpired(wrong[i])]
  /\ UNCHANGED <<gate, member, family, history, lookup, proof>>

Join(i) ==
  \/ StartJoin(i)
  \/ \E n \in Names \union {Nil} : SubmitName(i, n)
  \/ LocateJoin(i)
  \/ \E p \in Places, f \in Families : SubmitAddress(i, p, f)
  \/ ConfirmAddress(i)
  \/ RejectAddress(i)
  \/ \E c \in Codes : RightCode(i, c)
  \/ WrongCode(i)
  \/ CompleteJoin(i)

Govern(i) ==
  \/ \E u \in Purposes : LocateHome(i, u)
  \/ \E p \in Places : OfferHome(i, p)
  \/ \E f \in Families, n \in Names, c \in Codes : CreateFamily(i, f, n, c)
  \/ MoveFamily(i)
  \/ \E c \in Codes : RegenerateCode(i, c)

Leave(i) ==
  \/ ConfirmDeletion(i)
  \/ \E successor \in Identities \union {Nil} : EraseMember(i, successor)

Next == (\E i \in Identities : Join(i) \/ Govern(i) \/ Leave(i)) \/ Tick

Spec == Init /\ [][Next]_vars

----------------------------------------------------------------------------
TypeOK ==
  /\ gate \in [Identities -> {"open", "deleting", "erased"}]
  /\ member \in [Identities -> Families \union {Nil}]
  /\ family \in [Families -> [state : {"none", "live", "deleted"}, name : Names \union {Nil},
                              code : Codes \union {Nil}, place : Places \union {Nil},
                              creator : Identities \union {Nil}]]
  /\ history \subseteq Codes
  /\ session \in [Identities -> [step : Steps, name : Names \union {Nil}, family : Families \union {Nil},
                                 nameTries : 0..MaxTries, codeTries : 0..MaxTries, wait : 0..LockTime]]
  /\ offer \in [Identities -> [Purposes -> [place : Places \union {Nil}, left : 0..OfferTime]]]
  /\ lookup \in [Identities -> Purposes \union {"none", "join"}]
  /\ proof \in [Identities -> [family : Families \union {Nil}, code : Codes \union {Nil}]]

\* A family that exists is administered by one of its members, and every member's
\* family exists: creation, joining and the succession of a deletion keep the two
\* tables' foreign keys true together (the RESTRICT of created_by_user_id never fires).
Governed ==
  /\ \A i \in Identities : member[i] # Nil => member[i] \in Live
  /\ \A f \in Live : /\ family[f].creator \in Identities
                     /\ member[family[f].creator] = f

\* No two families live within 50 metres of each other, although an address is
\* confirmed long before it is used, by founders and by administrators who move.
FamiliesApart ==
  \A f, g \in Live : f # g => <<family[f].place, family[g].place>> \notin Near

\* Two families never share a code, and every code ever given out is in the history.
CodesRecorded ==
  /\ \A f, g \in Live : f # g => family[f].code # family[g].code
  /\ \A f \in Live : family[f].code \in history

\* Who has been shown a family's address is bound to a family that still exists and
\* has the name that was given, also when its last member deletes the account meanwhile.
JoinersBound ==
  \A i \in Identities :
    session[i].step \in {"address_confirmed", "family_code", "user_name"} =>
      /\ session[i].family \in Live
      /\ family[session[i].family].name = session[i].name

\* One join session gets at most MaxTries wrong codes answered within LockTime,
\* whatever else is submitted, rejected or corrected in between.
GuessesLimited == \A i \in Identities : Len(wrong[i]) <= MaxTries

\* An erased identity has no row left and never gets one again, although lookups
\* it started may still return.
ErasedLeavesNothing ==
  \A i \in Identities : gate[i] = "erased" =>
    /\ member[i] = Nil
    /\ session[i] = NoJoin
    /\ \A u \in Purposes : offer[i][u] = NoOffer

\* Who joins a family has proved to know the code it has at that very moment:
\* a code that was regenerated in between admits nobody.
StaleCodeAdmitsNobody ==
  [][\A i \in Identities :
       (member[i] = Nil /\ member'[i] \in Live) =>
         proof[i] = [family |-> member'[i], code |-> family[member'[i]].code]]_vars
=============================================================================
