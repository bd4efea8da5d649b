------------------------- MODULE MCShortcutAdapter --------------------------
EXTENDS ShortcutAdapter, TLC

CONSTANTS
  u1, u2, v1, v2, a1, a2,
  MaxAccepted,     \* BOUND: accepted events
  MaxRefused,      \* BOUND: refused receipts
  Administration   \* BOUND: which of "retire", "revoke", "erase" happen

OneDeviceEach == (1 :> u1) @@ (2 :> u2)
SecondUserDevice == 1 :> u2

\* Operation ids of a1 are 2 .. 5 and those of a2 8 .. 11; 1 and 6 are native.
\* Hashed ids have any order: a1's RETURN is below its TAKE, a2's above.
Operation ==
  [o \in {u1, u2} \X {a1, a2} \X {"take", "return"} |->
     (IF o[2] = a1 THEN 2 ELSE 8) + (IF o[1] = u1 THEN 0 ELSE 2)
       + (IF (o[2] = a1) = (o[3] = "take") THEN 1 ELSE 0)]

VehicleSymmetry == Permutations(Vehicles)

FewReceipts ==
  /\ Cardinality(Accepted \union erased) <= MaxAccepted
  /\ Cardinality(receipts \ AcceptedReceipts) <= MaxRefused

Configured ==
  /\ "retire" \in Administration \/ retired' = retired
  /\ "revoke" \in Administration \/ revoked' = revoked
  /\ "erase"  \in Administration \/ members' = members

\* BOUND: who has a phone has bound no vehicle, so that native evidence and
\* acquisitions are those of different users.
PhonesUnbound == \A d \in Devices : binding'[Owner[d]] = Unbound
=============================================================================
