------------------------- MODULE MCVehicleAdmission -------------------------
EXTENDS VehicleAdmission, TLC

CONSTANTS
  u1, u2, u3, v1, v2,
  MaxAccepted,     \* BOUND: accepted events, erased ones included
  MaxRefused,      \* BOUND: refused receipts
  Arrivals,        \* BOUND: the orders in which ids arrive
  Administration   \* BOUND: which of "retire", "revoke", "erase" happen

OneDeviceEach == (1 :> u1) @@ (2 :> u2)
TwoDevicesOneUser == (1 :> u1) @@ (2 :> u1)
VehicleSymmetry == Permutations(Vehicles)

\* BOUND: enough evidence for the interesting histories.
FewReceipts ==
  /\ Cardinality(Accepted \union erased) <= MaxAccepted
  /\ Cardinality(receipts \ AcceptedReceipts) <= MaxRefused

\* BOUND: administration as configured.
Configured ==
  /\ "retire" \in Administration \/ retired' = retired
  /\ "revoke" \in Administration \/ revoked' = revoked
  /\ "erase"  \in Administration \/ members' = members

\* The order of ids decides between simultaneous events.  FourArrivals and its
\* mixtures let either of any two arrivals have the smaller id; ThreeArrivals
\* gives it to the last.
FourArrivals == {<<1, 2, 3, 4>>, <<3, 1, 4, 2>>}
ThreeArrivals == {<<2, 3, 1>>}

\* BOUND: a new event takes an id whose predecessors in some order are taken.
Arriving ==
  LET seen == {r.event : r \in receipts} \union erased
      ids  == {e.id : e \in seen}
  IN  \A e \in {r.event : r \in receipts'} \ seen :
        \E p \in Arrivals : \E k \in DOMAIN p :
          p[k] = e.id /\ \A i \in 1..(k - 1) : p[i] \in ids
=============================================================================
