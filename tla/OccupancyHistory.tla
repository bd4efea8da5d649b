------------------------- MODULE OccupancyHistory -------------------------
(***************************************************************************)
(* The reference definition of occupancy: History(E) says who held which   *)
(* vehicle and when, given evidence E.  It is stated over positions in the *)
(* replay order instead of by folding a state, so that it shares nothing   *)
(* but that order with Reconcile.                                          *)
(***************************************************************************)
EXTENDS Integers, Sequences, Reconciliation

----------------------------------------------------------------------------
\* Uninterrupted use, over the positions of a replay order q.
SamePair(a, b) == a.user = b.user /\ a.vehicle = b.vehicle

\* A TAKE by the driver of another car, or of the car by another driver.
Displaces(a, b) == b.type = "take" /\ (a.user = b.user) # (a.vehicle = b.vehicle)

(***************************************************************************)
(* Held(q)[c, p]: nothing strictly between positions c and p ends the use  *)
(* that the TAKE at c belongs to.  A RETURN ends it when its cause belongs *)
(* to the same uninterrupted use.                                          *)
(***************************************************************************)
Held(q) ==
  LET held[cp \in (1..Len(q)) \X (1..Len(q) + 1)] ==
        LET c == cp[1]
            p == cp[2]
        IN  \A k \in (c + 1)..(p - 1) :
              /\ ~Displaces(q[c], q[k])
              /\ q[k].type = "return" =>
                   \A j \in 1..(k - 1) : q[j].id = q[k].cause =>
                     ~ /\ SamePair(q[j], q[c])
                       /\ \/ j = c
                          \/ j < c /\ held[<<j, c>>]
                          \/ c < j /\ held[<<c, j>>]
  IN  held

Takes(q) == {c \in 1..Len(q) : q[c].type = "take"}

\* The first TAKE of the uninterrupted use that the TAKE at c belongs to.
Opening(q, held, c) ==
  CHOOSE o \in Takes(q) :
    /\ o = c \/ (o < c /\ SamePair(q[o], q[c]) /\ held[<<o, c>>])
    /\ \A j \in Takes(q) : j < o => ~(SamePair(q[j], q[c]) /\ held[<<j, c>>])

HistorySession(q, held, c) ==
  LET ends == {k \in (c + 1)..Len(q) : ~held[<<c, k + 1>>]}
      k    == CHOOSE i \in ends : \A j \in ends : i <= j
  IN  [user |-> q[c].user, vehicle |-> q[c].vehicle, anchor |-> q[c].id, start |-> q[c].time,
       end    |-> IF ends = {} THEN q[c].time ELSE q[k].time,
       reason |-> IF ends = {}                    THEN "open"
                  ELSE IF q[k].type = "return"    THEN "return"
                  ELSE IF q[k].user = q[c].user   THEN "vehicle_switch"
                  ELSE "handover"]

History(E) ==
  LET q    == Ordered(E)
      held == Held(q)
  IN  {HistorySession(q, held, c) : c \in {o \in Takes(q) : Opening(q, held, o) = o}}

\* The anchor of every TAKE in E.
AnchorOf(E, take) ==
  LET q == Ordered(E)
      c == CHOOSE i \in Takes(q) : q[i].id = take
  IN  q[Opening(q, Held(q), c)].id

\* The engine's session in the terms of the declarative history.
AsHistory(s) ==
  [user |-> s.user, vehicle |-> s.vehicle, anchor |-> s.anchor, start |-> s.start,
   end |-> IF Open(s) THEN s.start ELSE s.end, reason |-> s.reason]
=============================================================================
