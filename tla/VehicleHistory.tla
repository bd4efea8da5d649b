--------------------------- MODULE VehicleHistory ---------------------------
(***************************************************************************)
(* What the occupancy service promises, with no checkpoints, seeds,        *)
(* anchors or incremental path: the family's visible history is a function *)
(* of ALL evidence ever accepted, evidence may arrive late but never at or *)
(* before the finalized instant, and a deleted member's sessions vanish    *)
(* without touching anybody else's.                                        *)
(*                                                                         *)
(* One thing it does not promise.  A RETURN whose session is over by the   *)
(* finalized instant ends nothing, and a replay may leave it out; but it   *)
(* stands between the events of its device, so that among simultaneous     *)
(* events of others the order is another one without it.                   *)
(***************************************************************************)
EXTENDS Integers, OccupancyHistory

VARIABLES
  evidence,    \* every event ever accepted
  finalized,   \* no later evidence at or before this instant
  forgotten,   \* deleted members
  occupancy    \* the visible sessions

historyVars == <<evidence, finalized, forgotten, occupancy>>

----------------------------------------------------------------------------
Visible(E, gone) == {s \in History(E) : s.user \notin gone}

\* RETURNs that come after their session's end, which is final at instant t.
Spent(returns, E, t) ==
  \A e \in returns : e.type = "return" /\ \E s \in History(E) :
    s.anchor = AnchorOf(E, e.cause) /\ s.reason # "open" /\ s.end <= t /\ s.end < e.time

HistoryInit ==
  /\ evidence = {}
  /\ forgotten = {}
  /\ occupancy = {}
  /\ finalized \in Int

\* The boundary may move with the acceptance, but stays before the event.
Accept ==
  /\ \E e \in evidence' \ evidence :
       /\ evidence' = evidence \union {e}
       /\ e.user \notin forgotten
       /\ finalized' < e.time
  /\ finalized' >= finalized
  /\ \E returns \in SUBSET {e \in evidence' : e.type = "return"} :
       /\ Spent(returns, evidence' \ returns, finalized')
       /\ occupancy' = Visible(evidence' \ returns, forgotten)
  /\ UNCHANGED forgotten

Finalize ==
  /\ finalized' > finalized
  /\ UNCHANGED <<evidence, forgotten, occupancy>>

\* Erasing a member finalizes everything accepted so far.
Forget ==
  /\ \E u \in forgotten' \ forgotten : forgotten' = forgotten \union {u}
  /\ finalized' >= finalized
  /\ \A e \in evidence : e.time <= finalized'
  /\ occupancy' = {s \in occupancy : s.user \notin forgotten'}
  /\ UNCHANGED evidence

HistoryNext == Accept \/ Finalize \/ Forget

HistorySpec == HistoryInit /\ [][HistoryNext]_historyVars
=============================================================================
