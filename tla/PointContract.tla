---------------------------- MODULE PointContract ----------------------------
(***************************************************************************)
(* What the ingester promises about a point, whatever happens to it on its *)
(* way: it is accepted once and settled once, by being stored, by being a  *)
(* repetition of a row already there, or by being lost.  Nothing is stored *)
(* that was not accepted, a settled point does not come back, and a row is *)
(* never replaced or removed.                                              *)
(*                                                                         *)
(* Which points may be lost, and when, is not said here: see               *)
(* LossNeedsCause in Ingest.                                               *)
(***************************************************************************)
CONSTANT Key(_)         \* the primary key of a point in tsdata

VARIABLES accepted,     \* every point accepted so far
          pending,      \* those not settled yet
          stored        \* those that became a row

OneRowPerKey(rows) == \A p, q \in rows : Key(p) = Key(q) => p = q

Init ==
  /\ accepted = {}
  /\ pending = {}
  /\ stored = {}

Accept ==
  /\ accepted \subseteq accepted'
  /\ pending' = pending \cup (accepted' \ accepted)
  /\ UNCHANGED stored

Settle ==
  /\ pending' \subseteq pending
  /\ stored \subseteq stored'
  /\ stored' \ stored \subseteq pending \ pending'
  /\ OneRowPerKey(stored')
  /\ UNCHANGED accepted

Next == Accept \/ Settle

Spec == Init /\ [][Next]_<<accepted, pending, stored>>

=============================================================================
