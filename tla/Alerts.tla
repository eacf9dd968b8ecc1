------------------------------- MODULE Alerts --------------------------------
(***************************************************************************)
(* Alerts.  Receiving an event either counts it at the alert that is still *)
(* open for it, or opens one.  alert_merge does this with an UPDATE and,   *)
(* if that found nothing, an INSERT; nothing in the table stops two calls  *)
(* from both finding nothing.                                              *)
(*                                                                         *)
(* An alert is [event, status, fresh, duplicate]: event stands for         *)
(* resource, environment, event and origin together, and fresh says that   *)
(* its timeout has not passed since it was last received.                  *)
(***************************************************************************)
EXTENDS Integers, Functions

CONSTANT AlertIds        \* uuids the database may generate; the bound on alerts

Statuses == {"open", "close", "expire", "shelve", "acknowledge", "unknown"}

VARIABLES
  alerts,
  raised,          \* every alert ever opened
  disturbed        \* history: alerts opened while another call opened one, or
                   \* brought to life or to another event by an update

alertVars == <<alerts, raised, disturbed>>

AlertsInit ==
  /\ alerts = [a \in {} |-> {}]
  /\ raised = {}
  /\ disturbed = {}

\* Mutant: an alert someone has acknowledged is not found again.
OpenStatus(status) == status \in {"open", "shelve"}

LiveStatus(status) == status \in {"open", "acknowledge", "shelve"}

LiveAlerts(event) ==
  {a \in DOMAIN alerts :
     /\ alerts[a].event = event
     /\ LiveStatus(alerts[a].status)
     /\ alerts[a].fresh}

(***************************************************************************)
(* The UPDATE of alert_merge.  Two rows are an error to RETURNING ... INTO *)
(* and undo the statement.                                                 *)
(***************************************************************************)
MergeUpdate(event) ==
  LET live == LiveAlerts(event)
  IN  /\ alerts' = [a \in DOMAIN alerts |->
                      IF live = {a}
                      THEN [alerts[a] EXCEPT !.duplicate = @ + 1, !.fresh = TRUE]
                      ELSE alerts[a]]
      /\ UNCHANGED <<raised, disturbed>>

\* Its INSERT.  Known are the alerts the UPDATE has seen.
MergeInsert(event, status, known) ==
  LET a == CHOOSE a \in AlertIds : a \notin raised
      row == [event |-> event, status |-> status, fresh |-> TRUE, duplicate |-> 0]
  IN  /\ \E id \in AlertIds : id \notin raised
      /\ alerts' = [x \in DOMAIN alerts \cup {a} |-> IF x = a THEN row ELSE alerts[x]]
      /\ raised' = raised \cup {a}
      /\ disturbed' = IF LiveAlerts(event) \ known = {} THEN disturbed
                                                        ELSE disturbed \cup {a}

(***************************************************************************)
(* UpdateAlertByUuid: the fields given, in one transaction on one row.  A  *)
(* timeout that is changed may bring an alert back to life.                *)
(***************************************************************************)
UpdateAlert(a, change) ==
  IF a \notin DOMAIN alerts
  THEN UNCHANGED alertVars
  ELSE /\ alerts' = [alerts EXCEPT ![a] =
                       [f \in DOMAIN @ |-> IF f \in DOMAIN change THEN change[f]
                                                                  ELSE @[f]]]
       /\ disturbed' = IF "event" \notin DOMAIN change /\ a \in LiveAlerts(alerts[a].event)
                       THEN disturbed ELSE disturbed \cup {a}
       /\ UNCHANGED raised

DeleteAlert(a) ==
  /\ alerts' = Restrict(alerts, DOMAIN alerts \ {a})
  /\ UNCHANGED <<raised, disturbed>>

\* Time passes.
AlertTimesOut(a) ==
  /\ alerts[a].fresh
  /\ alerts' = [alerts EXCEPT ![a].fresh = FALSE]
  /\ UNCHANGED <<raised, disturbed>>

AlertsTypeOK ==
  /\ DOMAIN alerts \subseteq raised
  /\ raised \subseteq AlertIds
  /\ \A a \in DOMAIN alerts :
       /\ alerts[a].status \in Statuses
       /\ alerts[a].fresh \in BOOLEAN
       /\ alerts[a].duplicate \in Nat

=============================================================================
