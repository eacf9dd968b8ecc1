------------------------------ MODULE Workforce ------------------------------
(***************************************************************************)
(* The register of workers that the program manager keeps (pkg/workforce), *)
(* and the loop by which each worker keeps itself in it (cmd/malgomaj):    *)
(* every ten seconds it asks whether it is registered, and then either     *)
(* registers or reports its load.  A call may be lost, and so may its      *)
(* answer.  A worker that is not heard of for worker.timeout is "late"; a  *)
(* sweep removes it, but a report that comes before the sweep saves it.    *)
(***************************************************************************)
EXTENDS Integers

CONSTANTS Workers,   \* a worker that starts again has another UUID
          Loads      \* loads a worker may report

ASSUME WorkforceAssumption == Loads \subseteq Nat

VARIABLES registered,   \* "no", "alive" or "late"
          load,         \* the load last reported
          loop          \* where the loop of each worker is

workforceVars == <<registered, load, loop>>

WorkforceInit ==
    /\ registered = [w \in Workers |-> "no"]
    /\ load = [w \in Workers |-> 0]
    /\ loop = [w \in Workers |-> "sleep"]

Resume(w, label) == loop' = [loop EXCEPT ![w] = label]

\* Mutant: an answer other than 204 is taken for one.
CheckIgnoresStatus(w) ==
    /\ loop[w] = "sleep"
    /\ Resume(w, "report")
    /\ UNCHANGED <<registered, load>>

\* GET /v1/subscribers/{uuid}: CheckWorker
CheckSubscribed(w) ==
    /\ loop[w] = "sleep"
    /\ Resume(w, IF registered[w] = "no" THEN "subscribe" ELSE "report")
    /\ UNCHANGED <<registered, load>>

\* POST /v1/subscribers: WorkerSubscribe
Subscribe(w) ==
    /\ loop[w] = "subscribe"
    /\ registered' = [registered EXCEPT ![w] = "alive"]
    /\ load' = [load EXCEPT ![w] = 0]
    /\ Resume(w, "sleep")

\* PUT /v1/subscribers/{uuid}/load: WorkerLoadUpdate looks for the worker ...
ReportLoad(w) ==
    /\ loop[w] = "report"
    /\ Resume(w, IF registered[w] = "no" THEN "sleep" ELSE "setload")
    /\ UNCHANGED <<registered, load>>

\* ... and has let go of the lock when it sets the load and the time last seen.
SetLoad(w, l) ==
    /\ loop[w] = "setload"
    /\ registered' = [registered EXCEPT ![w] = IF @ = "no" THEN "no" ELSE "alive"]
    /\ load' = [load EXCEPT ![w] = IF registered[w] = "no" THEN @ ELSE l]
    /\ Resume(w, "sleep")

\* A call does not get through: the loop tries again in ten seconds.
CallLost(w) ==
    /\ loop[w] \in {"subscribe", "report"}
    /\ Resume(w, "sleep")
    /\ UNCHANGED <<registered, load>>

\* The worker ends.  It unregisters, or dies before, or a call of its loop that
\* is under way arrives after that.
Unsubscribe(w) ==
    /\ loop[w] # "off"
    /\ Resume(w, "off")
    /\ \/ registered' = [registered EXCEPT ![w] = "no"]
       \/ UNCHANGED registered
       \/ loop[w] = "subscribe" /\ registered' = [registered EXCEPT ![w] = "alive"]
    /\ UNCHANGED load

\* worker.timeout goes by without a report.
TimesOut(w) ==
    /\ registered[w] = "alive"
    /\ registered' = [registered EXCEPT ![w] = "late"]
    /\ UNCHANGED <<load, loop>>

ClearInactive ==
    /\ \E w \in Workers : registered[w] = "late"
    /\ registered' = [w \in Workers |-> IF registered[w] = "late" THEN "no" ELSE registered[w]]
    /\ UNCHANGED <<load, loop>>

\* The workers GetAvailable may return: the least load among those alive.
GetAvailable ==
    {w \in Workers : /\ registered[w] = "alive"
                     /\ \A v \in Workers : registered[v] = "alive" => load[w] <= load[v]}

LoopStep(w) ==
    \/ CheckSubscribed(w) \/ Subscribe(w) \/ ReportLoad(w)
    \/ \E l \in Loads : SetLoad(w, l)

WorkersNext ==
    \E w \in Workers : LoopStep(w) \/ CallLost(w) \/ Unsubscribe(w) \/ TimesOut(w)

WorkforceTypeOK ==
    /\ registered \in [Workers -> {"no", "alive", "late"}]
    /\ load \in [Workers -> Loads \cup {0}]
    /\ loop \in [Workers -> {"sleep", "subscribe", "report", "setload", "off"}]

\* Whatever is lost or late, and however often the manager forgets it, a
\* worker that keeps running is able to get tasks again and again: it never
\* ends up in a state where it believes to be registered and is not
\* (main.go, the subscription loop; api.go, WorkerLoadUpdate).
RunningWorkerIsUsable ==
    \A w \in Workers : []<>(registered[w] = "alive" \/ loop[w] = "off")
=============================================================================
