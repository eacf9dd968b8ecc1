----------------------------- MODULE RateControl -----------------------------
(***************************************************************************)
(* The rate controller: a token bucket per visitor (domain and API key) in *)
(* a sync.Map, and a background routine that forgets visitors it has not   *)
(* seen for a while.                                                       *)
(*                                                                         *)
(* A request looks its visitor up, adds one if there is none, and takes    *)
(* from the bucket it got; the routine reads lastSeen and deletes the key  *)
(* in two steps.  Every operation on the map is one step, and a bucket     *)
(* that left the map is still used by the requests that hold it.           *)
(***************************************************************************)
EXTENDS Integers, Sequences, Functions

VARIABLES
  burst,           \* maxBurst
  visitors,        \* the map: the bucket of each visitor
  buckets,         \* all buckets: [of, left, recent], of their visitor
  doomed,          \* the visitors the routine is about to delete
  admitted,        \* history: requests let through, per visitor
  regained         \* history: tokens gained by refills and by being forgotten

rateVars == <<burst, visitors, buckets, doomed, admitted, regained>>

RateInit(keys) ==
  /\ visitors = [v \in {} |-> 0]
  /\ buckets = <<>>
  /\ doomed = {}
  /\ admitted = [v \in keys |-> 0]
  /\ regained = [v \in keys |-> 0]

\* Mutant: the new visitor replaces one that was added meanwhile.
StoreVisitor(v) ==
  /\ visitors' = [x \in DOMAIN visitors \cup {v} |->
                    IF x = v THEN Len(buckets) + 1 ELSE visitors[x]]
  /\ buckets' = Append(buckets, [of |-> v, left |-> burst, recent |-> TRUE])
  /\ UNCHANGED <<burst, doomed, admitted, regained>>

\* visitors.LoadOrStore of GetVisitor.
LoadOrStore(v) ==
  /\ IF v \in DOMAIN visitors
     THEN UNCHANGED <<visitors, buckets>>
     ELSE /\ visitors' = [x \in DOMAIN visitors \cup {v} |->
                            IF x = v THEN Len(buckets) + 1 ELSE visitors[x]]
          /\ buckets' = Append(buckets, [of |-> v, left |-> burst, recent |-> TRUE])
  /\ UNCHANGED <<burst, doomed, admitted, regained>>

\* lastSeen is set, and Limiter.Allow takes a token if there is one.
Allow(v, b) ==
  LET ok == buckets[b].left > 0
      left == IF ok THEN buckets[b].left - 1 ELSE 0
  IN  /\ buckets' = [buckets EXCEPT ![b] = [@ EXCEPT !.left = left, !.recent = TRUE]]
      /\ admitted' = IF ok THEN [admitted EXCEPT ![v] = @ + 1] ELSE admitted
      /\ UNCHANGED <<burst, visitors, doomed, regained>>

\* Time passes: a bucket gains a token, or was last seen too long ago.
Refill(b) ==
  /\ buckets[b].left < burst
  /\ buckets' = [buckets EXCEPT ![b].left = @ + 1]
  /\ regained' = [regained EXCEPT ![buckets[b].of] = @ + 1]
  /\ UNCHANGED <<burst, visitors, doomed, admitted>>

VisitorAges(v) ==
  /\ buckets[visitors[v]].recent
  /\ buckets' = [buckets EXCEPT ![visitors[v]].recent = FALSE]
  /\ UNCHANGED <<burst, visitors, doomed, admitted, regained>>

\* The two steps of the routine.
CleanupFinds(v) ==
  /\ ~buckets[visitors[v]].recent
  /\ v \notin doomed
  /\ doomed' = doomed \cup {v}
  /\ UNCHANGED <<burst, visitors, buckets, admitted, regained>>

CleanupDeletes(v) ==
  /\ visitors' = Restrict(visitors, DOMAIN visitors \ {v})
  /\ doomed' = doomed \ {v}
  /\ regained' = [regained EXCEPT ![v] = @ + burst]
  /\ UNCHANGED <<burst, buckets, admitted>>

RateTypeOK ==
  /\ \A v \in DOMAIN visitors : visitors[v] \in DOMAIN buckets
  /\ \A b \in DOMAIN buckets : /\ buckets[b].left \in 0 .. burst
                               /\ buckets[b].recent \in BOOLEAN
  /\ doomed \subseteq DOMAIN visitors

=============================================================================
