------------------------------ MODULE ApiServer ------------------------------
(***************************************************************************)
(* Requests to the API server that change users, groups, tokens, policies, *)
(* things and alerts, or list them, from the first middleware to the last  *)
(* statement.                                                              *)
(*                                                                         *)
(* A request passes PolicyValidator (the token must have access to the     *)
(* scope of the operation), looks up the user of the token if it is going  *)
(* to write, passes RateControl, and runs its handler.  Every statement is *)
(* a step of its own, so other requests come in between; what the request  *)
(* has learned by then is in its record.  A request may be cut off at any  *)
(* of these points by its timeout or by the caller.                        *)
(*                                                                         *)
(* Requests carry a well-formed body; those the handlers refuse before     *)
(* their first statement change nothing.                                   *)
(***************************************************************************)
EXTENDS Accounts, Alerts, RateControl

CONSTANTS
  Clients,
  Workloads,       \* each [calls, requests, time, burst]: the calls clients may
                   \* make, bounds on their number and on the ticks of the
                   \* clock, and maxBurst
  UuidOf,          \* uuid.Parse: the uuid a text stands for; there are several
                   \* texts for each
  Probes           \* resources at which decisions are compared

\* What the handlers let through of a body: fields are of their types.
PolicyFields(change) ==
  /\ "group" \in DOMAIN change => change["group"] \in STRING
  /\ "priority" \in DOMAIN change => change["priority"] \in Nat
  /\ "effect" \in DOMAIN change => change["effect"] \in {"allow", "deny"}
  /\ "action" \in DOMAIN change => change["action"] \in Actions
  /\ "resource" \in DOMAIN change => change["resource"] \in Path

AlertFields(change) ==
  /\ DOMAIN change \subseteq {"event", "status", "fresh"}
  /\ "status" \in DOMAIN change => change["status"] \in Statuses
  /\ "fresh" \in DOMAIN change => change["fresh"] \in BOOLEAN

WellFormed(call) ==
  /\ "id" \in DOMAIN call => call.id = UuidOf[call.text]
  /\ "tokenId" \in DOMAIN call => call.tokenId = UuidOf[call.tokenText]
  /\ call.op = "AddPolicy" => call.rule \in GroupPolicy
  /\ call.op = "UpdatePolicyByUuid" => PolicyFields(call.change)
  /\ call.op = "CreateAlert" => call.status \in Statuses
  /\ call.op = "UpdateAlertByUuid" => AlertFields(call.change)

ASSUME ApiAssumption ==
  /\ Probes \subseteq Path
  /\ \A l \in DOMAIN Workloads :
       /\ {Workloads[l].requests, Workloads[l].time, Workloads[l].burst} \subseteq Nat
       /\ \A call \in Workloads[l].calls : WellFormed(call)

VARIABLES
  load,            \* which workload this behaviour is about
  started,         \* requests so far
  clock,           \* ticks so far
  req,             \* the request of each client
  seen             \* history: the rules the token of each client was judged by
                   \* at the instants of its request

server == <<load, started, clock, req, seen>>
vars   == <<tables, alertVars, rateVars, server>>

Load == Workloads[load]

Nothing == [f \in {} |-> {}]

\* No request.  The fields are the place in the code, the call, the decisions
\* that are kept, and what the statements have returned: the author, the
\* bucket, pairs still to authorise, the policy read and what becomes of it,
\* the memberships to remove, the alerts seen.
Idle == [pc |-> "idle", call |-> Nothing, cache |-> {}, author |-> Nobody,
         bucket |-> 0, want |-> <<>>, current |-> Nothing, next |-> Nothing,
         removed |-> {}, known |-> {}]

Pair(rule) == <<rule.action, rule.resource>>

-----------------------------------------------------------------------------
(***************************************************************************)
(* The scope each operation needs.  It is put together from the texts of   *)
(* the URL as they are, whereas the handlers work with the uuids the texts *)
(* stand for (call.id, call.tokenId).                                      *)
(***************************************************************************)
TokenScope(call) ==
  CASE call.op = "AddNewTokenToUser"  -> <<"create", <<"users", call.text, "tokens">>>>
    [] call.op = "DeleteTokenForUser" ->
         <<"delete", <<"users", call.text, "tokens", call.tokenText>>>>

UserScope(call) ==
  CASE call.op = "AddUser"          -> <<"create", <<"users">>>>
    [] call.op = "FindUsers"        -> <<"read",   <<"users">>>>
    [] call.op = "UpdateUserByUuid" -> <<"update", <<"users", call.text>>>>
    [] call.op = "DeleteUserByUuid" -> <<"delete", <<"users", call.text>>>>
    [] OTHER                        -> TokenScope(call)

GroupScope(call) ==
  CASE call.op = "AddGroup"          -> <<"create", <<"groups">>>>
    [] call.op = "FindGroups"        -> <<"read",   <<"groups">>>>
    [] call.op = "UpdateGroupByUuid" -> <<"update", <<"groups", call.text>>>>
    [] call.op = "DeleteGroupByUuid" -> <<"delete", <<"groups", call.text>>>>

PolicyScope(call) ==
  CASE call.op = "AddPolicy"          -> <<"create", <<"policies">>>>
    [] call.op = "UpdatePolicyByUuid" -> <<"update", <<"policies", call.text>>>>
    [] call.op = "DeletePolicyByUuid" -> <<"delete", <<"policies", call.text>>>>

ThingScope(call) ==
  CASE call.op = "AddThing"          -> <<"create", <<"things">>>>
    [] call.op = "FindThings"        -> <<"read",   <<"things">>>>
    [] call.op = "DeleteThingByUuid" -> <<"delete", <<"things", call.text>>>>

AlertScope(call) ==
  CASE call.op = "CreateAlert"       -> <<"create", <<"alerts">>>>
    [] call.op = "UpdateAlertByUuid" -> <<"update", <<"alerts", call.text>>>>
    [] call.op = "DeleteAlertByUuid" -> <<"delete", <<"alerts", call.text>>>>

Scope(call) ==
  CASE call.on = "users"    -> UserScope(call)
    [] call.on = "groups"   -> GroupScope(call)
    [] call.on = "policies" -> PolicyScope(call)
    [] call.on = "things"   -> ThingScope(call)
    [] call.on = "alerts"   -> AlertScope(call)

\* Where a handler begins, once the rate controller has let it through.
FirstStep(op) ==
  CASE op = "AddPolicy" -> "grant"
    [] op \in {"UpdatePolicyByUuid", "DeletePolicyByUuid"} -> "find"
    [] op = "UpdateUserByUuid" -> "select"
    [] op = "CreateAlert" -> "merge"
    [] OTHER -> "run"

-----------------------------------------------------------------------------
At(c, pc) == req[c].pc = pc
Call(c)   == req[c].call
Runs(c, op) == At(c, "run") /\ Call(c).op = op

\* The request becomes r, or ends, and the tables are left alone.
Goto(c, r) ==
  /\ req' = [req EXCEPT ![c] = r]
  /\ UNCHANGED seen

Refused(c) ==
  /\ req' = [req EXCEPT ![c] = Idle]
  /\ seen' = [seen EXCEPT ![c] = {}]

\* Whether the token of c had access at some instant of its request.
Had(c, pair) == \E rules \in seen[c] : Access(rules, pair[1], pair[2])

Keep == UNCHANGED <<load, started, clock>>

Quiet == Keep /\ UNCHANGED <<tables, alertVars>>

\* The last step of a request that changes the tables, for all to see.
Done(c) ==
  /\ Keep
  /\ req' = [req EXCEPT ![c] = Idle]
  /\ seen' = [d \in Clients |->
       IF d = c \/ At(d, "idle") THEN {} ELSE seen[d] \cup {TokenRules(Call(d).token)'}]
  /\ UNCHANGED <<alertVars, rateVars>>

-----------------------------------------------------------------------------
(***************************************************************************)
(* The middlewares.                                                        *)
(***************************************************************************)
Start(c, call) ==
  /\ At(c, "idle")
  /\ started < Load.requests
  /\ started' = started + 1
  /\ req' = [req EXCEPT ![c] = [Idle EXCEPT !.pc = "check", !.call = call]]
  /\ seen' = [seen EXCEPT ![c] = {TokenRules(call.token)}]
  /\ UNCHANGED <<load, clock, tables, alertVars, rateVars>>

\* PolicyValidator: the decision is kept for the rest of the request.
PolicyValidator(c) ==
  LET scope == Scope(Call(c))
  IN  /\ At(c, "check")
      /\ IF Decides(Call(c).token, scope[1], scope[2])
         THEN Goto(c, [req[c] EXCEPT !.pc = IF scope[1] = "read" THEN "load" ELSE "author",
                                     !.cache = {scope}])
         ELSE Refused(c)
      /\ Quiet /\ UNCHANGED rateVars

GetUserUuidFromToken(c) ==
  /\ At(c, "author")
  /\ IF Call(c).token \in DOMAIN tokens
     THEN Goto(c, [req[c] EXCEPT !.pc = "load", !.author = tokens[Call(c).token]])
     ELSE Refused(c)
  /\ Quiet /\ UNCHANGED rateVars

\* RateControl: GetVisitor, in one or two steps on the map, then Allow.
LoadVisitor(c) ==
  /\ At(c, "load")
  /\ IF Call(c).token \in DOMAIN visitors
     THEN Goto(c, [req[c] EXCEPT !.pc = "allow", !.bucket = visitors[Call(c).token]])
     ELSE Goto(c, [req[c] EXCEPT !.pc = "store"])
  /\ Quiet /\ UNCHANGED rateVars

AddVisitor(c) ==
  /\ At(c, "store")
  /\ LoadOrStore(Call(c).token)
  /\ Goto(c, [req[c] EXCEPT !.pc = "allow", !.bucket = visitors'[Call(c).token]])
  /\ Quiet

RateControl(c) ==
  LET op == Call(c).op
  IN  /\ At(c, "allow")
      /\ Allow(Call(c).token, req[c].bucket)
      /\ IF buckets[req[c].bucket].left > 0
         THEN Goto(c, [req[c] EXCEPT !.pc = FirstStep(op),
                         !.want = IF op = "AddPolicy" THEN <<Pair(Call(c).rule)>> ELSE <<>>])
         ELSE Refused(c)
      /\ Quiet

\* The timeout of the request passes, or the caller goes away.
Abort(c) ==
  /\ ~At(c, "idle")
  /\ Refused(c)
  /\ Quiet /\ UNCHANGED rateVars

-----------------------------------------------------------------------------
(***************************************************************************)
(* Policies.  The handlers of an update and of a deletion read the policy, *)
(* and ask for the right to everything the policy says and will say.       *)
(***************************************************************************)

\* Mutant: an update only asks for what the policy says before it.
CurrentPairs(call, rule) == <<Pair(rule)>>

GrantPairs(call, rule) ==
  IF call.op = "UpdatePolicyByUuid"
  THEN <<Pair(rule), Pair(Changed(rule, call.change, DOMAIN rule))>>
  ELSE <<Pair(rule)>>

FindPolicy(c) ==
  LET p == Call(c).id
  IN  /\ At(c, "find")
      /\ IF p \in DOMAIN policies
         THEN Goto(c, [req[c] EXCEPT !.pc = "grant", !.current = policies[p],
                                     !.want = GrantPairs(Call(c), policies[p])])
         ELSE Refused(c)
      /\ Quiet /\ UNCHANGED rateVars

\* One of the calls of authorizePolicyGrant; what the request already knows
\* it does not ask again.
AuthorizePolicyGrant(c) ==
  LET pair == Head(req[c].want)
      rest == Tail(req[c].want)
      next == CASE Call(c).op = "AddPolicy"          -> "validate"
                [] Call(c).op = "UpdatePolicyByUuid" -> "reread"
                [] Call(c).op = "DeletePolicyByUuid" -> "run"
  IN  /\ At(c, "grant")
      /\ IF pair \in req[c].cache \/ Decides(Call(c).token, pair[1], pair[2])
         THEN Goto(c, [req[c] EXCEPT !.pc = IF rest = <<>> THEN next ELSE "grant",
                                     !.cache = @ \cup {pair}, !.want = rest])
         ELSE Refused(c)
      /\ Quiet /\ UNCHANGED rateVars

\* The transaction of an update reads the policy again.
RereadPolicy(c) ==
  LET p == Call(c).id
  IN  /\ At(c, "reread")
      /\ IF p \in DOMAIN policies
         THEN Goto(c, [req[c] EXCEPT !.pc = "validate",
                         !.next = Changed(policies[p], Call(c).change, DOMAIN policies[p])])
         ELSE Refused(c)
      /\ Quiet /\ UNCHANGED rateVars

\* The rule to validate, and the policies it is compared with.
NextRule(c) == IF Call(c).op = "AddPolicy" THEN Call(c).rule ELSE req[c].next

Others(c) ==
  {p \in DOMAIN policies : Call(c).op = "UpdatePolicyByUuid" => p # Call(c).id}

Shadowed(c) ==
  \E p \in Others(c) :
    /\ policies[p].group = NextRule(c).group
    /\ policies[p].action = NextRule(c).action
    /\ policyShadows(policies[p], NextRule(c))

ValidatePolicyRule(c) ==
  /\ At(c, "validate")
  /\ IF Shadowed(c) THEN Refused(c) ELSE Goto(c, [req[c] EXCEPT !.pc = "run"])
  /\ Quiet /\ UNCHANGED rateVars

AddPolicy(c) ==
  Runs(c, "AddPolicy") /\ CreatePolicy(Call(c).rule) /\ Done(c)

UpdatePolicyByUuid(c) ==
  Runs(c, "UpdatePolicyByUuid") /\ SetPolicy(Call(c).id, Call(c).change) /\ Done(c)

DeletePolicyByUuid(c) ==
  Runs(c, "DeletePolicyByUuid") /\ DeletePolicy(Call(c).id) /\ Done(c)

-----------------------------------------------------------------------------
(***************************************************************************)
(* Users, tokens, groups and things.                                       *)
(***************************************************************************)
AddUser(c) ==
  Runs(c, "AddUser") /\ CreateUser(Call(c).name) /\ Done(c)

AddNewTokenToUser(c) ==
  Runs(c, "AddNewTokenToUser") /\ AddTokenToUser(Call(c).id) /\ Done(c)

DeleteTokenForUser(c) ==
  Runs(c, "DeleteTokenForUser") /\ DeleteTokenFromUser(Call(c).id, Call(c).tokenId) /\ Done(c)

DeleteUserByUuid(c) ==
  Runs(c, "DeleteUserByUuid") /\ DeleteUser(Call(c).id) /\ Done(c)

\* The transaction of an update deletes the memberships it finds.
FindMemberships(c) ==
  /\ At(c, "select")
  /\ Goto(c, [req[c] EXCEPT !.pc = "run",
                !.removed = MembershipsToRemove(Call(c).id, Call(c).change)])
  /\ Quiet /\ UNCHANGED rateVars

UpdateUserByUuid(c) ==
  /\ Runs(c, "UpdateUserByUuid")
  /\ UpdateUser(Call(c).id, Call(c).change, req[c].removed)
  /\ Done(c)

AddGroup(c) ==
  Runs(c, "AddGroup") /\ CreateGroup(Call(c).name) /\ Done(c)

UpdateGroupByUuid(c) ==
  Runs(c, "UpdateGroupByUuid") /\ SetGroupName(Call(c).id, Call(c).name) /\ Done(c)

DeleteGroupByUuid(c) ==
  Runs(c, "DeleteGroupByUuid") /\ DeleteGroup(Call(c).id) /\ Done(c)

AddThing(c) ==
  Runs(c, "AddThing") /\ CreateThing(req[c].author) /\ Done(c)

DeleteThingByUuid(c) ==
  Runs(c, "DeleteThingByUuid") /\ DeleteThing(Call(c).id) /\ Done(c)

(***************************************************************************)
(* Listings.                                                               *)
(***************************************************************************)
Rows(call) ==
  CASE call.op = "FindThings" -> DOMAIN things
    [] call.op = "FindUsers"  -> DOMAIN users
    [] call.op = "FindGroups" -> DOMAIN groups

Shown(call) ==
  {x \in Rows(call) : Listed(TokenRules(call.token), <<call.on, x>>)}

Listing(c) == At(c, "run") /\ Call(c).op \in {"FindThings", "FindUsers", "FindGroups"}

List(c) ==
  /\ Listing(c)
  /\ Refused(c)
  /\ Quiet /\ UNCHANGED rateVars

-----------------------------------------------------------------------------
(***************************************************************************)
(* Alerts.                                                                 *)
(***************************************************************************)
MergeAlert(c) ==
  LET live == LiveAlerts(Call(c).event)
  IN  /\ At(c, "merge")
      /\ MergeUpdate(Call(c).event)
      /\ IF live = {} THEN Goto(c, [req[c] EXCEPT !.pc = "run", !.known = DOMAIN alerts])
                      ELSE Refused(c)
      /\ Keep /\ UNCHANGED <<tables, rateVars>>

CreateAlert(c) ==
  /\ Runs(c, "CreateAlert")
  /\ MergeInsert(Call(c).event, Call(c).status, req[c].known)
  /\ Refused(c)
  /\ Keep /\ UNCHANGED <<tables, rateVars>>

UpdateAlertByUuid(c) ==
  /\ Runs(c, "UpdateAlertByUuid")
  /\ UpdateAlert(Call(c).id, Call(c).change)
  /\ Refused(c)
  /\ Keep /\ UNCHANGED <<tables, rateVars>>

DeleteAlertByUuid(c) ==
  /\ Runs(c, "DeleteAlertByUuid")
  /\ DeleteAlert(Call(c).id)
  /\ Refused(c)
  /\ Keep /\ UNCHANGED <<tables, rateVars>>

-----------------------------------------------------------------------------
(***************************************************************************)
(* The clock, and the routine that forgets visitors.                       *)
(***************************************************************************)
Tick ==
  /\ clock < Load.time
  /\ clock' = clock + 1
  /\ \/ \E a \in DOMAIN alerts : AlertTimesOut(a) /\ UNCHANGED rateVars
     \/ \E b \in DOMAIN buckets : Refill(b) /\ UNCHANGED alertVars
     \/ \E v \in DOMAIN visitors : VisitorAges(v) /\ UNCHANGED alertVars
  /\ UNCHANGED <<tables, load, started, req, seen>>

Cleanup ==
  /\ \/ \E v \in DOMAIN visitors : CleanupFinds(v)
     \/ \E v \in doomed : CleanupDeletes(v)
  /\ UNCHANGED <<tables, alertVars, server>>

-----------------------------------------------------------------------------
Init ==
  /\ load \in DOMAIN Workloads
  /\ AccountsInit
  /\ AlertsInit
  /\ burst = Load.burst
  /\ RateInit({k.token : k \in Load.calls})
  /\ started = 0 /\ clock = 0
  /\ req = [c \in Clients |-> Idle]
  /\ seen = [c \in Clients |-> {}]

Middleware(c) ==
  \/ \E call \in Load.calls : Start(c, call)
  \/ PolicyValidator(c) \/ GetUserUuidFromToken(c)
  \/ LoadVisitor(c) \/ AddVisitor(c) \/ RateControl(c)
  \/ Abort(c)

Handler(c) ==
  \/ FindPolicy(c) \/ AuthorizePolicyGrant(c) \/ RereadPolicy(c)
  \/ ValidatePolicyRule(c)
  \/ AddPolicy(c) \/ UpdatePolicyByUuid(c) \/ DeletePolicyByUuid(c)
  \/ AddUser(c) \/ AddNewTokenToUser(c) \/ DeleteTokenForUser(c)
  \/ FindMemberships(c) \/ UpdateUserByUuid(c) \/ DeleteUserByUuid(c)
  \/ AddGroup(c) \/ UpdateGroupByUuid(c) \/ DeleteGroupByUuid(c)
  \/ AddThing(c) \/ DeleteThingByUuid(c)
  \/ List(c)
  \/ MergeAlert(c) \/ CreateAlert(c) \/ UpdateAlertByUuid(c) \/ DeleteAlertByUuid(c)

Next == (\E c \in Clients : Middleware(c) \/ Handler(c)) \/ Tick \/ Cleanup

Spec == Init /\ [][Next]_vars

-----------------------------------------------------------------------------
(***************************************************************************)
(* Properties.                                                             *)
(***************************************************************************)

\* Type correctness: every reference between the tables leads to a row, names
\* and rules are unique whatever requests interleave, visitors have a bucket.
TypeOK ==
  /\ AccountsTypeOK
  /\ AlertsTypeOK
  /\ RateTypeOK
  /\ started \in 0 .. Load.requests
  /\ clock \in 0 .. Load.time

\* A statement that changes the tables was allowed to its caller at some
\* instant of the request (PolicyValidator; rights may be withdrawn between
\* the check and the change).  What was allowed is the resource as the URL
\* spells it: a rule about one spelling of a uuid decides nothing about the
\* others, which lead to the same row.  A policy that is added, changed or
\* deleted names an action and a resource its author had access to, before and
\* after the change (authorizePolicyGrant; a pattern is asked for literally, as
\* if it were a resource), provided that it still is about what the request has
\* read: nothing keeps another update from coming in between.
ChangesAuthorised ==
  [][\A c \in Clients :
       At(c, "run") /\ At(c, "idle")' /\ tables' # tables =>
         LET call == Call(c)
         IN  /\ Had(c, Scope(call))
             /\ call.op = "AddPolicy" => Had(c, Pair(call.rule))
             /\ \A p \in DOMAIN policies :
                  /\ call.op \in {"UpdatePolicyByUuid", "DeletePolicyByUuid"}
                  /\ p = call.id
                  /\ Pair(policies[p]) = Pair(req[c].current)
                  => /\ Had(c, Pair(policies[p]))
                     /\ p \in DOMAIN policies' => Had(c, Pair(policies'[p]))]_vars

\* A rule that validatePolicyRule refuses as shadowed would have changed no
\* decision: with it or without it, every member of its group has access to
\* the same resources.
ShadowedNeverDecides ==
  \A c \in Clients : At(c, "validate") /\ Shadowed(c) =>
    \A u \in DOMAIN users, resource \in Probes :
      LET rule == NextRule(c)
          rest == {policies[p] : p \in {p \in Others(c) : <<u, policies[p].group>> \in members}}
      IN  <<u, rule.group>> \in members =>
            (Access(rest \cup {rule}, rule.action, resource)
               <=> Access(rest, rule.action, resource))

\* What a listing (FindThings, FindUsers, FindGroups) shows may be read one by
\* one: its statement decides by "an allow and no deny", the check of a single
\* resource by the first rule that matches.
ListedIsReadable ==
  \A c \in Clients : Listing(c) =>
    \A x \in Shown(Call(c)) : Decides(Call(c).token, "read", <<Call(c).on, x>>)

\* Two alerts of one event are only open or acknowledged at a time if two calls
\* of alert_merge overlapped or someone brought one of them back to life
\* (UpdateAlertByUuid); otherwise a repeated event is counted and opens no other
\* alert, also after its alert was shelved for a while.  (Nothing is said of
\* shelved alerts: alert_merge counts an event at one until its timeout has
\* passed, where docs/alerts.md has a new alert added.)
TwinsNeedOverlap ==
  LET lasting == {a \in DOMAIN alerts : /\ alerts[a].fresh
                                        /\ alerts[a].status \in {"open", "acknowledge"}}
  IN  \A a, b \in lasting :
        a # b /\ alerts[a].event = alerts[b].event => {a, b} \cap disturbed # {}

\* A visitor never gets more requests through than its burst, what its bucket
\* has gained since, and a new burst for each time it was forgotten: two first
\* requests at once share one bucket (LoadOrStore).
BurstHolds == \A v \in DOMAIN admitted : admitted[v] <= burst + regained[v]

=============================================================================
