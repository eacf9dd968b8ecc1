---------------------------- MODULE MCApiServer ------------------------------
(***************************************************************************)
(* Five workloads on one server, each about one of its concerns, so that   *)
(* the calls that matter to each other meet in every order.  Policies 1-9  *)
(* are root's and those of things, 10-19 bob's own, 20-22 those by which   *)
(* bob manages policies.  "BOB" is another way to write the uuid "bob".    *)
(***************************************************************************)
EXTENDS ApiServer, TLC

On(kind, op, token) == [on |-> kind, op |-> op, token |-> token]

Texts == {"bob", "BOB", "t_bob", "g_bob", "g_things", "t1", "a1", "13"}
MCUuidOf == [t \in Texts |-> CASE t = "BOB" -> "bob" [] t = "13" -> 13 [] OTHER -> t]

OnId(kind, op, token, text) ==
  On(kind, op, token) @@ [text |-> text, id |-> MCUuidOf[text]]

NewPolicy(token, g, effect, action, resource) ==
  On("policies", "AddPolicy", token) @@ [rule |-> Rule(g, effect, action, resource)]

PolicyChange(token, p, change) ==
  OnId("policies", "UpdatePolicyByUuid", token, p) @@ [change |-> change]

UserChange(token, u, name, replace, remove, add) ==
  OnId("users", "UpdateUserByUuid", token, u) @@
    [change |-> [name |-> name, replace |-> replace, remove |-> remove, add |-> add]]

RevokeToken == OnId("users", "DeleteTokenForUser", "t_root", "bob") @@
                 [tokenText |-> "t_bob", tokenId |-> "t_bob"]

\* Policies, by someone who may manage them but has few rights, and by root,
\* who withdraws rights, changes the same policy meanwhile, and deletes bob.
Access1 ==
  { NewPolicy("t_bob", "g_bob", "deny", "update", <<"users", "bob", Wild>>),
    NewPolicy("t_bob", "g_bob", "allow", "update", <<"users", "bob", "tokens">>),
    NewPolicy("t_root", "g_bob", "deny", "update", <<"policies", Wild>>),
    PolicyChange("t_bob", "13", [resource |-> <<Wild>>]),
    PolicyChange("t_bob", "13", [action |-> "delete", priority |-> 1]),
    PolicyChange("t_root", "13", [resource |-> <<"users", Wild>>]),
    OnId("policies", "DeletePolicyByUuid", "t_bob", "13"),
    RevokeToken,
    NewPolicy("t_root", Root, "deny", "delete", <<"users", "bob">>),
    OnId("users", "DeleteUserByUuid", "t_root", "BOB") }

\* Users, groups and memberships that share names and rows.
Accounts1 ==
  { On("users", "AddUser", "t_root") @@ [name |-> "operators"],
    On("groups", "AddGroup", "t_root") @@ [name |-> "operators"],
    OnId("groups", "UpdateGroupByUuid", "t_root", "g_bob") @@ [name |-> "operators"],
    OnId("groups", "DeleteGroupByUuid", "t_root", "g_things"),
    OnId("users", "DeleteUserByUuid", "t_root", "bob"),
    OnId("users", "AddNewTokenToUser", "t_bob", "bob"),
    UserChange("t_root", "bob", "operators", FALSE, {}, {"g_things"}),
    UserChange("t_bob", "bob", "ops", TRUE, {}, {"g_things"}),
    UserChange("t_root", "bob", "", FALSE, {"g_bob"}, {}),
    NewPolicy("t_root", "g_things", "allow", "read", <<"groups">>),
    On("things", "AddThing", "t_bob") }

\* Listings beside denials, and things that come and go.
Lists1 ==
  { On("things", "AddThing", "t_root"),
    OnId("things", "DeleteThingByUuid", "t_root", "t1"),
    On("things", "FindThings", "t_root"),
    On("users", "FindUsers", "t_root"),
    On("groups", "FindGroups", "t_root"),
    NewPolicy("t_root", Root, "deny", "read", <<"things", Wild>>),
    NewPolicy("t_root", Root, "deny", "read", <<"users", "bob">>),
    NewPolicy("t_root", Root, "deny", "read", <<Wild>>) }

\* One event, received, acknowledged, shelved, closed, reopened and deleted.
Alerts1 ==
  { On("alerts", "CreateAlert", "t_root") @@ [event |-> "e", status |-> "open"],
    OnId("alerts", "UpdateAlertByUuid", "t_root", "a1") @@ [change |-> [status |-> "acknowledge"]],
    OnId("alerts", "UpdateAlertByUuid", "t_root", "a1") @@ [change |-> [status |-> "close"]],
    OnId("alerts", "UpdateAlertByUuid", "t_root", "a1") @@ [change |-> [status |-> "shelve"]],
    OnId("alerts", "UpdateAlertByUuid", "t_root", "a1") @@ [change |-> [status |-> "unknown"]],
    OnId("alerts", "UpdateAlertByUuid", "t_root", "a1") @@
      [change |-> [status |-> "open", fresh |-> TRUE]],
    OnId("alerts", "DeleteAlertByUuid", "t_root", "a1") }

Rate1 == { On("groups", "FindGroups", "t_root") }

Work(calls, requests, time, maxBurst) ==
  [calls |-> calls, requests |-> requests, time |-> time, burst |-> maxBurst]

MCWorkloads ==
  << Work(Access1, 3, 0, 9),
     Work(Accounts1, 3, 0, 9),
     Work(Lists1, 3, 0, 9),
     Work(Alerts1, 4, 1, 9),
     Work(Rate1, 5, 3, 2) >>

MCProbes ==
  { <<"users">>, <<"users", "bob">>, <<"users", "bob", "tokens">>, <<"policies", "p">> }

MCSymmetry == Permutations(Clients)

=============================================================================
