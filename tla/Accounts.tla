------------------------------ MODULE Accounts -------------------------------
(***************************************************************************)
(* The tables that decide who may do what: users, groups, memberships,     *)
(* tokens and policies, and the things, which bring policies with them.    *)
(*                                                                         *)
(* Every operator with primed variables is one statement, or one           *)
(* transaction whose statements nobody can see apart.  A statement that    *)
(* violates a constraint leaves the tables as they are, as does one that   *)
(* finds no row; the handler answers an error then.                        *)
(***************************************************************************)
EXTENDS AccessRules, Functions

CONSTANTS
  UserIds, GroupIds, TokenIds, ThingIds,  \* uuids the database may generate;
                   \* the bounds on rows of each kind
  ShortNames       \* names of three bytes or less; "" is none given

ASSUME IdsAssumption ==
  /\ "" \in ShortNames
  /\ UserIds \subseteq STRING \ {"me"}
  /\ GroupIds \subseteq STRING
  /\ ThingIds \subseteq STRING

\* Literals are strings, which the provers have to be told.
ASSUME LiteralsAssumption ==
  {Wild, "users", "me", "rate", "things", "policies", "root", "g_things", "g_bob", "bob"}
    \subseteq STRING

VARIABLES
  users,           \* name of every user
  groups,          \* name of every group
  members,         \* the table user_groups
  tokens,          \* the user of every token
  policies,        \* the rule of every policy
  things,          \* the user who created it, or Nobody
  issued,          \* the uuids generated so far, other than policies'
  lastPolicy       \* number of policies' uuids generated so far

tables == <<users, groups, members, tokens, policies, things, issued, lastPolicy>>

Root   == "root"         \* user and group of this name have the same uuid
Nobody == "NULL"

Actions == {"create", "read", "update", "delete"}

\* A row of group_policies, as its types and CHECKs allow it.
GroupPolicy == [group : STRING, priority : Nat, effect : {"allow", "deny"},
                action : Actions, resource : Path]

Rule(g, effect, action, resource) ==
  [group |-> g, priority |-> 0, effect |-> effect, action |-> action,
   resource |-> resource]

(***************************************************************************)
(* The policies the migrations install, and those CreateUser gives to the  *)
(* personal group of a user.                                               *)
(***************************************************************************)
MigratedRules ==
  << Rule(Root, "allow", "create", <<Wild>>),
     Rule(Root, "allow", "read",   <<Wild>>),
     Rule(Root, "allow", "update", <<Wild>>),
     Rule(Root, "allow", "delete", <<Wild>>),
     Rule("g_things", "allow", "create", <<"things">>),
     Rule("g_things", "allow", "read",   <<"things">>),
     Rule("g_things", "allow", "read",   <<"things", Wild>>),
     Rule("g_things", "allow", "update", <<"things", Wild>>),
     Rule("g_things", "allow", "delete", <<"things", Wild>>) >>

PersonalRules(u, g) ==
  << Rule(g, "allow", "read",   <<"users", "me">>),
     Rule(g, "allow", "create", <<"users", u>>),
     Rule(g, "allow", "read",   <<"users", u>>),
     Rule(g, "allow", "update", <<"users", u>>),
     Rule(g, "allow", "delete", <<"users", u>>),
     Rule(g, "allow", "create", <<"users", u, Wild>>),
     Rule(g, "allow", "read",   <<"users", u, Wild>>),
     Rule(g, "allow", "update", <<"users", u, Wild>>),
     Rule(g, "allow", "delete", <<"users", u, Wild>>),
     Rule(g, "deny",  "update", <<"users", u, "rate">>) >>

ThingRules(g, t) ==
  << Rule(g, "allow", "create", <<"things", t, Wild>>),
     Rule(g, "allow", "read",   <<"things", t, Wild>>),
     Rule(g, "allow", "update", <<"things", t, Wild>>),
     Rule(g, "allow", "delete", <<"things", t, Wild>>) >>

\* The database after the migrations, with one more user, who has a token and
\* was given the right to manage policies.
DelegatedRules ==
  << Rule("g_bob", "allow", "create", <<"policies">>),
     Rule("g_bob", "allow", "update", <<"policies", Wild>>),
     Rule("g_bob", "allow", "delete", <<"policies", Wild>>) >>

AccountsInit ==
  LET rules == MigratedRules \o PersonalRules("bob", "g_bob") \o DelegatedRules
  IN  /\ users = [u \in {Root, "bob"} |-> u]
      /\ groups = [g \in {Root, "g_things", "g_bob"} |->
                     IF g = Root THEN Root ELSE IF g = "g_bob" THEN "bob" ELSE "things"]
      /\ members = {<<Root, Root>>, <<"bob", "g_bob">>}
      /\ tokens = [t \in {"t_root", "t_bob"} |-> IF t = "t_root" THEN Root ELSE "bob"]
      /\ policies = rules
      /\ things = [t \in {} |-> Nobody]
      /\ issued = {Root, "bob", "g_things", "g_bob", "t_root", "t_bob"}
      /\ lastPolicy = Len(rules)

-----------------------------------------------------------------------------
RulesOf(u) ==
  {policies[p] : p \in {p \in DOMAIN policies : <<u, policies[p].group>> \in members}}

\* The rules a token is judged by; one that is gone has no row and no rule.
TokenRules(token) == IF token \in DOMAIN tokens THEN RulesOf(tokens[token]) ELSE {}

\* ExplainUserTokenAccessMany for one resource; the caller takes no row for a
\* refusal.
Decides(token, action, resource) == Access(TokenRules(token), action, resource)

New(ids)  == CHOOSE id \in ids : id \notin issued
Left(ids) == \E id \in ids : id \notin issued

\* A table with one more row.
With(table, id, row) ==
  [x \in DOMAIN table \cup {id} |-> IF x = id THEN row ELSE table[x]]

InsertPolicies(rules) ==
  /\ policies' = [p \in DOMAIN policies \cup (lastPolicy + 1 .. lastPolicy + Len(rules)) |->
                    IF p > lastPolicy THEN rules[p - lastPolicy] ELSE policies[p]]
  /\ lastPolicy' = lastPolicy + Len(rules)

-----------------------------------------------------------------------------
(***************************************************************************)
(* Users and tokens.                                                       *)
(***************************************************************************)
CreateUser(name) ==
  LET u == New(UserIds)
      g == New(GroupIds)
  IN  IF name \in Range(users) \cup Range(groups)
      THEN UNCHANGED tables
      ELSE /\ Left(UserIds) /\ Left(GroupIds)
           /\ users' = With(users, u, name)
           /\ groups' = With(groups, g, name)
           /\ members' = members \cup {<<u, g>>}
           /\ InsertPolicies(PersonalRules(u, g))
           /\ issued' = issued \cup {u, g}
           /\ UNCHANGED <<tokens, things>>

AddTokenToUser(u) ==
  IF u \notin DOMAIN users
  THEN UNCHANGED tables
  ELSE /\ Left(TokenIds)
       /\ tokens' = With(tokens, New(TokenIds), u)
       /\ issued' = issued \cup {New(TokenIds)}
       /\ UNCHANGED <<users, groups, members, policies, things, lastPolicy>>

DeleteTokenFromUser(u, t) ==
  /\ tokens' = Restrict(tokens, {x \in DOMAIN tokens : x # t \/ tokens[x] # u})
  /\ UNCHANGED <<users, groups, members, policies, things, issued, lastPolicy>>

\* Mutant: policies stay behind when their group goes.
RemoveWithoutPolicies(us, gs) ==
  /\ users' = Restrict(users, DOMAIN users \ us)
  /\ groups' = Restrict(groups, DOMAIN groups \ gs)
  /\ members' = {m \in members : m[1] \notin us /\ m[2] \notin gs}
  /\ tokens' = Restrict(tokens, {t \in DOMAIN tokens : tokens[t] \notin us})
  /\ things' = [t \in DOMAIN things |-> IF things[t] \in us THEN Nobody ELSE things[t]]
  /\ UNCHANGED <<policies, issued, lastPolicy>>

\* Users and groups go, with all that refers to them.
Remove(us, gs) ==
  /\ users' = Restrict(users, DOMAIN users \ us)
  /\ groups' = Restrict(groups, DOMAIN groups \ gs)
  /\ members' = {m \in members : m[1] \notin us /\ m[2] \notin gs}
  /\ tokens' = Restrict(tokens, {t \in DOMAIN tokens : tokens[t] \notin us})
  /\ policies' = Restrict(policies,
                   {p \in DOMAIN policies : policies[p].group \notin gs})
  /\ things' = [t \in DOMAIN things |-> IF things[t] \in us THEN Nobody ELSE things[t]]
  /\ UNCHANGED <<issued, lastPolicy>>

\* The group that goes with a user is the one of the same name, whoever made
\* it: neither SetUserName nor SetGroupName touches the other table.
DeleteUser(u) ==
  Remove({u}, {g \in DOMAIN groups : u \in DOMAIN users /\ groups[g] = users[u]})

(***************************************************************************)
(* UpdateUser: what its DELETE finds, and the rest of the transaction.     *)
(* Another transaction may change the memberships in between: those it     *)
(* adds stay, and those it adds first fail this one.  A new name that is   *)
(* too short is passed over in silence.                                    *)
(***************************************************************************)
MembershipsToRemove(u, change) ==
  {m \in members : m[1] = u /\ (change.replace \/ m[2] \in change.remove)}

UpdateUser(u, change, removed) ==
  LET added == {<<u, g>> : g \in change.add}
      renamed == change.name \notin ShortNames
      taken == \E v \in DOMAIN users \ {u} : users[v] = change.name
  IN  IF \/ u \notin DOMAIN users
         \/ renamed /\ taken
         \/ ~(change.add \subseteq DOMAIN groups)
         \/ added \cap (members \ removed) # {}
      THEN UNCHANGED tables
      ELSE /\ users' = IF renamed THEN [users EXCEPT ![u] = change.name] ELSE users
           /\ members' = (members \ removed) \cup added
           /\ UNCHANGED <<groups, tokens, policies, things, issued, lastPolicy>>

(***************************************************************************)
(* Groups.                                                                 *)
(***************************************************************************)
CreateGroup(name) ==
  IF name \in Range(groups)
  THEN UNCHANGED tables
  ELSE /\ Left(GroupIds)
       /\ groups' = With(groups, New(GroupIds), name)
       /\ issued' = issued \cup {New(GroupIds)}
       /\ UNCHANGED <<users, members, tokens, policies, things, lastPolicy>>

SetGroupName(g, name) ==
  IF g \notin DOMAIN groups \/ \E h \in DOMAIN groups \ {g} : groups[h] = name
  THEN UNCHANGED tables
  ELSE /\ groups' = [groups EXCEPT ![g] = name]
       /\ UNCHANGED <<users, members, tokens, policies, things, issued, lastPolicy>>

DeleteGroup(g) == Remove({}, {g})

(***************************************************************************)
(* Policies.  UpdatePolicy runs a statement for each field it is given, in *)
(* this order, and every one of them has to respect the constraints.       *)
(***************************************************************************)
CreatePolicy(rule) ==
  IF rule.group \notin DOMAIN groups \/ rule \in Range(policies)
  THEN UNCHANGED tables
  ELSE /\ InsertPolicies(<<rule>>)
       /\ UNCHANGED <<users, groups, members, tokens, things, issued>>

Fields == <<"group", "priority", "effect", "action", "resource">>

Changed(rule, change, fields) ==
  [f \in DOMAIN rule |->
     IF f \in fields \cap DOMAIN change THEN change[f] ELSE rule[f]]

SetPolicy(p, change) ==
  LET After(k) == Changed(policies[p], change, {Fields[i] : i \in 1 .. k})
  IN  IF \/ p \notin DOMAIN policies
         \/ \E k \in 1 .. Len(Fields) :
              \/ After(k).group \notin DOMAIN groups
              \/ \E q \in DOMAIN policies \ {p} : policies[q] = After(k)
      THEN UNCHANGED tables
      ELSE /\ policies' = [policies EXCEPT ![p] = After(Len(Fields))]
           /\ UNCHANGED <<users, groups, members, tokens, things, issued, lastPolicy>>

DeletePolicy(p) ==
  /\ policies' = Restrict(policies, DOMAIN policies \ {p})
  /\ UNCHANGED <<users, groups, members, tokens, things, issued, lastPolicy>>

(***************************************************************************)
(* Things.  The policies of a new thing go to a group of its creator whose *)
(* uuid is that of the user with its name, which only root has; without    *)
(* one their group_uuid is NULL, and the statement fails, as it does when  *)
(* one of these policies is there already.                                 *)
(***************************************************************************)
CreateThing(author) ==
  LET own == {g \in DOMAIN groups : /\ <<author, g>> \in members
                                     /\ g \in DOMAIN users /\ users[g] = groups[g]}
      t == New(ThingIds)
  IN  IF author \notin DOMAIN users \/ own = {}
      THEN UNCHANGED tables
      ELSE /\ Left(ThingIds)
           /\ \E g \in own :
                IF Range(ThingRules(g, t)) \cap Range(policies) # {}
                THEN UNCHANGED tables
                ELSE /\ things' = With(things, t, author)
                     /\ InsertPolicies(ThingRules(g, t))
                     /\ issued' = issued \cup {t}
                     /\ UNCHANGED <<users, groups, members, tokens>>

DeleteThing(t) ==
  /\ things' = Restrict(things, DOMAIN things \ {t})
  /\ UNCHANGED <<users, groups, members, tokens, policies, issued, lastPolicy>>

-----------------------------------------------------------------------------
(***************************************************************************)
(* What the constraints of the tables promise: everything refers to what   *)
(* exists, names and rules are unique.                                     *)
(***************************************************************************)
AccountsTypeOK ==
  /\ DOMAIN users \cup DOMAIN groups \cup DOMAIN tokens \cup DOMAIN things
       \subseteq issued
  /\ members \subseteq (DOMAIN users) \X (DOMAIN groups)
  /\ Range(tokens) \subseteq DOMAIN users
  /\ DOMAIN policies \subseteq 1 .. lastPolicy
  /\ \A p \in DOMAIN policies :
       /\ policies[p] \in GroupPolicy
       /\ policies[p].group \in DOMAIN groups
       /\ \A q \in DOMAIN policies : policies[p] = policies[q] => p = q
  /\ Range(things) \subseteq DOMAIN users \cup {Nobody}
  /\ \A u, v \in DOMAIN users : users[u] = users[v] => u = v
  /\ \A g, h \in DOMAIN groups : groups[g] = groups[h] => g = h

=============================================================================
