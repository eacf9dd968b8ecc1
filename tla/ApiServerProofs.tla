--------------------------- MODULE ApiServerProofs ---------------------------
(***************************************************************************)
(* Proofs about the API server.                                            *)
(*                                                                         *)
(* First the access rules on their own: the readings of them agree, for    *)
(* all rules and resources.  Then the server.  Its state is correct for    *)
(* four reasons that build on each other: every statement leaves rows that *)
(* refer to rows (TablesTyped); a request is only where its operation      *)
(* leads (RequestsPlaced); so what its cache holds was granted to it       *)
(* (Grants), and what a merge of alerts has seen is not live unless        *)
(* someone revived it (AlertsSettled).  The rate controller is a matter of *)
(* counting the tokens in the buckets of a visitor (Budget).               *)
(***************************************************************************)
EXTENDS ApiServer, FiniteSetTheorems, WellFoundedInduction, TLAPS

-----------------------------------------------------------------------------
(***************************************************************************)
(* The access rules.                                                       *)
(***************************************************************************)
(* A path as the provers need it: a function on its places.                *)
LEMMA PathFacts ==
    ASSUME NEW r \in Path
    PROVE  /\ r \in Seq(STRING) /\ Len(r) \in Nat /\ Len(r) >= 1
           /\ DOMAIN r = 1 .. Len(r)
           /\ \A i \in 1 .. Len(r) : r[i] \in STRING
<1>1. r \in Seq(STRING) /\ Len(r) > 0
  BY DEF Path
<1> QED BY <1>1

(* Among some priorities there is a least one.                             *)
LEMMA LeastNatural ==
    ASSUME NEW S \in SUBSET Nat, S # {}
    PROVE  \E x \in S : \A y \in S : x <= y
<1> DEFINE R == OpToRel(<, Nat)
<1>1. IsWellFoundedOn(R, Nat)
  BY NatLessThanWellFounded
<1>2. \A x, y \in Nat : <<y, x>> \in R <=> y < x
  BY DEF OpToRel
<1> HIDE DEF R
<1>3. PICK x \in S : \A y \in S : ~(<<y, x>> \in R)
  BY <1>1, WFMin
<1>4. ASSUME NEW y \in S PROVE x <= y
  <2>1. x \in Nat /\ y \in Nat /\ ~(y < x)
    BY <1>2, <1>3
  <2> QED BY <2>1
<1> QED BY <1>3, <1>4

(* Without a wildcard in the pattern, LIKE is equality.                    *)
LEMMA LikeWithoutWildcard ==
    ASSUME NEW r \in Path, NEW p \in Path, Wildcards(p) = {}, Like(r, p)
    PROVE  r = p
<1>1. PICK at \in [1 .. Len(r) -> 1 .. Len(p)] : Laid(at, r, p)
  BY DEF Like
<1>2. \A i \in 1 .. Len(p) : p[i] # Wild
  BY PathFacts DEF Wildcards
<1>3. /\ at[1] = 1 /\ at[Len(r)] = Len(p)
      /\ \A i \in 1 .. Len(r) : /\ at[i] \in 1 .. Len(p) /\ p[at[i]] = r[i]
                                /\ i > 1 => at[i] = at[i-1] + 1
  <2>1. \A i \in 1 .. Len(r) : at[i] \in 1 .. Len(p) /\ p[at[i]] # Wild
    BY <1>1, <1>2
  <2> QED BY <1>1, <2>1 DEF Laid
<1> DEFINE Off == {i \in 1 .. Len(r) : at[i] # i}
<1>4. Off = {}
  <2> SUFFICES ASSUME Off # {} PROVE FALSE
    OBVIOUS
  <2>1. Off \in SUBSET Nat
    BY PathFacts
  <2>2. PICK i \in Off : \A j \in Off : i <= j
    BY <2>1, LeastNatural
  <2>3. i \in 1 .. Len(r) /\ at[i] # i /\ i # 1
    BY <1>3
  <2>4. i - 1 \in 1 .. Len(r) /\ i - 1 \notin Off
    BY <2>2, <2>3, PathFacts
  <2>5. at[i-1] = i - 1
    BY <2>4
  <2>6. at[i] = at[i-1] + 1
    BY <1>3, <2>3, PathFacts
  <2> QED BY <2>3, <2>5, <2>6
<1>5. Len(r) = Len(p)
  <2>1. Len(r) \in 1 .. Len(r)
    BY PathFacts
  <2> QED BY <1>3, <1>4, <2>1
<1>6. \A i \in 1 .. Len(r) : r[i] = p[i]
  BY <1>3, <1>4
<1> QED BY <1>5, <1>6, PathFacts

(* What policyResourceCovers finds is so: a resource the candidate matches *)
(* is matched by the existing pattern.                                     *)
LEMMA CoversSound ==
    ASSUME NEW existing \in Path, NEW candidate \in Path, NEW r \in Path,
           policyResourceCovers(existing, candidate), Like(r, candidate)
    PROVE  Like(r, existing)
<1>1. CASE existing = <<Wild>>
  <2> DEFINE at == [i \in 1 .. Len(r) |-> 1]
  <2>1. at \in [1 .. Len(r) -> 1 .. Len(existing)]
    BY <1>1
  <2>2. Laid(at, r, existing)
    BY <1>1, PathFacts DEF Laid
  <2> QED BY <2>1, <2>2 DEF Like
<1>2. CASE existing = candidate
  BY <1>2
<1>3. CASE /\ Wildcards(existing) = {Len(existing)}
           /\ Len(candidate) >= Len(existing)
           /\ \A i \in 1 .. Len(existing) - 1 : candidate[i] = existing[i]
  <2>1. PICK to \in [1 .. Len(r) -> 1 .. Len(candidate)] : Laid(to, r, candidate)
    BY DEF Like
  <2> DEFINE n == Len(existing)
             at == [i \in 1 .. Len(r) |-> IF to[i] < n THEN to[i] ELSE n]
  <2>2. /\ n \in Nat /\ n >= 1 /\ Len(r) \in Nat /\ Len(r) >= 1
        /\ Len(candidate) \in Nat /\ Len(candidate) >= n
        /\ existing[n] = Wild
    BY <1>3, PathFacts DEF Wildcards
  <2>3. \A i \in 1 .. Len(r) : to[i] \in Nat /\ to[i] >= 1
    BY <2>1, <2>2
  <2>4. \A i \in 1 .. Len(r) : to[i] < n => existing[to[i]] = candidate[to[i]]
    <3>1. \A k \in 1 .. n - 1 : candidate[k] = existing[k]
      BY <1>3
    <3> HIDE DEF n
    <3>2. ASSUME NEW i \in 1 .. Len(r), to[i] < n
          PROVE  to[i] \in 1 .. n - 1
      BY <2>2, <2>3, <3>2
    <3> QED BY <3>1, <3>2
  <2>5. at \in [1 .. Len(r) -> 1 .. n]
    BY <2>2, <2>3
  <2>6. at[1] = 1 /\ at[Len(r)] = n
    <3>1. to[1] = 1 /\ to[Len(r)] = Len(candidate)
      BY <2>1 DEF Laid
    <3>2. 1 \in 1 .. Len(r) /\ Len(r) \in 1 .. Len(r)
      BY <2>2
    <3>3. /\ at[1] = (IF to[1] < n THEN to[1] ELSE n)
          /\ at[Len(r)] = (IF to[Len(r)] < n THEN to[Len(r)] ELSE n)
      BY <3>2
    <3> HIDE DEF at, n
    <3> QED BY <2>2, <3>1, <3>3
  <2>7. ASSUME NEW i \in 1 .. Len(r)
        PROVE  /\ existing[at[i]] \in {Wild, r[i]}
               /\ i > 1 => \/ at[i] = at[i-1] + 1
                           \/ at[i] = at[i-1] /\ existing[at[i]] = Wild
    <3>1. /\ candidate[to[i]] \in {Wild, r[i]}
          /\ i > 1 => \/ to[i] = to[i-1] + 1
                      \/ to[i] = to[i-1] /\ candidate[to[i]] = Wild
      BY <2>1 DEF Laid
    <3>2. existing[at[i]] \in {Wild, r[i]}
      <4>1. CASE to[i] < n
        BY <2>4, <3>1, <4>1
      <4>2. CASE ~(to[i] < n)
        BY <2>2, <4>2
      <4> QED BY <4>1, <4>2
    <3>3. ASSUME i > 1
          PROVE  \/ at[i] = at[i-1] + 1
                 \/ at[i] = at[i-1] /\ existing[at[i]] = Wild
      <4>1. i - 1 \in 1 .. Len(r)
        BY <2>2, <3>3
      <4>2. /\ to[i] \in Nat /\ to[i-1] \in Nat
            /\ at[i] = (IF to[i] < n THEN to[i] ELSE n)
            /\ at[i-1] = (IF to[i-1] < n THEN to[i-1] ELSE n)
        BY <2>3, <4>1
      <4> HIDE DEF at
      <4>3. CASE to[i] = to[i-1] + 1
        BY <2>2, <4>2, <4>3
      <4>4. CASE to[i] = to[i-1] /\ candidate[to[i]] = Wild
        BY <2>2, <2>4, <4>2, <4>4
      <4> QED BY <3>1, <3>3, <4>3, <4>4
    <3> QED BY <3>2, <3>3
  <2>8. Laid(at, r, existing)
    BY <2>6, <2>7 DEF Laid
  <2> QED BY <2>5, <2>8 DEF Like
<1>4. CASE Wildcards(candidate) = {} /\ sqlLikeMatch(existing, candidate)
  <2>1. r = candidate
    BY <1>4, LikeWithoutWildcard
  <2>2. Like(candidate, existing)
    BY <1>4 DEF sqlLikeMatch
  <2> QED BY <2>1, <2>2
<1> QED BY <1>1, <1>2, <1>3, <1>4 DEF policyResourceCovers

-----------------------------------------------------------------------------
(* A rule that policyShadows refuses decides nothing: with it or without   *)
(* it, whoever has the rule that shadows it has the same access.           *)
THEOREM ShadowedDecidesNothing ==
    ASSUME NEW rules, NEW rule, NEW existing \in rules, NEW action, NEW r \in Path,
           \A p \in rules \cup {rule} : /\ p.priority \in Int /\ p.resource \in Path
                                        /\ p.effect \in {"allow", "deny"},
           existing.action = rule.action,
           policyShadows(existing, rule)
    PROVE  Access(rules \cup {rule}, action, r) <=> Access(rules, action, r)
<1> DEFINE with    == Matching(rules \cup {rule}, action, r)
           without == Matching(rules, action, r)
<1>1. CASE rule \notin with
  <2>1. with = without
    BY <1>1 DEF Matching
  <2> QED BY <2>1 DEF Access
<1>2. CASE rule \in with
  <2>1. with = without \cup {rule}
    BY <1>2 DEF Matching
  <2>2. existing \in without
    <3>1. rule.action = action /\ Like(r, rule.resource)
      BY <1>2 DEF Matching
    <3>2. Like(r, existing.resource)
      BY <3>1, CoversSound DEF policyShadows
    <3> QED BY <3>1, <3>2 DEF Matching
  <2>3. without \subseteq rules
    BY DEF Matching
  <2> HIDE DEF with, without
  <2>4. ASSUME NEW p \in with, p.effect = "allow", \A q \in with : ~Before(q, p)
        PROVE  \E s \in without : s.effect = "allow" /\ \A q \in without : ~Before(q, s)
    <3>1. CASE p \in without
      BY <2>1, <2>4, <3>1
    <3>2. CASE p = rule
      <4>1. existing.priority = rule.priority /\ existing.effect = "allow"
        BY <2>1, <2>2, <2>4, <3>2 DEF Before, policyShadows
      <4>2. \A q \in without : ~Before(q, existing)
        BY <2>1, <2>3, <2>4, <3>2, <4>1 DEF Before
      <4> QED BY <2>2, <4>1, <4>2
    <3> QED BY <2>1, <2>4, <3>1, <3>2
  <2>5. ASSUME NEW p \in without, p.effect = "allow", \A q \in without : ~Before(q, p)
        PROVE  \E s \in with : s.effect = "allow" /\ \A q \in with : ~Before(q, s)
    <3>1. ~Before(rule, p)
      BY <2>2, <2>3, <2>5 DEF Before, policyShadows
    <3> QED BY <2>1, <2>5, <3>1
  <2> QED BY <2>4, <2>5 DEF Access, with, without
<1> QED BY <1>1, <1>2

(* What a listing shows may be read: an allow and no deny among the rules  *)
(* that match leaves only allows for the first of them.                    *)
THEOREM ListedMayBeRead ==
    ASSUME NEW rules, NEW r, Listed(rules, r),
           \A p \in rules : p.priority \in Nat /\ p.effect \in {"allow", "deny"}
    PROVE  Access(rules, "read", r)
<1> DEFINE found == Matching(rules, "read", r)
<1>1. found # {} /\ \A p \in found : p \in rules /\ p.effect = "allow"
  BY DEF Listed, Matching
<1> HIDE DEF found
<1> DEFINE ranks == {p.priority : p \in found}
<1>2. ranks \in SUBSET Nat /\ ranks # {}
  BY <1>1
<1>3. PICK x \in ranks : \A y \in ranks : x <= y
  BY <1>2, LeastNatural
<1>4. PICK p \in found : p.priority = x
  BY <1>3
<1>5. \A q \in found : ~Before(q, p)
  BY <1>1, <1>3, <1>4 DEF Before
<1> QED BY <1>1, <1>5 DEF Access, found

-----------------------------------------------------------------------------
(***************************************************************************)
(* The tables.                                                             *)
(***************************************************************************)
References ==
  /\ DOMAIN users \cup DOMAIN groups \cup DOMAIN tokens \cup DOMAIN things \subseteq issued
  /\ members \subseteq (DOMAIN users) \X (DOMAIN groups)
  /\ Range(tokens) \subseteq DOMAIN users
  /\ Range(things) \subseteq DOMAIN users \cup {Nobody}

PolicyRows ==
  /\ DOMAIN policies \subseteq 1 .. lastPolicy
  /\ \A p \in DOMAIN policies : policies[p] \in GroupPolicy /\ policies[p].group \in DOMAIN groups
  /\ \A p, q \in DOMAIN policies : policies[p] = policies[q] => p = q

Names ==
  /\ \A u, v \in DOMAIN users : users[u] = users[v] => u = v
  /\ \A g, h \in DOMAIN groups : groups[g] = groups[h] => g = h

(* Type correctness and the types of the counter and of the uuids.         *)
TablesTyped ==
  /\ References /\ PolicyRows /\ Names
  /\ lastPolicy \in Nat
  /\ DOMAIN groups \subseteq STRING

LEMMA TablesParts == TablesTyped => AccountsTypeOK
  BY DEF TablesTyped, References, PolicyRows, Names, AccountsTypeOK

(* A uuid that is generated is new.                                        *)
LEMMA NewIsNew ==
    ASSUME NEW ids, Left(ids)
    PROVE  New(ids) \in ids /\ New(ids) \notin issued
  BY Zenon DEF Left, New

(* The rows an INSERT adds to group_policies.                              *)
LEMMA Inserted ==
    ASSUME PolicyRows, lastPolicy \in Nat, NEW rules, NEW n \in Nat,
           Len(rules) = n, InsertPolicies(rules)
    PROVE  /\ lastPolicy' = lastPolicy + n
           /\ DOMAIN policies' = DOMAIN policies \cup (lastPolicy + 1 .. lastPolicy + n)
           /\ \A p \in DOMAIN policies : policies'[p] = policies[p]
           /\ \A i \in 1 .. n : policies'[lastPolicy + i] = rules[i]
<1>1. /\ lastPolicy' = lastPolicy + n
      /\ policies' = [p \in DOMAIN policies \cup (lastPolicy + 1 .. lastPolicy + n) |->
                        IF p > lastPolicy THEN rules[p - lastPolicy] ELSE policies[p]]
  BY DEF InsertPolicies
<1>2. DOMAIN policies' = DOMAIN policies \cup (lastPolicy + 1 .. lastPolicy + n)
  BY <1>1
<1>3. ASSUME NEW p \in DOMAIN policies
      PROVE  policies'[p] = policies[p]
  <2>1. p \in Nat /\ ~(p > lastPolicy)
    BY DEF PolicyRows
  <2> QED BY <1>1, <2>1
<1>4. ASSUME NEW i \in 1 .. n
      PROVE  policies'[lastPolicy + i] = rules[i]
  <2>1. /\ lastPolicy + i \in lastPolicy + 1 .. lastPolicy + n
        /\ lastPolicy + i > lastPolicy /\ (lastPolicy + i) - lastPolicy = i
    OBVIOUS
  <2>2. policies'[lastPolicy + i] = rules[(lastPolicy + i) - lastPolicy]
    BY <1>1, <2>1
  <2> QED BY <2>1, <2>2
<1> QED BY <1>1, <1>2, <1>3, <1>4

(* They keep the constraints if they are rows, differ, and are new.        *)
LEMMA InsertKeepsRows ==
    ASSUME PolicyRows, lastPolicy \in Nat, NEW rules, NEW n \in Nat,
           Len(rules) = n, InsertPolicies(rules), DOMAIN groups \subseteq DOMAIN groups',
           \A i \in 1 .. n : rules[i] \in GroupPolicy /\ rules[i].group \in DOMAIN groups',
           \A i, j \in 1 .. n : rules[i] = rules[j] => i = j,
           \A i \in 1 .. n : \A p \in DOMAIN policies : policies[p] # rules[i]
    PROVE  PolicyRows' /\ lastPolicy' \in Nat
<1>1. /\ lastPolicy' = lastPolicy + n
      /\ DOMAIN policies' = DOMAIN policies \cup (lastPolicy + 1 .. lastPolicy + n)
      /\ \A p \in DOMAIN policies : policies'[p] = policies[p]
      /\ \A i \in 1 .. n : policies'[lastPolicy + i] = rules[i]
  BY Inserted
<1>2. ASSUME NEW p \in DOMAIN policies'
      PROVE  \/ p \in DOMAIN policies /\ policies'[p] = policies[p]
             \/ \E i \in 1 .. n : p = lastPolicy + i /\ policies'[p] = rules[i]
  <2>1. CASE p \in DOMAIN policies
    BY <1>1, <2>1
  <2>2. CASE p \in lastPolicy + 1 .. lastPolicy + n
    <3>1. p - lastPolicy \in 1 .. n /\ p = lastPolicy + (p - lastPolicy)
      BY <2>2
    <3> QED BY <1>1, <3>1
  <2> QED BY <1>1, <2>1, <2>2
<1>3. DOMAIN policies' \subseteq 1 .. lastPolicy'
  BY <1>1 DEF PolicyRows
<1>4. \A p \in DOMAIN policies' : policies'[p] \in GroupPolicy /\ policies'[p].group \in DOMAIN groups'
  BY <1>2 DEF PolicyRows
<1>5. ASSUME NEW p \in DOMAIN policies', NEW q \in DOMAIN policies', policies'[p] = policies'[q]
      PROVE  p = q
  <2>1. CASE p \in DOMAIN policies /\ q \in DOMAIN policies
    BY <1>1, <1>5, <2>1 DEF PolicyRows
  <2>2. CASE p \notin DOMAIN policies /\ q \notin DOMAIN policies
    BY <1>2, <1>5, <2>2
  <2>3. CASE ~(p \in DOMAIN policies <=> q \in DOMAIN policies)
    BY <1>2, <1>5, <2>3
  <2> QED BY <2>1, <2>2, <2>3
<1> QED BY <1>1, <1>3, <1>4, <1>5 DEF PolicyRows

-----------------------------------------------------------------------------
(***************************************************************************)
(* The inductive invariant of the server.                                  *)
(***************************************************************************)
RequestFields == {"pc", "call", "cache", "author", "bucket", "want", "current",
                  "next", "removed", "known"}
AlertColumns  == {"event", "status", "fresh", "duplicate"}

Places == {"idle", "check", "author", "load", "store", "allow", "find", "grant",
           "reread", "validate", "select", "merge", "run"}

PolicyOps == {"AddPolicy", "UpdatePolicyByUuid", "DeletePolicyByUuid"}

(* A request is at a place that is on the way of its operation, with what  *)
(* the code has read by then.                                              *)
PlaceOK(r) ==
  /\ DOMAIN r = RequestFields
  /\ r.pc \in Places
  /\ r.pc # "idle" => r.call \in Load.calls
  /\ r.pc = "find" => r.call.op \in PolicyOps \ {"AddPolicy"}
  /\ r.pc = "grant" => r.call.op \in PolicyOps
  /\ r.pc = "reread" => r.call.op = "UpdatePolicyByUuid"
  /\ r.pc = "select" => r.call.op = "UpdateUserByUuid"
  /\ r.pc = "merge" => r.call.op = "CreateAlert"
  /\ r.pc = "validate" => r.call.op \in PolicyOps \ {"DeletePolicyByUuid"}
  /\ r.pc = "validate" /\ r.call.op = "UpdatePolicyByUuid" => r.next \in GroupPolicy

RequestsPlaced ==
  /\ load \in DOMAIN Workloads
  /\ DOMAIN req = Clients /\ DOMAIN seen = Clients
  /\ \A c \in Clients : PlaceOK(req[c])

(* What the handler of a policy has to authorise.                          *)
Needed(r) ==
  IF r.call.op = "AddPolicy" THEN {Pair(r.call.rule)}
  ELSE IF r.call.op = "UpdatePolicyByUuid"
  THEN {Pair(r.current), Pair(Changed(r.current, r.call.change, DOMAIN r.current))}
  ELSE IF r.call.op = "DeletePolicyByUuid" THEN {Pair(r.current)}
  ELSE {}

(* The cache of a request holds what was allowed under one of the sets of  *)
(* rules S; the scope of the operation is in it after the first check, all *)
(* that is needed after the last grant.                                    *)
GrantOK(r, S) ==
  r.pc # "idle" =>
    /\ TokenRules(r.call.token) \in S
    /\ \A k \in r.cache : \E rules \in S : Access(rules, k[1], k[2])
    /\ r.pc # "check" => Scope(r.call) \in r.cache
    /\ r.pc \in {"grant", "reread", "validate", "run"} /\ r.call.op \in PolicyOps \ {"AddPolicy"}
         => r.current \in GroupPolicy
    /\ r.pc = "grant" => /\ \E T : r.want \in Seq(T)
                         /\ r.want # <<>>
                         /\ Needed(r) \subseteq r.cache \cup Range(r.want)
    /\ r.pc \in {"reread", "validate", "run"} => Needed(r) \subseteq r.cache

Grants == \A c \in Clients : GrantOK(req[c], seen[c])

(* What the UPDATE of a merge has seen is not open for its event, unless   *)
(* someone brought it back to life.                                        *)
MergeOK(r) ==
  r.pc = "run" /\ r.call.op = "CreateAlert" =>
    /\ r.known \subseteq raised
    /\ \A a \in r.known : a \in LiveAlerts(r.call.event) => a \in disturbed

(* A merge finds one alert at most, a shelved one included, unless someone *)
(* is to blame.                                                            *)
NoLiveTwins ==
  \A e : \A a, b \in LiveAlerts(e) : a # b => a \in disturbed \/ b \in disturbed

AlertsSettled ==
  /\ \A a \in DOMAIN alerts : DOMAIN alerts[a] = AlertColumns
  /\ \A c \in Clients : MergeOK(req[c])
  /\ NoLiveTwins

Bucket(V, n) == [of : V, left : 0 .. n, recent : BOOLEAN]

(* The tokens that are left in the buckets of a visitor.                   *)
Chips(bs, n, v) == {k \in (1 .. Len(bs)) \X (1 .. n) :
                      bs[k[1]].of = v /\ k[2] <= bs[k[1]].left}

Visitors == {k.token : k \in Load.calls}

RateTables ==
  /\ burst \in Nat
  /\ admitted \in [Visitors -> Nat] /\ regained \in [Visitors -> Nat]
  /\ buckets \in Seq(Bucket(Visitors, burst))
  /\ DOMAIN visitors \subseteq Visitors
  /\ \A v \in DOMAIN visitors : visitors[v] \in DOMAIN buckets /\ buckets[visitors[v]].of = v
  /\ doomed \subseteq DOMAIN visitors

(* A request that is about to take from a bucket holds one of its visitor. *)
HoldsBucket(r) ==
  r.pc = "allow" => r.bucket \in DOMAIN buckets /\ buckets[r.bucket].of = r.call.token

(* A visitor that is not in the map may still get a new burst.             *)
Budget ==
  \A v \in Visitors :
    admitted[v] + Cardinality(Chips(buckets, burst, v)) + (IF v \in DOMAIN visitors THEN 0 ELSE burst)
      <= burst + regained[v]

RateOK == /\ RateTables
          /\ Budget
          /\ \A c \in Clients : HoldsBucket(req[c])

(* A rule has the fields it is made of.                                    *)
LEMMA RuleFacts ==
    ASSUME NEW g \in STRING, NEW e \in {"allow", "deny"}, NEW a \in Actions, NEW r \in Path
    PROVE  /\ Rule(g, e, a, r) \in GroupPolicy
           /\ Rule(g, e, a, r).group = g /\ Rule(g, e, a, r).effect = e
           /\ Rule(g, e, a, r).action = a /\ Rule(g, e, a, r).resource = r
  BY DEF Rule, GroupPolicy

(* Short sequences, and those of strings as paths.                         *)
LEMMA ShortSeqs ==
    ASSUME NEW S, NEW x \in S, NEW y \in S, NEW z \in S
    PROVE  <<x>> \in Seq(S) /\ <<x, y>> \in Seq(S) /\ <<x, y, z>> \in Seq(S)
  OBVIOUS

LEMMA ShortPaths ==
    ASSUME NEW x \in STRING, NEW y \in STRING, NEW z \in STRING
    PROVE  <<x>> \in Path /\ <<x, y>> \in Path /\ <<x, y, z>> \in Path
<1>1. <<x>> \in Seq(STRING) /\ <<x, y>> \in Seq(STRING) /\ <<x, y, z>> \in Seq(STRING)
  BY ShortSeqs, Zenon
<1>2. Len(<<x>>) = 1 /\ Len(<<x, y>>) = 2 /\ Len(<<x, y, z>>) = 3
  OBVIOUS
<1>3. 1 > 0 /\ 2 > 0 /\ 3 > 0
  OBVIOUS
<1> QED BY <1>1, <1>2, <1>3, Zenon DEF Path

(* The rules of a personal group are ten different ones.                   *)
LEMMA PersonalRulesFacts ==
    ASSUME NEW u \in STRING \ {"me"}, NEW g \in STRING
    PROVE  /\ Len(PersonalRules(u, g)) = 10
           /\ \A i \in 1 .. 10 : /\ PersonalRules(u, g)[i] \in GroupPolicy
                                 /\ PersonalRules(u, g)[i].group = g
                                 /\ PersonalRules(u, g)[i].resource[1] = "users"
           /\ \A i, j \in 1 .. 10 : PersonalRules(u, g)[i] = PersonalRules(u, g)[j] => i = j
<1> DEFINE s == PersonalRules(u, g)
           me == <<"users", "me">>
           one == <<"users", u>>
           all == <<"users", u, Wild>>
           rate == <<"users", u, "rate">>
<1>1. me \in Path /\ one \in Path /\ all \in Path /\ rate \in Path
  <2>1. "users" \in STRING /\ "me" \in STRING /\ u \in STRING /\ Wild \in STRING /\ "rate" \in STRING
    BY LiteralsAssumption
  <2> QED BY <2>1, ShortPaths, Zenon
<1>2. /\ me # one /\ me # all /\ one # all
      /\ me[1] = "users" /\ one[1] = "users" /\ all[1] = "users" /\ rate[1] = "users"
  OBVIOUS
<1> HIDE DEF me, one, all, rate
<1>3. /\ Len(s) = 10
      /\ s[1] = Rule(g, "allow", "read", me) /\ s[2] = Rule(g, "allow", "create", one)
      /\ s[3] = Rule(g, "allow", "read", one) /\ s[4] = Rule(g, "allow", "update", one)
      /\ s[5] = Rule(g, "allow", "delete", one) /\ s[6] = Rule(g, "allow", "create", all)
      /\ s[7] = Rule(g, "allow", "read", all) /\ s[8] = Rule(g, "allow", "update", all)
      /\ s[9] = Rule(g, "allow", "delete", all) /\ s[10] = Rule(g, "deny", "update", rate)
  BY DEF PersonalRules, me, one, all, rate
<1> HIDE DEF s
<1>4. ASSUME NEW i \in 1 .. 10
      PROVE  i = 1 \/ i = 2 \/ i = 3 \/ i = 4 \/ i = 5 \/ i = 6 \/ i = 7 \/ i = 8 \/ i = 9 \/ i = 10
  OBVIOUS
<1>5. \A e \in {"allow", "deny"}, a \in Actions, r \in Path :
        /\ Rule(g, e, a, r) \in GroupPolicy
        /\ Rule(g, e, a, r).group = g /\ Rule(g, e, a, r).effect = e
        /\ Rule(g, e, a, r).action = a /\ Rule(g, e, a, r).resource = r
  BY RuleFacts
<1>6. /\ s[1].action = "read" /\ s[1].resource = me /\ s[1].effect = "allow"
      /\ s[2].action = "create" /\ s[2].resource = one /\ s[2].effect = "allow"
      /\ s[3].action = "read" /\ s[3].resource = one /\ s[3].effect = "allow"
      /\ s[4].action = "update" /\ s[4].resource = one /\ s[4].effect = "allow"
      /\ s[5].action = "delete" /\ s[5].resource = one /\ s[5].effect = "allow"
      /\ s[6].action = "create" /\ s[6].resource = all /\ s[6].effect = "allow"
      /\ s[7].action = "read" /\ s[7].resource = all /\ s[7].effect = "allow"
      /\ s[8].action = "update" /\ s[8].resource = all /\ s[8].effect = "allow"
      /\ s[9].action = "delete" /\ s[9].resource = all /\ s[9].effect = "allow"
      /\ s[10].action = "update" /\ s[10].resource = rate /\ s[10].effect = "deny"
  BY <1>1, <1>3, <1>5 DEF Actions
<1>7. \A i \in 1 .. 10 : s[i] \in GroupPolicy /\ s[i].group = g
  <2>1. /\ s[1] \in GroupPolicy /\ s[1].group = g /\ s[2] \in GroupPolicy /\ s[2].group = g
        /\ s[3] \in GroupPolicy /\ s[3].group = g /\ s[4] \in GroupPolicy /\ s[4].group = g
        /\ s[5] \in GroupPolicy /\ s[5].group = g /\ s[6] \in GroupPolicy /\ s[6].group = g
        /\ s[7] \in GroupPolicy /\ s[7].group = g /\ s[8] \in GroupPolicy /\ s[8].group = g
        /\ s[9] \in GroupPolicy /\ s[9].group = g /\ s[10] \in GroupPolicy /\ s[10].group = g
    BY <1>1, <1>3, <1>5 DEF Actions
  <2> QED BY <1>4, <2>1
<1>8. ASSUME NEW i \in 1 .. 10, NEW j \in 1 .. 10, s[i] = s[j]
      PROVE  i = j
  BY <1>2, <1>4, <1>6, <1>8
<1>9. \A i \in 1 .. 10 : s[i].resource[1] = "users"
  BY <1>2, <1>4, <1>6
<1> QED BY <1>3, <1>7, <1>8, <1>9 DEF s

(* Those of a thing are four.                                              *)
LEMMA ThingRulesFacts ==
    ASSUME NEW g \in STRING, NEW t \in STRING
    PROVE  /\ Len(ThingRules(g, t)) = 4 /\ DOMAIN ThingRules(g, t) = 1 .. 4
           /\ \A i \in 1 .. 4 : /\ ThingRules(g, t)[i] \in GroupPolicy
                                /\ ThingRules(g, t)[i].group = g
           /\ \A i, j \in 1 .. 4 : ThingRules(g, t)[i] = ThingRules(g, t)[j] => i = j
<1> DEFINE s == ThingRules(g, t)
           all == <<"things", t, Wild>>
<1>1. all \in Path
  <2>1. "things" \in STRING /\ t \in STRING /\ Wild \in STRING
    BY LiteralsAssumption
  <2> QED BY <2>1, ShortPaths, Zenon
<1> HIDE DEF all
<1>2. /\ Len(s) = 4 /\ DOMAIN s = 1 .. 4
      /\ s[1] = Rule(g, "allow", "create", all) /\ s[2] = Rule(g, "allow", "read", all)
      /\ s[3] = Rule(g, "allow", "update", all) /\ s[4] = Rule(g, "allow", "delete", all)
  BY DEF ThingRules, all
<1> HIDE DEF s
<1>3. ASSUME NEW i \in 1 .. 4
      PROVE  i = 1 \/ i = 2 \/ i = 3 \/ i = 4
  OBVIOUS
<1>4. \A a \in Actions :
        /\ Rule(g, "allow", a, all) \in GroupPolicy
        /\ Rule(g, "allow", a, all).group = g /\ Rule(g, "allow", a, all).action = a
  BY <1>1, RuleFacts
<1>5. /\ s[1].action = "create" /\ s[2].action = "read" /\ s[3].action = "update" /\ s[4].action = "delete"
      /\ s[1] \in GroupPolicy /\ s[1].group = g /\ s[2] \in GroupPolicy /\ s[2].group = g
      /\ s[3] \in GroupPolicy /\ s[3].group = g /\ s[4] \in GroupPolicy /\ s[4].group = g
  BY <1>2, <1>4 DEF Actions
<1>6. \A i \in 1 .. 4 : s[i] \in GroupPolicy /\ s[i].group = g
  BY <1>3, <1>5
<1>7. \A i, j \in 1 .. 4 : s[i] = s[j] => i = j
  BY <1>3, <1>5
<1> QED BY <1>2, <1>6, <1>7 DEF s

-----------------------------------------------------------------------------
(***************************************************************************)
(* Every statement keeps the constraints of the tables.                    *)
(***************************************************************************)
LEMMA CreateUserTyped ==
    ASSUME TablesTyped, NEW name, CreateUser(name)
    PROVE  TablesTyped'
<1>1. CASE name \in Range(users) \cup Range(groups)
  <2>1. UNCHANGED tables
    BY <1>1 DEF CreateUser
  <2> QED BY <2>1 DEF tables, TablesTyped, References, PolicyRows, Names
<1>2. CASE name \notin Range(users) \cup Range(groups)
  <2>1. PICK u, g : u = New(UserIds) /\ g = New(GroupIds)
    OBVIOUS
  <2>2. /\ Left(UserIds) /\ Left(GroupIds)
        /\ users' = With(users, u, name) /\ groups' = With(groups, g, name)
        /\ members' = members \cup {<<u, g>>} /\ InsertPolicies(PersonalRules(u, g))
        /\ issued' = issued \cup {u, g} /\ tokens' = tokens /\ things' = things
    BY <1>2, <2>1 DEF CreateUser
  <2>3. u \in UserIds /\ u \notin issued /\ g \in GroupIds /\ g \notin issued
    BY <2>1, <2>2, NewIsNew
  <2>4. u \in STRING \ {"me"} /\ g \in STRING
    BY <2>3, IdsAssumption
  <2>5. /\ DOMAIN users' = DOMAIN users \cup {u} /\ users'[u] = name
        /\ \A x \in DOMAIN users : users'[x] = users[x]
        /\ DOMAIN groups' = DOMAIN groups \cup {g} /\ groups'[g] = name
        /\ \A x \in DOMAIN groups : groups'[x] = groups[x]
        /\ u \notin DOMAIN users /\ g \notin DOMAIN groups
    <3>1. u \notin DOMAIN users /\ g \notin DOMAIN groups
      BY <2>3 DEF TablesTyped, References
    <3> QED BY <2>2, <3>1 DEF With
  <2>6. References'
    BY <2>2, <2>5 DEF TablesTyped, References
  <2>7. Names'
    <3>1. (\A x \in DOMAIN users : users[x] # name) /\ (\A x \in DOMAIN groups : groups[x] # name)
      BY <1>2 DEF Range
    <3> QED BY <2>5, <3>1 DEF TablesTyped, Names
  <2>8. PolicyRows' /\ lastPolicy' \in Nat
    <3> DEFINE s == PersonalRules(u, g)
    <3>1. /\ Len(s) = 10
          /\ \A i \in 1 .. 10 : s[i] \in GroupPolicy /\ s[i].group = g
          /\ \A i, j \in 1 .. 10 : s[i] = s[j] => i = j
      BY <2>4, PersonalRulesFacts
    <3>2. \A i \in 1 .. 10 : \A p \in DOMAIN policies : policies[p] # s[i]
      BY <2>5, <3>1 DEF TablesTyped, PolicyRows
    <3> HIDE DEF s
    <3>3. InsertPolicies(s)
      BY <2>2 DEF s
    <3>4. PolicyRows /\ lastPolicy \in Nat /\ 10 \in Nat
      BY DEF TablesTyped
    <3> QED BY <2>5, <3>1, <3>2, <3>3, <3>4, InsertKeepsRows
  <2> QED BY <2>4, <2>5, <2>6, <2>7, <2>8 DEF TablesTyped
<1> QED BY <1>1, <1>2

LEMMA AddTokenTyped ==
    ASSUME TablesTyped, NEW u, AddTokenToUser(u)
    PROVE  TablesTyped'
<1>1. CASE u \notin DOMAIN users
  <2>1. UNCHANGED tables
    BY <1>1 DEF AddTokenToUser
  <2> QED BY <2>1 DEF tables, TablesTyped, References, PolicyRows, Names
<1>2. CASE u \in DOMAIN users
  <2>1. PICK t : t = New(TokenIds)
    OBVIOUS
  <2>2. /\ Left(TokenIds) /\ tokens' = With(tokens, t, u) /\ issued' = issued \cup {t}
        /\ UNCHANGED <<users, groups, members, policies, things, lastPolicy>>
    BY <1>2, <2>1 DEF AddTokenToUser
  <2>3. /\ DOMAIN tokens' = DOMAIN tokens \cup {t} /\ tokens'[t] = u
        /\ \A x \in DOMAIN tokens : x # t => tokens'[x] = tokens[x]
    BY <2>2 DEF With
  <2>4. References'
    BY <1>2, <2>2, <2>3 DEF TablesTyped, References, Range
  <2> QED BY <2>2, <2>4 DEF TablesTyped, PolicyRows, Names
<1> QED BY <1>1, <1>2

LEMMA DeleteTokenTyped ==
    ASSUME TablesTyped, NEW u, NEW t, DeleteTokenFromUser(u, t)
    PROVE  TablesTyped'
<1>1. UNCHANGED <<users, groups, members, policies, things, issued, lastPolicy>>
  BY DEF DeleteTokenFromUser
<1>2. DOMAIN tokens' \subseteq DOMAIN tokens /\ \A x \in DOMAIN tokens' : tokens'[x] = tokens[x]
  BY DEF DeleteTokenFromUser, Restrict
<1>3. References'
  BY <1>1, <1>2 DEF TablesTyped, References, Range
<1> QED BY <1>1, <1>3 DEF TablesTyped, PolicyRows, Names

LEMMA RemoveTyped ==
    ASSUME TablesTyped, NEW us, NEW gs, Remove(us, gs)
    PROVE  TablesTyped'
<1>1. /\ DOMAIN users' = DOMAIN users \ us /\ \A x \in DOMAIN users' : users'[x] = users[x]
      /\ DOMAIN groups' = DOMAIN groups \ gs /\ \A x \in DOMAIN groups' : groups'[x] = groups[x]
      /\ UNCHANGED <<issued, lastPolicy>>
  BY DEF Remove, Restrict
<1>2. /\ DOMAIN tokens' = {t \in DOMAIN tokens : tokens[t] \notin us}
      /\ \A t \in DOMAIN tokens' : tokens'[t] = tokens[t]
  BY DEF Remove, Restrict
<1>3. /\ DOMAIN policies' = {p \in DOMAIN policies : policies[p].group \notin gs}
      /\ \A p \in DOMAIN policies' : policies'[p] = policies[p]
  BY DEF Remove, Restrict
<1>4. /\ DOMAIN things' = DOMAIN things
      /\ \A t \in DOMAIN things : things'[t] = IF things[t] \in us THEN Nobody ELSE things[t]
      /\ members' = {m \in members : m[1] \notin us /\ m[2] \notin gs}
  BY DEF Remove
<1>5. References'
  <2>1. DOMAIN users' \cup DOMAIN groups' \cup DOMAIN tokens' \cup DOMAIN things' \subseteq issued'
    BY <1>1, <1>2, <1>4 DEF TablesTyped, References
  <2>2. members' \subseteq (DOMAIN users') \X (DOMAIN groups')
    BY <1>1, <1>4 DEF TablesTyped, References
  <2>3. Range(tokens') \subseteq DOMAIN users'
    BY <1>1, <1>2 DEF TablesTyped, References, Range
  <2>4. Range(things') \subseteq DOMAIN users' \cup {Nobody}
    BY <1>1, <1>4 DEF TablesTyped, References, Range
  <2> QED BY <2>1, <2>2, <2>3, <2>4 DEF References
<1>6. PolicyRows'
  BY <1>1, <1>3 DEF TablesTyped, PolicyRows
<1>7. Names'
  BY <1>1 DEF TablesTyped, Names
<1> QED BY <1>1, <1>5, <1>6, <1>7 DEF TablesTyped

LEMMA UpdateUserTyped ==
    ASSUME TablesTyped, NEW u, NEW change, NEW removed, UpdateUser(u, change, removed)
    PROVE  TablesTyped'
<1> DEFINE added == {<<u, g>> : g \in change.add}
           taken == \E v \in DOMAIN users \ {u} : users[v] = change.name
           fails == \/ u \notin DOMAIN users
                    \/ change.name \notin ShortNames /\ taken
                    \/ ~(change.add \subseteq DOMAIN groups)
                    \/ added \cap (members \ removed) # {}
<1>1. CASE fails
  <2>1. UNCHANGED tables
    BY <1>1 DEF UpdateUser
  <2> QED BY <2>1 DEF tables, TablesTyped, References, PolicyRows, Names
<1>2. CASE ~fails
  <2>1. /\ users' = IF change.name \notin ShortNames THEN [users EXCEPT ![u] = change.name]
                                                     ELSE users
        /\ members' = (members \ removed) \cup added
        /\ UNCHANGED <<groups, tokens, policies, things, issued, lastPolicy>>
    BY <1>2 DEF UpdateUser
  <2>2. /\ u \in DOMAIN users /\ change.add \subseteq DOMAIN groups
        /\ change.name \notin ShortNames => \A v \in DOMAIN users \ {u} : users[v] # change.name
    BY <1>2
  <2> HIDE DEF fails, taken
  <2>3. DOMAIN users' = DOMAIN users
    BY <2>1
  <2>4. References'
    <3>1. \A x \in added : \E g \in DOMAIN groups : x = <<u, g>>
      BY <2>2, Zenon
    <3> HIDE DEF added
    <3>2. ASSUME NEW x \in added
          PROVE  x \in (DOMAIN users) \X (DOMAIN groups)
      <4>1. PICK g \in DOMAIN groups : x = <<u, g>>
        BY <3>1
      <4> QED BY <2>2, <4>1
    <3>3. members' \subseteq (DOMAIN users') \X (DOMAIN groups')
      BY <2>1, <2>3, <3>2 DEF TablesTyped, References
    <3> QED BY <2>1, <2>3, <3>3 DEF TablesTyped, References
  <2>5. Names'
    BY <2>1, <2>2, <2>3 DEF TablesTyped, Names
  <2> QED BY <2>1, <2>4, <2>5 DEF TablesTyped, PolicyRows
<1> QED BY <1>1, <1>2

LEMMA CreateGroupTyped ==
    ASSUME TablesTyped, NEW name, CreateGroup(name)
    PROVE  TablesTyped'
<1>1. CASE name \in Range(groups)
  <2>1. UNCHANGED tables
    BY <1>1 DEF CreateGroup
  <2> QED BY <2>1 DEF tables, TablesTyped, References, PolicyRows, Names
<1>2. CASE name \notin Range(groups)
  <2>1. PICK g : g = New(GroupIds)
    OBVIOUS
  <2>2. /\ Left(GroupIds) /\ groups' = With(groups, g, name) /\ issued' = issued \cup {g}
        /\ UNCHANGED <<users, members, tokens, policies, things, lastPolicy>>
    BY <1>2, <2>1 DEF CreateGroup
  <2>3. g \in GroupIds /\ g \notin issued
    BY <2>1, <2>2, NewIsNew
  <2>4. /\ DOMAIN groups' = DOMAIN groups \cup {g} /\ groups'[g] = name
        /\ \A x \in DOMAIN groups : x # g => groups'[x] = groups[x]
    BY <2>2 DEF With
  <2>5. g \notin DOMAIN groups /\ g \in STRING /\ \A x \in DOMAIN groups : groups[x] # name
    BY <1>2, <2>3, IdsAssumption DEF TablesTyped, References, Range
  <2>6. References'
    BY <2>2, <2>4 DEF TablesTyped, References
  <2>7. Names'
    <3>1. \A x \in DOMAIN groups : groups'[x] = groups[x] /\ groups[x] # name
      BY <2>4, <2>5
    <3>2. \A x, y \in DOMAIN groups' : groups'[x] = groups'[y] => x = y
      BY <2>4, <3>1 DEF TablesTyped, Names
    <3> QED BY <2>2, <3>2 DEF TablesTyped, Names
  <2>8. PolicyRows'
    BY <2>2, <2>4 DEF TablesTyped, PolicyRows
  <2> QED BY <2>2, <2>4, <2>5, <2>6, <2>7, <2>8 DEF TablesTyped
<1> QED BY <1>1, <1>2

LEMMA SetGroupNameTyped ==
    ASSUME TablesTyped, NEW g, NEW name, SetGroupName(g, name)
    PROVE  TablesTyped'
<1>1. CASE g \notin DOMAIN groups \/ \E h \in DOMAIN groups \ {g} : groups[h] = name
  <2>1. UNCHANGED tables
    BY <1>1 DEF SetGroupName
  <2> QED BY <2>1 DEF tables, TablesTyped, References, PolicyRows, Names
<1>2. CASE g \in DOMAIN groups /\ \A h \in DOMAIN groups \ {g} : groups[h] # name
  <2>1. /\ groups' = [groups EXCEPT ![g] = name]
        /\ UNCHANGED <<users, members, tokens, policies, things, issued, lastPolicy>>
    BY <1>2 DEF SetGroupName
  <2>2. /\ DOMAIN groups' = DOMAIN groups /\ groups'[g] = name
        /\ \A h \in DOMAIN groups \ {g} : groups'[h] = groups[h]
    BY <1>2, <2>1
  <2>3. Names'
    BY <1>2, <2>1, <2>2 DEF TablesTyped, Names
  <2> QED BY <2>1, <2>2, <2>3 DEF TablesTyped, References, PolicyRows
<1> QED BY <1>1, <1>2

LEMMA CreatePolicyTyped ==
    ASSUME TablesTyped, NEW rule \in GroupPolicy, CreatePolicy(rule)
    PROVE  TablesTyped'
<1>1. CASE rule.group \notin DOMAIN groups \/ rule \in Range(policies)
  <2>1. UNCHANGED tables
    BY <1>1 DEF CreatePolicy
  <2> QED BY <2>1 DEF tables, TablesTyped, References, PolicyRows, Names
<1>2. CASE rule.group \in DOMAIN groups /\ rule \notin Range(policies)
  <2>1. InsertPolicies(<<rule>>) /\ UNCHANGED <<users, groups, members, tokens, things, issued>>
    BY <1>2 DEF CreatePolicy
  <2>2. PICK s : s = <<rule>>
    OBVIOUS
  <2>3. Len(s) = 1 /\ 1 \in Nat /\ \A i \in 1 .. 1 : s[i] = rule /\ i = 1
    BY <2>2
  <2>4. \A p \in DOMAIN policies : policies[p] # rule
    BY <1>2 DEF Range
  <2>5. PolicyRows /\ lastPolicy \in Nat
    BY DEF TablesTyped
  <2>6. /\ InsertPolicies(s) /\ DOMAIN groups \subseteq DOMAIN groups'
        /\ \A i \in 1 .. 1 : s[i] \in GroupPolicy /\ s[i].group \in DOMAIN groups'
        /\ \A i, j \in 1 .. 1 : s[i] = s[j] => i = j
        /\ \A i \in 1 .. 1 : \A p \in DOMAIN policies : policies[p] # s[i]
    BY <1>2, <2>1, <2>2, <2>3, <2>4
  <2>7. PolicyRows' /\ lastPolicy' \in Nat
    BY <2>3, <2>5, <2>6, InsertKeepsRows
  <2> QED BY <2>1, <2>7 DEF TablesTyped, References, Names
<1> QED BY <1>1, <1>2

(* Fields of a policy that are replaced by values of their types.          *)
LEMMA ChangedFacts ==
    ASSUME NEW rule \in GroupPolicy, NEW change, PolicyFields(change), NEW fields
    PROVE  Changed(rule, change, fields) \in GroupPolicy
<1>1. PICK r : r = Changed(rule, change, fields)
  OBVIOUS
<1>2. DOMAIN rule = {"group", "priority", "effect", "action", "resource"}
  BY DEF GroupPolicy
<1>3. r = [f \in {"group", "priority", "effect", "action", "resource"} |->
             IF f \in fields \cap DOMAIN change THEN change[f] ELSE rule[f]]
  BY <1>1, <1>2 DEF Changed
<1>4. /\ rule["group"] \in STRING /\ rule["priority"] \in Nat /\ rule["effect"] \in {"allow", "deny"}
      /\ rule["action"] \in Actions /\ rule["resource"] \in Path
  BY DEF GroupPolicy
<1>5. /\ r["group"] \in STRING /\ r["priority"] \in Nat /\ r["effect"] \in {"allow", "deny"}
      /\ r["action"] \in Actions /\ r["resource"] \in Path
  BY <1>3, <1>4 DEF PolicyFields
<1>6. r \in GroupPolicy
  <2>1. DOMAIN r = {"group", "priority", "effect", "action", "resource"}
        /\ r = [f \in DOMAIN r |-> r[f]]
    BY <1>3
  <2> QED BY <1>5, <2>1 DEF GroupPolicy
<1> QED BY <1>1, <1>6

LEMMA SetPolicyTyped ==
    ASSUME TablesTyped, NEW p, NEW change, PolicyFields(change), SetPolicy(p, change)
    PROVE  /\ TablesTyped'
           /\ tables' # tables => 
                /\ p \in DOMAIN policies
                /\ policies' = [policies EXCEPT ![p] = Changed(policies[p], change, DOMAIN policies[p])]
<1> DEFINE After(k) == Changed(policies[p], change, {Fields[i] : i \in 1 .. k})
           fails == \/ p \notin DOMAIN policies
                    \/ \E k \in 1 .. Len(Fields) :
                         \/ After(k).group \notin DOMAIN groups
                         \/ \E q \in DOMAIN policies \ {p} : policies[q] = After(k)
<1>1. CASE fails
  <2>1. UNCHANGED tables
    BY <1>1 DEF SetPolicy
  <2> QED BY <2>1 DEF tables, TablesTyped, References, PolicyRows, Names
<1>2. CASE ~fails
  <2>1. PICK r : r = After(Len(Fields))
    OBVIOUS
  <2>2. /\ policies' = [policies EXCEPT ![p] = r] /\ p \in DOMAIN policies
        /\ UNCHANGED <<users, groups, members, tokens, things, issued, lastPolicy>>
    BY <1>2, <2>1 DEF SetPolicy
  <2>3. Len(Fields) \in 1 .. Len(Fields) /\ Len(Fields) = 5
    BY DEF Fields
  <2>4. r.group \in DOMAIN groups /\ \A q \in DOMAIN policies \ {p} : policies[q] # r
    BY <1>2, <2>1, <2>3
  <2>5. policies[p] \in GroupPolicy
    BY <2>2 DEF TablesTyped, PolicyRows
  <2>6. r \in GroupPolicy
    BY <2>1, <2>5, ChangedFacts
  <2>7. DOMAIN policies[p] = {Fields[i] : i \in 1 .. Len(Fields)}
    <3>1. DOMAIN policies[p] = {"group", "priority", "effect", "action", "resource"}
      BY <2>5 DEF GroupPolicy
    <3>2. \A i \in 1 .. 5 : i = 1 \/ i = 2 \/ i = 3 \/ i = 4 \/ i = 5
      OBVIOUS
    <3>3. {1, 2, 3, 4, 5} \subseteq 1 .. 5
      OBVIOUS
    <3>4. Fields[1] = "group" /\ Fields[2] = "priority" /\ Fields[3] = "effect" /\ Fields[4] = "action"
          /\ Fields[5] = "resource"
      BY DEF Fields
    <3> QED BY <2>3, <3>1, <3>2, <3>3, <3>4
  <2>8. r = Changed(policies[p], change, DOMAIN policies[p])
    BY <2>1, <2>7
  <2> HIDE DEF fails, After
  <2>9. /\ DOMAIN policies' = DOMAIN policies /\ policies'[p] = r
        /\ \A q \in DOMAIN policies \ {p} : policies'[q] = policies[q]
    BY <2>2
  <2>10. PolicyRows'
    BY <2>2, <2>4, <2>6, <2>9 DEF TablesTyped, PolicyRows
  <2>11. References' /\ Names'
    BY <2>2 DEF TablesTyped, References, Names
  <2> QED BY <2>2, <2>8, <2>10, <2>11 DEF TablesTyped
<1> QED BY <1>1, <1>2

LEMMA DeletePolicyTyped ==
    ASSUME TablesTyped, NEW p, DeletePolicy(p)
    PROVE  TablesTyped' /\ p \notin DOMAIN policies'
<1>1. UNCHANGED <<users, groups, members, tokens, things, issued, lastPolicy>>
  BY DEF DeletePolicy
<1>2. DOMAIN policies' = DOMAIN policies \ {p} /\ \A q \in DOMAIN policies' : policies'[q] = policies[q]
  BY DEF DeletePolicy, Restrict
<1>3. PolicyRows'
  BY <1>1, <1>2 DEF TablesTyped, PolicyRows
<1> QED BY <1>1, <1>2, <1>3 DEF TablesTyped, References, Names

LEMMA CreateThingTyped ==
    ASSUME TablesTyped, NEW author, CreateThing(author)
    PROVE  TablesTyped'
<1>1. CASE UNCHANGED tables
  BY <1>1 DEF tables, TablesTyped, References, PolicyRows, Names
<1>2. CASE ~UNCHANGED tables
  <2>1. PICK t : t = New(ThingIds)
    OBVIOUS
  <2>2. PICK g \in DOMAIN groups :
          /\ author \in DOMAIN users /\ Left(ThingIds)
          /\ ~(Range(ThingRules(g, t)) \cap Range(policies) # {})
          /\ things' = With(things, t, author)
          /\ InsertPolicies(ThingRules(g, t))
          /\ issued' = issued \cup {t}
          /\ UNCHANGED <<users, groups, members, tokens>>
    BY <1>2, <2>1 DEF CreateThing
  <2>3. t \in STRING /\ g \in STRING
    BY <2>1, <2>2, NewIsNew, IdsAssumption DEF TablesTyped
  <2>4. /\ DOMAIN things' = DOMAIN things \cup {t} /\ things'[t] = author
        /\ \A x \in DOMAIN things : x # t => things'[x] = things[x]
    BY <2>2 DEF With
  <2>5. References'
    BY <2>2, <2>4 DEF TablesTyped, References, Range
  <2>6. PolicyRows' /\ lastPolicy' \in Nat
    <3> DEFINE s == ThingRules(g, t)
    <3>1. /\ Len(s) = 4 /\ DOMAIN s = 1 .. 4
          /\ \A i \in 1 .. 4 : s[i] \in GroupPolicy /\ s[i].group = g
          /\ \A i, j \in 1 .. 4 : s[i] = s[j] => i = j
      BY <2>3, ThingRulesFacts
    <3>2. InsertPolicies(s) /\ Range(s) \cap Range(policies) = {}
      BY <2>2
    <3> HIDE DEF s
    <3>3. \A i \in 1 .. 4 : \A p \in DOMAIN policies : policies[p] # s[i]
      BY <3>1, <3>2 DEF Range
    <3>4. PolicyRows /\ lastPolicy \in Nat /\ 4 \in Nat /\ g \in DOMAIN groups' /\ groups' = groups
      BY <2>2 DEF TablesTyped
    <3>5. /\ \A i \in 1 .. 4 : s[i] \in GroupPolicy /\ s[i].group \in DOMAIN groups'
          /\ DOMAIN groups \subseteq DOMAIN groups'
      BY <3>1, <3>4
    <3>6. Len(s) = 4 /\ \A i, j \in 1 .. 4 : s[i] = s[j] => i = j
      BY <3>1
    <3>7. PICK n \in Nat : n = 4
      OBVIOUS
    <3>8. /\ Len(s) = n /\ \A i, j \in 1 .. n : s[i] = s[j] => i = j
          /\ \A i \in 1 .. n : \A p \in DOMAIN policies : policies[p] # s[i]
          /\ \A i \in 1 .. n : s[i] \in GroupPolicy /\ s[i].group \in DOMAIN groups'
      BY <3>3, <3>5, <3>6, <3>7
    <3> QED BY <3>2, <3>4, <3>5, <3>8, InsertKeepsRows
  <2> QED BY <2>2, <2>5, <2>6 DEF TablesTyped, Names
<1> QED BY <1>1, <1>2

LEMMA DeleteThingTyped ==
    ASSUME TablesTyped, NEW t, DeleteThing(t)
    PROVE  TablesTyped'
<1>1. UNCHANGED <<users, groups, members, tokens, policies, issued, lastPolicy>>
  BY DEF DeleteThing
<1>2. DOMAIN things' \subseteq DOMAIN things /\ \A x \in DOMAIN things' : things'[x] = things[x]
  BY DEF DeleteThing, Restrict
<1>3. References'
  BY <1>1, <1>2 DEF TablesTyped, References, Range
<1> QED BY <1>1, <1>3 DEF TablesTyped, PolicyRows, Names

(* Sequences of rules without repetition, one after the other.             *)
Distinct(s) == \A i, j \in 1 .. Len(s) : s[i] = s[j] => i = j

LEMMA ConcatFacts ==
    ASSUME NEW S, NEW a \in Seq(S), NEW b \in Seq(S), Distinct(a), Distinct(b),
           \A i \in 1 .. Len(a), j \in 1 .. Len(b) : a[i] # b[j]
    PROVE  /\ a \o b \in Seq(S) /\ Distinct(a \o b)
           /\ \A k \in 1 .. Len(a \o b) : \/ \E i \in 1 .. Len(a) : (a \o b)[k] = a[i]
                                          \/ \E j \in 1 .. Len(b) : (a \o b)[k] = b[j]
<1>1. Len(a) \in Nat /\ Len(b) \in Nat
  OBVIOUS
<1>2. /\ a \o b \in Seq(S) /\ Len(a \o b) = Len(a) + Len(b)
      /\ \A k \in 1 .. Len(a) + Len(b) :
           (a \o b)[k] = IF k <= Len(a) THEN a[k] ELSE b[k - Len(a)]
  OBVIOUS
<1>3. PICK ab, m, n : ab = a \o b /\ m = Len(a) /\ n = Len(b)
  OBVIOUS
<1>4. ASSUME NEW k \in 1 .. m + n
      PROVE  \/ k \in 1 .. m /\ ab[k] = a[k]
             \/ k - m \in 1 .. n /\ ab[k] = b[k - m]
  BY <1>1, <1>2, <1>3
<1>5. ASSUME NEW k \in 1 .. m + n, NEW l \in 1 .. m + n, ab[k] = ab[l]
      PROVE  k = l
  BY <1>1, <1>3, <1>4, <1>5 DEF Distinct
<1>6. Distinct(ab)
  BY <1>2, <1>3, <1>5 DEF Distinct
<1> QED BY <1>2, <1>3, <1>4, <1>6

LEMMA MigratedRulesFacts ==
    /\ MigratedRules \in Seq(GroupPolicy) /\ Distinct(MigratedRules)
    /\ \A i \in 1 .. Len(MigratedRules) : MigratedRules[i].group \in {Root, "g_things"}
<1> DEFINE s == MigratedRules
           all == <<Wild>>
           kind == <<"things">>
           each == <<"things", Wild>>
<1>1. all \in Path /\ kind \in Path /\ each \in Path /\ Root \in STRING /\ "g_things" \in STRING
  <2>1. "things" \in STRING /\ Wild \in STRING /\ Root \in STRING /\ "g_things" \in STRING
    BY LiteralsAssumption DEF Root
  <2> QED BY <2>1, ShortPaths, Zenon
<1>2. all # kind /\ all # each /\ kind # each /\ Root # "g_things"
  BY DEF Wild, Root
<1> HIDE DEF all, kind, each
<1>3. /\ Len(s) = 9
      /\ s[1] = Rule(Root, "allow", "create", all) /\ s[2] = Rule(Root, "allow", "read", all)
      /\ s[3] = Rule(Root, "allow", "update", all) /\ s[4] = Rule(Root, "allow", "delete", all)
      /\ s[5] = Rule("g_things", "allow", "create", kind) /\ s[6] = Rule("g_things", "allow", "read", kind)
      /\ s[7] = Rule("g_things", "allow", "read", each) /\ s[8] = Rule("g_things", "allow", "update", each)
      /\ s[9] = Rule("g_things", "allow", "delete", each)
      /\ s = [i \in 1 .. 9 |-> s[i]]
  BY DEF MigratedRules, all, kind, each
<1> HIDE DEF s
<1>4. ASSUME NEW i \in 1 .. 9
      PROVE  i = 1 \/ i = 2 \/ i = 3 \/ i = 4 \/ i = 5 \/ i = 6 \/ i = 7 \/ i = 8 \/ i = 9
  OBVIOUS
<1>5. \A g \in {Root, "g_things"}, a \in Actions, r \in Path :
        /\ Rule(g, "allow", a, r) \in GroupPolicy
        /\ Rule(g, "allow", a, r).group = g
        /\ Rule(g, "allow", a, r).action = a /\ Rule(g, "allow", a, r).resource = r
  BY <1>1, RuleFacts
<1>6. /\ s[1].group = Root /\ s[1].action = "create" /\ s[1].resource = all
      /\ s[2].group = Root /\ s[2].action = "read" /\ s[2].resource = all
      /\ s[3].group = Root /\ s[3].action = "update" /\ s[3].resource = all
      /\ s[4].group = Root /\ s[4].action = "delete" /\ s[4].resource = all
      /\ s[5].group = "g_things" /\ s[5].action = "create" /\ s[5].resource = kind
      /\ s[6].group = "g_things" /\ s[6].action = "read" /\ s[6].resource = kind
      /\ s[7].group = "g_things" /\ s[7].action = "read" /\ s[7].resource = each
      /\ s[8].group = "g_things" /\ s[8].action = "update" /\ s[8].resource = each
      /\ s[9].group = "g_things" /\ s[9].action = "delete" /\ s[9].resource = each
  BY <1>1, <1>3, <1>5 DEF Actions
<1>7. /\ s[1] \in GroupPolicy /\ s[2] \in GroupPolicy /\ s[3] \in GroupPolicy
      /\ s[4] \in GroupPolicy /\ s[5] \in GroupPolicy /\ s[6] \in GroupPolicy
      /\ s[7] \in GroupPolicy /\ s[8] \in GroupPolicy /\ s[9] \in GroupPolicy
  BY <1>1, <1>3, <1>5 DEF Actions
<1>8. \A i \in 1 .. 9 : s[i] \in GroupPolicy /\ s[i].group \in {Root, "g_things"}
  BY <1>4, <1>6, <1>7
<1>9. s \in Seq(GroupPolicy)
  BY <1>3, <1>8
<1>10. ASSUME NEW i \in 1 .. 9, NEW j \in 1 .. 9, s[i] = s[j]
       PROVE  i = j
  BY <1>2, <1>4, <1>6, <1>10
<1> QED BY <1>3, <1>8, <1>9, <1>10 DEF s, Distinct

LEMMA DelegatedRulesFacts ==
    /\ DelegatedRules \in Seq(GroupPolicy) /\ Distinct(DelegatedRules)
    /\ \A i \in 1 .. Len(DelegatedRules) : /\ DelegatedRules[i].group = "g_bob"
                                           /\ DelegatedRules[i].resource[1] = "policies"
<1> DEFINE s == DelegatedRules
           kind == <<"policies">>
           each == <<"policies", Wild>>
<1>1. kind \in Path /\ each \in Path /\ "g_bob" \in STRING
  <2>1. "policies" \in STRING /\ Wild \in STRING /\ "g_bob" \in STRING
    BY LiteralsAssumption
  <2> QED BY <2>1, ShortPaths, Zenon
<1>2. kind[1] = "policies" /\ each[1] = "policies"
  OBVIOUS
<1> HIDE DEF kind, each
<1>3. /\ Len(s) = 3
      /\ s[1] = Rule("g_bob", "allow", "create", kind) /\ s[2] = Rule("g_bob", "allow", "update", each)
      /\ s[3] = Rule("g_bob", "allow", "delete", each)
      /\ s = [i \in 1 .. 3 |-> s[i]]
  BY DEF DelegatedRules, kind, each
<1> HIDE DEF s
<1>4. ASSUME NEW i \in 1 .. 3
      PROVE  i = 1 \/ i = 2 \/ i = 3
  OBVIOUS
<1>5. \A a \in Actions, r \in Path :
        /\ Rule("g_bob", "allow", a, r) \in GroupPolicy
        /\ Rule("g_bob", "allow", a, r).group = "g_bob"
        /\ Rule("g_bob", "allow", a, r).action = a /\ Rule("g_bob", "allow", a, r).resource = r
  BY <1>1, RuleFacts
<1>6. /\ s[1] \in GroupPolicy /\ s[2] \in GroupPolicy /\ s[3] \in GroupPolicy
      /\ s[1].group = "g_bob" /\ s[2].group = "g_bob" /\ s[3].group = "g_bob"
      /\ s[1].resource = kind /\ s[2].resource = each /\ s[3].resource = each
      /\ s[1].action = "create" /\ s[2].action = "update" /\ s[3].action = "delete"
  BY <1>1, <1>3, <1>5 DEF Actions
<1>7. \A i \in 1 .. 3 : s[i] \in GroupPolicy /\ s[i].group = "g_bob" /\ s[i].resource[1] = "policies"
  BY <1>2, <1>4, <1>6
<1>8. s \in Seq(GroupPolicy)
  BY <1>3, <1>7
<1>9. ASSUME NEW i \in 1 .. 3, NEW j \in 1 .. 3, s[i] = s[j]
      PROVE  i = j
  BY <1>4, <1>6, <1>9
<1> QED BY <1>3, <1>7, <1>8, <1>9 DEF s, Distinct

(* The tables after the migrations.                                        *)
LEMMA InitialTables == AccountsInit => TablesTyped
<1> SUFFICES ASSUME AccountsInit PROVE TablesTyped
  OBVIOUS
<1>1. PICK m, b, d : m = MigratedRules /\ b = PersonalRules("bob", "g_bob") /\ d = DelegatedRules
  OBVIOUS
<1>2. /\ m \in Seq(GroupPolicy) /\ Distinct(m)
      /\ \A i \in 1 .. Len(m) : m[i].group \in {Root, "g_things"}
  BY <1>1, MigratedRulesFacts
<1>3. /\ d \in Seq(GroupPolicy) /\ Distinct(d)
      /\ \A i \in 1 .. Len(d) : d[i].group = "g_bob" /\ d[i].resource[1] = "policies"
  BY <1>1, DelegatedRulesFacts
<1>4. /\ b \in Seq(GroupPolicy) /\ Distinct(b)
      /\ \A i \in 1 .. Len(b) : b[i].group = "g_bob" /\ b[i].resource[1] = "users"
  <2>1. "bob" \in STRING \ {"me"} /\ "g_bob" \in STRING
    BY LiteralsAssumption
  <2>2. /\ Len(b) = 10
        /\ \A i \in 1 .. 10 : b[i] \in GroupPolicy /\ b[i].group = "g_bob" /\ b[i].resource[1] = "users"
        /\ \A i, j \in 1 .. 10 : b[i] = b[j] => i = j
    BY <1>1, <2>1, PersonalRulesFacts
  <2>3. b = [i \in 1 .. 10 |-> b[i]]
    BY <1>1 DEF PersonalRules
  <2>4. b \in Seq(GroupPolicy)
    BY <2>2, <2>3
  <2> QED BY <2>2, <2>4 DEF Distinct
<1>5. PICK mb : mb = m \o b
  OBVIOUS
<1>6. /\ mb \in Seq(GroupPolicy) /\ Distinct(mb)
      /\ \A k \in 1 .. Len(mb) : \/ mb[k].group \in {Root, "g_things"}
                                 \/ mb[k].group = "g_bob" /\ mb[k].resource[1] = "users"
  <2>1. \A i \in 1 .. Len(m), j \in 1 .. Len(b) : m[i] # b[j]
    BY <1>2, <1>4 DEF Root
  <2>2. /\ mb \in Seq(GroupPolicy) /\ Distinct(mb)
        /\ \A k \in 1 .. Len(mb) : \/ \E i \in 1 .. Len(m) : mb[k] = m[i]
                                   \/ \E j \in 1 .. Len(b) : mb[k] = b[j]
    BY <1>2, <1>4, <1>5, <2>1, ConcatFacts
  <2> QED BY <1>2, <1>4, <2>2
<1>7. PICK s : s = mb \o d
  OBVIOUS
<1>8. /\ s \in Seq(GroupPolicy) /\ Distinct(s)
      /\ \A k \in 1 .. Len(s) : s[k].group \in {Root, "g_things", "g_bob"}
  <2>1. \A i \in 1 .. Len(mb), j \in 1 .. Len(d) : mb[i] # d[j]
    BY <1>3, <1>6 DEF Root
  <2>2. /\ s \in Seq(GroupPolicy) /\ Distinct(s)
        /\ \A k \in 1 .. Len(s) : \/ \E i \in 1 .. Len(mb) : s[k] = mb[i]
                                  \/ \E j \in 1 .. Len(d) : s[k] = d[j]
    BY <1>3, <1>6, <1>7, <2>1, ConcatFacts
  <2> QED BY <1>3, <1>6, <2>2
<1>9. /\ policies = s /\ lastPolicy = Len(s)
      /\ users = [u \in {Root, "bob"} |-> u]
      /\ groups = [g \in {Root, "g_things", "g_bob"} |->
                     IF g = Root THEN Root ELSE IF g = "g_bob" THEN "bob" ELSE "things"]
      /\ members = {<<Root, Root>>, <<"bob", "g_bob">>}
      /\ tokens = [t \in {"t_root", "t_bob"} |-> IF t = "t_root" THEN Root ELSE "bob"]
      /\ things = [t \in {} |-> Nobody]
      /\ issued = {Root, "bob", "g_things", "g_bob", "t_root", "t_bob"}
  BY <1>1, <1>5, <1>7 DEF AccountsInit
<1>10. /\ DOMAIN users = {Root, "bob"} /\ DOMAIN groups = {Root, "g_things", "g_bob"}
       /\ DOMAIN tokens = {"t_root", "t_bob"} /\ DOMAIN things = {}
  BY <1>9
<1>11. References
  <2>1. tokens["t_root"] = Root /\ tokens["t_bob"] = "bob"
    BY <1>9 DEF Root
  <2> QED BY <1>9, <1>10, <2>1 DEF References, Range
<1>12. PolicyRows
  <2>1. DOMAIN policies = 1 .. Len(s)
    BY <1>8, <1>9
  <2>2. \A p \in 1 .. Len(s) : s[p] \in GroupPolicy
    BY <1>8
  <2> QED BY <1>8, <1>9, <1>10, <2>1, <2>2 DEF PolicyRows, Distinct
<1>13. Names
  <2>1. groups[Root] = Root /\ groups["g_bob"] = "bob" /\ groups["g_things"] = "things"
    BY <1>9 DEF Root
  <2>2. users[Root] = Root /\ users["bob"] = "bob"
    BY <1>9
  <2> QED BY <1>10, <2>1, <2>2 DEF Names, Root
<1>14. lastPolicy \in Nat /\ DOMAIN groups \subseteq STRING
  BY <1>8, <1>9, <1>10, LiteralsAssumption DEF Root
<1> QED BY <1>11, <1>12, <1>13, <1>14 DEF TablesTyped

-----------------------------------------------------------------------------
(***************************************************************************)
(* Requests that go on, and requests that end.                             *)
(***************************************************************************)
LEMMA Goes ==
    ASSUME RequestsPlaced, NEW c \in Clients, NEW r, Goto(c, r)
    PROVE  /\ DOMAIN req' = Clients /\ seen' = seen
           /\ req'[c] = r /\ \A d \in Clients \ {c} : req'[d] = req[d]
  BY DEF RequestsPlaced, Goto

LEMMA Ends ==
    ASSUME RequestsPlaced, NEW c \in Clients, Refused(c) \/ Done(c)
    PROVE  /\ DOMAIN req' = Clients /\ DOMAIN seen' = Clients
           /\ req'[c] = Idle /\ \A d \in Clients \ {c} : req'[d] = req[d]
  BY DEF RequestsPlaced, Refused, Done

LEMMA IdleFacts ==
    /\ DOMAIN Idle = RequestFields /\ Idle.pc = "idle"
    /\ Idle.cache = {}
  BY DEF Idle, RequestFields

(* r is the request q with some of its fields learned.                     *)
Keeps(q, r, learned) ==
  /\ DOMAIN r = RequestFields
  /\ \A f \in RequestFields \ learned : r[f] = q[f]

(* What each step leaves in the record of its request.                     *)
LEMMA StartMoves ==
    ASSUME RequestsPlaced, NEW c \in Clients, NEW call, Start(c, call)
    PROVE  \E r : /\ req' = [req EXCEPT ![c] = r] /\ Keeps(Idle, r, {"pc", "call"})
                  /\ r.pc = "check" /\ r.call = call
<1>1. PICK r : r = [Idle EXCEPT !.pc = "check", !.call = call]
  OBVIOUS
<1>2. DOMAIN r = RequestFields /\ r.pc = "check" /\ r.call = call
      /\ \A f \in RequestFields \ {"pc", "call"} : r[f] = Idle[f]
  BY <1>1, IdleFacts DEF RequestFields
<1> QED BY <1>1, <1>2 DEF Start, Keeps

LEMMA ValidatorMoves ==
    ASSUME RequestsPlaced, NEW c \in Clients, PolicyValidator(c), ~Refused(c)
    PROVE  \E r : /\ Goto(c, r) /\ Keeps(req[c], r, {"pc", "cache"})
                  /\ r.pc \in {"load", "author"} /\ r.cache = {Scope(Call(c))}
                  /\ Decides(Call(c).token, Scope(Call(c))[1], Scope(Call(c))[2])
<1> DEFINE scope == Scope(Call(c))
           pc == IF scope[1] = "read" THEN "load" ELSE "author"
<1>1. PICK r : r = [req[c] EXCEPT !.pc = pc, !.cache = {scope}]
  OBVIOUS
<1>2. Goto(c, r) /\ Decides(Call(c).token, scope[1], scope[2])
  BY <1>1 DEF PolicyValidator
<1>3. pc \in {"load", "author"}
  OBVIOUS
<1> HIDE DEF pc, scope
<1>4. DOMAIN req[c] = RequestFields
  BY DEF RequestsPlaced, PlaceOK
<1>5. DOMAIN r = RequestFields /\ r.pc = pc /\ r.cache = {scope}
      /\ \A f \in RequestFields \ {"pc", "cache"} : r[f] = req[c][f]
  BY <1>1, <1>4 DEF RequestFields
<1> QED BY <1>2, <1>3, <1>5 DEF Keeps, scope

LEMMA AuthorMoves ==
    ASSUME RequestsPlaced, NEW c \in Clients, GetUserUuidFromToken(c), ~Refused(c)
    PROVE  \E r : Goto(c, r) /\ Keeps(req[c], r, {"pc", "author"}) /\ r.pc = "load"
<1>1. PICK r : r = [req[c] EXCEPT !.pc = "load", !.author = tokens[Call(c).token]]
  OBVIOUS
<1>2. Goto(c, r)
  BY <1>1 DEF GetUserUuidFromToken
<1>3. DOMAIN req[c] = RequestFields
  BY DEF RequestsPlaced, PlaceOK
<1>4. DOMAIN r = RequestFields /\ r.pc = "load"
      /\ \A f \in RequestFields \ {"pc", "author"} : r[f] = req[c][f]
  BY <1>1, <1>3 DEF RequestFields
<1> QED BY <1>2, <1>4 DEF Keeps

LEMMA LoadMoves ==
    ASSUME RequestsPlaced, NEW c \in Clients, LoadVisitor(c)
    PROVE  \E r : /\ Goto(c, r) /\ Keeps(req[c], r, {"pc", "bucket"})
                  /\ \/ r.pc = "store"
                     \/ /\ r.pc = "allow" /\ Call(c).token \in DOMAIN visitors
                        /\ r.bucket = visitors[Call(c).token]
<1>1. DOMAIN req[c] = RequestFields
  BY DEF RequestsPlaced, PlaceOK
<1>2. CASE Call(c).token \in DOMAIN visitors
  <2>1. PICK r : r = [req[c] EXCEPT !.pc = "allow", !.bucket = visitors[Call(c).token]]
    OBVIOUS
  <2>2. Goto(c, r)
    BY <1>2, <2>1 DEF LoadVisitor
  <2>3. DOMAIN r = RequestFields /\ r.pc = "allow" /\ r.bucket = visitors[Call(c).token]
        /\ \A f \in RequestFields \ {"pc", "bucket"} : r[f] = req[c][f]
    BY <1>1, <2>1 DEF RequestFields
  <2> QED BY <1>2, <2>2, <2>3 DEF Keeps
<1>3. CASE Call(c).token \notin DOMAIN visitors
  <2>1. PICK r : r = [req[c] EXCEPT !.pc = "store"]
    OBVIOUS
  <2>2. Goto(c, r)
    BY <1>3, <2>1 DEF LoadVisitor
  <2>3. DOMAIN r = RequestFields /\ r.pc = "store"
        /\ \A f \in RequestFields \ {"pc", "bucket"} : r[f] = req[c][f]
    BY <1>1, <2>1 DEF RequestFields
  <2> QED BY <2>2, <2>3 DEF Keeps
<1> QED BY <1>2, <1>3

LEMMA AddMoves ==
    ASSUME RequestsPlaced, NEW c \in Clients, AddVisitor(c)
    PROVE  \E r : /\ Goto(c, r) /\ Keeps(req[c], r, {"pc", "bucket"})
                  /\ r.pc = "allow" /\ r.bucket = visitors'[Call(c).token]
<1>1. PICK r : r = [req[c] EXCEPT !.pc = "allow", !.bucket = visitors'[Call(c).token]]
  OBVIOUS
<1>2. Goto(c, r)
  BY <1>1 DEF AddVisitor
<1>3. DOMAIN req[c] = RequestFields
  BY DEF RequestsPlaced, PlaceOK
<1>4. DOMAIN r = RequestFields /\ r.pc = "allow" /\ r.bucket = visitors'[Call(c).token]
      /\ \A f \in RequestFields \ {"pc", "bucket"} : r[f] = req[c][f]
  BY <1>1, <1>3 DEF RequestFields
<1> QED BY <1>2, <1>4 DEF Keeps

LEMMA RateMoves ==
    ASSUME RequestsPlaced, NEW c \in Clients, RateControl(c), ~Refused(c)
    PROVE  \E r : /\ Goto(c, r) /\ Keeps(req[c], r, {"pc", "want"})
                  /\ r.pc = FirstStep(Call(c).op)
                  /\ Call(c).op = "AddPolicy" => r.want = <<Pair(Call(c).rule)>>
<1> DEFINE pc == FirstStep(Call(c).op)
           want == IF Call(c).op = "AddPolicy" THEN <<Pair(Call(c).rule)>> ELSE <<>>
<1>1. PICK r : r = [req[c] EXCEPT !.pc = pc, !.want = want]
  OBVIOUS
<1>2. Goto(c, r)
  BY <1>1 DEF RateControl
<1>3. DOMAIN req[c] = RequestFields
  BY DEF RequestsPlaced, PlaceOK
<1>4. Call(c).op = "AddPolicy" => want = <<Pair(Call(c).rule)>>
  OBVIOUS
<1> HIDE DEF pc, want
<1>5. DOMAIN r = RequestFields /\ r.pc = pc /\ r.want = want
      /\ \A f \in RequestFields \ {"pc", "want"} : r[f] = req[c][f]
  BY <1>1, <1>3 DEF RequestFields
<1> QED BY <1>2, <1>4, <1>5 DEF Keeps, pc

LEMMA FindMoves ==
    ASSUME RequestsPlaced, NEW c \in Clients, FindPolicy(c), ~Refused(c)
    PROVE  \E r : /\ Goto(c, r) /\ Keeps(req[c], r, {"pc", "want", "current"})
                  /\ r.pc = "grant" /\ Call(c).id \in DOMAIN policies
                  /\ r.current = policies[Call(c).id]
                  /\ r.want = GrantPairs(Call(c), policies[Call(c).id])
<1> DEFINE p == Call(c).id
           want == GrantPairs(Call(c), policies[p])
<1>1. PICK r : r = [req[c] EXCEPT !.pc = "grant", !.current = policies[p], !.want = want]
  OBVIOUS
<1>2. Goto(c, r) /\ p \in DOMAIN policies
  BY <1>1 DEF FindPolicy
<1>3. DOMAIN req[c] = RequestFields
  BY DEF RequestsPlaced, PlaceOK
<1> HIDE DEF want, p
<1>4. DOMAIN r = RequestFields /\ r.pc = "grant" /\ r.want = want /\ r.current = policies[p]
      /\ \A f \in RequestFields \ {"pc", "want", "current"} : r[f] = req[c][f]
  BY <1>1, <1>3 DEF RequestFields
<1> QED BY <1>2, <1>4 DEF Keeps, want, p

AfterGrant(op) ==
  CASE op = "AddPolicy"          -> "validate"
    [] op = "UpdatePolicyByUuid" -> "reread"
    [] op = "DeletePolicyByUuid" -> "run"

LEMMA GrantMoves ==
    ASSUME RequestsPlaced, NEW c \in Clients, AuthorizePolicyGrant(c), ~Refused(c)
    PROVE  \E r : /\ Goto(c, r) /\ Keeps(req[c], r, {"pc", "cache", "want"})
                  /\ r.pc = IF Tail(req[c].want) = <<>> THEN AfterGrant(Call(c).op) ELSE "grant"
                  /\ r.cache = req[c].cache \cup {Head(req[c].want)}
                  /\ r.want = Tail(req[c].want)
                  /\ \/ Head(req[c].want) \in req[c].cache
                     \/ Decides(Call(c).token, Head(req[c].want)[1], Head(req[c].want)[2])
<1>1. PICK pair, rest, pc : /\ pair = Head(req[c].want) /\ rest = Tail(req[c].want)
                            /\ pc = IF rest = <<>> THEN AfterGrant(Call(c).op) ELSE "grant"
  OBVIOUS
<1>2. PICK r : r = [req[c] EXCEPT !.pc = pc, !.cache = @ \cup {pair}, !.want = rest]
  OBVIOUS
<1>3. /\ Goto(c, r)
      /\ pair \in req[c].cache \/ Decides(Call(c).token, pair[1], pair[2])
  BY <1>1, <1>2 DEF AuthorizePolicyGrant, AfterGrant
<1>4. DOMAIN req[c] = RequestFields
  BY DEF RequestsPlaced, PlaceOK
<1>5. DOMAIN r = RequestFields /\ r.pc = pc /\ r.want = rest /\ r.cache = req[c].cache \cup {pair}
      /\ \A f \in RequestFields \ {"pc", "cache", "want"} : r[f] = req[c][f]
  BY <1>2, <1>4 DEF RequestFields
<1> QED BY <1>1, <1>3, <1>5 DEF Keeps

LEMMA RereadMoves ==
    ASSUME RequestsPlaced, NEW c \in Clients, RereadPolicy(c), ~Refused(c)
    PROVE  \E r : /\ Goto(c, r) /\ Keeps(req[c], r, {"pc", "next"})
                  /\ r.pc = "validate" /\ Call(c).id \in DOMAIN policies
                  /\ r.next = Changed(policies[Call(c).id], Call(c).change, DOMAIN policies[Call(c).id])
<1>1. PICK next : next = Changed(policies[Call(c).id], Call(c).change, DOMAIN policies[Call(c).id])
  OBVIOUS
<1>2. PICK r : r = [req[c] EXCEPT !.pc = "validate", !.next = next]
  OBVIOUS
<1>3. Goto(c, r) /\ Call(c).id \in DOMAIN policies
  BY <1>1, <1>2 DEF RereadPolicy
<1>4. DOMAIN req[c] = RequestFields
  BY DEF RequestsPlaced, PlaceOK
<1>5. DOMAIN r = RequestFields /\ r.pc = "validate" /\ r.next = next
      /\ \A f \in RequestFields \ {"pc", "next"} : r[f] = req[c][f]
  BY <1>2, <1>4 DEF RequestFields
<1> QED BY <1>1, <1>3, <1>5 DEF Keeps

LEMMA ValidateMoves ==
    ASSUME RequestsPlaced, NEW c \in Clients, ValidatePolicyRule(c), ~Refused(c)
    PROVE  \E r : Goto(c, r) /\ Keeps(req[c], r, {"pc"}) /\ r.pc = "run"
<1>1. PICK r : r = [req[c] EXCEPT !.pc = "run"]
  OBVIOUS
<1>2. Goto(c, r)
  BY <1>1 DEF ValidatePolicyRule
<1>3. DOMAIN req[c] = RequestFields
  BY DEF RequestsPlaced, PlaceOK
<1>4. DOMAIN r = RequestFields /\ r.pc = "run" /\ \A f \in RequestFields \ {"pc"} : r[f] = req[c][f]
  BY <1>1, <1>3 DEF RequestFields
<1> QED BY <1>2, <1>4 DEF Keeps

LEMMA SelectMoves ==
    ASSUME RequestsPlaced, NEW c \in Clients, FindMemberships(c)
    PROVE  \E r : Goto(c, r) /\ Keeps(req[c], r, {"pc", "removed"}) /\ r.pc = "run"
<1>1. PICK r : r = [req[c] EXCEPT !.pc = "run",
                      !.removed = MembershipsToRemove(Call(c).id, Call(c).change)]
  OBVIOUS
<1>2. Goto(c, r)
  BY <1>1 DEF FindMemberships
<1>3. DOMAIN req[c] = RequestFields
  BY DEF RequestsPlaced, PlaceOK
<1>4. DOMAIN r = RequestFields /\ r.pc = "run"
      /\ \A f \in RequestFields \ {"pc", "removed"} : r[f] = req[c][f]
  BY <1>1, <1>3 DEF RequestFields
<1> QED BY <1>2, <1>4 DEF Keeps

LEMMA MergeMoves ==
    ASSUME RequestsPlaced, NEW c \in Clients, MergeAlert(c), ~Refused(c)
    PROVE  \E r : /\ Goto(c, r) /\ Keeps(req[c], r, {"pc", "known"})
                  /\ r.pc = "run" /\ r.known = DOMAIN alerts
                  /\ LiveAlerts(Call(c).event) = {}
<1>1. PICK r : r = [req[c] EXCEPT !.pc = "run", !.known = DOMAIN alerts]
  OBVIOUS
<1>2. Goto(c, r) /\ LiveAlerts(Call(c).event) = {}
  BY <1>1 DEF MergeAlert
<1>3. DOMAIN req[c] = RequestFields
  BY DEF RequestsPlaced, PlaceOK
<1>4. DOMAIN r = RequestFields /\ r.pc = "run" /\ r.known = DOMAIN alerts
      /\ \A f \in RequestFields \ {"pc", "known"} : r[f] = req[c][f]
  BY <1>1, <1>3 DEF RequestFields
<1> QED BY <1>2, <1>4 DEF Keeps

(* Where a handler begins.                                                 *)
LEMMA FirstStepFacts ==
    ASSUME NEW op
    PROVE  /\ FirstStep(op) \in {"grant", "find", "select", "merge", "run"}
           /\ FirstStep(op) = "grant" => op = "AddPolicy"
           /\ FirstStep(op) = "find" => op \in PolicyOps \ {"AddPolicy"}
           /\ FirstStep(op) = "select" => op = "UpdateUserByUuid"
           /\ FirstStep(op) = "merge" => op = "CreateAlert"
           /\ FirstStep(op) = "run" => op \notin PolicyOps \cup {"UpdateUserByUuid", "CreateAlert"}
<1>1. CASE op = "AddPolicy"
  BY <1>1 DEF FirstStep, PolicyOps
<1>2. CASE op = "UpdatePolicyByUuid" \/ op = "DeletePolicyByUuid"
  BY <1>2 DEF FirstStep, PolicyOps
<1>3. CASE op = "UpdateUserByUuid"
  BY <1>3 DEF FirstStep, PolicyOps
<1>4. CASE op = "CreateAlert"
  BY <1>4 DEF FirstStep, PolicyOps
<1>5. CASE op \notin {"AddPolicy", "UpdatePolicyByUuid", "DeletePolicyByUuid",
                      "UpdateUserByUuid", "CreateAlert"}
  BY <1>5 DEF FirstStep, PolicyOps
<1> QED BY <1>1, <1>2, <1>3, <1>4, <1>5

LEMMA CallsWellFormed ==
    ASSUME RequestsPlaced
    PROVE  /\ \A call \in Load.calls : WellFormed(call)
           /\ Load.requests \in Nat /\ Load.time \in Nat /\ Load.burst \in Nat
  BY ApiAssumption DEF RequestsPlaced, Load

(* The statements that change the tables, the last steps of their requests. *)
Statement(c) ==
  \/ AddPolicy(c) \/ UpdatePolicyByUuid(c) \/ DeletePolicyByUuid(c)
  \/ AddUser(c) \/ AddNewTokenToUser(c) \/ DeleteTokenForUser(c)
  \/ UpdateUserByUuid(c) \/ DeleteUserByUuid(c)
  \/ AddGroup(c) \/ UpdateGroupByUuid(c) \/ DeleteGroupByUuid(c)
  \/ AddThing(c) \/ DeleteThingByUuid(c)

AlertStatement(c) == CreateAlert(c) \/ UpdateAlertByUuid(c) \/ DeleteAlertByUuid(c)

(* The steps of a request that are neither its first nor a statement.      *)
Step(c) ==
  \/ PolicyValidator(c) \/ GetUserUuidFromToken(c)
  \/ LoadVisitor(c) \/ AddVisitor(c) \/ RateControl(c)
  \/ FindPolicy(c) \/ AuthorizePolicyGrant(c) \/ RereadPolicy(c) \/ ValidatePolicyRule(c)
  \/ FindMemberships(c) \/ MergeAlert(c)
  \/ Abort(c) \/ List(c)

LEMMA NextCases ==
    ASSUME Next
    PROVE  \/ \E c \in Clients : \/ \E call \in Load.calls : Start(c, call)
                                 \/ Step(c) \/ Statement(c) \/ AlertStatement(c)
           \/ Tick \/ Cleanup
<1>1. CASE Tick \/ Cleanup
  BY <1>1
<1>2. ASSUME NEW c \in Clients, Middleware(c) \/ Handler(c)
      PROVE  \/ \E call \in Load.calls : Start(c, call)
             \/ Step(c) \/ Statement(c) \/ AlertStatement(c)
  BY <1>2 DEF Middleware, Handler, Step, Statement, AlertStatement
<1> QED BY <1>1, <1>2 DEF Next

LEMMA StatementEnds ==
    ASSUME NEW c, Statement(c)
    PROVE  Done(c) /\ At(c, "run")
  BY DEF Statement, AddPolicy, UpdatePolicyByUuid, DeletePolicyByUuid, AddUser, AddNewTokenToUser,
         DeleteTokenForUser, UpdateUserByUuid, DeleteUserByUuid, AddGroup, UpdateGroupByUuid,
         DeleteGroupByUuid, AddThing, DeleteThingByUuid, Runs

LEMMA AlertStatementEnds ==
    ASSUME NEW c, AlertStatement(c)
    PROVE  /\ Refused(c) /\ At(c, "run")
           /\ UNCHANGED <<load, started, clock>> /\ UNCHANGED tables /\ UNCHANGED rateVars
  BY DEF AlertStatement, CreateAlert, UpdateAlertByUuid, DeleteAlertByUuid, Runs, Keep

(* A step leaves the tables alone, and all but one kind the alerts and the *)
(* rate controller.                                                        *)
LEMMA StepFrame ==
    ASSUME NEW c, Step(c)
    PROVE  /\ UNCHANGED <<load, started, clock>> /\ UNCHANGED tables
           /\ ~MergeAlert(c) => UNCHANGED alertVars
           /\ ~AddVisitor(c) /\ ~RateControl(c) => UNCHANGED rateVars
  BY DEF Step, PolicyValidator, GetUserUuidFromToken, LoadVisitor, AddVisitor, RateControl,
         FindPolicy, AuthorizePolicyGrant, RereadPolicy, ValidatePolicyRule, FindMemberships,
         MergeAlert, Abort, List, Quiet, Keep

(* Every step of a request ends it or takes it to a place that is on its   *)
(* way, with the same call.                                                *)
LEMMA StepPlaced ==
    ASSUME TablesTyped, RequestsPlaced, NEW c \in Clients, Step(c), ~Refused(c)
    PROVE  \E r : Goto(c, r) /\ PlaceOK(r) /\ r.pc # "idle" /\ r.call = req[c].call /\ req[c].pc # "idle"
<1>1. PlaceOK(req[c])
  BY DEF RequestsPlaced
<1> DEFINE Goal(r) == PlaceOK(r) /\ r.pc # "idle" /\ r.call = req[c].call /\ req[c].pc # "idle"
<1>2. CASE PolicyValidator(c)
  <2>1. PICK r : /\ Goto(c, r) /\ Keeps(req[c], r, {"pc", "cache"})
                 /\ r.pc \in {"load", "author"} /\ r.cache = {Scope(Call(c))}
    BY <1>2, ValidatorMoves
  <2>2. req[c].pc = "check"
    BY <1>2 DEF PolicyValidator, At
  <2>3. Goal(r)
    BY <1>1, <2>1, <2>2 DEF Keeps, PlaceOK, RequestFields, Places
  <2> QED BY <2>1, <2>3
<1>3. CASE GetUserUuidFromToken(c)
  <2>1. PICK r : Goto(c, r) /\ Keeps(req[c], r, {"pc", "author"}) /\ r.pc = "load"
    BY <1>3, AuthorMoves
  <2>2. req[c].pc = "author"
    BY <1>3 DEF GetUserUuidFromToken, At
  <2>3. Goal(r)
    BY <1>1, <2>1, <2>2 DEF Keeps, PlaceOK, RequestFields, Places
  <2> QED BY <2>1, <2>3
<1>4. CASE LoadVisitor(c)
  <2>1. PICK r : Goto(c, r) /\ Keeps(req[c], r, {"pc", "bucket"}) /\ r.pc \in {"store", "allow"}
    BY <1>4, LoadMoves
  <2>2. req[c].pc = "load"
    BY <1>4 DEF LoadVisitor, At
  <2>3. Goal(r)
    BY <1>1, <2>1, <2>2 DEF Keeps, PlaceOK, RequestFields, Places
  <2> QED BY <2>1, <2>3
<1>5. CASE AddVisitor(c)
  <2>1. PICK r : Goto(c, r) /\ Keeps(req[c], r, {"pc", "bucket"}) /\ r.pc = "allow"
    BY <1>5, AddMoves
  <2>2. req[c].pc = "store"
    BY <1>5 DEF AddVisitor, At
  <2>3. Goal(r)
    BY <1>1, <2>1, <2>2 DEF Keeps, PlaceOK, RequestFields, Places
  <2> QED BY <2>1, <2>3
<1>6. CASE RateControl(c)
  <2>1. PICK r : Goto(c, r) /\ Keeps(req[c], r, {"pc", "want"}) /\ r.pc = FirstStep(req[c].call.op)
    BY <1>6, RateMoves DEF Call
  <2>2. req[c].pc = "allow"
    BY <1>6 DEF RateControl, At
  <2>3. /\ r.pc \in {"grant", "find", "select", "merge", "run"}
        /\ r.pc = "grant" => req[c].call.op = "AddPolicy"
        /\ r.pc = "find" => req[c].call.op \in PolicyOps \ {"AddPolicy"}
        /\ r.pc = "select" => req[c].call.op = "UpdateUserByUuid"
        /\ r.pc = "merge" => req[c].call.op = "CreateAlert"
    BY <2>1, FirstStepFacts
  <2>4. Goal(r)
    BY <1>1, <2>1, <2>2, <2>3 DEF Keeps, PlaceOK, RequestFields, Places, PolicyOps
  <2> QED BY <2>1, <2>4
<1>7. CASE FindPolicy(c)
  <2>1. PICK r : Goto(c, r) /\ Keeps(req[c], r, {"pc", "want", "current"}) /\ r.pc = "grant"
    BY <1>7, FindMoves
  <2>2. req[c].pc = "find"
    BY <1>7 DEF FindPolicy, At
  <2>3. Goal(r)
    BY <1>1, <2>1, <2>2 DEF Keeps, PlaceOK, RequestFields, Places, PolicyOps
  <2> QED BY <2>1, <2>3
<1>8. CASE AuthorizePolicyGrant(c)
  <2>1. PICK r : /\ Goto(c, r) /\ Keeps(req[c], r, {"pc", "cache", "want"})
                 /\ r.pc = IF Tail(req[c].want) = <<>> THEN AfterGrant(req[c].call.op) ELSE "grant"
    BY <1>8, GrantMoves DEF Call
  <2>2. req[c].pc = "grant"
    BY <1>8 DEF AuthorizePolicyGrant, At
  <2>3. req[c].call.op \in PolicyOps
    BY <1>1, <2>2 DEF PlaceOK
  <2>4. \/ r.pc = "grant"
        \/ r.pc = "validate" /\ req[c].call.op = "AddPolicy"
        \/ r.pc = "reread" /\ req[c].call.op = "UpdatePolicyByUuid"
        \/ r.pc = "run"
    BY <2>1, <2>3 DEF AfterGrant, PolicyOps
  <2>5. Goal(r)
    BY <1>1, <2>1, <2>2, <2>3, <2>4 DEF Keeps, PlaceOK, RequestFields, Places, PolicyOps
  <2> QED BY <2>1, <2>5
<1>9. CASE RereadPolicy(c)
  <2>1. PICK r : /\ Goto(c, r) /\ Keeps(req[c], r, {"pc", "next"})
                 /\ r.pc = "validate" /\ Call(c).id \in DOMAIN policies
                 /\ r.next = Changed(policies[Call(c).id], Call(c).change, DOMAIN policies[Call(c).id])
    BY <1>9, RereadMoves
  <2>2. req[c].pc = "reread"
    BY <1>9 DEF RereadPolicy, At
  <2>3. Call(c).op = "UpdatePolicyByUuid" /\ Call(c) \in Load.calls /\ Call(c) = req[c].call
    BY <1>1, <2>2 DEF PlaceOK, Call
  <2>4. PolicyFields(Call(c).change)
    BY <2>3, CallsWellFormed DEF WellFormed
  <2>5. policies[Call(c).id] \in GroupPolicy
    BY <2>1 DEF TablesTyped, PolicyRows
  <2>6. r.next \in GroupPolicy
    BY <2>1, <2>4, <2>5, ChangedFacts
  <2>7. Goal(r)
    BY <1>1, <2>1, <2>2, <2>3, <2>6 DEF Keeps, PlaceOK, RequestFields, Places, PolicyOps
  <2> QED BY <2>1, <2>7
<1>10. CASE ValidatePolicyRule(c)
  <2>1. PICK r : Goto(c, r) /\ Keeps(req[c], r, {"pc"}) /\ r.pc = "run"
    BY <1>10, ValidateMoves
  <2>2. req[c].pc = "validate"
    BY <1>10 DEF ValidatePolicyRule, At
  <2>3. Goal(r)
    BY <1>1, <2>1, <2>2 DEF Keeps, PlaceOK, RequestFields, Places
  <2> QED BY <2>1, <2>3
<1>11. CASE FindMemberships(c)
  <2>1. PICK r : Goto(c, r) /\ Keeps(req[c], r, {"pc", "removed"}) /\ r.pc = "run"
    BY <1>11, SelectMoves
  <2>2. req[c].pc = "select"
    BY <1>11 DEF FindMemberships, At
  <2>3. Goal(r)
    BY <1>1, <2>1, <2>2 DEF Keeps, PlaceOK, RequestFields, Places
  <2> QED BY <2>1, <2>3
<1>12. CASE MergeAlert(c)
  <2>1. PICK r : Goto(c, r) /\ Keeps(req[c], r, {"pc", "known"}) /\ r.pc = "run"
    BY <1>12, MergeMoves
  <2>2. req[c].pc = "merge"
    BY <1>12 DEF MergeAlert, At
  <2>3. Goal(r)
    BY <1>1, <2>1, <2>2 DEF Keeps, PlaceOK, RequestFields, Places
  <2> QED BY <2>1, <2>3
<1>13. ~Abort(c) /\ ~List(c)
  BY DEF Abort, List
<1> QED BY <1>2, <1>3, <1>4, <1>5, <1>6, <1>7, <1>8, <1>9, <1>10, <1>11, <1>12, <1>13 DEF Step

(* One request moves, the others stay where they are.                      *)
LEMMA OneMoves ==
    ASSUME RequestsPlaced, NEW c \in Clients, NEW r, PlaceOK(r), load' = load,
           DOMAIN req' = Clients, DOMAIN seen' = Clients,
           req'[c] = r, \A d \in Clients \ {c} : req'[d] = req[d]
    PROVE  RequestsPlaced'
  BY DEF RequestsPlaced, PlaceOK, Load

LEMMA RequestsStep ==
    ASSUME TablesTyped, RequestsPlaced, [Next]_vars
    PROVE  RequestsPlaced' /\ load' = load
<1>1. CASE UNCHANGED vars
  BY <1>1 DEF vars, server, RequestsPlaced, PlaceOK, Load
<1>2. CASE Tick \/ Cleanup
  BY <1>2 DEF Tick, Cleanup, server, RequestsPlaced, PlaceOK, Load
<1>3. PlaceOK(Idle)
  BY IdleFacts DEF PlaceOK, Places
<1>4. ASSUME NEW c \in Clients, Refused(c) \/ Done(c), load' = load
      PROVE  RequestsPlaced'
  BY <1>3, <1>4, Ends, OneMoves
<1>5. ASSUME NEW c \in Clients, NEW call \in Load.calls, Start(c, call)
      PROVE  RequestsPlaced' /\ load' = load
  <2>1. PICK r : /\ req' = [req EXCEPT ![c] = r] /\ Keeps(Idle, r, {"pc", "call"})
                 /\ r.pc = "check" /\ r.call = call
    BY <1>5, StartMoves
  <2>2. PlaceOK(r)
    BY <2>1 DEF Keeps, PlaceOK, Places
  <2>3. load' = load /\ DOMAIN seen' = Clients
    BY <1>5 DEF Start, RequestsPlaced
  <2>4. DOMAIN req' = Clients /\ req'[c] = r /\ \A d \in Clients \ {c} : req'[d] = req[d]
    BY <2>1 DEF RequestsPlaced
  <2> QED BY <2>2, <2>3, <2>4, OneMoves
<1>6. ASSUME NEW c \in Clients, Step(c)
      PROVE  RequestsPlaced' /\ load' = load
  <2>1. load' = load
    BY <1>6, StepFrame
  <2>2. CASE Refused(c)
    BY <1>4, <2>1, <2>2
  <2>3. CASE ~Refused(c)
    <3>1. PICK r : Goto(c, r) /\ PlaceOK(r)
      BY <1>6, <2>3, StepPlaced
    <3>2. /\ DOMAIN req' = Clients /\ seen' = seen
          /\ req'[c] = r /\ \A d \in Clients \ {c} : req'[d] = req[d]
      BY <3>1, Goes
    <3>3. DOMAIN seen' = Clients
      BY <3>2 DEF RequestsPlaced
    <3> QED BY <2>1, <3>1, <3>2, <3>3, OneMoves
  <2> QED BY <2>1, <2>2, <2>3
<1>7. ASSUME NEW c \in Clients, Statement(c)
      PROVE  RequestsPlaced' /\ load' = load
  <2>1. Done(c)
    BY <1>7, StatementEnds
  <2>2. load' = load
    BY <2>1 DEF Done, Keep
  <2> QED BY <1>4, <2>1, <2>2
<1>8. ASSUME NEW c \in Clients, AlertStatement(c)
      PROVE  RequestsPlaced' /\ load' = load
  <2>1. Refused(c) /\ load' = load
    BY <1>8, AlertStatementEnds
  <2> QED BY <1>4, <2>1
<1> QED BY <1>1, <1>2, <1>5, <1>6, <1>7, <1>8, NextCases

LEMMA TablesStep ==
    ASSUME TablesTyped, RequestsPlaced, [Next]_vars
    PROVE  TablesTyped'
<1>1. CASE UNCHANGED tables
  BY <1>1 DEF tables, TablesTyped, References, PolicyRows, Names
<1>2. ASSUME NEW c \in Clients, Statement(c)
      PROVE  TablesTyped'
  <2>1. /\ Call(c).op = "AddPolicy" => Call(c).rule \in GroupPolicy
        /\ Call(c).op = "UpdatePolicyByUuid" => PolicyFields(Call(c).change)
    <3>1. req[c].pc = "run"
      BY <1>2, StatementEnds DEF At
    <3>2. Call(c) \in Load.calls
      BY <3>1 DEF RequestsPlaced, PlaceOK, Call
    <3> QED BY <3>2, CallsWellFormed DEF WellFormed
  <2>2. CASE AddPolicy(c)
    BY <2>1, <2>2, CreatePolicyTyped DEF AddPolicy, Runs
  <2>3. CASE UpdatePolicyByUuid(c)
    BY <2>1, <2>3, SetPolicyTyped DEF UpdatePolicyByUuid, Runs
  <2>4. CASE DeletePolicyByUuid(c)
    BY <2>4, DeletePolicyTyped DEF DeletePolicyByUuid
  <2>5. CASE AddUser(c)
    BY <2>5, CreateUserTyped DEF AddUser
  <2>6. CASE AddNewTokenToUser(c)
    BY <2>6, AddTokenTyped DEF AddNewTokenToUser
  <2>7. CASE DeleteTokenForUser(c)
    BY <2>7, DeleteTokenTyped DEF DeleteTokenForUser
  <2>8. CASE UpdateUserByUuid(c)
    BY <2>8, UpdateUserTyped DEF UpdateUserByUuid
  <2>9. CASE DeleteUserByUuid(c)
    BY <2>9, RemoveTyped DEF DeleteUserByUuid, DeleteUser
  <2>10. CASE AddGroup(c)
    BY <2>10, CreateGroupTyped DEF AddGroup
  <2>11. CASE UpdateGroupByUuid(c)
    BY <2>11, SetGroupNameTyped DEF UpdateGroupByUuid
  <2>12. CASE DeleteGroupByUuid(c)
    BY <2>12, RemoveTyped DEF DeleteGroupByUuid, DeleteGroup
  <2>13. CASE AddThing(c)
    BY <2>13, CreateThingTyped DEF AddThing
  <2>14. CASE DeleteThingByUuid(c)
    BY <2>14, DeleteThingTyped DEF DeleteThingByUuid
  <2> QED BY <1>2, <2>2, <2>3, <2>4, <2>5, <2>6, <2>7, <2>8, <2>9, <2>10, <2>11, <2>12, <2>13,
             <2>14 DEF Statement
<1>3. ASSUME NEW c \in Clients, Step(c) \/ AlertStatement(c)
      PROVE  TablesTyped'
  <2>1. UNCHANGED tables
    BY <1>3, StepFrame, AlertStatementEnds
  <2> QED BY <1>1, <2>1
<1>4. ASSUME \/ \E c \in Clients : \E call \in Load.calls : Start(c, call)
             \/ Tick \/ Cleanup
      PROVE  TablesTyped'
  <2>1. UNCHANGED tables
    BY <1>4 DEF Start, Tick, Cleanup, tables
  <2> QED BY <1>1, <2>1
<1>5. CASE UNCHANGED vars
  <2>1. UNCHANGED tables
    BY <1>5 DEF vars
  <2> QED BY <1>1, <2>1
<1> QED BY <1>2, <1>3, <1>4, <1>5, NextCases

LEMMA PlacedInit == Init => RequestsPlaced
<1> SUFFICES ASSUME Init PROVE RequestsPlaced
  OBVIOUS
<1>1. PlaceOK(Idle)
  BY IdleFacts DEF PlaceOK, Places
<1> QED BY <1>1 DEF Init, RequestsPlaced

LEMMA TablesAndRequests == Spec => [](TablesTyped /\ RequestsPlaced)
<1>1. Init => TablesTyped /\ RequestsPlaced
  BY InitialTables, PlacedInit DEF Init
<1>2. TablesTyped /\ RequestsPlaced /\ [Next]_vars => (TablesTyped /\ RequestsPlaced)'
  BY TablesStep, RequestsStep
<1> QED BY <1>1, <1>2, PTL DEF Spec

-----------------------------------------------------------------------------
(* In every state the server can reach, a rule that validatePolicyRule     *)
(* refuses as shadowed would have changed no decision about a member of    *)
(* its group (policy_validation.go).                                       *)
THEOREM ShadowedRulesDecideNothing == Spec => []ShadowedNeverDecides
<1>1. TablesTyped /\ RequestsPlaced => ShadowedNeverDecides
  <2> SUFFICES ASSUME TablesTyped, RequestsPlaced,
                      NEW c \in Clients, At(c, "validate"), Shadowed(c),
                      NEW u \in DOMAIN users, NEW resource \in Probes,
                      <<u, NextRule(c).group>> \in members,
                      NEW rest,
                      rest = {policies[p] : p \in {p \in Others(c) :
                                                     <<u, policies[p].group>> \in members}}
               PROVE  Access(rest \cup {NextRule(c)}, NextRule(c).action, resource)
                        <=> Access(rest, NextRule(c).action, resource)
    BY Zenon DEF ShadowedNeverDecides
  <2>1. PICK p \in Others(c) : /\ policies[p].group = NextRule(c).group
                               /\ policies[p].action = NextRule(c).action
                               /\ policyShadows(policies[p], NextRule(c))
    BY DEF Shadowed
  <2>2. policies[p] \in rest /\ Others(c) \subseteq DOMAIN policies
    BY <2>1 DEF Others
  <2>3. NextRule(c) \in GroupPolicy
    <3>1. req[c].pc = "validate" /\ PlaceOK(req[c])
      BY DEF At, RequestsPlaced
    <3>2. /\ Call(c) \in Load.calls /\ Call(c).op \in {"AddPolicy", "UpdatePolicyByUuid"}
          /\ Call(c).op = "UpdatePolicyByUuid" => req[c].next \in GroupPolicy
      BY <3>1 DEF PlaceOK, Call, PolicyOps
    <3>3. Call(c).op = "AddPolicy" => Call(c).rule \in GroupPolicy
      BY <3>2, CallsWellFormed DEF WellFormed
    <3> QED BY <3>2, <3>3 DEF NextRule
  <2>4. \A r \in rest : r \in GroupPolicy
    BY <2>2 DEF TablesTyped, PolicyRows
  <2>5. \A r \in rest \cup {NextRule(c)} :
          r.priority \in Int /\ r.resource \in Path /\ r.effect \in {"allow", "deny"}
    BY <2>3, <2>4 DEF GroupPolicy
  <2>6. resource \in Path
    BY ApiAssumption
  <2> QED BY <2>1, <2>2, <2>5, <2>6, ShadowedDecidesNothing
<1> QED BY <1>1, TablesAndRequests, PTL

(* In every state the server can reach, what a listing is about to show    *)
(* may be read one by one (FindThings, FindUsers, FindGroups).             *)
THEOREM ListingsAreReadable == Spec => []ListedIsReadable
<1>1. TablesTyped /\ RequestsPlaced => ListedIsReadable
  <2> SUFFICES ASSUME TablesTyped, NEW c \in Clients, NEW x \in Shown(Call(c))
               PROVE  Decides(Call(c).token, "read", <<Call(c).on, x>>)
    BY DEF ListedIsReadable
  <2>1. Listed(TokenRules(Call(c).token), <<Call(c).on, x>>)
    BY DEF Shown
  <2>2. \A r \in TokenRules(Call(c).token) : r \in GroupPolicy
    BY DEF TokenRules, RulesOf, TablesTyped, PolicyRows
  <2>3. \A r \in TokenRules(Call(c).token) : r.priority \in Nat /\ r.effect \in {"allow", "deny"}
    BY <2>2 DEF GroupPolicy
  <2> QED BY <2>1, <2>3, ListedMayBeRead DEF Decides
<1> QED BY <1>1, TablesAndRequests, PTL

-----------------------------------------------------------------------------
(***************************************************************************)
(* Rights.                                                                 *)
(***************************************************************************)
LEMMA TokenRulesKept ==
    ASSUME UNCHANGED tables, NEW t
    PROVE  TokenRules(t)' = TokenRules(t)
  BY DEF tables, TokenRules, RulesOf

(* A request that stays where it is keeps its grants, when the rules its   *)
(* token is judged by now are on record.                                   *)
LEMMA GrantStays ==
    ASSUME NEW r, NEW S, NEW T, GrantOK(r, S), S \subseteq T,
           r.pc # "idle" => TokenRules(r.call.token)' \in T
    PROVE  GrantOK(r, T)'
  BY DEF GrantOK, Needed

LEMMA IdleGrant ==
    ASSUME NEW S
    PROVE  GrantOK(Idle, S)'
  BY IdleFacts DEF GrantOK

(* The first pair that is still to authorise, and the others.              *)
LEMMA HeadAndRest ==
    ASSUME NEW T, NEW s \in Seq(T), s # <<>>
    PROVE  /\ Tail(s) \in Seq(T)
           /\ Range(s) \subseteq {Head(s)} \cup Range(Tail(s))
           /\ Tail(s) = <<>> => Range(Tail(s)) = {}
<1>1. Tail(s) \in Seq(T) /\ Len(Tail(s)) = Len(s) - 1 /\ Len(s) \in Nat /\ Len(s) > 0
  OBVIOUS
<1>2. DOMAIN s = 1 .. Len(s) /\ DOMAIN Tail(s) = 1 .. Len(s) - 1
  BY <1>1
<1>3. ASSUME NEW i \in DOMAIN s
      PROVE  s[i] = Head(s) \/ s[i] \in Range(Tail(s))
  <2>1. CASE i = 1
    BY <2>1
  <2>2. CASE i # 1
    <3>1. i - 1 \in DOMAIN Tail(s) /\ Tail(s)[i - 1] = s[i]
      BY <1>1, <1>2, <2>2
    <3> QED BY <3>1 DEF Range
  <2> QED BY <2>1, <2>2
<1>4. Tail(s) = <<>> => Range(Tail(s)) = {}
  <2>1. Range(<<>>) = {}
    BY DEF Range
  <2> QED BY <2>1
<1> QED BY <1>1, <1>3, <1>4 DEF Range

LEMMA StepGrants ==
    ASSUME TablesTyped, RequestsPlaced, Grants, NEW c \in Clients, Step(c), ~Refused(c)
    PROVE  \E r : Goto(c, r) /\ GrantOK(r, seen[c])
<1> DEFINE q == req[c]
           S == seen[c]
<1>1. PlaceOK(q) /\ GrantOK(q, S) /\ q.call = Call(c) /\ DOMAIN q = RequestFields
  BY DEF RequestsPlaced, Grants, PlaceOK, Call
<1>2. \A pair : Decides(Call(c).token, pair[1], pair[2]) /\ q.pc # "idle" =>
          \E rules \in S : Access(rules, pair[1], pair[2])
  BY <1>1 DEF GrantOK, Decides
<1> HIDE DEF S
<1>3. CASE PolicyValidator(c)
  <2>1. PICK r : /\ Goto(c, r) /\ Keeps(q, r, {"pc", "cache"})
                 /\ r.pc \in {"load", "author"} /\ r.cache = {Scope(Call(c))}
                 /\ Decides(Call(c).token, Scope(Call(c))[1], Scope(Call(c))[2])
    BY <1>3, ValidatorMoves
  <2>2. q.pc = "check"
    BY <1>3 DEF PolicyValidator, At
  <2>3. r.call = q.call
    BY <2>1 DEF Keeps, RequestFields
  <2>4. GrantOK(r, S)
    BY <1>1, <1>2, <2>1, <2>2, <2>3 DEF GrantOK
  <2> QED BY <2>1, <2>4 DEF S
<1>4. ASSUME GetUserUuidFromToken(c) \/ LoadVisitor(c) \/ AddVisitor(c)
      PROVE  \E r : Goto(c, r) /\ GrantOK(r, seen[c])
  <2>1. PICK r : /\ Goto(c, r) /\ Keeps(q, r, {"pc", "author", "bucket"})
                 /\ r.pc \in {"load", "store", "allow"}
    BY <1>4, AuthorMoves, LoadMoves, AddMoves DEF Keeps
  <2>2. q.pc \in {"author", "load", "store"}
    BY <1>4 DEF GetUserUuidFromToken, LoadVisitor, AddVisitor, At
  <2>3. r.call = q.call /\ r.cache = q.cache
    BY <2>1 DEF Keeps, RequestFields
  <2>4. GrantOK(r, S)
    BY <1>1, <2>1, <2>2, <2>3 DEF GrantOK
  <2> QED BY <2>1, <2>4 DEF S
<1>5. CASE RateControl(c)
  <2>1. PICK r : /\ Goto(c, r) /\ Keeps(q, r, {"pc", "want"})
                 /\ r.pc = FirstStep(q.call.op)
                 /\ q.call.op = "AddPolicy" => r.want = <<Pair(q.call.rule)>>
    BY <1>5, RateMoves DEF Call
  <2>2. q.pc = "allow"
    BY <1>5 DEF RateControl, At
  <2>3. r.call = q.call /\ r.cache = q.cache
    BY <2>1 DEF Keeps, RequestFields
  <2>4. /\ r.pc \in {"grant", "find", "select", "merge", "run"}
        /\ r.pc = "grant" => q.call.op = "AddPolicy"
        /\ r.pc = "run" => q.call.op \notin PolicyOps
    BY <2>1, FirstStepFacts
  <2>5. ASSUME r.pc = "grant"
        PROVE  (\E T : r.want \in Seq(T)) /\ r.want # <<>> /\ Needed(r) \subseteq Range(r.want)
    <3>1. r.call.op = "AddPolicy" /\ Needed(r) = {Pair(r.call.rule)}
      BY <2>3, <2>4, <2>5 DEF Needed
    <3>2. PICK k : k = Pair(r.call.rule) /\ r.want = <<k>>
      BY <2>1, <2>3, <3>1
    <3>3. r.want \in Seq({k}) /\ r.want # <<>> /\ 1 \in DOMAIN r.want /\ r.want[1] = k
      BY <3>2
    <3>4. k \in Range(r.want)
      BY <3>3 DEF Range
    <3> QED BY <3>1, <3>2, <3>3, <3>4
  <2>6. r.pc = "run" => Needed(r) = {}
    BY <2>3, <2>4 DEF Needed, PolicyOps
  <2>7. GrantOK(r, S)
    BY <1>1, <2>2, <2>3, <2>4, <2>5, <2>6 DEF GrantOK, PolicyOps
  <2> QED BY <2>1, <2>7 DEF S
<1>6. CASE FindPolicy(c)
  <2>1. PICK r : /\ Goto(c, r) /\ Keeps(q, r, {"pc", "want", "current"})
                 /\ r.pc = "grant" /\ Call(c).id \in DOMAIN policies
                 /\ r.current = policies[Call(c).id]
                 /\ r.want = GrantPairs(Call(c), policies[Call(c).id])
    BY <1>6, FindMoves
  <2>2. q.pc = "find" /\ q.call.op \in PolicyOps \ {"AddPolicy"}
    BY <1>1, <1>6 DEF FindPolicy, At, PlaceOK
  <2>3. r.call = q.call /\ r.cache = q.cache
    BY <2>1 DEF Keeps, RequestFields
  <2>4. r.current \in GroupPolicy
    BY <2>1 DEF TablesTyped, PolicyRows
  <2>5. PICK k, l : k = Pair(r.current) /\ l = Pair(Changed(r.current, r.call.change, DOMAIN r.current))
    OBVIOUS
  <2>6. (\E T : r.want \in Seq(T)) /\ r.want # <<>> /\ Needed(r) \subseteq Range(r.want)
    <3>1. CASE r.call.op = "UpdatePolicyByUuid"
      <4>1. r.want = <<k, l>> /\ Needed(r) = {k, l}
        BY <1>1, <2>1, <2>3, <2>5, <3>1 DEF GrantPairs, Needed
      <4>2. /\ r.want \in Seq({k, l}) /\ r.want # <<>>
            /\ 1 \in DOMAIN r.want /\ 2 \in DOMAIN r.want /\ r.want[1] = k /\ r.want[2] = l
        BY <4>1
      <4> QED BY <4>1, <4>2 DEF Range
    <3>2. CASE r.call.op = "DeletePolicyByUuid"
      <4>1. r.want = <<k>> /\ Needed(r) = {k}
        BY <1>1, <2>1, <2>3, <2>5, <3>2 DEF GrantPairs, Needed
      <4>2. r.want \in Seq({k}) /\ r.want # <<>> /\ 1 \in DOMAIN r.want /\ r.want[1] = k
        BY <4>1
      <4> QED BY <4>1, <4>2 DEF Range
    <3> QED BY <2>2, <2>3, <3>1, <3>2 DEF PolicyOps
  <2>7. GrantOK(r, S)
    BY <1>1, <2>1, <2>2, <2>3, <2>4, <2>6 DEF GrantOK
  <2> QED BY <2>1, <2>7 DEF S
<1>7. CASE AuthorizePolicyGrant(c)
  <2>1. PICK r : /\ Goto(c, r) /\ Keeps(q, r, {"pc", "cache", "want"})
                 /\ r.pc = IF Tail(q.want) = <<>> THEN AfterGrant(q.call.op) ELSE "grant"
                 /\ r.cache = q.cache \cup {Head(q.want)}
                 /\ r.want = Tail(q.want)
                 /\ \/ Head(q.want) \in q.cache
                    \/ Decides(Call(c).token, Head(q.want)[1], Head(q.want)[2])
    BY <1>7, GrantMoves DEF Call
  <2>2. q.pc = "grant" /\ q.call.op \in PolicyOps
    BY <1>1, <1>7 DEF AuthorizePolicyGrant, At, PlaceOK
  <2>3. r.call = q.call /\ r.current = q.current
    BY <2>1 DEF Keeps, RequestFields
  <2>4. Needed(r) = Needed(q)
    BY <2>3 DEF Needed
  <2>5. PICK T : q.want \in Seq(T) /\ q.want # <<>> /\ Needed(q) \subseteq q.cache \cup Range(q.want)
    BY <1>1, <2>2 DEF GrantOK
  <2>6. /\ Tail(q.want) \in Seq(T)
        /\ Range(q.want) \subseteq {Head(q.want)} \cup Range(Tail(q.want))
        /\ Tail(q.want) = <<>> => Range(Tail(q.want)) = {}
    BY <2>5, HeadAndRest
  <2>7. Needed(r) \subseteq r.cache \cup Range(r.want)
    BY <2>1, <2>4, <2>5, <2>6
  <2>8. \A k \in r.cache : \E rules \in S : Access(rules, k[1], k[2])
    BY <1>1, <1>2, <2>1, <2>2 DEF GrantOK
  <2>9. /\ Scope(r.call) \in r.cache /\ TokenRules(r.call.token) \in S
        /\ r.call.op \in PolicyOps \ {"AddPolicy"} => r.current \in GroupPolicy
    BY <1>1, <2>1, <2>2, <2>3 DEF GrantOK
  <2>10. CASE r.want = <<>>
    <3>1. r.pc \in {"validate", "reread", "run"} /\ Needed(r) \subseteq r.cache
      BY <2>1, <2>2, <2>6, <2>7, <2>10 DEF AfterGrant, PolicyOps
    <3>2. GrantOK(r, S)
      BY <2>8, <2>9, <3>1 DEF GrantOK
    <3> QED BY <2>1, <3>2 DEF S
  <2>11. CASE r.want # <<>>
    <3>1. r.pc = "grant" /\ \E U : r.want \in Seq(U)
      BY <2>1, <2>6, <2>11
    <3>2. GrantOK(r, S)
      BY <2>7, <2>8, <2>9, <2>11, <3>1 DEF GrantOK
    <3> QED BY <2>1, <3>2 DEF S
  <2> QED BY <2>10, <2>11
<1>8. ASSUME RereadPolicy(c) \/ ValidatePolicyRule(c)
      PROVE  \E r : Goto(c, r) /\ GrantOK(r, seen[c])
  <2>1. PICK r : /\ Goto(c, r) /\ Keeps(q, r, {"pc", "next"}) /\ r.pc \in {"validate", "run"}
    BY <1>8, RereadMoves, ValidateMoves DEF Keeps
  <2>2. q.pc \in {"reread", "validate"}
    BY <1>8 DEF RereadPolicy, ValidatePolicyRule, At
  <2>3. r.call = q.call /\ r.cache = q.cache /\ r.current = q.current
    BY <2>1 DEF Keeps, RequestFields
  <2>4. Needed(r) = Needed(q)
    BY <2>3 DEF Needed
  <2>5. GrantOK(r, S)
    BY <1>1, <2>1, <2>2, <2>3, <2>4 DEF GrantOK
  <2> QED BY <2>1, <2>5 DEF S
<1>9. ASSUME FindMemberships(c) \/ MergeAlert(c)
      PROVE  \E r : Goto(c, r) /\ GrantOK(r, seen[c])
  <2>1. PICK r : /\ Goto(c, r) /\ Keeps(q, r, {"pc", "removed", "known"}) /\ r.pc = "run"
    BY <1>9, SelectMoves, MergeMoves DEF Keeps
  <2>2. q.pc \in {"select", "merge"} /\ q.call.op \in {"UpdateUserByUuid", "CreateAlert"}
    BY <1>1, <1>9 DEF FindMemberships, MergeAlert, At, PlaceOK
  <2>3. r.call = q.call /\ r.cache = q.cache
    BY <2>1 DEF Keeps, RequestFields
  <2>4. Needed(r) = {} /\ r.call.op \notin PolicyOps
    BY <2>2, <2>3 DEF Needed, PolicyOps
  <2>5. GrantOK(r, S)
    BY <1>1, <2>1, <2>2, <2>3, <2>4 DEF GrantOK
  <2> QED BY <2>1, <2>5 DEF S
<1>10. ~Abort(c) /\ ~List(c)
  BY DEF Abort, List
<1> QED BY <1>3, <1>4, <1>5, <1>6, <1>7, <1>8, <1>9, <1>10 DEF Step

LEMMA GrantsStep ==
    ASSUME TablesTyped, RequestsPlaced, Grants, [Next]_vars
    PROVE  Grants'
<1>1. ASSUME UNCHANGED tables, NEW d \in Clients, req'[d] = req[d], seen'[d] = seen[d]
      PROVE  GrantOK(req[d], seen[d])'
  <2>1. PICK r, S : r = req[d] /\ S = seen[d]
    OBVIOUS
  <2>2. GrantOK(r, S)
    BY <2>1 DEF Grants
  <2>3. r.pc # "idle" => TokenRules(r.call.token)' \in S
    BY <1>1, <2>2, TokenRulesKept DEF GrantOK
  <2>4. GrantOK(r, S)'
    BY <2>2, <2>3, GrantStays
  <2>5. r = req'[d] /\ S = seen'[d]
    BY <1>1, <2>1
  <2> QED BY <2>4, <2>5
<1>2. ASSUME NEW c \in Clients, NEW r, NEW S, req'[c] = r, seen'[c] = S, GrantOK(r, S), UNCHANGED tables
      PROVE  GrantOK(req[c], seen[c])'
  <2>1. r.pc # "idle" => TokenRules(r.call.token)' \in S
    BY <1>2, TokenRulesKept DEF GrantOK
  <2>2. GrantOK(r, S)'
    BY <1>2, <2>1, GrantStays
  <2> QED BY <1>2, <2>2
<1>3. ASSUME NEW c \in Clients, req'[c] = Idle
      PROVE  GrantOK(req[c], seen[c])'
  <2>1. PICK S : S = seen'[c]
    OBVIOUS
  <2>2. GrantOK(Idle, S)'
    BY IdleGrant
  <2> QED BY <1>3, <2>1, <2>2
<1>4. CASE UNCHANGED vars \/ Tick \/ Cleanup
  <2>1. UNCHANGED tables /\ req' = req /\ seen' = seen
    BY <1>4 DEF vars, Tick, Cleanup, server, tables
  <2> QED BY <1>1, <2>1 DEF Grants
<1>5. ASSUME NEW c \in Clients, NEW call \in Load.calls, Start(c, call)
      PROVE  Grants'
  <2>1. PICK r : /\ req' = [req EXCEPT ![c] = r] /\ Keeps(Idle, r, {"pc", "call"})
                 /\ r.pc = "check" /\ r.call = call
    BY <1>5, StartMoves
  <2>2. UNCHANGED tables /\ seen' = [seen EXCEPT ![c] = {TokenRules(call.token)}]
    BY <1>5 DEF Start, tables
  <2>3. /\ req'[c] = r /\ seen'[c] = {TokenRules(call.token)}
        /\ \A d \in Clients \ {c} : req'[d] = req[d] /\ seen'[d] = seen[d]
    BY <2>1, <2>2 DEF RequestsPlaced
  <2>4. r.cache = {}
    BY <2>1, IdleFacts DEF Keeps, RequestFields
  <2>5. GrantOK(r, {TokenRules(call.token)})
    BY <2>1, <2>4 DEF GrantOK
  <2>6. GrantOK(req[c], seen[c])'
    BY <1>2, <2>2, <2>3, <2>5
  <2> QED BY <1>1, <2>2, <2>3, <2>6 DEF Grants
<1>6. ASSUME NEW c \in Clients, Refused(c), UNCHANGED tables
      PROVE  Grants'
  <2>1. /\ req'[c] = Idle
        /\ \A d \in Clients \ {c} : req'[d] = req[d] /\ seen'[d] = seen[d]
    BY <1>6 DEF Refused, RequestsPlaced
  <2> QED BY <1>1, <1>3, <1>6, <2>1 DEF Grants
<1>7. ASSUME NEW c \in Clients, Step(c), ~Refused(c)
      PROVE  Grants'
  <2>1. UNCHANGED tables
    BY <1>7, StepFrame
  <2>2. PICK r : Goto(c, r) /\ GrantOK(r, seen[c])
    BY <1>7, StepGrants
  <2>3. /\ seen' = seen
        /\ req'[c] = r /\ \A d \in Clients \ {c} : req'[d] = req[d]
    BY <2>2, Goes
  <2>4. GrantOK(req[c], seen[c])'
    BY <1>2, <2>1, <2>2, <2>3
  <2> QED BY <1>1, <2>1, <2>3, <2>4 DEF Grants
<1>8. ASSUME NEW c \in Clients, Step(c) \/ AlertStatement(c)
      PROVE  Grants'
  <2>1. UNCHANGED tables
    BY <1>8, StepFrame, AlertStatementEnds
  <2>2. AlertStatement(c) => Refused(c)
    BY AlertStatementEnds
  <2> QED BY <1>6, <1>7, <1>8, <2>1, <2>2
<1>9. ASSUME NEW c \in Clients, Statement(c)
      PROVE  Grants'
  <2>1. Done(c)
    BY <1>9, StatementEnds
  <2>2. req'[c] = Idle /\ \A d \in Clients \ {c} : req'[d] = req[d]
    BY <2>1, Ends
  <2>3. ASSUME NEW d \in Clients, d # c
        PROVE  GrantOK(req[d], seen[d])'
    <3>1. req'[d] = req[d]
      BY <2>2, <2>3
    <3>2. CASE req[d].pc = "idle"
      <4>1. req'[d].pc = "idle"
        BY <3>1, <3>2
      <4> QED BY <4>1 DEF GrantOK
    <3>3. CASE req[d].pc # "idle"
      <4>1. PICK r, S : r = req[d] /\ S = seen[d]
        OBVIOUS
      <4>2. seen'[d] = S \cup {TokenRules(Call(d).token)'}
        BY <2>1, <2>3, <3>3, <4>1 DEF Done, At
      <4>3. r = req'[d]
        BY <3>1, <4>1
      <4>4. TokenRules(r.call.token)' \in seen'[d]
        BY <4>2, <4>3 DEF Call
      <4>5. GrantOK(r, S) /\ S \subseteq seen'[d]
        BY <4>1, <4>2 DEF Grants
      <4>6. PICK T : T = seen'[d]
        OBVIOUS
      <4>7. GrantOK(r, T)'
        BY <4>4, <4>5, <4>6, GrantStays
      <4> QED BY <4>3, <4>6, <4>7
    <3> QED BY <3>2, <3>3
  <2> QED BY <1>3, <2>2, <2>3 DEF Grants
<1> QED BY <1>4, <1>5, <1>8, <1>9, NextCases

(* What a policy will be about depends on what it is about and on the      *)
(* change alone.                                                           *)
LEMMA ChangedPair ==
    ASSUME NEW p \in GroupPolicy, NEW q \in GroupPolicy, NEW change, Pair(p) = Pair(q)
    PROVE  Pair(Changed(p, change, DOMAIN p)) = Pair(Changed(q, change, DOMAIN q))
<1>1. PICK F : F = {"group", "priority", "effect", "action", "resource"}
  OBVIOUS
<1>2. DOMAIN p = F /\ DOMAIN q = F /\ "action" \in F /\ "resource" \in F
  BY <1>1 DEF GroupPolicy
<1>3. p.action = q.action /\ p.resource = q.resource
  BY DEF Pair
<1>4. PICK r, s : r = Changed(p, change, DOMAIN p) /\ s = Changed(q, change, DOMAIN q)
  OBVIOUS
<1>5. /\ r = [f \in F |-> IF f \in F \cap DOMAIN change THEN change[f] ELSE p[f]]
      /\ s = [f \in F |-> IF f \in F \cap DOMAIN change THEN change[f] ELSE q[f]]
  BY <1>2, <1>4 DEF Changed
<1>6. r.action = s.action /\ r.resource = s.resource
  BY <1>2, <1>3, <1>5
<1> QED BY <1>4, <1>6 DEF Pair

(* A request only changes the tables if its token had access, at an        *)
(* instant of the request, to the resource as the URL spells it, and a     *)
(* policy only if also to the action and the literal resource the policy   *)
(* names, before and after (PolicyValidator, authorizePolicyGrant).        *)
(* Nothing follows for other spellings of the same uuid.                   *)
THEOREM ChangesWereAllowed == Spec => ChangesAuthorised
<1> DEFINE Inv == TablesTyped /\ RequestsPlaced /\ Grants
           Allowed == \A c \in Clients :
             At(c, "run") /\ At(c, "idle")' /\ tables' # tables =>
               LET call == Call(c)
               IN  /\ Had(c, Scope(call))
                   /\ call.op = "AddPolicy" => Had(c, Pair(call.rule))
                   /\ \A p \in DOMAIN policies :
                        /\ call.op \in {"UpdatePolicyByUuid", "DeletePolicyByUuid"}
                        /\ p = call.id
                        /\ Pair(policies[p]) = Pair(req[c].current)
                        => /\ Had(c, Pair(policies[p]))
                           /\ p \in DOMAIN policies' => Had(c, Pair(policies'[p]))
<1>1. Init => Inv
  <2> SUFFICES ASSUME Init PROVE Inv
    OBVIOUS
  <2>1. TablesTyped /\ RequestsPlaced
    BY InitialTables, PlacedInit DEF Init
  <2>2. \A c \in Clients : req[c].pc = "idle"
    BY IdleFacts DEF Init
  <2> QED BY <2>1, <2>2 DEF Grants, GrantOK
<1>2. Inv /\ [Next]_vars => Inv'
  BY TablesStep, RequestsStep, GrantsStep
<1>3. Inv /\ [Next]_vars => [Allowed]_vars
  <2> SUFFICES ASSUME Inv, [Next]_vars, NEW c \in Clients,
                      At(c, "run"), At(c, "idle")', tables' # tables
               PROVE  /\ Had(c, Scope(Call(c)))
                      /\ Call(c).op = "AddPolicy" => Had(c, Pair(Call(c).rule))
                      /\ \A p \in DOMAIN policies :
                           /\ Call(c).op \in {"UpdatePolicyByUuid", "DeletePolicyByUuid"}
                           /\ p = Call(c).id
                           /\ Pair(policies[p]) = Pair(req[c].current)
                           => /\ Had(c, Pair(policies[p]))
                              /\ p \in DOMAIN policies' => Had(c, Pair(policies'[p]))
    BY DEF Allowed
  <2>1. Statement(c)
    <3>1. PICK d \in Clients : Statement(d)
      <4>1. ~UNCHANGED vars /\ ~Tick /\ ~Cleanup
        BY DEF vars, Tick, Cleanup, tables
      <4>2. \A d \in Clients : ~Step(d) /\ ~AlertStatement(d) /\ \A call : ~Start(d, call)
        BY StepFrame, AlertStatementEnds DEF Start, tables
      <4> QED BY <4>1, <4>2, NextCases
    <3>2. Done(d)
      BY <3>1, StatementEnds
    <3>3. \A e \in Clients \ {d} : req'[e] = req[e]
      BY <3>2, Ends
    <3>4. req'[c] # req[c]
      BY DEF At
    <3> QED BY <3>1, <3>3, <3>4
  <2>2. GrantOK(req[c], seen[c]) /\ req[c].pc = "run" /\ PlaceOK(req[c])
    BY DEF Grants, At, RequestsPlaced
  <2>3. /\ \A k \in req[c].cache : Had(c, k)
        /\ Scope(Call(c)) \in req[c].cache
        /\ Needed(req[c]) \subseteq req[c].cache
        /\ Call(c).op \in PolicyOps \ {"AddPolicy"} => req[c].current \in GroupPolicy
    BY <2>2 DEF GrantOK, Had, Call
  <2>4. Call(c).op = "AddPolicy" => Had(c, Pair(Call(c).rule))
    BY <2>3 DEF Needed, Call
  <2>5. ASSUME NEW p \in DOMAIN policies,
               Call(c).op \in {"UpdatePolicyByUuid", "DeletePolicyByUuid"}, p = Call(c).id,
               Pair(policies[p]) = Pair(req[c].current)
        PROVE  /\ Had(c, Pair(policies[p]))
               /\ p \in DOMAIN policies' => Had(c, Pair(policies'[p]))
    <3>1. Pair(policies[p]) \in Needed(req[c])
      BY <2>5 DEF Needed, Call
    <3>2. Had(c, Pair(policies[p]))
      BY <2>3, <3>1
    <3>3. CASE Call(c).op = "DeletePolicyByUuid"
      <4>1. DeletePolicy(p)
        BY <2>1, <2>5, <3>3
           DEF Statement, AddPolicy, UpdatePolicyByUuid, DeletePolicyByUuid, AddUser,
               AddNewTokenToUser, DeleteTokenForUser, UpdateUserByUuid, DeleteUserByUuid, AddGroup,
               UpdateGroupByUuid, DeleteGroupByUuid, AddThing, DeleteThingByUuid, Runs
      <4>2. p \notin DOMAIN policies'
        BY <4>1, DeletePolicyTyped
      <4> QED BY <3>2, <4>2
    <3>4. CASE Call(c).op = "UpdatePolicyByUuid"
      <4>1. SetPolicy(p, Call(c).change)
        BY <2>1, <2>5, <3>4
           DEF Statement, AddPolicy, UpdatePolicyByUuid, DeletePolicyByUuid, AddUser,
               AddNewTokenToUser, DeleteTokenForUser, UpdateUserByUuid, DeleteUserByUuid, AddGroup,
               UpdateGroupByUuid, DeleteGroupByUuid, AddThing, DeleteThingByUuid, Runs
      <4>2. PolicyFields(Call(c).change)
        <5>1. Call(c) \in Load.calls
          BY <2>2 DEF PlaceOK, Call
        <5> QED BY <3>4, <5>1, CallsWellFormed DEF WellFormed
      <4>3. policies' = [policies EXCEPT ![p] = Changed(policies[p], Call(c).change, DOMAIN policies[p])]
        BY <4>1, <4>2, SetPolicyTyped
      <4>4. policies'[p] = Changed(policies[p], Call(c).change, DOMAIN policies[p])
        BY <4>3
      <4>5. policies[p] \in GroupPolicy /\ req[c].current \in GroupPolicy
        BY <2>3, <3>4 DEF TablesTyped, PolicyRows, PolicyOps
      <4>6. Pair(policies'[p]) = Pair(Changed(req[c].current, Call(c).change, DOMAIN req[c].current))
        BY <2>5, <4>4, <4>5, ChangedPair
      <4>7. Pair(policies'[p]) \in Needed(req[c])
        BY <3>4, <4>6 DEF Needed, Call
      <4> QED BY <2>3, <3>2, <4>7
    <3> QED BY <2>5, <3>3, <3>4
  <2> QED BY <2>3, <2>4, <2>5
<1>4. Spec => [][Allowed]_vars
  BY <1>1, <1>2, <1>3, PTL DEF Spec
<1> QED BY <1>4 DEF ChangesAuthorised

-----------------------------------------------------------------------------
(***************************************************************************)
(* Alerts.                                                                 *)
(***************************************************************************)
AlertsOK == AlertsTypeOK /\ AlertsSettled

(* An alert that is open or acknowledged is found again.                   *)
LEMMA TwinsAreLive == NoLiveTwins => TwinsNeedOverlap
<1> SUFFICES ASSUME NoLiveTwins,
                    NEW a \in DOMAIN alerts, NEW b \in DOMAIN alerts, a # b,
                    alerts[a].fresh, alerts[a].status \in {"open", "acknowledge"},
                    alerts[b].fresh, alerts[b].status \in {"open", "acknowledge"},
                    alerts[a].event = alerts[b].event
             PROVE  {a, b} \cap disturbed # {}
  BY DEF TwinsNeedOverlap
<1>1. a \in LiveAlerts(alerts[a].event) /\ b \in LiveAlerts(alerts[a].event)
  BY DEF LiveAlerts, LiveStatus
<1> QED BY <1>1 DEF NoLiveTwins

(* A step that brings no alert to life, or marks it as disturbed, makes no *)
(* twins and spoils nothing a merge has seen.                              *)
NoneRevived ==
  /\ raised \subseteq raised' /\ disturbed \subseteq disturbed'
  /\ \A e : \A a \in LiveAlerts(e)' : a \in LiveAlerts(e) \/ a \in disturbed'

LEMMA NoTwins ==
    ASSUME NoLiveTwins, NoneRevived
    PROVE  NoLiveTwins'
  BY DEF NoLiveTwins, NoneRevived

LEMMA MergeStays ==
    ASSUME NEW r, MergeOK(r), NoneRevived
    PROVE  MergeOK(r)'
  BY DEF MergeOK, NoneRevived

LEMMA UpdateAlertSettles ==
    ASSUME AlertsOK, NEW x, NEW change, AlertFields(change), UpdateAlert(x, change)
    PROVE  /\ AlertsTypeOK' /\ NoneRevived
           /\ \A a \in DOMAIN alerts' : DOMAIN alerts'[a] = AlertColumns
<1>1. CASE x \notin DOMAIN alerts
  BY <1>1 DEF UpdateAlert, AlertsOK, AlertsTypeOK, AlertsSettled, NoneRevived, alertVars, LiveAlerts
<1>2. CASE x \in DOMAIN alerts
  <2>1. PICK row : row = [f \in AlertColumns |-> IF f \in DOMAIN change THEN change[f] ELSE alerts[x][f]]
    OBVIOUS
  <2>2. DOMAIN alerts[x] = AlertColumns
    BY <1>2 DEF AlertsOK, AlertsSettled
  <2>3. /\ alerts' = [alerts EXCEPT ![x] = row] /\ raised' = raised
        /\ disturbed' = IF "event" \notin DOMAIN change /\ x \in LiveAlerts(alerts[x].event)
                        THEN disturbed ELSE disturbed \cup {x}
    BY <1>2, <2>1, <2>2 DEF UpdateAlert
  <2>4. /\ DOMAIN row = AlertColumns
        /\ row.status \in Statuses /\ row.fresh \in BOOLEAN /\ row.duplicate \in Nat
        /\ "event" \notin DOMAIN change => row.event = alerts[x].event
    BY <1>2, <2>1 DEF AlertFields, AlertColumns, AlertsOK, AlertsTypeOK
  <2>5. /\ DOMAIN alerts' = DOMAIN alerts /\ alerts'[x] = row
        /\ \A a \in DOMAIN alerts \ {x} : alerts'[a] = alerts[a]
    BY <1>2, <2>3
  <2>6. AlertsTypeOK'
    BY <2>3, <2>4, <2>5 DEF AlertsOK, AlertsTypeOK
  <2>7. \A a \in DOMAIN alerts' : DOMAIN alerts'[a] = AlertColumns
    BY <2>4, <2>5 DEF AlertsOK, AlertsSettled
  <2>8. ASSUME NEW e, NEW a \in LiveAlerts(e)'
        PROVE  a \in LiveAlerts(e) \/ a \in disturbed'
    <3>1. CASE a # x
      BY <2>5, <2>8, <3>1 DEF LiveAlerts
    <3>2. CASE a = x /\ disturbed' = disturbed \cup {x}
      BY <3>2
    <3>3. CASE a = x /\ "event" \notin DOMAIN change /\ x \in LiveAlerts(alerts[x].event)
      <4>1. e = alerts[x].event
        BY <2>4, <2>5, <2>8, <3>3 DEF LiveAlerts
      <4> QED BY <3>3, <4>1
    <3> QED BY <2>3, <3>1, <3>2, <3>3
  <2> QED BY <2>3, <2>6, <2>7, <2>8 DEF NoneRevived
<1> QED BY <1>1, <1>2

LEMMA DeleteAlertSettles ==
    ASSUME AlertsOK, NEW x, DeleteAlert(x)
    PROVE  /\ AlertsTypeOK' /\ NoneRevived
           /\ \A a \in DOMAIN alerts' : DOMAIN alerts'[a] = AlertColumns
<1>1. /\ DOMAIN alerts' = DOMAIN alerts \ {x} /\ raised' = raised /\ disturbed' = disturbed
      /\ \A a \in DOMAIN alerts \ {x} : alerts'[a] = alerts[a]
  BY DEF DeleteAlert, Restrict
<1> QED BY <1>1 DEF AlertsOK, AlertsTypeOK, AlertsSettled, NoneRevived, LiveAlerts

LEMMA TimeOutSettles ==
    ASSUME AlertsOK, NEW x \in DOMAIN alerts, AlertTimesOut(x)
    PROVE  /\ AlertsTypeOK' /\ NoneRevived
           /\ \A a \in DOMAIN alerts' : DOMAIN alerts'[a] = AlertColumns
<1>1. PICK row : row = [alerts[x] EXCEPT !.fresh = FALSE]
  OBVIOUS
<1>2. DOMAIN alerts[x] = AlertColumns
  BY DEF AlertsOK, AlertsSettled
<1>3. /\ DOMAIN row = AlertColumns /\ row.fresh = FALSE
      /\ row.status = alerts[x].status /\ row.duplicate = alerts[x].duplicate
  BY <1>1, <1>2 DEF AlertColumns
<1>4. /\ DOMAIN alerts' = DOMAIN alerts /\ raised' = raised /\ disturbed' = disturbed
      /\ alerts'[x] = row /\ \A a \in DOMAIN alerts \ {x} : alerts'[a] = alerts[a]
  BY <1>1 DEF AlertTimesOut
<1>5. AlertsTypeOK'
  BY <1>3, <1>4 DEF AlertsOK, AlertsTypeOK
<1>6. \A a \in DOMAIN alerts' : DOMAIN alerts'[a] = AlertColumns
  BY <1>3, <1>4 DEF AlertsOK, AlertsSettled
<1>7. \A e : LiveAlerts(e)' \subseteq LiveAlerts(e)
  BY <1>3, <1>4 DEF LiveAlerts
<1> QED BY <1>4, <1>5, <1>6, <1>7 DEF NoneRevived

LEMMA MergeUpdateSettles ==
    ASSUME AlertsOK, NEW e, MergeUpdate(e)
    PROVE  /\ AlertsTypeOK' /\ NoneRevived
           /\ \A a \in DOMAIN alerts' : DOMAIN alerts'[a] = AlertColumns
           /\ LiveAlerts(e)' \subseteq LiveAlerts(e)
<1>1. raised' = raised /\ disturbed' = disturbed /\ DOMAIN alerts' = DOMAIN alerts
  BY DEF MergeUpdate
<1>2. ASSUME NEW a \in DOMAIN alerts
      PROVE  /\ DOMAIN alerts'[a] = AlertColumns
             /\ alerts'[a].event = alerts[a].event /\ alerts'[a].status = alerts[a].status
             /\ alerts'[a].duplicate \in Nat /\ alerts'[a].fresh \in BOOLEAN
             /\ alerts'[a].fresh => alerts[a].fresh
  <2>1. DOMAIN alerts[a] = AlertColumns /\ alerts[a].duplicate \in Nat /\ alerts[a].fresh \in BOOLEAN
    BY DEF AlertsOK, AlertsSettled, AlertsTypeOK
  <2>2. CASE LiveAlerts(e) = {a}
    <3>1. PICK row : row = [alerts[a] EXCEPT !.duplicate = @ + 1, !.fresh = TRUE]
      OBVIOUS
    <3>2. alerts'[a] = row /\ alerts[a].fresh
      BY <2>2, <3>1 DEF MergeUpdate, LiveAlerts
    <3>3. /\ DOMAIN row = AlertColumns /\ row.event = alerts[a].event
          /\ row.status = alerts[a].status /\ row.duplicate = alerts[a].duplicate + 1
          /\ row.fresh = TRUE
      BY <2>1, <3>1 DEF AlertColumns
    <3>4. row.duplicate \in Nat
      BY <2>1, <3>3
    <3> QED BY <3>2, <3>3, <3>4, Zenon
  <2>3. CASE LiveAlerts(e) # {a}
    BY <2>1, <2>3 DEF MergeUpdate
  <2> QED BY <2>2, <2>3
<1>3. AlertsTypeOK'
  BY <1>1, <1>2 DEF AlertsOK, AlertsTypeOK
<1>4. \A f : LiveAlerts(f)' \subseteq LiveAlerts(f)
  BY <1>1, <1>2 DEF LiveAlerts
<1> QED BY <1>1, <1>2, <1>3, <1>4 DEF NoneRevived

(* The INSERT of a merge.  A live twin of the new alert was there when the *)
(* UPDATE looked, and someone has revived it since, or it was not, and the *)
(* new alert is marked.                                                    *)
LEMMA MergeInsertSettles ==
    ASSUME AlertsOK, NEW r, MergeOK(r), r.pc = "run", r.call.op = "CreateAlert",
           r.call.status \in Statuses, MergeInsert(r.call.event, r.call.status, r.known)
    PROVE  /\ AlertsTypeOK' /\ NoLiveTwins'
           /\ \A a \in DOMAIN alerts' : DOMAIN alerts'[a] = AlertColumns
           /\ \A q : MergeOK(q) => MergeOK(q)'
<1> DEFINE event == r.call.event
           known == r.known
<1>1. PICK x, row : /\ x = CHOOSE a \in AlertIds : a \notin raised
                    /\ row = [event |-> event, status |-> r.call.status, fresh |-> TRUE, duplicate |-> 0]
  OBVIOUS
<1>2. x \in AlertIds /\ x \notin raised
  BY <1>1 DEF MergeInsert
<1>3. /\ DOMAIN row = AlertColumns /\ row.event = event /\ row.status = r.call.status
      /\ row.fresh = TRUE /\ row.duplicate = 0
  BY <1>1 DEF AlertColumns
<1>4. /\ alerts' = [a \in DOMAIN alerts \cup {x} |-> IF a = x THEN row ELSE alerts[a]]
      /\ raised' = raised \cup {x}
      /\ disturbed' = IF LiveAlerts(event) \ known = {} THEN disturbed ELSE disturbed \cup {x}
  BY <1>1 DEF MergeInsert
<1>5. x \notin DOMAIN alerts
  BY <1>2 DEF AlertsOK, AlertsTypeOK
<1>6. /\ DOMAIN alerts' = DOMAIN alerts \cup {x} /\ alerts'[x] = row
      /\ \A a \in DOMAIN alerts : alerts'[a] = alerts[a]
  BY <1>4, <1>5
<1>7. AlertsTypeOK'
  <2>1. row.status \in Statuses /\ row.fresh \in BOOLEAN /\ row.duplicate \in Nat
    <3>1. row.duplicate \in Nat
      BY <1>3
    <3> QED BY <1>3, <3>1, Zenon
  <2>2. \A a \in DOMAIN alerts' : /\ alerts'[a].status \in Statuses /\ alerts'[a].fresh \in BOOLEAN
                                 /\ alerts'[a].duplicate \in Nat
    BY <1>6, <2>1 DEF AlertsOK, AlertsTypeOK
  <2> QED BY <1>2, <1>4, <1>6, <2>2 DEF AlertsOK, AlertsTypeOK
<1>8. \A a \in DOMAIN alerts' : DOMAIN alerts'[a] = AlertColumns
  BY <1>3, <1>6 DEF AlertsOK, AlertsSettled
<1>9. /\ \A e : LiveAlerts(e)' \subseteq LiveAlerts(e) \cup {x}
      /\ \A e : x \in LiveAlerts(e)' => e = event
      /\ disturbed \subseteq disturbed'
  BY <1>3, <1>4, <1>6 DEF LiveAlerts
<1>10. \A q : MergeOK(q) => MergeOK(q)'
  BY <1>2, <1>4, <1>9 DEF MergeOK
<1>11. \A b \in LiveAlerts(event) : b \in disturbed \/ x \in disturbed'
  BY <1>4 DEF MergeOK
<1>12. NoLiveTwins
  BY DEF AlertsOK, AlertsSettled
<1>13. NoLiveTwins'
  <2> SUFFICES ASSUME NEW e, NEW a \in LiveAlerts(e)', NEW b \in LiveAlerts(e)', a # b
               PROVE  a \in disturbed' \/ b \in disturbed'
    BY DEF NoLiveTwins
  <2>1. CASE a # x /\ b # x
    BY <1>9, <1>12, <2>1 DEF NoLiveTwins
  <2>2. CASE a = x \/ b = x
    BY <1>9, <1>11, <2>2
  <2> QED BY <2>1, <2>2
<1> QED BY <1>7, <1>8, <1>10, <1>13

(* The requests that stay, or end, or go anywhere but from the UPDATE to   *)
(* the INSERT of a merge.                                                  *)
LEMMA OthersMergeOK ==
    ASSUME RequestsPlaced, AlertsOK, NEW c \in Clients, Step(c), ~Refused(c), ~MergeAlert(c)
    PROVE  \E r : Goto(c, r) /\ MergeOK(r)
<1>1. PlaceOK(req[c]) /\ DOMAIN req[c] = RequestFields /\ "call" \in RequestFields
  BY DEF RequestsPlaced, PlaceOK, RequestFields
<1>2. ASSUME NEW r, NEW learned, Keeps(req[c], r, learned), "call" \notin learned,
             r.pc # "run" \/ Call(c).op # "CreateAlert"
      PROVE  MergeOK(r)
  BY <1>1, <1>2 DEF Keeps, MergeOK, Call
<1>3. CASE PolicyValidator(c)
  BY <1>2, <1>3, ValidatorMoves
<1>4. CASE GetUserUuidFromToken(c)
  BY <1>2, <1>4, AuthorMoves
<1>5. CASE LoadVisitor(c)
  BY <1>2, <1>5, LoadMoves
<1>6. CASE AddVisitor(c)
  BY <1>2, <1>6, AddMoves
<1>7. CASE RateControl(c)
  BY <1>2, <1>7, RateMoves, FirstStepFacts
<1>8. CASE FindPolicy(c)
  BY <1>2, <1>8, FindMoves
<1>9. CASE AuthorizePolicyGrant(c)
  <2>1. Call(c).op # "CreateAlert"
    BY <1>1, <1>9 DEF AuthorizePolicyGrant, At, PlaceOK, PolicyOps, Call
  <2> QED BY <1>2, <1>9, <2>1, GrantMoves
<1>10. CASE RereadPolicy(c)
  BY <1>2, <1>10, RereadMoves
<1>11. CASE ValidatePolicyRule(c)
  <2>1. Call(c).op # "CreateAlert"
    BY <1>1, <1>11 DEF ValidatePolicyRule, At, PlaceOK, PolicyOps, Call
  <2> QED BY <1>2, <1>11, <2>1, ValidateMoves
<1>12. CASE FindMemberships(c)
  <2>1. Call(c).op # "CreateAlert"
    BY <1>1, <1>12 DEF FindMemberships, At, PlaceOK, Call
  <2> QED BY <1>2, <1>12, <2>1, SelectMoves
<1>13. ~Abort(c) /\ ~List(c)
  BY DEF Abort, List
<1> QED BY <1>3, <1>4, <1>5, <1>6, <1>7, <1>8, <1>9, <1>10, <1>11, <1>12, <1>13 DEF Step

LEMMA AlertsStep ==
    ASSUME RequestsPlaced, AlertsOK, [Next]_vars
    PROVE  AlertsOK'
<1>1. \A d \in Clients : MergeOK(req[d])
  BY DEF AlertsOK, AlertsSettled
<1>2. ASSUME AlertsTypeOK', NoneRevived,
             \A a \in DOMAIN alerts' : DOMAIN alerts'[a] = AlertColumns,
             \A d \in Clients : (\E r : req'[d] = r /\ MergeOK(r)) \/ MergeOK(req[d])'
      PROVE  AlertsOK'
  <2>1. NoLiveTwins'
    BY <1>2, NoTwins DEF AlertsOK, AlertsSettled
  <2>2. ASSUME NEW d \in Clients, NEW r, req'[d] = r, MergeOK(r)
        PROVE  MergeOK(req[d])'
    <3>1. MergeOK(r)'
      BY <1>2, <2>2, MergeStays
    <3> QED BY <2>2, <3>1
  <2> QED BY <1>2, <2>1, <2>2 DEF AlertsOK, AlertsSettled
<1>3. MergeOK(Idle)
  BY IdleFacts DEF MergeOK
<1>4. ASSUME UNCHANGED alertVars
      PROVE  /\ AlertsTypeOK' /\ NoneRevived
             /\ \A a \in DOMAIN alerts' : DOMAIN alerts'[a] = AlertColumns
  BY <1>4 DEF alertVars, AlertsOK, AlertsTypeOK, AlertsSettled, NoneRevived, LiveAlerts
<1>5. ASSUME req' = req, UNCHANGED alertVars
      PROVE  AlertsOK'
  BY <1>1, <1>2, <1>4, <1>5
<1>6. CASE UNCHANGED vars
  BY <1>5, <1>6 DEF vars, server
<1>7. CASE Cleanup
  <2>1. req' = req /\ UNCHANGED alertVars
    BY <1>7 DEF Cleanup, server
  <2> QED BY <1>5, <2>1
<1>8. CASE Tick
  <2>1. req' = req /\ (UNCHANGED alertVars \/ \E a \in DOMAIN alerts : AlertTimesOut(a))
    BY <1>8 DEF Tick
  <2>2. ASSUME NEW a \in DOMAIN alerts, AlertTimesOut(a)
        PROVE  AlertsOK'
    BY <1>1, <1>2, <2>1, <2>2, TimeOutSettles
  <2> QED BY <1>5, <2>1, <2>2
<1>9. ASSUME NEW c \in Clients, NEW call \in Load.calls, Start(c, call)
      PROVE  AlertsOK'
  <2>1. PICK r : /\ req' = [req EXCEPT ![c] = r] /\ r.pc = "check"
    BY <1>9, StartMoves
  <2>2. req'[c] = r /\ \A d \in Clients \ {c} : req'[d] = req[d]
    BY <2>1 DEF RequestsPlaced
  <2>3. MergeOK(r)
    BY <2>1 DEF MergeOK
  <2>4. UNCHANGED alertVars
    BY <1>9 DEF Start
  <2> QED BY <1>1, <1>2, <1>4, <2>2, <2>3, <2>4
<1>10. ASSUME NEW c \in Clients, Refused(c) \/ Done(c),
              AlertsTypeOK', NoneRevived,
              \A a \in DOMAIN alerts' : DOMAIN alerts'[a] = AlertColumns
       PROVE  AlertsOK'
  <2>1. req'[c] = Idle /\ \A d \in Clients \ {c} : req'[d] = req[d]
    BY <1>10, Ends
  <2> QED BY <1>1, <1>2, <1>3, <1>10, <2>1
<1>11. ASSUME NEW c \in Clients, MergeAlert(c)
       PROVE  AlertsOK'
  <2>1. MergeUpdate(Call(c).event)
    BY <1>11 DEF MergeAlert
  <2>2. PICK e : e = Call(c).event
    OBVIOUS
  <2>3. /\ AlertsTypeOK' /\ NoneRevived
        /\ \A a \in DOMAIN alerts' : DOMAIN alerts'[a] = AlertColumns
        /\ LiveAlerts(e)' \subseteq LiveAlerts(e)
    BY <2>1, <2>2, MergeUpdateSettles
  <2>4. CASE Refused(c)
    BY <1>10, <2>3, <2>4
  <2>5. CASE ~Refused(c)
    <3>1. PICK r : /\ Goto(c, r) /\ Keeps(req[c], r, {"pc", "known"})
                   /\ r.known = DOMAIN alerts /\ LiveAlerts(e) = {}
      BY <1>11, <2>2, <2>5, MergeMoves
    <3>2. req'[c] = r /\ \A d \in Clients \ {c} : req'[d] = req[d]
      BY <3>1, Goes
    <3>3. r.call.event = e
      BY <2>2, <3>1 DEF Keeps, RequestFields, Call
    <3>4. MergeOK(r)
      BY <3>1, <3>3 DEF MergeOK, AlertsOK, AlertsTypeOK
    <3> QED BY <1>1, <1>2, <2>3, <3>2, <3>4
  <2> QED BY <2>4, <2>5
<1>12. ASSUME NEW c \in Clients, Step(c)
       PROVE  AlertsOK'
  <2>1. CASE MergeAlert(c)
    BY <1>11, <2>1
  <2>2. CASE ~MergeAlert(c)
    <3>1. UNCHANGED alertVars
      BY <1>12, <2>2, StepFrame
    <3>2. CASE Refused(c)
      BY <1>4, <1>10, <3>1, <3>2
    <3>3. CASE ~Refused(c)
      <4>1. PICK r : Goto(c, r) /\ MergeOK(r)
        BY <1>12, <2>2, <3>3, OthersMergeOK
      <4>2. req'[c] = r /\ \A d \in Clients \ {c} : req'[d] = req[d]
        BY <4>1, Goes
      <4> QED BY <1>1, <1>2, <1>4, <3>1, <4>1, <4>2
    <3> QED BY <3>2, <3>3
  <2> QED BY <2>1, <2>2
<1>13. ASSUME NEW c \in Clients, Statement(c)
       PROVE  AlertsOK'
  <2>1. Done(c)
    BY <1>13, StatementEnds
  <2>2. UNCHANGED alertVars
    BY <2>1 DEF Done
  <2> QED BY <1>4, <1>10, <2>1, <2>2
<1>14. ASSUME NEW c \in Clients, AlertStatement(c)
       PROVE  AlertsOK'
  <2>1. Refused(c) /\ req[c].pc = "run"
    BY <1>14, AlertStatementEnds DEF At
  <2>2. Call(c) \in Load.calls
    BY <2>1 DEF RequestsPlaced, PlaceOK, Call
  <2>3. WellFormed(Call(c))
    BY <2>2, CallsWellFormed
  <2>4. CASE CreateAlert(c)
    <3>1. PICK r : r = req[c]
      OBVIOUS
    <3>2. /\ MergeOK(r) /\ r.pc = "run" /\ r.call.op = "CreateAlert"
          /\ MergeInsert(r.call.event, r.call.status, r.known)
      BY <1>1, <2>4, <3>1 DEF CreateAlert, Runs, At, Call
    <3>3. r.call.status \in Statuses
      BY <2>3, <3>1, <3>2 DEF WellFormed, Call
    <3>4. /\ AlertsTypeOK' /\ NoLiveTwins'
          /\ \A a \in DOMAIN alerts' : DOMAIN alerts'[a] = AlertColumns
          /\ \A q : MergeOK(q) => MergeOK(q)'
      BY <3>2, <3>3, MergeInsertSettles
    <3>5. req'[c] = Idle /\ \A d \in Clients \ {c} : req'[d] = req[d]
      BY <2>1, Ends
    <3>6. ASSUME NEW d \in Clients
          PROVE  MergeOK(req[d])'
      <4>1. PICK q : q = req'[d]
        OBVIOUS
      <4>2. MergeOK(q)
        BY <1>1, <1>3, <3>5, <4>1
      <4>3. MergeOK(q)'
        BY <3>4, <4>2
      <4> QED BY <4>1, <4>3
    <3> QED BY <3>4, <3>6 DEF AlertsOK, AlertsSettled
  <2>5. CASE UpdateAlertByUuid(c)
    <3>1. UpdateAlert(Call(c).id, Call(c).change) /\ AlertFields(Call(c).change)
      BY <2>3, <2>5 DEF UpdateAlertByUuid, Runs, WellFormed
    <3> QED BY <1>10, <2>1, <3>1, UpdateAlertSettles
  <2>6. CASE DeleteAlertByUuid(c)
    <3>1. DeleteAlert(Call(c).id)
      BY <2>6 DEF DeleteAlertByUuid
    <3> QED BY <1>10, <2>1, <3>1, DeleteAlertSettles
  <2> QED BY <1>14, <2>4, <2>5, <2>6 DEF AlertStatement
<1> QED BY <1>6, <1>7, <1>8, <1>9, <1>12, <1>13, <1>14, NextCases

-----------------------------------------------------------------------------
(***************************************************************************)
(* The rate controller: counting the tokens of buckets.                    *)
(***************************************************************************)
LEMMA ChipsFinite ==
    ASSUME NEW n \in Nat, NEW bs, Len(bs) \in Nat, NEW v
    PROVE  IsFiniteSet(Chips(bs, n, v)) /\ Cardinality(Chips(bs, n, v)) \in Nat
<1>1. IsFiniteSet(1 .. Len(bs)) /\ IsFiniteSet(1 .. n)
  BY FS_Interval
<1>2. IsFiniteSet((1 .. Len(bs)) \X (1 .. n))
  BY <1>1, FS_Product
<1>3. Chips(bs, n, v) \subseteq (1 .. Len(bs)) \X (1 .. n)
  BY DEF Chips
<1>4. IsFiniteSet(Chips(bs, n, v))
  BY <1>2, <1>3, FS_Subset
<1> QED BY <1>4, FS_CardinalityType

LEMMA ChipsKept ==
    ASSUME NEW n, NEW bs, NEW new, NEW v, Len(new) = Len(bs),
           \A k \in 1 .. Len(bs) : /\ new[k].of = v <=> bs[k].of = v
                                   /\ bs[k].of = v => new[k].left = bs[k].left
    PROVE  Chips(new, n, v) = Chips(bs, n, v)
<1>1. \A k \in (1 .. Len(bs)) \X (1 .. n) : k[1] \in 1 .. Len(bs)
  OBVIOUS
<1>2. ASSUME NEW k \in (1 .. Len(bs)) \X (1 .. n)
      PROVE  (new[k[1]].of = v /\ k[2] <= new[k[1]].left) <=> (bs[k[1]].of = v /\ k[2] <= bs[k[1]].left)
  BY <1>1
<1> QED BY <1>2 DEF Chips

(* One bucket has a token less.                                            *)
OneLess(n, bs, new, b) ==
  /\ Len(new) = Len(bs) /\ Len(bs) \in Nat /\ b \in 1 .. Len(bs)
  /\ \A k \in 1 .. Len(bs) : bs[k].left \in 0 .. n /\ new[k].of = bs[k].of
  /\ \A k \in (1 .. Len(bs)) \ {b} : new[k].left = bs[k].left
  /\ bs[b].left > 0 /\ new[b].left = bs[b].left - 1

LEMMA OneChipLess ==
    ASSUME NEW n \in Nat, NEW bs, NEW new, NEW b, OneLess(n, bs, new, b)
    PROVE  \A v : Cardinality(Chips(bs, n, v))
                    = Cardinality(Chips(new, n, v)) + (IF v = bs[b].of THEN 1 ELSE 0)
<1> USE DEF OneLess
<1>1. \A k \in (1 .. Len(bs)) \X (1 .. n) : k[1] \in 1 .. Len(bs) /\ k[2] \in 1 .. n /\ k = <<k[1], k[2]>>
  OBVIOUS
<1>2. PICK v, l : v = bs[b].of /\ l = bs[b].left
  OBVIOUS
<1>3. l \in 1 .. n /\ <<b, l>> \in (1 .. Len(bs)) \X (1 .. n)
  BY <1>2
<1>4. <<b, l>> \in Chips(bs, n, v)
  BY <1>2, <1>3 DEF Chips
<1>5. ASSUME NEW k \in (1 .. Len(bs)) \X (1 .. n)
      PROVE  (new[k[1]].of = v /\ k[2] <= new[k[1]].left)
               <=> (bs[k[1]].of = v /\ k[2] <= bs[k[1]].left /\ k # <<b, l>>)
  <2>1. PICK i, j : i \in 1 .. Len(bs) /\ j \in 1 .. n /\ i = k[1] /\ j = k[2] /\ k = <<i, j>>
    BY <1>1
  <2>2. k = <<b, l>> <=> i = b /\ j = l
    BY <2>1
  <2>3. CASE i = b
    <3>1. j <= new[b].left <=> j <= l /\ j # l
      BY <1>2, <1>3, <2>1
    <3> QED BY <1>2, <2>1, <2>2, <2>3, <3>1
  <2>4. CASE i # b
    BY <1>2, <2>1, <2>2, <2>4
  <2> QED BY <2>3, <2>4
<1>6. Chips(new, n, v) = Chips(bs, n, v) \ {<<b, l>>}
  BY <1>5 DEF Chips
<1>7. \A w : /\ IsFiniteSet(Chips(bs, n, w)) /\ Cardinality(Chips(bs, n, w)) \in Nat
             /\ IsFiniteSet(Chips(new, n, w)) /\ Cardinality(Chips(new, n, w)) \in Nat
  BY ChipsFinite
<1>8. Cardinality(Chips(new, n, v)) = Cardinality(Chips(bs, n, v)) - 1
  BY <1>4, <1>6, <1>7, FS_RemoveElement
<1>9. ASSUME NEW w, w # v
      PROVE  Chips(new, n, w) = Chips(bs, n, w)
  BY <1>2, <1>9, ChipsKept
<1> QED BY <1>2, <1>7, <1>8, <1>9

(* A full bucket is added.                                                 *)
LEMMA ChipsAdded ==
    ASSUME NEW n \in Nat, NEW bs, NEW new, Len(new) = Len(bs) + 1, Len(bs) \in Nat,
           \A k \in 1 .. Len(bs) : new[k] = bs[k], new[Len(bs) + 1].left = n
    PROVE  \A v : Cardinality(Chips(new, n, v))
                    = Cardinality(Chips(bs, n, v)) + (IF v = new[Len(bs) + 1].of THEN n ELSE 0)
<1>1. \A v : IsFiniteSet(Chips(bs, n, v)) /\ Cardinality(Chips(bs, n, v)) \in Nat
  BY ChipsFinite
<1>2. PICK l, T : l = Len(bs) + 1 /\ T = {l} \X (1 .. n)
  OBVIOUS
<1>3. IsFiniteSet(T) /\ Cardinality(T) = n
  <2>1. IsFiniteSet(1 .. n) /\ Cardinality(1 .. n) = n
    BY FS_Interval
  <2>2. IsFiniteSet({l}) /\ Cardinality({l}) = 1
    BY FS_Singleton
  <2>3. IsFiniteSet(T) /\ Cardinality(T) = Cardinality({l}) * Cardinality(1 .. n)
    BY <1>2, <2>1, <2>2, FS_Product, Zenon
  <2> QED BY <2>1, <2>2, <2>3
<1>4. \A k \in (1 .. l) \X (1 .. n) :
        /\ k[1] \in 1 .. l /\ k[2] \in 1 .. n
        /\ k \in (1 .. Len(bs)) \X (1 .. n) <=> k[1] # l
        /\ k \in T <=> k[1] = l
  <2> SUFFICES ASSUME NEW k \in (1 .. l) \X (1 .. n)
               PROVE  /\ k[1] \in 1 .. l /\ k[2] \in 1 .. n
                      /\ k \in (1 .. Len(bs)) \X (1 .. n) <=> k[1] # l
                      /\ k \in T <=> k[1] = l
    OBVIOUS
  <2>1. PICK i \in 1 .. l, j \in 1 .. n : k = <<i, j>>
    OBVIOUS
  <2>2. i \in 1 .. Len(bs) <=> i # l
    BY <1>2
  <2> QED BY <1>2, <2>1, <2>2
<1>5. (1 .. Len(bs)) \X (1 .. n) \subseteq (1 .. l) \X (1 .. n) /\ T \subseteq (1 .. l) \X (1 .. n)
  BY <1>2
<1>6. ASSUME NEW v, v # new[l].of
      PROVE  Chips(new, n, v) = Chips(bs, n, v)
  <2>1. ASSUME NEW k \in (1 .. l) \X (1 .. n)
        PROVE  k \in Chips(new, n, v) <=> k \in Chips(bs, n, v)
    <3>1. CASE k[1] = l
      BY <1>2, <1>4, <1>6, <3>1 DEF Chips
    <3>2. CASE k[1] # l
      BY <1>2, <1>4, <3>2 DEF Chips
    <3> QED BY <3>1, <3>2
  <2>2. Chips(new, n, v) \subseteq (1 .. l) \X (1 .. n) /\ Chips(bs, n, v) \subseteq (1 .. l) \X (1 .. n)
    BY <1>2, <1>5 DEF Chips
  <2> QED BY <2>1, <2>2
<1>7. ASSUME NEW v, v = new[l].of
      PROVE  Cardinality(Chips(new, n, v)) = Cardinality(Chips(bs, n, v)) + n
  <2>1. ASSUME NEW k \in (1 .. l) \X (1 .. n)
        PROVE  /\ k \in Chips(new, n, v) <=> k \in Chips(bs, n, v) \/ k \in T
               /\ ~(k \in Chips(bs, n, v) /\ k \in T)
    <3>1. CASE k[1] = l
      BY <1>2, <1>4, <1>7, <3>1 DEF Chips
    <3>2. CASE k[1] # l
      BY <1>2, <1>4, <3>2 DEF Chips
    <3> QED BY <3>1, <3>2
  <2>2. Chips(new, n, v) \subseteq (1 .. l) \X (1 .. n) /\ Chips(bs, n, v) \subseteq (1 .. l) \X (1 .. n)
    BY <1>2, <1>5 DEF Chips
  <2>3. Chips(new, n, v) = Chips(bs, n, v) \cup T /\ Chips(bs, n, v) \cap T = {}
    BY <1>5, <2>1, <2>2
  <2>4. Cardinality(Chips(new, n, v)) = Cardinality(Chips(bs, n, v)) + n - Cardinality({})
    BY <1>1, <1>3, <2>3, FS_Union
  <2> QED BY <1>1, <2>4, FS_EmptySet
<1> QED BY <1>1, <1>2, <1>6, <1>7

(* Buckets stay, and stay with their visitor.                              *)
BucketsKept ==
  \A b \in DOMAIN buckets : b \in DOMAIN buckets' /\ buckets'[b].of = buckets[b].of

LEMMA BucketFacts ==
    ASSUME RateTables
    PROVE  /\ Len(buckets) \in Nat /\ DOMAIN buckets = 1 .. Len(buckets)
           /\ \A b \in DOMAIN buckets :
                /\ buckets[b] \in Bucket(Visitors, burst)
                /\ DOMAIN buckets[b] = {"of", "left", "recent"}
                /\ buckets[b].of \in Visitors /\ buckets[b].left \in 0 .. burst
                /\ buckets[b].recent \in BOOLEAN
<1>1. Len(buckets) \in Nat /\ DOMAIN buckets = 1 .. Len(buckets)
      /\ \A b \in DOMAIN buckets : buckets[b] \in Bucket(Visitors, burst)
  BY DEF RateTables
<1>2. ASSUME NEW V, NEW n, NEW row \in Bucket(V, n)
      PROVE  /\ DOMAIN row = {"of", "left", "recent"}
             /\ row.of \in V /\ row.left \in 0 .. n /\ row.recent \in BOOLEAN
  BY DEF Bucket
<1> QED BY <1>1, <1>2

LEMMA VisitorsKept ==
    ASSUME load' = load
    PROVE  Visitors' = Visitors
  BY DEF Visitors, Load

LEMMA LoadOrStoreCounted ==
    ASSUME RateTables, Budget, load' = load, NEW v \in Visitors, LoadOrStore(v)
    PROVE  /\ RateTables' /\ Budget' /\ BucketsKept
           /\ v \in DOMAIN visitors'
<1>1. PICK V, n : V = Visitors /\ n = burst /\ V = Visitors' /\ n = burst' /\ n \in Nat
  BY VisitorsKept DEF LoadOrStore, RateTables
<1>2. doomed' = doomed /\ admitted' = admitted /\ regained' = regained
  BY DEF LoadOrStore
<1>3. CASE v \in DOMAIN visitors
  <2>1. visitors' = visitors /\ buckets' = buckets
    BY <1>3 DEF LoadOrStore
  <2> QED BY <1>1, <1>2, <1>3, <2>1 DEF RateTables, Budget, BucketsKept
<1>4. CASE v \notin DOMAIN visitors
  <2>1. PICK row, len : row = [of |-> v, left |-> n, recent |-> TRUE] /\ len = Len(buckets)
    OBVIOUS
  <2>2. row \in Bucket(V, n) /\ row.of = v /\ row.left = n
    BY <1>1, <2>1 DEF Bucket
  <2>3. /\ visitors' = [x \in DOMAIN visitors \cup {v} |-> IF x = v THEN len + 1 ELSE visitors[x]]
        /\ buckets' = Append(buckets, row)
    BY <1>1, <1>4, <2>1 DEF LoadOrStore
  <2>4. buckets \in Seq(Bucket(V, n))
    BY <1>1 DEF RateTables
  <2>5. /\ buckets' \in Seq(Bucket(V, n)) /\ len \in Nat /\ Len(buckets') = len + 1
        /\ DOMAIN buckets' = 1 .. len + 1 /\ DOMAIN buckets = 1 .. len
        /\ buckets'[len + 1] = row /\ \A k \in 1 .. len : buckets'[k] = buckets[k]
    BY <2>1, <2>2, <2>3, <2>4
  <2>6. /\ DOMAIN visitors' = DOMAIN visitors \cup {v} /\ visitors'[v] = len + 1
        /\ \A x \in DOMAIN visitors : visitors'[x] = visitors[x]
    BY <1>4, <2>3
  <2>7. BucketsKept
    BY <2>5 DEF BucketsKept
  <2>8. RateTables'
    <3>1. DOMAIN visitors \subseteq V /\ doomed \subseteq DOMAIN visitors
          /\ \A x \in DOMAIN visitors : visitors[x] \in 1 .. len /\ buckets[visitors[x]].of = x
      BY <1>1, <2>5 DEF RateTables
    <3>2. \A x \in DOMAIN visitors' : visitors'[x] \in 1 .. len + 1 /\ buckets'[visitors'[x]].of = x
      BY <2>2, <2>5, <2>6, <3>1
    <3>3. DOMAIN visitors' \subseteq V /\ doomed' \subseteq DOMAIN visitors'
      BY <1>1, <1>2, <2>6, <3>1
    <3>4. admitted' \in [V -> Nat] /\ regained' \in [V -> Nat]
      BY <1>1, <1>2 DEF RateTables
    <3> QED BY <1>1, <2>5, <3>2, <3>3, <3>4 DEF RateTables
  <2>9. PICK bs, new : bs = buckets /\ new = buckets'
    OBVIOUS
  <2>10. \A w : Cardinality(Chips(new, n, w))
                  = Cardinality(Chips(bs, n, w)) + (IF w = new[Len(bs) + 1].of THEN n ELSE 0)
    <3>1. /\ n \in Nat /\ Len(new) = Len(bs) + 1 /\ Len(bs) \in Nat
          /\ \A k \in 1 .. Len(bs) : new[k] = bs[k]
          /\ new[Len(bs) + 1].left = n
      BY <1>1, <2>1, <2>2, <2>5, <2>9
    <3> QED BY <3>1, ChipsAdded
  <2>11. \A w : Cardinality(Chips(buckets', n, w))
                  = Cardinality(Chips(buckets, n, w)) + (IF w = v THEN n ELSE 0)
    BY <2>1, <2>2, <2>5, <2>9, <2>10
  <2>12. Budget'
    <3> SUFFICES ASSUME NEW w \in V
                 PROVE  admitted'[w] + Cardinality(Chips(buckets', n, w))
                          + (IF w \in DOMAIN visitors' THEN 0 ELSE n) <= n + regained'[w]
      BY <1>1 DEF Budget
    <3>1. admitted[w] + Cardinality(Chips(buckets, n, w)) + (IF w \in DOMAIN visitors THEN 0 ELSE n)
            <= n + regained[w]
      BY <1>1 DEF Budget
    <3>2. Cardinality(Chips(buckets, n, w)) \in Nat
      BY <1>1, <2>1, <2>5, ChipsFinite
    <3>3. admitted[w] \in Nat /\ regained[w] \in Nat
      BY <1>1 DEF RateTables
    <3>4. PICK ch, ad, re : ch = Cardinality(Chips(buckets, n, w)) /\ ad = admitted[w] /\ re = regained[w]
      OBVIOUS
    <3>5. Cardinality(Chips(buckets', n, w)) = ch + (IF w = v THEN n ELSE 0)
      BY <2>11, <3>4
    <3>6. w \in DOMAIN visitors' <=> w \in DOMAIN visitors \/ w = v
      BY <2>6
    <3> QED BY <1>1, <1>2, <1>4, <3>1, <3>2, <3>3, <3>4, <3>5, <3>6
  <2> QED BY <2>6, <2>7, <2>8, <2>12
<1> QED BY <1>3, <1>4

LEMMA BucketReplaced ==
    ASSUME RateTables, load' = load, UNCHANGED <<burst, visitors, doomed>>,
           NEW b \in DOMAIN buckets, NEW row \in Bucket(Visitors, burst), row.of = buckets[b].of,
           buckets' = [buckets EXCEPT ![b] = row],
           admitted' \in [Visitors -> Nat], regained' \in [Visitors -> Nat]
    PROVE  /\ RateTables' /\ BucketsKept
           /\ Len(buckets') = Len(buckets)
           /\ \A k \in 1 .. Len(buckets) : buckets'[k].of = buckets[k].of
           /\ \A k \in (1 .. Len(buckets)) \ {b} : buckets'[k].left = buckets[k].left
           /\ buckets'[b].left = row.left
<1>1. PICK V, n : V = Visitors /\ n = burst /\ V = Visitors' /\ n = burst'
  BY VisitorsKept
<1>2. buckets \in Seq(Bucket(V, n)) /\ row \in Bucket(V, n)
  BY <1>1 DEF RateTables
<1>3. /\ buckets' \in Seq(Bucket(V, n)) /\ Len(buckets') = Len(buckets)
      /\ DOMAIN buckets' = DOMAIN buckets /\ DOMAIN buckets = 1 .. Len(buckets)
      /\ buckets'[b] = row /\ \A k \in DOMAIN buckets \ {b} : buckets'[k] = buckets[k]
  BY <1>2
<1>4. BucketsKept
  BY <1>3 DEF BucketsKept
<1>5. \A v \in DOMAIN visitors' : visitors'[v] \in DOMAIN buckets' /\ buckets'[visitors'[v]].of = v
  BY <1>3, <1>4 DEF RateTables, BucketsKept
<1>6. n \in Nat /\ DOMAIN visitors' \subseteq V /\ doomed' \subseteq DOMAIN visitors'
  BY <1>1 DEF RateTables
<1>7. RateTables'
  BY <1>1, <1>3, <1>5, <1>6 DEF RateTables
<1> QED BY <1>3, <1>4, <1>7 DEF BucketsKept

LEMMA AllowCounted ==
    ASSUME RateTables, Budget, load' = load, NEW v, NEW b \in DOMAIN buckets, buckets[b].of = v,
           Allow(v, b)
    PROVE  RateTables' /\ Budget' /\ BucketsKept
<1>1. PICK V, n : V = Visitors /\ n = burst /\ V = Visitors' /\ n = burst' /\ n \in Nat
  BY VisitorsKept DEF Allow, RateTables
<1>2. /\ Len(buckets) \in Nat /\ DOMAIN buckets = 1 .. Len(buckets)
      /\ \A k \in DOMAIN buckets : buckets[k].left \in 0 .. n
      /\ DOMAIN buckets[b] = {"of", "left", "recent"} /\ buckets[b].of \in V
      /\ buckets[b].recent \in BOOLEAN
  BY <1>1, BucketFacts
<1>3. PICK l : l = IF buckets[b].left > 0 THEN buckets[b].left - 1 ELSE 0
  OBVIOUS
<1>4. PICK row : row = [buckets[b] EXCEPT !.left = l, !.recent = TRUE]
  OBVIOUS
<1>5. DOMAIN row = {"of", "left", "recent"} /\ row.of = v /\ row.left = l /\ row.recent = TRUE
  BY <1>2, <1>4
<1>6. l \in 0 .. n
  BY <1>1, <1>2, <1>3
<1>7. row \in Bucket(V, n)
  <2>1. row = [of |-> v, left |-> l, recent |-> TRUE]
    BY <1>2, <1>4
  <2> QED BY <1>2, <1>6, <2>1 DEF Bucket
<1>8. /\ buckets' = [buckets EXCEPT ![b] = row]
      /\ UNCHANGED <<burst, visitors, doomed>> /\ regained' = regained
      /\ admitted' = IF buckets[b].left > 0 THEN [admitted EXCEPT ![v] = @ + 1] ELSE admitted
  <2>1. buckets' = [buckets EXCEPT ![b] =
                      [buckets[b] EXCEPT !.left = IF buckets[b].left > 0 THEN buckets[b].left - 1 ELSE 0,
                                         !.recent = TRUE]]
    BY DEF Allow
  <2>2. buckets' = [buckets EXCEPT ![b] = row]
    BY <1>3, <1>4, <2>1, Zenon
  <2> QED BY <2>2 DEF Allow
<1>9. admitted \in [V -> Nat] /\ regained' \in [V -> Nat]
  BY <1>1, <1>8 DEF RateTables
<1>10. admitted' \in [V -> Nat]
  BY <1>2, <1>8, <1>9
<1>11. /\ RateTables' /\ BucketsKept /\ Len(buckets') = Len(buckets)
       /\ \A k \in 1 .. Len(buckets) : buckets'[k].of = buckets[k].of
       /\ \A k \in (1 .. Len(buckets)) \ {b} : buckets'[k].left = buckets[k].left
       /\ buckets'[b].left = l
  BY <1>1, <1>5, <1>7, <1>8, <1>9, <1>10, BucketReplaced
<1>12. PICK bs, new : bs = buckets /\ new = buckets'
  OBVIOUS
<1>13. \A w : Cardinality(Chips(bs, n, w)) \in Nat /\ Cardinality(Chips(new, n, w)) \in Nat
  BY <1>1, <1>2, <1>11, <1>12, ChipsFinite
<1>14. ASSUME NEW w \in V
       PROVE  /\ admitted[w] + Cardinality(Chips(bs, n, w)) + (IF w \in DOMAIN visitors THEN 0 ELSE n)
                   <= n + regained[w]
              /\ admitted[w] \in Nat /\ regained[w] \in Nat
  BY <1>1, <1>8, <1>9, <1>12 DEF Budget
<1>15. CASE buckets[b].left > 0
  <2>1. OneLess(n, bs, new, b)
    BY <1>1, <1>2, <1>3, <1>11, <1>12, <1>15 DEF OneLess
  <2>2. \A w : Cardinality(Chips(bs, n, w))
                 = Cardinality(Chips(new, n, w)) + (IF w = bs[b].of THEN 1 ELSE 0)
    BY <1>1, <2>1, OneChipLess
  <2>3. \A w \in V : admitted'[w] = admitted[w] + (IF w = v THEN 1 ELSE 0)
    BY <1>2, <1>8, <1>9, <1>15
  <2>4. ASSUME NEW w \in V
        PROVE  admitted'[w] + Cardinality(Chips(new, n, w)) + (IF w \in DOMAIN visitors' THEN 0 ELSE n)
                 <= n + regained'[w]
    <3>1. PICK x, y : x = Cardinality(Chips(bs, n, w)) /\ y = Cardinality(Chips(new, n, w))
      OBVIOUS
    <3>2. x \in Nat /\ y \in Nat /\ x = y + (IF w = v THEN 1 ELSE 0)
      BY <1>12, <1>13, <2>2, <3>1
    <3>3. admitted[w] + x + (IF w \in DOMAIN visitors THEN 0 ELSE n) <= n + regained[w]
          /\ admitted[w] \in Nat /\ regained[w] \in Nat
      BY <1>14, <3>1
    <3>4. admitted'[w] = admitted[w] + (IF w = v THEN 1 ELSE 0)
      BY <2>3
    <3>5. DOMAIN visitors' = DOMAIN visitors /\ regained'[w] = regained[w]
      BY <1>8
    <3> QED BY <1>1, <3>1, <3>2, <3>3, <3>4, <3>5
  <2>5. Budget'
    BY <1>1, <1>12, <2>4 DEF Budget
  <2> QED BY <1>11, <2>5
<1>16. CASE ~(buckets[b].left > 0)
  <2>1. buckets[b].left = 0 /\ l = 0
    BY <1>1, <1>2, <1>3, <1>16
  <2>2. Len(new) = Len(bs) /\ \A k \in 1 .. Len(bs) : new[k].of = bs[k].of /\ new[k].left = bs[k].left
    BY <1>2, <1>11, <1>12, <2>1
  <2>3. \A w : Chips(new, n, w) = Chips(bs, n, w)
    BY <2>2, ChipsKept
  <2>4. Budget'
    BY <1>1, <1>8, <1>12, <1>14, <1>16, <2>3 DEF Budget
  <2> QED BY <1>11, <2>4
<1> QED BY <1>15, <1>16

LEMMA RefillCounted ==
    ASSUME RateTables, Budget, load' = load, NEW b \in DOMAIN buckets, Refill(b)
    PROVE  RateTables' /\ Budget' /\ BucketsKept
<1>1. PICK V, n : V = Visitors /\ n = burst /\ V = Visitors' /\ n = burst' /\ n \in Nat
  BY VisitorsKept DEF Refill, RateTables
<1>2. /\ Len(buckets) \in Nat /\ DOMAIN buckets = 1 .. Len(buckets)
      /\ \A k \in DOMAIN buckets : buckets[k].left \in 0 .. n
      /\ DOMAIN buckets[b] = {"of", "left", "recent"} /\ buckets[b].of \in V
      /\ buckets[b].recent \in BOOLEAN
  BY <1>1, BucketFacts
<1>3. PICK l, v : l = buckets[b].left + 1 /\ v = buckets[b].of
  OBVIOUS
<1>4. l \in 1 .. n
  BY <1>1, <1>2, <1>3 DEF Refill
<1>5. PICK row : row = [buckets[b] EXCEPT !.left = l]
  OBVIOUS
<1>6. DOMAIN row = {"of", "left", "recent"} /\ row.of = v /\ row.left = l
      /\ row.recent = buckets[b].recent
  BY <1>2, <1>3, <1>5
<1>7. row \in Bucket(V, n)
  <2>1. row = [of |-> v, left |-> l, recent |-> buckets[b].recent]
    BY <1>2, <1>3, <1>5
  <2> QED BY <1>2, <1>3, <1>4, <2>1 DEF Bucket
<1>8. /\ buckets' = [buckets EXCEPT ![b] = row]
      /\ UNCHANGED <<burst, visitors, doomed>> /\ admitted' = admitted
      /\ regained' = [regained EXCEPT ![v] = @ + 1]
  BY <1>3, <1>5 DEF Refill
<1>9. admitted' \in [V -> Nat] /\ regained \in [V -> Nat]
  BY <1>1, <1>8 DEF RateTables
<1>10. regained' \in [V -> Nat] /\ \A w \in V : regained'[w] = regained[w] + (IF w = v THEN 1 ELSE 0)
  BY <1>2, <1>3, <1>8, <1>9
<1>11. /\ RateTables' /\ BucketsKept /\ Len(buckets') = Len(buckets)
       /\ \A k \in 1 .. Len(buckets) : buckets'[k].of = buckets[k].of
       /\ \A k \in (1 .. Len(buckets)) \ {b} : buckets'[k].left = buckets[k].left
       /\ buckets'[b].left = l
  BY <1>1, <1>3, <1>6, <1>7, <1>8, <1>9, <1>10, BucketReplaced
<1>12. PICK bs, new : bs = buckets /\ new = buckets'
  OBVIOUS
<1>13. OneLess(n, new, bs, b)
  <2>1. Len(bs) = Len(new) /\ Len(new) \in Nat /\ b \in 1 .. Len(new)
    BY <1>2, <1>11, <1>12
  <2>2. \A k \in 1 .. Len(new) : bs[k].of = new[k].of
    BY <1>11, <1>12, <2>1
  <2>3. \A k \in (1 .. Len(new)) \ {b} : bs[k].left = new[k].left
    BY <1>11, <1>12, <2>1
  <2>4. new[b].left = l /\ l > 0 /\ l \in 0 .. n /\ bs[b].left = l - 1
    BY <1>1, <1>2, <1>3, <1>4, <1>11, <1>12
  <2>5. \A k \in 1 .. Len(new) : new[k].left \in 0 .. n
    BY <1>2, <1>12, <2>1, <2>3, <2>4
  <2> QED BY <2>1, <2>2, <2>3, <2>4, <2>5 DEF OneLess
<1>14. \A w : Cardinality(Chips(new, n, w))
                = Cardinality(Chips(bs, n, w)) + (IF w = new[b].of THEN 1 ELSE 0)
  BY <1>1, <1>13, OneChipLess
<1>15. \A w : Cardinality(Chips(bs, n, w)) \in Nat
  BY <1>1, <1>2, <1>12, ChipsFinite
<1>16. ASSUME NEW w \in V
       PROVE  admitted'[w] + Cardinality(Chips(new, n, w)) + (IF w \in DOMAIN visitors' THEN 0 ELSE n)
                <= n + regained'[w]
  <2>1. PICK x : x = Cardinality(Chips(bs, n, w))
    OBVIOUS
  <2>2. x \in Nat /\ Cardinality(Chips(new, n, w)) = x + (IF w = v THEN 1 ELSE 0)
    BY <1>2, <1>3, <1>11, <1>12, <1>14, <1>15, <2>1
  <2>3. admitted[w] + x + (IF w \in DOMAIN visitors THEN 0 ELSE n) <= n + regained[w]
        /\ admitted[w] \in Nat /\ regained[w] \in Nat
    BY <1>1, <1>8, <1>9, <1>12, <2>1 DEF Budget
  <2> QED BY <1>1, <1>8, <1>10, <2>2, <2>3
<1>17. Budget'
  BY <1>1, <1>12, <1>16 DEF Budget
<1> QED BY <1>11, <1>17

LEMMA AgesCounted ==
    ASSUME RateTables, Budget, load' = load, NEW v \in DOMAIN visitors, VisitorAges(v)
    PROVE  RateTables' /\ Budget' /\ BucketsKept
<1>1. PICK V, n, b : /\ V = Visitors /\ n = burst /\ V = Visitors' /\ n = burst'
                     /\ b = visitors[v] /\ b \in DOMAIN buckets
  BY VisitorsKept DEF VisitorAges, RateTables
<1>2. /\ Len(buckets) \in Nat /\ DOMAIN buckets = 1 .. Len(buckets)
      /\ DOMAIN buckets[b] = {"of", "left", "recent"} /\ buckets[b].of \in V
      /\ buckets[b].left \in 0 .. n
  BY <1>1, BucketFacts
<1>3. PICK row : row = [buckets[b] EXCEPT !.recent = FALSE]
  OBVIOUS
<1>4. row.of = buckets[b].of /\ row.left = buckets[b].left
  BY <1>2, <1>3
<1>5. row \in Bucket(V, n)
  <2>1. row = [of |-> buckets[b].of, left |-> buckets[b].left, recent |-> FALSE]
    BY <1>2, <1>3
  <2> QED BY <1>2, <2>1 DEF Bucket
<1>6. /\ buckets' = [buckets EXCEPT ![b] = row]
      /\ UNCHANGED <<burst, visitors, doomed, admitted, regained>>
  BY <1>1, <1>3 DEF VisitorAges
<1>7. admitted' \in [V -> Nat] /\ regained' \in [V -> Nat]
  BY <1>1, <1>6 DEF RateTables
<1>8. /\ RateTables' /\ BucketsKept /\ Len(buckets') = Len(buckets)
      /\ \A k \in 1 .. Len(buckets) : buckets'[k].of = buckets[k].of
      /\ \A k \in (1 .. Len(buckets)) \ {b} : buckets'[k].left = buckets[k].left
      /\ buckets'[b].left = row.left
  BY <1>1, <1>4, <1>5, <1>6, <1>7, BucketReplaced
<1>9. PICK bs, new : bs = buckets /\ new = buckets'
  OBVIOUS
<1>10. Len(new) = Len(bs) /\ \A k \in 1 .. Len(bs) : new[k].of = bs[k].of /\ new[k].left = bs[k].left
  BY <1>4, <1>8, <1>9
<1>11. \A w : Chips(new, n, w) = Chips(bs, n, w)
  BY <1>10, ChipsKept
<1>12. Budget'
  BY <1>1, <1>6, <1>9, <1>11 DEF Budget
<1> QED BY <1>8, <1>12

LEMMA DeletesCounted ==
    ASSUME RateTables, Budget, load' = load, NEW v \in doomed, CleanupDeletes(v)
    PROVE  RateTables' /\ Budget' /\ BucketsKept
<1>1. PICK V, n : V = Visitors /\ n = burst /\ V = Visitors' /\ n = burst' /\ n \in Nat
  BY VisitorsKept DEF CleanupDeletes, RateTables
<1>2. /\ DOMAIN visitors' = DOMAIN visitors \ {v}
      /\ \A x \in DOMAIN visitors \ {v} : visitors'[x] = visitors[x]
  BY DEF CleanupDeletes, Restrict
<1>3. /\ doomed' = doomed \ {v} /\ buckets' = buckets /\ admitted' = admitted
      /\ regained' = [regained EXCEPT ![v] = @ + n]
  BY <1>1 DEF CleanupDeletes
<1>4. v \in V /\ v \in DOMAIN visitors /\ regained \in [V -> Nat] /\ admitted \in [V -> Nat]
  BY <1>1 DEF RateTables
<1>5. regained' \in [V -> Nat] /\ \A w \in V : regained'[w] = regained[w] + (IF w = v THEN n ELSE 0)
  BY <1>1, <1>3, <1>4
<1>6. RateTables'
  BY <1>1, <1>2, <1>3, <1>4, <1>5 DEF RateTables
<1>7. BucketsKept
  BY <1>3 DEF BucketsKept
<1>8. ASSUME NEW w \in V
      PROVE  admitted'[w] + Cardinality(Chips(buckets', n, w)) + (IF w \in DOMAIN visitors' THEN 0 ELSE n)
               <= n + regained'[w]
  <2>1. PICK x : x = Cardinality(Chips(buckets, n, w))
    OBVIOUS
  <2>2. x \in Nat
    BY <1>1, <2>1, ChipsFinite, BucketFacts
  <2>3. admitted[w] + x + (IF w \in DOMAIN visitors THEN 0 ELSE n) <= n + regained[w]
        /\ admitted[w] \in Nat /\ regained[w] \in Nat
    BY <1>1, <1>4, <2>1 DEF Budget
  <2>4. w \in DOMAIN visitors' <=> w \in DOMAIN visitors /\ w # v
    BY <1>2
  <2> QED BY <1>1, <1>3, <1>4, <1>5, <2>1, <2>2, <2>3, <2>4
<1>9. Budget'
  BY <1>1, <1>8 DEF Budget
<1> QED BY <1>6, <1>7, <1>9

LEMMA RateStep ==
    ASSUME RequestsPlaced, RateOK, [Next]_vars, load' = load
    PROVE  RateOK'
<1>1. RateTables /\ Budget /\ \A d \in Clients : HoldsBucket(req[d])
  BY DEF RateOK
<1>2. ASSUME RateTables', Budget', BucketsKept,
             \A d \in Clients : (\E r : req'[d] = r /\ HoldsBucket(r)) \/ HoldsBucket(req[d])'
      PROVE  RateOK'
  <2>1. ASSUME NEW d \in Clients, NEW r, req'[d] = r, HoldsBucket(r)
        PROVE  HoldsBucket(req[d])'
    <3>1. HoldsBucket(r)'
      BY <1>2, <2>1 DEF HoldsBucket, BucketsKept
    <3> QED BY <2>1, <3>1
  <2> QED BY <1>2, <2>1 DEF RateOK
<1>3. HoldsBucket(Idle)
  BY IdleFacts DEF HoldsBucket
<1>4. ASSUME UNCHANGED rateVars
      PROVE  RateTables' /\ Budget' /\ BucketsKept
  <2>1. PICK V : V = Visitors /\ V = Visitors'
    BY VisitorsKept
  <2> QED BY <1>1, <1>4, <2>1 DEF rateVars, RateTables, Budget, BucketsKept
<1>5. ASSUME req' = req, RateTables', Budget', BucketsKept
      PROVE  RateOK'
  BY <1>1, <1>2, <1>5
<1>6. ASSUME NEW c \in Clients, Refused(c) \/ Done(c), RateTables', Budget', BucketsKept
      PROVE  RateOK'
  <2>1. req'[c] = Idle /\ \A d \in Clients \ {c} : req'[d] = req[d]
    BY <1>6, Ends
  <2> QED BY <1>1, <1>2, <1>3, <1>6, <2>1
<1>7. ASSUME NEW c \in Clients, NEW r, req'[c] = r, \A d \in Clients \ {c} : req'[d] = req[d],
             HoldsBucket(r), RateTables', Budget', BucketsKept
      PROVE  RateOK'
  BY <1>1, <1>2, <1>7
<1>8. CASE UNCHANGED vars
  BY <1>4, <1>5, <1>8 DEF vars, server
<1>9. CASE Tick
  <2>1. req' = req
    BY <1>9 DEF Tick
  <2>2. \/ UNCHANGED rateVars
        \/ \E b \in DOMAIN buckets : Refill(b)
        \/ \E v \in DOMAIN visitors : VisitorAges(v)
    BY <1>9 DEF Tick
  <2>3. RateTables' /\ Budget' /\ BucketsKept
    BY <1>1, <1>4, <2>2, RefillCounted, AgesCounted
  <2> QED BY <1>5, <2>1, <2>3
<1>10. CASE Cleanup
  <2>1. req' = req
    BY <1>10 DEF Cleanup, server
  <2>2. ASSUME NEW v \in DOMAIN visitors, CleanupFinds(v)
        PROVE  RateTables' /\ Budget' /\ BucketsKept
    <3>1. PICK V : V = Visitors /\ V = Visitors'
      BY VisitorsKept
    <3> QED BY <1>1, <2>2, <3>1 DEF CleanupFinds, RateTables, Budget, BucketsKept
  <2>3. \/ \E v \in DOMAIN visitors : CleanupFinds(v)
        \/ \E v \in doomed : CleanupDeletes(v)
    BY <1>10 DEF Cleanup
  <2>4. RateTables' /\ Budget' /\ BucketsKept
    BY <1>1, <2>2, <2>3, DeletesCounted
  <2> QED BY <1>5, <2>1, <2>4
<1>11. ASSUME NEW c \in Clients, NEW call \in Load.calls, Start(c, call)
       PROVE  RateOK'
  <2>1. PICK r : req' = [req EXCEPT ![c] = r] /\ r.pc = "check"
    BY <1>11, StartMoves
  <2>2. req'[c] = r /\ \A d \in Clients \ {c} : req'[d] = req[d]
    BY <2>1 DEF RequestsPlaced
  <2>3. HoldsBucket(r)
    BY <2>1 DEF HoldsBucket
  <2>4. UNCHANGED rateVars
    BY <1>11 DEF Start
  <2> QED BY <1>4, <1>7, <2>2, <2>3, <2>4
<1>12. ASSUME NEW c \in Clients, AddVisitor(c)
       PROVE  RateOK'
  <2>1. PICK r : /\ Goto(c, r) /\ Keeps(req[c], r, {"pc", "bucket"})
                 /\ r.pc = "allow" /\ r.bucket = visitors'[Call(c).token]
    BY <1>12, AddMoves
  <2>2. PICK v : v = Call(c).token /\ v = r.call.token
    BY <2>1 DEF Keeps, RequestFields, Call
  <2>3. LoadOrStore(v) /\ v \in Visitors
    BY <1>12, <2>2 DEF AddVisitor, At, RequestsPlaced, PlaceOK, Call, Visitors
  <2>4. RateTables' /\ Budget' /\ BucketsKept /\ v \in DOMAIN visitors'
    BY <1>1, <2>3, LoadOrStoreCounted
  <2>5. req'[c] = r /\ \A d \in Clients \ {c} : req'[d] = req[d]
    BY <2>1, Goes
  <2>6. HoldsBucket(r)'
    BY <2>1, <2>2, <2>4 DEF HoldsBucket, RateTables
  <2>7. HoldsBucket(req[c])'
    BY <2>5, <2>6
  <2> QED BY <1>1, <1>2, <2>4, <2>5, <2>7
<1>13. ASSUME NEW c \in Clients, RateControl(c)
       PROVE  RateOK'
  <2>1. Allow(Call(c).token, req[c].bucket) /\ req[c].pc = "allow"
    BY <1>13 DEF RateControl, At
  <2>2. req[c].bucket \in DOMAIN buckets /\ buckets[req[c].bucket].of = Call(c).token
    BY <1>1, <2>1 DEF HoldsBucket, Call
  <2>3. RateTables' /\ Budget' /\ BucketsKept
    BY <1>1, <2>1, <2>2, AllowCounted
  <2>4. CASE Refused(c)
    BY <1>6, <2>3, <2>4
  <2>5. CASE ~Refused(c)
    <3>1. PICK r : Goto(c, r) /\ r.pc = FirstStep(Call(c).op)
      BY <1>13, <2>5, RateMoves
    <3>2. HoldsBucket(r)
      BY <3>1, FirstStepFacts DEF HoldsBucket
    <3>3. req'[c] = r /\ \A d \in Clients \ {c} : req'[d] = req[d]
      BY <3>1, Goes
    <3> QED BY <1>7, <2>3, <3>2, <3>3
  <2> QED BY <2>4, <2>5
<1>14. ASSUME NEW c \in Clients, Step(c), ~AddVisitor(c), ~RateControl(c), ~Refused(c)
       PROVE  \E r : Goto(c, r) /\ HoldsBucket(r)
  <2>1. ASSUME NEW r, r.pc # "allow"
        PROVE  HoldsBucket(r)
    BY <2>1 DEF HoldsBucket
  <2>2. CASE LoadVisitor(c)
    <3>1. PICK r : /\ Goto(c, r) /\ Keeps(req[c], r, {"pc", "bucket"})
                   /\ \/ r.pc = "store"
                      \/ /\ r.pc = "allow" /\ Call(c).token \in DOMAIN visitors
                         /\ r.bucket = visitors[Call(c).token]
      BY <2>2, LoadMoves
    <3>2. r.call.token = Call(c).token
      BY <3>1 DEF Keeps, RequestFields, Call
    <3>3. HoldsBucket(r)
      BY <1>1, <3>1, <3>2 DEF HoldsBucket, RateTables
    <3> QED BY <3>1, <3>3
  <2>3. CASE PolicyValidator(c)
    BY <1>14, <2>1, <2>3, ValidatorMoves
  <2>4. CASE GetUserUuidFromToken(c)
    BY <1>14, <2>1, <2>4, AuthorMoves
  <2>5. CASE FindPolicy(c)
    BY <1>14, <2>1, <2>5, FindMoves
  <2>6. CASE AuthorizePolicyGrant(c)
    <3>1. PICK r : Goto(c, r) /\ r.pc = IF Tail(req[c].want) = <<>> THEN AfterGrant(Call(c).op) ELSE "grant"
      BY <1>14, <2>6, GrantMoves
    <3>2. req[c].call.op \in PolicyOps
      BY <2>6 DEF AuthorizePolicyGrant, At, RequestsPlaced, PlaceOK
    <3>3. r.pc # "allow"
      BY <3>1, <3>2 DEF AfterGrant, PolicyOps, Call
    <3> QED BY <2>1, <3>1, <3>3
  <2>7. CASE RereadPolicy(c)
    BY <1>14, <2>1, <2>7, RereadMoves
  <2>8. CASE ValidatePolicyRule(c)
    BY <1>14, <2>1, <2>8, ValidateMoves
  <2>9. CASE FindMemberships(c)
    BY <2>1, <2>9, SelectMoves
  <2>10. CASE MergeAlert(c)
    BY <1>14, <2>1, <2>10, MergeMoves
  <2>11. ~Abort(c) /\ ~List(c)
    BY <1>14 DEF Abort, List
  <2> QED BY <1>14, <2>2, <2>3, <2>4, <2>5, <2>6, <2>7, <2>8, <2>9, <2>10, <2>11 DEF Step
<1>15. ASSUME NEW c \in Clients, Step(c)
       PROVE  RateOK'
  <2>1. CASE ~AddVisitor(c) /\ ~RateControl(c)
    <3>1. RateTables' /\ Budget' /\ BucketsKept
      BY <1>4, <1>15, <2>1, StepFrame
    <3>2. CASE Refused(c)
      BY <1>6, <3>1, <3>2
    <3>3. CASE ~Refused(c)
      <4>1. PICK r : Goto(c, r) /\ HoldsBucket(r)
        BY <1>14, <1>15, <2>1, <3>3
      <4>2. req'[c] = r /\ \A d \in Clients \ {c} : req'[d] = req[d]
        BY <4>1, Goes
      <4> QED BY <1>7, <3>1, <4>1, <4>2
    <3> QED BY <3>2, <3>3
  <2> QED BY <1>12, <1>13, <2>1
<1>16. ASSUME NEW c \in Clients, Statement(c) \/ AlertStatement(c)
       PROVE  RateOK'
  <2>1. Refused(c) \/ Done(c)
    BY <1>16, StatementEnds, AlertStatementEnds
  <2>2. UNCHANGED rateVars
    BY <1>16, StatementEnds, AlertStatementEnds DEF Done
  <2> QED BY <1>4, <1>6, <2>1, <2>2
<1> QED BY <1>8, <1>9, <1>10, <1>11, <1>15, <1>16, NextCases

(* The counters of the bounds.                                             *)
Counted == started \in 0 .. Load.requests /\ clock \in 0 .. Load.time

LEMMA CountedStep ==
    ASSUME RequestsPlaced, Counted, [Next]_vars, load' = load
    PROVE  Counted'
<1>1. PICK m, t : /\ m = Load.requests /\ t = Load.time /\ m = Load'.requests /\ t = Load'.time
                  /\ m \in Nat /\ t \in Nat
  BY CallsWellFormed DEF Load
<1>2. CASE started' = started /\ clock' = clock
  BY <1>1, <1>2 DEF Counted
<1>3. ASSUME NEW c \in Clients, NEW call \in Load.calls, Start(c, call)
      PROVE  Counted'
  BY <1>1, <1>3 DEF Counted, Start
<1>4. CASE Tick
  BY <1>1, <1>4 DEF Counted, Tick
<1>5. ASSUME NEW c \in Clients, Step(c) \/ Statement(c) \/ AlertStatement(c)
      PROVE  started' = started /\ clock' = clock
  BY <1>5, StepFrame, StatementEnds, AlertStatementEnds DEF Done, Keep
<1>6. CASE Cleanup \/ UNCHANGED vars
  BY <1>2, <1>6 DEF Cleanup, vars, server
<1> QED BY <1>2, <1>3, <1>4, <1>5, <1>6, NextCases

-----------------------------------------------------------------------------
(* Everything the server promises about its state at once.                 *)
ServerOK == TablesTyped /\ RequestsPlaced /\ AlertsOK /\ RateOK /\ Counted

LEMMA ServerInvariant == Spec => []ServerOK
<1>1. Init => ServerOK
  <2> SUFFICES ASSUME Init PROVE ServerOK
    OBVIOUS
  <2>1. TablesTyped /\ RequestsPlaced
    BY InitialTables, PlacedInit DEF Init
  <2>2. \A c \in Clients : req[c].pc = "idle"
    BY IdleFacts DEF Init
  <2>3. AlertsOK
    <3>1. DOMAIN alerts = {} /\ raised = {}
      BY DEF Init, AlertsInit
    <3> QED BY <2>2, <3>1 DEF AlertsOK, AlertsTypeOK, AlertsSettled, MergeOK, NoLiveTwins,
            LiveAlerts
  <2>4. PICK n, V : n = burst /\ n = Load.burst /\ n \in Nat /\ V = Visitors
    BY <2>1, CallsWellFormed DEF Init
  <2>5. RateTables
    BY <2>4 DEF Init, RateInit, RateTables, Visitors
  <2>6. Budget
    <3>1. buckets = <<>> /\ DOMAIN visitors = {} /\ \A v \in V : admitted[v] = 0 /\ regained[v] = 0
      BY <2>4 DEF Init, RateInit, Visitors
    <3>2. \A v : Chips(buckets, n, v) = {}
      BY <3>1 DEF Chips
    <3>3. \A v : Cardinality(Chips(buckets, n, v)) = 0
      BY <3>2, FS_EmptySet
    <3> QED BY <2>4, <3>1, <3>3 DEF Budget
  <2>7. RateOK
    BY <2>2, <2>5, <2>6 DEF RateOK, HoldsBucket
  <2>8. Counted
    BY <2>1, CallsWellFormed DEF Init, Counted
  <2> QED BY <2>1, <2>3, <2>7, <2>8 DEF ServerOK
<1>2. ServerOK /\ [Next]_vars => ServerOK'
  BY TablesStep, RequestsStep, AlertsStep, RateStep, CountedStep DEF ServerOK
<1> QED BY <1>1, <1>2, PTL DEF Spec

(* In every state the server can reach, references between the tables lead *)
(* to rows, names and rules are unique, alerts have their columns, every   *)
(* visitor has a bucket and no bucket holds more than a burst.             *)
THEOREM ServerTyped == Spec => []TypeOK
<1>1. ServerOK => TypeOK
  <2> SUFFICES ASSUME ServerOK PROVE TypeOK
    OBVIOUS
  <2>1. AccountsTypeOK
    BY TablesParts DEF ServerOK
  <2>2. AlertsTypeOK
    BY DEF ServerOK, AlertsOK
  <2>3. RateTypeOK
    <3>1. RateTables
      BY DEF ServerOK, RateOK
    <3> QED BY <3>1, BucketFacts DEF RateTypeOK, RateTables
  <2> QED BY <2>1, <2>2, <2>3 DEF TypeOK, ServerOK, Counted
<1> QED BY <1>1, ServerInvariant, PTL

(* Two alerts of one event are only open or acknowledged together when two *)
(* calls of alert_merge overlapped, or an update reopened or redirected    *)
(* one (CreateAlert, UpdateAlertByUuid).                                   *)
THEOREM TwinsComeFromOverlap == Spec => []TwinsNeedOverlap
<1>1. ServerOK => TwinsNeedOverlap
  BY TwinsAreLive DEF ServerOK, AlertsOK, AlertsSettled
<1> QED BY <1>1, ServerInvariant, PTL

(* However requests, refills and the clean-up routine interleave, a        *)
(* visitor gets no more requests through than its burst, its refills and a *)
(* new burst for each time it was forgotten (GetVisitor, RateControl).     *)
THEOREM BurstsAreKept == Spec => []BurstHolds
<1>1. ServerOK => BurstHolds
  <2> SUFFICES ASSUME ServerOK, NEW v \in DOMAIN admitted
               PROVE  admitted[v] <= burst + regained[v]
    BY DEF BurstHolds
  <2>1. RateTables /\ Budget
    BY DEF ServerOK, RateOK
  <2>2. /\ burst \in Nat /\ v \in Visitors
        /\ admitted[v] \in Nat /\ regained[v] \in Nat
    BY <2>1 DEF RateTables
  <2>3. Cardinality(Chips(buckets, burst, v)) \in Nat
    BY <2>1, <2>2, BucketFacts, ChipsFinite
  <2>4. admitted[v] + Cardinality(Chips(buckets, burst, v)) + (IF v \in DOMAIN visitors THEN 0 ELSE burst)
          <= burst + regained[v]
    BY <2>1, <2>2 DEF Budget
  <2> QED BY <2>2, <2>3, <2>4
<1> QED BY <1>1, ServerInvariant, PTL

=============================================================================
