----------------------------- MODULE AccessRules -----------------------------
(***************************************************************************)
(* The access rules of the API server, as operators without state.         *)
(*                                                                         *)
(* A rule is [group, priority, effect, action, resource].  Three pieces of *)
(* code read rules, and they have to agree: the statement that decides an  *)
(* access (the first matching rule decides), the statements that list what *)
(* may be read (some allow and no deny), and the check that refuses a rule *)
(* that could never decide anything because an earlier one covers it.      *)
(*                                                                         *)
(* A resource is the sequence of its path segments.  A wildcard stands for *)
(* one or more whole segments: validatePolicyResource lets "%" only occupy *)
(* a segment of its own, and no resource has an empty one.  The wildcard   *)
(* "_" of LIKE is left out, resources of the server do not contain it.     *)
(***************************************************************************)
EXTENDS Integers, Sequences

Wild == "%"

\* Resources and patterns have at least one segment.
Path == {r \in Seq(STRING) : Len(r) > 0}

(***************************************************************************)
(* resource LIKE pattern: the segments are laid along the pattern from its *)
(* first to its last place, and only a wildcard takes more than one.       *)
(***************************************************************************)
Laid(at, resource, pattern) ==
  /\ at[1] = 1 /\ at[Len(resource)] = Len(pattern)
  /\ \A i \in 1 .. Len(resource) :
       /\ pattern[at[i]] \in {Wild, resource[i]}
       /\ i > 1 => \/ at[i] = at[i-1] + 1
                   \/ at[i] = at[i-1] /\ pattern[at[i]] = Wild

Like(resource, pattern) ==
  \E at \in [1 .. Len(resource) -> 1 .. Len(pattern)] : Laid(at, resource, pattern)

Matching(rules, action, resource) ==
  {p \in rules : p.action = action /\ Like(resource, p.resource)}

\* ORDER BY priority, deny before allow.
Before(p, q) ==
  \/ p.priority < q.priority
  \/ p.priority = q.priority /\ p.effect = "deny" /\ q.effect = "allow"

(***************************************************************************)
(* Whether a user with these rules has access: the first of the matching   *)
(* rules is an allow.  Rules that tie have the same effect.                *)
(***************************************************************************)
Access(rules, action, resource) ==
  LET found == Matching(rules, action, resource)
  IN  \E p \in found : p.effect = "allow" /\ \A q \in found : ~Before(q, p)

\* Mutant: the listing forgets NOT EXISTS (... 'deny' ...).
ListedIfAllowed(rules, resource) ==
  \E p \in Matching(rules, "read", resource) : p.effect = "allow"

(***************************************************************************)
(* Whether a listing (FindThings, FindUsers, FindGroups) shows a resource. *)
(***************************************************************************)
Listed(rules, resource) ==
  LET effects == {p.effect : p \in Matching(rules, "read", resource)}
  IN  "allow" \in effects /\ "deny" \notin effects

-----------------------------------------------------------------------------
(***************************************************************************)
(* sqlLikeMatch looks for the parts between the wildcards from left to     *)
(* right, each at its first occurrence, and asks in the end that nothing   *)
(* is left over: it stops at the shortest prefix the pattern accepts, so   *)
(* it may refuse what LIKE accepts.                                        *)
(***************************************************************************)
sqlLikeMatch(pattern, resource) ==
  /\ Like(resource, pattern)
  /\ \/ pattern[Len(pattern)] = Wild
     \/ \A k \in 1 .. Len(resource) - 1 : ~Like(SubSeq(resource, 1, k), pattern)

Wildcards(pattern) == {i \in DOMAIN pattern : pattern[i] = Wild}

(***************************************************************************)
(* Whether everything one pattern matches is matched by another, as far as *)
(* the code finds out: for a single wildcard at the end, or for a          *)
(* candidate without any.                                                  *)
(***************************************************************************)
policyResourceCovers(existing, candidate) ==
  \/ existing = <<Wild>>
  \/ existing = candidate
  \/ /\ Wildcards(existing) = {Len(existing)}
     /\ Len(candidate) >= Len(existing)
     /\ \A i \in 1 .. Len(existing) - 1 : candidate[i] = existing[i]
  \/ /\ Wildcards(existing) \notin {{}, {Len(existing)}}
     /\ Wildcards(candidate) = {}
     /\ sqlLikeMatch(existing, candidate)

\* Mutant: a rule is shadowed by every rule before it that is as broad.
ShadowsInTies(existing, candidate) ==
  /\ policyResourceCovers(existing.resource, candidate.resource)
  /\ existing.priority <= candidate.priority

(***************************************************************************)
(* Whether a rule of the same group and action makes another one useless.  *)
(***************************************************************************)
policyShadows(existing, candidate) ==
  /\ policyResourceCovers(existing.resource, candidate.resource)
  /\ \/ existing.priority < candidate.priority
     \/ /\ existing.priority = candidate.priority
        /\ existing.effect \in {"deny", candidate.effect}

=============================================================================
