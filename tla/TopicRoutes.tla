----------------------------- MODULE TopicRoutes -----------------------------
(***************************************************************************)
(* How insamlare decides which route a message belongs to.                 *)
(*                                                                         *)
(* A route names its topics either by an MQTT topic filter or by a regular *)
(* expression.  It subscribes to one filter, and a worker matches the      *)
(* topic of every message it is handed once more, to obtain the captures   *)
(* that name the time series.  Broker and worker so have a matcher each: a *)
(* topic only the broker accepts is a message acknowledged and thrown      *)
(* away, a topic only the worker would accept is never seen.               *)
(*                                                                         *)
(* A topic is the sequence of its segments (strings.Split at "/").  The    *)
(* pattern of a route is the same, with "+" and "#" in a filter, AnyWord   *)
(* and AnyText (the two classes singleLevelCaptureRegex knows) in an       *)
(* expression.  A route may name the filter it subscribes to itself        *)
(* (subscription_topic, <<>> if it does not).  Other expressions, those    *)
(* without "^" and "$" and shared subscriptions are not modelled.          *)
(***************************************************************************)
EXTENDS Integers, Sequences

CONSTANT DollarWords    \* the levels that begin with "$"

ASSUME DollarAssumption == DollarWords \cap {"+", "#"} = {}

AnyWord == "([^/]+)"
AnyText == "([^/]*)"

(***************************************************************************)
(* The rule newWildcardMatcher enforces for the filter of a route.         *)
(***************************************************************************)
ValidFilter(pattern) ==
  \A i \in DOMAIN pattern : pattern[i] = "#" => i = Len(pattern)

(***************************************************************************)
(* What the configuration of a route has to satisfy.  Neither a "+"        *)
(* between slashes nor a "$" is a literal of an expression whose filter    *)
(* is derived (containsRegexMeta), and a "#" is refused but at the end     *)
(* (validateSubscriptionTopic).                                            *)
(***************************************************************************)
ValidRoute(route) ==
  /\ ValidFilter(route.subscription)
  /\ route.kind = "topic" \/ route.subscription = <<>> => ValidFilter(route.pattern)
  /\ route.kind = "regex" /\ route.subscription = <<>> =>
       \A i \in DOMAIN route.pattern : route.pattern[i] \notin DollarWords \cup {"+"}

(***************************************************************************)
(* wildcardMatcher.Match.  The positions at which its loop returns: at a   *)
(* "#", past the end of the topic, or at a segment that differs.  The      *)
(* first of them decides; a loop that runs to its end asks for a topic of  *)
(* the same length.                                                        *)
(***************************************************************************)
Returns(pattern, topic) ==
  {i \in DOMAIN pattern : \/ pattern[i] = "#"
                          \/ i > Len(topic)
                          \/ pattern[i] \notin {"+", topic[i]}}

WildcardMatch(pattern, topic) ==
  LET stops == Returns(pattern, topic)
  IN  IF stops = {}
      THEN Len(topic) = Len(pattern)
      ELSE \E i \in stops : (\A j \in stops : i <= j) /\ pattern[i] = "#"

(***************************************************************************)
(* regexMatcher.Match for an anchored expression of literal segments and   *)
(* single-level classes.                                                   *)
(***************************************************************************)
RegexMatch(pattern, topic) ==
  /\ Len(pattern) = Len(topic)
  /\ \A i \in DOMAIN pattern :
       \/ pattern[i] = AnyText
       \/ pattern[i] = AnyWord /\ topic[i] # ""
       \/ pattern[i] = topic[i]

\* Mutant: a class is taken for a literal.
DeriveLiterally(pattern) == [i \in 1 .. Len(pattern) |-> pattern[i]]

(***************************************************************************)
(* The filter such an expression subscribes to.                            *)
(***************************************************************************)
deriveSubscriptionTopicFromRegex(pattern) ==
  [i \in 1 .. Len(pattern) |->
     IF pattern[i] \in {AnyWord, AnyText} THEN "+" ELSE pattern[i]]

(***************************************************************************)
(* The segments the templates "\1", "\2", ... of a route stand for.        *)
(***************************************************************************)
Captures(pattern, topic) ==
  LET Caught(i) == pattern[i] \in {"+", AnyWord, AnyText}
      at == SelectSeq([i \in 1 .. Len(pattern) |-> i], Caught)
  IN  [n \in 1 .. Len(at) |-> topic[at[n]]]

(***************************************************************************)
(* What the client library, when it looks for the callbacks of a message,  *)
(* says a filter accepts: "#" any number of levels including none, "+"     *)
(* exactly one.                                                            *)
(***************************************************************************)
LevelsAccept(filter, topic) ==
  LET open  == Len(filter) > 0 /\ filter[Len(filter)] = "#"
      fixed == IF open THEN Len(filter) - 1 ELSE Len(filter)
  IN  /\ IF open THEN Len(topic) >= fixed ELSE Len(topic) = fixed
      /\ \A i \in 1 .. fixed : filter[i] \in {"+", topic[i]}

(***************************************************************************)
(* The broker's rule, that of the MQTT standard: the same, but a filter    *)
(* that begins with a wildcard does not reach topics that begin with "$".  *)
(***************************************************************************)
Hidden(filter, topic) ==
  /\ Len(topic) > 0 /\ topic[1] \in DollarWords
  /\ Len(filter) > 0 /\ filter[1] \in {"+", "#"}

FilterAccepts(filter, topic) ==
  LevelsAccept(filter, topic) /\ ~Hidden(filter, topic)

=============================================================================
