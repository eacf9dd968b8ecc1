------------------------------ MODULE MCIngest -------------------------------
(***************************************************************************)
(* A route that sets its subscription, one with a filter that reads        *)
(* timestamps from JSON payloads, and one with an expression and a script. *)
(* The first is sent a message its matcher refuses; the second a sample    *)
(* with a timestamp and a bare number without; the third makes two points  *)
(* of its message, one for a series that does not exist, whose statement   *)
(* fails.                                                                  *)
(*                                                                         *)
(* The topics add what is never sent: one level too many or too few, an    *)
(* empty level, a "$" topic the expression matches and its filter misses.  *)
(***************************************************************************)
EXTENDS Ingest

MCDollarWords == {"$SYS"}

Route == [kind |-> "topic", pattern |-> <<"plant", "+", "#">>,
          subscription |-> <<>>, template |-> 1, series |-> "",
          mode |-> "fixed", format |-> "auto", stamped |-> TRUE]

MCRoutes ==
  << [Route EXCEPT !.pattern = <<"lab", "+">>, !.subscription = <<"lab", "#">>],
     Route,
     [Route EXCEPT !.kind = "regex", !.pattern = <<AnyWord, "power">>,
                   !.mode = "script"] >>

Sample(series, ts, value) == [series |-> series, ts |-> ts, value |-> value]

MCMessages ==
  { [topic |-> <<"lab">>, payload |-> "number", samples |-> <<Sample("", 0, 50)>>],
    [topic |-> <<"plant", "a">>, payload |-> "json", samples |-> <<Sample("", 1, 10)>>],
    [topic |-> <<"plant", "a">>, payload |-> "number", samples |-> <<Sample("", 0, 20)>>],
    [topic |-> <<"hall", "power">>, payload |-> "json",
     samples |-> <<Sample("a", 1, 30), Sample("x", 0, 40)>>] }

MCTopics ==
  { <<"lab">>, <<"plant", "a">>, <<"hall", "power">>, <<"plant">>,
    <<"plant", "a", "b">>, <<"hall", "power", "b">>, <<"", "power">>,
    <<"$SYS", "power">> }

MCUUIDs == {"a", "x"}
MCKnown == {"a"}

=============================================================================
