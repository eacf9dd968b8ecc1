-------------------------- MODULE MCProgramManager --------------------------
(* Two domains with a program each, one worker.  The settings are those of  *)
(* a routine, of a webhook, which has no entry in the scheduler, and of a   *)
(* module, which is not run.  The first program starts as a routine and is  *)
(* edited, the second is a webhook that an outage must not drop.            *)
EXTENDS ProgramManager, TLC

CONSTANTS p1, p2, d1, d2

MCPrograms == {p1, p2}
MCDomains == {d1, d2}
MCInitially ==
    [p \in MCPrograms |-> [state |-> "active",
                           setting |-> IF p = p1 THEN "routine" ELSE "webhook"]]
MCDomainOf == (p1 :> d1) @@ (p2 :> d2)
=============================================================================
