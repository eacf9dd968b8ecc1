---------------------------- MODULE MCWorkerTasks ----------------------------
(* Three tasks.  The first program imports nothing: three tasks race for    *)
(* its place in the cache.  The second imports a module: two tasks race for *)
(* that module too, and the third task runs beside them.  The third program *)
(* makes HTTP calls: one task waits for the code of another that waits for  *)
(* an answer, and the third task runs beside them.                          *)
EXTENDS WorkerTasks, TLC

CONSTANTS t1, t2, t3, p1, p2, p3, k1

MCTasks == {t1, t2, t3}
MCPrograms == {p1, p2, p3}
MCModules == {k1}
MCImports == (p1 :> {}) @@ (p2 :> {k1}) @@ (p3 :> {})
MCCallers == {p3}
MCWorkloads == {(t1 :> p1) @@ (t2 :> p1) @@ (t3 :> p1),
                (t1 :> p2) @@ (t2 :> p2) @@ (t3 :> p1),
                (t1 :> p3) @@ (t2 :> p3) @@ (t3 :> p1)}
=============================================================================
