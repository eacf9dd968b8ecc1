--------------------------- MODULE ProgramManager ---------------------------
(***************************************************************************)
(* The program manager (juvuln).  Once a minute it refreshes its cache of  *)
(* programs by mark and sweep: Begin marks all, each domain is asked for   *)
(* its signed programs, Add unmarks or (re)places them, and Commit removes *)
(* what is still marked.  A routine in the cache has an entry in the cron  *)
(* scheduler, which posts it to a worker.                                  *)
(*                                                                         *)
(* A domain has a connection handle that a background routine closes when  *)
(* a ping fails, and opens again.  A query fails if the database is down   *)
(* or the handle was closed after the refresh took it.  All state of the   *)
(* manager is in memory and lost when it restarts.                         *)
(***************************************************************************)
EXTENDS Programs, Workforce

CONSTANTS Routines,      \* settings with type routine and a schedule cron accepts
          MaxTroubles    \* bound: outages, changes of the domain file and restarts

ASSUME ManagerAssumption ==
    /\ Routines \subseteq Runnable
    /\ MaxTroubles \in Nat
    /\ None \notin [code : Codes, setting : Settings]

VARIABLES m,          \* ProgramCache.m, by id: program and revision
          deletes,    \* the marked ids
          cron,       \* the entries of the scheduler
          refresh,    \* where UpdateProgramCache is
          conn,       \* the handle of each domain: "absent", "nil" or "open"
          down,       \* domains whose database does not answer
          job,        \* the task being posted, and to which worker
          troubles    \* outages, changes and restarts so far

managerVars == <<m, deletes, cron, refresh, conn, down, job, troubles>>
vars == <<programVars, workforceVars, managerVars>>

Ids == Programs \X Revisions
Domain(id) == DomainOf[id[1]]
Body == [code : Codes, setting : Settings]
BodyOf(row) == [code |-> row.code, setting |-> row.setting]
Cached == {id \in Ids : m[id] # None}

\* todo and handles: domains still to ask and handles that were closed; found:
\* rows still to add.  History: seen, the rows of this refresh; asked, the
\* domains that answered or had no handle; fresh, whether it was committed.
Idle == [pc |-> "idle", todo |-> {}, closed |-> {}, found |-> {},
         seen |-> {}, asked |-> {}, fresh |-> FALSE]

ManagerInit ==
    /\ m = [id \in Ids |-> None]
    /\ deletes = {} /\ cron = {}
    /\ refresh = Idle
    /\ job = None

Init ==
    /\ ProgramsInit /\ WorkforceInit /\ ManagerInit
    /\ conn = [d \in Domains |-> "open"]
    /\ down = {}
    /\ troubles = 0

(***************************************************************************)
(* The scheduler                                                           *)
(***************************************************************************)
Entry(id, body) == [id |-> id, body |-> body]

\* Start and Stop: only a routine has an entry, and only if cron takes its schedule.
Start(entries, id, body) ==
    IF body.setting \in Routines THEN entries \cup {Entry(id, body)} ELSE entries
Stop(entries, id, body) == entries \ {Entry(id, body)}

(***************************************************************************)
(* UpdateProgramCache                                                      *)
(***************************************************************************)
\* GetAllDB takes the handles, Begin marks everything.
Begin ==
    /\ refresh.pc = "idle"
    /\ LET open == {d \in Domains : conn[d] = "open"} IN
       refresh' = [Idle EXCEPT !.pc = "query", !.todo = open, !.asked = Domains \ open]
    /\ deletes' = Cached
    /\ UNCHANGED <<programVars, workforceVars, m, cron, conn, down, job, troubles>>

\* FindAllRoutineRevisions in the next domain.
Query(d) ==
    /\ refresh.pc = "query" /\ refresh.found = {}
    /\ d \in refresh.todo \ (down \cup refresh.closed)
    /\ LET rows == FindAllRoutineRevisions(d) IN
       refresh' = [refresh EXCEPT !.todo = @ \ {d}, !.asked = @ \cup {d},
                                  !.found = rows, !.seen = @ \cup rows]
    /\ UNCHANGED <<programVars, workforceVars, m, deletes, cron, conn, down, job, troubles>>

\* Mutant: a domain that fails is passed over like one without a handle.
QuerySkips(d) ==
    /\ refresh.pc = "query" /\ refresh.found = {}
    /\ d \in refresh.todo \cap (down \cup refresh.closed)
    /\ refresh' = [refresh EXCEPT !.todo = @ \ {d}]
    /\ UNCHANGED <<programVars, workforceVars, m, deletes, cron, conn, down, job, troubles>>

\* The query fails: return without Commit.  What was added stays, nothing is swept.
QueryFails(d) ==
    /\ refresh.pc = "query" /\ refresh.found = {}
    /\ d \in refresh.todo \cap (down \cup refresh.closed)
    /\ refresh' = Idle
    /\ UNCHANGED <<programVars, workforceVars, m, deletes, cron, conn, down, job, troubles>>

\* Mutant: an id that is cached is taken to be the same program text.
AddById(row) ==
    /\ refresh.pc = "query" /\ row \in refresh.found
    /\ refresh' = [refresh EXCEPT !.found = @ \ {row}]
    /\ deletes' = deletes \ {row.id}
    /\ IF m[row.id] # None
       THEN UNCHANGED <<m, cron>>
       ELSE /\ cron' = Start(cron, row.id, BodyOf(row))
            /\ m' = [m EXCEPT ![row.id] = BodyOf(row)]
    /\ UNCHANGED <<programVars, workforceVars, conn, down, job, troubles>>

\* Mutant: the revision that is replaced is not stopped.
AddWithoutStop(row) ==
    /\ refresh.pc = "query" /\ row \in refresh.found
    /\ refresh' = [refresh EXCEPT !.found = @ \ {row}]
    /\ deletes' = deletes \ {row.id}
    /\ cron' = Start(cron, row.id, BodyOf(row))
    /\ m' = [m EXCEPT ![row.id] = BodyOf(row)]
    /\ UNCHANGED <<programVars, workforceVars, conn, down, job, troubles>>

\* Add unmarks the id; one that Equals the cached one is left alone, another
\* takes its place, with its old entry stopped and a new one started.
Add(row) ==
    /\ refresh.pc = "query" /\ row \in refresh.found
    /\ refresh' = [refresh EXCEPT !.found = @ \ {row}]
    /\ deletes' = deletes \ {row.id}
    /\ IF m[row.id] = BodyOf(row)
       THEN UNCHANGED <<m, cron>>
       ELSE /\ cron' = LET kept == IF m[row.id] = None THEN cron
                                   ELSE Stop(cron, row.id, m[row.id])
                       IN  Start(kept, row.id, BodyOf(row))
            /\ m' = [m EXCEPT ![row.id] = BodyOf(row)]
    /\ UNCHANGED <<programVars, workforceVars, conn, down, job, troubles>>

\* Mutant: the marked ids are kept for the next refresh.
CommitKeepsMarks ==
    /\ refresh.pc = "query" /\ refresh.todo = {} /\ refresh.found = {}
    /\ refresh' = [refresh EXCEPT !.pc = "idle", !.fresh = TRUE]
    /\ UNCHANGED <<programVars, workforceVars, m, deletes, cron, conn, down, job, troubles>>

\* Commit stops and removes what no domain named.
Commit ==
    /\ refresh.pc = "query" /\ refresh.todo = {} /\ refresh.found = {}
    /\ cron' = {e \in cron : e.id \notin deletes}
    /\ m' = [id \in Ids |-> IF id \in deletes THEN None ELSE m[id]]
    /\ deletes' = {}
    /\ refresh' = [refresh EXCEPT !.pc = "idle", !.fresh = TRUE]
    /\ UNCHANGED <<programVars, workforceVars, conn, down, job, troubles>>

\* Every five seconds; the goroutine that refreshes the cache does this too,
\* and therefore not while it refreshes.
FireWorkers ==
    /\ refresh.pc = "idle"
    /\ ClearInactive
    /\ UNCHANGED <<programVars, managerVars>>

(***************************************************************************)
(* Execute                                                                 *)
(***************************************************************************)
\* The entry fires and the task is given to a worker; without one nothing
\* happens, and the run is not made up for.  One task at a time is followed.
Execute(e, w) ==
    /\ job = None
    /\ e \in cron /\ w \in GetAvailable
    /\ job' = [entry |-> e, worker |-> w]
    /\ UNCHANGED <<programVars, workforceVars, m, deletes, cron, refresh, conn, down, troubles>>

\* The worker answers, or the call fails.
PostEnds ==
    /\ job # None
    /\ job' = None
    /\ UNCHANGED <<programVars, workforceVars, m, deletes, cron, refresh, conn, down, troubles>>

(***************************************************************************)
(* Connections, the domain file, restarts                                  *)
(***************************************************************************)
Trouble == troubles < MaxTroubles /\ troubles' = troubles + 1

\* Closing a handle fails the query of a refresh that holds it.
CloseHandle(d, state) ==
    /\ conn' = [conn EXCEPT ![d] = state]
    /\ refresh' = [refresh EXCEPT !.closed = IF d \in refresh.todo THEN @ \cup {d} ELSE @]

DatabaseFails(d) ==
    /\ Trouble /\ d \notin down
    /\ down' = down \cup {d}
    /\ UNCHANGED <<programVars, workforceVars, m, deletes, cron, refresh, conn, job>>

DatabaseRecovers(d) ==
    /\ d \in down
    /\ down' = down \ {d}
    /\ UNCHANGED <<programVars, workforceVars, m, deletes, cron, refresh, conn, job, troubles>>

\* The ping of a database that is down closes the handle ...
PingFails(d) ==
    /\ conn[d] = "open" /\ d \in down
    /\ CloseHandle(d, "nil")
    /\ UNCHANGED <<programVars, workforceVars, m, deletes, cron, down, job, troubles>>

\* ... and sql.Open gives a new one, whether the database is there or not.
Connect(d) ==
    /\ conn[d] = "nil"
    /\ conn' = [conn EXCEPT ![d] = "open"]
    /\ UNCHANGED <<programVars, workforceVars, m, deletes, cron, refresh, down, job, troubles>>

\* The domain file loses a domain, or gets it back.
RemoveDB(d) ==
    /\ Trouble /\ conn[d] # "absent"
    /\ CloseHandle(d, "absent")
    /\ UNCHANGED <<programVars, workforceVars, m, deletes, cron, down, job>>

AddDB(d) ==
    /\ conn[d] = "absent"
    /\ conn' = [conn EXCEPT ![d] = "nil"]
    /\ UNCHANGED <<programVars, workforceVars, m, deletes, cron, refresh, down, job, troubles>>

\* The manager restarts: cache, scheduler and register are empty.
Restart ==
    /\ Trouble
    /\ m' = [id \in Ids |-> None]
    /\ deletes' = {} /\ cron' = {} /\ refresh' = Idle /\ job' = None
    /\ conn' = [d \in Domains |-> IF conn[d] = "absent" THEN "absent" ELSE "nil"]
    /\ registered' = [w \in Workers |-> "no"]
    /\ UNCHANGED <<programVars, load, loop, down>>

(***************************************************************************)
(* The specification                                                       *)
(***************************************************************************)
Refresh ==
    \/ \E d \in Domains : Query(d) \/ QueryFails(d)
    \/ \E row \in refresh.found : Add(row)
    \/ Commit

Environment ==
    \/ \E d \in Domains : \/ DatabaseFails(d) \/ DatabaseRecovers(d) \/ PingFails(d)
                          \/ RemoveDB(d) \/ AddDB(d)
    \/ Restart

Next ==
    \/ ProgramsNext /\ UNCHANGED <<workforceVars, managerVars>>
    \/ WorkersNext /\ UNCHANGED <<programVars, managerVars>>
    \/ FireWorkers
    \/ Begin \/ Refresh
    \/ \E e \in cron, w \in Workers : Execute(e, w)
    \/ PostEnds
    \/ \E d \in Domains : Connect(d)
    \/ Environment

Spec == Init /\ [][Next]_vars

\* The goroutine of the manager runs, the connection routine reconnects, a
\* POST ends, and the loop of a worker goes on while the worker runs.  At the
\* full minute both timers of the manager are ready and Go chooses one at
\* random: a refresh may be put off but not for ever.  The network does not
\* lose every call of one kind.
Fairness ==
    /\ WF_vars(Begin) /\ WF_vars(Refresh) /\ WF_vars(PostEnds)
    /\ \A d \in Domains : WF_vars(Connect(d))
    /\ \A w \in Workers :
         /\ WF_vars(CheckSubscribed(w) /\ UNCHANGED <<programVars, managerVars>>)
         /\ SF_vars(Subscribe(w) /\ UNCHANGED <<programVars, managerVars>>)
         /\ SF_vars(ReportLoad(w) /\ UNCHANGED <<programVars, managerVars>>)
         /\ WF_vars(\E l \in Loads : SetLoad(w, l) /\ UNCHANGED <<programVars, managerVars>>)

FairSpec == Spec /\ Fairness

(***************************************************************************)
(* Properties                                                              *)
(***************************************************************************)
Rows == [id : Ids, code : Codes, setting : Settings]

TypeOK ==
    /\ ProgramsTypeOK /\ WorkforceTypeOK
    /\ m \in [Ids -> Body \cup {None}]
    /\ deletes \subseteq Cached
    /\ cron \subseteq [id : Ids, body : Body]
    /\ refresh \in [pc : {"idle", "query"}, todo : SUBSET Domains, closed : SUBSET Domains,
                    found : SUBSET Rows, seen : SUBSET Rows, asked : SUBSET Domains,
                    fresh : BOOLEAN]
    /\ conn \in [Domains -> {"absent", "nil", "open"}]
    /\ down \subseteq Domains
    /\ job \in [entry : [id : Ids, body : Body], worker : Workers] \cup {None}
    /\ troubles \in 0..MaxTroubles

\* The scheduler runs exactly the routines in the cache, each in the text and
\* with the settings that are cached (program_cache.go, Add and Commit;
\* program_revisions.go, Start and Stop): no entry is left behind when a
\* program is replaced or swept, none is missing.
SchedulerMatchesCache ==
    cron = {Entry(id, m[id]) : id \in {i \in Cached : m[i].setting \in Routines}}

\* Between two refreshes, after one that reached Commit, the cache holds what
\* that refresh found in the databases, nothing else and nothing less
\* (api.go, UpdateProgramCache): one revision of each program.
CommittedCacheIsExact ==
    refresh.pc = "idle" /\ refresh.fresh =>
        /\ \A row \in refresh.seen : m[row.id] = BodyOf(row)
        /\ Cached = {row.id : row \in refresh.seen}

\* Only text that was signed is ever cached or posted to a worker, also when
\* the revision has been deleted and its number given to another text
\* (programs.sql, FindAllRoutineRevisions and CreateCodeRevision).
OnlySignedRuns ==
    LET WasSigned(id, body) == <<id[1], id[2], body.code>> \in everSigned IN
    /\ \A id \in Cached : WasSigned(id, m[id])
    /\ job # None => WasSigned(job.entry.id, job.entry.body)

\* A database error unschedules nothing: a program leaves the cache only by a
\* refresh in which its domain answered without it or had no handle at all, or
\* by a restart (api.go, UpdateProgramCache, the return without Commit).
ErrorsUnscheduleNothing ==
    [][\A id \in Cached : m'[id] = None =>
         \/ troubles' # troubles
         \/ Domain(id) \in refresh.asked /\ \A row \in refresh.seen : row.id # id]_vars

\* What the cache should be when the databases stay as they are.
Expected == UNION {FindAllRoutineRevisions(d) : d \in {e \in Domains : conn[e] # "absent"}}

\* If every database answers from some time on, the cache comes to be what
\* the databases say, and stays so (api.go, UpdateProgramCache): a signed
\* revision is deployed, an old one and an inactive program go.
CacheConverges ==
    <>[](down = {}) =>
        <>[](/\ \A row \in Expected : m[row.id] = BodyOf(row)
             /\ Cached = {row.id : row \in Expected})

\* "An "inactive" state means that the program shall not run": a program that
\* stays inactive, in a database that can be read, is after some time not
\* posted to workers any more.
InactiveShallNotRun ==
    \A p \in Programs :
        <>[](program[p].state = "inactive" /\ DomainOf[p] \notin down) =>
            <>[](job = None \/ job.entry.id[1] # p)
=============================================================================
