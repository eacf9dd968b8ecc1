----------------------------- MODULE WorkerTasks -----------------------------
(***************************************************************************)
(* A program worker (malgomaj).  CreateTask runs a program from the        *)
(* program cache, or compiles and caches it first.  A cached program has a *)
(* timer that deletes it again, and two kinds of lock guard it all: the    *)
(* mutex of the cache, and one sync.RWMutex per item.                      *)
(*                                                                         *)
(* An item is named by the task that added it, as a task adds one at most. *)
(* Everything under the cache mutex is one step, but for ProgramCacheAdd:  *)
(* it holds the mutex while it waits in Stop for the lock of the item it   *)
(* replaces.  A sync.RWMutex lets no reader in while a writer waits, so    *)
(* that a task that stands in Stop keeps new readers from its item.        *)
(***************************************************************************)
EXTENDS ModuleLibrary

CONSTANTS Programs,   \* ids of the cache: domain and program, no revision
          Imports,    \* the modules each program imports
          Callers,    \* the programs that import the http module
          Workloads   \* which programs the tasks may be for, by task

ASSUME WorkerAssumption ==
    /\ None \notin Programs
    /\ Programs # {}
    /\ Imports \in [Programs -> SUBSET Modules]
    /\ Callers \subseteq Programs
    /\ Workloads \subseteq [Tasks -> Programs]

VARIABLES task,      \* where each request is, its program, the modules that
                     \* it still has to get and the item it runs
          m,         \* programCache.m: the item of each program
          item,      \* where the timer of each item and its function are
          mux        \* the task that holds programCache.mux between steps

workerVars == <<task, m, item, mux>>
vars == <<libraryVars, workerVars>>

pc(t) == task[t].pc
At(t, label) == pc(t) = label
Goto(t, label) == task' = [task EXCEPT ![t].pc = label]

\* The states of an item: its timer runs ("armed") or was stopped; the
\* function of the timer is called ("fired"), holds the read lock of the item
\* ("reading"), knows the id and holds no lock ("named"), has run ("done").
ItemStates == {"none", "armed", "stopped", "fired", "reading", "named", "done"}

\* A task waits in Stop for the lock of item i.
WriterWaits(i) == \E t \in Tasks : At(t, "stop") /\ m[task[t].prog] = i

Init ==
    /\ LibraryInit
    /\ \E prog \in Workloads :
         task = [t \in Tasks |-> [pc |-> "new", prog |-> prog[t], need |-> {}, item |-> None]]
    /\ m = [p \in Programs |-> None]
    /\ item = [t \in Tasks |-> "none"]
    /\ mux = None

(***************************************************************************)
(* CreateTask                                                              *)
(***************************************************************************)
\* The request arrives; a body that cannot be decoded ends it.
CreateTask(t) ==
    /\ At(t, "new")
    /\ Goto(t, "get") \/ Goto(t, "answered")
    /\ UNCHANGED <<libraryVars, m, item, mux>>

\* Mutant: a miss returns without giving the lock back.
GetKeepsLock(t) ==
    /\ At(t, "get") /\ mux = None
    /\ LET p == task[t].prog IN
       task' = [task EXCEPT ![t] = [pc |-> IF m[p] = None THEN "compile" ELSE "run",
                                    prog |-> p,
                                    need |-> IF m[p] = None THEN Imports[p] ELSE {},
                                    item |-> m[p]]]
    /\ mux' = IF m[task[t].prog] = None THEN t ELSE None
    /\ UNCHANGED <<libraryVars, m, item>>

\* A miss goes on with NewProgram and Compile, a hit with the cached item,
\* whatever source and deadline came with the task.
ProgramCacheGet(t) ==
    /\ At(t, "get") /\ mux = None
    /\ LET p == task[t].prog IN
       task' = [task EXCEPT ![t] = [pc |-> IF m[p] = None THEN "compile" ELSE "run",
                                    prog |-> p,
                                    need |-> IF m[p] = None THEN Imports[p] ELSE {},
                                    item |-> m[p]]]
    /\ UNCHANGED <<libraryVars, m, item, mux>>

\* Compile gets the imported modules one after the other, in any order.
CompileGetsModule(t) ==
    /\ At(t, "compile")
    /\ \/ \E k \in task[t].need :
            /\ GetCached(t, k)
            /\ task' = [task EXCEPT ![t].need = @ \ {k}]
       \/ \E k \in task[t].need : GetMissing(t, k) /\ UNCHANGED task
       \/ /\ LibraryItemStart(t)
          /\ task' = [task EXCEPT ![t].need = @ \ {lookup[t]}]
    /\ UNCHANGED <<m, item, mux>>

\* The index server answers.  http.Get has no timeout: it may never do so.
CompileModuleArrives(t) ==
    /\ At(t, "compile")
    /\ GetStores(t)
    /\ UNCHANGED workerVars

\* The library fails, the answer is 500.
CompileModuleFails(t) ==
    /\ At(t, "compile")
    /\ GetFails(t)
    /\ Goto(t, "answered")
    /\ UNCHANGED <<m, item, mux>>

\* All modules are there: the script compiles, or the answer is 500 (so it is
\* for a language other than tengo, before any module).
Compile(t) ==
    /\ At(t, "compile") /\ lookup[t] = None
    /\ \/ task[t].need = {} /\ Goto(t, "add")
       \/ task[t].need \in {{}, Imports[task[t].prog]} /\ Goto(t, "answered")
    /\ UNCHANGED <<libraryVars, m, item, mux>>

\* Mutant: the mutex is taken for reading, which others may do as well.
AddSharesLock(t) ==
    /\ At(t, "add")
    /\ mux' = t
    /\ Goto(t, IF m[task[t].prog] = None THEN "publish" ELSE "stop")
    /\ UNCHANGED <<libraryVars, m, item>>

\* ProgramCacheAdd takes the mutex and looks for an item to stop.
ProgramCacheAddLocks(t) ==
    /\ At(t, "add") /\ mux = None
    /\ mux' = t
    /\ Goto(t, IF m[task[t].prog] = None THEN "publish" ELSE "stop")
    /\ UNCHANGED <<libraryVars, m, item>>

\* o.Stop(): once no reader is in, the timer is stopped; one that has fired
\* goes on.
ProgramCacheItemStop(t) ==
    /\ At(t, "stop")
    /\ LET o == m[task[t].prog] IN
       /\ item[o] # "reading"
       /\ item' = [item EXCEPT ![o] = IF @ = "armed" THEN "stopped" ELSE @]
    /\ Goto(t, "publish")
    /\ UNCHANGED <<libraryVars, m, mux>>

\* Mutant: the item to stop is looked up when the new one is in the map already.
AddStopsItself(t) ==
    /\ At(t, "publish")
    /\ m' = [m EXCEPT ![task[t].prog] = t]
    /\ item' = [item EXCEPT ![t] = "stopped"]
    /\ mux' = None
    /\ task' = [task EXCEPT ![t] = [pc |-> "run", prog |-> @.prog, need |-> {}, item |-> t]]
    /\ UNCHANGED libraryVars

\* The new item is put into the map, its timer starts, the mutex is released.
\* Nobody else knows the item yet: Start does not wait for its locks.
ProgramCacheAdd(t) ==
    /\ At(t, "publish")
    /\ m' = [m EXCEPT ![task[t].prog] = t]
    /\ item' = [item EXCEPT ![t] = "armed"]
    /\ mux' = None
    /\ task' = [task EXCEPT ![t] = [pc |-> "run", prog |-> @.prog, need |-> {}, item |-> t]]
    /\ UNCHANGED libraryVars

\* A task executes its program; "calling" and "overdue" wait for the answer
\* to an HTTP call of the program, "overdue" past its deadline.
Executing(t) == pc(t) \in {"running", "calling", "overdue"}

\* Run: the lock of the compiled code lets one task at a time execute it.
Run(t) ==
    /\ At(t, "run")
    /\ \A u \in Tasks : Executing(u) => task[u].item # task[t].item
    /\ Goto(t, "running")
    /\ UNCHANGED <<libraryVars, m, item, mux>>

\* The program calls the http module: an http.Client{} without a timeout, and
\* a request without the context of the run.
ProgramCalls(t) ==
    /\ At(t, "running") /\ task[t].prog \in Callers
    /\ Goto(t, "calling")
    /\ UNCHANGED <<libraryVars, m, item, mux>>

\* The context of the run is done: RunContext aborts the machine, which ends
\* before its next instruction, and waits for that: for the call to return.
DeadlinePasses(t) ==
    /\ At(t, "calling")
    /\ Goto(t, "overdue")
    /\ UNCHANGED <<libraryVars, m, item, mux>>

\* The answer to the call, or an error, if one ever comes.
CallReturns(t) ==
    /\ \/ At(t, "calling") /\ Goto(t, "running")
       \/ At(t, "overdue") /\ Goto(t, "answered")
    /\ UNCHANGED <<libraryVars, m, item, mux>>

\* The program ends, fails or is aborted at its deadline; the answer is sent.
RunEnds(t) ==
    /\ At(t, "running")
    /\ Goto(t, "answered")
    /\ UNCHANGED <<libraryVars, m, item, mux>>

(***************************************************************************)
(* The timer of an item, and the function it calls                         *)
(***************************************************************************)
TimerFires(i) ==
    /\ item[i] = "armed"
    /\ item' = [item EXCEPT ![i] = "fired"]
    /\ UNCHANGED <<libraryVars, task, m, mux>>

\* p.RLock()
ExpiryLocks(i) ==
    /\ item[i] = "fired"
    /\ ~ WriterWaits(i)
    /\ item' = [item EXCEPT ![i] = "reading"]
    /\ UNCHANGED <<libraryVars, task, m, mux>>

\* p.GetId() takes the read lock for a second time, then both are released.
ExpiryGetsId(i) ==
    /\ item[i] = "reading"
    /\ ~ WriterWaits(i)
    /\ item' = [item EXCEPT ![i] = "named"]
    /\ UNCHANGED <<libraryVars, task, m, mux>>

\* delete(programCache.m, id), whichever item has that id by now.
ExpiryDeletes(i) ==
    /\ item[i] = "named" /\ mux = None
    /\ m' = [m EXCEPT ![task[i].prog] = None]
    /\ item' = [item EXCEPT ![i] = "done"]
    /\ UNCHANGED <<libraryVars, task, mux>>

(***************************************************************************)
(* The specification                                                       *)
(***************************************************************************)
LibraryTimers ==
    \E t \in Tasks, k \in Modules :
        (LibraryTimerFires(t, k) \/ LibraryItemExpires(t, k)) /\ UNCHANGED workerVars

\* What a worker does by itself ...
LocalStep(t) ==
    \/ CreateTask(t) \/ ProgramCacheGet(t) \/ CompileGetsModule(t) \/ Compile(t)
    \/ ProgramCacheAddLocks(t) \/ ProgramCacheItemStop(t) \/ ProgramCacheAdd(t)
    \/ Run(t) \/ DeadlinePasses(t) \/ RunEnds(t)

\* ... and what programs and other servers do.
OutsideStep(t) ==
    CompileModuleArrives(t) \/ CompileModuleFails(t) \/ ProgramCalls(t) \/ CallReturns(t)

TaskStep(t) == LocalStep(t) \/ OutsideStep(t)

ExpiryStep(i) == TimerFires(i) \/ ExpiryLocks(i) \/ ExpiryGetsId(i) \/ ExpiryDeletes(i)

Next ==
    \/ \E t \in Tasks : TaskStep(t) \/ ExpiryStep(t)
    \/ LibraryTimers

Spec == Init /\ [][Next]_vars

\* A task that has been accepted, or an item that has been cached, can go on.
Working == \E t \in Tasks : (LocalStep(t) /\ ~ At(t, "new")) \/ ExpiryStep(t)

\* Go does not stop while a goroutine can run: timers fire, deadlines pass.
\* Every request and every timer ends after finitely many such steps, so that
\* nothing is to be assumed of the order in which goroutines run or get their
\* locks.  Nothing at all is assumed of the answers of other servers.
Fairness == WF_vars(Working)

FairSpec == Spec /\ Fairness

(***************************************************************************)
(* Properties                                                              *)
(***************************************************************************)
Labels == {"new", "get", "compile", "add", "stop", "publish", "run",
           "running", "calling", "overdue", "answered"}

\* Also: the mutex is held by the one task that is inside ProgramCacheAdd, and
\* the item it stops stays in the map meanwhile.
TypeOK ==
    /\ LibraryTypeOK
    /\ task \in [Tasks -> [pc : Labels, prog : Programs, need : SUBSET Modules,
                           item : Tasks \cup {None}]]
    /\ m \in [Programs -> Tasks \cup {None}]
    /\ item \in [Tasks -> ItemStates]
    /\ mux \in Tasks \cup {None}
    /\ \A t \in Tasks : mux = t <=> pc(t) \in {"stop", "publish"}
    /\ \A t \in Tasks : At(t, "stop") => m[task[t].prog] # None

\* Every cached program will be forgotten: the timer of the very item in the
\* map is still to run or its function is on its way to the delete, unless
\* the item is just being replaced (program.go, ProgramCacheAdd, Start, Stop).
\* A program cached without it would run in an old revision for ever, as the
\* cache is keyed without the revision.
CachedItemExpires ==
    \A p \in Programs : m[p] # None =>
        \/ item[m[p]] \in {"armed", "fired", "reading", "named"}
        \/ mux # None /\ task[mux].prog = p /\ At(mux, "publish")

\* ProgramCacheAdd waits in Stop for a reader that waits behind it.
LockCycle(t) == At(t, "stop") /\ item[m[task[t].prog]] = "reading"

\* Task t waits for the answer to an HTTP request without a timeout: for a
\* module (library.go, Get) or for its program (tengo_mod_http.go).
AwaitsAnswer(t) ==
    \/ At(t, "compile") /\ lookup[t] # None /\ ~ Storing(t)
    \/ pc(t) \in {"calling", "overdue"}

\* Task u keeps the compiled code that task t is to run.
KeepsCode(u, t) == At(t, "run") /\ Executing(u) /\ task[u].item = task[t].item

\* Every task that is accepted gets its answer (api.go, CreateTask), but for
\* two reasons.  From some time on, the task or the one that executes the
\* program it is to run waits for an HTTP answer that never comes: neither
\* request has a timeout, and the deadline of the program does not end the
\* call.  Or the worker is in the one deadlock its locks allow: the function
\* of a timer takes the read lock of its item twice, with the Stop of a task
\* that replaces the item coming between.  A task that waits for ever holds up
\* no task but those that are to run the very item it executes.
TaskAnswered ==
    \A t \in Tasks :
        At(t, "get") ~>
            \/ At(t, "answered")
            \/ \E u \in Tasks : LockCycle(u)
            \/ [](\E u \in Tasks : AwaitsAnswer(u) /\ (u = t \/ KeepsCode(u, t)))

\* "Background routine to delete item" (program.go, Start): an item that was
\* put into the cache does not stay there.
BackgroundRoutineDeletesItem ==
    \A t \in Tasks, p \in Programs : m[p] = t ~> m[p] # t
=============================================================================
