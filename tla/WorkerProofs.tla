---------------------------- MODULE WorkerProofs ----------------------------
(***************************************************************************)
(* Whatever tasks run, interleave and fail, whatever timers fire: nothing   *)
(* is cached by a worker without a timer that is still to remove it.        *)
(*                                                                          *)
(* CachedItemExpires is not inductive.  A function of a timer deletes by    *)
(* the program of its item, so one has to know that an item is only ever    *)
(* in the map under its own program (ItemsAtHome); and an item whose timer  *)
(* was stopped is only covered while the task that stopped it still holds   *)
(* the mutex, which is part of TypeOK.                                      *)
(***************************************************************************)
EXTENDS WorkerTasks, TLAPS

\* An item is in the map under the program it was compiled from.
ItemsAtHome == \A p \in Programs : m[p] # None => task[m[p]].prog = p

WorkerInv == TypeOK /\ ItemsAtHome /\ CachedItemExpires

\* Initially nothing is cached.
LEMMA WorkerInitially == Init => WorkerInv /\ LibraryEntryExpires
BY LibraryAssumption, WorkerAssumption
DEF Init, LibraryInit, WorkerInv, TypeOK, LibraryTypeOK, ItemsAtHome, CachedItemExpires,
    LibraryEntryExpires, Labels, ItemStates, pc, At

\* A step of the library on its own leaves its tables well typed and every
\* entry with a timer that is still to run.
LEMMA LibraryStep ==
    ASSUME LibraryTypeOK, LibraryEntryExpires,
           NEW t \in Tasks, NEW k \in Modules,
           \/ GetCached(t, k) \/ GetMissing(t, k) \/ GetFails(t) \/ GetStores(t)
           \/ LibraryItemStart(t) \/ LibraryTimerFires(t, k) \/ LibraryItemExpires(t, k)
    PROVE  LibraryTypeOK' /\ LibraryEntryExpires'
<1> USE LibraryAssumption DEF LibraryTypeOK, LibraryEntryExpires, Storing
<1>1. CASE GetCached(t, k)
  BY <1>1 DEF GetCached, libraryVars
<1>2. CASE GetMissing(t, k)
  BY <1>2 DEF GetMissing
<1>3. CASE GetFails(t)
  BY <1>3 DEF GetFails
<1>4. CASE GetStores(t)
  BY <1>4 DEF GetStores
<1>5. CASE LibraryItemStart(t)
  BY <1>5 DEF LibraryItemStart
<1>6. CASE LibraryTimerFires(t, k)
  BY <1>6 DEF LibraryTimerFires
<1>7. CASE LibraryItemExpires(t, k)
  BY <1>7 DEF LibraryItemExpires
<1> QED BY <1>1, <1>2, <1>3, <1>4, <1>5, <1>6, <1>7

\* No step of a worker disturbs the library but through the steps above.
LEMMA LibraryKept ==
    ASSUME TypeOK, LibraryEntryExpires, [Next]_vars
    PROVE  LibraryTypeOK' /\ LibraryEntryExpires'
<1> USE DEF TypeOK
<1> SUFFICES ASSUME ~ UNCHANGED libraryVars
             PROVE  LibraryTypeOK' /\ LibraryEntryExpires'
  BY DEF LibraryTypeOK, LibraryEntryExpires, libraryVars
<1>1. CASE \E t \in Tasks : TaskStep(t)
  <2>1. PICK t \in Tasks : TaskStep(t)
    BY <1>1
  <2>2. CASE CompileGetsModule(t)
    <3>1. CASE \E k \in task[t].need : GetCached(t, k)
      BY <3>1 DEF GetCached
    <3>2. CASE \E k \in task[t].need : GetMissing(t, k)
      BY <3>2, LibraryStep
    <3>3. CASE LibraryItemStart(t)
      <4>1. lookup[t] \in Modules
        BY <3>3 DEF LibraryItemStart, Storing, LibraryTypeOK
      <4> QED BY <3>3, <4>1, LibraryStep
    <3> QED BY <2>2, <3>1, <3>2, <3>3 DEF CompileGetsModule
  <2>3. CASE CompileModuleFails(t)
    <3>1. lookup[t] \in Modules
      BY <2>3 DEF CompileModuleFails, GetFails, LibraryTypeOK
    <3> QED BY <2>3, <3>1, LibraryStep DEF CompileModuleFails
  <2>4. CASE CompileModuleArrives(t)
    <3>1. lookup[t] \in Modules
      BY <2>4 DEF CompileModuleArrives, GetStores, LibraryTypeOK
    <3> QED BY <2>4, <3>1, LibraryStep DEF CompileModuleArrives
  <2> QED BY <2>1, <2>2, <2>3, <2>4
      DEF TaskStep, LocalStep, OutsideStep, CreateTask, ProgramCacheGet, Compile, ProgramCacheAddLocks,
          ProgramCacheItemStop, ProgramCacheAdd, Run, RunEnds, ProgramCalls, DeadlinePasses,
          CallReturns
<1>2. CASE \E i \in Tasks : ExpiryStep(i)
  BY <1>2 DEF ExpiryStep, TimerFires, ExpiryLocks, ExpiryGetsId, ExpiryDeletes
<1>3. CASE LibraryTimers
  BY <1>3, LibraryStep DEF LibraryTimers
<1> QED BY <1>1, <1>2, <1>3 DEF Next, vars

\* The rest of TypeOK is about the variables of the worker.
WorkerTypeOK ==
    /\ task \in [Tasks -> [pc : Labels, prog : Programs, need : SUBSET Modules,
                           item : Tasks \cup {None}]]
    /\ m \in [Programs -> Tasks \cup {None}]
    /\ item \in [Tasks -> ItemStates]
    /\ mux \in Tasks \cup {None}
    /\ \A t \in Tasks : mux = t <=> pc(t) \in {"stop", "publish"}
    /\ \A t \in Tasks : At(t, "stop") => m[task[t].prog] # None

Task == [pc : Labels, prog : Programs, need : SUBSET Modules, item : Tasks \cup {None}]

\* Task t goes to the label, keeps its program, and no other task moves.
Moves(t, label) ==
    /\ task' \in [Tasks -> Task]
    /\ task'[t].pc = label
    /\ task'[t].prog = task[t].prog
    /\ \A u \in Tasks \ {t} : task'[u] = task[u]

\* Goto does just that.
LEMMA GotoMoves ==
    ASSUME WorkerInv, NEW t \in Tasks, NEW label \in Labels, Goto(t, label)
    PROVE  Moves(t, label)
BY DEF WorkerInv, TypeOK, Task, Goto, Moves

\* A step outside ProgramCacheAdd, which leaves the cache alone.
LEMMA OutsideAdd ==
    ASSUME WorkerInv, NEW t \in Tasks, NEW label \in Labels \ {"stop", "publish"},
           pc(t) \notin {"stop", "publish"}, Moves(t, label), UNCHANGED <<m, item, mux>>
    PROVE  WorkerTypeOK' /\ ItemsAtHome' /\ CachedItemExpires'
<1> USE LibraryAssumption DEF WorkerInv, TypeOK, Moves, Task, pc, At
<1>1. \A u \in Tasks : task'[u].prog = task[u].prog
  OBVIOUS
<1>2. \A u \in Tasks : task[u].pc \in {"stop", "publish"} => task'[u] = task[u]
  OBVIOUS
<1>3. \A u \in Tasks : task'[u].pc \in {"stop", "publish"} => task'[u] = task[u]
  OBVIOUS
<1>4. WorkerTypeOK'
  BY <1>1, <1>2, <1>3 DEF WorkerTypeOK
<1>5. ItemsAtHome'
  BY <1>1 DEF ItemsAtHome
<1>6. CachedItemExpires'
  BY <1>2 DEF CachedItemExpires
<1> QED BY <1>4, <1>5, <1>6

\* Every step of a task keeps the types, the mutex, and a timer for each item.
LEMMA TaskStepKeeps ==
    ASSUME WorkerInv, NEW t \in Tasks, TaskStep(t)
    PROVE  WorkerTypeOK' /\ ItemsAtHome' /\ CachedItemExpires'
<1> USE LibraryAssumption, WorkerAssumption
<1>1. CASE CreateTask(t)
  BY <1>1, GotoMoves, OutsideAdd DEF CreateTask, Labels, At
<1>2. CASE ProgramCacheGet(t)
  <2> DEFINE p == task[t].prog
             label == IF m[p] = None THEN "compile" ELSE "run"
             need == IF m[p] = None THEN Imports[p] ELSE {}
  <2>1. Moves(t, label)
    <3>1. p \in Programs /\ need \in SUBSET Modules /\ m[p] \in Tasks \cup {None}
      BY DEF WorkerInv, TypeOK
    <3>2. label \in Labels
      BY DEF Labels
    <3>3. task' = [task EXCEPT ![t] = [pc |-> label, prog |-> p, need |-> need, item |-> m[p]]]
      BY <1>2 DEF ProgramCacheGet
    <3> HIDE DEF label, need, p
    <3>4. task' \in [Tasks -> Task]
      BY <3>1, <3>2, <3>3 DEF WorkerInv, TypeOK, Task
    <3> QED BY <3>3, <3>4 DEF WorkerInv, TypeOK, Moves, p
  <2> QED BY <1>2, <2>1, OutsideAdd DEF ProgramCacheGet, Labels, At
<1>3. CASE CompileGetsModule(t)
  <2>1. \/ UNCHANGED task
        \/ \E k : task' = [task EXCEPT ![t].need = @ \ {k}]
    BY <1>3 DEF CompileGetsModule
  <2>2. Moves(t, "compile")
    BY <1>3, <2>1 DEF CompileGetsModule, WorkerInv, TypeOK, Task, Moves, Labels, At, pc
  <2> QED BY <1>3, <2>2, OutsideAdd DEF CompileGetsModule, Labels, At
<1>4. CASE CompileModuleFails(t)
  BY <1>4, GotoMoves, OutsideAdd DEF CompileModuleFails, Labels, At
<1>5. CASE Compile(t)
  BY <1>5, GotoMoves, OutsideAdd DEF Compile, Labels, At
<1>6. CASE ProgramCacheAddLocks(t)
  <2>1. Moves(t, IF m[task[t].prog] = None THEN "publish" ELSE "stop")
    BY <1>6, GotoMoves DEF ProgramCacheAddLocks, Labels
  <2> QED BY <1>6, <2>1 DEF ProgramCacheAddLocks, Moves, Task, WorkerInv, TypeOK, WorkerTypeOK,
                            ItemsAtHome, CachedItemExpires, pc, At
<1>7. CASE ProgramCacheItemStop(t)
  <2>1. Moves(t, "publish")
    BY <1>7, GotoMoves DEF ProgramCacheItemStop, Labels
  <2> DEFINE p == task[t].prog
             o == m[p]
  <2>2. p \in Programs /\ o \in Tasks /\ mux = t
    BY <1>7 DEF ProgramCacheItemStop, WorkerInv, TypeOK, pc, At
  <2>3. /\ item' = [item EXCEPT ![o] = IF item[o] = "armed" THEN "stopped" ELSE item[o]]
        /\ UNCHANGED <<m, mux>>
    BY <1>7 DEF ProgramCacheItemStop
  <2>4. /\ \A u \in Tasks : task'[u].prog = task[u].prog
        /\ \A u \in Tasks \ {t} : task[u].pc \notin {"stop", "publish"}
    BY <2>1, <2>2 DEF Moves, WorkerInv, TypeOK, pc
  <2>5. WorkerTypeOK'
    BY <2>1, <2>2, <2>3, <2>4 DEF Moves, Task, WorkerInv, TypeOK, WorkerTypeOK, ItemStates, pc, At
  <2>6. ItemsAtHome'
    BY <2>3, <2>4 DEF WorkerInv, TypeOK, ItemsAtHome
  <2>7. CachedItemExpires'
    <3> SUFFICES ASSUME NEW q \in Programs, m[q] # None
                 PROVE  CachedItemExpires!(q)'
      BY <2>3 DEF CachedItemExpires
    <3>1. CASE q = p
      BY <2>1, <2>2, <2>3, <3>1 DEF Moves, pc, At
    <3>2. CASE q # p
      <4>1. m[q] \in Tasks /\ m[q] # o
        BY <2>2, <3>2 DEF WorkerInv, TypeOK, ItemsAtHome
      <4>2. item[m[q]] \in {"armed", "fired", "reading", "named"}
        BY <2>2, <3>2 DEF WorkerInv, CachedItemExpires
      <4> QED BY <2>2, <2>3, <4>1, <4>2 DEF WorkerInv, TypeOK
    <3> QED BY <3>1, <3>2
  <2> QED BY <2>5, <2>6, <2>7
<1>8. CASE ProgramCacheAdd(t)
  <2>1. Moves(t, "run")
    <3>1. task' = [task EXCEPT ![t] = [pc |-> "run", prog |-> task[t].prog, need |-> {}, item |-> t]]
      BY <1>8 DEF ProgramCacheAdd
    <3>2. task' \in [Tasks -> Task]
      BY <3>1 DEF WorkerInv, TypeOK, Task, Labels
    <3> QED BY <3>1, <3>2 DEF WorkerInv, TypeOK, Moves
  <2>2. mux = t /\ mux' = None
    BY <1>8 DEF ProgramCacheAdd, WorkerInv, TypeOK, pc, At
  <2>3. \A u \in Tasks : task'[u].pc \notin {"stop", "publish"}
    BY <2>1, <2>2 DEF Moves, WorkerInv, TypeOK, pc
  <2>4. /\ m' = [m EXCEPT ![task[t].prog] = t]
        /\ item' = [item EXCEPT ![t] = "armed"]
    BY <1>8 DEF ProgramCacheAdd
  <2>5. WorkerTypeOK'
    BY <2>1, <2>2, <2>3, <2>4 DEF Moves, Task, WorkerInv, TypeOK, WorkerTypeOK, ItemStates, pc, At
  <2>6. ItemsAtHome'
    BY <2>1, <2>4 DEF Moves, Task, WorkerInv, TypeOK, ItemsAtHome
  <2>7. CachedItemExpires'
    BY <2>2, <2>4 DEF WorkerInv, TypeOK, CachedItemExpires, ItemStates
  <2> QED BY <2>5, <2>6, <2>7
<1>9. CASE Run(t) \/ RunEnds(t)
  BY <1>9, GotoMoves, OutsideAdd DEF Run, RunEnds, Labels, At
<1>10. CASE ProgramCalls(t) \/ DeadlinePasses(t)
  BY <1>10, GotoMoves, OutsideAdd DEF ProgramCalls, DeadlinePasses, Labels, At
<1>11. CASE CallReturns(t)
  BY <1>11, GotoMoves, OutsideAdd DEF CallReturns, Labels, At
<1>12. CASE CompileModuleArrives(t)
  BY <1>12 DEF CompileModuleArrives, WorkerInv, TypeOK, WorkerTypeOK, ItemsAtHome,
               CachedItemExpires, workerVars, pc, At
<1> QED BY <1>1, <1>2, <1>3, <1>4, <1>5, <1>6, <1>7, <1>8, <1>9, <1>10, <1>11, <1>12
        DEF TaskStep, LocalStep, OutsideStep

\* So does every step of a timer: the one that has deleted is done, and the
\* entry it deleted may be another item of the same program, never of another.
LEMMA ExpiryStepKeeps ==
    ASSUME WorkerInv, NEW i \in Tasks, ExpiryStep(i)
    PROVE  WorkerTypeOK' /\ ItemsAtHome' /\ CachedItemExpires'
<1> USE LibraryAssumption, WorkerAssumption
    DEF WorkerInv, TypeOK, WorkerTypeOK, ItemsAtHome, CachedItemExpires, Labels, ItemStates, pc, At
<1>1. CASE TimerFires(i)
  BY <1>1 DEF TimerFires
<1>2. CASE ExpiryLocks(i)
  BY <1>2 DEF ExpiryLocks
<1>3. CASE ExpiryGetsId(i)
  BY <1>3 DEF ExpiryGetsId
<1>4. CASE ExpiryDeletes(i)
  BY <1>4 DEF ExpiryDeletes
<1> QED BY <1>1, <1>2, <1>3, <1>4 DEF ExpiryStep

\* The invariant is inductive.
LEMMA WorkerStep ==
    ASSUME WorkerInv, LibraryEntryExpires, [Next]_vars
    PROVE  WorkerInv' /\ LibraryEntryExpires'
<1>1. LibraryTypeOK' /\ LibraryEntryExpires'
  BY LibraryKept DEF WorkerInv
<1>2. WorkerTypeOK' /\ ItemsAtHome' /\ CachedItemExpires'
  <2>1. CASE \E t \in Tasks : TaskStep(t)
    BY <2>1, TaskStepKeeps
  <2>2. CASE \E i \in Tasks : ExpiryStep(i)
    BY <2>2, ExpiryStepKeeps
  <2>3. CASE UNCHANGED workerVars
    BY <2>3 DEF WorkerInv, TypeOK, WorkerTypeOK, ItemsAtHome, CachedItemExpires, workerVars, pc, At
  <2> QED BY <2>1, <2>2, <2>3 DEF Next, LibraryTimers, vars
<1> QED BY <1>1, <1>2 DEF WorkerInv, TypeOK, WorkerTypeOK

LEMMA WorkerInvariant == Spec => [](WorkerInv /\ LibraryEntryExpires)
<1>1. Init => WorkerInv /\ LibraryEntryExpires
  BY WorkerInitially
<1>2. (WorkerInv /\ LibraryEntryExpires) /\ [Next]_vars => (WorkerInv /\ LibraryEntryExpires)'
  BY WorkerStep
<1> QED BY <1>1, <1>2, PTL DEF Spec

\* Types hold, and programCache.mux is held between steps by exactly the one
\* task that is inside ProgramCacheAdd (program.go), for any number of tasks.
THEOREM WorkerTyped == Spec => []TypeOK
<1>1. WorkerInv => TypeOK
  BY DEF WorkerInv
<1> QED BY <1>1, WorkerInvariant, PTL

\* No program stays in the cache without a timer that is still to remove it.
THEOREM ProgramsAreForgotten == Spec => []CachedItemExpires
<1>1. WorkerInv => CachedItemExpires
  BY DEF WorkerInv
<1> QED BY <1>1, WorkerInvariant, PTL

\* No module stays in the library without a timer that is still to remove it.
THEOREM ModulesAreForgotten == Spec => []LibraryEntryExpires
BY WorkerInvariant, PTL
=============================================================================
