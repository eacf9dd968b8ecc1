---------------------------- MODULE ModuleLibrary ----------------------------
(***************************************************************************)
(* The library cache of a worker (api/malgomaj/library): the source of the *)
(* modules that programs import, fetched from the program manager and      *)
(* forgotten again by a timer.  Each task that compiles a program looks up *)
(* its modules; the lookup lets go of the lock while it fetches, and it    *)
(* starts the timer only after it has let go of the lock again.            *)
(*                                                                         *)
(* An item is named by the task that fetched it, so that an entry and the  *)
(* timer that belongs to it can be told from those of another task.  The   *)
(* mutex covers single steps only and is therefore not a variable.         *)
(***************************************************************************)
EXTENDS Naturals, FiniteSets

CONSTANTS Tasks,     \* requests POST /v1/tasks, one each
          Modules,   \* keys of the library: language, domain, name, revision
          None       \* a nil, in any of the maps

ASSUME LibraryAssumption == None \notin Tasks \cup Modules

VARIABLES cache,     \* the entry of each module: the task that fetched it
          lifetime,  \* where the timer of each item is
          lookup     \* the module whose fetch each task is in the middle of

libraryVars == <<cache, lifetime, lookup>>

LibraryInit ==
    /\ cache = [k \in Modules |-> None]
    /\ lifetime = [t \in Tasks |-> [k \in Modules |-> "none"]]
    /\ lookup = [t \in Tasks |-> None]

\* The item is in the map and its timer has not been started yet.
Storing(t) == lookup[t] # None /\ lifetime[t][lookup[t]] = "stored"

\* Get finds the module in the cache.
GetCached(t, k) ==
    /\ lookup[t] = None
    /\ cache[k] # None
    /\ UNCHANGED libraryVars

\* Get does not, and asks the index server.
GetMissing(t, k) ==
    /\ lookup[t] = None
    /\ cache[k] = None
    /\ lookup' = [lookup EXCEPT ![t] = k]
    /\ UNCHANGED <<cache, lifetime>>

\* The index server cannot be reached, or answers other than 200.
GetFails(t) ==
    /\ lookup[t] # None /\ ~ Storing(t)
    /\ lookup' = [lookup EXCEPT ![t] = None]
    /\ UNCHANGED <<cache, lifetime>>

\* Mutant: the timer is started before the entry is in the map.
GetStartsFirst(t) ==
    /\ lookup[t] # None /\ ~ Storing(t)
    /\ \/ /\ lifetime[t][lookup[t]] = "none"
          /\ lifetime' = [lifetime EXCEPT ![t][lookup[t]] = "armed"]
          /\ UNCHANGED <<cache, lookup>>
       \/ /\ lifetime[t][lookup[t]] # "none"
          /\ cache' = [cache EXCEPT ![lookup[t]] = t]
          /\ lookup' = [lookup EXCEPT ![t] = None]
          /\ UNCHANGED lifetime

\* cache[id] = v, also over an entry that another task stored meanwhile.
GetStores(t) ==
    /\ lookup[t] # None /\ ~ Storing(t)
    /\ cache' = [cache EXCEPT ![lookup[t]] = t]
    /\ lifetime' = [lifetime EXCEPT ![t][lookup[t]] = "stored"]
    /\ UNCHANGED lookup

\* v.Start(): the timer runs; the item it would stop first has none.
LibraryItemStart(t) ==
    /\ Storing(t)
    /\ lifetime' = [lifetime EXCEPT ![t][lookup[t]] = "armed"]
    /\ lookup' = [lookup EXCEPT ![t] = None]
    /\ UNCHANGED cache

\* The timer fires: its function is called in a goroutine of its own ...
LibraryTimerFires(t, k) ==
    /\ lifetime[t][k] = "armed"
    /\ lifetime' = [lifetime EXCEPT ![t][k] = "fired"]
    /\ UNCHANGED <<cache, lookup>>

\* ... and deletes by key, whoever stored the entry that is there by now.
LibraryItemExpires(t, k) ==
    /\ lifetime[t][k] = "fired"
    /\ cache' = [cache EXCEPT ![k] = None]
    /\ lifetime' = [lifetime EXCEPT ![t][k] = "done"]
    /\ UNCHANGED lookup

LibraryTypeOK ==
    /\ cache \in [Modules -> Tasks \cup {None}]
    /\ lifetime \in [Tasks -> [Modules -> {"none", "stored", "armed", "fired", "done"}]]
    /\ lookup \in [Tasks -> Modules \cup {None}]

\* Every module in the cache will be forgotten: the timer of the very item
\* that is in the map is still to run, however many tasks fetched the same
\* module at the same time and overwrote or expired each other's entries
\* (library.go, Get and LibraryItem.Start).  An entry without a timer would
\* be used for ever, whatever is signed later.
LibraryEntryExpires ==
    \A k \in Modules : cache[k] # None =>
        \/ lookup[cache[k]] = k /\ lifetime[cache[k]][k] = "stored"
        \/ lifetime[cache[k]][k] \in {"armed", "fired"}
=============================================================================
