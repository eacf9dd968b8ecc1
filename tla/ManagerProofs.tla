---------------------------- MODULE ManagerProofs ----------------------------
(***************************************************************************)
(* The refresh by mark and sweep, for any number of domains, programs,     *)
(* revisions and workers and under any outage, restart and change of the   *)
(* databases while it runs: the scheduler runs what is cached, a committed *)
(* refresh leaves in the cache what it found, an error unschedules         *)
(* nothing, and only signed text gets into the cache.                      *)
(*                                                                         *)
(* None of this is inductive by itself.  MarkAndSweep says what is true in *)
(* the middle of a refresh: a row that has been added is in the cache and  *)
(* not marked; what is cached is marked or has been added; rows are of     *)
(* domains that have been asked, and a domain is asked once.               *)
(***************************************************************************)
EXTENDS ProgramManager, WellFoundedInduction, TLAPS

Added == refresh.seen \ refresh.found

MarkAndSweep ==
    /\ refresh.found \subseteq refresh.seen
    /\ \A r1, r2 \in refresh.seen : r1.id = r2.id => r1 = r2
    /\ \A row \in refresh.seen : Domain(row.id) \in refresh.asked
    /\ refresh.todo \cap refresh.asked = {}
    /\ refresh.pc = "idle" => refresh.found = {} /\ refresh.todo = {}
    /\ refresh.pc = "query" =>
         /\ refresh.todo \cup refresh.asked = Domains
         /\ \A row \in Added : m[row.id] = BodyOf(row) /\ row.id \notin deletes
         /\ \A id \in Cached \ deletes : \E row \in Added : row.id = id

\* Every signature is on record, and so is that of every row being added.
SignaturesKept ==
    /\ \A p \in Programs : \A r \in signed[p] : <<p, r, code[p][r]>> \in everSigned
    /\ \A row \in refresh.found : <<row.id[1], row.id[2], row.code>> \in everSigned

ManagerInv ==
    /\ TypeOK
    /\ SchedulerMatchesCache
    /\ MarkAndSweep
    /\ CommittedCacheIsExact
    /\ SignaturesKept
    /\ OnlySignedRuns

\* A non-empty set of revisions has a latest one.
LEMMA LatestRevision ==
    ASSUME NEW S \in SUBSET Revisions, S # {}
    PROVE  Max(S) \in S /\ \A r \in S : r <= Max(S)
<1> DEFINE R == OpToRel(<, Nat)
           T == {MaxRevision - r : r \in S}
<1>1. MaxRevision \in Nat /\ \A r \in S : r \in Nat /\ MaxRevision - r \in Nat
  BY ProgramsAssumption DEF Revisions
<1>2. \A x, y \in Nat : <<y, x>> \in R <=> y < x
  BY DEF OpToRel
<1>3. T \subseteq Nat /\ T # {}
  BY <1>1
<1>4. IsWellFoundedOn(R, Nat)
  BY NatLessThanWellFounded, Zenon
<1> HIDE DEF R
<1>5. PICK u \in T : \A w \in T : ~(<<w, u>> \in R)
  BY <1>3, <1>4, WFMin
<1>6. PICK x \in S : u = MaxRevision - x
  BY <1>5
<1>7. \A r \in S : x >= r
  <2> TAKE r \in S
  <2>1. ~(MaxRevision - r < MaxRevision - x)
    BY <1>1, <1>2, <1>5, <1>6
  <2> QED BY <1>1, <2>1
<1>8. \E z \in S : \A r \in S : z >= r
  BY <1>7
<1>9. Max(S) \in S /\ \A r \in S : Max(S) >= r
  BY <1>8 DEF Max
<1> QED BY <1>1, <1>9

\* What a domain answers: one row for each program, of a signed revision.
LEMMA RowsOfDomain ==
    ASSUME ProgramsTypeOK, NEW d \in Domains
    PROVE  /\ FindAllRoutineRevisions(d) \subseteq Rows
           /\ \A row \in FindAllRoutineRevisions(d) :
                /\ Domain(row.id) = d
                /\ row.id[2] \in signed[row.id[1]]
                /\ row.code = code[row.id[1]][row.id[2]]
           /\ \A r1, r2 \in FindAllRoutineRevisions(d) : r1.id = r2.id => r1 = r2
<1> DEFINE Q == {q \in Programs : DomainOf[q] = d /\ RowRuns(program[q]) /\ signed[q] # {}}
<1>1. \A p \in Q : Max(signed[p]) \in signed[p] /\ Max(signed[p]) \in Revisions
                   /\ code[p][Max(signed[p])] \in Codes /\ program[p].setting \in Settings
  <2> TAKE p \in Q
  <2>1. signed[p] \in SUBSET Revisions /\ signed[p] # {} /\ signed[p] \subseteq Stored(p)
    BY DEF ProgramsTypeOK
  <2>2. Max(signed[p]) \in signed[p]
    BY <2>1, LatestRevision
  <2>3. code[p][Max(signed[p])] # None
    BY <2>1, <2>2 DEF Stored
  <2> QED BY <2>1, <2>2, <2>3 DEF ProgramsTypeOK, ProgramRow
<1>2. FindAllRoutineRevisions(d) = {Found(p, Max(signed[p])) : p \in Q}
  BY DEF FindAllRoutineRevisions
<1> HIDE DEF Q
<1>3. Q \subseteq Programs /\ \A p \in Q : DomainOf[p] = d
  BY DEF Q
<1>4. \A row \in FindAllRoutineRevisions(d) : \E p \in Q : row = Found(p, Max(signed[p]))
  BY <1>2
<1> QED BY <1>1, <1>3, <1>4 DEF Found, Rows, Ids, Domain

\* The manager starts with everything empty and every signature on record.
LEMMA ManagerInitially == Init => ManagerInv
<1> SUFFICES ASSUME Init PROVE ManagerInv
  OBVIOUS
<1> USE ProgramsAssumption, ManagerAssumption
<1>1. ProgramsTypeOK /\ SignaturesKept
  <2> DEFINE c == CHOOSE text \in Codes : TRUE
  <2>1. c \in Codes /\ c # None
    OBVIOUS
  <2>2. 0 \in Revisions
    BY DEF Revisions
  <2>3. code = [p \in Programs |-> [r \in Revisions |-> IF r = 0 THEN c ELSE None]]
    BY DEF Init, ProgramsInit
  <2> HIDE DEF c
  <2>4. \A p \in Programs : code[p][0] = c /\ 0 \in Stored(p)
    BY <2>1, <2>2, <2>3 DEF Stored
  <2>5. everSigned \subseteq Programs \X Revisions \X Codes
    BY <2>1, <2>2, <2>4 DEF Init, ProgramsInit
  <2>6. code \in [Programs -> [Revisions -> Codes \cup {None}]]
    BY <2>1, <2>3
  <2>7. program \in [Programs -> ProgramRow]
    BY DEF Init, ProgramsInit, ProgramRow
  <2>8. signed = [p \in Programs |-> {0}] /\ edits = 0 /\ refresh.found = {}
    BY DEF Init, ProgramsInit, ManagerInit, Idle
  <2>9. \A p \in Programs : <<p, 0, code[p][0]>> \in everSigned
    BY DEF Init, ProgramsInit
  <2> QED BY <2>2, <2>4, <2>5, <2>6, <2>7, <2>8, <2>9 DEF ProgramsTypeOK, SignaturesKept
<1>2. WorkforceTypeOK
  BY DEF Init, WorkforceInit, WorkforceTypeOK
<1>3. m = [id \in Ids |-> None] /\ deletes = {} /\ cron = {} /\ refresh = Idle /\ job = None
      /\ conn = [d \in Domains |-> "open"] /\ down = {} /\ troubles = 0
  BY DEF Init, ManagerInit
<1>4. Cached = {}
  BY <1>3 DEF Cached
<1>5. TypeOK
  BY <1>1, <1>2, <1>3, <1>4 DEF TypeOK, Idle
<1>6. SchedulerMatchesCache /\ CommittedCacheIsExact /\ OnlySignedRuns /\ MarkAndSweep
  BY <1>3, <1>4 DEF SchedulerMatchesCache, CommittedCacheIsExact, OnlySignedRuns, MarkAndSweep, Idle
<1> QED BY <1>1, <1>5, <1>6 DEF ManagerInv

\* What is signed stays stored and on record, whatever is done to the programs.
LEMMA ProgramsStep ==
    ASSUME ManagerInv, ProgramsNext
    PROVE  /\ ProgramsTypeOK'
           /\ everSigned \subseteq everSigned'
           /\ \A p \in Programs : \A r \in signed'[p] : <<p, r, code'[p][r]>> \in everSigned'
<1> USE ProgramsAssumption DEF ManagerInv, TypeOK, ProgramsTypeOK, Edit
<1>1. PICK p \in Programs :
        \/ \E c \in Codes : CreateCodeRevision(p, c)
        \/ \E r \in Revisions : SignProgramCodeRevision(p, r) \/ DeleteProgramCodeRevision(p, r)
        \/ \E row \in ProgramRow : UpdateProgramByUUID(p, row)
        \/ DeleteProgram(p)
  BY DEF ProgramsNext
<1>2. \A q \in Programs : \A r \in signed[q] :
        r \in Revisions /\ code[q][r] \in Codes /\ <<q, r, code[q][r]>> \in everSigned
  BY DEF Stored, SignaturesKept
<1>3. ASSUME NEW c \in Codes, CreateCodeRevision(p, c)
      PROVE  ProgramsTypeOK' /\ UNCHANGED <<signed, everSigned>>
             /\ \A q \in Programs : \A r \in signed[q] : code'[q][r] = code[q][r]
  <2> DEFINE r == IF Stored(p) = {} THEN 0 ELSE Max(Stored(p)) + 1
  <2>1. r \in Revisions /\ code' = [code EXCEPT ![p][r] = c] /\ UNCHANGED <<program, signed, everSigned>>
    BY <1>3 DEF CreateCodeRevision
  <2>2. r \notin Stored(p)
    <3>1. CASE Stored(p) # {}
      <4>1. Stored(p) \in SUBSET Revisions
        BY DEF Stored
      <4>2. Max(Stored(p)) \in Int /\ \A s \in Stored(p) : s \in Int /\ s <= Max(Stored(p))
        <5>1. Max(Stored(p)) \in Stored(p) /\ \A s \in Stored(p) : s <= Max(Stored(p))
          BY <3>1, <4>1, LatestRevision
        <5> QED BY <4>1, <5>1 DEF Revisions
      <4> QED BY <3>1, <4>2
    <3> QED BY <3>1
  <2> HIDE DEF r
  <2>3. \A q \in Programs : \A s \in Revisions : code'[q][s] = IF q = p /\ s = r THEN c ELSE code[q][s]
    BY <2>1
  <2>4. \A q \in Programs : \A s \in signed[q] : code'[q][s] = code[q][s]
    BY <2>2, <2>3, <1>2
  <2>5. \A q \in Programs : signed'[q] \subseteq Stored(q)'
    BY <2>1, <2>4, <1>2 DEF Stored
  <2>6. code' \in [Programs -> [Revisions -> Codes \cup {None}]]
    BY <2>1
  <2>7. edits' \in 0..MaxEdits
    BY <1>3 DEF CreateCodeRevision
  <2> QED BY <2>1, <2>4, <2>5, <2>6, <2>7
<1>4. ASSUME NEW r \in Revisions, SignProgramCodeRevision(p, r)
      PROVE  /\ ProgramsTypeOK' /\ everSigned \subseteq everSigned'
             /\ \A q \in Programs : \A s \in signed'[q] : <<q, s, code'[q][s]>> \in everSigned'
  <2>1. code[p][r] \in Codes /\ r \in Stored(p)
    BY <1>4 DEF SignProgramCodeRevision, Stored
  <2>2. \A q \in Programs : signed'[q] = IF q = p THEN signed[q] \cup {r} ELSE signed[q]
    BY <1>4 DEF SignProgramCodeRevision
  <2>3. code' = code /\ program' = program /\ \A q \in Programs : Stored(q)' = Stored(q)
    BY <1>4 DEF SignProgramCodeRevision, Stored
  <2>4. everSigned' = everSigned \cup {<<p, r, code[p][r]>>}
    BY <1>4 DEF SignProgramCodeRevision
  <2>5. signed' \in [Programs -> SUBSET Revisions] /\ edits' \in 0..MaxEdits
    BY <1>4 DEF SignProgramCodeRevision
  <2>6. everSigned' \subseteq Programs \X Revisions \X Codes
    BY <2>1, <2>4
  <2>7. ProgramsTypeOK'
    <3>1. \A q \in Programs : signed[q] \subseteq Stored(q)
      OBVIOUS
    <3>2. \A q \in Programs : signed'[q] \subseteq Stored(q)'
      <4> HIDE DEF ManagerInv, TypeOK, ProgramsTypeOK
      <4> QED BY <2>1, <2>2, <2>3, <3>1
    <3> QED BY <2>3, <2>5, <2>6, <3>2
  <2>8. \A q \in Programs : \A s \in signed'[q] : <<q, s, code'[q][s]>> \in everSigned'
    <3> HIDE DEF ManagerInv, TypeOK, ProgramsTypeOK
    <3> SUFFICES ASSUME NEW q \in Programs, NEW s \in signed'[q]
                 PROVE  <<q, s, code'[q][s]>> \in everSigned'
      OBVIOUS
    <3>1. CASE s \in signed[q]
      BY <3>1, <2>3, <2>4, <1>2
    <3>2. CASE q = p /\ s = r
      BY <3>2, <2>3, <2>4
    <3>3. s \in signed[q] \/ (q = p /\ s = r)
      BY <2>2
    <3> QED BY <3>1, <3>2, <3>3
  <2> QED BY <2>4, <2>7, <2>8
<1>5. ASSUME NEW r \in Revisions, DeleteProgramCodeRevision(p, r)
      PROVE  ProgramsTypeOK' /\ UNCHANGED everSigned
             /\ \A q \in Programs : \A s \in signed'[q] : s \in signed[q] /\ code'[q][s] = code[q][s]
  <2>1. \A q \in Programs : \A s \in signed'[q] : s \in signed[q] /\ code'[q][s] = code[q][s]
    BY <1>5, <1>2 DEF DeleteProgramCodeRevision
  <2>2. \A q \in Programs : signed'[q] \subseteq Stored(q)'
    BY <2>1, <1>2 DEF Stored
  <2>3. signed' \in [Programs -> SUBSET Revisions] /\ edits' \in 0..MaxEdits
    BY <1>5 DEF DeleteProgramCodeRevision
  <2>4. code' \in [Programs -> [Revisions -> Codes \cup {None}]]
    BY <1>5 DEF DeleteProgramCodeRevision
  <2> QED BY <1>5, <2>1, <2>2, <2>3, <2>4 DEF DeleteProgramCodeRevision
<1>6. ASSUME NEW row \in ProgramRow, UpdateProgramByUUID(p, row)
      PROVE  ProgramsTypeOK' /\ UNCHANGED <<code, signed, everSigned>>
  BY <1>6 DEF UpdateProgramByUUID, Stored
<1>7. ASSUME DeleteProgram(p)
      PROVE  ProgramsTypeOK' /\ UNCHANGED everSigned
             /\ \A q \in Programs : \A s \in signed'[q] : s \in signed[q] /\ code'[q][s] = code[q][s]
  <2>1. \A q \in Programs : \A s \in signed'[q] : s \in signed[q] /\ code'[q][s] = code[q][s]
    BY <1>7, <1>2 DEF DeleteProgram
  <2>2. \A q \in Programs : signed'[q] \subseteq Stored(q)'
    BY <2>1, <1>2 DEF Stored
  <2>3. program' \in [Programs -> ProgramRow]
    BY <1>7 DEF DeleteProgram, ProgramRow
  <2>4. code' \in [Programs -> [Revisions -> Codes \cup {None}]]
    BY <1>7 DEF DeleteProgram
  <2> QED BY <1>7, <2>1, <2>2, <2>3, <2>4 DEF DeleteProgram
<1> QED BY <1>1, <1>2, <1>3, <1>4, <1>5, <1>6, <1>7

\* The register of workers stays well typed.
LEMMA WorkforceStep ==
    ASSUME WorkforceTypeOK, WorkersNext \/ ClearInactive
    PROVE  WorkforceTypeOK'
<1> USE DEF WorkforceTypeOK, Resume
<1>1. CASE \E w \in Workers : LoopStep(w)
  BY <1>1 DEF LoopStep, CheckSubscribed, Subscribe, ReportLoad, SetLoad
<1>2. CASE \E w \in Workers : CallLost(w) \/ Unsubscribe(w) \/ TimesOut(w)
  BY <1>2 DEF CallLost, Unsubscribe, TimesOut
<1>3. CASE ClearInactive
  BY <1>3 DEF ClearInactive
<1> QED BY <1>1, <1>2, <1>3 DEF WorkersNext

RefreshRecord ==
    [pc : {"idle", "query"}, todo : SUBSET Domains, closed : SUBSET Domains,
     found : SUBSET Rows, seen : SUBSET Rows, asked : SUBSET Domains, fresh : BOOLEAN]

\* The refresh is where it was; at most a handle of it was closed.
RefreshStays ==
    /\ refresh' \in RefreshRecord
    /\ refresh'.pc = refresh.pc /\ refresh'.todo = refresh.todo
    /\ refresh'.found = refresh.found /\ refresh'.seen = refresh.seen
    /\ refresh'.asked = refresh.asked /\ refresh'.fresh = refresh.fresh

\* What TypeOK says of the connections.
ConnectionsTypeOK ==
    /\ conn \in [Domains -> {"absent", "nil", "open"}]
    /\ down \subseteq Domains
    /\ troubles \in 0..MaxTroubles

\* The tables of the programs are as they were.
LEMMA ProgramsStay ==
    ASSUME ManagerInv, UNCHANGED programVars
    PROVE  /\ ProgramsTypeOK'
           /\ \A p \in Programs : \A r \in signed'[p] : <<p, r, code'[p][r]>> \in everSigned'
BY DEF ManagerInv, TypeOK, ProgramsTypeOK, Stored, programVars, SignaturesKept

\* A step that leaves cache and scheduler alone, and posts only what is scheduled.
LEMMA QuietStep ==
    ASSUME ManagerInv, UNCHANGED <<programVars, m, deletes, cron>>,
           RefreshStays, WorkforceTypeOK', ConnectionsTypeOK',
           \/ job' \in {job, None}
           \/ job' \in [entry : cron, worker : Workers]
    PROVE  ManagerInv'
<1> USE DEF ManagerInv
<1>1. ProgramsTypeOK' /\ \A p \in Programs : \A r \in signed'[p] : <<p, r, code'[p][r]>> \in everSigned'
  BY ProgramsStay
<1>2. Cached' = Cached /\ Added' = Added
  BY DEF Cached, Added, RefreshStays
<1>3. TypeOK'
  <2>1. job' \in [entry : [id : Ids, body : Body], worker : Workers] \cup {None}
    BY DEF TypeOK
  <2> QED BY <1>1, <1>2, <2>1 DEF TypeOK, ConnectionsTypeOK, RefreshStays, RefreshRecord
<1>4. SchedulerMatchesCache'
  BY <1>2 DEF SchedulerMatchesCache
<1>5. MarkAndSweep'
  BY <1>2 DEF MarkAndSweep, RefreshStays
<1>6. CommittedCacheIsExact'
  BY <1>2 DEF CommittedCacheIsExact, RefreshStays
<1>7. SignaturesKept'
  BY <1>1 DEF SignaturesKept, RefreshStays, programVars
<1>8. OnlySignedRuns'
  <2>1. \A e \in cron : <<e.id[1], e.id[2], e.body.code>> \in everSigned
    BY DEF SchedulerMatchesCache, OnlySignedRuns, Entry
  <2>2. job' # None => <<job'.entry.id[1], job'.entry.id[2], job'.entry.body.code>> \in everSigned
    BY <2>1 DEF OnlySignedRuns
  <2> QED BY <1>2, <2>2 DEF OnlySignedRuns, programVars
<1> QED BY <1>3, <1>4, <1>5, <1>6, <1>7, <1>8

\* A step of the programs or of the register of workers.
LEMMA OutsideStep ==
    ASSUME ManagerInv,
           \/ ProgramsNext /\ UNCHANGED <<workforceVars, managerVars>>
           \/ WorkersNext /\ UNCHANGED <<programVars, managerVars>>
           \/ FireWorkers
    PROVE  ManagerInv'
<1>1. CASE ProgramsNext /\ UNCHANGED <<workforceVars, managerVars>>
  <2>1. /\ ProgramsTypeOK' /\ everSigned \subseteq everSigned'
        /\ \A p \in Programs : \A r \in signed'[p] : <<p, r, code'[p][r]>> \in everSigned'
    BY <1>1, ProgramsStep
  <2>2. UNCHANGED <<registered, load, loop, m, deletes, cron, refresh, conn, down, job, troubles>>
    BY <1>1 DEF workforceVars, managerVars
  <2>3. Cached' = Cached /\ Added' = Added
    BY <2>2 DEF Cached, Added
  <2>4. TypeOK'
    BY <2>1, <2>2, <2>3 DEF ManagerInv, TypeOK, WorkforceTypeOK
  <2>5. SchedulerMatchesCache' /\ MarkAndSweep' /\ CommittedCacheIsExact'
    BY <2>2, <2>3 DEF ManagerInv, SchedulerMatchesCache, MarkAndSweep, CommittedCacheIsExact
  <2>6. SignaturesKept' /\ OnlySignedRuns'
    BY <2>1, <2>2, <2>3 DEF ManagerInv, SignaturesKept, OnlySignedRuns
  <2> QED BY <2>4, <2>5, <2>6 DEF ManagerInv
<1>2. CASE (WorkersNext /\ UNCHANGED <<programVars, managerVars>>) \/ FireWorkers
  <2>1. WorkforceTypeOK'
    BY <1>2, WorkforceStep DEF ManagerInv, TypeOK, FireWorkers
  <2>2. UNCHANGED <<programVars, m, deletes, cron, refresh, conn, down, job, troubles>>
    BY <1>2 DEF FireWorkers, managerVars
  <2>3. RefreshStays /\ ConnectionsTypeOK'
    BY <2>2 DEF ManagerInv, TypeOK, RefreshStays, RefreshRecord, ConnectionsTypeOK
  <2> QED BY <1>2, <2>1, <2>2, <2>3, QuietStep
<1> QED BY <1>1, <1>2

\* Connections come and go, tasks are posted and answered.
LEMMA ConnectionStep ==
    ASSUME ManagerInv,
           \/ \E d \in Domains : DatabaseFails(d) \/ DatabaseRecovers(d) \/ PingFails(d)
                                \/ Connect(d) \/ RemoveDB(d) \/ AddDB(d)
           \/ \E e \in cron, w \in Workers : Execute(e, w)
           \/ PostEnds
    PROVE  ManagerInv'
<1> USE ManagerAssumption DEF Trouble
<1>1. /\ refresh \in RefreshRecord /\ ConnectionsTypeOK
      /\ WorkforceTypeOK
  BY DEF ManagerInv, TypeOK, RefreshRecord, ConnectionsTypeOK
<1>2. ASSUME UNCHANGED workforceVars
      PROVE  WorkforceTypeOK'
  BY <1>1, <1>2 DEF WorkforceTypeOK, workforceVars
<1>3. ASSUME UNCHANGED refresh
      PROVE  RefreshStays
  BY <1>1, <1>3 DEF RefreshStays
<1>4. ASSUME NEW d \in Domains, NEW state, CloseHandle(d, state)
      PROVE  RefreshStays
  BY <1>1, <1>4 DEF CloseHandle, RefreshStays, RefreshRecord
<1>5. ASSUME NEW d \in Domains, DatabaseFails(d) \/ DatabaseRecovers(d) \/ Connect(d) \/ AddDB(d)
      PROVE  ManagerInv'
  <2>1. ConnectionsTypeOK'
    BY <1>1, <1>5 DEF ConnectionsTypeOK, DatabaseFails, DatabaseRecovers, Connect, AddDB
  <2>2. UNCHANGED <<programVars, workforceVars, m, deletes, cron, refresh, job>>
    BY <1>5 DEF DatabaseFails, DatabaseRecovers, Connect, AddDB
  <2> QED BY <1>2, <1>3, <2>1, <2>2, QuietStep
<1>6. ASSUME NEW d \in Domains, PingFails(d) \/ RemoveDB(d)
      PROVE  ManagerInv'
  <2>1. ConnectionsTypeOK'
    BY <1>1, <1>6 DEF ConnectionsTypeOK, PingFails, RemoveDB, CloseHandle
  <2>2. UNCHANGED <<programVars, workforceVars, m, deletes, cron, job>>
    BY <1>6 DEF PingFails, RemoveDB
  <2>3. RefreshStays
    BY <1>4, <1>6 DEF PingFails, RemoveDB
  <2> QED BY <1>2, <2>1, <2>2, <2>3, QuietStep
<1>7. CASE PostEnds \/ \E e \in cron, w \in Workers : Execute(e, w)
  <2>1. /\ UNCHANGED <<programVars, workforceVars, m, deletes, cron, refresh>>
        /\ UNCHANGED <<conn, down, troubles>>
    BY <1>7 DEF PostEnds, Execute
  <2>2. job' \in {job, None} \/ job' \in [entry : cron, worker : Workers]
    BY <1>7 DEF PostEnds, Execute
  <2>3. ConnectionsTypeOK'
    BY <1>1, <2>1 DEF ConnectionsTypeOK
  <2> QED BY <1>2, <1>3, <2>1, <2>2, <2>3, QuietStep
<1> QED BY <1>5, <1>6, <1>7

\* A body is not None, and a row has one.
LEMMA Bodies ==
    ASSUME NEW row \in Rows
    PROVE  BodyOf(row) \in Body /\ BodyOf(row) # None /\ row.id \in Ids /\ BodyOf(row).code = row.code
BY ManagerAssumption DEF Rows, Body, BodyOf

\* A step of the refresh: what is left to show is about cache and scheduler.
LEMMA RefreshStep ==
    ASSUME ManagerInv, UNCHANGED <<programVars, workforceVars, conn, down, job, troubles>>,
           refresh' \in RefreshRecord, m' \in [Ids -> Body \cup {None}],
           deletes' \subseteq Cached', cron' \subseteq [id : Ids, body : Body],
           SchedulerMatchesCache', MarkAndSweep', CommittedCacheIsExact',
           \A row \in refresh'.found : <<row.id[1], row.id[2], row.code>> \in everSigned,
           \A id \in Cached' : <<id[1], id[2], m'[id].code>> \in everSigned
    PROVE  ManagerInv'
<1>1. ProgramsTypeOK' /\ \A p \in Programs : \A r \in signed'[p] : <<p, r, code'[p][r]>> \in everSigned'
  BY ProgramsStay
<1>2. WorkforceTypeOK'
  BY DEF ManagerInv, TypeOK, WorkforceTypeOK, workforceVars
<1>3. everSigned' = everSigned
  BY DEF programVars
<1>4. TypeOK'
  BY <1>1, <1>2 DEF ManagerInv, TypeOK, RefreshRecord
<1>5. SignaturesKept'
  BY <1>1, <1>3 DEF SignaturesKept
<1>6. OnlySignedRuns'
  BY <1>3 DEF ManagerInv, OnlySignedRuns
<1> QED BY <1>4, <1>5, <1>6 DEF ManagerInv

\* Begin, Query and QueryFails leave cache and scheduler alone.
LEMMA BeginAndQuery ==
    ASSUME ManagerInv, Begin \/ \E d \in Domains : Query(d) \/ QueryFails(d)
    PROVE  ManagerInv'
<1>1. UNCHANGED <<programVars, workforceVars, m, cron, conn, down, job, troubles>>
  BY DEF Begin, Query, QueryFails
<1>2. Cached' = Cached
  BY <1>1 DEF Cached
<1>3. m' \in [Ids -> Body \cup {None}] /\ cron' \subseteq [id : Ids, body : Body]
  BY <1>1 DEF ManagerInv, TypeOK
<1>4. SchedulerMatchesCache'
  BY <1>1, <1>2 DEF ManagerInv, SchedulerMatchesCache
<1>5. \A id \in Cached' : <<id[1], id[2], m'[id].code>> \in everSigned
  BY <1>1, <1>2 DEF ManagerInv, OnlySignedRuns
<1>6. refresh \in RefreshRecord /\ deletes \subseteq Cached /\ ProgramsTypeOK
  BY DEF ManagerInv, TypeOK, RefreshRecord
<1>7. CASE Begin
  <2> DEFINE open == {d \in Domains : conn[d] = "open"}
  <2>1. /\ refresh' = [Idle EXCEPT !.pc = "query", !.todo = open, !.asked = Domains \ open]
        /\ deletes' = Cached
    BY <1>7 DEF Begin
  <2>2. open \subseteq Domains
    OBVIOUS
  <2> HIDE DEF open
  <2>3. /\ refresh'.pc = "query" /\ refresh'.todo = open /\ refresh'.asked = Domains \ open
        /\ refresh'.found = {} /\ refresh'.seen = {} /\ refresh' \in RefreshRecord
    BY <2>1, <2>2 DEF Idle, RefreshRecord
  <2>4. MarkAndSweep' /\ CommittedCacheIsExact'
    BY <1>2, <2>1, <2>2, <2>3 DEF MarkAndSweep, CommittedCacheIsExact, Added
  <2> QED BY <1>1, <1>2, <1>3, <1>4, <1>5, <2>1, <2>3, <2>4, RefreshStep
<1>8. CASE \E d \in Domains : QueryFails(d)
  <2>1. refresh' = Idle /\ deletes' = deletes
    BY <1>8 DEF QueryFails
  <2>2. refresh' \in RefreshRecord /\ refresh'.found = {}
    BY <2>1 DEF Idle, RefreshRecord
  <2>3. MarkAndSweep' /\ CommittedCacheIsExact'
    BY <2>1 DEF Idle, MarkAndSweep, CommittedCacheIsExact
  <2> QED BY <1>1, <1>2, <1>3, <1>4, <1>5, <1>6, <2>1, <2>2, <2>3, RefreshStep
<1>9. ASSUME NEW d \in Domains, Query(d)
      PROVE  ManagerInv'
  <2> DEFINE rows == FindAllRoutineRevisions(d)
  <2>1. /\ refresh.pc = "query" /\ refresh.found = {} /\ d \in refresh.todo /\ deletes' = deletes
        /\ refresh' = [refresh EXCEPT !.todo = @ \ {d}, !.asked = @ \cup {d},
                                      !.found = rows, !.seen = @ \cup rows]
    BY <1>9 DEF Query
  <2>2. rows \subseteq Rows /\ (\A row \in rows : Domain(row.id) = d)
        /\ \A r1, r2 \in rows : r1.id = r2.id => r1 = r2
    BY <1>6, RowsOfDomain
  <2>3. \A row \in rows : <<row.id[1], row.id[2], row.code>> \in everSigned
    <3> SUFFICES ASSUME NEW row \in rows PROVE <<row.id[1], row.id[2], row.code>> \in everSigned
      OBVIOUS
    <3>1. row.id[2] \in signed[row.id[1]] /\ row.code = code[row.id[1]][row.id[2]]
      BY <1>6, RowsOfDomain
    <3>2. row.id[1] \in Programs
      BY <2>2 DEF Rows, Ids
    <3> QED BY <3>1, <3>2 DEF ManagerInv, SignaturesKept
  <2> HIDE DEF rows
  <2>4. /\ refresh'.pc = "query" /\ refresh'.todo = refresh.todo \ {d}
        /\ refresh'.asked = refresh.asked \cup {d} /\ refresh'.found = rows
        /\ refresh'.seen = refresh.seen \cup rows /\ refresh' \in RefreshRecord
    BY <1>6, <2>1, <2>2 DEF RefreshRecord
  <2>5. MarkAndSweep'
    <3> USE DEF ManagerInv, MarkAndSweep
    <3>1. \A row \in refresh.seen : Domain(row.id) \in refresh.asked /\ Domain(row.id) # d
      BY <2>1
    <3>2. \A r1, r2 \in refresh'.seen : r1.id = r2.id => r1 = r2
      BY <2>2, <2>4, <3>1
    <3>3. Added' = Added
      <4>1. refresh.seen \cap rows = {}
        BY <2>2, <3>1
      <4> QED BY <2>1, <2>4, <4>1 DEF Added
    <3>4. \A row \in refresh'.seen : Domain(row.id) \in refresh'.asked
      BY <2>2, <2>4
    <3>5. /\ refresh'.todo \cap refresh'.asked = {}
          /\ refresh'.todo \cup refresh'.asked = Domains
      BY <2>1, <2>4
    <3> QED BY <1>1, <1>2, <2>1, <2>4, <3>2, <3>3, <3>4, <3>5
  <2>6. CommittedCacheIsExact'
    BY <2>4 DEF CommittedCacheIsExact
  <2> QED BY <1>1, <1>2, <1>3, <1>4, <1>5, <1>6, <2>1, <2>3, <2>4, <2>5, <2>6, RefreshStep
<1> QED BY <1>7, <1>8, <1>9

\* Add puts a row in the cache and moves its entry in the scheduler along.
LEMMA AddKeeps ==
    ASSUME ManagerInv, NEW row \in refresh.found, Add(row)
    PROVE  ManagerInv'
<1>1. /\ refresh \in RefreshRecord /\ m \in [Ids -> Body \cup {None}]
      /\ deletes \subseteq Cached /\ cron \subseteq [id : Ids, body : Body]
  BY DEF ManagerInv, TypeOK, RefreshRecord
<1>2. row \in Rows /\ row \in refresh.seen
  BY <1>1 DEF RefreshRecord, ManagerInv, MarkAndSweep
<1>3. BodyOf(row) \in Body /\ BodyOf(row) # None /\ row.id \in Ids /\ BodyOf(row).code = row.code
  BY <1>2, Bodies
<1>4. /\ refresh.pc = "query" /\ deletes' = deletes \ {row.id}
      /\ refresh' = [refresh EXCEPT !.found = @ \ {row}]
      /\ UNCHANGED <<programVars, workforceVars, conn, down, job, troubles>>
  BY DEF Add
<1>5. m' = [m EXCEPT ![row.id] = BodyOf(row)]
  BY <1>1, <1>3 DEF Add
<1>6. m' \in [Ids -> Body \cup {None}] /\ Cached' = Cached \cup {row.id}
  BY <1>1, <1>3, <1>5 DEF Cached
<1>7. SchedulerMatchesCache' /\ cron' \subseteq [id : Ids, body : Body]
  <2>1. CASE m[row.id] = BodyOf(row)
    <3>1. m' = m /\ cron' = cron /\ Cached' = Cached
      BY <1>3, <1>6, <2>1 DEF Add, Cached
    <3> QED BY <1>1, <3>1 DEF ManagerInv, SchedulerMatchesCache
  <2>2. CASE m[row.id] # BodyOf(row)
    <3> DEFINE others == {e \in cron : e.id # row.id}
    <3>1. others = {Entry(id, m[id]) : id \in {i \in Cached \ {row.id} : m[i].setting \in Routines}}
      BY DEF ManagerInv, SchedulerMatchesCache, Entry
    <3>2. cron' = Start(others, row.id, BodyOf(row))
      <4>1. CASE m[row.id] = None
        <5>1. cron' = Start(cron, row.id, BodyOf(row))
          BY <2>2, <4>1 DEF Add
        <5>2. others = cron
          BY <4>1, <1>3 DEF ManagerInv, SchedulerMatchesCache, Entry, Cached
        <5> QED BY <5>1, <5>2
      <4>2. CASE m[row.id] # None
        <5>1. cron' = Start(Stop(cron, row.id, m[row.id]), row.id, BodyOf(row))
          BY <2>2, <4>2 DEF Add
        <5>2. others = Stop(cron, row.id, m[row.id])
          BY DEF ManagerInv, SchedulerMatchesCache, Entry, Stop
        <5> QED BY <5>1, <5>2
      <4> QED BY <4>1, <4>2
    <3>3. \A id \in Cached \ {row.id} : m'[id] = m[id]
      BY <1>5, <1>1 DEF Cached
    <3>4. others = {Entry(id, m'[id]) : id \in {i \in Cached' \ {row.id} : m'[i].setting \in Routines}}
      BY <1>6, <3>1, <3>3
    <3>5. others \subseteq [id : Ids, body : Body]
      BY <1>1
    <3>6. m'[row.id] = BodyOf(row) /\ row.id \in Cached'
      BY <1>1, <1>3, <1>5, <1>6
    <3> HIDE DEF others
    <3>7. cron' = {Entry(id, m'[id]) : id \in {i \in Cached' : m'[i].setting \in Routines}}
      <4>1. CASE BodyOf(row).setting \in Routines
        <5>1. cron' = others \cup {Entry(row.id, BodyOf(row))}
          BY <3>2, <4>1 DEF Start
        <5> QED BY <3>4, <3>6, <4>1, <5>1
      <4>2. CASE BodyOf(row).setting \notin Routines
        <5>1. cron' = others
          BY <3>2, <4>2 DEF Start
        <5> QED BY <3>4, <3>6, <4>2, <5>1
      <4> QED BY <4>1, <4>2
    <3>8. cron' \subseteq [id : Ids, body : Body]
      BY <1>3, <3>2, <3>5 DEF Start, Entry
    <3> QED BY <3>7, <3>8 DEF SchedulerMatchesCache
  <2> QED BY <2>1, <2>2
<1>8. /\ refresh'.pc = "query" /\ refresh'.todo = refresh.todo /\ refresh'.asked = refresh.asked
      /\ refresh'.seen = refresh.seen /\ refresh'.found = refresh.found \ {row}
      /\ refresh' \in RefreshRecord
  BY <1>1, <1>4 DEF RefreshRecord
<1>9. MarkAndSweep'
  <2> USE DEF ManagerInv, MarkAndSweep
  <2>1. Added' = Added \cup {row}
    BY <1>2, <1>8 DEF Added
  <2>2. \A r \in Added : r.id # row.id /\ r.id \in Ids
    BY <1>1, <1>2 DEF Added, RefreshRecord, Rows
  <2>3. \A r \in Added' : m'[r.id] = BodyOf(r) /\ r.id \notin deletes'
    BY <1>1, <1>3, <1>4, <1>5, <2>1, <2>2
  <2>4. \A id \in Cached' \ deletes' : \E r \in Added' : r.id = id
    BY <1>4, <1>6, <2>1
  <2> QED BY <1>4, <1>8, <2>3, <2>4
<1>10. CommittedCacheIsExact'
  BY <1>8 DEF CommittedCacheIsExact
<1>11. \A r \in refresh'.found : <<r.id[1], r.id[2], r.code>> \in everSigned
  BY <1>8 DEF ManagerInv, SignaturesKept
<1>12. \A id \in Cached' : <<id[1], id[2], m'[id].code>> \in everSigned
  <2>1. <<row.id[1], row.id[2], row.code>> \in everSigned
    BY DEF ManagerInv, SignaturesKept
  <2>2. \A id \in Cached : <<id[1], id[2], m[id].code>> \in everSigned /\ id \in Ids
    BY DEF ManagerInv, OnlySignedRuns, Cached
  <2> QED BY <1>1, <1>3, <1>5, <1>6, <2>1, <2>2
<1>13. deletes' \subseteq Cached'
  BY <1>1, <1>4, <1>6
<1> QED BY <1>4, <1>6, <1>7, <1>8, <1>9, <1>10, <1>11, <1>12, <1>13, RefreshStep

\* Commit: what is still marked was found nowhere, what is not was added.
LEMMA CommitKeeps ==
    ASSUME ManagerInv, Commit
    PROVE  ManagerInv'
<1>1. /\ refresh \in RefreshRecord /\ m \in [Ids -> Body \cup {None}]
      /\ deletes \subseteq Cached /\ cron \subseteq [id : Ids, body : Body]
  BY DEF ManagerInv, TypeOK, RefreshRecord
<1>2. /\ refresh.pc = "query" /\ refresh.todo = {} /\ refresh.found = {}
      /\ cron' = {e \in cron : e.id \notin deletes} /\ deletes' = {}
      /\ m' = [id \in Ids |-> IF id \in deletes THEN None ELSE m[id]]
      /\ refresh' = [refresh EXCEPT !.pc = "idle", !.fresh = TRUE]
      /\ UNCHANGED <<programVars, workforceVars, conn, down, job, troubles>>
  BY DEF Commit
<1>3. m' \in [Ids -> Body \cup {None}] /\ Cached' = Cached \ deletes
      /\ \A id \in Cached' : id \in Ids /\ m'[id] = m[id]
  BY <1>1, <1>2 DEF Cached
<1>4. /\ refresh'.pc = "idle" /\ refresh'.todo = refresh.todo /\ refresh'.asked = refresh.asked
      /\ refresh'.seen = refresh.seen /\ refresh'.found = refresh.found
      /\ refresh' \in RefreshRecord
  BY <1>1, <1>2 DEF RefreshRecord
<1>5. SchedulerMatchesCache'
  <2>1. cron' = {Entry(id, m[id]) : id \in {i \in Cached \ deletes : m[i].setting \in Routines}}
    BY <1>2 DEF ManagerInv, SchedulerMatchesCache, Entry
  <2> QED BY <1>3, <2>1 DEF SchedulerMatchesCache
<1>6. MarkAndSweep'
  BY <1>2, <1>4 DEF ManagerInv, MarkAndSweep
<1>7. CommittedCacheIsExact'
  <2>1. Added = refresh.seen
    BY <1>2 DEF Added
  <2>2. \A row \in refresh.seen : row \in Rows /\ m[row.id] = BodyOf(row) /\ row.id \notin deletes
    BY <1>1, <1>2, <2>1 DEF ManagerInv, MarkAndSweep, RefreshRecord
  <2>3. \A row \in refresh.seen : row.id \in Cached' /\ m'[row.id] = BodyOf(row)
    BY <1>3, <2>2, Bodies DEF Cached
  <2>4. \A id \in Cached' : \E row \in refresh.seen : row.id = id
    BY <1>2, <1>3, <2>1 DEF ManagerInv, MarkAndSweep
  <2> QED BY <1>4, <2>3, <2>4 DEF CommittedCacheIsExact
<1>8. \A id \in Cached' : <<id[1], id[2], m'[id].code>> \in everSigned
  BY <1>3 DEF ManagerInv, OnlySignedRuns
<1> QED BY <1>1, <1>2, <1>3, <1>4, <1>5, <1>6, <1>7, <1>8, RefreshStep

\* After a restart of the manager everything is empty.
LEMMA RestartKeeps ==
    ASSUME ManagerInv, Restart
    PROVE  ManagerInv'
<1>1. UNCHANGED <<programVars, load, loop, down>>
  BY DEF Restart
<1>2. m' = [id \in Ids |-> None] /\ deletes' = {} /\ cron' = {} /\ refresh' = Idle /\ job' = None
  BY DEF Restart
<1>3. /\ ProgramsTypeOK'
      /\ \A p \in Programs : \A r \in signed'[p] : <<p, r, code'[p][r]>> \in everSigned'
  BY <1>1, ProgramsStay
<1>4. WorkforceTypeOK' /\ ConnectionsTypeOK'
  BY ManagerAssumption
  DEF Restart, Trouble, ManagerInv, TypeOK, WorkforceTypeOK, ConnectionsTypeOK
<1>5. Cached' = {}
  BY <1>2 DEF Cached
<1>6. TypeOK'
  BY <1>2, <1>3, <1>4, <1>5 DEF TypeOK, ConnectionsTypeOK, Idle
<1>7. SchedulerMatchesCache' /\ CommittedCacheIsExact' /\ OnlySignedRuns' /\ MarkAndSweep'
  BY <1>2, <1>5
  DEF SchedulerMatchesCache, CommittedCacheIsExact, OnlySignedRuns, MarkAndSweep, Idle
<1>8. SignaturesKept'
  BY <1>2, <1>3 DEF SignaturesKept, Idle
<1> QED BY <1>6, <1>7, <1>8 DEF ManagerInv

\* Every step keeps the invariant.
LEMMA ManagerStep == ManagerInv /\ [Next]_vars => ManagerInv'
<1> SUFFICES ASSUME ManagerInv, [Next]_vars PROVE ManagerInv'
  OBVIOUS
<1>1. CASE UNCHANGED vars
  <2>1. /\ UNCHANGED <<programVars, workforceVars, m, deletes, cron>>
        /\ UNCHANGED <<refresh, conn, down, job, troubles>>
    BY <1>1 DEF vars, managerVars
  <2>2. RefreshStays /\ WorkforceTypeOK' /\ ConnectionsTypeOK'
    BY <2>1 DEF ManagerInv, TypeOK, RefreshStays, RefreshRecord, WorkforceTypeOK,
                workforceVars, ConnectionsTypeOK
  <2> QED BY <2>1, <2>2, QuietStep
<1>2. CASE Begin \/ Refresh
  BY <1>2, BeginAndQuery, AddKeeps, CommitKeeps DEF Refresh
<1>3. CASE Environment
  BY <1>3, ConnectionStep, RestartKeeps DEF Environment
<1>4. CASE \/ \E e \in cron, w \in Workers : Execute(e, w)
           \/ PostEnds
           \/ \E d \in Domains : Connect(d)
  BY <1>4, ConnectionStep
<1> QED BY <1>1, <1>2, <1>3, <1>4, OutsideStep DEF Next

\* The conjunction is an invariant.
LEMMA ManagerInvariant == Spec => []ManagerInv
<1>1. Init => ManagerInv
  BY ManagerInitially
<1>2. ManagerInv /\ [Next]_vars => ManagerInv'
  BY ManagerStep
<1> QED BY <1>1, <1>2, PTL DEF Spec

\* The manager, its databases and its register stay well typed, and a revision
\* that is signed is stored (programs.sql, program_cache.go, workforce.go).
THEOREM ManagerTyped == Spec => []TypeOK
<1>1. ManagerInv => TypeOK
  BY DEF ManagerInv
<1> QED BY <1>1, ManagerInvariant, PTL

\* The scheduler runs exactly the routines in the cache, in their cached text
\* (program_cache.go, Add and Commit; program_revisions.go, Start and Stop).
THEOREM SchedulerFollowsCache == Spec => []SchedulerMatchesCache
<1>1. ManagerInv => SchedulerMatchesCache
  BY DEF ManagerInv
<1> QED BY <1>1, ManagerInvariant, PTL

\* A refresh that was committed leaves in the cache what it found, nothing
\* else and nothing less (api.go, UpdateProgramCache).
THEOREM CommitIsExact == Spec => []CommittedCacheIsExact
<1>1. ManagerInv => CommittedCacheIsExact
  BY DEF ManagerInv
<1> QED BY <1>1, ManagerInvariant, PTL

\* Nothing is cached or posted that was not signed, program, revision and text
\* (programs.sql, FindAllRoutineRevisions).
THEOREM UnsignedNeverRuns == Spec => []OnlySignedRuns
<1>1. ManagerInv => OnlySignedRuns
  BY DEF ManagerInv
<1> QED BY <1>1, ManagerInvariant, PTL

\* A program leaves the cache only if its domain answered without it or had no
\* handle, or in a restart: never by a failed query (api.go, UpdateProgramCache).
THEOREM FailureUnschedulesNothing == Spec => ErrorsUnscheduleNothing
<1> DEFINE Why == \A id \in Cached : m'[id] = None =>
                    \/ troubles' # troubles
                    \/ Domain(id) \in refresh.asked /\ \A row \in refresh.seen : row.id # id
<1>1. ManagerInv /\ [Next]_vars => [Why]_vars
  <2> SUFFICES ASSUME ManagerInv, Next, NEW id \in Cached, m'[id] = None, troubles' = troubles
               PROVE  Domain(id) \in refresh.asked /\ \A row \in refresh.seen : row.id # id
    OBVIOUS
  <2>1. m[id] # None /\ id \in Ids /\ m' # m
    BY DEF Cached
  <2>2. CASE Commit
    <3>1. id \in deletes /\ refresh.pc = "query" /\ refresh.todo = {} /\ refresh.found = {}
      BY <2>1, <2>2 DEF Commit
    <3>2. Domain(id) \in Domains
      BY <2>1, ProgramsAssumption DEF Domain, Ids
    <3> QED BY <3>1, <3>2 DEF ManagerInv, MarkAndSweep, Added
  <2>3. ~ \E row \in refresh.found : Add(row)
    <3> SUFFICES ASSUME NEW row \in refresh.found, Add(row) PROVE FALSE
      OBVIOUS
    <3>1. row \in Rows
      BY DEF ManagerInv, TypeOK
    <3>2. BodyOf(row) # None
      BY <3>1, Bodies
    <3>3. m' = m \/ m' = [m EXCEPT ![row.id] = BodyOf(row)]
      BY DEF Add
    <3> QED BY <2>1, <3>2, <3>3 DEF ManagerInv, TypeOK
  <2>4. ~ Restart
    BY DEF Restart, Trouble, ManagerInv, TypeOK
  <2> QED BY <2>1, <2>2, <2>3, <2>4
      DEF Next, managerVars, FireWorkers, Begin, Refresh, Query, QueryFails, Execute, PostEnds, Connect,
          Environment, DatabaseFails, DatabaseRecovers, PingFails, RemoveDB, AddDB
<1>2. Spec => [][Why]_vars
  BY <1>1, ManagerInvariant, PTL DEF Spec
<1> QED BY <1>2 DEF ErrorsUnscheduleNothing
=============================================================================
