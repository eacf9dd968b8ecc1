SPECIFICATION FairSpec
CONSTANTS
  p1 = p1
  p2 = p2
  d1 = d1
  d2 = d2
  Programs <- MCPrograms
  Domains <- MCDomains
  DomainOf <- MCDomainOf
  Initially <- MCInitially
  Edited = {p1}
  Codes = {"a", "b"}
  Settings = {"routine", "webhook", "module"}
  Runnable = {"routine", "webhook"}
  Routines = {"routine"}
  MaxRevision = 1
  MaxEdits = 2
  MaxTroubles = 1
  Workers = {w1}
  Loads = {0}
  None = None
INVARIANTS
  TypeOK
  SchedulerMatchesCache
  CommittedCacheIsExact
  OnlySignedRuns
PROPERTIES
  ErrorsUnscheduleNothing
  CacheConverges
  RunningWorkerIsUsable
