SPECIFICATION FairSpec
CONSTANTS
  t1 = t1
  t2 = t2
  t3 = t3
  p1 = p1
  p2 = p2
  p3 = p3
  k1 = k1
  None = None
  Tasks <- MCTasks
  Programs <- MCPrograms
  Modules <- MCModules
  Imports <- MCImports
  Callers <- MCCallers
  Workloads <- MCWorkloads
PROPERTIES
  BackgroundRoutineDeletesItem
CHECK_DEADLOCK FALSE
