SPECIFICATION Spec
CONSTANTS
  r1 = r1
  r2 = r2
  w1 = w1
  w2 = w2
  log = log
  Readers = {r1}
  Writers = {w1, w2}
  Parts = {log}
  MaxWrites = 2
  MaxFailures = 1
INVARIANTS NobodySleepsThroughIt
PROPERTIES KeepsItsPromise WritesArrive ReadersAreTold StopEndsEverything
CHECK_DEADLOCK FALSE
