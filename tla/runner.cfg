SPECIFICATION Spec
CONSTANTS
  r1 = r1
  r2 = r2
  Runners = {r1, r2}
  Ids = {1, 2}
  Ops = {"handover", "annotate", "resolve", "revise", "work", "end", "advance"}
  MaxEvents = 3
  MaxEnds = 1
  MaxClock = 2
INVARIANTS ClaimsStand
PROPERTIES FailuresStand ClaimsEnd HandoversAreTakenUp TheLoopRests
CHECK_DEADLOCK FALSE
