SPECIFICATION Spec
CONSTANTS
  base = base
  m1 = m1
  a1 = a1
  a2 = a2
  a3 = a3
  a4 = a4
  d1 = d1
  p = p
  q = q
  x = x
  y = y
  Actors = {x, y}
  Ids = {p}
  Commits = {base, a1, a2, a3}
  Branches = {"main"}
  CheckOrder <- OneCheck
  Required = {}
  History <- MCHistory
  FirstCommit <- FirstOfEach
  Onto <- OntoStack
  Attempts <- AttemptsOfEach
  MayRevise <- ManyRevisers
  Start <- StartAll
  OpenAtStart = {p}
  Pushed = {}
  Ops = {"revise"}
  MaxCommands = 3
PROPERTIES NoRevisionIsLost
CHECK_DEADLOCK FALSE
