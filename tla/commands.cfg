SPECIFICATION Spec
CONSTANTS
  base = base
  m1 = m1
  a1 = a1
  a2 = a2
  a3 = a3
  a4 = a4
  d1 = d1
  p = p
  q = q
  x = x
  y = y
  Actors = {x, y}
  Ids = {p, q}
  Commits = {base, m1, a1, a2, d1}
  Branches = {"main", "topic"}
  CheckOrder <- TwoChecks
  Required = {"test"}
  History <- MCHistory
  FirstCommit <- FirstOfEach
  Onto <- OntoStack
  Attempts <- AttemptsOfEach
  MayRevise <- OneReviser
  Start <- StartAll
  OpenAtStart = {p}
  Pushed = {"main"}
  Ops = {"propose", "annotate", "reply", "resolve", "dispatch", "report", "describe", "check", "revise", "land", "abandon", "crash", "checkout"}
  MaxCommands = 3
INVARIANTS TypeOK GuardsAreTheFold LogReads
PROPERTIES NoRevisionIsLost
CHECK_DEADLOCK FALSE
