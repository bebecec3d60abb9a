SPECIFICATION Spec
CONSTANTS
  base = base
  m1 = m1
  a1 = a1
  a2 = a2
  a3 = a3
  a4 = a4
  d1 = d1
  p = p
  q = q
  x = x
  y = y
  Actors = {x, y}
  Ids = {p, q}
  Commits = {base, m1, a1, a2, d1}
  Branches = {"main", "topic"}
  CheckOrder <- OneCheck
  Required = {}
  History <- MCHistory
  FirstCommit <- FirstOfEach
  Onto <- OntoStack
  Attempts <- AttemptsOfEach
  MayRevise <- ManyRevisers
  Start <- StartAll
  OpenAtStart = {p, q}
  Pushed = {"main"}
  Ops = {"annotate", "resolve", "revise", "land"}
  MaxCommands = 4
INVARIANTS LandedIsOnTarget LandingAnswersWhatItSaw StackFollows
PROPERTIES BranchesOnlyAdvance
SYMMETRY Symmetric
CHECK_DEADLOCK FALSE
