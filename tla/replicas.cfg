SPECIFICATION Spec
CONSTANTS
  a = a
  b = b
  Clones = {a, b}
  Text <- MCText
  trim <- MCTrim
  Shas = {"c1"}
  Anchors = {"line"}
  Branches = {"main", "topic"}
  Digest <- MCDigest
  Proposal = "p"
  Rev = "c1"
  Body = "fix"
  Author = "ana"
  Check = "test"
  Trunk = "main"
  Written = {"comment", "resolve", "newer", "landed", "abandoned", "retargeted"}
  Alphabet <- MCAlphabet
  MaxNow = 1
  MaxAppends = 3
  MaxMerges = 1
SYMMETRY Symmetry
INVARIANTS OnlyRacesStopReading SameLinesSameReview AppendsAreNotUndone OneNoteOnce
CHECK_DEADLOCK FALSE
