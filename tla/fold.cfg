SPECIFICATION LogSpec
CONSTANTS
  c1 = c1
  c2 = c2
  n1 = n1
  n2 = n2
  r1 = r1
  r2 = r2
  r3 = r3
  r4 = r4
  w1 = w1
  w2 = w2
  Commits = {c1, c2}
  First = c1
  NoteIds = {n1, n2}
  ReplyIds = {r1, r2, r3, r4}
  WhyIds = {w1, w2}
  Home <- MCHome
  ReplyTo <- MCReplyTo
  Names = {"test", "lint"}
  Required <- MCRequired
  LogTimes = {1, 2, 3}
  TimelineDepth = 2
  LogKinds = {"comment", "reply", "resolve", "check", "rationale", "chunk", "work", "dispatch"}
  MaxLines = 3
INVARIANTS FoldAgrees ArrivalOrderIsForgotten WorkOrderIsForgotten GateReadsTheHead FingerprintsFollow
CHECK_DEADLOCK FALSE
