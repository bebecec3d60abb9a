SPECIFICATION Spec
CONSTANTS
  alone = alone
  other = other
  Conns = {alone, other}
  Requests <- MCRequests
  MaxHeaders = 2
  MaxBody = 1
  MaxPanics = 1
  Nobody = Nobody
INVARIANTS HandlersSeeWholeRequests AnswersAreTheirOwn
PROPERTIES WholeRequestsAreAnswered StoppingEndsTheProcess
CHECK_DEADLOCK FALSE
