\* Duplicated requests of two priorities, full queues, deadlines that expire or do not fit; the
\* services of NORMAL may hang.
SPECIFICATION FairSpec
CONSTANTS
  alice = alice bob = bob critical = critical other = other Normal = normal
  Priority = {critical, normal}
  Returning = {critical}
  Request <- Mixed
  Skew <- SameClock
  Copies <- Twice
  Depth = 1
  Wrap = 4
  Wide = 2
  Start = 3
  MaxTime = 5
INVARIANTS TypeOK OneAnswerPerCopy SoleOkMeansExecuted DeadlineHonoured
PROPERTIES DispatcherReturns ReturningAnswered
CHECK_DEADLOCK FALSE
