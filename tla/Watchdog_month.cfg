\* An uptime beyond them (24.8 days of milliseconds).
SPECIFICATION Spec
CONSTANTS
  r1 = r1
  Reader = {r1}
  Thread <- BothThreads
  Reason <- BothReasons
  Half = 16
  Timeout = 3
  Period = 2
  Lag = 1
  MaxTime = 20
CHECK_DEADLOCK FALSE
INVARIANT NoFalseAlarm
