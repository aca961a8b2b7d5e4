\* An uptime that fits the atomic (16 of 2^4 units); one thread asks for the reason.
SPECIFICATION Spec
CONSTANTS
  r1 = r1
  Reader = {r1}
  Thread <- BothThreads
  Reason <- BothReasons
  Half = 16
  Timeout = 3
  Period = 2
  Lag = 1
  MaxTime = 15
INVARIANTS NoFalseAlarm HangDetected CallbackKnows
PROPERTY ReasonInForce
CHECK_DEADLOCK FALSE
