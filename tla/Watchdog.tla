------------------------------ MODULE Watchdog ------------------------------
(***************************************************************************)
(* ceell/core/watchdog.c over the safe state manager: the lifecycle loop   *)
(* stores the uptime of its last feed in a 32-bit atomic; a thread of low  *)
(* priority compares it with the 64-bit uptime every Period and triggers   *)
(* the safe state.  The loop's health updates trigger and clear it too.    *)
(* Time is in units of the model; the thread runs at most Lag after it is  *)
(* due.                                                                    *)
(***************************************************************************)
EXTENDS SafeState

CONSTANTS
  Half,     \* 2^31: ceell_atomic_t holds -Half..Half-1
  Timeout,  \* CONFIG_CEELL_WATCHDOG_TIMEOUT_MS
  Period,   \* WDT_CHECK_INTERVAL_MS
  Lag,      \* bound: how long threads of higher priority keep the CPU
  MaxTime   \* bound: the uptime at which the model stops

Loop == "main"
Wdt  == "wdt"
PeerLost    == "CRITICAL_PEER_LOST"
CommFailure == "COMM_FAILURE"

ASSUME WatchdogNats ==
  /\ Half \in Nat \ {0} /\ Timeout \in Nat \ {0} /\ Period \in Nat \ {0}
  /\ Lag \in Nat /\ MaxTime \in Nat
ASSUME TwoThreads == Thread = {Loop, Wdt} /\ Reason = {PeerLost, CommFailure}

VARIABLES
  now,            \* ceell_uptime_get
  wdt_enabled,
  wdt_last_feed,  \* what the atomic holds
  pc,             \* the watchdog thread: "none", "read", "compare", "alarm", "sleep"
  seen,           \* `now` of the thread
  due,            \* when the thread's sleep ends
  hung,           \* the lifecycle loop does not come back
  fedAt,          \* history: the uptime of the last feed
  hungAt,         \* history: the uptime at which the loop hung
  late            \* history: a feed came later than Timeout after the one before

wdt  == <<wdt_enabled, wdt_last_feed>>
thr  == <<pc, seen, due>>
hist == <<fedAt, hungAt, late>>
wdtVars == <<now, wdt, thr, hung, hist>>
vars == <<safeVars, wdtVars>>

\* (int32_t)t
Narrow(t) == ((t + Half) % (2 * Half)) - Half

Init ==
  /\ SafeInit
  /\ now \in 0..Timeout /\ wdt_enabled = FALSE /\ wdt_last_feed = 0
  /\ pc = "none" /\ seen = 0 /\ due = 0 /\ hung = FALSE
  /\ fedAt = 0 /\ hungAt = 0 /\ late = FALSE

\* The lifecycle thread is not inside the safe state manager.
LoopRuns == ~ hung /\ op[Loop] = Quiet

\* Mutant: no feed at the start; 0 stays in the atomic.
ceell_watchdog_init_unfed ==
  /\ LoopRuns /\ ~ wdt_enabled
  /\ wdt_enabled' = TRUE /\ fedAt' = now
  /\ pc' = "read" /\ due' = now
  /\ UNCHANGED <<safeVars, now, wdt_last_feed, seen, hung, hungAt, late>>

\* The first feed, then the thread, which may not be created.
ceell_watchdog_init ==
  /\ LoopRuns /\ ~ wdt_enabled
  /\ wdt_last_feed' = Narrow(now) /\ fedAt' = now
  /\ \/ wdt_enabled' = TRUE /\ pc' = "read" /\ due' = now
     \/ UNCHANGED <<wdt_enabled, pc, due>>
  /\ UNCHANGED <<safeVars, now, seen, hung, hungAt, late>>

ceell_watchdog_feed ==
  /\ LoopRuns /\ wdt_enabled
  /\ wdt_last_feed' = Narrow(now)
  /\ late' = (late \/ now - fedAt > Timeout)
  /\ fedAt' = now
  /\ UNCHANGED <<safeVars, now, wdt_enabled, thr, hung, hungAt>>

\* The loop blocks for ever: between its calls of the manager, or in the callback of
\* one, where it holds safe_mutex.
Hang ==
  /\ ~ hung /\ (op[Loop] = Quiet \/ (op[Loop].at = "callback" /\ safe_cb))
  /\ hung' = TRUE /\ hungAt' = now
  /\ UNCHANGED <<safeVars, now, wdt, thr, fedAt, late>>

\* on_health_change of main.c enters and leaves the safe state.
HealthChange ==
  /\ LoopRuns
  /\ ceell_safe_state_trigger(Loop, PeerLost) \/ ceell_safe_state_clear(Loop)
  /\ Observe /\ UNCHANGED wdtVars

ReadNow ==
  /\ pc = "read"
  /\ seen' = now
  /\ pc' = "compare"
  /\ UNCHANGED <<safeVars, now, wdt, due, hung, hist>>

\* 64-bit arithmetic on what the atomic holds now, maybe of a feed since `seen`.
Expired == seen - wdt_last_feed > Timeout

Sleep == pc' = "sleep" /\ due' = now + Period

Compare ==
  /\ pc = "compare"
  /\ \/ Expired /\ pc' = "alarm" /\ UNCHANGED due
     \/ ~ Expired /\ Sleep
  /\ UNCHANGED <<safeVars, now, wdt, seen, hung, hist>>

\* ceell_safe_state_trigger waits for the mutex, or returns at once.
Alarm ==
  /\ pc = "alarm" /\ op[Wdt] = Quiet
  /\ ceell_safe_state_trigger(Wdt, CommFailure) /\ Observe
  /\ pc' = "triggering"
  /\ UNCHANGED <<now, wdt, seen, due, hung, hist>>

\* Mutant: the thread ends once it has triggered the safe state.
Alarmed_ends ==
  /\ pc = "triggering" /\ op[Wdt] = Quiet
  /\ pc' = "none"
  /\ UNCHANGED <<safeVars, now, wdt, seen, due, hung, hist>>

Alarmed ==
  /\ pc = "triggering" /\ op[Wdt] = Quiet
  /\ Sleep
  /\ UNCHANGED <<safeVars, now, wdt, seen, hung, hist>>

WakeUp ==
  /\ pc = "sleep" /\ now >= due
  /\ pc' = "read"
  /\ UNCHANGED <<safeVars, now, wdt, seen, due, hung, hist>>

\* The thread waits in ceell_safe_state_trigger for a mutex that the loop keeps.
Blocked == pc = "alarm" /\ safe_initialized /\ hung /\ safe_mutex = Loop

\* Time waits for a thread that is Lag behind, unless the thread waits for ever.
Tick ==
  /\ now < MaxTime
  /\ pc # "none" /\ ~ Blocked => now < due + Lag
  /\ now' = now + 1
  /\ UNCHANGED <<safeVars, wdt, thr, hung, hist>>

SafeStateStep ==
  /\ \/ \E t \in Thread : ~ (hung /\ t = Loop) /\ Inside(t)
     \/ \E r \in Reader : ReadActive(r) \/ ReadReason(r)
     \/ \E cb \in BOOLEAN : ceell_safe_state_register_cb(cb)
  /\ Observe /\ UNCHANGED wdtVars

Next ==
  \/ ceell_watchdog_init \/ ceell_watchdog_feed \/ Hang \/ HealthChange
  \/ ReadNow \/ Compare \/ Alarm \/ Alarmed \/ WakeUp \/ Tick \/ SafeStateStep

Spec == Init /\ [][Next]_vars

(***************************************************************************)
(* Properties.                                                             *)
(***************************************************************************)
WdtTypeOK ==
  /\ now \in Nat /\ seen \in 0..now /\ due \in 0..(now + Period) /\ fedAt \in 0..now /\ hungAt \in 0..now
  /\ wdt_enabled \in BOOLEAN /\ hung \in BOOLEAN /\ late \in BOOLEAN
  /\ wdt_last_feed \in -Half..(Half - 1)
  /\ pc \in {"none", "read", "compare", "alarm", "triggering", "sleep"}

TypeOK == SafeTypeOK /\ WdtTypeOK

\* The watchdog does not trigger the safe state while every feed comes within the
\* timeout.
Alarming     == pc \in {"alarm", "triggering"} \/ safe_reason_val = CommFailure
NoFalseAlarm == Alarming => late \/ now - fedAt > Timeout

\* The loop hangs in the callback of a clear: the flag is already reset and the mutex
\* kept, so the thread waits for it and the safe state is never entered.
HungLeaving == op[Loop].at = "callback" /\ op[Loop].reason = None

\* A loop that hangs anywhere else, be it in the callback of a trigger with the mutex
\* in hand, has the node in the safe state after the timeout, a period and two delays,
\* and the safe state stays; the manager must have been initialized.
HangDetected ==
  wdt_enabled /\ safe_initialized /\ hung /\ ~ HungLeaving /\ now - hungAt > Timeout + Period + 2 * Lag
    => safe_active
=============================================================================
