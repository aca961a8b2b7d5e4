--------------------------- MODULE WatchdogProofs ---------------------------
(***************************************************************************)
(* Theorems about Watchdog and the safe state manager it uses, for every   *)
(* timeout, period, delay and set of readers.                              *)
(***************************************************************************)
EXTENDS Watchdog, TLAPS

(***************************************************************************)
(* The safe state manager: what holds between any two of its steps.        *)
(***************************************************************************)

\* Only the thread that holds the mutex is inside a call.
Exclusive == \A t \in Thread : IF safe_mutex = t THEN op[t].at # "idle" ELSE op[t] = Quiet

Holder(steps) == safe_mutex # Nobody /\ op[safe_mutex].at \in steps
Leaving       == op[safe_mutex].reason = None

\* What the holder's progress says of the flag and the reason.
Phases ==
  /\ Holder({"reason", "active"}) => ~ safe_active /\ ~ Leaving
  /\ Holder({"update"}) => safe_active /\ ~ Leaving
  /\ Holder({"active"}) => safe_reason_val = op[safe_mutex].reason
  /\ Holder({"inactive"}) => safe_active /\ Leaving
  /\ Holder({"none"}) => ~ safe_active /\ Leaving
  /\ Holder({"callback"}) => (safe_active <=> ~ Leaving)

\* The flag is never set without a reason; a reason without the flag is on its way
\* in or out.
FlagHasReason == safe_active => safe_reason_val # None
ReasonHasFlag == ~ safe_active /\ safe_reason_val # None => Holder({"active", "none"})

\* What the callback was last told.
Knows == \/ Holder({"none"})
         \/ Holder({"callback"}) /\ Leaving
         \/ safe_active /\ ~ Holder({"callback"})
Told  == safe_cb => told = IF Knows THEN 1 ELSE 0

\* A reader between its two reads has seen what is in force, and the reason that is
\* being cleared.
Readers ==
  \A r \in Reader : reader[r].at = "read" =>
    /\ InForce \subseteq inForce[r]
    /\ Holder({"none"}) => safe_reason_val \in inForce[r]

SafeInv == SafeTypeOK /\ Exclusive /\ Phases /\ FlagHasReason /\ ReasonHasFlag /\ Told /\ Readers

LEMMA SafeStart == SafeInit => SafeInv
  <1> SUFFICES ASSUME SafeInit PROVE SafeInv
    OBVIOUS
  <1>1. SafeTypeOK
    <2>1. op \in [Thread -> Call] BY DEF SafeInit, Call, Quiet
    <2> DEFINE T == SUBSET (Reason \cup {None})
    <2>2. {} \in T OBVIOUS
    <2>3. inForce = [r \in Reader |-> {}] BY DEF SafeInit
    <2> HIDE DEF T
    <2>4. inForce \in [Reader -> T] BY <2>2, <2>3
    <2> USE DEF T
    <2>5. reader \in [Reader -> [at : {"idle", "read"}, ret : Reason \cup {None}]] BY DEF SafeInit
    <2>6. safe_active \in BOOLEAN /\ safe_cb \in BOOLEAN /\ safe_initialized \in BOOLEAN BY Zenon DEF SafeInit
    <2>7. safe_reason_val \in Reason \cup {None} /\ safe_mutex \in Thread \cup {Nobody} /\ told \in Int
      BY DEF SafeInit
    <2>8. QED BY <2>1, <2>4, <2>5, <2>6, <2>7 DEF SafeTypeOK
  <1>2. Exclusive BY NobodyIsNoThread DEF SafeInit, Exclusive
  <1>3. Phases /\ FlagHasReason /\ ReasonHasFlag /\ Told
    BY DEF SafeInit, Phases, FlagHasReason, ReasonHasFlag, Told, Knows, Holder
  <1>4. Readers BY DEF SafeInit, Readers
  <1>5. QED BY <1>1, <1>2, <1>3, <1>4 DEF SafeInv

\* What is in force is always of the type.
LEMMA ObservedType ==
  ASSUME SafeTypeOK, Observe, safe_active' \in BOOLEAN, safe_reason_val' \in Reason \cup {None}
  PROVE  inForce' \in [Reader -> SUBSET (Reason \cup {None})]
  <1>1. InForce \subseteq Reason \cup {None} /\ InForce' \subseteq Reason \cup {None}
    BY DEF SafeTypeOK, InForce
  <1> DEFINE next(r) == IF reader'[r].at = "idle" THEN {} ELSE inForce[r] \cup InForce \cup InForce'
  <1>2. ASSUME NEW r \in Reader PROVE next(r) \in SUBSET (Reason \cup {None})
    <2>1. inForce[r] \subseteq Reason \cup {None} BY DEF SafeTypeOK
    <2>2. QED BY <1>1, <2>1
  <1>3. inForce' = [r \in Reader |-> next(r)] BY DEF Observe
  <1> HIDE DEF next
  <1>4. QED BY <1>2, <1>3

\* A call that returns early changes nothing but what the readers have seen.
LEMMA SafeReturn ==
  ASSUME SafeInv, NotInitialized, Observe
  PROVE  SafeInv'
  <1>1. UNCHANGED <<safe_initialized, safe_active, safe_reason_val, safe_mutex, safe_cb, op, reader, told>>
    BY DEF NotInitialized, atomics
  <1>2. SafeTypeOK'
    <2>1. inForce' \in [Reader -> SUBSET (Reason \cup {None})]
      BY <1>1, ObservedType DEF SafeInv, SafeTypeOK
    <2>2. QED BY <1>1, <2>1 DEF SafeInv, SafeTypeOK
  <1>3. Exclusive' BY <1>1 DEF SafeInv, Exclusive
  <1>4. Phases' /\ FlagHasReason' /\ ReasonHasFlag' /\ Told'
    BY <1>1 DEF SafeInv, Phases, FlagHasReason, ReasonHasFlag, Told, Knows, Holder, Leaving
  <1>5. Readers' BY <1>1 DEF SafeInv, Readers, Observe, Holder
  <1>6. QED BY <1>2, <1>3, <1>4, <1>5 DEF SafeInv

\* Every step that takes the mutex.
LEMMA SafeLock ==
  ASSUME SafeInv, NEW t \in Thread, NEW v \in Reason, Observe, ~ NotInitialized,
         ceell_safe_state_trigger(t, v) \/ ceell_safe_state_clear(t)
  PROVE  SafeInv'
  <1>1. /\ safe_mutex = Nobody /\ safe_mutex' = t
        /\ UNCHANGED <<safe_initialized, safe_active, safe_reason_val, safe_cb, reader, told>>
    BY DEF ceell_safe_state_trigger, ceell_safe_state_clear, Lock, atomics
  <1>2. t # Nobody /\ op \in [Thread -> Call]
    BY NobodyIsNoThread DEF SafeInv, SafeTypeOK
  <1>3. \/ op' = [op EXCEPT ![t] = [at |-> "update", reason |-> v]] /\ safe_active
        \/ op' = [op EXCEPT ![t] = [at |-> "reason", reason |-> v]] /\ ~ safe_active
        \/ op' = [op EXCEPT ![t] = [at |-> "inactive", reason |-> None]] /\ safe_active
    BY DEF ceell_safe_state_trigger, ceell_safe_state_clear, Lock
  <1>4. SafeTypeOK'
    <2>1. inForce' \in [Reader -> SUBSET (Reason \cup {None})]
      BY <1>1, ObservedType DEF SafeInv, SafeTypeOK
    <2>2. op' \in [Thread -> Call]
      BY <1>2, <1>3 DEF Call
    <2>3. QED BY <1>1, <2>1, <2>2 DEF SafeInv, SafeTypeOK
  <1>5. Exclusive'
    <2>1. op'[t].at # "idle" BY <1>2, <1>3
    <2>2. ASSUME NEW u \in Thread \ {t} PROVE op'[u] = Quiet
      BY <1>1, <1>2, <1>3, NobodyIsNoThread DEF SafeInv, Exclusive
    <2>3. QED BY <1>1, <2>1, <2>2 DEF Exclusive
  <1>6. Phases' /\ FlagHasReason' /\ ReasonHasFlag' /\ Told'
    BY <1>1, <1>2, <1>3, NoneIsNoReason DEF SafeInv, Phases, FlagHasReason, ReasonHasFlag, Told, Knows, Holder, Leaving
  <1>7. Readers' BY <1>1, <1>2, <1>3 DEF SafeInv, Readers, Observe, InForce, Holder
  <1>8. QED BY <1>4, <1>5, <1>6, <1>7 DEF SafeInv

\* The other steps: inside a call, of a reader, and of a registration.
SafeMove ==
  \/ \E t \in Thread : Inside(t)
  \/ \E r \in Reader : ReadActive(r) \/ ReadReason(r)
  \/ \E cb \in BOOLEAN : ceell_safe_state_register_cb(cb)

\* A step of the holder changes nothing of the other threads.
LEMMA HolderMoves ==
  ASSUME SafeInv, NEW t \in Thread, Inside(t)
  PROVE  /\ safe_mutex = t /\ t # Nobody
         /\ op \in [Thread -> Call] /\ op[t] \in Call
         /\ UNCHANGED <<reader, safe_initialized>>
         /\ \A u \in Thread \ {t} : op[u] = Quiet /\ op'[u] = Quiet
  <1>1. op \in [Thread -> Call] /\ op[t] \in Call /\ t # Nobody
    BY NobodyIsNoThread DEF SafeInv, SafeTypeOK
  <1>2. op[t].at # "idle" BY DEF Inside, Trigger, Clear, Callback, Unlock
  <1>3. safe_mutex = t BY <1>2 DEF SafeInv, Exclusive, Quiet
  <1>4. UNCHANGED <<reader, safe_initialized>> BY DEF Inside, Trigger, Clear, Callback, Unlock
  <1>5. ASSUME NEW u \in Thread \ {t} PROVE op[u] = Quiet /\ op'[u] = Quiet
    <2>1. op[u] = Quiet BY <1>3 DEF SafeInv, Exclusive
    <2>2. op'[u] = op[u] BY <1>1 DEF Inside, Trigger, Clear, Callback, Unlock, Goto
    <2>3. QED BY <2>1, <2>2
  <1>6. QED BY <1>1, <1>3, <1>4, <1>5

\* The steps of a call of thread t, one per place in the code.
Place(t, from, to) == op[t].at = from /\ op'[t].at = to /\ op'[t].reason = op[t].reason

Moves(t) ==
  \/ /\ Place(t, "reason", "active") /\ safe_reason_val' = op[t].reason
     /\ UNCHANGED <<safe_active, told, safe_mutex, safe_cb>>
  \/ /\ Place(t, "active", "callback") /\ safe_active' = TRUE
     /\ UNCHANGED <<safe_reason_val, told, safe_mutex, safe_cb>>
  \/ /\ Place(t, "update", "unlock") /\ safe_reason_val' = op[t].reason
     /\ UNCHANGED <<safe_active, told, safe_mutex, safe_cb>>
  \/ /\ Place(t, "inactive", "none") /\ safe_active' = FALSE
     /\ UNCHANGED <<safe_reason_val, told, safe_mutex, safe_cb>>
  \/ /\ Place(t, "none", "callback") /\ safe_reason_val' = None
     /\ UNCHANGED <<safe_active, told, safe_mutex, safe_cb>>
  \/ /\ Place(t, "callback", "unlock")
     /\ safe_cb => told' = IF op[t].reason = None THEN told - 1 ELSE told + 1
     /\ ~ safe_cb => told' = told
     /\ UNCHANGED <<safe_active, safe_reason_val, safe_mutex, safe_cb>>
  \/ /\ op[t].at = "unlock" /\ op'[t] = Quiet /\ safe_mutex' = Nobody
     /\ UNCHANGED <<safe_active, safe_reason_val, told, safe_cb>>

LEMMA HolderStep ==
  ASSUME SafeInv, NEW t \in Thread, Inside(t)
  PROVE  Moves(t)
  <1> USE DEF Moves, Place
  <1>1. op \in [Thread -> Call] BY HolderMoves
  <1>2. CASE Trigger(t) BY <1>1, <1>2 DEF Trigger, Goto, Call
  <1>3. CASE Clear(t) BY <1>1, <1>3 DEF Clear, Goto, Call
  <1>4. CASE Callback(t)
    <2>1. told \in Int BY DEF SafeInv, SafeTypeOK
    <2>2. QED BY <1>1, <1>4, <2>1 DEF Callback, Goto, Call, atomics
  <1>5. CASE Unlock(t) BY <1>1, <1>5 DEF Unlock, Goto, Call, atomics
  <1>6. QED BY <1>2, <1>3, <1>4, <1>5 DEF Inside

LEMMA SafeInside ==
  ASSUME SafeInv, NEW t \in Thread, Inside(t), Observe
  PROVE  SafeInv'
  <1>0. Moves(t) BY HolderStep
  <1>1. /\ safe_mutex = t /\ t # Nobody /\ op[t] \in Call /\ op \in [Thread -> Call]
        /\ UNCHANGED <<reader, safe_initialized>>
    BY HolderMoves
  <1>2. \A u \in Thread \ {t} : op[u] = Quiet /\ op'[u] = Quiet BY HolderMoves
  <1>3. op' \in [Thread -> Call]
    <2>1. op' = [op EXCEPT ![t] = op'[t]] /\ op'[t] \in Call
      BY <1>1 DEF Inside, Trigger, Clear, Callback, Unlock, Goto, Call, Quiet
    <2>2. QED BY <1>1, <2>1
  <1>4. SafeTypeOK'
    <2>1. /\ safe_active' \in BOOLEAN /\ safe_reason_val' \in Reason \cup {None}
          /\ safe_mutex' \in Thread \cup {Nobody} /\ safe_cb' \in BOOLEAN /\ told' \in Int
      <3>1. op[t].reason \in Reason \cup {None} BY <1>1 DEF Call
      <3>2. told \in Int /\ (IF op[t].reason = None THEN -1 ELSE 1) \in Int
        BY DEF SafeInv, SafeTypeOK
      <3>3. told' \in Int BY <3>2, <1>0 DEF Moves
      <3>4. QED BY <1>1, <3>1, <3>3, <1>0 DEF SafeInv, SafeTypeOK, Moves
    <2>2. inForce' \in [Reader -> SUBSET (Reason \cup {None})]
      BY <2>1, ObservedType DEF SafeInv
    <2>3. QED BY <1>1, <1>3, <2>1, <2>2 DEF SafeInv, SafeTypeOK
  <1>5. Exclusive'
    <2>1. CASE op[t].at # "unlock" BY <1>1, <1>2, <2>1, <1>0 DEF Exclusive, Moves, Place
    <2>2. CASE op[t].at = "unlock"
      BY <1>1, <1>2, <2>2, <1>0, NobodyIsNoThread DEF Exclusive, Moves, Place, Quiet
    <2>3. QED BY <2>1, <2>2
  <1>6. Phases' /\ FlagHasReason' /\ ReasonHasFlag'
    <2>1. CASE op[t].at \in {"reason", "active", "update"}
      BY <1>1, <2>1, <1>0
      DEF SafeInv, Moves, Place, Phases, FlagHasReason, ReasonHasFlag, Holder, Leaving
    <2>2. CASE op[t].at \in {"inactive", "none", "callback"}
      BY <1>1, <2>2, <1>0
      DEF SafeInv, Moves, Place, Phases, FlagHasReason, ReasonHasFlag, Holder, Leaving
    <2>3. CASE op[t].at = "unlock"
      BY <1>1, <2>3, <1>0
      DEF SafeInv, Moves, Place, Phases, FlagHasReason, ReasonHasFlag, Holder, Leaving
    <2>4. QED BY <2>1, <2>2, <2>3, <1>0 DEF Moves, Place
  <1>7. Told'
    <2>1. CASE op[t].at # "callback"
      <3>1. Knows' <=> Knows
        BY <1>1, <2>1, <1>0 DEF SafeInv, Moves, Place, Phases, Knows, Holder, Leaving
      <3>2. UNCHANGED <<told, safe_cb>> BY <2>1, <1>0 DEF Moves, Place
      <3>3. QED BY <3>1, <3>2 DEF SafeInv, Told
    <2>2. CASE op[t].at = "callback"
      <3>1. (Knows <=> Leaving) /\ (Knows' <=> ~ Leaving)
        BY <1>1, <2>2, <1>0 DEF SafeInv, Moves, Place, Phases, Knows, Holder, Leaving
      <3>2. safe_cb => told' = IF Leaving THEN told - 1 ELSE told + 1
        BY <1>1, <2>2, <1>0 DEF Moves, Place, Leaving
      <3>3. UNCHANGED safe_cb BY <2>2, <1>0 DEF Moves, Place
      <3>4. QED BY <3>1, <3>2, <3>3 DEF SafeInv, Told
    <2>3. QED BY <2>1, <2>2
  <1>8. Readers'
    <2> SUFFICES ASSUME NEW r \in Reader, reader'[r].at = "read"
                 PROVE  /\ InForce' \subseteq inForce'[r]
                        /\ Holder({"none"})' => safe_reason_val' \in inForce'[r]
      BY DEF Readers
    <2>1. inForce'[r] = inForce[r] \cup InForce \cup InForce' BY DEF Observe
    <2>2. ASSUME Holder({"none"})' PROVE safe_reason_val' \in inForce'[r]
      <3>1. op[t].at = "inactive" /\ safe_reason_val' = safe_reason_val
        BY <1>1, <2>2, <1>0 DEF Holder, Moves, Place
      <3>2. safe_active /\ safe_reason_val # None
        BY <1>1, <3>1 DEF SafeInv, Phases, FlagHasReason, Holder
      <3>3. QED BY <2>1, <3>1, <3>2 DEF InForce
    <2>3. QED BY <2>1, <2>2
  <1>9. QED BY <1>4, <1>5, <1>6, <1>7, <1>8 DEF SafeInv

\* The reads take no mutex and change neither atomic.
LEMMA SafeRead ==
  ASSUME SafeInv, NEW q \in Reader, ReadActive(q) \/ ReadReason(q), Observe
  PROVE  SafeInv'
  <1>1. UNCHANGED <<safe_initialized, safe_active, safe_reason_val, safe_mutex, safe_cb, op, told>>
    BY DEF ReadActive, ReadReason, atomics
  <1>2. SafeTypeOK'
    <2>1. inForce' \in [Reader -> SUBSET (Reason \cup {None})]
      BY <1>1, ObservedType DEF SafeInv, SafeTypeOK
    <2>2. reader' \in [Reader -> [at : {"idle", "read"}, ret : Reason \cup {None}]]
      BY DEF SafeInv, SafeTypeOK, ReadActive, ReadReason
    <2>3. QED BY <1>1, <2>1, <2>2 DEF SafeInv, SafeTypeOK
  <1>3. Exclusive' BY <1>1 DEF SafeInv, Exclusive
  <1>4. Phases' /\ FlagHasReason' /\ ReasonHasFlag' /\ Told'
    BY <1>1 DEF SafeInv, Phases, FlagHasReason, ReasonHasFlag, Told, Knows, Holder, Leaving
  <1>5. Readers'
    <2> SUFFICES ASSUME NEW r \in Reader, reader'[r].at = "read"
                 PROVE  /\ InForce' \subseteq inForce'[r]
                        /\ Holder({"none"})' => safe_reason_val' \in inForce'[r]
      BY DEF Readers
    <2>1. inForce'[r] = inForce[r] \cup InForce \cup InForce' BY DEF Observe
    <2>2. reader[r].at = "read" \/ safe_active
      BY DEF ReadActive, ReadReason, SafeInv, SafeTypeOK
    <2>3. ASSUME Holder({"none"})' PROVE safe_reason_val' \in inForce'[r]
      <3>1. Holder({"none"}) /\ ~ safe_active
        BY <1>1, <2>3 DEF Holder, SafeInv, Phases
      <3>2. safe_reason_val \in inForce[r] BY <2>2, <3>1 DEF SafeInv, Readers
      <3>3. QED BY <1>1, <2>1, <3>2
    <2>4. QED BY <2>1, <2>3
  <1>6. QED BY <1>2, <1>3, <1>4, <1>5 DEF SafeInv

LEMMA SafeRegister ==
  ASSUME SafeInv, NEW cb \in BOOLEAN, ceell_safe_state_register_cb(cb), Observe
  PROVE  SafeInv'
  <1>1. UNCHANGED <<safe_initialized, safe_active, safe_reason_val, safe_mutex, op, reader>> /\ safe_mutex = Nobody
    BY DEF ceell_safe_state_register_cb, atomics
  <1>2. safe_cb' = cb /\ told' = IF safe_active THEN 1 ELSE 0
    BY DEF ceell_safe_state_register_cb
  <1>3. SafeTypeOK'
    <2>1. inForce' \in [Reader -> SUBSET (Reason \cup {None})]
      BY <1>1, ObservedType DEF SafeInv, SafeTypeOK
    <2>2. QED BY <1>1, <1>2, <2>1 DEF SafeInv, SafeTypeOK
  <1>4. Exclusive' BY <1>1 DEF SafeInv, Exclusive
  <1>5. Phases' /\ FlagHasReason' /\ ReasonHasFlag'
    BY <1>1 DEF SafeInv, Phases, FlagHasReason, ReasonHasFlag, Holder, Leaving
  <1>6. Told'
    <2>1. Knows' <=> safe_active BY <1>1 DEF Knows, Holder
    <2>2. QED BY <1>2, <2>1 DEF Told
  <1>7. Readers' BY <1>1 DEF SafeInv, Readers, Observe, Holder
  <1>8. QED BY <1>3, <1>4, <1>5, <1>6, <1>7 DEF SafeInv

LEMMA SafeStays == SafeInv /\ UNCHANGED safeVars => SafeInv'
  BY DEF safeVars, atomics, SafeInv, SafeTypeOK, Exclusive, Phases, FlagHasReason, ReasonHasFlag,
         Told, Knows, Readers, Holder, Leaving, InForce

\* Every step of the program is one of these.
LEMMA SafeNext == SafeInv /\ [Next]_vars => SafeInv'
  <1> SUFFICES ASSUME SafeInv, [Next]_vars PROVE SafeInv'
    OBVIOUS
  <1>1. CASE UNCHANGED safeVars BY <1>1, SafeStays
  <1>2. CASE HealthChange
    <2>1. Loop \in Thread /\ PeerLost \in Reason BY TwoThreads
    <2>2. QED BY <1>2, <2>1, SafeLock, SafeReturn DEF HealthChange
  <1>3. CASE Alarm
    <2>1. Wdt \in Thread /\ CommFailure \in Reason BY TwoThreads
    <2>2. QED BY <1>3, <2>1, SafeLock, SafeReturn DEF Alarm
  <1>4. CASE SafeStateStep BY <1>4, SafeInside, SafeRead, SafeRegister DEF SafeStateStep
  <1>5. QED
    BY <1>1, <1>2, <1>3, <1>4
    DEF Next, vars, ceell_watchdog_init, ceell_watchdog_feed, Hang, ReadNow, Compare, Alarmed, WakeUp, Tick

\* What holds of flag, reason and mutex between any two steps of trigger, clear and the
\* readers.
THEOREM SafeInvariant == Spec => []SafeInv
  <1>1. Init => SafeInv BY SafeStart DEF Init
  <1>2. QED BY <1>1, SafeNext, PTL DEF Spec

\* A callback that is registered always knows whether the state is active, whatever
\* the threads that enter and leave it.
THEOREM CallbackAlwaysKnows == Spec => []CallbackKnows
  <1>1. SafeInv => CallbackKnows BY DEF SafeInv, Told, Knows, Holder, CallbackKnows
  <1>2. QED BY <1>1, SafeInvariant, PTL

\* The reason a reader is given was in force during its call, or is about to be.
THEOREM ReasonsInForce == Spec => ReasonInForce
  <1> DEFINE Good == \A r \in Reader :
        reader[r].at = "read" /\ reader'[r].at = "idle" => reader'[r].ret \in inForce[r] \cup Arriving
  <1>1. SafeInv /\ [Next]_vars => [Good]_safeVars
    <2> SUFFICES ASSUME SafeInv, [Next]_vars, NEW r \in Reader,
                        reader[r].at = "read", reader'[r].at = "idle"
                 PROVE  reader'[r].ret \in inForce[r] \cup Arriving
      OBVIOUS
    <2>1. reader'[r].ret = safe_reason_val
      <3>1. reader' # reader OBVIOUS
      <3>2. PICK q \in Reader : ReadActive(q) \/ ReadReason(q)
        BY <3>1 DEF Next, vars, safeVars, SafeStateStep, Inside, Trigger, Clear, Callback, Unlock,
          ceell_safe_state_register_cb, HealthChange, Alarm, ceell_safe_state_trigger, ceell_safe_state_clear,
          Lock, NotInitialized, ceell_watchdog_init, ceell_watchdog_feed, Hang, ReadNow, Compare, Alarmed, WakeUp, Tick
      <3>3. reader \in [Reader -> [at : {"idle", "read"}, ret : Reason \cup {None}]]
        BY DEF SafeInv, SafeTypeOK
      <3>4. QED BY <3>2, <3>3 DEF ReadActive, ReadReason
    <2>2. CASE safe_active
      BY <2>1, <2>2 DEF SafeInv, FlagHasReason, Readers, InForce
    <2>3. CASE ~ safe_active /\ safe_reason_val = None
      BY <2>1, <2>3 DEF SafeInv, Readers, InForce
    <2>4. CASE ~ safe_active /\ safe_reason_val # None
      <3>1. Holder({"active", "none"}) BY <2>4 DEF SafeInv, ReasonHasFlag
      <3>2. CASE Holder({"none"}) BY <2>1, <3>2 DEF SafeInv, Readers
      <3>3. CASE Holder({"active"})
        <4>1. safe_mutex \in Thread BY <3>3 DEF SafeInv, SafeTypeOK, Holder
        <4>2. safe_reason_val = op[safe_mutex].reason /\ op[safe_mutex].at = "active"
          BY <3>3 DEF SafeInv, Phases, Holder
        <4>3. QED BY <2>1, <4>1, <4>2 DEF Arriving
      <3>4. QED BY <3>1, <3>2, <3>3 DEF Holder
    <2>5. QED BY <2>2, <2>3, <2>4
  <1>2. QED BY <1>1, SafeInvariant, PTL DEF Spec, ReasonInForce

(***************************************************************************)
(* The watchdog.                                                           *)
(***************************************************************************)

\* The atomic holds a number of its width.
LEMMA NarrowType == ASSUME NEW t \in Nat PROVE Narrow(t) \in -Half..(Half - 1)
  <1>1. Half \in Nat \ {0} BY WatchdogNats
  <1> DEFINE H == Half
  <1> DEFINE m == (t + H) % (2 * H)
  <1>2. 2 * H \in Nat \ {0} /\ t + H \in Int BY <1>1
  <1>3. \A d \in Nat \ {0}, n \in Int : n % d \in 0..(d - 1) BY SMT
  <1>4. m \in 0..(2 * H - 1) BY <1>2, <1>3
  <1> HIDE DEF m
  <1>5. m - H \in -H..(H - 1) BY <1>1, <1>4
  <1>6. QED BY <1>5 DEF Narrow, m

\* Narrowing an uptime that fits changes nothing.
LEMMA NarrowFits == ASSUME NEW t \in Nat, t < Half PROVE Narrow(t) = t
  <1>1. Half \in Nat \ {0} BY WatchdogNats
  <1>2. t + Half \in 0..(2 * Half - 1) /\ 2 * Half \in Nat \ {0} BY <1>1
  <1>3. \A d \in Nat \ {0}, n \in Int : n \in 0..(d - 1) => n % d = n BY SMT
  <1>4. (t + Half) % (2 * Half) = t + Half BY <1>1, <1>2, <1>3
  <1>5. QED BY <1>1, <1>4 DEF Narrow

LEMMA WdtTypes == WdtTypeOK /\ [Next]_vars => WdtTypeOK'
  <1> SUFFICES ASSUME WdtTypeOK, [Next]_vars PROVE WdtTypeOK'
    OBVIOUS
  <1> USE WatchdogNats DEF WdtTypeOK
  <1>1. CASE UNCHANGED wdtVars BY <1>1 DEF wdtVars, wdt, thr, hist
  <1>2. CASE ceell_watchdog_init
    <2>1. wdt_last_feed' \in -Half..(Half - 1) BY <1>2, NarrowType DEF ceell_watchdog_init
    <2>2. wdt_enabled' \in BOOLEAN /\ hung' \in BOOLEAN /\ late' \in BOOLEAN
      BY <1>2, Zenon DEF ceell_watchdog_init
    <2>3. QED BY <1>2, <2>1, <2>2 DEF ceell_watchdog_init
  <1>3. CASE ceell_watchdog_feed
    <2>1. wdt_last_feed' \in -Half..(Half - 1) BY <1>3, NarrowType DEF ceell_watchdog_feed
    <2>2. wdt_enabled' \in BOOLEAN /\ hung' \in BOOLEAN /\ late' \in BOOLEAN
      BY <1>3, Zenon DEF ceell_watchdog_feed
    <2>3. QED BY <1>3, <2>1, <2>2 DEF ceell_watchdog_feed, thr
  <1>4. CASE Hang BY <1>4 DEF Hang, wdt, thr
  <1>5. CASE ReadNow BY <1>5 DEF ReadNow, wdt, hist
  <1>6. CASE Compare \/ Alarmed BY <1>6 DEF Compare, Alarmed, Sleep, wdt, hist
  <1>7. CASE Alarm \/ WakeUp BY <1>7 DEF Alarm, WakeUp, wdt, hist
  <1>8. CASE Tick BY <1>8 DEF Tick, wdt, thr, hist
  <1>9. QED BY <1>1, <1>2, <1>4, <1>5, <1>6, <1>7, <1>8, <1>3 DEF Next, vars, HealthChange, SafeStateStep

\* The variables stay in their types.
THEOREM TypeCorrect == Spec => []TypeOK
  <1>1. Init => WdtTypeOK
    <2> SUFFICES ASSUME Init PROVE WdtTypeOK
      OBVIOUS
    <2>1. wdt_enabled \in BOOLEAN /\ hung \in BOOLEAN /\ late \in BOOLEAN BY Zenon DEF Init
    <2>2. QED BY <2>1, WatchdogNats DEF Init, WdtTypeOK
  <1>2. SafeInv => SafeTypeOK BY DEF SafeInv
  <1>3. QED BY <1>1, <1>2, SafeInvariant, WdtTypes, PTL DEF Spec, TypeOK

\* While the uptime fits the atomic, it holds the time of the last feed.
FeedKept == now <= MaxTime /\ (wdt_enabled => wdt_last_feed = fedAt)

\* Which thread does what.
Roles ==
  /\ pc = "none" <=> ~ wdt_enabled
  /\ hung => op[Loop] = Quiet \/ op[Loop].at = "callback"
  /\ op[Loop].reason \in {PeerLost, None}
  /\ op[Wdt] # Quiet => pc = "triggering" /\ op[Wdt].reason = CommFailure
  /\ op[Wdt].at \notin {"inactive", "none"}

Raised == pc \in {"alarm", "triggering"} \/ safe_reason_val = CommFailure

\* The thread is never more than Lag behind unless it waits for a mutex for ever, and
\* an alarm has its cause.
Punctual ==
  /\ pc # "none" /\ ~ Blocked => now <= due + Lag
  /\ pc = "read" => due <= now
  /\ pc \in {"compare", "alarm", "triggering"} => due <= seen
  /\ Raised => wdt_enabled /\ (late \/ now - fedAt > Timeout)

\* Once the loop hangs, unless it does in the callback of a clear, the thread has
\* triggered the safe state, is about to, or has a check left before the deadline.
Deadline == hungAt + Timeout + Period + Lag
Watched ==
  hung /\ wdt_enabled =>
    /\ fedAt <= hungAt
    /\ safe_initialized /\ ~ HungLeaving /\ ~ safe_active =>
         /\ due <= Deadline
         /\ pc = "triggering" => op[Wdt].at \in {"reason", "active"} \/ seen <= hungAt

WdtInv == SafeInv /\ WdtTypeOK /\ FeedKept /\ Roles /\ Punctual /\ Watched

LEMMA Threads ==
  /\ Loop \in Thread /\ Wdt \in Thread /\ Loop # Wdt
  /\ PeerLost # CommFailure /\ PeerLost \in Reason /\ CommFailure \in Reason
  /\ None # CommFailure /\ None # PeerLost
  BY TwoThreads, NoneIsNoReason DEF Loop, Wdt, PeerLost, CommFailure

LEMMA WdtStart == ASSUME Timeout <= MaxTime PROVE Init => WdtInv
  <1> SUFFICES ASSUME Init PROVE WdtInv
    OBVIOUS
  <1>1. SafeInv BY SafeStart DEF Init
  <1>2. WdtTypeOK
    <2>1. wdt_enabled \in BOOLEAN /\ hung \in BOOLEAN /\ late \in BOOLEAN BY Zenon DEF Init
    <2>2. QED BY <2>1, WatchdogNats DEF Init, WdtTypeOK
  <1>3. FeedKept BY WatchdogNats DEF Init, FeedKept
  <1>4. op[Loop] = Quiet /\ op[Wdt] = Quiet BY Threads DEF Init, SafeInit
  <1>5. Roles BY <1>4, Threads DEF Init, Roles, Quiet
  <1>6. Punctual BY Threads DEF Init, SafeInit, Punctual, Raised
  <1>7. Watched BY DEF Init, Watched
  <1>8. QED BY <1>1, <1>2, <1>3, <1>5, <1>6, <1>7 DEF WdtInv

\* The steps of the loop and of the thread that leave the safe state manager alone.
LEMMA WdtQuietStep ==
  ASSUME WdtInv, MaxTime < Half, UNCHANGED safeVars,
         \/ UNCHANGED wdtVars \/ ceell_watchdog_init \/ ceell_watchdog_feed \/ Hang
         \/ ReadNow \/ Compare \/ Alarmed \/ WakeUp \/ Tick
  PROVE  FeedKept' /\ Roles' /\ Punctual' /\ Watched'
  <1>1. UNCHANGED <<safe_initialized, safe_active, safe_reason_val, safe_mutex, op>> BY DEF safeVars, atomics
  <1>2. FeedKept'
    <2>1. now <= MaxTime /\ now \in Nat BY DEF WdtInv, FeedKept, WdtTypeOK
    <2>2. Narrow(now) = now BY <2>1, NarrowFits, WatchdogNats
    <2>3. QED
      BY <2>1, <2>2, WatchdogNats
      DEF WdtInv, FeedKept, Roles, wdtVars, wdt, thr, hist, ceell_watchdog_init, ceell_watchdog_feed, Hang, ReadNow,
          Compare, Alarmed, WakeUp, Tick
  <1>3. Roles'
    BY <1>1
    DEF WdtInv, Roles, wdtVars, wdt, thr, hist, ceell_watchdog_init, ceell_watchdog_feed, LoopRuns, Hang, ReadNow,
        Compare, Alarmed, Sleep, WakeUp, Tick
  <1> DEFINE Behind == pc # "none" /\ ~ Blocked => now <= due + Lag
  <1> DEFINE Awake == pc = "read" => due <= now
  <1> DEFINE Read == pc \in {"compare", "alarm", "triggering"} => due <= seen
  <1> DEFINE Cause == Raised => wdt_enabled /\ (late \/ now - fedAt > Timeout)
  <1>4. /\ Behind /\ Awake /\ Read /\ Cause /\ Roles /\ FeedKept /\ Watched /\ WdtTypeOK
        /\ Timeout \in Nat /\ Period \in Nat /\ Lag \in Nat /\ MaxTime \in Nat
    BY WatchdogNats DEF WdtInv, Punctual
  <1>5. Behind'
    <2>1. CASE Blocked
      BY <1>1, <1>4, <2>1 DEF Blocked, Roles, wdtVars, wdt, thr, hist, ceell_watchdog_init, ceell_watchdog_feed,
          LoopRuns, Hang, ReadNow, Compare, Alarmed, WakeUp, Tick
    <2>2. CASE ~ Blocked
      BY <1>4, <2>2 DEF WdtTypeOK, wdtVars, wdt, thr, hist, ceell_watchdog_init, ceell_watchdog_feed, Hang, ReadNow,
          Compare, Alarmed, Sleep, WakeUp, Tick
    <2>3. QED BY <2>1, <2>2
  <1>6. Awake' /\ Read'
    BY <1>4 DEF WdtTypeOK, wdtVars, wdt, thr, hist, ceell_watchdog_init, ceell_watchdog_feed, Hang, ReadNow,
        Compare, Alarmed, Sleep, WakeUp, Tick
  <1>7. Cause'
    <2> SUFFICES ASSUME Raised' PROVE wdt_enabled' /\ (late' \/ now' - fedAt' > Timeout)
      OBVIOUS
    <2>1. CASE ceell_watchdog_init
      <3>1. ~ Raised BY <2>1, <1>4 DEF ceell_watchdog_init
      <3>2. QED BY <1>1, <2>1, <3>1 DEF ceell_watchdog_init, Raised
    <2>2. CASE ceell_watchdog_feed
      <3>1. Raised BY <1>1, <2>2 DEF ceell_watchdog_feed, thr, Raised
      <3>2. late \/ now - fedAt > Timeout BY <1>4, <3>1
      <3>3. late' BY <2>2, <3>2 DEF ceell_watchdog_feed
      <3>4. QED BY <2>2, <3>3 DEF ceell_watchdog_feed
    <2>3. CASE Compare /\ Expired
      <3>1. UNCHANGED <<now, fedAt, wdt_enabled, late>> BY <2>3 DEF Compare, wdt, hist
      <3>2. wdt_enabled BY <2>3, <1>4 DEF Compare, Roles
      <3>3. now - fedAt > Timeout BY <2>3, <1>4, <3>2 DEF Expired, FeedKept, WdtTypeOK
      <3>4. QED BY <3>1, <3>2, <3>3
    <2>4. CASE Tick
      <3>1. Raised /\ UNCHANGED <<fedAt, wdt_enabled, late>> /\ now' = now + 1
        BY <1>1, <2>4 DEF Tick, thr, wdt, hist, Raised
      <3>2. now \in Int /\ fedAt \in Int BY <1>4 DEF WdtTypeOK
      <3>3. CASE late BY <1>4, <3>1, <3>3
      <3>4. CASE ~ late BY <1>4, <3>1, <3>2, <3>4
      <3>5. QED BY <3>3, <3>4
    <2>5. CASE ~ (ceell_watchdog_init \/ ceell_watchdog_feed \/ (Compare /\ Expired) \/ Tick)
      <3>1. Raised
        BY <1>1, <2>5 DEF wdtVars, thr, Hang, ReadNow, Compare, Sleep, Alarmed, WakeUp, Raised
      <3>2. UNCHANGED <<now, fedAt, wdt_enabled, late>>
        BY <2>5 DEF wdtVars, wdt, hist, Hang, ReadNow, Compare, Alarmed, WakeUp
      <3>3. QED BY <1>4, <3>1, <3>2
    <2>6. QED BY <2>1, <2>2, <2>3, <2>4, <2>5
  <1>8. Watched'
    <2> SUFFICES ASSUME hung', wdt_enabled'
                 PROVE  /\ fedAt' <= hungAt'
                        /\ safe_initialized' /\ ~ HungLeaving' /\ ~ safe_active' =>
                             /\ due' <= Deadline'
                             /\ pc' = "triggering" => op'[Wdt].at \in {"reason", "active"} \/ seen' <= hungAt'
      BY DEF Watched
    <2>1. CASE Hang
      <3>1. UNCHANGED <<fedAt, due, seen>> /\ hungAt' = now BY <2>1 DEF Hang, thr
      <3>2. fedAt <= now /\ seen <= now /\ due <= now + Period BY <1>4 DEF WdtTypeOK
      <3>3. QED BY <1>4, <3>1, <3>2 DEF Deadline, WdtTypeOK
    <2>2. CASE ~ Hang
      <3>1. hung /\ wdt_enabled /\ UNCHANGED <<hungAt, fedAt>>
        BY <2>2 DEF wdtVars, wdt, hist, ceell_watchdog_init, ceell_watchdog_feed, LoopRuns, ReadNow, Compare, Alarmed,
            WakeUp, Tick
      <3>2. fedAt <= hungAt /\ wdt_last_feed = fedAt BY <1>4, <3>1 DEF Watched, FeedKept
      <3> SUFFICES ASSUME safe_initialized, ~ HungLeaving, ~ safe_active
                   PROVE  /\ due' <= Deadline
                          /\ pc' = "triggering" => op[Wdt].at \in {"reason", "active"} \/ seen' <= hungAt
        BY <1>1, <3>1, <3>2 DEF Deadline, HungLeaving
      <3>3. due <= Deadline /\ (pc = "triggering" => op[Wdt].at \in {"reason", "active"} \/ seen <= hungAt)
        BY <1>4, <3>1 DEF Watched
      <3>4. CASE Compare /\ ~ Expired
        <4>1. seen <= hungAt + Timeout BY <1>4, <3>2, <3>4 DEF Expired, WdtTypeOK
        <4>2. due' = now + Period /\ pc' = "sleep" /\ now <= due + Lag /\ due <= seen
          BY <1>4, <3>4 DEF Compare, Sleep, Blocked
        <4>3. QED BY <1>4, <4>1, <4>2 DEF Deadline, WdtTypeOK
      <3>5. CASE Alarmed
        <4>1. seen <= hungAt BY <3>3, <3>5 DEF Alarmed, Quiet
        <4>2. due' = now + Period /\ pc' = "sleep" /\ now <= due + Lag /\ due <= seen
          BY <1>4, <3>5 DEF Alarmed, Sleep, Blocked
        <4>3. QED BY <1>4, <4>1, <4>2 DEF Deadline, WdtTypeOK
      <3>6. CASE ~ (Compare /\ ~ Expired) /\ ~ Alarmed
        <4>1. UNCHANGED due /\ (pc' = "triggering" => pc = "triggering" /\ seen' = seen)
          BY <2>2, <3>1, <3>6 DEF wdtVars, thr, ceell_watchdog_init, ceell_watchdog_feed, LoopRuns, ReadNow, Compare,
              WakeUp, Tick
        <4>2. QED BY <3>3, <4>1
      <3>7. QED BY <3>4, <3>5, <3>6
    <2>3. QED BY <2>1, <2>2
  <1>9. QED BY <1>2, <1>3, <1>5, <1>6, <1>7, <1>8 DEF Punctual

\* The steps of a thread inside the safe state manager, and of its readers.
LEMMA WdtSafeStep ==
  ASSUME WdtInv, SafeStateStep
  PROVE  FeedKept' /\ Roles' /\ Punctual' /\ Watched'
  <1>1. UNCHANGED <<now, wdt_enabled, wdt_last_feed, pc, seen, due, hung, fedAt, hungAt, late>>
    BY DEF SafeStateStep, wdtVars, wdt, thr, hist
  <1>2. /\ SafeInv /\ FeedKept /\ Roles /\ Punctual /\ Watched
    BY DEF WdtInv
  <1>3. CASE UNCHANGED <<safe_initialized, safe_active, safe_reason_val, safe_mutex, op>>
    BY <1>1, <1>2, <1>3
    DEF FeedKept, Roles, Punctual, Blocked, Raised, Watched, HungLeaving, Deadline
  <1>4. ASSUME NEW t \in Thread, Inside(t), ~ (hung /\ t = Loop) PROVE Roles' /\ Punctual' /\ Watched'
    <2>1. Moves(t) /\ safe_mutex = t BY <1>2, <1>4, HolderStep, HolderMoves
    <2>2. op[t] \in Call /\ op' \in [Thread -> Call]
          /\ \A u \in Thread \ {t} : op[u] = Quiet /\ op'[u] = Quiet
      <3>1. op \in [Thread -> Call] BY <1>2, <1>4, HolderMoves
      <3>2. op' = [op EXCEPT ![t] = op'[t]] /\ op'[t] \in Call
        BY <3>1, <1>4 DEF Inside, Trigger, Clear, Callback, Unlock, Goto, Call, Quiet
      <3>3. QED BY <1>2, <1>4, <3>1, <3>2, HolderMoves
    <2>3. t = Loop \/ t = Wdt BY TwoThreads
    <2>4. Roles'
      BY <1>1, <1>2, <1>4, <2>1, <2>2, <2>3, Threads DEF Roles, Moves, Place, Quiet
    <2>5. \/ op[t].at \in {"reason", "update"} /\ safe_reason_val' = op[t].reason
          \/ safe_reason_val' \in {safe_reason_val, None}
      BY <2>1 DEF Moves, Place
    <2>6. Punctual'
      <3>1. Raised' => Raised
        BY <1>1, <1>2, <2>3, <2>5, Threads DEF Raised, Roles, Quiet
      <3>2. ~ Blocked BY <1>4, <2>1 DEF Blocked
      <3>3. QED BY <1>1, <1>2, <3>1, <3>2 DEF Punctual
    <2>7. Watched'
      <3>1. ASSUME hung PROVE t = Wdt /\ op'[Loop] = op[Loop] /\ UNCHANGED safe_initialized
        BY <1>2, <1>4, <2>2, <2>3, <3>1, Threads, HolderMoves
      <3>2. ASSUME t = Wdt
            PROVE  /\ safe_active => safe_active'
                   /\ ~ safe_active' /\ op[Wdt].at \in {"reason", "active"} => op'[Wdt].at \in {"reason", "active"}
        BY <1>2, <2>1, <3>2 DEF Roles, Moves, Place
      <3>3. QED BY <1>1, <1>2, <3>1, <3>2 DEF Watched, HungLeaving, Deadline
    <2>8. QED BY <2>4, <2>6, <2>7
  <1>5. ASSUME \/ \E r \in Reader : ReadActive(r) \/ ReadReason(r)
               \/ \E cb \in BOOLEAN : ceell_safe_state_register_cb(cb)
        PROVE  UNCHANGED <<safe_initialized, safe_active, safe_reason_val, safe_mutex, op>>
    BY <1>5 DEF ReadActive, ReadReason, ceell_safe_state_register_cb, atomics
  <1>6. QED BY <1>1, <1>2, <1>3, <1>4, <1>5 DEF SafeStateStep, FeedKept

\* The calls into it.
LEMMA WdtCall ==
  ASSUME WdtInv, HealthChange \/ Alarm
  PROVE  FeedKept' /\ Roles' /\ Punctual' /\ Watched'
  <1>1. UNCHANGED <<now, wdt_enabled, wdt_last_feed, seen, due, hung, fedAt, hungAt, late, safe_initialized, safe_active,
                    safe_reason_val>>
    BY DEF HealthChange, Alarm, ceell_safe_state_trigger, ceell_safe_state_clear, Lock, NotInitialized,
        wdtVars, wdt, thr, hist, atomics
  <1>2. SafeInv /\ FeedKept /\ Roles /\ Punctual /\ Watched /\ op \in [Thread -> Call]
    BY DEF WdtInv, SafeInv, SafeTypeOK
  <1>3. FeedKept' BY <1>1, <1>2 DEF FeedKept
  <1>4. CASE HealthChange
    <2>1. UNCHANGED pc /\ ~ hung BY <1>4 DEF HealthChange, LoopRuns, wdtVars, thr
    <2>2. op'[Wdt] = op[Wdt] /\ op'[Loop].reason \in {PeerLost, None}
      BY <1>2, <1>4, Threads
      DEF HealthChange, ceell_safe_state_trigger, ceell_safe_state_clear, Lock, NotInitialized, Roles
    <2>3. QED BY <1>1, <1>2, <1>3, <2>1, <2>2 DEF Roles, Punctual, Blocked, Raised, Watched
  <1>5. CASE Alarm
    <2>1. pc = "alarm" /\ pc' = "triggering" /\ op[Wdt] = Quiet BY <1>5 DEF Alarm
    <2>2. /\ op'[Loop] = op[Loop] /\ ~ Blocked
          /\ \/ ~ safe_initialized /\ op'[Wdt] = op[Wdt]
             \/ /\ op'[Wdt].reason = CommFailure
                /\ op'[Wdt].at = IF safe_active THEN "update" ELSE "reason"
      BY <1>2, <1>5, Threads, TwoThreads, NobodyIsNoThread
      DEF Alarm, ceell_safe_state_trigger, Lock, NotInitialized, Blocked
    <2>3. Roles' BY <1>1, <1>2, <2>1, <2>2 DEF Roles, Quiet
    <2>4. Punctual' BY <1>1, <1>2, <2>1, <2>2 DEF Punctual, Raised
    <2>5. Watched' BY <1>1, <1>2, <2>1, <2>2 DEF Watched, HungLeaving, Deadline
    <2>6. QED BY <1>3, <2>3, <2>4, <2>5
  <1>6. QED BY <1>4, <1>5

LEMMA WdtNext == ASSUME MaxTime < Half PROVE WdtInv /\ [Next]_vars => WdtInv'
  <1> SUFFICES ASSUME WdtInv, [Next]_vars PROVE WdtInv'
    OBVIOUS
  <1>1. SafeInv' BY SafeNext DEF WdtInv
  <1>2. WdtTypeOK' BY WdtTypes DEF WdtInv
  <1>3. CASE HealthChange \/ Alarm BY <1>1, <1>2, <1>3, WdtCall DEF WdtInv
  <1>4. CASE SafeStateStep BY <1>1, <1>2, <1>4, WdtSafeStep DEF WdtInv
  <1>5. CASE ~ (HealthChange \/ Alarm \/ SafeStateStep)
    <2>1. UNCHANGED safeVars
      BY <1>5 DEF Next, vars, ceell_watchdog_init, ceell_watchdog_feed, Hang, ReadNow, Compare, Alarmed, WakeUp, Tick
    <2>2. QED BY <1>1, <1>2, <1>5, <2>1, WdtQuietStep DEF WdtInv, Next, vars
  <1>6. QED BY <1>3, <1>4, <1>5

LEMMA WdtInvariant == ASSUME Timeout <= MaxTime, MaxTime < Half PROVE Spec => []WdtInv
  <1>1. QED BY WdtStart, WdtNext, PTL DEF Spec

\* As long as the uptime fits the atomic, the watchdog enters the safe state only after
\* the loop was late, whatever the loop and the thread do between each other's reads.
THEOREM NoAlarmWithoutCause ==
  ASSUME Timeout <= MaxTime, MaxTime < Half PROVE Spec => []NoFalseAlarm
  <1>1. WdtInv => NoFalseAlarm BY DEF WdtInv, Punctual, Raised, NoFalseAlarm, Alarming
  <1>2. QED BY <1>1, WdtInvariant, PTL

\* As long as the uptime fits the atomic and the manager is initialized, a loop that
\* hangs has the node in the safe state after the timeout, one period and two delays,
\* whether it hangs between its calls of the manager or inside the callback of a
\* trigger; not if it hangs in the callback of a clear, see HungLeaving.
THEOREM HangsAreDetected ==
  ASSUME Timeout <= MaxTime, MaxTime < Half PROVE Spec => []HangDetected
  <1>1. WdtInv => HangDetected
    <2> SUFFICES ASSUME WdtInv, wdt_enabled, safe_initialized, hung, ~ HungLeaving,
                        now - hungAt > Timeout + Period + 2 * Lag, ~ safe_active
                 PROVE  FALSE
      BY DEF HangDetected
    <2>0. ~ Blocked
      <3> SUFFICES ASSUME Blocked PROVE FALSE
        OBVIOUS
      <3>1. safe_mutex = Loop /\ Loop # Nobody /\ op[Loop].at = "callback"
        BY Threads, NobodyIsNoThread DEF WdtInv, SafeInv, Exclusive, Roles, Blocked, Quiet
      <3>2. op[Loop].reason # None BY <3>1 DEF HungLeaving
      <3>3. QED BY <3>1, <3>2 DEF WdtInv, SafeInv, Phases, Holder, Leaving
    <2>1. due <= Deadline /\ now <= due + Lag BY <2>0 DEF WdtInv, Watched, Punctual, Roles
    <2>2. QED BY <2>1, WatchdogNats DEF Deadline, WdtInv, WdtTypeOK
  <1>2. QED BY <1>1, WdtInvariant, PTL

=============================================================================
