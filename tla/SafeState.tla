----------------------------- MODULE SafeState -----------------------------
(***************************************************************************)
(* ceell/core/safe_state.c: the active flag and the reason are two atomics *)
(* that trigger and clear write one after the other under safe_mutex, and  *)
(* that readers read one after the other without it.                       *)
(***************************************************************************)
EXTENDS Integers

CONSTANTS
  Thread,  \* the threads that trigger and clear
  Reader,  \* the threads that ask for the reason
  Reason   \* enum ceell_safe_reason without NONE

None   == "NONE"
Nobody == "nobody"
ASSUME NoneIsNoReason   == None \notin Reason
ASSUME NobodyIsNoThread == Nobody \notin Thread

VARIABLES
  safe_initialized,  \* ceell_safe_state_init has worked; main goes on if it has not
  safe_active,
  safe_reason_val,
  safe_mutex,  \* the thread that holds it
  safe_cb,     \* a callback is registered
  op,          \* [Thread -> where it is in trigger or clear, and the reason]
  reader,      \* [Reader -> where it is in ceell_safe_state_reason, what it returned]
  told,        \* history: what the callback knows, see Callback
  inForce      \* history: [Reader -> the reasons in force since its call began]

atomics  == <<safe_active, safe_reason_val>>
safeVars == <<safe_initialized, atomics, safe_mutex, safe_cb, op, reader, told, inForce>>

Quiet == [at |-> "idle", reason |-> None]

\* What is in force: NONE when the state is not active, or the reason it was entered
\* for; nothing while the flag is set without a reason.
InForce == IF safe_active THEN {safe_reason_val} \ {None} ELSE {None}

SafeInit ==
  /\ safe_initialized \in BOOLEAN
  /\ safe_active = FALSE /\ safe_reason_val = None
  /\ safe_mutex = Nobody /\ safe_cb = FALSE
  /\ op = [t \in Thread |-> Quiet]
  /\ reader = [r \in Reader |-> [at |-> "idle", ret |-> None]]
  /\ told = 0
  /\ inForce = [r \in Reader |-> {}]

Lock(t, step, reason) ==
  /\ safe_mutex = Nobody
  /\ safe_mutex' = t
  /\ op' = [op EXCEPT ![t] = [at |-> step, reason |-> reason]]
  /\ UNCHANGED <<atomics, safe_cb, reader, told, safe_initialized>>

Goto(t, step) == op' = [op EXCEPT ![t].at = step]

\* The early return of every call of a manager that is not initialized.
NotInitialized ==
  ~ safe_initialized /\ UNCHANGED <<atomics, safe_mutex, safe_cb, op, reader, told, safe_initialized>>

\* Mutant: no test whether the safe state is active already.
ceell_safe_state_trigger_again(t, reason) ==
  (safe_initialized /\ Lock(t, "reason", reason)) \/ NotInitialized

\* When it is active already only the reason is updated; the callback is not called.
ceell_safe_state_trigger(t, reason) ==
  \/ safe_initialized /\ Lock(t, IF safe_active THEN "update" ELSE "reason", reason)
  \/ NotInitialized

\* Nothing is done when the safe state is not active.
ceell_safe_state_clear(t) ==
  \/ safe_initialized /\ safe_active /\ Lock(t, "inactive", None)
  \/ NotInitialized

\* Mutant: trigger sets the flag, then the reason.
Trigger_flagFirst(t) ==
  /\ \/ op[t].at = "reason" /\ safe_active' = TRUE /\ Goto(t, "active") /\ UNCHANGED safe_reason_val
     \/ op[t].at = "active" /\ safe_reason_val' = op[t].reason /\ Goto(t, "callback") /\ UNCHANGED safe_active
     \/ op[t].at = "update" /\ safe_reason_val' = op[t].reason /\ Goto(t, "unlock") /\ UNCHANGED safe_active
  /\ UNCHANGED <<safe_mutex, safe_cb, reader, told, safe_initialized>>

\* trigger, under the mutex: the reason, then the flag.
Trigger(t) ==
  /\ \/ op[t].at = "reason" /\ safe_reason_val' = op[t].reason /\ Goto(t, "active") /\ UNCHANGED safe_active
     \/ op[t].at = "active" /\ safe_active' = TRUE /\ Goto(t, "callback") /\ UNCHANGED safe_reason_val
     \/ op[t].at = "update" /\ safe_reason_val' = op[t].reason /\ Goto(t, "unlock") /\ UNCHANGED safe_active
  /\ UNCHANGED <<safe_mutex, safe_cb, reader, told, safe_initialized>>

\* clear, under the mutex: the flag, then the reason.
Clear(t) ==
  /\ \/ op[t].at = "inactive" /\ safe_active' = FALSE /\ Goto(t, "none") /\ UNCHANGED safe_reason_val
     \/ op[t].at = "none" /\ safe_reason_val' = None /\ Goto(t, "callback") /\ UNCHANGED safe_active
  /\ UNCHANGED <<safe_mutex, safe_cb, reader, told, safe_initialized>>

\* The callback learns of an entry (+1) or of an exit (-1), under the mutex; `told`
\* counts from the state the callback was registered in.
Callback(t) ==
  /\ op[t].at = "callback"
  /\ told' = IF safe_cb THEN told + (IF op[t].reason = None THEN -1 ELSE 1) ELSE told
  /\ Goto(t, "unlock")
  /\ UNCHANGED <<atomics, safe_mutex, safe_cb, reader, safe_initialized>>

Unlock(t) ==
  /\ op[t].at = "unlock"
  /\ safe_mutex' = Nobody
  /\ op' = [op EXCEPT ![t] = Quiet]
  /\ UNCHANGED <<atomics, safe_cb, reader, told, safe_initialized>>

ceell_safe_state_register_cb(cb) ==
  /\ safe_initialized /\ safe_mutex = Nobody
  /\ safe_cb' = cb
  /\ told' = IF safe_active THEN 1 ELSE 0
  /\ UNCHANGED <<atomics, safe_mutex, op, reader, safe_initialized>>

\* ceell_safe_state_reason reads the flag, then, if it is set, the reason.
ReadActive(r) ==
  /\ reader[r].at = "idle"
  /\ reader' = [reader EXCEPT ![r] = IF safe_active THEN [at |-> "read", ret |-> None]
                                     ELSE [at |-> "idle", ret |-> None]]
  /\ UNCHANGED <<atomics, safe_mutex, safe_cb, op, told, safe_initialized>>

ReadReason(r) ==
  /\ reader[r].at = "read"
  /\ reader' = [reader EXCEPT ![r] = [at |-> "idle", ret |-> safe_reason_val]]
  /\ UNCHANGED <<atomics, safe_mutex, safe_cb, op, told, safe_initialized>>

\* History: what is in force before and after each step of a call.
Observe ==
  inForce' = [r \in Reader |->
    IF reader'[r].at = "idle" THEN {} ELSE inForce[r] \cup InForce \cup InForce']

Inside(t) == Trigger(t) \/ Clear(t) \/ Callback(t) \/ Unlock(t)

(***************************************************************************)
(* Properties.                                                             *)
(***************************************************************************)
Call == [at : {"idle", "reason", "active", "update", "inactive", "none", "callback", "unlock"},
         reason : Reason \cup {None}]

SafeTypeOK ==
  /\ safe_initialized \in BOOLEAN
  /\ safe_active \in BOOLEAN /\ safe_reason_val \in Reason \cup {None}
  /\ safe_mutex \in Thread \cup {Nobody} /\ safe_cb \in BOOLEAN /\ told \in Int
  /\ op \in [Thread -> Call]
  /\ reader \in [Reader -> [at : {"idle", "read"}, ret : Reason \cup {None}]]
  /\ inForce \in [Reader -> SUBSET (Reason \cup {None})]

\* The reasons of triggers that have written the reason and not yet the flag.
Arriving == {op[t].reason : t \in {u \in Thread : op[u].at = "active"}}

\* ceell_safe_state_reason returns a reason that was in force at some instant of the
\* call, or that of a trigger about to enter; NONE only if the state was left meanwhile.
ReasonInForce ==
  [][\A r \in Reader :
       reader[r].at = "read" /\ reader'[r].at = "idle" => reader'[r].ret \in inForce[r] \cup Arriving]_safeVars

\* A registered callback is called for every entry and every exit since then, and for
\* nothing else: between two calls of the manager it knows whether the state is active.
CallbackKnows ==
  safe_cb /\ safe_mutex = Nobody => told = (IF safe_active THEN 1 ELSE 0)
=============================================================================
