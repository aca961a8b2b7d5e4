---------------------------- MODULE TimingBudget ----------------------------
(***************************************************************************)
(* ceell/core/timing_budget.c beside timing.c: threads define budgets for  *)
(* their sections and check what they measured.  The first call of any     *)
(* thread initialises the module, without a lock.                          *)
(***************************************************************************)
EXTENDS Timing

CONSTANTS
  Budget,      \* the budgets threads ask for, in microseconds
  MaxBudgets,  \* CEELL_TIMING_BUDGET_MAX
  MaxJobs,     \* bound: sections measured and calls of this module
  MaxCycles    \* bound: cycles

Nobody == "nobody"
ASSUME BudgetNats == Budget \subseteq Nat /\ MaxBudgets \in Nat
ASSUME NobodyIsNoCaller == Nobody \notin Caller

VARIABLES
  initialized,
  budgets,       \* <<[label, budget_us, violation_count, consecutive], ...>>
  budget_mutex,  \* the thread that holds it
  done,          \* history: the calls that defined or checked, with what they returned
  overlapped     \* history: a first call began inside another first call

budgetVars == <<initialized, budgets, budget_mutex, done, overlapped>>
vars       == <<timingVars, budgetVars>>

Init ==
  /\ TimingInit
  /\ initialized = FALSE /\ budgets = << >> /\ budget_mutex = Nobody
  /\ done = << >> /\ overlapped = FALSE

Calling(c, steps) == job[c].at \in steps
More == Len(log) + Len(done) + Cardinality({c \in Caller : job[c] # Free}) < MaxJobs

(***************************************************************************)
(* ensure_init tests the flag, initialises the mutex, and clears the table *)
(* before it sets the flag.                                                *)
(***************************************************************************)
Enter(c, kind, l, us) ==
  /\ job[c] = Free /\ More
  /\ Does(c, [at |-> IF initialized THEN "lock" ELSE "mutex", kind |-> kind, label |-> l, us |-> us])
  /\ overlapped' = (overlapped \/ (~ initialized /\ \E d \in Caller : Calling(d, {"mutex", "table"})))
  /\ UNCHANGED <<cycles, ring, log, prints, initialized, budgets, budget_mutex, done>>

Goto(c, step) == Does(c, [job[c] EXCEPT !.at = step])

\* Whoever holds the mutex loses it.
InitMutex(c) ==
  /\ Calling(c, {"mutex"})
  /\ budget_mutex' = Nobody
  /\ Goto(c, "table")
  /\ UNCHANGED <<cycles, ring, log, prints, initialized, budgets, done, overlapped>>

\* Mutant: the flag is not set.
InitTable_unset(c) ==
  /\ Calling(c, {"table"})
  /\ budgets' = << >>
  /\ Goto(c, "lock")
  /\ UNCHANGED <<cycles, ring, log, prints, initialized, budget_mutex, done, overlapped>>

InitTable(c) ==
  /\ Calling(c, {"table"})
  /\ budgets' = << >> /\ initialized' = TRUE
  /\ Goto(c, "lock")
  /\ UNCHANGED <<cycles, ring, log, prints, budget_mutex, done, overlapped>>

LockBudgets(c) ==
  /\ Calling(c, {"lock"}) /\ budget_mutex = Nobody
  /\ budget_mutex' = c
  /\ Goto(c, "locked")
  /\ UNCHANGED <<cycles, ring, log, prints, initialized, budgets, done, overlapped>>

(***************************************************************************)
(* The calls.  No budget is 0, and a section is checked with the longest   *)
(* duration that ceell_timing_get_stats reports.                           *)
(***************************************************************************)
ceell_timing_budget_define(c, l, us) == us # 0 /\ Enter(c, "define", l, us)
ceell_timing_budget_check(c, l)      == SlotsOf(l) # {} /\ Enter(c, "check", l, MaxUs(l))
ceell_timing_budget_report(c)        == Enter(c, "report", "", 0)

find_budget(l) == {i \in DOMAIN budgets : budgets[i].label = l}

\* An unlock by a thread that lost the mutex fails.
Return(c, ret) ==
  /\ budget_mutex' = IF budget_mutex = c THEN Nobody ELSE budget_mutex
  /\ done' = Append(done, [kind |-> job[c].kind, label |-> job[c].label, us |-> job[c].us, ret |-> ret])
  /\ Does(c, Free)
  /\ UNCHANGED <<cycles, ring, log, prints, initialized, overlapped>>

Define(c) ==
  /\ Calling(c, {"locked"}) /\ job[c].kind = "define"
  /\ \/ \E i \in find_budget(job[c].label) :
          budgets' = [budgets EXCEPT ![i].budget_us = job[c].us] /\ Return(c, 0)
     \/ /\ find_budget(job[c].label) = {} /\ Len(budgets) < MaxBudgets
        /\ budgets' = Append(budgets, [label |-> job[c].label, budget_us |-> job[c].us,
                                       violation_count |-> 0, consecutive |-> 0])
        /\ Return(c, 0)
     \/ /\ find_budget(job[c].label) = {} /\ Len(budgets) >= MaxBudgets
        /\ UNCHANGED budgets /\ Return(c, -1)

Check(c) ==
  /\ Calling(c, {"locked"}) /\ job[c].kind = "check"
  /\ \/ \E i \in find_budget(job[c].label) :
          IF job[c].us > budgets[i].budget_us
          THEN /\ budgets' = [budgets EXCEPT ![i].violation_count = @ + 1, ![i].consecutive = @ + 1]
               /\ Return(c, -1)
          ELSE budgets' = [budgets EXCEPT ![i].consecutive = 0] /\ Return(c, 0)
     \/ find_budget(job[c].label) = {} /\ UNCHANGED budgets /\ Return(c, -1)

Report(c) ==
  /\ Calling(c, {"locked"}) /\ job[c].kind = "report"
  /\ UNCHANGED budgets /\ Return(c, 0)

TimingNext ==
  \/ cycles < MaxCycles /\ Cycle
  \/ \E c \in Caller :
       \/ \E l \in Label : More /\ ceell_timing_start(c, l)
       \/ ReadEnd(c) \/ Store(c) \/ CollectLabels(c) \/ PrintNext(c) \/ PrintEnd(c)

BudgetNext ==
  \E c \in Caller :
    \/ \E l \in Label, us \in Budget : ceell_timing_budget_define(c, l, us)
    \/ \E l \in Label : ceell_timing_budget_check(c, l)
    \/ ceell_timing_budget_report(c)
    \/ InitMutex(c) \/ InitTable(c) \/ LockBudgets(c) \/ Define(c) \/ Check(c) \/ Report(c)

Next == (TimingNext /\ UNCHANGED budgetVars) \/ BudgetNext
Spec == Init /\ [][Next]_vars

(***************************************************************************)
(* Properties.                                                             *)
(***************************************************************************)
\* The calls about l from the k-th one on, by kind and result.
CallsOf(l, kind, ret, k) ==
  {n \in k..Len(done) : done[n].label = l /\ done[n].kind = kind /\ done[n].ret = ret}

Latest(S) == CHOOSE n \in S : \A m \in S : m <= n
First(S)  == CHOOSE n \in S : \A m \in S : n <= m

\* What is known of a label is what the calls that returned say: the budget of the
\* last definition, every violation since the first one, and those since the last
\* check within the budget.
Follows(b) ==
  LET ok       == CallsOf(b.label, "define", 0, 1)
      within   == CallsOf(b.label, "check", 0, 1)
      violated == CallsOf(b.label, "check", -1, First(ok))
  IN  /\ ok # {}
      /\ b.budget_us = done[Latest(ok)].us
      /\ b.violation_count = Cardinality(violated)
      /\ b.consecutive = Cardinality({n \in violated : \A m \in within : m < n})

\* Whatever the interleaving of the calls, if the first one ended its initialisation
\* before another began, no definition and no violation is lost or counted twice, a
\* label has one entry, and none if it was refused.
BudgetsFollowCalls ==
  ~ overlapped =>
    /\ \A i \in DOMAIN budgets : Follows(budgets[i]) /\ find_budget(budgets[i].label) = {i}
    /\ \A n \in DOMAIN done :
         done[n].kind = "define" => (done[n].ret = 0 <=> find_budget(done[n].label) # {})
=============================================================================
