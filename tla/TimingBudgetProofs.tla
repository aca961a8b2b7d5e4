------------------------- MODULE TimingBudgetProofs -------------------------
(***************************************************************************)
(* Proofs about Timing and TimingBudget for every set of threads and       *)
(* labels, every size of the ring and of the table of budgets, and every   *)
(* width and frequency of the cycle counter.                               *)
(***************************************************************************)
EXTENDS TimingBudget, FiniteSetTheorems, SequenceTheorems, WellFoundedInduction, TLAPS

CallSteps == {"mutex", "table", "lock", "locked"}
Names     == Label \cup {""}
Sample    == [label : Names, duration_us : 0..(Wrap - 1)]
Logged    == [label : Label, took : Nat]
Returned  == [kind : {"define", "check", "report"}, label : Names, us : Nat, ret : {0, -1}]
BudgetEntry == [label : Names, budget_us : Nat, violation_count : Nat, consecutive : Nat]

(***************************************************************************)
(* The ring: it fills from slot 0 on, and looking back from the head it    *)
(* holds the end of the log.                                               *)
(***************************************************************************)
RingType ==
  /\ cycles \in Nat
  /\ samples \in [Slot -> Sample] /\ sample_head \in Slot /\ sample_count \in 0..Size
  /\ log \in Seq(Logged)

RingFills ==
  /\ sample_count < Size => sample_head = sample_count
  /\ \A i \in Filled : samples[i].label \in Label

Measuring(c) ==
  /\ job[c].at = "section" =>
       job[c].label \in Label /\ job[c].began \in 0..cycles /\ job[c].handle = job[c].began % Wrap
  /\ job[c].at = "store" =>
       /\ job[c].label \in Label /\ job[c].took \in Nat /\ job[c].cycles \in Nat
       /\ job[c].took < Wrap => job[c].cycles = job[c].took

(***************************************************************************)
(* A print: what is still to do are labels without a line, each once, and  *)
(* a label that stayed in the ring is still to do or has its line.         *)
(***************************************************************************)
Printing(c) ==
  job[c].at = "print" =>
    /\ job[c] = [at |-> "print", todo |-> job[c].todo]
    /\ \A item \in job[c].todo : item[2] \in Label /\ printed[c][item[2]] = 0
    /\ \A item, other \in job[c].todo : item[2] = other[2] => item = other
    /\ \A l \in Label : printed[c][l] <= 1
    /\ \A l \in lasting[c] :
         l \in Labels /\ (printed[c][l] = 1 \/ \E item \in job[c].todo : item[2] = l)

PrintType == printed \in [Caller -> [Label -> Nat]] /\ lasting \in [Caller -> SUBSET Label]

(***************************************************************************)
(* The budgets: while no first call overlaps another, one thread at most   *)
(* initialises, before any call has done anything, and one at most holds   *)
(* the mutex.                                                              *)
(***************************************************************************)
Callers == \A c \in Caller : Calling(c, CallSteps) =>
             /\ job[c] = [at |-> job[c].at, kind |-> job[c].kind, label |-> job[c].label, us |-> job[c].us]
             /\ job[c].kind \in {"define", "check", "report"} /\ job[c].label \in Names /\ job[c].us \in Nat

Jobs == job = [c \in Caller |-> job[c]]

BudgetType ==
  /\ initialized \in BOOLEAN /\ overlapped \in BOOLEAN
  /\ budgets \in Seq(BudgetEntry) /\ done \in Seq(Returned)

InitOnce ==
  ~ overlapped =>
    /\ \A c, d \in Caller : Calling(c, {"mutex", "table"}) /\ Calling(d, {"mutex", "table"}) => c = d
    /\ \A c \in Caller : /\ Calling(c, {"mutex", "table"}) => ~ initialized
                         /\ Calling(c, {"lock", "locked"}) => initialized
    /\ ~ initialized => budgets = << >> /\ done = << >> /\ budget_mutex = Nobody

HoldsMutex == ~ overlapped => \A c \in Caller : Calling(c, {"locked"}) <=> budget_mutex = c

\* What was refused was refused because the table was full, and it never empties.
RefusedWhenFull ==
  ~ overlapped =>
    /\ Len(budgets) <= MaxBudgets
    /\ \A n \in 1..Len(done) : done[n].kind = "define" /\ done[n].ret = -1 => Len(budgets) = MaxBudgets

RingInv   == RingType /\ RingFills /\ LatestSamples /\ \A c \in Caller : Measuring(c)
PrintInv  == PrintType /\ \A c \in Caller : Printing(c)
BudgetInv == BudgetType /\ InitOnce /\ HoldsMutex /\ RefusedWhenFull /\ BudgetsFollowCalls
TInv      == Jobs /\ Callers /\ RingInv /\ PrintInv /\ BudgetInv

-----------------------------------------------------------------------------
(* Arithmetic. *)

\* The slot i places back from the head, without the remainder.
LEMMA BackFrom ==
  ASSUME NEW N \in Nat \ {0}, NEW h \in 0..(N - 1), NEW i \in 1..N
  PROVE  (h - i) % N = IF i <= h THEN h - i ELSE h - i + N
<1>1. CASE i <= h
  <2>1. h - i \in 0..(N - 1)
    BY <1>1
  <2> QED BY <1>1, <2>1, SMT
<1>2. CASE i > h
  <2>1. h - i + N \in 0..(N - 1) /\ h - i \in Int
    BY <1>2
  <2> QED BY <1>2, <2>1, SMT
<1> QED BY <1>1, <1>2

\* A step of the head makes the slot just written the last one.
LEMMA HeadStep ==
  ASSUME NEW N \in Nat \ {0}, NEW h \in 0..(N - 1), NEW g, g = (h + 1) % N
  PROVE  /\ h + 1 = N => g = 0
         /\ h + 1 # N => g = h + 1
         /\ g \in 0..(N - 1)
         /\ (g - 1) % N = h
<1>1. g = IF h + 1 = N THEN 0 ELSE h + 1
  BY SMT
<1>2. g \in 0..(N - 1)
  BY <1>1
<1>3. (g - 1) % N = IF 1 <= g THEN g - 1 ELSE g - 1 + N
  BY <1>2, BackFrom
<1> QED BY <1>1, <1>2, <1>3

\* Less than a turn of the counter is what the difference of its readings says.
LEMMA ElapsedIsTaken ==
  ASSUME NEW from \in Nat, NEW to \in Nat, to - from \in 0..(Wrap - 1)
  PROVE  Elapsed(from % Wrap, to % Wrap) = to - from
<1> DEFINE qf == from \div Wrap
           rf == from % Wrap
           qt == to \div Wrap
           rt == to % Wrap
<1>1. Wrap \in Nat \ {0}
  BY TimingNats
<1>2. /\ qf \in Int /\ rf \in 0..(Wrap - 1) /\ from = Wrap * qf + rf
      /\ qt \in Int /\ rt \in 0..(Wrap - 1) /\ to = Wrap * qt + rt
  BY <1>1, SMT
<1> HIDE DEF qf, qt, rf, rt
<1>3. qt = qf \/ qt = qf + 1
  <2>1. CASE qt >= qf + 2
    <3>1. Wrap * qt >= Wrap * (qf + 2)
      BY <1>1, <1>2, <2>1
    <3>2. Wrap * (qf + 2) = Wrap * qf + 2 * Wrap
      BY <1>1, <1>2
    <3> QED BY <1>1, <1>2, <3>1, <3>2
  <2>2. CASE qt <= qf - 1
    <3>1. Wrap * qt <= Wrap * (qf - 1)
      BY <1>1, <1>2, <2>2
    <3>2. Wrap * (qf - 1) = Wrap * qf - Wrap
      BY <1>1, <1>2
    <3> QED BY <1>1, <1>2, <3>1, <3>2
  <2> QED BY <1>2, <2>1, <2>2
<1>4. CASE qt = qf
  <2>1. rt - rf = to - from
    BY <1>1, <1>2, <1>4
  <2>2. (rt - rf) % Wrap = rt - rf
    BY <1>1, <2>1, SMT
  <2> QED BY <2>1, <2>2 DEF Elapsed, rf, rt
<1>5. CASE qt = qf + 1
  <2>1. Wrap * (qf + 1) = Wrap * qf + Wrap
    BY <1>1, <1>2
  <2>2. rt - rf + Wrap = to - from
    BY <1>1, <1>2, <1>5, <2>1
  <2>3. (rt - rf) % Wrap = rt - rf + Wrap
    <3>1. rt - rf \in Int /\ rt - rf + Wrap \in 0..(Wrap - 1)
      BY <1>2, <2>2
    <3> QED BY <1>1, <3>1, SMT
  <2> QED BY <2>2, <2>3 DEF Elapsed, rf, rt
<1> QED BY <1>3, <1>4, <1>5

LEMMA Readings ==
  ASSUME NEW n \in Int
  PROVE  n % Wrap \in 0..(Wrap - 1)
  BY TimingNats, SMT

\* Fewer cycles than the counter holds are as many microseconds or fewer.
LEMMA Microseconds ==
  ASSUME NEW n \in Nat
  PROVE  /\ cycles_to_us(n) \in 0..(Wrap - 1)
         /\ n < Wrap => cycles_to_us(n) = (n * Mega) \div Hz
<1> DEFINE p == n * Mega
           q == p \div Hz
<1>1. Wrap \in Nat \ {0} /\ Hz \in Nat \ {0} /\ Mega \in Nat \ {0} /\ Hz >= Mega
  BY TimingNats, ClockIsFast
<1>2. p \in Nat /\ p <= n * Hz
  <2>1. p \in Nat
    BY <1>1
  <2>2. n * (Hz - Mega) >= 0 /\ n * (Hz - Mega) = n * Hz - n * Mega
    BY <1>1
  <2>3. n * Hz \in Int
    BY <1>1
  <2> HIDE DEF p
  <2> QED BY <1>1, <2>1, <2>2, <2>3 DEF p
<1> HIDE DEF p
<1>3. q \in Nat /\ Hz * q <= p
  BY <1>1, <1>2, SMT
<1> HIDE DEF q
<1>4. q <= n
  <2>1. CASE q >= n + 1
    <3>1. Hz * q >= Hz * (n + 1) /\ Hz * (n + 1) = n * Hz + Hz
      BY <1>1, <1>3, <2>1
    <3>2. n * Hz \in Int /\ Hz * q \in Int
      BY <1>1, <1>3
    <3> QED BY <1>1, <1>2, <1>3, <3>1, <3>2
  <2> QED BY <1>3, <2>1
<1>5. q % Wrap \in 0..(Wrap - 1)
  BY <1>3, Readings
<1>6. n < Wrap => q % Wrap = q
  <2>1. \A d \in Nat \ {0}, k \in Nat : k < d => k % d = k
    BY SMT
  <2> QED BY <1>1, <1>3, <1>4, <2>1
<1> QED BY <1>5, <1>6 DEF cycles_to_us, q, p

\* A set of naturals has a least one.
LEMMA LeastNat ==
  ASSUME NEW S \in SUBSET Nat, S # {}
  PROVE  \E m \in S : \A n \in S : m <= n
<1> DEFINE R == OpToRel(<, Nat)
<1>1. IsWellFoundedOn(R, Nat)
  BY NatLessThanWellFounded
<1>2. \E m \in S : \A n \in S : ~ (<<n, m>> \in R)
  <2> HIDE DEF R
  <2> QED BY <1>1, WFMin
<1>3. \A m, n \in Nat : <<n, m>> \in R <=> n < m
  BY DEF OpToRel
<1> HIDE DEF R
<1>4. PICK m \in S : \A n \in S : ~ (<<n, m>> \in R)
  BY <1>2
<1>5. \A n \in S : ~ (n < m)
  BY <1>3, <1>4
<1>6. \A n \in S : n \in Int /\ m \in Int
  OBVIOUS
<1> QED BY <1>5, <1>6

-----------------------------------------------------------------------------
(* The threads. *)

LEMMA DoesOne ==
  ASSUME Jobs, NEW c \in Caller, NEW x, Does(c, x)
  PROVE  Jobs' /\ job'[c] = x /\ \A d \in Caller : d # c => job'[d] = job[d]
  BY DEF Jobs, Does

\* A call that goes on to its next step.
LEMMA GotoOne ==
  ASSUME Jobs, Callers, NEW c \in Caller, Calling(c, CallSteps), NEW step, Goto(c, step)
  PROVE  /\ Jobs' /\ \A d \in Caller : d # c => job'[d] = job[d]
         /\ job'[c] = [at |-> step, kind |-> job[c].kind, label |-> job[c].label, us |-> job[c].us]
<1>1. Does(c, [job[c] EXCEPT !.at = step])
  BY DEF Goto
<1>2. job[c] = [at |-> job[c].at, kind |-> job[c].kind, label |-> job[c].label, us |-> job[c].us]
  BY DEF Callers
<1>3. [job[c] EXCEPT !.at = step]
        = [at |-> step, kind |-> job[c].kind, label |-> job[c].label, us |-> job[c].us]
  BY <1>2
<1> QED BY <1>1, <1>3, DoesOne

\* What keeps each part of the invariant.
LEMMA RingKept ==
  ASSUME RingInv, UNCHANGED <<ring, log>>, cycles' \in Nat, cycles <= cycles',
         \A d \in Caller : \/ job'[d] = job[d]
                           \/ job'[d].at \notin {"section", "store"}
                           \/ Measuring(d)'
  PROVE  RingInv'
<1>1. RingType' /\ RingFills' /\ LatestSamples'
  BY DEF RingInv, RingType, RingFills, LatestSamples, ring, Filled, Before
<1>2. ASSUME NEW d \in Caller, job'[d] = job[d] PROVE Measuring(d)'
  <2>1. Measuring(d) /\ cycles \in Nat
    BY DEF RingInv, RingType
  <2> QED BY <1>2, <2>1 DEF Measuring
<1>3. ASSUME NEW d \in Caller, job'[d].at \notin {"section", "store"} PROVE Measuring(d)'
  BY <1>3 DEF Measuring
<1> QED BY <1>1, <1>2, <1>3 DEF RingInv

LEMMA PrintKept ==
  ASSUME PrintInv, UNCHANGED <<ring, prints>>,
         \A d \in Caller : job'[d] = job[d] \/ job'[d].at # "print"
  PROVE  PrintInv'
<1>1. PrintType' /\ Labels' = Labels
  BY DEF PrintInv, PrintType, prints, ring, Labels, Filled
<1>2. ASSUME NEW d \in Caller, job'[d] = job[d] PROVE Printing(d)'
  BY <1>1, <1>2 DEF Printing, PrintInv, prints
<1>3. ASSUME NEW d \in Caller, job'[d].at # "print" PROVE Printing(d)'
  BY <1>3 DEF Printing
<1> QED BY <1>1, <1>2, <1>3 DEF PrintInv

LEMMA BudgetsKept ==
  ASSUME Callers, BudgetInv, UNCHANGED budgetVars,
         \A d \in Caller : \/ job'[d] = job[d]
                           \/ job[d].at \notin CallSteps /\ job'[d].at \notin CallSteps
  PROVE  Callers' /\ BudgetInv'
<1>1. UNCHANGED <<initialized, budgets, budget_mutex, done, overlapped>>
  BY DEF budgetVars
<1>2. BudgetType' /\ RefusedWhenFull'
  BY <1>1 DEF BudgetInv, BudgetType, RefusedWhenFull
<1>3. BudgetsFollowCalls'
  <2>1. \A l, kind, ret, k : CallsOf(l, kind, ret, k)' = CallsOf(l, kind, ret, k)
    BY <1>1 DEF CallsOf
  <2>2. \A b : Follows(b)' <=> Follows(b)
    BY <1>1, <2>1 DEF Follows
  <2>3. \A l : find_budget(l)' = find_budget(l)
    BY <1>1 DEF find_budget
  <2> QED BY <1>1, <2>2, <2>3 DEF BudgetInv, BudgetsFollowCalls
<1>4. InitOnce' /\ HoldsMutex'
  BY <1>1 DEF BudgetInv, InitOnce, HoldsMutex, Calling, CallSteps
<1>5. Callers'
  BY DEF Callers, Calling
<1> QED BY <1>2, <1>3, <1>4, <1>5 DEF BudgetInv

-----------------------------------------------------------------------------
(* Every step of Timing preserves the invariant. *)

LEMMA StartInv ==
  ASSUME TInv, NEW c \in Caller, NEW l \in Label, ceell_timing_start(c, l), UNCHANGED budgetVars
  PROVE  TInv'
<1>1. /\ Does(c, [at |-> "section", label |-> l, handle |-> Counter, began |-> cycles])
      /\ job[c].at = "free" /\ UNCHANGED <<cycles, ring, log, prints>>
  BY DEF ceell_timing_start, Free
<1>2. /\ Jobs' /\ \A d \in Caller : d # c => job'[d] = job[d]
      /\ job'[c] = [at |-> "section", label |-> l, handle |-> Counter, began |-> cycles]
  BY <1>1, DoesOne DEF TInv
<1>3. cycles \in Nat
  BY DEF TInv, RingInv, RingType
<1>4. Measuring(c)'
  BY <1>1, <1>2, <1>3 DEF Measuring, Counter
<1>5. RingInv'
  BY <1>1, <1>2, <1>3, <1>4, RingKept DEF TInv
<1>6. PrintInv'
  BY <1>1, <1>2, PrintKept DEF TInv
<1>7. Callers' /\ BudgetInv'
  BY <1>1, <1>2, BudgetsKept DEF TInv, CallSteps
<1> QED BY <1>2, <1>5, <1>6, <1>7 DEF TInv

LEMMA ReadEndInv ==
  ASSUME TInv, NEW c \in Caller, ReadEnd(c), UNCHANGED budgetVars
  PROVE  TInv'
<1> DEFINE x == [at |-> "store", label |-> job[c].label, cycles |-> Elapsed(job[c].handle, Counter),
                 took |-> cycles - job[c].began]
<1>1. Does(c, x) /\ job[c].at = "section" /\ UNCHANGED <<cycles, ring, log, prints>>
  BY DEF ReadEnd
<1>2. Jobs' /\ job'[c] = x /\ \A d \in Caller : d # c => job'[d] = job[d]
  BY <1>1, DoesOne DEF TInv
<1>3. /\ cycles \in Nat /\ job[c].label \in Label /\ job[c].began \in 0..cycles
      /\ job[c].handle = job[c].began % Wrap
  BY <1>1 DEF TInv, RingInv, RingType, Measuring
<1>4. Measuring(c)'
  <2>1. Wrap \in Nat \ {0}
    BY TimingNats
  <2>2. cycles - job[c].began \in Nat /\ job[c].began \in Nat
    BY <1>3
  <2>3. cycles - job[c].began < Wrap => Elapsed(job[c].handle, Counter) = cycles - job[c].began
    BY <1>3, <2>1, <2>2, ElapsedIsTaken DEF Counter
  <2>4. Elapsed(job[c].handle, Counter) \in Nat
    <3>1. Counter \in Int /\ job[c].handle \in Int
      BY <1>3, <2>2, Readings DEF Counter
    <3> QED BY <3>1, Readings DEF Elapsed
  <2> QED BY <1>2, <1>3, <2>2, <2>3, <2>4 DEF Measuring
<1> HIDE DEF x
<1>5. RingInv'
  BY <1>1, <1>2, <1>3, <1>4, RingKept DEF TInv
<1>6. PrintInv'
  BY <1>1, <1>2, PrintKept DEF TInv, x
<1>7. Callers' /\ BudgetInv'
  BY <1>1, <1>2, BudgetsKept DEF TInv, CallSteps, x
<1> QED BY <1>2, <1>5, <1>6, <1>7 DEF TInv

LEMMA CycleInv ==
  ASSUME TInv, Cycle, UNCHANGED budgetVars
  PROVE  TInv'
<1>1. cycles' = cycles + 1 /\ UNCHANGED <<ring, job, log, prints>> /\ cycles \in Nat
  BY DEF Cycle, TInv, RingInv, RingType
<1>2. RingInv'
  BY <1>1, RingKept DEF TInv
<1>3. PrintInv' /\ Callers' /\ BudgetInv' /\ Jobs'
  BY <1>1, PrintKept, BudgetsKept DEF TInv, Jobs
<1> QED BY <1>2, <1>3 DEF TInv

LEMMA StutterInv ==
  ASSUME TInv, UNCHANGED vars
  PROVE  TInv'
<1>1. UNCHANGED <<cycles, ring, job, log, prints, budgetVars>> /\ cycles \in Nat
  BY DEF vars, timingVars, TInv, RingInv, RingType
<1> QED BY <1>1, RingKept, PrintKept, BudgetsKept DEF TInv, Jobs

\* A sample stored: what the ring holds is shifted by one place.
LEMMA StoreRing ==
  ASSUME RingInv, Jobs, NEW c \in Caller, Store(c)
  PROVE  RingInv' /\ \A d \in Caller : Measuring(d)'
<1> DEFINE new == [label |-> job[c].label, duration_us |-> cycles_to_us(job[c].cycles)]
           entry == [label |-> job[c].label, took |-> job[c].took]
<1>1. /\ samples' = [samples EXCEPT ![sample_head] = new] /\ sample_head' = (sample_head + 1) % Size
      /\ sample_count' = IF sample_count < Size THEN sample_count + 1 ELSE sample_count
      /\ log' = Append(log, entry) /\ Does(c, Free) /\ cycles' = cycles
  BY DEF Store, NextSlot
<1>2. /\ new \in Sample /\ new.label \in Label /\ entry \in Logged /\ new.label = entry.label
      /\ entry.took < Wrap => new.duration_us = (entry.took * Mega) \div Hz
  <2>1. /\ job[c].label \in Label /\ job[c].took \in Nat /\ job[c].cycles \in Nat
        /\ job[c].took < Wrap => job[c].cycles = job[c].took
    BY DEF Store, RingInv, Measuring
  <2>2. cycles_to_us(job[c].cycles) \in 0..(Wrap - 1)
    BY <2>1, Microseconds
  <2>3. job[c].took < Wrap => cycles_to_us(job[c].cycles) = (job[c].took * Mega) \div Hz
    BY <2>1, Microseconds
  <2> QED BY <2>1, <2>2, <2>3 DEF Sample, Logged, Names
<1> HIDE DEF new, entry
<1>3. /\ Size \in Nat \ {0} /\ sample_head \in 0..(Size - 1) /\ sample_count \in 0..Size
      /\ samples \in [Slot -> Sample] /\ log \in Seq(Logged) /\ Len(log) \in Nat
  BY TimingNats, LenProperties DEF RingInv, RingType, Slot
<1>4. /\ sample_head + 1 = Size => sample_head' = 0
      /\ sample_head + 1 # Size => sample_head' = sample_head + 1
      /\ sample_head' \in 0..(Size - 1)
      /\ (sample_head' - 1) % Size = sample_head
  <2>1. PICK h, g : h = sample_head /\ g = sample_head'
    OBVIOUS
  <2>2. Size \in Nat \ {0} /\ h \in 0..(Size - 1) /\ g = (h + 1) % Size
    BY <1>1, <1>3, <2>1
  <2>3. h + 1 = Size => g = 0
    BY <2>2, HeadStep
  <2>4. h + 1 # Size => g = h + 1
    BY <2>2, HeadStep
  <2>5. g \in 0..(Size - 1)
    BY <2>2, HeadStep
  <2>6. (g - 1) % Size = h
    BY <2>2, HeadStep
  <2> QED BY <2>1, <2>3, <2>4, <2>5, <2>6
<1>5. /\ log' \in Seq(Logged) /\ Len(log') = Len(log) + 1 /\ log'[Len(log) + 1] = entry
      /\ \A i \in 1..Len(log) : log'[i] = log[i]
  BY <1>1, <1>2, <1>3, AppendProperties
<1>6. /\ samples' \in [Slot -> Sample] /\ samples'[sample_head] = new
      /\ \A i \in Slot : i # sample_head => samples'[i] = samples[i]
  BY <1>1, <1>2, <1>3 DEF Slot
<1>7. RingType'
  <2>1. sample_count' \in 0..Size /\ cycles' \in Nat
    BY <1>1, <1>3 DEF RingInv, RingType
  <2> QED BY <1>4, <1>5, <1>6, <2>1 DEF RingType, Slot
<1>8. RingFills'
  <2>1. sample_count' < Size => sample_head' = sample_count'
    BY <1>1, <1>3, <1>4 DEF RingInv, RingFills
  <2>2. ASSUME NEW i \in 0..(sample_count' - 1) PROVE samples'[i].label \in Label
    <3>1. i \in Slot /\ (i # sample_head => i \in Filled)
      BY <1>1, <1>3 DEF Slot, Filled, RingInv, RingFills
    <3> QED BY <1>2, <1>6, <3>1 DEF RingInv, RingFills
  <2> QED BY <2>1, <2>2 DEF RingFills, Filled
<1>9. LatestSamples'
  <2>1. sample_count = IF Len(log) < Size THEN Len(log) ELSE Size
    BY DEF RingInv, LatestSamples
  <2>2. sample_count' = IF Len(log') < Size THEN Len(log') ELSE Size
    BY <1>1, <1>3, <1>5, <2>1
  <2>3. ASSUME NEW n \in 1..sample_count'
        PROVE  LET last == log'[Len(log') + 1 - n]
                   slot == (sample_head' - n) % Size
               IN  /\ samples'[slot].label = last.label
                   /\ last.took < Wrap => samples'[slot].duration_us = (last.took * Mega) \div Hz
    <3>1. CASE n = 1
      <4>1. log'[Len(log') + 1 - n] = entry
        BY <1>3, <1>5, <3>1
      <4>2. samples'[(sample_head' - n) % Size] = new
        BY <1>4, <1>6, <3>1
      <4> QED BY <1>2, <4>1, <4>2
    <3>2. CASE n # 1
      <4> DEFINE m == n - 1
      <4>1. m \in 1..sample_count /\ m \in 1..(Size - 1) /\ n = m + 1 /\ m <= Len(log)
        BY <1>1, <1>3, <2>1, <3>2
      <4> HIDE DEF m
      <4>2. /\ (sample_head' - n) % Size = Before(m) /\ Before(m) \in Slot /\ Before(m) # sample_head
        <5>1. m \in 1..Size /\ n \in 1..Size
          BY <1>3, <4>1
        <5>2. (sample_head' - n) % Size = IF n <= sample_head' THEN sample_head' - n
                                          ELSE sample_head' - n + Size
          BY <1>3, <1>4, <5>1, BackFrom
        <5>3. (sample_head - m) % Size = IF m <= sample_head THEN sample_head - m
                                         ELSE sample_head - m + Size
          BY <1>3, <5>1, BackFrom
        <5>4. PICK p, q : p = (sample_head' - n) % Size /\ q = (sample_head - m) % Size
          OBVIOUS
        <5>5. p = q /\ q \in 0..(Size - 1) /\ q # sample_head
          BY <1>3, <1>4, <4>1, <5>2, <5>3, <5>4
        <5> QED BY <5>4, <5>5 DEF Before, Slot
      <4>3. log'[Len(log') + 1 - n] = log[Len(log) + 1 - m]
        <5>1. Len(log') + 1 - n = Len(log) + 1 - m /\ Len(log) + 1 - m \in 1..Len(log)
          BY <1>3, <1>5, <4>1
        <5> QED BY <1>5, <5>1
      <4>4. samples'[Before(m)] = samples[Before(m)]
        BY <1>6, <4>2
      <4>5. LET last == log[Len(log) + 1 - m]
            IN  /\ samples[Before(m)].label = last.label
                /\ last.took < Wrap => samples[Before(m)].duration_us = (last.took * Mega) \div Hz
        BY <4>1 DEF RingInv, LatestSamples
      <4> QED BY <4>2, <4>3, <4>4, <4>5
    <3> QED BY <3>1, <3>2
  <2> QED BY <2>2, <2>3 DEF LatestSamples, Before
<1>10. \A d \in Caller : Measuring(d)'
  <2>1. job'[c] = Free /\ \A d \in Caller : d # c => job'[d] = job[d]
    BY <1>1, DoesOne
  <2> QED BY <1>1, <2>1 DEF RingInv, Measuring, Free
<1> QED BY <1>7, <1>8, <1>9, <1>10 DEF RingInv

LEMMA StoreInv ==
  ASSUME TInv, NEW c \in Caller, Store(c), UNCHANGED budgetVars
  PROVE  TInv'
<1>1. /\ Does(c, Free) /\ job[c].at = "store" /\ printed' = printed
      /\ lasting' = [d \in Caller |-> lasting[d] \cap Labels']
  BY DEF Store, Labels, Filled
<1>2. Jobs' /\ job'[c].at = "free" /\ \A d \in Caller : d # c => job'[d] = job[d]
  BY <1>1, DoesOne DEF TInv, Free
<1>3. RingInv'
  BY StoreRing DEF TInv
<1>4. PrintInv'
  <2>1. PrintType'
    BY <1>1 DEF TInv, PrintInv, PrintType
  <2>2. ASSUME NEW d \in Caller, job'[d] = job[d] PROVE Printing(d)'
    <3>1. lasting'[d] = lasting[d] \cap Labels' /\ Printing(d)
      BY <1>1 DEF TInv, PrintInv
    <3> QED BY <1>1, <2>2, <3>1 DEF Printing
  <2>3. Printing(c)'
    BY <1>2 DEF Printing
  <2> QED BY <1>2, <2>1, <2>2, <2>3 DEF PrintInv
<1>5. Callers' /\ BudgetInv'
  BY <1>1, <1>2, BudgetsKept DEF TInv, CallSteps
<1> QED BY <1>2, <1>3, <1>4, <1>5 DEF TInv

\* Every label in the ring is the first of its label in some slot, and in one only.
LEMMA FirstLabels ==
  ASSUME RingType
  PROVE  /\ \A l \in Labels : \E i \in Filled : FirstOfItsLabel(i) /\ samples[i].label = l
         /\ \A i, j \in Filled : FirstOfItsLabel(i) /\ FirstOfItsLabel(j)
                                 /\ samples[i].label = samples[j].label => i = j
<1>1. sample_count \in Nat /\ Filled \subseteq Nat
  BY TimingNats DEF RingType, Filled
<1>2. ASSUME NEW l \in Labels PROVE \E i \in Filled : FirstOfItsLabel(i) /\ samples[i].label = l
  <2>1. SlotsOf(l) # {} /\ SlotsOf(l) \in SUBSET Nat
    BY <1>1, <1>2 DEF Labels, SlotsOf
  <2>2. PICK i \in SlotsOf(l) : \A j \in SlotsOf(l) : i <= j
    BY <2>1, LeastNat
  <2>3. \A j \in Filled : j < i => samples[j].label # l
    BY <1>1, <2>2 DEF SlotsOf
  <2> QED BY <2>2, <2>3 DEF SlotsOf, FirstOfItsLabel
<1>3. ASSUME NEW i \in Filled, NEW j \in Filled, FirstOfItsLabel(i), FirstOfItsLabel(j),
             samples[i].label = samples[j].label
      PROVE  i = j
  <2>1. ~ (i < j) /\ ~ (j < i)
    BY <1>3 DEF FirstOfItsLabel
  <2> QED BY <1>1, <2>1
<1> QED BY <1>2, <1>3

LEMMA CollectInv ==
  ASSUME TInv, NEW c \in Caller, CollectLabels(c), UNCHANGED budgetVars
  PROVE  TInv'
<1> DEFINE items == {<<i, samples[i].label>> : i \in {k \in Filled : FirstOfItsLabel(k)}}
           none == [l \in Label |-> 0]
           x == [at |-> "print", todo |-> items]
<1>1. /\ Does(c, x) /\ job[c].at = "free" /\ UNCHANGED <<cycles, ring, log>>
      /\ printed' = [printed EXCEPT ![c] = none] /\ lasting' = [lasting EXCEPT ![c] = Labels]
  BY DEF CollectLabels, Free
<1>2. Jobs' /\ job'[c] = x /\ \A d \in Caller : d # c => job'[d] = job[d]
  BY <1>1, DoesOne DEF TInv
<1>3. /\ printed \in [Caller -> [Label -> Nat]] /\ lasting \in [Caller -> SUBSET Label]
      /\ Labels \subseteq Label /\ none \in [Label -> Nat] /\ Labels' = Labels
  BY <1>1 DEF TInv, PrintInv, PrintType, RingInv, RingFills, Labels, Filled, ring
<1>4. /\ PrintType' /\ printed'[c] = none /\ lasting'[c] = Labels
      /\ \A d \in Caller : d # c => printed'[d] = printed[d] /\ lasting'[d] = lasting[d]
  <2> HIDE DEF none
  <2> QED BY <1>1, <1>3 DEF PrintType
<1>5. /\ \A item \in items : item[2] \in Label /\ none[item[2]] = 0
      /\ \A item, other \in items : item[2] = other[2] => item = other
      /\ \A l \in Labels : \E item \in items : item[2] = l
  <2>1. RingType /\ \A i \in Filled : samples[i].label \in Label
    BY DEF TInv, RingInv, RingFills
  <2>2. \A item \in items : item[2] \in Label
    BY <2>1
  <2>3. \A item, other \in items : item[2] = other[2] => item = other
    BY <2>1, FirstLabels
  <2>4. ASSUME NEW l \in Labels PROVE \E item \in items : item[2] = l
    <3>1. PICK i \in Filled : FirstOfItsLabel(i) /\ samples[i].label = l
      BY <2>1, FirstLabels
    <3>2. <<i, samples[i].label>> \in items
      BY <3>1
    <3> QED BY <3>1, <3>2
  <2> QED BY <2>2, <2>3, <2>4
<1> HIDE DEF items
<1>6. Printing(c)'
  BY <1>2, <1>3, <1>4, <1>5 DEF Printing
<1>7. \A d \in Caller : d # c => Printing(d)'
  <2> SUFFICES ASSUME NEW d \in Caller, d # c PROVE Printing(d)'
    OBVIOUS
  <2>1. Printing(d) /\ job'[d] = job[d] /\ printed'[d] = printed[d] /\ lasting'[d] = lasting[d]
    BY <1>2, <1>4 DEF TInv, PrintInv
  <2> QED BY <1>3, <2>1 DEF Printing
<1>8. RingInv'
  BY <1>1, <1>2, RingKept DEF TInv, RingInv, RingType
<1>9. Callers' /\ BudgetInv'
  BY <1>1, <1>2, BudgetsKept DEF TInv, CallSteps
<1> QED BY <1>2, <1>4, <1>6, <1>7, <1>8, <1>9 DEF TInv, PrintInv

LEMMA PrintNextInv ==
  ASSUME TInv, NEW c \in Caller, PrintNext(c), UNCHANGED budgetVars
  PROVE  TInv'
<1>1. PICK item \in job[c].todo :
        /\ Does(c, [job[c] EXCEPT !.todo = @ \ {item}])
        /\ printed' = [printed EXCEPT ![c][item[2]] = IF SlotsOf(item[2]) = {} THEN @ ELSE @ + 1]
  BY DEF PrintNext
<1>2. job[c].at = "print" /\ UNCHANGED <<cycles, ring, log, lasting>> /\ Labels' = Labels
  BY DEF PrintNext, Labels, Filled, ring
<1>3. /\ printed \in [Caller -> [Label -> Nat]] /\ lasting \in [Caller -> SUBSET Label]
      /\ Printing(c) /\ job[c] = [at |-> "print", todo |-> job[c].todo]
  BY <1>2 DEF TInv, PrintInv, PrintType, Printing
<1> DEFINE n == item[2]
           v == IF SlotsOf(n) = {} THEN 0 ELSE 1
           rest == job[c].todo \ {item}
<1>4. n \in Label /\ printed[c][n] = 0
  BY <1>2, <1>3 DEF Printing
<1>5. [job[c] EXCEPT !.todo = @ \ {item}] = [at |-> "print", todo |-> rest]
  <2>1. [job[c] EXCEPT !.todo = @ \ {item}] = [job[c] EXCEPT !.todo = rest]
    OBVIOUS
  <2> HIDE DEF rest
  <2>2. \A t : [[at |-> "print", todo |-> t] EXCEPT !.todo = rest] = [at |-> "print", todo |-> rest]
    OBVIOUS
  <2>3. [job[c] EXCEPT !.todo = rest] = [[at |-> "print", todo |-> job[c].todo] EXCEPT !.todo = rest]
    BY <1>3
  <2> QED BY <2>1, <2>2, <2>3
<1>6. Jobs' /\ job'[c] = [at |-> "print", todo |-> rest] /\ \A d \in Caller : d # c => job'[d] = job[d]
  BY <1>1, <1>5, DoesOne DEF TInv
<1>7. /\ PrintType' /\ \A d \in Caller : d # c => printed'[d] = printed[d]
      /\ printed'[c][n] = v /\ \A l \in Label : l # n => printed'[c][l] = printed[c][l]
  <2>1. printed' = [printed EXCEPT ![c] = [printed[c] EXCEPT ![n] = v]]
    BY <1>1, <1>3, <1>4
  <2>2. v \in Nat
    OBVIOUS
  <2> HIDE DEF n, v
  <2>3. [printed[c] EXCEPT ![n] = v] \in [Label -> Nat]
    BY <1>3, <1>4, <2>2
  <2> QED BY <1>2, <1>3, <1>4, <2>1, <2>3 DEF PrintType
<1>8. Printing(c)'
  <2>1. \A i \in rest : i[2] \in Label /\ printed'[c][i[2]] = 0
    BY <1>2, <1>3, <1>7 DEF Printing
  <2>2. \A l \in Label : printed'[c][l] <= 1
    BY <1>2, <1>3, <1>7 DEF Printing
  <2>3. ASSUME NEW l \in lasting[c]
        PROVE  l \in Labels /\ (printed'[c][l] = 1 \/ \E i \in rest : i[2] = l)
    <3>1. l \in Label /\ l \in Labels /\ (printed[c][l] = 1 \/ \E i \in job[c].todo : i[2] = l)
      BY <1>2, <1>3, <2>3 DEF Printing
    <3>2. CASE l = n
      <4>1. SlotsOf(n) # {}
        BY <3>1, <3>2 DEF Labels, SlotsOf
      <4> QED BY <1>7, <3>1, <3>2, <4>1
    <3>3. CASE l # n
      BY <1>7, <3>1, <3>3
    <3> QED BY <3>2, <3>3
  <2>4. \A i, other \in rest : i[2] = other[2] => i = other
    BY <1>2, <1>3 DEF Printing
  <2> HIDE DEF rest
  <2> QED BY <1>2, <1>6, <2>1, <2>2, <2>3, <2>4 DEF Printing
<1>9. \A d \in Caller : d # c => Printing(d)'
  BY <1>2, <1>6, <1>7 DEF TInv, PrintInv, Printing
<1>10. RingInv'
  BY <1>2, <1>6, RingKept DEF TInv, RingInv, RingType
<1>11. Callers' /\ BudgetInv'
  BY <1>2, <1>6, BudgetsKept DEF TInv, CallSteps
<1> QED BY <1>6, <1>7, <1>8, <1>9, <1>10, <1>11 DEF TInv, PrintInv

LEMMA PrintEndInv ==
  ASSUME TInv, NEW c \in Caller, PrintEnd(c), UNCHANGED budgetVars
  PROVE  TInv'
<1>1. /\ Does(c, Free) /\ job[c].at = "print" /\ UNCHANGED <<cycles, ring, log>>
      /\ printed' = [printed EXCEPT ![c] = [l \in Label |-> 0]] /\ lasting' = [lasting EXCEPT ![c] = {}]
  BY DEF PrintEnd
<1>2. Jobs' /\ job'[c].at = "free" /\ \A d \in Caller : d # c => job'[d] = job[d]
  BY <1>1, DoesOne DEF TInv, Free
<1>3. /\ PrintType' /\ Labels' = Labels
      /\ \A d \in Caller : d # c => printed'[d] = printed[d] /\ lasting'[d] = lasting[d]
  BY <1>1 DEF TInv, PrintInv, PrintType, Labels, Filled, ring
<1>4. \A d \in Caller : Printing(d)'
  BY <1>2, <1>3 DEF TInv, PrintInv, Printing
<1>5. RingInv'
  BY <1>1, <1>2, RingKept DEF TInv, RingInv, RingType
<1>6. Callers' /\ BudgetInv'
  BY <1>1, <1>2, BudgetsKept DEF TInv, CallSteps
<1> QED BY <1>2, <1>3, <1>4, <1>5, <1>6 DEF TInv, PrintInv

\* The steps of Timing.
LEMMA TimingStepInv ==
  ASSUME TInv, TimingNext, UNCHANGED budgetVars
  PROVE  TInv'
BY CycleInv, StartInv, ReadEndInv, StoreInv, CollectInv, PrintNextInv, PrintEndInv DEF TimingNext

-----------------------------------------------------------------------------
(* The calls that returned. *)

LEMMA GreatestNat ==
  ASSUME NEW N \in Nat, NEW S \in SUBSET (0..N), S # {}
  PROVE  \E m \in S : \A n \in S : n <= m
<1> DEFINE T == {N - n : n \in S}
<1>0. \A n \in S : n \in Nat /\ n <= N
  OBVIOUS
<1>1. T \in SUBSET Nat /\ T # {}
  <2>1. \A n \in S : N - n \in Nat
    BY <1>0
  <2>2. PICK n \in S : TRUE
    OBVIOUS
  <2>3. N - n \in T
    OBVIOUS
  <2> QED BY <2>1, <2>3
<1>2. PICK t \in T : \A u \in T : t <= u
  BY <1>1, LeastNat
<1>3. PICK m \in S : t = N - m
  BY <1>2
<1>4. \A n \in S : N - m <= N - n
  BY <1>2, <1>3
<1>5. \A n \in S : n <= m
  BY <1>0, <1>4
<1> QED BY <1>5

LEMMA FirstOf ==
  ASSUME NEW S \in SUBSET Nat, S # {}
  PROVE  /\ First(S) \in S /\ \A n \in S : First(S) <= n
         /\ \A m \in S : (\A n \in S : m <= n) => First(S) = m
<1>1. \E m \in S : \A n \in S : m <= n
  BY LeastNat
<1>2. First(S) \in S /\ \A n \in S : First(S) <= n
  BY <1>1 DEF First
<1>3. ASSUME NEW m \in S, \A n \in S : m <= n PROVE First(S) = m
  <2>1. First(S) <= m /\ m <= First(S)
    BY <1>2, <1>3
  <2>2. First(S) \in Nat /\ m \in Nat
    BY <1>2
  <2> QED BY <2>1, <2>2
<1> QED BY <1>2, <1>3

LEMMA LatestOf ==
  ASSUME NEW N \in Nat, NEW S \in SUBSET (0..N), S # {}
  PROVE  /\ Latest(S) \in S /\ \A n \in S : n <= Latest(S)
         /\ \A m \in S : (\A n \in S : n <= m) => Latest(S) = m
<1>1. \E m \in S : \A n \in S : n <= m
  BY GreatestNat
<1>2. Latest(S) \in S /\ \A n \in S : n <= Latest(S)
  BY <1>1 DEF Latest
<1>3. ASSUME NEW m \in S, \A n \in S : n <= m PROVE Latest(S) = m
  <2>1. Latest(S) <= m /\ m <= Latest(S)
    BY <1>2, <1>3
  <2>2. Latest(S) \in 0..N /\ m \in 0..N
    BY <1>2
  <2> QED BY <2>1, <2>2
<1> QED BY <1>2, <1>3

\* What the ring reports as the longest duration is a number.
LEMMA MaxUsType ==
  ASSUME RingType, NEW l, SlotsOf(l) # {}
  PROVE  MaxUs(l) \in Nat
<1>1. Wrap - 1 \in Nat
  BY TimingNats
<1>2. \A i \in SlotsOf(l) : i \in Slot
  BY TimingNats DEF SlotsOf, Filled, Slot, RingType
<1>3. \A i \in Slot : samples[i].duration_us \in 0..(Wrap - 1)
  BY DEF RingType, Sample
<1>4. Durations(l) \in SUBSET (0..(Wrap - 1)) /\ Durations(l) # {}
  BY <1>2, <1>3 DEF Durations
<1>5. \E d \in Durations(l) : \A e \in Durations(l) : e <= d
  BY <1>1, <1>4, GreatestNat
<1>6. MaxUs(l) \in Durations(l)
  BY <1>5 DEF MaxUs
<1> QED BY <1>4, <1>6

LEMMA CallsType ==
  ASSUME done \in Seq(Returned), NEW l, NEW kind, NEW ret, NEW k \in Nat \ {0}
  PROVE  /\ Len(done) \in Nat
         /\ CallsOf(l, kind, ret, k) \in SUBSET (1..Len(done))
         /\ CallsOf(l, kind, ret, k) \in SUBSET (0..Len(done))
         /\ CallsOf(l, kind, ret, k) \in SUBSET Nat
         /\ IsFiniteSet(CallsOf(l, kind, ret, k))
<1>1. Len(done) \in Nat /\ 1 \in Int /\ Len(done) \in Int
  BY LenProperties
<1>2. CallsOf(l, kind, ret, k) \in SUBSET (1..Len(done))
  BY <1>1 DEF CallsOf
<1>3. IsFiniteSet(1..Len(done))
  BY <1>1, FS_Interval
<1> QED BY <1>1, <1>2, <1>3, FS_Subset

\* One more call is one more in the sets it belongs to.
LEMMA CallsAppend ==
  ASSUME done \in Seq(Returned), NEW d \in Returned, done' = Append(done, d),
         NEW l, NEW kind, NEW ret, NEW k \in Nat \ {0}
  PROVE  CallsOf(l, kind, ret, k)' =
           CallsOf(l, kind, ret, k) \cup
             {n \in {Len(done) + 1} : k <= n /\ d.label = l /\ d.kind = kind /\ d.ret = ret}
<1>1. /\ Len(done) \in Nat /\ Len(done') = Len(done) + 1 /\ done'[Len(done) + 1] = d
      /\ \A n \in 1..Len(done) : done'[n] = done[n]
  BY LenProperties, AppendProperties
<1>2. \A n : n \in k..Len(done') <=> n \in k..Len(done) \/ (n = Len(done) + 1 /\ k <= n)
  BY <1>1
<1>3. \A n \in k..Len(done) : done'[n] = done[n] /\ n # Len(done) + 1
  BY <1>1
<1>4. \A n : n \in CallsOf(l, kind, ret, k)' <=>
        n \in k..Len(done') /\ done'[n].label = l /\ done'[n].kind = kind /\ done'[n].ret = ret
  BY DEF CallsOf
<1>5. \A n : n \in CallsOf(l, kind, ret, k) <=>
        n \in k..Len(done) /\ done[n].label = l /\ done[n].kind = kind /\ done[n].ret = ret
  BY DEF CallsOf
<1> QED BY <1>1, <1>2, <1>3, <1>4, <1>5

-----------------------------------------------------------------------------
(* What one more call changes in what is said of a budget. *)

\* The calls that are counted for a label are those about it.
LEMMA CallsElsewhere ==
  ASSUME done \in Seq(Returned), NEW d \in Returned, done' = Append(done, d),
         NEW l, NEW kind, NEW ret, NEW k \in Nat \ {0}, d.label # l \/ d.kind # kind \/ d.ret # ret
  PROVE  CallsOf(l, kind, ret, k)' = CallsOf(l, kind, ret, k)
<1>1. {n \in {Len(done) + 1} : k <= n /\ d.label = l /\ d.kind = kind /\ d.ret = ret} = {}
  OBVIOUS
<1>2. CallsOf(l, kind, ret, k)' =
           CallsOf(l, kind, ret, k) \cup
             {n \in {Len(done) + 1} : k <= n /\ d.label = l /\ d.kind = kind /\ d.ret = ret}
  BY CallsAppend
<1> QED BY <1>1, <1>2

LEMMA CallsMore ==
  ASSUME done \in Seq(Returned), NEW d \in Returned, done' = Append(done, d),
         NEW l, NEW kind, NEW ret, NEW k \in Nat \ {0}, d.label = l, d.kind = kind, d.ret = ret,
         k <= Len(done) + 1
  PROVE  CallsOf(l, kind, ret, k)' = CallsOf(l, kind, ret, k) \cup {Len(done) + 1}
<1>1. {n \in {Len(done) + 1} : k <= n /\ d.label = l /\ d.kind = kind /\ d.ret = ret}
        = {Len(done) + 1}
  OBVIOUS
<1>2. CallsOf(l, kind, ret, k)' =
           CallsOf(l, kind, ret, k) \cup
             {n \in {Len(done) + 1} : k <= n /\ d.label = l /\ d.kind = kind /\ d.ret = ret}
  BY CallsAppend
<1> QED BY <1>1, <1>2

\* The first definition of a label with a budget, and the latest.
LEMMA Definitions ==
  ASSUME done \in Seq(Returned), NEW l, CallsOf(l, "define", 0, 1) # {}
  PROVE  LET ok == CallsOf(l, "define", 0, 1)
         IN  /\ First(ok) \in ok /\ Latest(ok) \in ok
             /\ First(ok) \in 1..Len(done) /\ Latest(ok) \in 1..Len(done) /\ First(ok) \in Nat \ {0}
             /\ \A n \in ok : First(ok) <= n
<1> DEFINE ok == CallsOf(l, "define", 0, 1)
<1>1. /\ ok \in SUBSET (0..Len(done)) /\ ok \in SUBSET (1..Len(done)) /\ ok \in SUBSET Nat
      /\ Len(done) \in Nat
  BY CallsType
<1>2. ok # {}
  OBVIOUS
<1> HIDE DEF ok
<1>3. First(ok) \in ok /\ Latest(ok) \in ok /\ \A n \in ok : First(ok) <= n
  BY <1>1, <1>2, FirstOf, LatestOf
<1>4. \A n \in ok : n \in 1..Len(done)
  BY <1>1
<1>5. \A n \in 1..Len(done) : n \in Nat \ {0}
  BY <1>1
<1> QED BY <1>3, <1>4, <1>5 DEF ok

\* A call about another label, and one that was refused or reports.
LEMMA FollowsElsewhere ==
  ASSUME done \in Seq(Returned), NEW d \in Returned, done' = Append(done, d), NEW b, Follows(b),
         \/ d.label # b.label
         \/ d.kind = "report"
         \/ d.kind = "define" /\ d.ret = -1
  PROVE  Follows(b)'
<1> DEFINE ok == CallsOf(b.label, "define", 0, 1)
           within == CallsOf(b.label, "check", 0, 1)
           violated == CallsOf(b.label, "check", -1, First(ok))
<1>1. /\ ok # {} /\ b.budget_us = done[Latest(ok)].us
      /\ b.violation_count = Cardinality(violated)
      /\ b.consecutive = Cardinality({n \in violated : \A m \in within : m < n})
  BY DEF Follows
<1>2. First(ok) \in Nat \ {0} /\ Latest(ok) \in 1..Len(done)
  BY <1>1, Definitions
<1>3. done'[Latest(ok)] = done[Latest(ok)]
  BY <1>2, AppendProperties
<1>4. CallsOf(b.label, "define", 0, 1)' = ok
  BY CallsElsewhere
<1>5. CallsOf(b.label, "check", 0, 1)' = within
  BY CallsElsewhere
<1>6. \A k \in Nat \ {0} : CallsOf(b.label, "check", -1, k)' = CallsOf(b.label, "check", -1, k)
  BY CallsElsewhere
<1> HIDE DEF ok
<1>7. PICK k : k = First(ok)
  OBVIOUS
<1>8. CallsOf(b.label, "check", -1, k)' = violated
  BY <1>2, <1>6, <1>7
<1> HIDE DEF within, violated
<1> QED BY <1>1, <1>3, <1>4, <1>5, <1>7, <1>8 DEF Follows

\* A new budget for a label: its counters stay.
LEMMA FollowsDefined ==
  ASSUME done \in Seq(Returned), NEW d \in Returned, done' = Append(done, d), NEW b, Follows(b),
         d.kind = "define", d.ret = 0, d.label = b.label,
         NEW e, e.label = b.label, e.budget_us = d.us,
         e.violation_count = b.violation_count, e.consecutive = b.consecutive
  PROVE  Follows(e)'
<1> DEFINE ok == CallsOf(b.label, "define", 0, 1)
           within == CallsOf(b.label, "check", 0, 1)
           violated == CallsOf(b.label, "check", -1, First(ok))
           new == Len(done) + 1
           ok2 == ok \cup {new}
<1>1. /\ ok # {} /\ b.violation_count = Cardinality(violated)
      /\ b.consecutive = Cardinality({n \in violated : \A m \in within : m < n})
  BY DEF Follows
<1>2. /\ First(ok) \in ok /\ First(ok) \in 1..Len(done) /\ First(ok) \in Nat \ {0}
      /\ \A n \in ok : First(ok) <= n
  BY <1>1, Definitions
<1>3. Len(done) \in Nat /\ ok \in SUBSET (1..Len(done)) /\ done'[new] = d
  BY CallsType, AppendProperties
<1>4. CallsOf(b.label, "define", 0, 1)' = ok2
  <2>1. 1 <= new /\ 1 \in Nat \ {0}
    BY <1>3
  <2> QED BY <2>1, CallsMore
<1>5. CallsOf(b.label, "check", 0, 1)' = within
  BY CallsElsewhere
<1>6. \A k \in Nat \ {0} : CallsOf(b.label, "check", -1, k)' = CallsOf(b.label, "check", -1, k)
  BY CallsElsewhere
<1> HIDE DEF ok, within, violated
<1>7. First(ok2) = First(ok) /\ Latest(ok2) = new /\ ok2 # {}
  <2>1. \A n \in ok : n \in 1..Len(done)
    BY <1>3
  <2>2. ok2 \in SUBSET Nat /\ ok2 \in SUBSET (0..new) /\ new \in Nat /\ new \in ok2 /\ First(ok) \in ok2
    BY <1>2, <1>3, <2>1
  <2>3. \A n \in ok2 : First(ok) <= n /\ n <= new
    BY <1>2, <1>3, <2>1
  <2> HIDE DEF ok2, new
  <2>4. First(ok2) = First(ok)
    BY <2>2, <2>3, FirstOf
  <2>5. Latest(ok2) = new
    BY <2>2, <2>3, LatestOf
  <2> QED BY <2>2, <2>4, <2>5
<1>8. PICK k : k = First(ok)
  OBVIOUS
<1>9. CallsOf(b.label, "check", -1, k)' = violated
  BY <1>2, <1>6, <1>8 DEF violated
<1> HIDE DEF ok2, new
<1> QED BY <1>1, <1>3, <1>4, <1>5, <1>7, <1>8, <1>9 DEF Follows

\* The first budget of a label: no check counts yet.
LEMMA FollowsNew ==
  ASSUME done \in Seq(Returned), NEW d \in Returned, done' = Append(done, d),
         d.kind = "define", d.ret = 0, CallsOf(d.label, "define", 0, 1) = {},
         NEW e, e.label = d.label, e.budget_us = d.us, e.violation_count = 0, e.consecutive = 0
  PROVE  Follows(e)'
<1> DEFINE new == Len(done) + 1
<1>1. Len(done) \in Nat /\ new \in Nat \ {0} /\ done'[new] = d
  BY LenProperties, AppendProperties
<1>2. CallsOf(e.label, "define", 0, 1)' = {new}
  <2>1. CallsOf(e.label, "define", 0, 1)' = CallsOf(e.label, "define", 0, 1) \cup {new}
    BY <1>1, CallsMore
  <2> QED BY <2>1
<1>3. First({new}) = new /\ Latest({new}) = new
  <2>1. {new} \in SUBSET Nat /\ {new} \in SUBSET (0..new) /\ \A n \in {new} : n <= new /\ new <= n
    BY <1>1
  <2> HIDE DEF new
  <2>2. First({new}) = new
    BY <1>1, <2>1, FirstOf
  <2>3. Latest({new}) = new
    BY <1>1, <2>1, LatestOf
  <2> QED BY <2>2, <2>3
<1>4. PICK k : k = new
  OBVIOUS
<1>5. CallsOf(e.label, "check", -1, k)' = {}
  <2>1. CallsOf(e.label, "check", -1, k)' = CallsOf(e.label, "check", -1, k)
    BY <1>1, <1>4, CallsElsewhere
  <2>2. CallsOf(e.label, "check", -1, k) = {}
    BY <1>1, <1>4 DEF CallsOf
  <2> QED BY <2>1, <2>2
<1>6. Cardinality({}) = 0 /\ \A W : {n \in {} : \A m \in W : m < n} = {}
  BY FS_EmptySet
<1> HIDE DEF new
<1> QED BY <1>1, <1>2, <1>3, <1>4, <1>5, <1>6 DEF Follows

\* A violation: both counters grow.
LEMMA FollowsViolated ==
  ASSUME done \in Seq(Returned), NEW d \in Returned, done' = Append(done, d), NEW b, Follows(b),
         d.kind = "check", d.ret = -1, d.label = b.label,
         NEW e, e.label = b.label, e.budget_us = b.budget_us,
         e.violation_count = b.violation_count + 1, e.consecutive = b.consecutive + 1
  PROVE  Follows(e)'
<1> DEFINE ok == CallsOf(b.label, "define", 0, 1)
           within == CallsOf(b.label, "check", 0, 1)
           violated == CallsOf(b.label, "check", -1, First(ok))
           run == {n \in violated : \A m \in within : m < n}
           new == Len(done) + 1
           violated2 == violated \cup {new}
<1>1. /\ ok # {} /\ b.budget_us = done[Latest(ok)].us
      /\ b.violation_count = Cardinality(violated) /\ b.consecutive = Cardinality(run)
  BY DEF Follows
<1>2. First(ok) \in 1..Len(done) /\ First(ok) \in Nat \ {0} /\ Latest(ok) \in 1..Len(done)
  BY <1>1, Definitions
<1>3. /\ Len(done) \in Nat /\ done'[Latest(ok)] = done[Latest(ok)]
      /\ within \in SUBSET (1..Len(done)) /\ IsFiniteSet(violated) /\ violated \in SUBSET (1..Len(done))
  BY <1>2, CallsType, AppendProperties
<1>4. CallsOf(b.label, "define", 0, 1)' = ok
  BY CallsElsewhere
<1>5. CallsOf(b.label, "check", 0, 1)' = within
  BY CallsElsewhere
<1>6. PICK k : k = First(ok)
  OBVIOUS
<1>7. CallsOf(b.label, "check", -1, k)' = violated2
  <2>1. k \in Nat \ {0} /\ k <= new /\ violated = CallsOf(b.label, "check", -1, k)
    BY <1>2, <1>3, <1>6
  <2> HIDE DEF ok, within, violated
  <2> QED BY <2>1, CallsMore
<1> HIDE DEF ok, within, violated
<1>8. {n \in violated2 : \A m \in within : m < n} = run \cup {new}
  <2>1. \A m \in within : m \in 1..Len(done)
    BY <1>3
  <2>2. \A m \in within : m < new
    BY <1>3, <2>1
  <2> HIDE DEF new
  <2> QED BY <2>2
<1>9. Cardinality(violated2) = Cardinality(violated) + 1 /\ Cardinality(run \cup {new}) = Cardinality(run) + 1
  <2>1. new \notin violated /\ new \notin run /\ IsFiniteSet(run)
    BY <1>3, FS_Subset
  <2> HIDE DEF new, run
  <2> QED BY <1>3, <2>1, FS_AddElement
<1> HIDE DEF new, run, violated2
<1> QED BY <1>1, <1>3, <1>4, <1>5, <1>6, <1>7, <1>8, <1>9 DEF Follows

\* A check within the budget: the run of violations ends.
LEMMA FollowsWithin ==
  ASSUME done \in Seq(Returned), NEW d \in Returned, done' = Append(done, d), NEW b, Follows(b),
         d.kind = "check", d.ret = 0, d.label = b.label,
         NEW e, e.label = b.label, e.budget_us = b.budget_us,
         e.violation_count = b.violation_count, e.consecutive = 0
  PROVE  Follows(e)'
<1> DEFINE ok == CallsOf(b.label, "define", 0, 1)
           within == CallsOf(b.label, "check", 0, 1)
           violated == CallsOf(b.label, "check", -1, First(ok))
           new == Len(done) + 1
           within2 == within \cup {new}
<1>1. /\ ok # {} /\ b.budget_us = done[Latest(ok)].us /\ b.violation_count = Cardinality(violated)
  BY DEF Follows
<1>2. First(ok) \in 1..Len(done) /\ First(ok) \in Nat \ {0} /\ Latest(ok) \in 1..Len(done)
  BY <1>1, Definitions
<1>3. /\ Len(done) \in Nat /\ done'[Latest(ok)] = done[Latest(ok)]
      /\ violated \in SUBSET (1..Len(done))
  BY <1>2, CallsType, AppendProperties
<1>4. CallsOf(b.label, "define", 0, 1)' = ok
  BY CallsElsewhere
<1>5. CallsOf(b.label, "check", 0, 1)' = within2
  <2>1. 1 <= new /\ 1 \in Nat \ {0}
    BY <1>3
  <2> QED BY <2>1, CallsMore
<1>6. PICK k : k = First(ok)
  OBVIOUS
<1>7. CallsOf(b.label, "check", -1, k)' = violated
  <2>1. k \in Nat \ {0} /\ violated = CallsOf(b.label, "check", -1, k)
    BY <1>2, <1>6
  <2> HIDE DEF ok, within, violated
  <2> QED BY <2>1, CallsElsewhere
<1> HIDE DEF ok, within, violated
<1>8. {n \in violated : \A m \in within2 : m < n} = {} /\ Cardinality({}) = 0
  <2>1. \A n \in violated : n \in 1..Len(done)
    BY <1>3
  <2>2. \A n \in violated : ~ (new < n)
    BY <1>3, <2>1
  <2>3. new \in within2
    OBVIOUS
  <2> HIDE DEF new, within2
  <2>4. {n \in violated : \A m \in within2 : m < n} = {}
    BY <2>2, <2>3
  <2> QED BY <2>4, FS_EmptySet
<1> HIDE DEF new, within2
<1> QED BY <1>1, <1>3, <1>4, <1>5, <1>6, <1>7, <1>8 DEF Follows

-----------------------------------------------------------------------------
(* The table of budgets when a call returns. *)

\* The calls that had returned, after one more.
LEMMA DoneAppend ==
  ASSUME done \in Seq(Returned), NEW d \in Returned, done' = Append(done, d)
  PROVE  /\ done' \in Seq(Returned) /\ Len(done) \in Nat /\ Len(done') = Len(done) + 1
         /\ DOMAIN done = 1..Len(done) /\ DOMAIN done' = 1..Len(done')
         /\ \A n \in DOMAIN done' : \/ n \in DOMAIN done /\ done'[n] = done[n]
                                    \/ n = Len(done') /\ done'[n] = d
<1>1. /\ done' \in Seq(Returned) /\ Len(done) \in Nat /\ Len(done') = Len(done) + 1
      /\ DOMAIN done = 1..Len(done) /\ DOMAIN done' = 1..Len(done')
  BY LenProperties, AppendProperties
<1>2. /\ \A n \in 1..Len(done) : done'[n] = done[n]
      /\ done'[Len(done) + 1] = d
  BY AppendProperties
<1>3. \A n \in 1..(Len(done) + 1) : n \in 1..Len(done) \/ n = Len(done) + 1
  BY <1>1
<1> QED BY <1>1, <1>2, <1>3

\* The entry of the label changes.
LEMMA UpdateEntry ==
  ASSUME BudgetType, RefusedWhenFull, BudgetsFollowCalls, UNCHANGED overlapped,
         NEW d \in Returned, done' = Append(done, d), d.kind = "define" => d.ret = 0,
         NEW i \in find_budget(d.label), NEW e \in BudgetEntry, e.label = d.label,
         budgets' = [budgets EXCEPT ![i] = e], ~ overlapped => Follows(e)'
  PROVE  budgets' \in Seq(BudgetEntry) /\ RefusedWhenFull' /\ BudgetsFollowCalls'
<1>1. /\ budgets \in Seq(BudgetEntry) /\ i \in DOMAIN budgets /\ i \in 1..Len(budgets) /\ budgets[i].label = d.label
      /\ done \in Seq(Returned)
  BY LenProperties DEF BudgetType, find_budget
<1>2. /\ budgets' \in Seq(BudgetEntry) /\ Len(budgets') = Len(budgets) /\ DOMAIN budgets' = DOMAIN budgets
      /\ budgets'[i] = e /\ \A j \in DOMAIN budgets : j # i => budgets'[j] = budgets[j]
  BY <1>1, ExceptSeq
<1>3. \A j \in DOMAIN budgets : budgets'[j].label = budgets[j].label
  BY <1>1, <1>2
<1>4. \A l : find_budget(l)' = find_budget(l)
  BY <1>2, <1>3 DEF find_budget
<1>5. RefusedWhenFull'
  <2>1. \A n \in 1..Len(done') : \/ n \in 1..Len(done) /\ done'[n] = done[n]
                                 \/ done'[n] = d
    BY <1>1, DoneAppend
  <2>2. d.ret = 0 => d.ret # -1
    OBVIOUS
  <2> QED BY <1>2, <2>1, <2>2 DEF RefusedWhenFull
<1>6. BudgetsFollowCalls'
  <2> SUFFICES ASSUME ~ overlapped PROVE BudgetsFollowCalls'
    BY DEF BudgetsFollowCalls
  <2>1. \A j \in DOMAIN budgets : Follows(budgets[j]) /\ find_budget(budgets[j].label) = {j}
    BY DEF BudgetsFollowCalls
  <2>2. ASSUME NEW j \in DOMAIN budgets, NEW b, b = budgets'[j] PROVE Follows(b)'
    <3>1. CASE j = i
      BY <1>2, <2>2, <3>1
    <3>2. CASE j # i
      <4>1. b = budgets[j]
        BY <1>2, <2>2, <3>2
      <4>2. Follows(b) /\ b.label # d.label
        BY <2>1, <3>2, <4>1
      <4> QED BY <1>1, <4>2, FollowsElsewhere
    <3> QED BY <3>1, <3>2
  <2>3. \A j \in DOMAIN budgets' : Follows(budgets[j])' /\ find_budget(budgets[j].label)' = {j}
    <3>1. ASSUME NEW j \in DOMAIN budgets PROVE Follows(budgets[j])'
      <4>1. PICK b : b = budgets'[j]
        OBVIOUS
      <4>2. Follows(b)'
        BY <2>2, <4>1
      <4> QED BY <4>1, <4>2 DEF Follows
    <3>2. \A j \in DOMAIN budgets : find_budget(budgets[j].label)' = {j}
      BY <1>3, <1>4, <2>1 DEF find_budget
    <3> QED BY <1>2, <3>1, <3>2
  <2>4. ASSUME NEW n \in DOMAIN done', done'[n].kind = "define"
        PROVE  done'[n].ret = 0 <=> find_budget(done'[n].label) # {}
    <3>1. CASE n \in DOMAIN done /\ done'[n] = done[n]
      BY <2>4, <3>1 DEF BudgetsFollowCalls
    <3>2. CASE done'[n] = d
      BY <2>4, <3>2
    <3> QED BY <1>1, <3>1, <3>2, DoneAppend
  <2> QED BY <1>4, <2>3, <2>4 DEF BudgetsFollowCalls
<1> QED BY <1>2, <1>5, <1>6

\* The table stays: a refusal, a check without a budget, a report.
LEMMA KeepEntries ==
  ASSUME BudgetType, RefusedWhenFull, BudgetsFollowCalls, UNCHANGED <<overlapped, budgets>>,
         NEW d \in Returned, done' = Append(done, d),
         d.kind = "report" \/ find_budget(d.label) = {},
         d.kind = "define" => d.ret = -1 /\ Len(budgets) >= MaxBudgets
  PROVE  budgets' \in Seq(BudgetEntry) /\ RefusedWhenFull' /\ BudgetsFollowCalls'
<1>1. budgets \in Seq(BudgetEntry) /\ done \in Seq(Returned) /\ Len(budgets) \in Nat /\ MaxBudgets \in Nat
  BY LenProperties, BudgetNats DEF BudgetType
<1>2. \A l : find_budget(l)' = find_budget(l)
  BY DEF find_budget
<1>3. RefusedWhenFull'
  <2>1. \A n \in 1..Len(done') : \/ n \in 1..Len(done) /\ done'[n] = done[n]
                                 \/ done'[n] = d
    BY <1>1, DoneAppend
  <2>2. ~ overlapped => (d.kind = "define" => Len(budgets) = MaxBudgets)
    BY <1>1 DEF RefusedWhenFull
  <2> QED BY <2>1, <2>2 DEF RefusedWhenFull
<1>4. BudgetsFollowCalls'
  <2> SUFFICES ASSUME ~ overlapped PROVE BudgetsFollowCalls'
    BY DEF BudgetsFollowCalls
  <2>1. \A j \in DOMAIN budgets : Follows(budgets[j]) /\ find_budget(budgets[j].label) = {j}
    BY DEF BudgetsFollowCalls
  <2>2. ASSUME NEW j \in DOMAIN budgets, NEW b, b = budgets[j] PROVE Follows(b)'
    <3>1. Follows(b) /\ (d.kind = "report" \/ b.label # d.label)
      BY <2>1, <2>2 DEF find_budget
    <3> QED BY <1>1, <3>1, FollowsElsewhere
  <2>3. \A j \in DOMAIN budgets' : Follows(budgets[j])' /\ find_budget(budgets[j].label)' = {j}
    <3>1. ASSUME NEW j \in DOMAIN budgets PROVE Follows(budgets[j])'
      <4>1. PICK b : b = budgets[j] /\ b = budgets'[j]
        OBVIOUS
      <4>2. Follows(b)'
        BY <2>2, <4>1
      <4> QED BY <4>1, <4>2 DEF Follows
    <3>2. \A j \in DOMAIN budgets : find_budget(budgets[j].label)' = {j}
      BY <1>2, <2>1 DEF find_budget
    <3> QED BY <3>1, <3>2
  <2>4. ASSUME NEW n \in DOMAIN done', done'[n].kind = "define"
        PROVE  done'[n].ret = 0 <=> find_budget(done'[n].label) # {}
    <3>1. CASE n \in DOMAIN done /\ done'[n] = done[n]
      BY <2>4, <3>1 DEF BudgetsFollowCalls
    <3>2. CASE done'[n] = d
      BY <2>4, <3>2
    <3> QED BY <1>1, <3>1, <3>2, DoneAppend
  <2> QED BY <1>2, <2>3, <2>4 DEF BudgetsFollowCalls
<1> QED BY <1>1, <1>3, <1>4

\* The label gets its entry.
LEMMA NewEntry ==
  ASSUME BudgetType, RefusedWhenFull, BudgetsFollowCalls, UNCHANGED overlapped,
         NEW d \in Returned, done' = Append(done, d), d.kind = "define", d.ret = 0,
         find_budget(d.label) = {}, Len(budgets) < MaxBudgets,
         budgets' = Append(budgets, [label |-> d.label, budget_us |-> d.us,
                                     violation_count |-> 0, consecutive |-> 0])
  PROVE  budgets' \in Seq(BudgetEntry) /\ RefusedWhenFull' /\ BudgetsFollowCalls'
<1> DEFINE e == [label |-> d.label, budget_us |-> d.us, violation_count |-> 0, consecutive |-> 0]
           new == Len(budgets) + 1
<1>1. budgets \in Seq(BudgetEntry) /\ done \in Seq(Returned) /\ MaxBudgets \in Nat
  BY BudgetNats DEF BudgetType
<1>2. e \in BudgetEntry /\ e.label = d.label /\ e.budget_us = d.us /\ e.violation_count = 0 /\ e.consecutive = 0
  BY DEF BudgetEntry, Returned
<1> HIDE DEF e
<1>3. budgets' = Append(budgets, e)
  BY DEF e
<1>4. /\ budgets' \in Seq(BudgetEntry) /\ Len(budgets) \in Nat /\ Len(budgets') = new
      /\ DOMAIN budgets = 1..Len(budgets) /\ DOMAIN budgets' = 1..new
      /\ budgets'[new] = e /\ \A j \in 1..Len(budgets) : budgets'[j] = budgets[j]
  BY <1>1, <1>2, <1>3, LenProperties, AppendProperties
<1>5. /\ new \notin DOMAIN budgets /\ \A j \in DOMAIN budgets' : j \in DOMAIN budgets \/ j = new
      /\ \A j \in DOMAIN budgets : j \in DOMAIN budgets' /\ budgets'[j] = budgets[j]
      /\ new \in DOMAIN budgets'
  BY <1>4
<1> HIDE DEF new
<1>6. \A l : l # d.label => find_budget(l)' = find_budget(l)
  BY <1>2, <1>4, <1>5 DEF find_budget
<1>7. find_budget(d.label)' = {new}
  BY <1>2, <1>4, <1>5 DEF find_budget
<1>8. RefusedWhenFull'
  <2>1. \A n \in 1..Len(done') : \/ n \in 1..Len(done) /\ done'[n] = done[n]
                                 \/ done'[n] = d
    BY <1>1, DoneAppend
  <2>2. Len(budgets') <= MaxBudgets /\ Len(budgets) # MaxBudgets
    <3>1. Len(budgets') = Len(budgets) + 1
      BY <1>4 DEF new
    <3>2. Len(budgets) \in Nat
      BY <1>4
    <3> QED BY <1>1, <3>1, <3>2
  <2> QED BY <2>1, <2>2 DEF RefusedWhenFull
<1>9. BudgetsFollowCalls'
  <2> SUFFICES ASSUME ~ overlapped PROVE BudgetsFollowCalls'
    BY DEF BudgetsFollowCalls
  <2>1. \A j \in DOMAIN budgets : Follows(budgets[j]) /\ find_budget(budgets[j].label) = {j}
    BY DEF BudgetsFollowCalls
  <2>2. \A j \in DOMAIN budgets : budgets[j].label # d.label
    BY DEF find_budget
  <2>3. Follows(e)'
    <3>1. CallsOf(d.label, "define", 0, 1) = {}
      BY <1>1, LenProperties DEF CallsOf, BudgetsFollowCalls
    <3> QED BY <1>1, <1>2, <3>1, FollowsNew
  <2>4. ASSUME NEW j \in DOMAIN budgets', NEW b, b = budgets'[j] PROVE Follows(b)'
    <3>1. CASE j = new
      BY <1>4, <2>3, <2>4, <3>1
    <3>2. CASE j \in DOMAIN budgets
      <4>1. Follows(b) /\ b.label # d.label
        BY <1>5, <2>1, <2>2, <2>4, <3>2
      <4> QED BY <1>1, <4>1, FollowsElsewhere
    <3> QED BY <1>5, <3>1, <3>2
  <2>5. \A j \in DOMAIN budgets' : Follows(budgets[j])'
    <3>1. ASSUME NEW j \in DOMAIN budgets' PROVE Follows(budgets[j])'
      <4>1. PICK b : b = budgets'[j]
        OBVIOUS
      <4>2. Follows(b)'
        BY <2>4, <4>1
      <4> QED BY <4>1, <4>2 DEF Follows
    <3> QED BY <3>1
  <2>6. \A j \in DOMAIN budgets' : find_budget(budgets[j].label)' = {j}
    <3>1. ASSUME NEW j \in DOMAIN budgets' PROVE find_budget(budgets[j].label)' = {j}
      <4>1. CASE j = new
        BY <1>2, <1>4, <1>7, <4>1 DEF find_budget
      <4>2. CASE j \in DOMAIN budgets
        BY <1>5, <1>6, <2>1, <2>2, <4>2 DEF find_budget
      <4> QED BY <1>5, <4>1, <4>2
    <3> QED BY <3>1
  <2>7. ASSUME NEW n \in DOMAIN done', done'[n].kind = "define", NEW l, l = done'[n].label
        PROVE  done'[n].ret = 0 <=> find_budget(l)' # {}
    <3>1. CASE n \in DOMAIN done /\ done'[n] = done[n]
      <4>1. done[n].ret = 0 <=> find_budget(done[n].label) # {}
        BY <2>7, <3>1 DEF BudgetsFollowCalls
      <4>2. done[n].label # d.label
        <5> SUFFICES ASSUME done[n].label = d.label PROVE FALSE
          OBVIOUS
        <5>1. done[n].ret # 0 /\ done[n].ret \in {0, -1}
          <6>1. done[n] \in Returned
            BY <1>1, <3>1, ElementOfSeq, LenProperties
          <6> QED BY <4>1, <6>1 DEF Returned
        <5>2. Len(budgets) = MaxBudgets
          BY <1>1, <2>7, <3>1, <5>1, LenProperties DEF RefusedWhenFull
        <5> QED BY <1>1, <1>4, <5>2
      <4> QED BY <1>6, <2>7, <3>1, <4>1, <4>2
    <3>2. CASE done'[n] = d
      BY <1>7, <2>7, <3>2
    <3> QED BY <1>1, <3>1, <3>2, DoneAppend
  <2>8. \A n \in DOMAIN done' : done'[n].kind = "define" => (done'[n].ret = 0 <=> find_budget(done[n].label)' # {})
    <3>1. ASSUME NEW n \in DOMAIN done', done'[n].kind = "define"
          PROVE  done'[n].ret = 0 <=> find_budget(done[n].label)' # {}
      <4>1. PICK l : l = done'[n].label
        OBVIOUS
      <4>2. done'[n].ret = 0 <=> find_budget(l)' # {}
        BY <2>7, <3>1, <4>1
      <4> QED BY <4>1, <4>2 DEF find_budget
    <3> QED BY <3>1
  <2> QED BY <2>5, <2>6, <2>8 DEF BudgetsFollowCalls
<1> QED BY <1>4, <1>8, <1>9

-----------------------------------------------------------------------------
(* Every step of TimingBudget preserves the invariant. *)

\* A call of this module leaves the ring and the prints alone.
LEMMA CallKeepsTiming ==
  ASSUME TInv, NEW c \in Caller, UNCHANGED <<cycles, ring, log, prints>>,
         \A d \in Caller : d # c => job'[d] = job[d],
         job'[c].at \notin {"section", "store", "print"}
  PROVE  RingInv' /\ PrintInv'
<1>1. RingInv'
  BY RingKept DEF TInv, RingInv, RingType
<1>2. PrintInv'
  BY PrintKept DEF TInv
<1> QED BY <1>1, <1>2

LEMMA TableKept ==
  ASSUME BudgetInv, UNCHANGED <<budgets, done>>, ~ overlapped' => ~ overlapped
  PROVE  budgets' \in Seq(BudgetEntry) /\ done' \in Seq(Returned) /\ RefusedWhenFull' /\ BudgetsFollowCalls'
<1>1. budgets' \in Seq(BudgetEntry) /\ done' \in Seq(Returned) /\ RefusedWhenFull'
  BY DEF BudgetInv, BudgetType, RefusedWhenFull
<1>2. \A l, kind, ret, k : CallsOf(l, kind, ret, k)' = CallsOf(l, kind, ret, k)
  BY DEF CallsOf
<1>3. \A b : Follows(b)' <=> Follows(b)
  BY <1>2 DEF Follows
<1>4. \A l : find_budget(l)' = find_budget(l)
  BY DEF find_budget
<1> QED BY <1>1, <1>3, <1>4 DEF BudgetInv, BudgetsFollowCalls

\* The threads and the mutex after a step of one call.
LEMMA EnterInv ==
  ASSUME TInv, NEW c \in Caller, NEW kind \in {"define", "check", "report"}, NEW l \in Names,
         NEW us \in Nat, Enter(c, kind, l, us)
  PROVE  TInv'
<1> DEFINE x == [at |-> IF initialized THEN "lock" ELSE "mutex", kind |-> kind, label |-> l, us |-> us]
<1>1. /\ job[c].at = "free" /\ Does(c, x)
      /\ overlapped' = (overlapped \/ (~ initialized /\ \E d \in Caller : Calling(d, {"mutex", "table"})))
      /\ UNCHANGED <<cycles, ring, log, prints, initialized, budgets, budget_mutex, done>>
  BY DEF Enter, Free
<1>2. /\ x.at = (IF initialized THEN "lock" ELSE "mutex") /\ x.kind = kind /\ x.label = l /\ x.us = us
      /\ x = [at |-> x.at, kind |-> x.kind, label |-> x.label, us |-> x.us]
  OBVIOUS
<1> HIDE DEF x
<1>3. Jobs' /\ job'[c] = x /\ \A d \in Caller : d # c => job'[d] = job[d]
  BY <1>1, DoesOne DEF TInv
<1>4. RingInv' /\ PrintInv'
  BY <1>1, <1>2, <1>3, CallKeepsTiming
<1>5. Callers'
  BY <1>2, <1>3 DEF TInv, Callers, Calling
<1>6. InitOnce' /\ HoldsMutex' /\ initialized' \in BOOLEAN /\ overlapped' \in BOOLEAN
  BY <1>1, <1>2, <1>3 DEF TInv, BudgetInv, BudgetType, InitOnce, HoldsMutex, Calling
<1>7. BudgetInv'
  BY <1>1, <1>6, TableKept DEF TInv, BudgetInv, BudgetType
<1> QED BY <1>3, <1>4, <1>5, <1>7 DEF TInv

LEMMA GoesOn ==
  ASSUME TInv, NEW c \in Caller, Calling(c, CallSteps), NEW step \in CallSteps, Goto(c, step),
         UNCHANGED <<cycles, ring, log, prints>>
  PROVE  /\ Jobs' /\ Callers' /\ RingInv' /\ PrintInv'
         /\ job'[c].at = step /\ \A d \in Caller : d # c => job'[d].at = job[d].at
<1>1. /\ Jobs' /\ \A d \in Caller : d # c => job'[d] = job[d]
      /\ job'[c] = [at |-> step, kind |-> job[c].kind, label |-> job[c].label, us |-> job[c].us]
  BY GotoOne DEF TInv
<1>2. job'[c].at = step
  BY <1>1
<1>3. RingInv' /\ PrintInv'
  BY <1>1, <1>2, CallKeepsTiming DEF CallSteps
<1>4. /\ job'[c].kind = job[c].kind /\ job'[c].label = job[c].label /\ job'[c].us = job[c].us
      /\ job'[c] = [at |-> job'[c].at, kind |-> job'[c].kind, label |-> job'[c].label, us |-> job'[c].us]
  BY <1>1
<1>5. job[c].kind \in {"define", "check", "report"} /\ job[c].label \in Names /\ job[c].us \in Nat
  BY DEF TInv, Callers
<1>6. Callers'
  BY <1>1, <1>4, <1>5 DEF TInv, Callers, Calling
<1> QED BY <1>1, <1>2, <1>3, <1>6

LEMMA InitMutexInv ==
  ASSUME TInv, NEW c \in Caller, InitMutex(c)
  PROVE  TInv'
<1>1. /\ job[c].at = "mutex" /\ Calling(c, CallSteps) /\ Goto(c, "table") /\ budget_mutex' = Nobody
      /\ UNCHANGED <<cycles, ring, log, prints, initialized, budgets, done, overlapped>>
  BY DEF InitMutex, Calling, CallSteps
<1>2. /\ Jobs' /\ Callers' /\ RingInv' /\ PrintInv'
      /\ job'[c].at = "table" /\ \A d \in Caller : d # c => job'[d].at = job[d].at
  BY <1>1, GoesOn DEF CallSteps
<1>3. InitOnce' /\ HoldsMutex'
  BY <1>1, <1>2 DEF TInv, BudgetInv, InitOnce, HoldsMutex, Calling
<1>4. BudgetInv'
  BY <1>1, <1>3, TableKept DEF TInv, BudgetInv, BudgetType
<1> QED BY <1>2, <1>4 DEF TInv

LEMMA InitTableInv ==
  ASSUME TInv, NEW c \in Caller, InitTable(c)
  PROVE  TInv'
<1>1. /\ job[c].at = "table" /\ Calling(c, CallSteps) /\ Goto(c, "lock")
      /\ budgets' = << >> /\ initialized' = TRUE
      /\ UNCHANGED <<cycles, ring, log, prints, budget_mutex, done, overlapped>>
  BY DEF InitTable, Calling, CallSteps
<1>2. /\ Jobs' /\ Callers' /\ RingInv' /\ PrintInv'
      /\ job'[c].at = "lock" /\ \A d \in Caller : d # c => job'[d].at = job[d].at
  BY <1>1, GoesOn DEF CallSteps
<1>3. ~ overlapped => done = << >> /\ ~ initialized
  BY <1>1 DEF TInv, BudgetInv, InitOnce, Calling
<1>4. InitOnce' /\ HoldsMutex'
  BY <1>1, <1>2 DEF TInv, BudgetInv, InitOnce, HoldsMutex, Calling
<1>5. BudgetType'
  <2>1. << >> \in Seq(BudgetEntry)
    BY EmptySeq
  <2> QED BY <1>1, <2>1 DEF TInv, BudgetInv, BudgetType
<1>6. RefusedWhenFull' /\ BudgetsFollowCalls'
  <2>1. Len(<< >>) = 0 /\ DOMAIN << >> = {} /\ 0 <= MaxBudgets
    BY BudgetNats, EmptySeq
  <2>2. ~ overlapped => 1..Len(done') = {} /\ DOMAIN done' = {}
    BY <1>1, <1>3, <2>1
  <2> QED BY <1>1, <2>1, <2>2 DEF RefusedWhenFull, BudgetsFollowCalls
<1> QED BY <1>2, <1>4, <1>5, <1>6 DEF TInv, BudgetInv

LEMMA LockInv ==
  ASSUME TInv, NEW c \in Caller, LockBudgets(c)
  PROVE  TInv'
<1>1. /\ job[c].at = "lock" /\ Calling(c, CallSteps) /\ Goto(c, "locked")
      /\ budget_mutex = Nobody /\ budget_mutex' = c
      /\ UNCHANGED <<cycles, ring, log, prints, initialized, budgets, done, overlapped>>
  BY DEF LockBudgets, Calling, CallSteps
<1>2. /\ Jobs' /\ Callers' /\ RingInv' /\ PrintInv'
      /\ job'[c].at = "locked" /\ \A d \in Caller : d # c => job'[d].at = job[d].at
  BY <1>1, GoesOn DEF CallSteps
<1>3. HoldsMutex'
  BY <1>1, <1>2, NobodyIsNoCaller DEF TInv, BudgetInv, HoldsMutex, Calling
<1>4. InitOnce'
  BY <1>1, <1>2 DEF TInv, BudgetInv, InitOnce, Calling
<1>5. BudgetInv'
  BY <1>1, <1>3, <1>4, TableKept DEF TInv, BudgetInv, BudgetType
<1> QED BY <1>2, <1>5 DEF TInv

-----------------------------------------------------------------------------
(* A call returns. *)

\* What the call of c returns with ret.
Answer(c, ret) == [kind |-> job[c].kind, label |-> job[c].label, us |-> job[c].us, ret |-> ret]

LEMMA AnswerType ==
  ASSUME TInv, NEW c \in Caller, Calling(c, {"locked"}), NEW ret \in {0, -1}
  PROVE  /\ Answer(c, ret) \in Returned
         /\ Answer(c, ret).kind = job[c].kind /\ Answer(c, ret).label = job[c].label
         /\ Answer(c, ret).us = job[c].us /\ Answer(c, ret).ret = ret
         /\ job[c].us \in Nat /\ job[c].label \in Names
<1>1. job[c].kind \in {"define", "check", "report"} /\ job[c].label \in Names /\ job[c].us \in Nat
  BY DEF TInv, Callers, Calling, CallSteps
<1> QED BY <1>1 DEF Answer, Returned

LEMMA ReturnInv ==
  ASSUME TInv, NEW c \in Caller, Calling(c, {"locked"}), NEW ret \in {0, -1}, Return(c, ret),
         budgets' \in Seq(BudgetEntry), RefusedWhenFull', BudgetsFollowCalls'
  PROVE  TInv'
<1>1. /\ Does(c, Free) /\ done' = Append(done, Answer(c, ret))
      /\ budget_mutex' = IF budget_mutex = c THEN Nobody ELSE budget_mutex
      /\ UNCHANGED <<cycles, ring, log, prints, initialized, overlapped>>
  BY DEF Return, Answer
<1>2. Jobs' /\ job'[c].at = "free" /\ \A d \in Caller : d # c => job'[d] = job[d]
  BY <1>1, DoesOne DEF TInv, Free
<1>3. RingInv' /\ PrintInv'
  BY <1>1, <1>2, CallKeepsTiming
<1>4. Callers'
  BY <1>2 DEF TInv, Callers, Calling, CallSteps
<1>5. InitOnce'
  BY <1>1, <1>2 DEF TInv, BudgetInv, InitOnce, Calling
<1>6. HoldsMutex'
  BY <1>1, <1>2, NobodyIsNoCaller DEF TInv, BudgetInv, HoldsMutex, Calling
<1>7. BudgetType'
  <2>1. done' \in Seq(Returned)
    BY <1>1, AnswerType, AppendProperties DEF TInv, BudgetInv, BudgetType
  <2> QED BY <1>1, <2>1 DEF TInv, BudgetInv, BudgetType
<1> QED BY <1>2, <1>3, <1>4, <1>5, <1>6, <1>7 DEF TInv, BudgetInv

\* An entry is replaced as a whole by one with other fields.
LEMMA EntryFields ==
  ASSUME NEW seq \in Seq(BudgetEntry), NEW i \in DOMAIN seq, NEW us \in Nat
  PROVE  LET b == seq[i]
             With(u, v, n) == [label |-> b.label, budget_us |-> u, violation_count |-> v, consecutive |-> n]
         IN  /\ b \in BudgetEntry
             /\ [seq EXCEPT ![i].budget_us = us]
                  = [seq EXCEPT ![i] = With(us, b.violation_count, b.consecutive)]
             /\ [seq EXCEPT ![i].violation_count = @ + 1, ![i].consecutive = @ + 1]
                  = [seq EXCEPT ![i] = With(b.budget_us, b.violation_count + 1, b.consecutive + 1)]
             /\ [seq EXCEPT ![i].consecutive = 0]
                  = [seq EXCEPT ![i] = With(b.budget_us, b.violation_count, 0)]
<1> DEFINE b == seq[i]
           With(u, v, n) == [label |-> b.label, budget_us |-> u, violation_count |-> v, consecutive |-> n]
<1>1. b \in BudgetEntry
  BY ElementOfSeq, LenProperties
<1>2. b = With(b.budget_us, b.violation_count, b.consecutive)
  BY <1>1 DEF BudgetEntry
<1>3. [seq EXCEPT ![i].budget_us = us] = [seq EXCEPT ![i] = With(us, b.violation_count, b.consecutive)]
  <2>1. [b EXCEPT !.budget_us = us] = With(us, b.violation_count, b.consecutive)
    BY <1>2
  <2> QED BY <2>1
<1>4. [seq EXCEPT ![i].consecutive = 0] = [seq EXCEPT ![i] = With(b.budget_us, b.violation_count, 0)]
  <2>1. [b EXCEPT !.consecutive = 0] = With(b.budget_us, b.violation_count, 0)
    BY <1>2
  <2> QED BY <2>1
<1>5. [seq EXCEPT ![i].violation_count = @ + 1, ![i].consecutive = @ + 1]
        = [seq EXCEPT ![i] = With(b.budget_us, b.violation_count + 1, b.consecutive + 1)]
  <2>1. [b EXCEPT !.violation_count = @ + 1, !.consecutive = @ + 1]
          = With(b.budget_us, b.violation_count + 1, b.consecutive + 1)
    <3>1. [b EXCEPT !.violation_count = b.violation_count + 1]
            = With(b.budget_us, b.violation_count + 1, b.consecutive)
      BY <1>2
    <3>2. [With(b.budget_us, b.violation_count + 1, b.consecutive) EXCEPT !.consecutive = b.consecutive + 1]
            = With(b.budget_us, b.violation_count + 1, b.consecutive + 1)
      OBVIOUS
    <3>3. [b EXCEPT !.violation_count = @ + 1, !.consecutive = @ + 1]
            = [[b EXCEPT !.violation_count = b.violation_count + 1] EXCEPT !.consecutive = b.consecutive + 1]
      OBVIOUS
    <3> QED BY <3>1, <3>2, <3>3
  <2>2. [seq EXCEPT ![i].violation_count = @ + 1, ![i].consecutive = @ + 1]
          = [seq EXCEPT ![i] = [b EXCEPT !.violation_count = @ + 1, !.consecutive = @ + 1]]
    OBVIOUS
  <2> QED BY <2>1, <2>2
<1> QED BY <1>1, <1>3, <1>4, <1>5

LEMMA DefineInv ==
  ASSUME TInv, NEW c \in Caller, Define(c)
  PROVE  TInv'
<1>1. Calling(c, {"locked"}) /\ job[c].kind = "define"
  BY DEF Define
<1>2. BudgetType /\ RefusedWhenFull /\ BudgetsFollowCalls
  BY DEF TInv, BudgetInv
<1>3. budgets \in Seq(BudgetEntry) /\ done \in Seq(Returned)
  BY <1>2 DEF BudgetType
<1>4. ASSUME NEW i \in find_budget(job[c].label), Return(c, 0),
             budgets' = [budgets EXCEPT ![i].budget_us = job[c].us]
      PROVE  TInv'
  <2>1. PICK d : d = Answer(c, 0)
    OBVIOUS
  <2>2. d \in Returned /\ d.kind = "define" /\ d.ret = 0 /\ d.label = job[c].label /\ d.us = job[c].us
    BY <1>1, <2>1, AnswerType
  <2>3. done' = Append(done, d) /\ UNCHANGED overlapped
    BY <1>4, <2>1 DEF Return, Answer
  <2>4. i \in DOMAIN budgets /\ budgets[i].label = d.label /\ i \in find_budget(d.label)
    BY <2>2 DEF find_budget
  <2>5. PICK b : b = budgets[i]
    OBVIOUS
  <2>6. PICK e : e = [label |-> b.label, budget_us |-> d.us, violation_count |-> b.violation_count,
                      consecutive |-> b.consecutive]
    OBVIOUS
  <2>7. d.us \in Nat
    BY <2>2 DEF Returned
  <2>8. b \in BudgetEntry /\ budgets' = [budgets EXCEPT ![i] = e]
    <3>1. PICK us : us = d.us
      OBVIOUS
    <3>2. us \in Nat /\ budgets' = [budgets EXCEPT ![i].budget_us = us]
      BY <1>4, <2>2, <2>7, <3>1
    <3>3. e = [label |-> b.label, budget_us |-> us, violation_count |-> b.violation_count,
               consecutive |-> b.consecutive]
      BY <2>6, <3>1
    <3>4. /\ budgets[i] \in BudgetEntry
          /\ [budgets EXCEPT ![i].budget_us = us]
               = [budgets EXCEPT ![i] = [label |-> budgets[i].label, budget_us |-> us,
                                         violation_count |-> budgets[i].violation_count,
                                         consecutive |-> budgets[i].consecutive]]
      BY <1>3, <2>4, <3>2, EntryFields
    <3> QED BY <2>5, <3>2, <3>3, <3>4
  <2>9. e \in BudgetEntry /\ e.label = d.label
    BY <2>4, <2>5, <2>6, <2>7, <2>8 DEF BudgetEntry
  <2>10. ~ overlapped => Follows(e)'
    <3>1. ~ overlapped => Follows(b)
      BY <1>2, <2>4, <2>5 DEF BudgetsFollowCalls
    <3> QED BY <1>3, <2>2, <2>3, <2>4, <2>5, <2>6, <3>1, FollowsDefined
  <2>11. budgets' \in Seq(BudgetEntry) /\ RefusedWhenFull' /\ BudgetsFollowCalls'
    BY <1>2, <2>2, <2>3, <2>4, <2>8, <2>9, <2>10, UpdateEntry
  <2> QED BY <1>1, <1>4, <2>11, ReturnInv
<1>5. ASSUME find_budget(job[c].label) = {}, Len(budgets) < MaxBudgets, Return(c, 0),
             budgets' = Append(budgets, [label |-> job[c].label, budget_us |-> job[c].us,
                                         violation_count |-> 0, consecutive |-> 0])
      PROVE  TInv'
  <2>1. PICK d : d = Answer(c, 0)
    OBVIOUS
  <2>2. d \in Returned /\ d.kind = "define" /\ d.ret = 0 /\ d.label = job[c].label /\ d.us = job[c].us
    BY <1>1, <2>1, AnswerType
  <2>3. done' = Append(done, d) /\ UNCHANGED overlapped
    BY <1>5, <2>1 DEF Return, Answer
  <2>4. find_budget(d.label) = {} /\ budgets' = Append(budgets, [label |-> d.label, budget_us |-> d.us,
                                                                 violation_count |-> 0, consecutive |-> 0])
    BY <1>5, <2>2
  <2>5. budgets' \in Seq(BudgetEntry) /\ RefusedWhenFull' /\ BudgetsFollowCalls'
    BY <1>2, <1>5, <2>2, <2>3, <2>4, NewEntry
  <2> QED BY <1>1, <1>5, <2>5, ReturnInv
<1>6. ASSUME find_budget(job[c].label) = {}, Len(budgets) >= MaxBudgets, Return(c, -1), UNCHANGED budgets
      PROVE  TInv'
  <2>1. PICK d : d = Answer(c, -1)
    OBVIOUS
  <2>2. d \in Returned /\ d.kind = "define" /\ d.ret = -1 /\ d.label = job[c].label
    BY <1>1, <2>1, AnswerType
  <2>3. done' = Append(done, d) /\ UNCHANGED overlapped
    BY <1>6, <2>1 DEF Return, Answer
  <2>4. budgets' \in Seq(BudgetEntry) /\ RefusedWhenFull' /\ BudgetsFollowCalls'
    BY <1>2, <1>6, <2>2, <2>3, KeepEntries
  <2> QED BY <1>1, <1>6, <2>4, ReturnInv
<1> QED BY <1>4, <1>5, <1>6 DEF Define

LEMMA CheckInv ==
  ASSUME TInv, NEW c \in Caller, Check(c)
  PROVE  TInv'
<1>1. Calling(c, {"locked"}) /\ job[c].kind = "check"
  BY DEF Check
<1>2. BudgetType /\ RefusedWhenFull /\ BudgetsFollowCalls
  BY DEF TInv, BudgetInv
<1>3. budgets \in Seq(BudgetEntry) /\ done \in Seq(Returned)
  BY <1>2 DEF BudgetType
<1>4. ASSUME NEW i \in find_budget(job[c].label), Return(c, -1),
             budgets' = [budgets EXCEPT ![i].violation_count = @ + 1, ![i].consecutive = @ + 1]
      PROVE  TInv'
  <2>1. PICK d : d = Answer(c, -1)
    OBVIOUS
  <2>2. d \in Returned /\ d.kind = "check" /\ d.ret = -1 /\ d.label = job[c].label
    BY <1>1, <2>1, AnswerType
  <2>3. done' = Append(done, d) /\ UNCHANGED overlapped
    BY <1>4, <2>1 DEF Return, Answer
  <2>4. i \in DOMAIN budgets /\ budgets[i].label = d.label /\ i \in find_budget(d.label)
    BY <2>2 DEF find_budget
  <2>5. PICK b : b = budgets[i]
    OBVIOUS
  <2>6. PICK e : e = [label |-> b.label, budget_us |-> b.budget_us, violation_count |-> b.violation_count + 1,
                      consecutive |-> b.consecutive + 1]
    OBVIOUS
  <2>7. b \in BudgetEntry /\ budgets' = [budgets EXCEPT ![i] = e]
    BY <1>3, <1>4, <2>4, <2>5, <2>6, EntryFields
  <2>8. e \in BudgetEntry /\ e.label = d.label
    BY <2>4, <2>5, <2>6, <2>7 DEF BudgetEntry
  <2>9. ~ overlapped => Follows(e)'
    <3>1. ~ overlapped => Follows(b)
      BY <1>2, <2>4, <2>5 DEF BudgetsFollowCalls
    <3> QED BY <1>3, <2>2, <2>3, <2>4, <2>5, <2>6, <3>1, FollowsViolated
  <2>10. budgets' \in Seq(BudgetEntry) /\ RefusedWhenFull' /\ BudgetsFollowCalls'
    BY <1>2, <2>2, <2>3, <2>4, <2>7, <2>8, <2>9, UpdateEntry
  <2> QED BY <1>1, <1>4, <2>10, ReturnInv
<1>5. ASSUME NEW i \in find_budget(job[c].label), Return(c, 0),
             budgets' = [budgets EXCEPT ![i].consecutive = 0]
      PROVE  TInv'
  <2>1. PICK d : d = Answer(c, 0)
    OBVIOUS
  <2>2. d \in Returned /\ d.kind = "check" /\ d.ret = 0 /\ d.label = job[c].label
    BY <1>1, <2>1, AnswerType
  <2>3. done' = Append(done, d) /\ UNCHANGED overlapped
    BY <1>5, <2>1 DEF Return, Answer
  <2>4. i \in DOMAIN budgets /\ budgets[i].label = d.label /\ i \in find_budget(d.label)
    BY <2>2 DEF find_budget
  <2>5. PICK b : b = budgets[i]
    OBVIOUS
  <2>6. PICK e : e = [label |-> b.label, budget_us |-> b.budget_us, violation_count |-> b.violation_count,
                      consecutive |-> 0]
    OBVIOUS
  <2>7. b \in BudgetEntry /\ budgets' = [budgets EXCEPT ![i] = e]
    BY <1>3, <1>5, <2>4, <2>5, <2>6, EntryFields
  <2>8. e \in BudgetEntry /\ e.label = d.label
    BY <2>4, <2>5, <2>6, <2>7 DEF BudgetEntry
  <2>9. ~ overlapped => Follows(e)'
    <3>1. ~ overlapped => Follows(b)
      BY <1>2, <2>4, <2>5 DEF BudgetsFollowCalls
    <3> QED BY <1>3, <2>2, <2>3, <2>4, <2>5, <2>6, <3>1, FollowsWithin
  <2>10. budgets' \in Seq(BudgetEntry) /\ RefusedWhenFull' /\ BudgetsFollowCalls'
    BY <1>2, <2>2, <2>3, <2>4, <2>7, <2>8, <2>9, UpdateEntry
  <2> QED BY <1>1, <1>5, <2>10, ReturnInv
<1>6. ASSUME find_budget(job[c].label) = {}, Return(c, -1), UNCHANGED budgets
      PROVE  TInv'
  <2>1. PICK d : d = Answer(c, -1)
    OBVIOUS
  <2>2. d \in Returned /\ d.kind = "check" /\ d.ret = -1 /\ d.label = job[c].label
    BY <1>1, <2>1, AnswerType
  <2>3. done' = Append(done, d) /\ UNCHANGED overlapped
    BY <1>6, <2>1 DEF Return, Answer
  <2>4. budgets' \in Seq(BudgetEntry) /\ RefusedWhenFull' /\ BudgetsFollowCalls'
    BY <1>2, <1>6, <2>2, <2>3, KeepEntries
  <2> QED BY <1>1, <1>6, <2>4, ReturnInv
<1> QED BY <1>4, <1>5, <1>6 DEF Check

LEMMA ReportInv ==
  ASSUME TInv, NEW c \in Caller, Report(c)
  PROVE  TInv'
<1>1. Calling(c, {"locked"}) /\ job[c].kind = "report" /\ UNCHANGED budgets /\ Return(c, 0)
  BY DEF Report
<1>2. PICK d : d = Answer(c, 0)
  OBVIOUS
<1>3. d \in Returned /\ d.kind = "report"
  BY <1>1, <1>2, AnswerType
<1>4. done' = Append(done, d) /\ UNCHANGED overlapped
  BY <1>1, <1>2 DEF Return, Answer
<1>5. budgets' \in Seq(BudgetEntry) /\ RefusedWhenFull' /\ BudgetsFollowCalls'
  BY <1>1, <1>3, <1>4, KeepEntries DEF TInv, BudgetInv
<1> QED BY <1>1, <1>5, ReturnInv

LEMMA BudgetStepInv ==
  ASSUME TInv, BudgetNext
  PROVE  TInv'
<1>1. PICK c \in Caller :
        \/ \E l \in Label, us \in Budget : ceell_timing_budget_define(c, l, us)
        \/ \E l \in Label : ceell_timing_budget_check(c, l)
        \/ ceell_timing_budget_report(c)
        \/ InitMutex(c) \/ InitTable(c) \/ LockBudgets(c) \/ Define(c) \/ Check(c) \/ Report(c)
  BY DEF BudgetNext
<1>2. ASSUME NEW l \in Label, NEW us \in Budget, ceell_timing_budget_define(c, l, us) PROVE TInv'
  <2>1. us \in Nat /\ l \in Names /\ Enter(c, "define", l, us)
    BY <1>2, BudgetNats DEF Names, ceell_timing_budget_define
  <2> QED BY <2>1, EnterInv
<1>3. ASSUME NEW l \in Label, ceell_timing_budget_check(c, l) PROVE TInv'
  <2>1. MaxUs(l) \in Nat /\ l \in Names /\ Enter(c, "check", l, MaxUs(l))
    BY <1>3, MaxUsType DEF Names, ceell_timing_budget_check, TInv, RingInv
  <2> QED BY <2>1, EnterInv
<1>4. ASSUME ceell_timing_budget_report(c) PROVE TInv'
  <2>1. 0 \in Nat /\ "" \in Names /\ Enter(c, "report", "", 0)
    BY <1>4 DEF Names, ceell_timing_budget_report
  <2> QED BY <2>1, EnterInv
<1> QED BY <1>1, <1>2, <1>3, <1>4, InitMutexInv, InitTableInv, LockInv, DefineInv, CheckInv, ReportInv

LEMMA InitInv ==
  ASSUME Init
  PROVE  TInv
<1>1. /\ cycles = Booting /\ samples = [i \in Slot |-> Unused] /\ sample_head = 0 /\ sample_count = 0
      /\ job = [c \in Caller |-> Free] /\ log = << >>
      /\ printed = [c \in Caller |-> [l \in Label |-> 0]] /\ lasting = [c \in Caller |-> {}]
      /\ initialized = FALSE /\ budgets = << >> /\ budget_mutex = Nobody /\ done = << >> /\ overlapped = FALSE
  BY DEF Init, TimingInit
<1>2. \A c \in Caller : job[c].at = "free"
  BY <1>1 DEF Free
<1>3. /\ << >> \in Seq(Logged) /\ << >> \in Seq(BudgetEntry) /\ << >> \in Seq(Returned)
      /\ Len(<< >>) = 0 /\ DOMAIN << >> = {}
  BY EmptySeq
<1>4. Jobs /\ Callers
  BY <1>1, <1>2 DEF Jobs, Callers, Calling, CallSteps
<1>5. RingInv
  <2>1. Unused \in Sample /\ 0 \in Slot /\ 0 \in 0..Size /\ Booting \in Nat /\ 0..(0 - 1) = {}
    BY TimingNats DEF Unused, Sample, Names, Slot
  <2>2. RingType
    BY <1>1, <1>3, <2>1 DEF RingType
  <2>3. RingFills
    BY <1>1, <2>1 DEF RingFills, Filled
  <2>4. LatestSamples
    BY <1>1, <1>3, TimingNats DEF LatestSamples
  <2> QED BY <1>2, <2>2, <2>3, <2>4 DEF RingInv, Measuring
<1>6. PrintInv
  BY <1>1, <1>2 DEF PrintInv, PrintType, Printing
<1>7. BudgetInv
  <2>1. BudgetType
    BY <1>1, <1>3 DEF BudgetType
  <2>2. InitOnce /\ HoldsMutex
    BY <1>1, <1>2, NobodyIsNoCaller DEF InitOnce, HoldsMutex, Calling
  <2>3. RefusedWhenFull
    BY <1>1, <1>3, BudgetNats DEF RefusedWhenFull
  <2>4. BudgetsFollowCalls
    BY <1>1, <1>3 DEF BudgetsFollowCalls
  <2> QED BY <2>1, <2>2, <2>3, <2>4 DEF BudgetInv
<1> QED BY <1>4, <1>5, <1>6, <1>7 DEF TInv

LEMMA NextInv ==
  ASSUME TInv, [Next]_vars
  PROVE  TInv'
BY TimingStepInv, BudgetStepInv, StutterInv DEF Next

LEMMA TimingInvariant == Spec => []TInv
<1>1. Init => TInv
  BY InitInv
<1>2. TInv /\ [Next]_vars => TInv'
  BY NextInv
<1> QED BY <1>1, <1>2, PTL DEF Spec

-----------------------------------------------------------------------------
(* Theorems. *)

\* Whatever the threads that measure do and in whatever order they reach the mutex,
\* the ring holds the last samples stored, each under its label with its duration
\* (ceell_timing_stop).
THEOREM RingHoldsTheLatest == Spec => []LatestSamples
<1>1. TInv => LatestSamples
  BY DEF TInv, RingInv
<1> QED BY <1>1, TimingInvariant, PTL

\* A print that let other threads store samples between its lines has one line for
\* every label that stayed in the ring, and none has two (ceell_timing_print_stats).
THEOREM PrintsEachLabelOnce == Spec => []PrintComplete
<1>1. TInv => PrintComplete
  <2> SUFFICES ASSUME TInv, NEW c \in Caller, job[c].at = "print", NEW l \in Label
               PROVE  printed[c][l] <= 1 /\ (job[c].todo = {} /\ l \in lasting[c] => printed[c][l] = 1)
    BY DEF PrintComplete
  <2>1. Printing(c)
    BY DEF TInv, PrintInv
  <2> QED BY <2>1 DEF Printing
<1> QED BY <1>1, TimingInvariant, PTL

\* Unless two threads were in the unlocked first call together, the table of budgets is
\* what the calls that returned say of it (ceell_timing_budget_define and _check).
THEOREM BudgetsAreWhatCallsSay == Spec => []BudgetsFollowCalls
<1>1. TInv => BudgetsFollowCalls
  BY DEF TInv, BudgetInv
<1> QED BY <1>1, TimingInvariant, PTL
=============================================================================
