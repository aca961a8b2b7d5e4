------------------------------- MODULE Timing -------------------------------
(***************************************************************************)
(* ceell/core/timing.c: threads time sections of code with the cycle       *)
(* counter and store the durations in one ring; statistics are computed    *)
(* from the ring.  The ring is only touched under timing_mutex, each time  *)
(* in one critical section, so such a section is one step here.            *)
(***************************************************************************)
EXTENDS Integers, Sequences, FiniteSets

CONSTANTS
  Caller,  \* threads that measure, or print statistics
  Label,   \* the names of the measured sections
  Size,    \* CONFIG_CEELL_TIMING_SAMPLES
  Wrap,    \* 2^32: the cycle counter holds the cycles modulo it
  Hz,      \* CONFIG_SYS_CLOCK_HW_CYCLES_PER_SEC
  Mega,    \* 1000000
  Booting  \* cycles before ceell_timing_init

ASSUME TimingNats == Size \in Nat \ {0} /\ Wrap \in Nat \ {0} /\ Mega \in Nat \ {0} /\ Booting \in Nat
ASSUME ClockIsFast == Hz \in Nat /\ Hz >= Mega

VARIABLES
  cycles,        \* cycles since boot; the counter holds them modulo Wrap
  samples,       \* [0..Size-1 -> [label, duration_us]]
  sample_head,
  sample_count,
  job,           \* [Caller -> what it is doing, and its locals]
  log,           \* history: every sample stored: its label and how long it took
  printed,       \* history: [Caller -> [Label -> lines of the current print]]
  lasting        \* history: [Caller -> labels in the ring since the print began]

ring       == <<samples, sample_head, sample_count>>
prints     == <<printed, lasting>>
timingVars == <<cycles, ring, job, log, prints>>

Counter == cycles % Wrap
Slot    == 0..(Size - 1)
Unused  == [label |-> "", duration_us |-> 0]
Free    == [at |-> "free"]

TimingInit ==
  /\ cycles = Booting
  /\ samples = [i \in Slot |-> Unused] /\ sample_head = 0 /\ sample_count = 0
  /\ job = [c \in Caller |-> Free]
  /\ log = << >>
  /\ printed = [c \in Caller |-> [l \in Label |-> 0]]
  /\ lasting = [c \in Caller |-> {}]

Does(c, step) == job' = [job EXCEPT ![c] = step]

\* The labels that have a sample; the ring is filled from slot 0 on.
Filled       == 0..(sample_count - 1)
SlotsOf(l)   == {i \in Filled : samples[i].label = l}
Labels       == {samples[i].label : i \in Filled}

(***************************************************************************)
(* Measuring: the counter is read at the start and, before the mutex is    *)
(* taken, at the end; samples need not be stored in the order they ended.  *)
(***************************************************************************)
ceell_timing_start(c, l) ==
  /\ job[c] = Free
  /\ Does(c, [at |-> "section", label |-> l, handle |-> Counter, began |-> cycles])
  /\ UNCHANGED <<cycles, ring, log, prints>>

\* Mutant: without the wrap of the unsigned subtraction.
Elapsed_signed(from, to) == IF to >= from THEN to - from ELSE 0

\* end_cycle - handle in uint32_t.
Elapsed(from, to) == (to - from) % Wrap

cycles_to_us(n) == ((n * Mega) \div Hz) % Wrap

ReadEnd(c) ==
  /\ job[c].at = "section"
  /\ Does(c, [at |-> "store", label |-> job[c].label, cycles |-> Elapsed(job[c].handle, Counter),
              took |-> cycles - job[c].began])
  /\ UNCHANGED <<cycles, ring, log, prints>>

NextSlot(head) == (head + 1) % Size

Store(c) ==
  /\ job[c].at = "store"
  /\ samples' = [samples EXCEPT ![sample_head] =
                   [label |-> job[c].label, duration_us |-> cycles_to_us(job[c].cycles)]]
  /\ sample_head' = NextSlot(sample_head)
  /\ sample_count' = IF sample_count < Size THEN sample_count + 1 ELSE sample_count
  /\ log' = Append(log, [label |-> job[c].label, took |-> job[c].took])
  /\ Does(c, Free)
  /\ lasting' = [d \in Caller |-> lasting[d] \cap {samples'[i].label : i \in 0..(sample_count' - 1)}]
  /\ UNCHANGED <<cycles, printed>>

(***************************************************************************)
(* ceell_timing_get_stats: -1 without a sample, else what the ring says.   *)
(***************************************************************************)
Durations(l) == {samples[i].duration_us : i \in SlotsOf(l)}
MaxUs(l)     == CHOOSE d \in Durations(l) : \A e \in Durations(l) : e <= d

(***************************************************************************)
(* ceell_timing_print_stats collects the labels, releases the mutex, and   *)
(* asks for the statistics of each; one that left the ring is skipped.     *)
(***************************************************************************)
\* Mutant: a label is collected for every sample.
FirstOfItsLabel_any(i) == i \in Filled

FirstOfItsLabel(i) == \A j \in Filled : j < i => samples[j].label # samples[i].label

CollectLabels(c) ==
  /\ job[c] = Free
  /\ Does(c, [at |-> "print", todo |-> {<<i, samples[i].label>> : i \in {k \in Filled : FirstOfItsLabel(k)}}])
  /\ printed' = [printed EXCEPT ![c] = [l \in Label |-> 0]]
  /\ lasting' = [lasting EXCEPT ![c] = Labels]
  /\ UNCHANGED <<cycles, ring, log>>

PrintNext(c) ==
  /\ job[c].at = "print"
  /\ \E item \in job[c].todo :
       /\ \A other \in job[c].todo : item[1] <= other[1]
       /\ Does(c, [job[c] EXCEPT !.todo = @ \ {item}])
       /\ printed' = [printed EXCEPT ![c][item[2]] = IF SlotsOf(item[2]) = {} THEN @ ELSE @ + 1]
  /\ UNCHANGED <<cycles, ring, log, lasting>>

PrintEnd(c) ==
  /\ job[c].at = "print" /\ job[c].todo = {}
  /\ Does(c, Free)
  /\ printed' = [printed EXCEPT ![c] = [l \in Label |-> 0]]
  /\ lasting' = [lasting EXCEPT ![c] = {}]
  /\ UNCHANGED <<cycles, ring, log>>

\* External: the cycle counter counts.
Cycle ==
  /\ cycles' = cycles + 1
  /\ UNCHANGED <<ring, job, log, prints>>

(***************************************************************************)
(* Properties.                                                             *)
(***************************************************************************)
\* The n-th slot before the head.
Before(n) == (sample_head - n) % Size

\* Whatever the interleaving of the threads that measure, the ring holds exactly the
\* last samples stored, each under its label, with the true duration of its section
\* unless that was longer than the period of the counter.
LatestSamples ==
  /\ sample_count = IF Len(log) < Size THEN Len(log) ELSE Size
  /\ \A n \in 1..sample_count :
       LET last == log[Len(log) + 1 - n]
       IN  /\ samples[Before(n)].label = last.label
           /\ last.took < Wrap => samples[Before(n)].duration_us = (last.took * Mega) \div Hz

\* A print, though it releases the mutex after it collected the labels, has one line
\* for every label that stayed in the ring until it ended, and none has two.
PrintComplete ==
  \A c \in Caller : job[c].at = "print" =>
    \A l \in Label : /\ printed[c][l] <= 1
                     /\ job[c].todo = {} /\ l \in lasting[c] => printed[c][l] = 1
=============================================================================
