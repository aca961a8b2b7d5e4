# CEELL in TLA+

CEELL is middleware for the nodes of a vehicle network (C, on Zephyr).  Nodes announce
themselves by multicast, call each other's services by JSON messages over UDP, watch each
other's health, enter a safe state when a peer is lost, and update their firmware over
the air.  These modules model the threads of **one node** and what the network, the power
supply and MCUboot may do to it; TLC checks them on small instances, TLAPS proves some of
the results for all.  All paths below are relative to the repository.

## 1. Inventory

| component | state | operations | hard behaviour | what makes it correct |
|---|---|---|---|---|
| messaging, client (`ceell/network/messaging.c`) | `next_seq`; per priority `pending_seq`, `pending_rsp`, `rsp_sem`; one static request buffer | `ceell_msg_send_pri`, `handle_response` | callers and the dispatcher interleave; responses lost, late, duplicated, reordered | a call returns the response to its own request, or an error; every call returns |
| messaging, server (same file, `msg_deadline.c`) | one queue and thread per priority; one static response buffer | `msg_dispatcher_fn`, `handler_thread_fn`, `send_response` | queues full, handlers that hang, deadlines, shared buffer | one answer per request received; the dispatcher never blocks; nothing runs past its deadline |
| discovery (`discovery.c`) | `peers`, `peer_count`, `peer_mutex` | `update_peer`, `ceell_discovery_expire_peers`, `ceell_discovery_get_peers` | announcements during a sweep; swap compaction; a full table | the array behaves as a map; silent peers go, others stay |
| service discovery (`service_discovery.c`) | none | `ceell_service_find_peer` | routes from entries that are out of date | the first entry that offers the service, whatever address it has |
| health monitor (`health_monitor.c`) | `health_table` | `ceell_health_update` | works on a copy of the table and an older clock; slots run out | LOST exactly when a peer was silent for the timeout |
| safe state (`safe_state.c`) | `safe_active`, `safe_reason_val`, `safe_cb`, `safe_mutex` | `trigger`, `clear`, `register_cb`, the readers | several peers and the watchdog drive one flag; two atomics read without the lock | active while a peer is LOST, cleared when all are back; callback and readers learn what is true |
| lifecycle (`lifecycle.c`) | tick count | the loop: expire, health, feed, sleep | order of the three; a loop that hangs | ticks for ever |
| watchdog (`watchdog.c`) | `wdt_enabled`, `wdt_last_feed` (32 bits) | `init`, `feed`, its thread | a feed between the thread's two reads; uptime wrap | alarm if and only if the loop is late |
| OTA client (`ceell/ota/`) | `current_state`, `check_trigger`, flash slots | the thread, the `check` command | power failure between any two steps; download cut short | an image to boot and one to go back to; no downgrade; keeps polling |
| boot (`src/main.c`) | what has been made and started | a dozen initialisations in order | one of them fails; the threads started early use what comes later | nothing used before it exists; only fatal failures stop it (REQ-SAF-001) |
| config parser (`config_parser.c`) | `struct ceell_config` | load, parse V1/V2 | unreadable or malformed images, limits | falls back to defaults; keeps the first services that are valid |
| service registry (`service_registry.c`) | `services`, `svc_count` | register, look up, list | full; read by the announcer and the handlers meanwhile | what is announced can be called |
| redundancy (`msg_redundancy.c`) | second socket; `dedup_ring`, head, count | redundant send, dedup check | copies late, reordered, duplicated; one path down; a ring that wraps | each message once within the window, none lost while a path works |
| timing (`timing.c`) | `samples`, `sample_head`, `sample_count` | start, stop, statistics, print | sections of several threads overlap; the cycle counter wraps; the ring changes during a print | the latest samples, with true durations; a print that is complete |
| timing budget (`timing_budget.c`) | `budgets`, `consecutive_violations`, `budget_mutex` | define, check, report | lazy initialisation without a lock; full table | no definition and no violation lost or counted twice |
| TSN (`tsn.c`) | none: a stub | PCP of a priority | -- | -- |
| identity, net setup, OSAL | set once / none | wrappers of Zephyr | -- | -- |

How they interact: the discovery threads call `update_peer`; the lifecycle thread (it is
`main`) sweeps the table, then `ceell_health_update` copies it and calls
`on_health_change`, which triggers and clears the safe state; a message call asks service
discovery, that is the peer table, for an address; the dispatcher thread splits what the
socket receives into responses, for the slots, and requests, for the queues; the OTA
`check` command comes in through a handler thread and reaches the OTA thread by a
semaphore; the watchdog thread reads what the lifecycle loop stores.

The hazards of this code, each at its line with the properties about it, are listed in
`PROJECT.json`.

## 2. The modules

| module | models | abstracts |
|---|---|---|
| `MsgClient` | `ceell_msg_send_pri` as the steps between which threads interleave (claim, two halves of the encoding, send, take, wait, copy) and `handle_response` | JSON to a record; the socket to the sets of all datagrams sent so far, from which delivery takes any, any number of times |
| `MsgClientProofs` | theorems about it | |
| `MsgServer` | dispatcher, queues, handler threads and `send_response`, again with the encoding in two halves | service code to one step that may never be taken; an uptime to what is left of it on the wire (`Wrap`), a deadline to what the cast to `uint16_t` leaves of it (`Wide`) |
| `MsgServerProofs` | theorems about it | |
| `PeerMap` | **abstract specification**: a map from nodes to their last announcement | |
| `PeerTable` | the array `peers` with its sweep, one step per iteration, the read of the clock before the lock as a step of its own | the services CSV to a set |
| `NodeHealth` | EXTENDS `PeerTable`: the lifecycle tick, `ceell_health_update` step by step, `on_health_change` | `SafeState`'s trigger and clear to one step each, as only this thread makes them; the initialisation of monitor and manager is taken to have worked |
| `NodeHealthProofs` | theorems about `PeerTable`, the refinement of `PeerMap` among them, and about `NodeHealth` | |
| `SafeState` | trigger, clear and callback under the mutex, one step per store; the readers without it, one step per load; any number of threads; every call of a manager that is not initialised returns early | reasons to model values |
| `Watchdog` | EXTENDS `SafeState`: feed, and the thread with its two reads, which triggers; the lifecycle loop triggers and clears too; the width of the atomic is the constant `Half` | the rest of the lifecycle tick: a feed at any time, or a hang, between the calls of the manager or in its callback |
| `WatchdogProofs` | theorems about both | |
| `Timing` | sections that overlap, the ring, statistics, the print in steps between which others store | labels to model values; of the statistics the maximum; text printed to the number of lines |
| `TimingBudget` | EXTENDS `Timing`: define, check, report, and `ensure_init` in steps | |
| `TimingBudgetProofs` | theorems about both | |
| `OtaClient` | the OTA thread, one step per change of flash or of state, `check`, MCUboot at each reset | versions to numbers, images to a version and "whole or not", HTTP to its outcomes |
| `OtaClientProofs` | theorems about it | |
| `DedupWindow` | **abstract specification**: a number is new unless among the last `Size` new ones | |
| `Redundancy` | the two-path send and the dedup ring with its wrapping index, between a sender and a receiver | a message to its number |
| `RedundancyProofs` | theorems about it, the refinement of `DedupWindow` among them | |
| `Boot` | each step of `main` with its failures, the config parser and the service registry as operators, and each thread as a user of what main has made | names to a few values and two lengths; what a thread does with an object to the fact that it uses it |
| `BootProofs` | theorems about it | |
| `MC...` | the instances TLC checks | |

Variables and actions have the names of the code where TLA+ allows; `PROJECT.json` maps
each definition to its lines.  Variables the code does not have are marked `history` where
they are declared.  Operators named `X_something` that precede a definition `X` are
variants of it with a plausible mistake in it; they are used by no specification, and
each shows that some property would notice.

**Interleaving.**  Threads interleave at every step.  Zephyr schedules by strict
priority, so not every interleaving of the models happens on one core; the ones the
counterexamples use do: the handler of CRITICAL (priority 2) preempts the dispatcher (5),
the other handlers and the application's threads anywhere in an encoding, and a
timeout or a blocking call lets any thread run.  An action is atomic where the code holds
a mutex throughout or touches nothing shared.

**The two halves of an encoding.**  `json_obj_encode_buf` writes field by field in the
order of the descriptor; the models split it where it matters: the sequence number and
status are written before the payload, service and priority.

## 3. What TLC checks

Runs that pass:

| run | instance | shows |
|---|---|---|
| `MsgClient_calls` | 2 callers that share NORMAL, one of which also uses CRITICAL, 2 peers, 2 requests | `NeverOlder` and `EveryCallReturns` for all calls; `SoleOwnResponse`, `SoleWakeup`, `SoleRightPeer` for those alone at their priority |
| `MsgServer_requests` | CRITICAL returns, NORMAL may hang, queues of 1, 2 for 2^16; one request duplicated, deadlines that fit, that the cast shortens and that it removes, one sent at an uptime the wire cannot hold, one not served | one answer per copy; success is of executed requests; deadlines that the cast leaves hold; the dispatcher and CRITICAL go on |
| `PeerTable_table` | 3 nodes, 2 addresses, table of 2, clock to 3, timeout 1 | the four properties of the table, `PeerMap` implemented |
| `NodeHealth_peers` | 2 nodes, table of 2, clock to 6, timeout 5 (five intervals: every state is reached) | types, tracked once, silent for the timeout is LOST after an update, LOST only by a silence of the timeout in what the copy knew, safe state while the only tracked peer is LOST |
| `OtaClient_auto` | 3 versions, 3 power failures | the four properties of the update |
| `Redundancy_paths` | 3 messages, a ring of 2, paths that lose and fail in every combination, with and without a second socket, 2 copies on each | the window implemented, nothing else dropped, one path is enough |
| `Boot_main` | 20 configuration images, registry and configuration of 3, 16 for 2^16, any failure of any step | nothing used before it is there, announcements complete and kept, each configured service with its own priority and deadline, the boot completes when net setup, discovery and messaging work |
| `Watchdog_early` | uptime below `Half` = 16; both threads in the safe state manager, one reader | no false alarm, a hang noticed within timeout + period + 2 delays, with the conditions below; the callback knows, a reader gets a reason in force |
| `TimingBudget_calls` | 2 threads, 2 labels, a ring of 2, a counter of 4 values, a table of 1, 5 sections and calls | the ring holds the latest samples, prints are complete, budgets follow the calls |

Runs that TLC finds violated, where the code does not do what the repository says of it
(`PROJECT.json`, "findings", quotes the line):

| run | what happens |
|---|---|
| `MsgClient_own` | two threads at one priority: one returns 0 with the other's response, or with a zeroed one |
| `Watchdog_month` | after 2^31 ms of uptime every check is an alarm |
| `Boot_degrade` | discovery or messaging fails and `main` returns, though REQ-SAF-001 has the node go on |

**What the passing runs assume.**  Some properties hold only under a condition, which is
part of the property or of the instance.  Dropping it makes TLC find a behaviour of the code:

- `Sole...`: the caller is the only one to use its priority, which the code does not
  enforce, as `ceell_msg_send` always uses NORMAL.  `MsgClient_own` drops it.
- `SoleRightPeer`, `SoleOkMeansExecuted`: no two threads have met in the static request
  (response) buffer, a history variable `overlap` tells.  If a thread of a higher priority
  preempts an encoding, a peer receives the other call's request, or a node is told "success"
  for a request that was not executed (`OkMeansExecuted` with both services returning).
- `DeadlineHonoured`: `Skew` is 0.  The check compares the sender's uptime with the
  receiver's; if the sender booted earlier by some time, requests that much past their
  deadline are executed.  Of a sender whose uptime exceeds `Wrap` the time arrives smaller
  than it was sent, so its requests are refused early, all of them once the receiver's clock agrees.
  The deadline is cast to `uint16_t` (`messaging.c:181`) before it is compared: of a multiple of 2^16 ms
  nothing is left, and such a request, which the property excepts, is executed however late; another longer than
  that is enforced early.  The property says that these two are the only early refusals.
- `NoSpuriousLost` judges an update by what had been heard when it copied the table: a peer heard between the read of the
  clock and the copy has a negative age and must not be LOST; a word that comes after the copy counts for the next update, so
  a peer can be declared LOST that has just been heard again.
- `SafeWhileOnlyPeerLost`: one peer is tracked, and monitor and manager are initialised (`main` goes on if they are not).  With two LOST, the recovery of one clears the
  safe state (`SafeWhileLost` as an invariant of `NodeHealth_peers`).
- `TrackedOnce`: as many slots as nodes.  Slots of nodes that left are not reused, so with
  `MaxPeers = 1` and two nodes in turn the second is never watched.
- The other direction, a safe state that ends when all peers are HEALTHY, is not stated: the
  clear needs a transition LOST -> HEALTHY, and a peer that is first seen again one missed
  interval late goes LOST -> DEGRADED -> HEALTHY, after which the safe state stays for good.
- `RevertPossible`: auto-confirm.  Without it (`AutoConfirm = FALSE` in the run) a check erases
  slot 1, the image to go back to, before it confirms the one on trial.
- `BootCompletes`: net setup, discovery and messaging did not fail.  If one does, `main` returns;
  after a failure of messaging the discovery threads go on announcing services nobody serves.
  `docs/requirements.md` (REQ-SAF-001) and `docs/traceability.md:34` say that failures of
  discovery and messaging are survived: `DegradesGracefully`, which `Boot_degrade` finds violated.
- `SlaAsConfigured`: a priority that exists and a deadline that fits 16 bits.  The parser keeps the
  low bits of a longer one, so that 65536 ms is registered as no deadline; so far nothing but a log line
  reads what is registered.
- `BootCompletes` also takes the registry as it is: it has as many entries as a configuration may
  name (4), so `ota` is missing on a node with 4 services, or 3 and the echo service, and main
  ignores the error.  `AnnouncedIsReached` excepts names the configuration uses itself, whose entry
  without a handler comes first.  All configured services are registered without a handler, so they are
  announced but answered -ENOENT.
- `ReadyBeforeUse` excepts the OTA semaphore: the check command can raise it before
  `ceell_ota_init` has made it, or after that function failed.
- `OnlyDuplicatesDropped`: one sender that never repeats a number.  The ring does not
  know senders: a second one with the same numbers, or one that restarts, loses messages.
- `NoFalseAlarm`, `HangDetected`: uptime below `Half`, 2^31 ms; `Watchdog_month` drops it.
- `HangDetected` also takes an initialised manager, whose trigger otherwise does nothing, and a loop that does not hang in the
  callback of a clear (`HungLeaving`): there the flag is reset and the mutex kept, so the watchdog waits for it in its
  trigger (`watchdog.c:42`) for ever, the safe state is never entered, and `watchdog.h:18-19` is not kept.  In the
  callback of a trigger, where the flag is set before the call, the node is in the safe state.  Without either condition TLC
  finds the violation.  A callback that hangs in the watchdog's own thread is not modelled; the flag is set by then.
- `ReasonInForce` allows a reader the reason of a trigger that has stored it and not yet the flag.
  That happens when the state is left and entered again between the reader's two loads.
- `CallbackKnows`: `told` is the state at registration plus entries minus exits since; a callback
  registered while the state is active is not called for the entry it missed.
- `BudgetsFollowCalls`: no two first calls overlap in `ensure_init`.  If they do, the second clears the
  table and initialises the mutex after the first has defined its budget, which is lost although the call returned 0.
- `LatestSamples`: a section is shorter than the period of the counter; the code cannot tell a longer one.
  `ClockIsFast` (at least 1 MHz) keeps durations within the 32 bits of `duration_us`.
- `SilentIsLost` and `NoSpuriousLost` need `TimeoutCoversMisses`: the timeout is four intervals or more (the defaults
  are 5000 ms and 1000 ms).  With less a peer past the timeout can still count as DEGRADED.

More that the code does and no property of the models excludes: `update_peer` refreshes `last_seen` and the services
of a known node but not its address (`discovery.c:57-69`), so a node that comes back with another one is reached at the old one
until it has been silent for the timeout, though REQ-NET-003 speaks of "updating existing peers on re-announcement"
(`PeerMap`'s `Refresh` says what the code does); a caller whose wait a second caller aborts reports a timeout before there
is one; a response that
arrives after its call timed out is stored in the slot, since `pending_seq` is not reset
(the next claim clears it); and the OTA `check` command is answered "triggered" when the OTA
thread does not run.

**Bounds.**  `MaxSeq` bounds the requests sent: 2 suffice for a caller to meet what another, or its
own earlier call, left behind.  `MaxTime` bounds clocks: past
the timeout plus the steps of a tick, so that a peer can be heard, be silent for a timeout,
be dropped and come back; leads-to properties are stated for the instants whose timeout
falls within the bound.  `Copies` bounds deliveries of a request, 2 being a duplicate;
`MaxVer` = 3 lets an update follow an update; `Crashes` = 3 puts a failure in the
update, in the trial and in the one after; `Lag` is the delay the watchdog thread, of the lowest
priority, may suffer.  `RingSize` = 2 with 3 messages lets a number leave the ring while copies of it are still to come;
number 0 is one of them, as unused slots hold 0.  The images of `MCBoot` hold, in either version, service lists that
are short, full and too long, with empty, long, repeated and built-in names, and in version 2
priorities and deadlines that differ, do not exist or do not fit.  Deadlock is not checked where the inputs of the model are finite:
the messaging and redundancy runs end when nothing more is sent, the watchdog's and the timing's when their clocks stop and no call is left; and `Boot` ends when main returns before it has started a thread.

**Fairness.**  `MsgClient`: a thread that is ready runs, and every wait has a finite
timeout, so each of a call's steps is weakly fair; starting a call and delivering anything
are not.  `MsgServer`: the dispatcher and handlers run; `Run`, which is the service's code,
is fair only for the priorities in `Returning`.  Weak fairness of the lower-priority threads
says that those of higher priority sleep now and then, as all of CEELL's do.
`PeerTable`: time passes and the lifecycle loop is scheduled; announcements
are not fair.  `Boot`: main has no blocking call before its loop and the announcer only sleeps; no
datagram has to come.  `Redundancy`: `arriving` counts the copies that do arrive, so their arrival is fair.
`OtaClient`: intervals and backoffs elapse, HTTP requests have timeouts.

No liveness is stated of `NodeHealth`, `Watchdog` and `TimingBudget`: what a silent peer or a loop that hangs
leads to is said with its bound, as a property of the step that ends an update (`SilentIsLost`) and of the clock (`HangDetected`).
A peer that is heard and falls silent again between two slow ticks is swept before the
monitor ever sees it; `SilentIsLost` counts it as LOST because `ceell_health_get_state` reports a
node without a slot as LOST.

## 4. What is proved

The proof modules assume nothing beyond the ASSUMEs of the modules they extend, which
TLC evaluates for every instance.  Where a theorem needs more of the constants, this is a hypothesis in its
statement: `Skew` 0, an uptime below `Half`, `Room` for every node.  Conditions on the state (an initialised manager, a deadline the cast leaves) are in the property itself.  Each invariant was first checked with TLC
on the run of its module.

`MsgClientProofs`, for any sets of callers, priorities and peers and any `MaxSeq`:
- `TypeCorrect`: `Spec => []TypeOK`.
- `ClientNeverOlder`: `Spec => []NeverOlder`.  What is stored in a slot has a number not
  below the one pending when it was stored, and `pending_seq` only grows; so a response
  is as young as the claim of whoever reads it.
- `SoleCallerSafety`: `Spec => []SoleOwnResponse`; `SoleCallerIsWoken`: `Spec => []SoleWakeup`.
  The properties are not inductive: a semaphore that is up must be tied to what is in the
  slot, and both to where the one user of the priority is.  The strengthening says that a
  slot with one user belongs to that user's latest request from its claim until its
  next, that the semaphore is up only if the slot is filled, and that a thread at the copy
  has a filled slot.
- `SoleCallerReachesItsPeer`: `Spec => []SoleRightPeer`.  `PeerInv` follows the request from the call to the
  response: numbers are handed out once, so a number stands for one call and its peer; while no two
  threads have met in the buffer, it holds what its one user has written so far; hence every
  request sent under a number went to the peer of that call, and so did what answers it.

`NodeHealthProofs`, about the table, for any nodes, addresses, services, table size and timeout:
- `TypeCorrect`, `OneEntryPerNode`, `SweepLeavesNothing`; the invariant adds that no entry
  is from the future and that the entries before the sweep's index are not stale at
  its clock.
- `Refinement`: `Spec => ImplementsPeerMap`.  Announcements refresh or add a key; removing the entry at
  the index is, on the map, forgetting one silent node, and the swap of the last entry into
  the hole is invisible, because ids are unique.

and about the monitor, for any interval of which the timeout is at least four:
- `NodeTypeCorrect`: `NodeSpec => []NodeTypeOK`.
- `TrackedExactlyOnce` and `NeverSpuriouslyLost`, under `Room`: at most as many nodes as slots; section 3 says what
  happens otherwise.  `SilenceIsReported` and `SafeWhileAlone` need no such hypothesis.
- The monitor works on a copy of the table and on a clock it read before, while announcements go on.  So the
  invariant (`NodeInv`) says four things.  Of the table: each entry has the time its node was last heard, and a
  node without an entry was silent for the timeout at the sweep's clock (`TableInv`).  Of the update: what the copy says of a
  node is true unless the node was heard after the clock was read, the entries before the index have their slot and
  the state of their age, and the second loop has passed only slots whose node was found or is LOST (`UpdateInv`).
  Of the slots: no node has two, and a tracked node was heard once (`SlotInv`).
  Of the copy: it says when each node had last been heard when it was made (`CopyWasHeard`), on which `NeverSpuriouslyLost` rests.
  That a free slot is left for every node is a count: slots in use map one to one to nodes other than the one looked for.

`MsgServerProofs`, for any requests, queue depth, copies and widths of time and deadline:
- `TypeCorrect`; `DeadlinesHonoured`: `Spec => []DeadlineHonoured` if all `Skew` are 0.  The invariant
  says that a thread that is to run the service took the request before its deadline; it follows at the check, whose
  clock is not below the one at the queue, because what the wire leaves of a time, and the cast of a deadline, is not above it.
  For the early refusals it says the converse: what fits arrives as it was sent (`WireBounds`, `CastBounds`).
- `SuccessIsReal`: `Spec => []SoleOkMeansExecuted`.  While no two threads have met in the buffer, it
  holds the number and status of the thread that is in it, and a thread that answers "ok" has
  run the service.
- `EachCopyIsAnsweredOnce`: `Spec => []OneAnswerPerCopy`.  The invariant is an account: of each request as many copies have
  arrived as are in a queue, held by a thread, or answered (`Balanced`).  Every step moves one copy
  from one of these to another; that taking the head of a queue, which renumbers the rest, removes one, is a bijection.

`WatchdogProofs`, for any threads, readers, timeout, period, delay and width:
- `CallbackAlwaysKnows`, `ReasonsInForce`: the invariant `SafeInv` says, for the thread that holds the mutex, what flag
  and reason are at its step, that all other threads are outside, and that flag and reason agree when the mutex is
  free.  It is proved for each step of the manager, whatever the thread; a step of the watchdog is such a step or leaves the
  manager alone.
- `TypeCorrect`; `NoAlarmWithoutCause` and `HangsAreDetected`, if `Timeout <= MaxTime < Half`.  The invariants: below `Half`
  the atomic holds `fedAt` (`FeedKept`); the thread is at most `Lag` behind `due`, unless it waits for a mutex the hung loop keeps, and an
  alarm has its cause (`Punctual`); once the loop hangs, other than in the callback of a clear, the state is active, or the thread is about to trigger it, or its next check is due by
  `hungAt + Timeout + Period + Lag` (`Watched`).  So the bound behind `HangDetected` is proved, not only checked.

`RedundancyProofs`, for any messages, ring size and network:
- `TypeCorrect`; `WindowImplemented`: `Spec => ImplementsWindow`.  The invariant says that the ring, read
  back from its head for `dedup_count` slots, is the end of the sequence of processed numbers, and that the count is
  the smaller of its length and the size.  `ProcessedOncePerWindow` and `NothingNewDropped`
  follow from what it says of a search.

`OtaClientProofs`, for any number of versions and power failures:
- `TypeCorrect`; `RevertStaysPossible`: `Spec => [](AutoConfirm => RevertPossible)`;
  `SwapIsAnUpdate`: `Spec => [](MarkedIsNewer /\ MarkedIsWhole)`; `NeverOlderVersion`:
  `Spec => NoDowngrade`.  The invariant relates the thread's place to the flash: a swap is
  requested only in the last step, from the download on slot 1 is the manifest's image, from the
  manifest on it is newer than what runs, and with auto-confirm a thread that runs has a
  confirmed image.  MCUboot's step keeps the fallback image because a swap is never
  requested without a bootable one.

`TimingBudgetProofs`, for any threads, labels, ring and table size, width and frequency of the counter:
- `RingHoldsTheLatest`: `Spec => []LatestSamples`, `PrintsEachLabelOnce`: `PrintComplete`.  Looking back from the head, the ring is
  the end of the log; a thread between the two halves of a stop holds the true duration if it is shorter than the
  counter's period (the difference modulo the width).  During a print the labels still to do have no line yet, each is there
  once, and a label that stayed in the ring is still to do or has its line (`Printing`).
- `BudgetsAreWhatCallsSay`: `BudgetsFollowCalls`.  While no two first calls overlap, one thread at most
  initialises, and it does before any call has done anything; after that the mutex has one holder (`InitOnce`, `HoldsMutex`).
  Then the table follows the calls as each of them returns; the lemmas say how a call that returns changes
  the sets the property counts: the latest definition, and the violations since.

`BootProofs`, for any names, any image, any sizes of configuration and registry with the first not above the second:
- `BootTypeCorrect`, `NothingIsUsedEarly`: `Spec => []ReadyBeforeUse`, whatever fails.  The invariant says what exists at each
  step of main (`MadeInTime`) and what exists once a thread runs, also after main has returned (`StartedInTime`).
- `ConfigurationIsAnnounced`, `AnnouncedHasItsHandler`: the registry is the configured services main has gone through and then its
  own, each with its handler; once the announcer runs the first part is complete and the registry only grows, so
  every announcement is a prefix of it (`RegistryInOrder`, `CsvsInOrder`).
- `SlaIsAsConfigured`: `Spec => []SlaAsConfigured`.  `Position` gives the k-th index the parser keeps; it exists because ranks are a
  one-to-one map of the kept indices onto 1..n, and it grows with k, so the first kept entry of a name is the first in the image.

Only model-checked: all liveness (`EveryCallReturns`, `DispatcherReturns`,
`ReturningAnswered`, `SilentPeerDropped`, `KeepsChecking`, `OnePathIsEnough`,
`BootCompletes`), since TLAPS
proves nothing about fairness and ENABLED.  Every other property of the passing runs has a theorem, and the type
invariants that have one are not among the properties of the runs, except those of `MsgServer`, `NodeHealth`
and `Boot`.

## 5. What is not modelled

- The JSON parser and encoder, sockets, HTTP, flash drivers and MCUboot are Zephyr's: they
  appear as what they may do to CEELL (lose, repeat, fail, swap, refuse).
- The lookup of a service in the peer table (`service_discovery.c`), which changes no state; `MsgClient` takes any peer for its result.
- The growth and the cap of the OTA backoff: `OtaClient` has only that it ends.
- Logging and printing, except how many lines a print of the statistics has; `ceell_health_get_table`,
  which copies slots out under the mutex.
- Minimum, average and count of the timing statistics: computed like the maximum, and read by nobody but the print.
- The echo test of the lifecycle loop, which only the test build has, except as a user of messaging in `Boot`.
- The node ID, strings and addresses of the configuration, which are copied, cut to their buffers and do
  not change after the boot: that the IDs of the nodes differ is assumed.
- The application calls neither redundancy nor timing budget nor
  `ceell_watchdog_init` yet; they are modelled as their headers say they are to be used, the timing budget with the
  longest duration that the statistics report.
- TSN: a stub without state, which nothing calls.

## 6. Plan

Done: messaging client and server, peer table and its abstract map, health and safe state, OTA, watchdog over the
safe state manager, redundancy and its abstract window, timing and timing budget, boot with the registry and the
parser; proofs of every safety and action property that a passing run checks.

1. Proofs: the facts behind the conditions of section 3, as theorems with their hypotheses weakened as far as the code allows
   (`TrackedOnce` while at most `MaxPeers` nodes have ever been heard); the safe state as an abstract flag that `SafeState` implements.
2. `Rpc`, an abstract request/response service, and `MsgSystem`, which composes `MsgClient`
   with `MsgServer` and is shown to implement it in the configurations that pass.
