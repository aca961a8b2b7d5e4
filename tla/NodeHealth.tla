----------------------------- MODULE NodeHealth -----------------------------
(***************************************************************************)
(* From a peer's silence to the safe state: the lifecycle loop             *)
(* (ceell/core/lifecycle.c) sweeps the peer table, then the health monitor *)
(* (health_monitor.c) compares a copy of the table with its own slots and  *)
(* calls main.c's on_health_change for each transition, which triggers and *)
(* clears the safe state (safe_state.c).  Announcements arrive meanwhile.  *)
(***************************************************************************)
EXTENDS PeerTable

CONSTANT Interval  \* CONFIG_CEELL_DISCOVERY_INTERVAL_MS

ASSUME IntervalPositive == Interval \in Nat \ {0}
\* The defaults are 1000 and 5000: a timeout is more than three missed heartbeats.
ASSUME TimeoutCoversMisses == 4 * Interval <= PeerTimeout

VARIABLES
  health,     \* health_table: [slots -> {Free} or the node and its state]
  safe,       \* safe_active and safe_reason_val
  lifecycle,  \* where the loop is, and ceell_health_update's locals
  heard,      \* history: when each node was last heard, -1 for never
  heardAtCopy \* history: the same at the time the update copied the table

nodeVars == <<vars, health, safe, lifecycle, heard, heardAtCopy>>

Slots  == 1..MaxPeers
Free   == [active |-> FALSE]
States == {"HEALTHY", "DEGRADED", "CRITICAL", "LOST"}
Track(n, s) == [active |-> TRUE, node_id |-> n, state |-> s]

Asleep == [at |-> "sleep", now |-> 0, copy |-> << >>, i |-> 1, found |-> {}]

NodeInit ==
  /\ Init
  /\ health = [s \in Slots |-> Free]
  /\ safe = [active |-> FALSE, reason |-> "NONE"]
  /\ lifecycle = Asleep
  /\ heard = [n \in Node |-> -1]
  /\ heardAtCopy = heard

(***************************************************************************)
(* safe_state.c, under safe_mutex: trigger only updates the reason when    *)
(* the state is active already.  ceell_safe_state_init is taken to have    *)
(* worked here; SafeState has the case that it did not.                    *)
(***************************************************************************)
Trigger(reason) == safe' = [active |-> TRUE, reason |-> reason]
\* Mutant of Clear: the reason is left behind.
Clear_keepsReason == safe' = [safe EXCEPT !.active = FALSE]
Clear == safe' = [active |-> FALSE, reason |-> "NONE"]

\* Mutant: only a peer that went through CRITICAL triggers.
on_health_change_fromCritical(old, new) ==
  IF old = "CRITICAL" /\ new = "LOST" THEN Trigger("CRITICAL_PEER_LOST")
  ELSE IF old = "LOST" /\ new = "HEALTHY" THEN Clear
  ELSE UNCHANGED safe

\* main.c
on_health_change(old, new) ==
  IF new = "LOST" THEN Trigger("CRITICAL_PEER_LOST")
  ELSE IF old = "LOST" /\ new = "HEALTHY" THEN Clear
  ELSE UNCHANGED safe

(***************************************************************************)
(* health_monitor.c                                                        *)
(***************************************************************************)
\* Mutant: elapsed is unsigned, so a peer heard since now was read is LOST.
compute_state_unsigned(now, last_seen) ==
  LET elapsed == now - last_seen
      missed  == (elapsed \div Interval) - 1
  IN  IF 0 <= elapsed /\ elapsed <= Interval THEN "HEALTHY"
      ELSE IF 0 <= elapsed /\ missed <= 2 THEN "DEGRADED"
      ELSE IF elapsed < 0 \/ elapsed >= PeerTimeout THEN "LOST"
      ELSE "CRITICAL"

compute_state(now, last_seen) ==
  LET elapsed == now - last_seen
      missed  == (elapsed \div Interval) - 1
  IN  IF elapsed <= Interval THEN "HEALTHY"
      ELSE IF missed <= 2 THEN "DEGRADED"
      ELSE IF elapsed >= PeerTimeout THEN "LOST"
      ELSE "CRITICAL"

SlotsOf(n) == {s \in Slots : health[s].active /\ health[s].node_id = n}
FreeSlots  == {s \in Slots : ~ health[s].active}
First(S)   == CHOOSE s \in S : \A r \in S : s <= r

\* Mutant: allocates before it searches.
find_or_alloc_first(n) == IF FreeSlots # {} THEN {First(FreeSlots)} ELSE SlotsOf(n)

\* The slot of a node, else the first free one; a slot is never freed.
find_or_alloc(n) == IF SlotsOf(n) # {} THEN SlotsOf(n) ELSE IF FreeSlots # {} THEN {First(FreeSlots)} ELSE {}

\* A newly allocated slot starts HEALTHY.
StateIn(s) == IF health[s].active THEN health[s].state ELSE "HEALTHY"

SetState(s, n, new) ==
  /\ health' = [health EXCEPT ![s] = Track(n, new)]
  /\ IF new # StateIn(s) THEN on_health_change(StateIn(s), new) ELSE UNCHANGED safe

HealthNow ==
  /\ lifecycle.at = "now"
  /\ lifecycle' = [lifecycle EXCEPT !.at = "peers", !.now = clock]
  /\ UNCHANGED <<vars, health, safe, heard, heardAtCopy>>

\* ceell_discovery_get_peers copies the table under peer_mutex.
GetPeers ==
  /\ lifecycle.at = "peers"
  /\ MutexFree
  /\ lifecycle' = [lifecycle EXCEPT !.at = "each", !.copy = peers]
  /\ heardAtCopy' = heard
  /\ UNCHANGED <<vars, health, safe, heard>>

\* One turn of the first loop; with no slot left the peer is skipped.
EachPeer ==
  /\ lifecycle.at = "each" /\ lifecycle.i <= Len(lifecycle.copy)
  /\ LET p == lifecycle.copy[lifecycle.i]
         S == find_or_alloc(p.node_id)
     IN  /\ lifecycle' = [lifecycle EXCEPT !.i = @ + 1, !.found = @ \cup S]
         /\ \/ /\ S = {} /\ UNCHANGED <<health, safe>>
            \/ \E s \in S : SetState(s, p.node_id, compute_state(lifecycle.now, p.last_seen))
  /\ UNCHANGED <<vars, heard, heardAtCopy>>

EachDone ==
  /\ lifecycle.at = "each" /\ lifecycle.i > Len(lifecycle.copy)
  /\ lifecycle' = [lifecycle EXCEPT !.at = "gone", !.i = 1]
  /\ UNCHANGED <<vars, health, safe, heard, heardAtCopy>>

\* One turn of the second loop: a tracked node that left the table is LOST.
EachSlot ==
  /\ lifecycle.at = "gone" /\ lifecycle.i \in Slots
  /\ LET s == lifecycle.i
     IN  IF health[s].active /\ s \notin lifecycle.found /\ health[s].state # "LOST"
           THEN SetState(s, health[s].node_id, "LOST")
           ELSE UNCHANGED <<health, safe>>
  /\ lifecycle' = [lifecycle EXCEPT !.i = @ + 1]
  /\ UNCHANGED <<vars, heard, heardAtCopy>>

\* Mutant: the second loop ends one slot early.
UpdateDone_early ==
  /\ lifecycle.at = "gone" /\ lifecycle.i >= MaxPeers
  /\ lifecycle' = Asleep
  /\ heardAtCopy' = [n \in Node |-> -1]
  /\ UNCHANGED <<vars, health, safe, heard>>

UpdateDone ==
  /\ lifecycle.at = "gone" /\ lifecycle.i \notin Slots
  /\ lifecycle' = Asleep
  /\ heardAtCopy' = [n \in Node |-> -1]
  /\ UNCHANGED <<vars, health, safe, heard>>

\* A reader gets LOST for a node without a slot.
ceell_health_get_state(n) == IF SlotsOf(n) = {} THEN "LOST" ELSE health[First(SlotsOf(n))].state

ceell_health_update == HealthNow \/ GetPeers \/ EachPeer \/ EachDone \/ EachSlot \/ UpdateDone

(***************************************************************************)
(* The lifecycle loop: expire the peers, update their health, sleep.       *)
(***************************************************************************)
LifecycleTick ==
  /\ lifecycle.at = "sleep"
  /\ ExpireStart
  /\ lifecycle' = [lifecycle EXCEPT !.at = "expire"]
  /\ UNCHANGED <<health, safe, heard, heardAtCopy>>

ExpirePeers ==
  /\ lifecycle.at = "expire"
  /\ \/ (ExpireLock \/ ExpireRemove \/ ExpireKeep) /\ UNCHANGED lifecycle
     \/ ExpireUnlock /\ lifecycle' = [lifecycle EXCEPT !.at = "now"]
  /\ UNCHANGED <<health, safe, heard, heardAtCopy>>

Lifecycle == LifecycleTick \/ ExpirePeers \/ ceell_health_update

\* The receive thread handles an announcement.
Hear(m) ==
  /\ update_peer(m)
  /\ heard' = [n \in Node |-> IF n = m.node_id THEN clock ELSE heard[n]]
  /\ UNCHANGED <<health, safe, lifecycle, heardAtCopy>>

TimePasses == Tick /\ UNCHANGED <<health, safe, lifecycle, heard, heardAtCopy>>

NodeNext == TimePasses \/ Lifecycle \/ \E m \in Announcement : Hear(m)

NodeSpec == NodeInit /\ [][NodeNext]_nodeVars

(***************************************************************************)
(* Properties.                                                             *)
(***************************************************************************)

NodeTypeOK ==
  /\ TypeOK
  /\ health \in [Slots -> {Free} \cup [active : {TRUE}, node_id : Node, state : States]]
  /\ safe \in {[active |-> FALSE, reason |-> "NONE"], [active |-> TRUE, reason |-> "CRITICAL_PEER_LOST"]}
  /\ lifecycle \in [at : {"sleep", "expire", "now", "peers", "each", "gone"}, now : 0..MaxTime,
                    copy : Seq(Entry), i : 1..(MaxPeers + 1), found : SUBSET Slots]
  /\ heard \in [Node -> -1..MaxTime]
  /\ heardAtCopy \in [Node -> -1..MaxTime]

IsLost(s) == health[s].active /\ health[s].state = "LOST"

\* Every peer in the copy of the table has been given exactly one slot when the
\* first loop is over (health_monitor.h: the state of all discovered peers).
TrackedOnce ==
  lifecycle.at = "gone" =>
    \A i \in 1..Len(lifecycle.copy) : Cardinality(SlotsOf(lifecycle.copy[i].node_id)) = 1

\* A node is declared LOST only if, of all that had been heard when the update copied
\* the table, the last word from that node was a whole timeout older than the clock
\* the update had read.  A node heard between the reading and the copy (its last_seen
\* is after the clock, the age negative) must not be; what is heard after the copy
\* counts for the next update.
NoSpuriousLost ==
  [][\A s \in Slots : IsLost(s)' /\ ~ IsLost(s) =>
       lifecycle.now - heardAtCopy[health'[s].node_id] >= PeerTimeout]_nodeVars

\* When an update is over, every node that was silent for the timeout at the time it
\* read the clock is reported LOST: by the sweep and the second loop, by its age if
\* it outlived the sweep, or because nobody ever heard it.
SilentIsLost ==
  [][lifecycle.at = "gone" /\ lifecycle'.at = "sleep" =>
       \A n \in Node :
         lifecycle.now - heard[n] >= PeerTimeout => ceell_health_get_state(n) = "LOST"]_nodeVars

\* Between two updates the safe state is active while some peer is LOST.
SafeWhileLost == lifecycle.at = "sleep" /\ (\E s \in Slots : IsLost(s)) => safe.active

\* The same while the monitor tracks only one node: with more, the recovery of
\* one clears the safe state whatever the others are.
SafeWhileOnlyPeerLost == Cardinality({s \in Slots : health[s].active}) = 1 => SafeWhileLost
=============================================================================
