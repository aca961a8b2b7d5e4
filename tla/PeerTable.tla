----------------------------- MODULE PeerTable -----------------------------
(***************************************************************************)
(* The peer table of ceell/network/discovery.c: the receive thread adds    *)
(* and refreshes entries, the lifecycle thread drops silent ones and       *)
(* compacts the array by moving the last entry into the hole.  peer_mutex  *)
(* makes update_peer, ceell_discovery_get_peers and the sweep's loop       *)
(* atomic to each other; the sweep reads the clock BEFORE it locks.        *)
(***************************************************************************)
EXTENDS Integers, Sequences, FiniteSets

CONSTANTS
  Node,         \* the ids of the other nodes
  Self,         \* this node's id: it hears its own multicast
  Service,      \* service names
  Ip,           \* addresses
  MaxPeers,     \* CONFIG_CEELL_DISCOVERY_MAX_PEERS
  PeerTimeout,  \* CONFIG_CEELL_PEER_TIMEOUT_MS
  Null,         \* what an absent JSON field leaves in the message
  MaxTime       \* bound: the uptime a behaviour reaches

ASSUME SelfIsNoPeer   == Self \notin Node
ASSUME MaxPeersNat    == MaxPeers \in Nat
ASSUME PeerTimeoutNat == PeerTimeout \in Nat
ASSUME MaxTimeNat     == MaxTime \in Nat
ASSUME NullIsNoName   == Null \notin Service

NoField      == {Null}
Announcement == [node_id : Node \cup {Self}, ip : Ip, services : (SUBSET Service) \cup {NoField}]
Entry        == [node_id : Node, ip : Ip, services : SUBSET Service, last_seen : 0..MaxTime]

VARIABLES
  clock,  \* ceell_uptime_get()
  peers,  \* the entries in use, peers[0 .. peer_count - 1] in the code
  sweep   \* ceell_discovery_expire_peers: where it is, its now and its index

vars == <<clock, peers, sweep>>

Init ==
  /\ clock = 0
  /\ peers = << >>
  /\ sweep = [at |-> "idle", now |-> 0, i |-> 1]

\* The sweep is the one critical section that takes several steps here.
MutexFree == sweep.at # "loop"

Tick ==
  /\ clock < MaxTime
  /\ clock' = clock + 1
  /\ UNCHANGED <<peers, sweep>>

Index(n) == {i \in 1..Len(peers) : peers[i].node_id = n}

(***************************************************************************)
(* update_peer, in the receive thread.                                     *)
(***************************************************************************)

\* A known node: the time and, when the announcement has them, the services.
\* Its role, name and address stay those of the first announcement.
RefreshPeer(m) ==
  \E i \in Index(m.node_id) :
    peers' = [peers EXCEPT ![i].last_seen = clock,
                           ![i].services = IF m.services = NoField THEN @ ELSE m.services]

\* A new node takes the next slot.
AddPeer(m) ==
  /\ Index(m.node_id) = {}
  /\ Len(peers) < MaxPeers
  /\ peers' = Append(peers, [node_id |-> m.node_id, ip |-> m.ip,
                             services |-> IF m.services = NoField THEN {} ELSE m.services,
                             last_seen |-> clock])

\* At a full table it is ignored.
IgnoreNew(m) == Index(m.node_id) = {} /\ Len(peers) >= MaxPeers /\ UNCHANGED peers

update_peer(m) ==
  /\ \/ m.node_id = Self /\ UNCHANGED peers
     \/ /\ m.node_id # Self
        /\ MutexFree
        /\ RefreshPeer(m) \/ AddPeer(m) \/ IgnoreNew(m)
  /\ UNCHANGED <<clock, sweep>>

(***************************************************************************)
(* ceell_discovery_expire_peers, in the lifecycle thread.                  *)
(***************************************************************************)
ExpireStart ==
  /\ sweep.at = "idle"
  /\ sweep' = [at |-> "lock", now |-> clock, i |-> 1]
  /\ UNCHANGED <<clock, peers>>

ExpireLock ==
  /\ sweep.at = "lock"
  /\ sweep' = [sweep EXCEPT !.at = "loop"]
  /\ UNCHANGED <<clock, peers>>

\* Mutants: the boundary counts as stale; the difference the wrong way round.
Stale_atTimeout(e) == sweep.now - e.last_seen >= PeerTimeout
Stale_swapped(e) == e.last_seen - sweep.now > PeerTimeout

Stale(e) == sweep.now - e.last_seen > PeerTimeout

\* Mutant: the index moves on past the entry swapped in.
ExpireRemove_skips ==
  /\ sweep.at = "loop" /\ sweep.i <= Len(peers) /\ Stale(peers[sweep.i])
  /\ peers' = SubSeq([peers EXCEPT ![sweep.i] = peers[Len(peers)]], 1, Len(peers) - 1)
  /\ sweep' = [sweep EXCEPT !.i = @ + 1]
  /\ UNCHANGED clock

\* Mutant: the hole is filled but the count is not decremented.
ExpireRemove_keepsCount ==
  /\ sweep.at = "loop" /\ sweep.i <= Len(peers) /\ Stale(peers[sweep.i])
  /\ peers' = [peers EXCEPT ![sweep.i] = peers[Len(peers)]]
  /\ UNCHANGED <<clock, sweep>>

\* Swap with the last entry to compact; the index stays, to look at that one.
ExpireRemove ==
  /\ sweep.at = "loop" /\ sweep.i <= Len(peers) /\ Stale(peers[sweep.i])
  /\ peers' = SubSeq([peers EXCEPT ![sweep.i] = peers[Len(peers)]], 1, Len(peers) - 1)
  /\ UNCHANGED <<clock, sweep>>

ExpireKeep ==
  /\ sweep.at = "loop" /\ sweep.i <= Len(peers) /\ ~ Stale(peers[sweep.i])
  /\ sweep' = [sweep EXCEPT !.i = @ + 1]
  /\ UNCHANGED <<clock, peers>>

ExpireUnlock ==
  /\ sweep.at = "loop" /\ sweep.i > Len(peers)
  /\ sweep' = [sweep EXCEPT !.at = "idle"]
  /\ UNCHANGED <<clock, peers>>

Expire == ExpireStart \/ ExpireLock \/ ExpireRemove \/ ExpireKeep \/ ExpireUnlock

Next == Tick \/ Expire \/ \E m \in Announcement : update_peer(m)

Spec == Init /\ [][Next]_vars

\* Time passes and the lifecycle loop runs for ever; nobody owes announcements.
FairSpec == Spec /\ WF_vars(Tick) /\ WF_vars(Expire)

(***************************************************************************)
(* Properties.                                                             *)
(***************************************************************************)
TypeOK ==
  /\ clock \in 0..MaxTime
  /\ peers \in Seq(Entry)
  /\ Len(peers) <= MaxPeers
  /\ sweep \in [at : {"idle", "lock", "loop"}, now : 0..MaxTime, i : 1..(MaxPeers + 1)]

\* No node has two entries, whatever the compaction moves around: a second one
\* would keep an outdated address and offer services for ever refreshed.
Unique(q) == \A i, j \in 1..Len(q) : q[i].node_id = q[j].node_id => i = j
UniqueIds == Unique(peers)

\* When the sweep lets go of the mutex no entry is left that was stale at the
\* time it read, the one moved into a hole included.
SweepComplete ==
  sweep.at = "loop" /\ sweep.i > Len(peers) => \A i \in 1..Len(peers) : ~ Stale(peers[i])

\* The table implements the map: entries come from announcements, are refreshed
\* by them, and go only when their node has been silent for the timeout.
Ids(q)     == {q[i].node_id : i \in 1..Len(q)}
Said(e)    == [ip |-> e.ip, services |-> e.services, last_seen |-> e.last_seen]
Slot(q, n) == CHOOSE i \in 1..Len(q) : q[i].node_id = n
MapOf(q)   == [n \in Ids(q) |-> Said(q[Slot(q, n)])]

Abstract == INSTANCE PeerMap WITH known <- MapOf(peers)
ImplementsPeerMap == Abstract!Spec

\* A silent peer is dropped: an entry last refreshed at t goes or is refreshed,
\* provided the clock gets past its timeout (MaxTime bounds the model's clock).
LastSeenAt(n, t) == \E i \in 1..Len(peers) : peers[i].node_id = n /\ peers[i].last_seen = t
SilentPeerDropped ==
  \A n \in Node, t \in 0..MaxTime :
    t + PeerTimeout < MaxTime => (LastSeenAt(n, t) ~> ~ LastSeenAt(n, t))
=============================================================================
