------------------------------ MODULE PeerMap ------------------------------
(***************************************************************************)
(* What the peer table of ceell/network/discovery.c promises, without the  *)
(* array, its compaction and its mutex: a map from the node ids heard of   *)
(* lately to what their announcements said.                                *)
(***************************************************************************)
EXTENDS Integers, FiniteSets

CONSTANTS
  Node,         \* the ids of the other nodes
  Service,      \* service names
  Ip,           \* addresses
  MaxPeers,     \* CONFIG_CEELL_DISCOVERY_MAX_PEERS
  PeerTimeout,  \* CONFIG_CEELL_PEER_TIMEOUT_MS
  Null          \* what an absent JSON field leaves in the message

NoField      == {Null}
Announcement == [node_id : Node, ip : Ip, services : (SUBSET Service) \cup {NoField}]

VARIABLES
  clock,  \* uptime
  known   \* [ids known -> [ip, services, last_seen]]

vars == <<clock, known>>

Init == clock = 0 /\ known = [n \in {} |-> 0]

Tick == clock' > clock /\ UNCHANGED known

Offered(m) == IF m.services = NoField THEN {} ELSE m.services

Learn(m) ==
  /\ m.node_id \notin DOMAIN known
  /\ Cardinality(DOMAIN known) < MaxPeers
  /\ known' = [n \in DOMAIN known \cup {m.node_id} |->
                 IF n = m.node_id
                   THEN [ip |-> m.ip, services |-> Offered(m), last_seen |-> clock]
                   ELSE known[n]]
  /\ UNCHANGED clock

\* The address stays the first one announced.
Refresh(m) ==
  /\ m.node_id \in DOMAIN known
  /\ known' = [known EXCEPT ![m.node_id].last_seen = clock,
                            ![m.node_id].services = IF m.services = NoField THEN @ ELSE m.services]
  /\ UNCHANGED clock

\* Only a peer that has been silent for longer than the timeout is dropped.
Forget(n) ==
  /\ clock - known[n].last_seen > PeerTimeout
  /\ known' = [k \in DOMAIN known \ {n} |-> known[k]]
  /\ UNCHANGED clock

Next ==
  \/ Tick
  \/ \E m \in Announcement : Learn(m) \/ Refresh(m)
  \/ \E n \in DOMAIN known : Forget(n)

Spec == Init /\ [][Next]_vars
=============================================================================
