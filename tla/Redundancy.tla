----------------------------- MODULE Redundancy -----------------------------
(***************************************************************************)
(* ceell/network/msg_redundancy.c: a sender passes every message to two    *)
(* sockets, and a receiver drops the copies whose sequence number is in    *)
(* the deduplication ring.  Nothing in the application calls it yet: the   *)
(* receiver here reads both sockets and checks each copy it gets.          *)
(***************************************************************************)
EXTENDS Integers, Sequences, FiniteSets

CONSTANTS
  Message,   \* sequence numbers, sent in increasing order
  RingSize,  \* CEELL_MSG_DEDUP_RING_SIZE
  Copies     \* bound: copies of one datagram the network delivers

Path == {"primary", "secondary"}

ASSUME MessageType      == Message \subseteq Nat
ASSUME RingSizePositive == RingSize \in Nat \ {0}
ASSUME CopiesPositive   == Copies \in Nat \ {0}

VARIABLES
  reliable,       \* paths whose sendto succeeds and of whose copies one arrives
  secondary_sock, \* the sender's second socket is open
  result,         \* [Message -> what ceell_msg_redundant_send returned]
  arriving,       \* [Message -> [Path -> copies still to arrive]]
  dedup_ring, dedup_head, dedup_count,
  processed       \* the numbers the check returned false for, in order

dedup == <<dedup_ring, dedup_head, dedup_count, processed>>
vars  == <<reliable, secondary_sock, result, arriving, dedup>>

\* ceell_msg_redundancy_init: the ring is cleared before the socket is made,
\* which may fail.
Init ==
  /\ reliable \in SUBSET Path
  /\ secondary_sock \in BOOLEAN
  /\ result = [m \in Message |-> "unsent"]
  /\ arriving = [m \in Message |-> [p \in Path |-> 0]]
  /\ dedup_ring = [i \in 0..(RingSize - 1) |-> 0]
  /\ dedup_head = 0 /\ dedup_count = 0
  /\ processed = << >>

(***************************************************************************)
(* ceell_msg_redundant_send                                                *)
(***************************************************************************)

NotSent == [ok |-> FALSE, copies |-> 0]

\* What sendto may do on path p: fail, or hand the datagram to the network, which
\* loses, delivers or duplicates it.
Sendto(p) ==
  IF p \in reliable THEN [ok : {TRUE}, copies : 1..Copies]
  ELSE [ok : {TRUE}, copies : 0..Copies] \cup {NotSent}

\* Mutant: the test for the second socket the wrong way round.
SecondarySend_swapped == IF secondary_sock THEN {NotSent} ELSE Sendto("secondary")

\* Without a second socket the second path is -ENODEV.
SecondarySend == IF secondary_sock THEN Sendto("secondary") ELSE {NotSent}

\* Success if at least one path took it.
SendResult(first, second) == IF first.ok \/ second.ok THEN "ok" ELSE "failed"

Unsent == {m \in Message : result[m] = "unsent"}

ceell_msg_redundant_send(m) ==
  /\ m \in Unsent /\ \A k \in Unsent : m <= k
  /\ \E first \in Sendto("primary"), second \in SecondarySend :
       /\ arriving' = [arriving EXCEPT ![m] =
            [p \in Path |-> IF p = "primary" THEN first.copies ELSE second.copies]]
       /\ result' = [result EXCEPT ![m] = SendResult(first, second)]
  /\ UNCHANGED <<reliable, secondary_sock, dedup>>

(***************************************************************************)
(* ceell_msg_dedup_check, all of it under dedup_mutex                      *)
(***************************************************************************)
\* Mutant: the search starts at the next free slot.
Index_fromHead(i) == (dedup_head + 1 - i + RingSize) % RingSize

\* The slot of the i-th most recent number; the code's loop counts from 0.
Index(i) == (dedup_head - i + RingSize) % RingSize

\* Mutant: the whole ring is searched, its unused slots too.
Seen_unused(m) == \E i \in 1..RingSize : dedup_ring[Index(i)] = m

Seen(m) == \E i \in 1..dedup_count : dedup_ring[Index(i)] = m

Record(m) ==
  /\ dedup_ring' = [dedup_ring EXCEPT ![dedup_head] = m]
  /\ dedup_head' = (dedup_head + 1) % RingSize
  /\ dedup_count' = IF dedup_count < RingSize THEN dedup_count + 1 ELSE dedup_count

ceell_msg_dedup_check(m) ==
  \/ Seen(m) /\ UNCHANGED dedup
  \/ ~ Seen(m) /\ Record(m) /\ processed' = Append(processed, m)

\* A copy arrives, in any order, on either path.
Receive(m, p) ==
  /\ arriving[m][p] > 0
  /\ arriving' = [arriving EXCEPT ![m][p] = @ - 1]
  /\ ceell_msg_dedup_check(m)
  /\ UNCHANGED <<reliable, secondary_sock, result>>

Next == \E m \in Message : \/ ceell_msg_redundant_send(m)
                           \/ \E p \in Path : Receive(m, p)

Spec == Init /\ [][Next]_vars

\* A copy counted in arriving is one that does arrive; nobody has to send.
FairSpec == Spec /\ \A m \in Message, p \in Path : WF_vars(Receive(m, p))

(***************************************************************************)
(* Properties.                                                             *)
(***************************************************************************)
Window == INSTANCE DedupWindow WITH Size <- RingSize
Processed(m) == \E i \in DOMAIN processed : processed[i] = m

TypeOK ==
  /\ reliable \subseteq Path /\ secondary_sock \in BOOLEAN
  /\ result \in [Message -> {"unsent", "ok", "failed"}]
  /\ arriving \in [Message -> [Path -> 0..Copies]]
  /\ dedup_ring \in [0..(RingSize - 1) -> Nat]
  /\ dedup_head \in 0..(RingSize - 1)
  /\ dedup_count \in 0..RingSize
  /\ processed \in Seq(Message)

\* The ring with its wrapping index implements the window: what is processed is
\* never one of the RingSize numbers processed before it.
ImplementsWindow == Window!Spec

\* No message is processed twice unless RingSize others were processed between.
OncePerWindow ==
  \A i, j \in DOMAIN processed : i < j /\ processed[i] = processed[j] => j - i > RingSize

\* Only a copy of one of the last RingSize numbers processed is dropped: whatever
\* slots of the ring are unused or overwritten, no new message is lost.
OnlyDuplicatesDropped ==
  [][\A m \in Message :
       arriving'[m] # arriving[m] /\ result'[m] = result[m] /\ UNCHANGED processed
         => m \in Window!Latest(processed, RingSize)]_vars

\* Every message gets through while one path works, whatever becomes of the other.
Works(p) == p \in reliable /\ (p = "secondary" => secondary_sock)
OnePathIsEnough ==
  \A m \in Message : (\E p \in Path : Works(p)) /\ result[m] # "unsent" ~> Processed(m)
=============================================================================
