-------------------------- MODULE NodeHealthProofs --------------------------
(***************************************************************************)
(* Proofs about PeerTable and NodeHealth for every set of nodes, services  *)
(* and addresses, every table size and timeout, and, for the monitor,      *)
(* every interval of which the timeout is at least four.  The invariant of *)
(* the table adds to the types that no recorded time lies in the future,   *)
(* so that what is stale for the sweep's old clock is stale for the        *)
(* present one, and that the entries before the sweep's index have been    *)
(* looked at.  The one of the monitor relates what the table, the copy of  *)
(* it, and the slots say of a node to the time it was last heard.          *)
(***************************************************************************)
EXTENDS NodeHealth, SequenceTheorems, FiniteSetTheorems, WellFoundedInduction, TLAPS

(***************************************************************************)
(* The peer table                                                          *)
(***************************************************************************)
NotInFuture ==
  /\ sweep.now <= clock
  /\ \A i \in 1..Len(peers) : peers[i].last_seen <= clock

Swept ==
  /\ sweep.at = "lock" => sweep.i = 1
  /\ sweep.at = "loop" => /\ sweep.i <= Len(peers) + 1
                          /\ \A j \in 1..Len(peers) : j < sweep.i => ~ Stale(peers[j])

IInv == TypeOK /\ UniqueIds /\ NotInFuture /\ Swept

-----------------------------------------------------------------------------
(* What the three ways to write the table leave in it. *)

Offered(m)  == IF m.services = NoField THEN {} ELSE m.services
Fresh(m, t) == [node_id |-> m.node_id, ip |-> m.ip, services |-> Offered(m), last_seen |-> t]
Seen(e, m, t) ==
  [e EXCEPT !.last_seen = t, !.services = IF m.services = NoField THEN @ ELSE m.services]

LEMMA FreshType ==
  ASSUME NEW m \in Announcement, m.node_id # Self, NEW t \in 0..MaxTime
  PROVE  Fresh(m, t) \in Entry
<1>1. m.node_id \in Node /\ m.ip \in Ip
  BY DEF Announcement
<1>2. m.services \in SUBSET Service \/ m.services = NoField
  BY DEF Announcement
<1>3. Offered(m) \in SUBSET Service
  BY <1>2 DEF Offered
<1> QED BY <1>1, <1>3 DEF Fresh, Entry

LEMMA SeenType ==
  ASSUME NEW e \in Entry, NEW m \in Announcement, NEW t \in 0..MaxTime
  PROVE  /\ Seen(e, m, t) \in Entry
         /\ Seen(e, m, t).node_id = e.node_id
         /\ Seen(e, m, t).last_seen = t
<1>1. m.services \in SUBSET Service \/ m.services = NoField
  BY DEF Announcement
<1>2. DEFINE s == IF m.services = NoField THEN e.services ELSE m.services
<1>3. s \in SUBSET Service
  BY <1>1 DEF Entry
<1>4. DEFINE later == [e EXCEPT !.last_seen = t]
<1>5. later = [node_id |-> e.node_id, ip |-> e.ip, services |-> e.services, last_seen |-> t]
  BY DEF Entry
<1>6. Seen(e, m, t) = [later EXCEPT !.services = s]
  BY <1>5 DEF Seen
<1> HIDE DEF s, later
<1>7. Seen(e, m, t) = [node_id |-> e.node_id, ip |-> e.ip, services |-> s, last_seen |-> t]
  BY <1>5, <1>6
<1> QED BY <1>3, <1>7 DEF Entry

LEMMA RefreshEffect ==
  ASSUME TypeOK, NEW m \in Announcement, RefreshPeer(m)
  PROVE  \E i \in 1..Len(peers) :
           /\ peers[i].node_id = m.node_id
           /\ peers' \in Seq(Entry) /\ Len(peers') = Len(peers)
           /\ \A j \in 1..Len(peers) :
                peers'[j] = IF j = i THEN Seen(peers[i], m, clock) ELSE peers[j]
<1>1. PICK i \in Index(m.node_id) :
        peers' = [peers EXCEPT ![i].last_seen = clock,
                               ![i].services = IF m.services = NoField THEN @ ELSE m.services]
  BY DEF RefreshPeer
<1>2. i \in 1..Len(peers) /\ peers[i].node_id = m.node_id
  BY DEF Index
<1>3. peers[i] \in Entry /\ Seen(peers[i], m, clock) \in Entry
  BY <1>2, SeenType, ElementOfSeq DEF TypeOK
<1>4. peers' = [peers EXCEPT ![i] = Seen(peers[i], m, clock)]
  BY <1>1, <1>2, <1>3 DEF TypeOK, Seen, Entry
<1> QED BY <1>2, <1>3, <1>4, ExceptSeq DEF TypeOK

LEMMA RemoveEffect ==
  ASSUME TypeOK, ExpireRemove
  PROVE  /\ sweep.i \in 1..Len(peers) /\ Len(peers) \in Nat
         /\ peers' \in Seq(Entry) /\ Len(peers') = Len(peers) - 1
         /\ \A j \in 1..(Len(peers) - 1) :
              peers'[j] = IF j = sweep.i THEN peers[Len(peers)] ELSE peers[j]
<1> DEFINE n == Len(peers)
           filled == [peers EXCEPT ![sweep.i] = peers[n]]
<1>1. n \in Nat /\ sweep.i \in 1..n
  BY LenProperties DEF TypeOK, ExpireRemove
<1>2. peers[n] \in Entry
  BY <1>1, ElementOfSeq DEF TypeOK
<1>3. /\ filled \in Seq(Entry) /\ Len(filled) = n
      /\ \A j \in 1..n : filled[j] = IF j = sweep.i THEN peers[n] ELSE peers[j]
  BY <1>1, <1>2, ExceptSeq DEF TypeOK
<1>4. peers' = SubSeq(filled, 1, n - 1)
  BY DEF ExpireRemove
<1> HIDE DEF filled, n
<1>5. \A j \in 1..(n - 1) : filled[j] \in Entry
  BY <1>1, <1>3, ElementOfSeq
<1>6. /\ SubSeq(filled, 1, n - 1) \in Seq(Entry)
      /\ Len(SubSeq(filled, 1, n - 1)) = IF 1 <= n - 1 THEN n - 1 - 1 + 1 ELSE 0
      /\ \A j \in 1..(n - 1 - 1 + 1) : SubSeq(filled, 1, n - 1)[j] = filled[1 + j - 1]
  <2>1. n - 1 \in Int
    BY <1>1
  <2> QED BY <1>5, <2>1, SubSeqProperties
<1>7. /\ peers' \in Seq(Entry) /\ Len(peers') = n - 1
      /\ \A j \in 1..(n - 1) : peers'[j] = filled[j]
  <2>1. \A j \in 1..(n - 1) : j \in 1..(n - 1 - 1 + 1) /\ 1 + j - 1 = j
    BY <1>1
  <2>2. n - 1 = IF 1 <= n - 1 THEN n - 1 - 1 + 1 ELSE 0
    BY <1>1
  <2> QED BY <1>4, <1>6, <2>1, <2>2
<1> QED BY <1>1, <1>3, <1>7 DEF n

LEMMA AddEffect ==
  ASSUME TypeOK, NEW m \in Announcement, m.node_id # Self, AddPeer(m)
  PROVE  /\ peers' \in Seq(Entry) /\ Len(peers') = Len(peers) + 1
         /\ \A j \in 1..Len(peers) : peers'[j] = peers[j]
         /\ peers'[Len(peers) + 1] = Fresh(m, clock)
<1>1. Fresh(m, clock) \in Entry
  BY FreshType DEF TypeOK
<1>2. peers' = Append(peers, Fresh(m, clock))
  BY DEF AddPeer, Fresh, Offered
<1> QED BY <1>1, <1>2, AppendProperties DEF TypeOK

-----------------------------------------------------------------------------
(* The invariant. *)

LEMMA InitIInv == Init => IInv
  BY MaxPeersNat, MaxTimeNat, EmptySeq
     DEF Init, IInv, TypeOK, UniqueIds, Unique, NotInFuture, Swept

LEMMA StepIInv == IInv /\ [Next]_vars => IInv'
<1> SUFFICES ASSUME IInv, [Next]_vars PROVE IInv'
  OBVIOUS
<1> USE MaxPeersNat, MaxTimeNat, PeerTimeoutNat DEF IInv
<1>0. /\ Len(peers) \in Nat /\ \A i \in 1..Len(peers) : peers[i] \in Entry
      /\ \A i \in 1..Len(peers) : peers[i].last_seen \in 0..MaxTime
      /\ clock \in 0..MaxTime /\ sweep.now \in 0..MaxTime /\ sweep.i \in 1..(MaxPeers + 1)
  <2>1. Len(peers) \in Nat /\ \A i \in 1..Len(peers) : peers[i] \in Entry
    BY LenProperties, ElementOfSeq DEF TypeOK
  <2>2. \A e \in Entry : e.last_seen \in 0..MaxTime
    BY DEF Entry
  <2> QED BY <2>1, <2>2 DEF TypeOK
<1>1. CASE Tick
  <2> USE <1>1 DEF Tick
  <2>1. clock' \in 0..MaxTime /\ clock' >= clock
    BY <1>0
  <2> QED BY <1>0, <2>1 DEF TypeOK, UniqueIds, Unique, NotInFuture, Swept, Stale
<1>2. ASSUME NEW m \in Announcement, m.node_id # Self, MutexFree, RefreshPeer(m),
             UNCHANGED <<clock, sweep>>
      PROVE  IInv'
  <2>1. PICK i \in 1..Len(peers) :
          /\ peers[i].node_id = m.node_id
          /\ peers' \in Seq(Entry) /\ Len(peers') = Len(peers)
          /\ \A j \in 1..Len(peers) :
               peers'[j] = IF j = i THEN Seen(peers[i], m, clock) ELSE peers[j]
    BY <1>2, RefreshEffect
  <2>2. /\ Seen(peers[i], m, clock).node_id = peers[i].node_id
        /\ Seen(peers[i], m, clock).last_seen = clock
    BY <1>0, SeenType
  <2>3. TypeOK'
    BY <1>2, <2>1 DEF TypeOK
  <2>4. UniqueIds'
    BY <2>1, <2>2 DEF UniqueIds, Unique
  <2>5. NotInFuture' /\ Swept'
    BY <1>0, <1>2, <2>1, <2>2 DEF NotInFuture, Swept, MutexFree
  <2> QED BY <2>3, <2>4, <2>5
<1>3. ASSUME NEW m \in Announcement, m.node_id # Self, MutexFree, AddPeer(m),
             UNCHANGED <<clock, sweep>>
      PROVE  IInv'
  <2>1. /\ peers' \in Seq(Entry) /\ Len(peers') = Len(peers) + 1
        /\ \A j \in 1..Len(peers) : peers'[j] = peers[j]
        /\ peers'[Len(peers) + 1] = Fresh(m, clock)
    BY <1>3, AddEffect
  <2>2. /\ Fresh(m, clock).node_id = m.node_id /\ Fresh(m, clock).last_seen = clock
        /\ \A j \in 1..Len(peers) : peers[j].node_id # m.node_id
        /\ Len(peers) < MaxPeers
    BY <1>3 DEF Fresh, AddPeer, Index
  <2>3. TypeOK'
    BY <1>0, <1>3, <2>1, <2>2 DEF TypeOK
  <2>4. UniqueIds'
    BY <1>0, <2>1, <2>2 DEF UniqueIds, Unique
  <2>5. NotInFuture' /\ Swept'
    BY <1>0, <1>3, <2>1, <2>2 DEF NotInFuture, Swept, MutexFree
  <2> QED BY <2>3, <2>4, <2>5
<1>4. CASE ExpireStart
  BY <1>0, <1>4 DEF ExpireStart, TypeOK, UniqueIds, NotInFuture, Swept
<1>5. CASE ExpireLock
  <2>1. /\ sweep' = [at |-> "loop", now |-> sweep.now, i |-> sweep.i]
        /\ sweep.i = 1 /\ peers' = peers /\ clock' = clock
    BY <1>5 DEF ExpireLock, TypeOK, Swept
  <2> QED BY <1>0, <2>1 DEF TypeOK, UniqueIds, NotInFuture, Swept
<1>6. CASE ExpireRemove
  <2>1. /\ sweep.i \in 1..Len(peers)
        /\ peers' \in Seq(Entry) /\ Len(peers') = Len(peers) - 1
        /\ \A j \in 1..(Len(peers) - 1) :
             peers'[j] = IF j = sweep.i THEN peers[Len(peers)] ELSE peers[j]
    BY <1>6, RemoveEffect
  <2>2. sweep.at = "loop" /\ sweep' = sweep /\ clock' = clock
    BY <1>6 DEF ExpireRemove
  <2>3. TypeOK'
    BY <1>0, <2>1, <2>2 DEF TypeOK
  <2>4. UniqueIds'
    BY <1>0, <2>1 DEF UniqueIds, Unique
  <2>5. NotInFuture'
    <3>1. \A j \in 1..Len(peers') : \E k \in 1..Len(peers) : peers'[j] = peers[k]
      BY <1>0, <2>1
    <3> QED BY <1>0, <2>2, <3>1 DEF NotInFuture
  <2>6. Swept'
    BY <1>0, <2>1, <2>2 DEF Swept, Stale
  <2> QED BY <2>3, <2>4, <2>5, <2>6
<1>7. CASE ExpireKeep
  <2>1. /\ sweep' = [at |-> "loop", now |-> sweep.now, i |-> sweep.i + 1]
        /\ sweep.at = "loop" /\ sweep.i <= Len(peers) /\ ~ Stale(peers[sweep.i])
        /\ peers' = peers /\ clock' = clock
    BY <1>7 DEF ExpireKeep, TypeOK
  <2>2. TypeOK'
    BY <1>0, <2>1 DEF TypeOK
  <2>3. Swept'
    BY <1>0, <2>1 DEF Swept, Stale
  <2> QED BY <2>1, <2>2, <2>3 DEF UniqueIds, NotInFuture
<1>8. CASE ExpireUnlock
  <2>1. /\ sweep' = [at |-> "idle", now |-> sweep.now, i |-> sweep.i]
        /\ peers' = peers /\ clock' = clock
    BY <1>8 DEF ExpireUnlock, TypeOK
  <2> QED BY <1>0, <2>1 DEF TypeOK, UniqueIds, NotInFuture, Swept
<1>9. CASE UNCHANGED vars
  BY <1>9 DEF vars, TypeOK, UniqueIds, Unique, NotInFuture, Swept, Stale
<1> QED BY <1>1, <1>2, <1>3, <1>4, <1>5, <1>6, <1>7, <1>8, <1>9
        DEF Next, Expire, update_peer, IgnoreNew, vars

LEMMA Invariant == Spec => []IInv
  BY InitIInv, StepIInv, PTL DEF Spec

\* The table never exceeds its capacity and every entry is well formed.
THEOREM TypeCorrect == Spec => []TypeOK
  BY Invariant, PTL DEF IInv

\* No node ever has two entries, whatever the compaction moves.
THEOREM OneEntryPerNode == Spec => []UniqueIds
  BY Invariant, PTL DEF IInv

\* The sweep leaves nothing behind that was stale at the time it read.
THEOREM SweepLeavesNothing == Spec => []SweepComplete
<1>1. IInv => SweepComplete
  <2> SUFFICES ASSUME IInv, sweep.at = "loop", sweep.i > Len(peers), NEW i \in 1..Len(peers)
               PROVE  ~ Stale(peers[i])
    BY DEF SweepComplete
  <2>1. Len(peers) \in Nat /\ sweep.i \in Nat
    BY MaxPeersNat, LenProperties DEF IInv, TypeOK
  <2> QED BY <2>1 DEF IInv, Swept
<1> QED BY <1>1, Invariant, PTL

-----------------------------------------------------------------------------
(* The refinement: what the mapping yields for a table without duplicates. *)

LEMMA SlotOf ==
  ASSUME NEW q, Unique(q), NEW i \in 1..Len(q)
  PROVE  q[i].node_id \in Ids(q) /\ Slot(q, q[i].node_id) = i
  BY DEF Slot, Unique, Ids

LEMMA MapAt ==
  ASSUME NEW q, Unique(q), NEW i \in 1..Len(q)
  PROVE  MapOf(q)[q[i].node_id] = Said(q[i])
  BY SlotOf DEF MapOf

LEMMA MapIs ==
  ASSUME NEW q, Unique(q), NEW f, f = [n \in Ids(q) |-> f[n]],
         \A i \in 1..Len(q) : f[q[i].node_id] = Said(q[i])
  PROVE  MapOf(q) = f
<1>1. \A n \in Ids(q) : Said(q[Slot(q, n)]) = f[n]
  BY SlotOf DEF Ids
<1> QED BY <1>1 DEF MapOf

LEMMA CountedByTheTable ==
  ASSUME TypeOK
  PROVE  IsFiniteSet(Ids(peers)) /\ Cardinality(Ids(peers)) <= Len(peers)
<1> DEFINE f == [i \in 1..Len(peers) |-> peers[i].node_id]
<1>1. Len(peers) \in Nat
  BY LenProperties DEF TypeOK
<1>2. f \in Surjection(1..Len(peers), Ids(peers))
  BY DEF Surjection, Ids
<1>3. ExistsSurjection(1..Len(peers), Ids(peers))
  BY <1>2 DEF ExistsSurjection
<1>4. IsFiniteSet(Ids(peers))
  BY <1>1, <1>2, FS_Interval, FS_Surjection
<1> QED BY <1>1, <1>3, <1>4, FS_SurjCardinalityBound

\* PeerMap has FiniteSets of its own.
LEMMA SameCardinality == ASSUME NEW S PROVE Abstract!Cardinality(S) = Cardinality(S)
  BY DEF Abstract!Cardinality, Cardinality

LEMMA MapInit == Init => Abstract!Init
  BY DEF Init, Abstract!Init, MapOf, Ids

LEMMA MapRefresh ==
  ASSUME IInv, IInv', NEW m \in Announcement, m.node_id # Self, RefreshPeer(m), clock' = clock
  PROVE  Abstract!Refresh(m)
<1>1. PICK i \in 1..Len(peers) :
        /\ peers[i].node_id = m.node_id
        /\ peers' \in Seq(Entry) /\ Len(peers') = Len(peers)
        /\ \A j \in 1..Len(peers) :
             peers'[j] = IF j = i THEN Seen(peers[i], m, clock) ELSE peers[j]
  BY RefreshEffect DEF IInv
<1>2. peers[i] \in Entry /\ clock \in 0..MaxTime
  BY ElementOfSeq DEF IInv, TypeOK
<1> DEFINE now == [ip |-> peers[i].ip, last_seen |-> clock,
                   services |-> IF m.services = NoField THEN peers[i].services ELSE m.services]
           f == [n \in Ids(peers) |-> IF n = m.node_id THEN now ELSE MapOf(peers)[n]]
<1>3. Said(Seen(peers[i], m, clock)) = now /\ Seen(peers[i], m, clock).node_id = m.node_id
  BY <1>1, <1>2 DEF Said, Seen, Entry
<1>4. \A j \in 1..Len(peers) : peers'[j].node_id = peers[j].node_id
  BY <1>1, <1>3
<1>5. Ids(peers') = Ids(peers)
  BY <1>1, <1>4 DEF Ids
<1>6. ASSUME NEW j \in 1..Len(peers') PROVE f[peers'[j].node_id] = Said(peers'[j])
  <2>1. j \in 1..Len(peers) /\ peers[j].node_id \in Ids(peers)
    BY <1>1 DEF Ids
  <2>2. CASE j = i
    BY <1>1, <1>3, <2>1, <2>2
  <2>3. CASE j # i
    <3>1. peers[j].node_id # m.node_id
      BY <1>1, <2>1, <2>3 DEF IInv, UniqueIds, Unique
    <3>2. MapOf(peers)[peers[j].node_id] = Said(peers[j])
      BY <2>1, MapAt DEF IInv, UniqueIds
    <3> QED BY <1>1, <2>1, <2>3, <3>1, <3>2
  <2> QED BY <2>2, <2>3
<1>7. Unique(peers')
  BY DEF IInv, UniqueIds
<1>8. MapOf(peers') = f
  <2>1. f = [n \in Ids(peers') |-> f[n]]
    BY <1>5
  <2> HIDE DEF f
  <2> QED BY <1>6, <1>7, <2>1, MapIs
<1>9. MapOf(peers)[m.node_id] = Said(peers[i]) /\ m.node_id \in Ids(peers)
  BY <1>1, MapAt, SlotOf DEF IInv, UniqueIds
<1>10. [MapOf(peers) EXCEPT ![m.node_id].last_seen = clock,
                            ![m.node_id].services =
                               IF m.services = NoField THEN @ ELSE m.services] = f
  <2> DEFINE n == m.node_id
             K == MapOf(peers)
             K1 == [K EXCEPT ![n].last_seen = clock]
  <2>1. K = [k \in Ids(peers) |-> K[k]]
    BY DEF MapOf
  <2>2. K[n] = [ip |-> peers[i].ip, services |-> peers[i].services,
                last_seen |-> peers[i].last_seen]
    BY <1>9 DEF Said
  <2> HIDE DEF K
  <2>3. K1 = [k \in Ids(peers) |-> IF k = n THEN [ip |-> peers[i].ip, services |-> peers[i].services,
                                                 last_seen |-> clock] ELSE K[k]]
    BY <1>9, <2>1, <2>2
  <2>4. K1[n] = [ip |-> peers[i].ip, services |-> peers[i].services, last_seen |-> clock]
    BY <1>9, <2>3
  <2> HIDE DEF K1
  <2>5. [K1 EXCEPT ![n].services = IF m.services = NoField THEN @ ELSE m.services]
        = [k \in Ids(peers) |-> IF k = n THEN now ELSE K[k]]
    BY <1>9, <2>3, <2>4
  <2> QED BY <2>5 DEF K, K1
<1> QED BY <1>8, <1>9, <1>10 DEF Abstract!Refresh, Abstract!NoField, NoField, MapOf

LEMMA MapAdd ==
  ASSUME IInv, IInv', NEW m \in Announcement, m.node_id # Self, AddPeer(m), clock' = clock
  PROVE  Abstract!Learn(m)
<1> DEFINE n == m.node_id
           new == [ip |-> m.ip, services |-> Offered(m), last_seen |-> clock]
           f == [k \in Ids(peers) \cup {n} |-> IF k = n THEN new ELSE MapOf(peers)[k]]
<1>1. /\ peers' \in Seq(Entry) /\ Len(peers') = Len(peers) + 1 /\ Len(peers) \in Nat
      /\ \A j \in 1..Len(peers) : peers'[j] = peers[j]
      /\ peers'[Len(peers) + 1] = Fresh(m, clock)
  BY AddEffect, LenProperties DEF IInv, TypeOK
<1>2. n \notin Ids(peers) /\ Len(peers) < MaxPeers
  BY DEF AddPeer, Index, Ids
<1>3. Cardinality(Ids(peers)) < MaxPeers
  <2>1. IsFiniteSet(Ids(peers)) /\ Cardinality(Ids(peers)) <= Len(peers)
    BY CountedByTheTable DEF IInv
  <2>2. Cardinality(Ids(peers)) \in Nat
    BY <2>1, FS_CardinalityType
  <2> QED BY <1>1, <1>2, <2>1, <2>2, MaxPeersNat
<1>4. Fresh(m, clock).node_id = n /\ Said(Fresh(m, clock)) = new
  BY DEF Fresh, Said
<1>5. Ids(peers') = Ids(peers) \cup {n}
  <2>1. 1..Len(peers') = 1..Len(peers) \cup {Len(peers) + 1}
    BY <1>1
  <2> QED BY <1>1, <1>4, <2>1 DEF Ids
<1>6. ASSUME NEW j \in 1..Len(peers') PROVE f[peers'[j].node_id] = Said(peers'[j])
  <2>1. CASE j = Len(peers) + 1
    BY <1>1, <1>4, <2>1
  <2>2. CASE j # Len(peers) + 1
    <3>1. j \in 1..Len(peers) /\ peers[j].node_id \in Ids(peers)
      BY <1>1, <2>2 DEF Ids
    <3>2. MapOf(peers)[peers[j].node_id] = Said(peers[j])
      BY <3>1, MapAt DEF IInv, UniqueIds
    <3> QED BY <1>1, <1>2, <3>1, <3>2
  <2> QED BY <2>1, <2>2
<1>7. MapOf(peers') = f
  <2>1. f = [k \in Ids(peers') |-> f[k]]
    BY <1>5
  <2>2. Unique(peers')
    BY DEF IInv, UniqueIds
  <2> HIDE DEF f
  <2> QED BY <1>6, <2>1, <2>2, MapIs
<1> QED BY <1>2, <1>3, <1>7, SameCardinality
        DEF Abstract!Learn, Abstract!Offered, Abstract!NoField, Offered, NoField, MapOf

LEMMA MapRemove ==
  ASSUME IInv, IInv', ExpireRemove
  PROVE  \E n \in DOMAIN MapOf(peers) : Abstract!Forget(n)
<1> DEFINE gone == peers[sweep.i].node_id
           f == [k \in Ids(peers) \ {gone} |-> MapOf(peers)[k]]
<1>1. /\ sweep.i \in 1..Len(peers) /\ Len(peers) \in Nat
      /\ peers' \in Seq(Entry) /\ Len(peers') = Len(peers) - 1
      /\ \A j \in 1..(Len(peers) - 1) :
           peers'[j] = IF j = sweep.i THEN peers[Len(peers)] ELSE peers[j]
  BY RemoveEffect DEF IInv
<1>2. gone \in Ids(peers) /\ MapOf(peers)[gone] = Said(peers[sweep.i])
  BY <1>1, MapAt, SlotOf DEF IInv, UniqueIds
<1>3. clock - MapOf(peers)[gone].last_seen > PeerTimeout /\ clock' = clock
  <2>1. peers[sweep.i] \in Entry
    BY <1>1, ElementOfSeq DEF IInv, TypeOK
  <2>2. peers[sweep.i].last_seen \in Int /\ sweep.now \in Int /\ clock \in Int
    BY <2>1, MaxTimeNat DEF Entry, IInv, TypeOK
  <2>3. sweep.now - peers[sweep.i].last_seen > PeerTimeout /\ sweep.now <= clock
    BY DEF ExpireRemove, Stale, IInv, NotInFuture
  <2>4. MapOf(peers)[gone].last_seen = peers[sweep.i].last_seen
    BY <1>2 DEF Said
  <2> QED BY <2>2, <2>3, <2>4, PeerTimeoutNat DEF ExpireRemove
<1>4. \A j \in 1..Len(peers') : \E k \in 1..Len(peers) : k # sweep.i /\ peers'[j] = peers[k]
  BY <1>1
<1>5. \A k \in 1..Len(peers) : k # sweep.i => \E j \in 1..Len(peers') : peers'[j] = peers[k]
  <2> SUFFICES ASSUME NEW k \in 1..Len(peers), k # sweep.i
               PROVE  \E j \in 1..Len(peers') : peers'[j] = peers[k]
    OBVIOUS
  <2>1. CASE k = Len(peers)
    <3>1. sweep.i \in 1..Len(peers') /\ peers'[sweep.i] = peers[k]
      BY <1>1, <2>1
    <3> QED BY <3>1
  <2>2. CASE k # Len(peers)
    <3>1. k \in 1..Len(peers') /\ peers'[k] = peers[k]
      BY <1>1, <2>2
    <3> QED BY <3>1
  <2> QED BY <2>1, <2>2
<1>6. \A k \in 1..Len(peers) : peers[k].node_id = gone => k = sweep.i
  BY <1>1 DEF IInv, UniqueIds, Unique
<1>7. Ids(peers') = Ids(peers) \ {gone}
  <2>1. \A n \in Ids(peers') : n \in Ids(peers) /\ n # gone
    BY <1>4, <1>6 DEF Ids
  <2>2. \A n \in Ids(peers) : n # gone => n \in Ids(peers')
    BY <1>5 DEF Ids
  <2> QED BY <2>1, <2>2
<1>8. ASSUME NEW j \in 1..Len(peers') PROVE f[peers'[j].node_id] = Said(peers'[j])
  <2>1. PICK k \in 1..Len(peers) : k # sweep.i /\ peers'[j] = peers[k]
    BY <1>4
  <2>2. peers[k].node_id \in Ids(peers) \ {gone}
    BY <1>6, <2>1 DEF Ids
  <2>3. MapOf(peers)[peers[k].node_id] = Said(peers[k])
    BY MapAt DEF IInv, UniqueIds
  <2> QED BY <2>1, <2>2, <2>3
<1>9. MapOf(peers') = f
  <2>1. f = [k \in Ids(peers') |-> f[k]]
    BY <1>7
  <2>2. Unique(peers')
    BY DEF IInv, UniqueIds
  <2> HIDE DEF f
  <2> QED BY <1>8, <2>1, <2>2, MapIs
<1> QED BY <1>2, <1>3, <1>9 DEF Abstract!Forget, MapOf

LEMMA MapStep == IInv /\ IInv' /\ [Next]_vars => [Abstract!Next]_(Abstract!vars)
<1> SUFFICES ASSUME IInv, IInv', [Next]_vars
             PROVE  [Abstract!Next]_(Abstract!vars)
  OBVIOUS
<1> USE DEF Abstract!Next, Abstract!vars
<1>1. CASE Tick
  BY <1>1, MaxTimeNat DEF Tick, Abstract!Tick, IInv, TypeOK
<1>2. ASSUME NEW m \in Announcement, update_peer(m)
      PROVE  [Abstract!Next]_(Abstract!vars)
  <2>1. CASE UNCHANGED peers
    BY <1>2, <2>1 DEF update_peer
  <2>2. CASE m.node_id # Self /\ (RefreshPeer(m) \/ AddPeer(m))
    <3>1. m \in Abstract!Announcement
      BY <2>2 DEF Announcement, Abstract!Announcement, NoField, Abstract!NoField
    <3> QED BY <1>2, <2>2, <3>1, MapRefresh, MapAdd DEF update_peer
  <2> QED BY <1>2, <2>1, <2>2 DEF update_peer, IgnoreNew
<1>3. CASE ExpireRemove
  BY <1>3, MapRemove
<1>4. CASE ExpireStart \/ ExpireLock \/ ExpireKeep \/ ExpireUnlock
  BY <1>4 DEF ExpireStart, ExpireLock, ExpireKeep, ExpireUnlock
<1>5. CASE UNCHANGED vars
  BY <1>5 DEF vars
<1> QED BY <1>1, <1>2, <1>3, <1>4, <1>5 DEF Next, Expire

\* The compacted array under its mutex implements the map of PeerMap: entries
\* come from announcements and go only after the timeout.
THEOREM Refinement == Spec => ImplementsPeerMap
  BY MapInit, MapStep, Invariant, PTL DEF Spec, ImplementsPeerMap, Abstract!Spec

(***************************************************************************)
(* The health monitor                                                      *)
(***************************************************************************)
\* As many slots, and entries of the table, as nodes.
Room == IsFiniteSet(Node) /\ Cardinality(Node) <= MaxPeers

Active(s) == health[s].active

OneSlotPerNode ==
  \A s, r \in Slots : Active(s) /\ Active(r) /\ health[s].node_id = health[r].node_id => s = r

TrackedWereHeard == \A s \in Slots : Active(s) => heard[health[s].node_id] >= 0

\* What had been heard when the update copied the table is what the copy says of its
\* nodes, and a long silence for the others; a tracked node had been heard by then.
CopyWasHeard ==
  lifecycle.at \in {"each", "gone"} =>
    /\ \A j \in 1..Len(lifecycle.copy) :
         LET p == lifecycle.copy[j]
         IN  p.last_seen = heardAtCopy[p.node_id] /\ heardAtCopy[p.node_id] >= 0
    /\ Room => \A n \in Node \ Ids(lifecycle.copy) :
                 heardAtCopy[n] = -1 \/ lifecycle.now - heardAtCopy[n] > PeerTimeout
    /\ \A s \in Slots : Active(s) => heardAtCopy[health[s].node_id] >= 0

\* The table.
LastSeenIsHeard == \A i \in 1..Len(peers) : peers[i].last_seen = heard[peers[i].node_id]
AbsentAreSilent ==
  Room => \A n \in Node \ Ids(peers) : heard[n] = -1 \/ sweep.now - heard[n] > PeerTimeout

\* The update: its clock, and its copy, in which a node is missing or out of date only
\* if it was heard after the clock was read.
Copied == lifecycle.at \in {"each", "gone"}

ClocksInOrder ==
  lifecycle.at = "peers" \/ Copied => sweep.now <= lifecycle.now /\ lifecycle.now <= clock

NotStarted == ~ Copied => lifecycle.i = 1 /\ lifecycle.found = {}

Later(n) == heard[n] >= lifecycle.now

CopyIsHeard ==
  Copied =>
    /\ Unique(lifecycle.copy) /\ Len(lifecycle.copy) <= MaxPeers
    /\ \A j \in 1..Len(lifecycle.copy) :
         LET p == lifecycle.copy[j]
         IN  heard[p.node_id] >= 0 /\ (p.last_seen = heard[p.node_id] \/ Later(p.node_id))
    /\ Room => \A n \in Node \ Ids(lifecycle.copy) :
                 heard[n] = -1 \/ lifecycle.now - heard[n] > PeerTimeout \/ Later(n)

\* The peers of the copy before k have been looked at.
Visited(k) ==
  \A j \in 1..Len(lifecycle.copy) : j < k =>
    LET p == lifecycle.copy[j]
    IN  /\ \A s \in SlotsOf(p.node_id) :
             s \in lifecycle.found /\ health[s].state = compute_state(lifecycle.now, p.last_seen)
        /\ Room => SlotsOf(p.node_id) # {}

FoundAreCopied ==
  Copied => \A s \in lifecycle.found : Active(s) /\ health[s].node_id \in Ids(lifecycle.copy)

FirstLoop == lifecycle.at = "each" => lifecycle.i <= Len(lifecycle.copy) + 1 /\ Visited(lifecycle.i)

SecondLoop ==
  lifecycle.at = "gone" =>
    /\ Visited(Len(lifecycle.copy) + 1)
    /\ \A s \in Slots : s < lifecycle.i /\ Active(s) /\ s \notin lifecycle.found => IsLost(s)

\* With one node tracked at most, a LOST one keeps the safe state.
AloneLostIsSafe ==
  (\A s, r \in Slots : Active(s) /\ Active(r) => s = r) => \A s \in Slots : IsLost(s) => safe.active

TableInv  == LastSeenIsHeard /\ AbsentAreSilent
UpdateInv == ClocksInOrder /\ NotStarted /\ CopyIsHeard /\ FoundAreCopied /\ FirstLoop /\ SecondLoop
SlotInv   == OneSlotPerNode /\ TrackedWereHeard /\ AloneLostIsSafe
NodeInv   == NodeTypeOK /\ TableInv /\ UpdateInv /\ SlotInv /\ CopyWasHeard

-----------------------------------------------------------------------------
(* Lemmas about the operators. *)

LEMMA StateType ==
  ASSUME NEW now \in Int, NEW t \in Int
  PROVE  compute_state(now, t) \in States
  BY DEF compute_state, States

LEMMA LostIsOld ==
  ASSUME NEW now \in Int, NEW t \in Int, compute_state(now, t) = "LOST"
  PROVE  now - t >= PeerTimeout
  BY PeerTimeoutNat DEF compute_state

\* A timeout is more than three missed intervals.
LEMMA OldIsLost ==
  ASSUME NEW now \in Int, NEW t \in Int, now - t >= PeerTimeout
  PROVE  compute_state(now, t) = "LOST"
<1> DEFINE e == now - t
           q == e \div Interval
<1>1. e \in Int /\ Interval \in Int /\ Interval > 0 /\ e >= 4 * Interval
  BY IntervalPositive, PeerTimeoutNat, TimeoutCoversMisses
<1>2. q \in Int /\ e < Interval * (q + 1)
  BY <1>1
<1>3. q >= 4
  <2>1. CASE q <= 3
    <3>1. Interval * (q + 1) <= Interval * 4
      BY <1>1, <1>2, <2>1
    <3> QED BY <1>1, <1>2, <3>1
  <2> QED BY <1>2, <2>1
<1>4. e > Interval
  BY <1>1
<1> QED BY <1>1, <1>2, <1>3, <1>4 DEF compute_state

LEMMA SlotType ==
  ASSUME NodeTypeOK, NEW s \in Slots
  PROVE  \/ health[s] = Free /\ ~ Active(s)
         \/ /\ Active(s) /\ health[s].node_id \in Node /\ health[s].state \in States
            /\ health[s] = Track(health[s].node_id, health[s].state)
<1>1. health[s] \in {Free} \cup [active : {TRUE}, node_id : Node, state : States]
  BY DEF NodeTypeOK
<1>2. CASE health[s] = Free
  BY <1>2 DEF Free, Active
<1>3. CASE health[s] \in [active : {TRUE}, node_id : Node, state : States]
  BY <1>3 DEF Active, Track
<1> QED BY <1>1, <1>2, <1>3

\* While a node has no slot and there is room, a slot is free.
LEMMA FreeSlot ==
  ASSUME NodeTypeOK, OneSlotPerNode, Room, NEW n \in Node, SlotsOf(n) = {}
  PROVE  FreeSlots # {}
<1> SUFFICES ASSUME FreeSlots = {} PROVE FALSE
  OBVIOUS
<1> DEFINE f == [s \in Slots |-> health[s].node_id]
           Others == Node \ {n}
<1>1. \A s \in Slots : Active(s) /\ health[s].node_id \in Others
  BY SlotType DEF FreeSlots, SlotsOf, Active
<1>2. f \in Injection(Slots, Others)
  <2>1. f \in [Slots -> Others]
    BY <1>1
  <2>2. \A s, r \in Slots : f[s] = f[r] => s = r
    BY <1>1 DEF OneSlotPerNode
  <2> QED BY <2>1, <2>2 DEF Injection, IsInjective
<1>3. IsFiniteSet(Others) /\ Cardinality(Others) = Cardinality(Node) - 1
  BY FS_RemoveElement DEF Room
<1>4. Cardinality(Slots) <= Cardinality(Others)
  BY <1>2, <1>3, FS_Injection
<1>5. Cardinality(Slots) = MaxPeers
  BY FS_Interval, MaxPeersNat DEF Slots
<1>6. Cardinality(Node) \in Nat
  BY FS_CardinalityType DEF Room
<1> QED BY <1>3, <1>4, <1>5, <1>6, MaxPeersNat DEF Room

\* While a node is not in the table and there is room, an entry is free.
LEMMA FreeEntry ==
  ASSUME IInv, Room, NEW n \in Node \ Ids(peers)
  PROVE  Len(peers) < MaxPeers
<1> DEFINE N == 1..Len(peers)
           f == [i \in N |-> peers[i].node_id]
           Others == Node \ {n}
<1>1. Len(peers) \in Nat /\ \A i \in N : peers[i] \in Entry
  BY LenProperties, ElementOfSeq DEF IInv, TypeOK
<1>2. \A i \in N : peers[i].node_id \in Others
  BY <1>1 DEF Ids, Entry
<1>3. f \in Injection(N, Others)
  <2>1. \A i, j \in N : f[i] = f[j] => i = j
    BY DEF IInv, UniqueIds, Unique
  <2> QED BY <1>2, <2>1 DEF Injection, IsInjective
<1>4. IsFiniteSet(Others) /\ Cardinality(Others) = Cardinality(Node) - 1
  BY FS_RemoveElement DEF Room
<1>5. Cardinality(N) <= Cardinality(Others)
  BY <1>3, <1>4, FS_Injection
<1>6. Cardinality(N) = Len(peers)
  <2>1. 1 \in Int /\ Len(peers) \in Int
    BY <1>1
  <2>2. Cardinality(1..Len(peers)) = IF 1 > Len(peers) THEN 0 ELSE Len(peers) - 1 + 1
    BY <2>1, FS_Interval
  <2> QED BY <1>1, <2>2
<1>7. Cardinality(Node) \in Nat
  BY FS_CardinalityType DEF Room
<1> QED BY <1>1, <1>4, <1>5, <1>6, <1>7, MaxPeersNat DEF Room

-----------------------------------------------------------------------------
(* The table: every step of the node is a step of PeerTable or leaves it as it is. *)

LEMMA NodeStepIsTableStep == [NodeNext]_nodeVars => [Next]_vars
  BY DEF NodeNext, nodeVars, vars, TimePasses, Hear, Lifecycle, LifecycleTick, ExpirePeers,
         ceell_health_update, HealthNow, GetPeers, EachPeer, EachDone, EachSlot, UpdateDone,
         Next, Expire

LEMMA TableInvariant == NodeSpec => []IInv
<1>1. NodeInit => IInv
  BY InitIInv DEF NodeInit
<1> QED BY <1>1, NodeStepIsTableStep, StepIInv, PTL DEF NodeSpec

\* What is known of the variables, in the form the provers need.
LEMMA Types ==
  ASSUME NodeTypeOK
  PROVE  /\ clock \in Int /\ sweep.now \in Int /\ lifecycle.now \in Int /\ lifecycle.i \in 1..(MaxPeers + 1)
         /\ \A n \in Node : heard[n] \in Int
         /\ Len(peers) \in Nat /\ Len(lifecycle.copy) \in Nat
         /\ \A i \in 1..Len(peers) : peers[i].node_id \in Node /\ peers[i].last_seen \in Int
         /\ \A i \in 1..Len(lifecycle.copy) :
              lifecycle.copy[i].node_id \in Node /\ lifecycle.copy[i].last_seen \in Int
         /\ Ids(peers) \subseteq Node /\ Ids(lifecycle.copy) \subseteq Node
<1>1. peers \in Seq(Entry) /\ lifecycle.copy \in Seq(Entry)
  BY DEF NodeTypeOK, TypeOK
<1>2. /\ Len(peers) \in Nat /\ Len(lifecycle.copy) \in Nat
      /\ \A i \in 1..Len(peers) : peers[i] \in Entry
      /\ \A i \in 1..Len(lifecycle.copy) : lifecycle.copy[i] \in Entry
  BY <1>1, LenProperties, ElementOfSeq
<1>3. \A e \in Entry : e.node_id \in Node /\ e.last_seen \in Int
  BY MaxTimeNat DEF Entry
<1>4. Ids(peers) \subseteq Node /\ Ids(lifecycle.copy) \subseteq Node
  BY <1>2, <1>3 DEF Ids
<1> QED BY <1>2, <1>3, <1>4, MaxTimeNat, MaxPeersNat DEF NodeTypeOK, TypeOK

LEMMA HearTable ==
  ASSUME IInv, NodeTypeOK, TableInv, NEW m \in Announcement, Hear(m)
  PROVE  TableInv'
<1> USE Types DEF TableInv
<1>1. /\ heard' = [n \in Node |-> IF n = m.node_id THEN clock ELSE heard[n]]
      /\ clock' = clock /\ sweep' = sweep
  BY DEF Hear, update_peer
<1>2. CASE m.node_id = Self
  <2>1. peers' = peers /\ \A n \in Node : heard'[n] = heard[n]
    BY <1>1, <1>2, SelfIsNoPeer DEF Hear, update_peer
  <2> QED BY <1>1, <2>1 DEF LastSeenIsHeard, AbsentAreSilent
<1>3. CASE m.node_id # Self /\ RefreshPeer(m)
  <2>1. PICK i \in 1..Len(peers) :
          /\ peers[i].node_id = m.node_id
          /\ peers' \in Seq(Entry) /\ Len(peers') = Len(peers)
          /\ \A j \in 1..Len(peers) :
               peers'[j] = IF j = i THEN Seen(peers[i], m, clock) ELSE peers[j]
    BY <1>3, RefreshEffect DEF NodeTypeOK
  <2>2. peers[i] \in Entry /\ clock \in 0..MaxTime
    BY ElementOfSeq DEF NodeTypeOK, TypeOK
  <2>3. /\ Seen(peers[i], m, clock).node_id = peers[i].node_id
        /\ Seen(peers[i], m, clock).last_seen = clock
    BY <2>2, SeenType
  <2>4. \A j \in 1..Len(peers) : peers'[j].node_id = peers[j].node_id
    BY <2>1, <2>3
  <2>5. Ids(peers') = Ids(peers) /\ m.node_id \in Ids(peers)
    BY <2>1, <2>4 DEF Ids
  <2>6. LastSeenIsHeard'
    BY <1>1, <2>1, <2>3, <2>4 DEF LastSeenIsHeard, IInv, UniqueIds, Unique
  <2>7. AbsentAreSilent'
    BY <1>1, <2>5 DEF AbsentAreSilent
  <2> QED BY <2>6, <2>7
<1>4. CASE m.node_id # Self /\ AddPeer(m)
  <2>1. /\ peers' \in Seq(Entry) /\ Len(peers') = Len(peers) + 1
        /\ \A j \in 1..Len(peers) : peers'[j] = peers[j]
        /\ peers'[Len(peers) + 1] = Fresh(m, clock)
    BY <1>4, AddEffect DEF NodeTypeOK
  <2>2. /\ Fresh(m, clock).node_id = m.node_id /\ Fresh(m, clock).last_seen = clock
        /\ m.node_id \in Node /\ \A j \in 1..Len(peers) : peers[j].node_id # m.node_id
    BY <1>4 DEF Fresh, AddPeer, Index, Announcement
  <2>3. LastSeenIsHeard'
    BY <1>1, <2>1, <2>2 DEF LastSeenIsHeard
  <2>4. \A n \in Node : n \notin Ids(peers)' => n \notin Ids(peers) /\ n # m.node_id
    <3>1. 1..Len(peers') = 1..Len(peers) \cup {Len(peers) + 1}
      BY <2>1
    <3> QED BY <2>1, <2>2, <3>1 DEF Ids
  <2>5. AbsentAreSilent'
    BY <1>1, <2>4 DEF AbsentAreSilent
  <2> QED BY <2>3, <2>5
<1>5. CASE m.node_id # Self /\ IgnoreNew(m)
  <2>1. /\ peers' = peers /\ Len(peers) >= MaxPeers
        /\ m.node_id \in Node \ Ids(peers)
    BY <1>5 DEF IgnoreNew, Index, Ids, Announcement
  <2>2. ~ Room
    BY <2>1, FreeEntry, MaxPeersNat
  <2>3. \A i \in 1..Len(peers) : peers[i].node_id # m.node_id
    BY <2>1 DEF Ids
  <2>4. LastSeenIsHeard'
    BY <1>1, <2>1, <2>3 DEF LastSeenIsHeard
  <2> QED BY <2>2, <2>4 DEF AbsentAreSilent, Room
<1> QED BY <1>2, <1>3, <1>4, <1>5 DEF Hear, update_peer

LEMMA RemoveTable ==
  ASSUME IInv, NodeTypeOK, TableInv, ExpireRemove, UNCHANGED heard
  PROVE  TableInv'
<1> USE DEF TableInv
<1>1. /\ sweep.i \in 1..Len(peers) /\ Len(peers) \in Nat /\ Len(peers') = Len(peers) - 1
      /\ \A j \in 1..(Len(peers) - 1) :
           peers'[j] = IF j = sweep.i THEN peers[Len(peers)] ELSE peers[j]
  BY RemoveEffect DEF NodeTypeOK
<1>2. sweep' = sweep /\ Stale(peers[sweep.i])
  BY DEF ExpireRemove
<1>3. \A j \in 1..Len(peers') : \E k \in 1..Len(peers) : peers'[j] = peers[k]
  BY <1>1
<1>4. LastSeenIsHeard'
  BY <1>3, Types DEF LastSeenIsHeard
<1>5. \A n \in Node : n \notin Ids(peers)' => n \notin Ids(peers) \/ n = peers[sweep.i].node_id
  <2> SUFFICES ASSUME NEW k \in 1..Len(peers), k # sweep.i
               PROVE  \E j \in 1..Len(peers') : peers'[j] = peers[k]
    BY DEF Ids
  <2>1. CASE k = Len(peers)
    <3>1. sweep.i \in 1..Len(peers') /\ peers'[sweep.i] = peers[k]
      BY <1>1, <2>1
    <3> QED BY <3>1
  <2>2. CASE k # Len(peers)
    <3>1. k \in 1..Len(peers') /\ peers'[k] = peers[k]
      BY <1>1, <2>2
    <3> QED BY <3>1
  <2> QED BY <2>1, <2>2
<1>6. sweep.now - heard[peers[sweep.i].node_id] > PeerTimeout
  BY <1>1, <1>2, Types DEF LastSeenIsHeard, Stale
<1>7. AbsentAreSilent'
  BY <1>2, <1>5, <1>6, Types DEF AbsentAreSilent
<1> QED BY <1>4, <1>7

LEMMA StepTableInv ==
  ASSUME IInv, NodeTypeOK, TableInv, [NodeNext]_nodeVars
  PROVE  TableInv'
<1> USE DEF TableInv
<1>1. CASE UNCHANGED <<peers, sweep, heard>>
  BY <1>1 DEF LastSeenIsHeard, AbsentAreSilent
<1>2. CASE UNCHANGED <<peers, heard>> /\ sweep'.now = sweep.now
  BY <1>2 DEF LastSeenIsHeard, AbsentAreSilent
<1>3. CASE ExpireStart /\ UNCHANGED heard
  <2>1. peers' = peers /\ sweep'.now = clock /\ sweep.now <= clock
    BY <1>3 DEF ExpireStart, IInv, NotInFuture
  <2> QED BY <1>3, <2>1, Types, PeerTimeoutNat DEF LastSeenIsHeard, AbsentAreSilent
<1>4. CASE ExpireRemove /\ UNCHANGED heard
  BY <1>4, RemoveTable
<1>5. ASSUME NEW m \in Announcement, Hear(m) PROVE TableInv'
  BY <1>5, HearTable
<1>6. ExpireLock \/ ExpireKeep \/ ExpireUnlock => UNCHANGED peers /\ sweep'.now = sweep.now
  BY DEF ExpireLock, ExpireKeep, ExpireUnlock, NodeTypeOK, TypeOK
<1> QED BY <1>1, <1>2, <1>3, <1>4, <1>5, <1>6
        DEF NodeNext, nodeVars, vars, TimePasses, Tick, Lifecycle, LifecycleTick, ExpirePeers,
            ceell_health_update, HealthNow, GetPeers, EachPeer, EachDone, EachSlot, UpdateDone

-----------------------------------------------------------------------------
(* The slots. *)

LEMMA LeastNat ==
  ASSUME NEW S \in SUBSET Nat, S # {}
  PROVE  \E m \in S : \A n \in S : m <= n
<1> DEFINE R == OpToRel(<, Nat)
<1>1. IsWellFoundedOn(R, Nat)
  BY NatLessThanWellFounded
<1>2. \E m \in S : \A n \in S : ~ (<<n, m>> \in R)
  <2> HIDE DEF R
  <2> QED BY <1>1, WFMin
<1>3. \A m, n \in Nat : <<n, m>> \in R <=> n < m
  BY DEF OpToRel
<1> HIDE DEF R
<1>4. PICK m \in S : \A n \in S : ~ (<<n, m>> \in R)
  BY <1>2
<1>5. \A n \in S : ~ (n < m)
  BY <1>3, <1>4
<1>6. \A n \in S : n \in Int /\ m \in Int
  OBVIOUS
<1> QED BY <1>5, <1>6

\* A node gets the slot it has, or one that was free, or none is free.
LEMMA SlotFound ==
  ASSUME NodeTypeOK, OneSlotPerNode, NEW n \in Node
  PROVE  \/ find_or_alloc(n) = {} /\ SlotsOf(n) = {} /\ FreeSlots = {}
         \/ \E s \in Slots : /\ find_or_alloc(n) = {s}
                             /\ SlotsOf(n) = {s} \/ (SlotsOf(n) = {} /\ ~ Active(s))
<1>1. CASE SlotsOf(n) # {}
  <2>1. PICK s \in SlotsOf(n) : TRUE
    BY <1>1
  <2>2. s \in Slots /\ Active(s) /\ health[s].node_id = n
    BY <2>1 DEF SlotsOf, Active
  <2>3. \A r \in SlotsOf(n) : r = s
    BY <2>2 DEF SlotsOf, OneSlotPerNode, Active
  <2>4. SlotsOf(n) = {s}
    BY <2>1, <2>3
  <2>5. find_or_alloc(n) = SlotsOf(n)
    BY <1>1 DEF find_or_alloc
  <2> QED BY <2>2, <2>4, <2>5
<1>2. CASE SlotsOf(n) = {} /\ FreeSlots # {}
  <2>1. FreeSlots \in SUBSET Nat
    BY MaxPeersNat DEF FreeSlots, Slots
  <2>2. \E s \in FreeSlots : \A r \in FreeSlots : s <= r
    BY <1>2, <2>1, LeastNat
  <2>3. First(FreeSlots) \in FreeSlots
    BY <2>2 DEF First
  <2>4. First(FreeSlots) \in Slots /\ ~ Active(First(FreeSlots))
    BY <2>3 DEF FreeSlots, Active
  <2> QED BY <1>2, <2>4 DEF find_or_alloc
<1>3. CASE SlotsOf(n) = {} /\ FreeSlots = {}
  BY <1>3 DEF find_or_alloc
<1> QED BY <1>1, <1>2, <1>3

Slot_type == {Free} \cup [active : {TRUE}, node_id : Node, state : States]
Safe_type ==
  {[active |-> FALSE, reason |-> "NONE"], [active |-> TRUE, reason |-> "CRITICAL_PEER_LOST"]}

\* What setting a slot does to the table of the monitor and to the safe state.
LEMMA SetStateEffect ==
  ASSUME NodeTypeOK, NEW s \in Slots, NEW n \in Node, NEW new \in States, SetState(s, n, new)
  PROVE  /\ health' \in [Slots -> Slot_type] /\ safe' \in Safe_type
         /\ Active(s)' /\ health'[s].node_id = n /\ health'[s].state = new
         /\ \A r \in Slots : r # s => health'[r] = health[r]
         /\ new = "LOST" => safe'.active \/ (IsLost(s) /\ safe' = safe)
<1>1. /\ health \in [Slots -> Slot_type] /\ safe \in Safe_type
      /\ Track(n, new) \in Slot_type
  BY DEF NodeTypeOK, Slot_type, Safe_type, Track
<1>2. /\ health' \in [Slots -> Slot_type] /\ health'[s] = Track(n, new)
      /\ \A r \in Slots : r # s => health'[r] = health[r]
  BY <1>1 DEF SetState
<1>3. Track(n, new).active /\ Track(n, new).node_id = n /\ Track(n, new).state = new
  BY DEF Track
<1>4. safe' \in Safe_type
  BY <1>1 DEF SetState, on_health_change, Trigger, Clear, Safe_type
<1>5. ASSUME new = "LOST" PROVE safe'.active \/ (IsLost(s) /\ safe' = safe)
  <2>1. CASE new # StateIn(s)
    BY <1>5, <2>1 DEF SetState, on_health_change, Trigger
  <2>2. CASE new = StateIn(s)
    BY <1>5, <2>2 DEF SetState, StateIn, IsLost
  <2> QED BY <2>1, <2>2
<1> QED BY <1>2, <1>3, <1>4, <1>5 DEF Active

\* A turn of the first loop: without a slot for the peer nothing changes.
LEMMA EachPeerEffect ==
  ASSUME NodeTypeOK, OneSlotPerNode, EachPeer
  PROVE  LET p == lifecycle.copy[lifecycle.i]
         IN  /\ lifecycle.i \in 1..Len(lifecycle.copy) /\ p.node_id \in Node /\ p.last_seen \in Int
             /\ \/ /\ SlotsOf(p.node_id) = {} /\ FreeSlots = {}
                   /\ lifecycle' = [lifecycle EXCEPT !.i = @ + 1]
                   /\ UNCHANGED <<health, safe>>
                \/ \E s \in Slots :
                     /\ SlotsOf(p.node_id) = {s} \/ (SlotsOf(p.node_id) = {} /\ ~ Active(s))
                     /\ lifecycle' = [lifecycle EXCEPT !.i = @ + 1, !.found = @ \cup {s}]
                     /\ SetState(s, p.node_id, compute_state(lifecycle.now, p.last_seen))
<1> DEFINE p == lifecycle.copy[lifecycle.i]
<1>1. lifecycle.i \in 1..Len(lifecycle.copy) /\ p.node_id \in Node /\ p.last_seen \in Int
  BY Types DEF EachPeer
<1>2. /\ lifecycle' = [lifecycle EXCEPT !.i = @ + 1, !.found = @ \cup find_or_alloc(p.node_id)]
      /\ \/ find_or_alloc(p.node_id) = {} /\ UNCHANGED <<health, safe>>
         \/ \E s \in find_or_alloc(p.node_id) :
              SetState(s, p.node_id, compute_state(lifecycle.now, p.last_seen))
  BY DEF EachPeer
<1> HIDE DEF p
<1>3. CASE find_or_alloc(p.node_id) = {} /\ SlotsOf(p.node_id) = {} /\ FreeSlots = {}
  <2>1. lifecycle' = [lifecycle EXCEPT !.i = @ + 1]
    BY <1>2, <1>3 DEF NodeTypeOK
  <2> QED BY <1>1, <1>2, <1>3, <2>1 DEF p
<1>4. ASSUME NEW s \in Slots, find_or_alloc(p.node_id) = {s},
             SlotsOf(p.node_id) = {s} \/ (SlotsOf(p.node_id) = {} /\ ~ Active(s))
      PROVE  /\ lifecycle' = [lifecycle EXCEPT !.i = @ + 1, !.found = @ \cup {s}]
             /\ SetState(s, p.node_id, compute_state(lifecycle.now, p.last_seen))
  <2>1. lifecycle' = [lifecycle EXCEPT !.i = @ + 1, !.found = @ \cup {s}]
    BY <1>2, <1>4
  <2>2. \E r \in {s} : SetState(r, p.node_id, compute_state(lifecycle.now, p.last_seen))
    BY <1>2, <1>4
  <2> QED BY <2>1, <2>2
<1>5. \/ find_or_alloc(p.node_id) = {} /\ SlotsOf(p.node_id) = {} /\ FreeSlots = {}
      \/ \E s \in Slots : /\ find_or_alloc(p.node_id) = {s}
                          /\ SlotsOf(p.node_id) = {s} \/ (SlotsOf(p.node_id) = {} /\ ~ Active(s))
  BY <1>1, SlotFound
<1>6. ASSUME NEW s \in Slots, find_or_alloc(p.node_id) = {s},
             SlotsOf(p.node_id) = {s} \/ (SlotsOf(p.node_id) = {} /\ ~ Active(s))
      PROVE  \E r \in Slots :
               /\ SlotsOf(p.node_id) = {r} \/ (SlotsOf(p.node_id) = {} /\ ~ Active(r))
               /\ lifecycle' = [lifecycle EXCEPT !.i = @ + 1, !.found = @ \cup {r}]
               /\ SetState(r, p.node_id, compute_state(lifecycle.now, p.last_seen))
  BY <1>4, <1>6
<1> QED BY <1>1, <1>3, <1>5, <1>6 DEF p

\* A turn of the second loop.
LEMMA EachSlotEffect ==
  ASSUME NodeTypeOK, EachSlot
  PROVE  LET s == lifecycle.i
         IN  /\ s \in Slots /\ lifecycle' = [lifecycle EXCEPT !.i = @ + 1]
             /\ \/ /\ Active(s) /\ s \notin lifecycle.found /\ ~ IsLost(s)
                   /\ health[s].node_id \in Node /\ SetState(s, health[s].node_id, "LOST")
                \/ /\ Active(s) /\ s \notin lifecycle.found => IsLost(s)
                   /\ UNCHANGED <<health, safe>>
  BY SlotType DEF EachSlot, Active, IsLost

-----------------------------------------------------------------------------
(* Every step preserves the invariant. *)

At == {"sleep", "expire", "now", "peers", "each", "gone"}
Lifecycle_type ==
  [at : At, now : 0..MaxTime, copy : Seq(Entry), i : 1..(MaxPeers + 1), found : SUBSET Slots]

LEMMA Going ==
  ASSUME NEW l \in Lifecycle_type, NEW at \in At
  PROVE  /\ [l EXCEPT !.at = at] \in Lifecycle_type
         /\ [l EXCEPT !.at = at] = [at |-> at, now |-> l.now, copy |-> l.copy, i |-> l.i, found |-> l.found]
  BY DEF Lifecycle_type

LEMMA GoingWith ==
  ASSUME NEW l \in Lifecycle_type, NEW at \in At, NEW x
  PROVE  /\ [l EXCEPT !.at = at, !.now = x]
              = [at |-> at, now |-> x, copy |-> l.copy, i |-> l.i, found |-> l.found]
         /\ [l EXCEPT !.at = at, !.copy = x]
              = [at |-> at, now |-> l.now, copy |-> x, i |-> l.i, found |-> l.found]
         /\ [l EXCEPT !.at = at, !.i = x]
              = [at |-> at, now |-> l.now, copy |-> l.copy, i |-> x, found |-> l.found]
<1> DEFINE m == [l EXCEPT !.at = at]
<1>1. m = [at |-> at, now |-> l.now, copy |-> l.copy, i |-> l.i, found |-> l.found]
  BY Going
<1>2. /\ [l EXCEPT !.at = at, !.now = x] = [m EXCEPT !.now = x]
      /\ [l EXCEPT !.at = at, !.copy = x] = [m EXCEPT !.copy = x]
      /\ [l EXCEPT !.at = at, !.i = x] = [m EXCEPT !.i = x]
  OBVIOUS
<1> HIDE DEF m
<1> QED BY <1>1, <1>2

LEMMA Advancing ==
  ASSUME NEW l \in Lifecycle_type, NEW k \in 1..(MaxPeers + 1)
  PROVE  /\ [l EXCEPT !.i = k] \in Lifecycle_type
         /\ [l EXCEPT !.i = k] = [at |-> l.at, now |-> l.now, copy |-> l.copy, i |-> k, found |-> l.found]
  BY DEF Lifecycle_type

LEMMA Finding ==
  ASSUME NEW l \in Lifecycle_type, NEW k \in 1..(MaxPeers + 1), NEW S \in SUBSET Slots
  PROVE  /\ [l EXCEPT !.i = k, !.found = @ \cup S] \in Lifecycle_type
         /\ [l EXCEPT !.i = k, !.found = @ \cup S]
              = [at |-> l.at, now |-> l.now, copy |-> l.copy, i |-> k, found |-> l.found \cup S]
<1> DEFINE m == [l EXCEPT !.i = k]
           T == l.found \cup S
<1>1. /\ m = [at |-> l.at, now |-> l.now, copy |-> l.copy, i |-> k, found |-> l.found]
      /\ l.at \in At /\ l.now \in 0..MaxTime /\ l.copy \in Seq(Entry) /\ T \in SUBSET Slots
  BY DEF Lifecycle_type
<1> HIDE DEF T
<1>2. [l EXCEPT !.i = k, !.found = T] = [m EXCEPT !.found = T]
  OBVIOUS
<1> HIDE DEF m
<1>3. [m EXCEPT !.found = T] = [at |-> l.at, now |-> l.now, copy |-> l.copy, i |-> k, found |-> T]
  BY <1>1
<1> QED BY <1>1, <1>2, <1>3 DEF Lifecycle_type, T

LEMMA NodeInitInv == NodeInit => NodeInv
<1> SUFFICES ASSUME NodeInit PROVE NodeInv
  OBVIOUS
<1>1. peers = << >> /\ Len(peers) = 0 /\ Ids(peers) = {}
  BY EmptySeq DEF NodeInit, Init, Ids
<1>2. \A s \in Slots : ~ Active(s)
  BY DEF NodeInit, Active, Free
<1>3. NodeTypeOK
  BY InitIInv, EmptySeq, MaxTimeNat, MaxPeersNat DEF NodeInit, NodeTypeOK, IInv, Asleep
<1>4. TableInv
  BY <1>1 DEF NodeInit, TableInv, LastSeenIsHeard, AbsentAreSilent
<1>5. UpdateInv
  BY DEF NodeInit, Asleep, UpdateInv, Copied, ClocksInOrder, NotStarted, CopyIsHeard, FoundAreCopied,
         FirstLoop, SecondLoop
<1>6. SlotInv
  BY <1>2 DEF SlotInv, OneSlotPerNode, TrackedWereHeard, AloneLostIsSafe, IsLost, Active
<1>7. CopyWasHeard
  BY DEF NodeInit, Asleep, CopyWasHeard
<1> QED BY <1>3, <1>4, <1>5, <1>6, <1>7 DEF NodeInv

LEMMA StepTypes ==
  ASSUME NodeInv, IInv', [NodeNext]_nodeVars
  PROVE  NodeTypeOK'
<1> USE MaxPeersNat, MaxTimeNat
<1>1. /\ health \in [Slots -> Slot_type] /\ safe \in Safe_type /\ lifecycle \in Lifecycle_type
      /\ heard \in [Node -> -1..MaxTime] /\ clock \in 0..MaxTime /\ peers \in Seq(Entry)
  BY DEF NodeInv, NodeTypeOK, TypeOK, Slot_type, Safe_type, Lifecycle_type, At
<1>2. lifecycle' \in Lifecycle_type
  <2>1. CASE EachPeer
    <3>1. lifecycle.i \in 1..MaxPeers
      <4>1. lifecycle.i \in 1..Len(lifecycle.copy)
        BY <2>1, EachPeerEffect DEF NodeInv, SlotInv
      <4>2. Len(lifecycle.copy) <= MaxPeers /\ Len(lifecycle.copy) \in Nat
        BY <2>1, Types DEF NodeInv, UpdateInv, CopyIsHeard, Copied, EachPeer
      <4> QED BY <4>1, <4>2
    <3>2. \/ lifecycle' = [lifecycle EXCEPT !.i = @ + 1]
          \/ \E s \in Slots : lifecycle' = [lifecycle EXCEPT !.i = @ + 1, !.found = @ \cup {s}]
      BY <2>1, EachPeerEffect DEF NodeInv, SlotInv
    <3>3. lifecycle.i + 1 \in 1..(MaxPeers + 1)
      BY <3>1
    <3>4. \A s \in Slots : {s} \in SUBSET Slots
      OBVIOUS
    <3>5. CASE lifecycle' = [lifecycle EXCEPT !.i = @ + 1]
      BY <1>1, <3>3, <3>5, Advancing
    <3>6. ASSUME NEW s \in Slots, lifecycle' = [lifecycle EXCEPT !.i = @ + 1, !.found = @ \cup {s}]
          PROVE  lifecycle' \in Lifecycle_type
      BY <1>1, <3>3, <3>4, <3>6, Finding
    <3> QED BY <3>2, <3>5, <3>6
  <2>2. CASE EachSlot
    <3>1. lifecycle.i \in 1..MaxPeers /\ lifecycle' = [lifecycle EXCEPT !.i = @ + 1]
      BY <2>2, EachSlotEffect DEF NodeInv, Slots
    <3>2. lifecycle.i + 1 \in 1..(MaxPeers + 1)
      BY <3>1
    <3> QED BY <1>1, <3>1, <3>2, Advancing
  <2>3. CASE LifecycleTick \/ ExpirePeers
    BY <1>1, <2>3, Going DEF LifecycleTick, ExpirePeers, At
  <2>6. CASE HealthNow \/ GetPeers \/ EachDone
    <3>1. "peers" \in At /\ "each" \in At /\ "gone" \in At
      BY DEF At
    <3>2. lifecycle' \in
            {[at |-> "peers", now |-> clock, copy |-> lifecycle.copy, i |-> lifecycle.i, found |-> lifecycle.found],
             [at |-> "each", now |-> lifecycle.now, copy |-> peers, i |-> lifecycle.i, found |-> lifecycle.found],
             [at |-> "gone", now |-> lifecycle.now, copy |-> lifecycle.copy, i |-> 1, found |-> lifecycle.found]}
      BY <1>1, <2>6, <3>1, GoingWith DEF HealthNow, GetPeers, EachDone
    <3> QED BY <1>1, <3>1, <3>2 DEF Lifecycle_type
  <2>4. CASE UpdateDone
    BY <2>4, EmptySeq DEF UpdateDone, Asleep, Lifecycle_type, At
  <2>5. CASE UNCHANGED lifecycle
    BY <1>1, <2>5
  <2> QED BY <2>1, <2>2, <2>3, <2>4, <2>5, <2>6
          DEF NodeNext, nodeVars, TimePasses, Lifecycle, ceell_health_update, Hear
<1>3. health' \in [Slots -> Slot_type] /\ safe' \in Safe_type
  <2>1. ASSUME NEW s \in Slots, NEW n \in Node, NEW new \in States, SetState(s, n, new)
        PROVE  health' \in [Slots -> Slot_type] /\ safe' \in Safe_type
    BY <2>1, SetStateEffect DEF NodeInv
  <2>2. CASE EachPeer
    <3> DEFINE p == lifecycle.copy[lifecycle.i]
    <3>1. \A t \in Int : compute_state(lifecycle.now, t) \in States
      BY Types, StateType DEF NodeInv
    <3>2. p.node_id \in Node /\ p.last_seen \in Int
      BY <2>2, EachPeerEffect DEF NodeInv, SlotInv
    <3>3. \/ UNCHANGED <<health, safe>>
          \/ \E s \in Slots : SetState(s, p.node_id, compute_state(lifecycle.now, p.last_seen))
      BY <2>2, EachPeerEffect DEF NodeInv, SlotInv
    <3> HIDE DEF p
    <3> QED BY <1>1, <2>1, <3>1, <3>2, <3>3
  <2>3. CASE EachSlot
    <3>1. \/ UNCHANGED <<health, safe>>
          \/ \E s \in Slots, n \in Node : SetState(s, n, "LOST")
      BY <2>3, EachSlotEffect DEF NodeInv
    <3> QED BY <1>1, <2>1, <3>1 DEF States
  <2>4. CASE UNCHANGED <<health, safe>>
    BY <1>1, <2>4
  <2> QED BY <2>2, <2>3, <2>4
          DEF NodeNext, nodeVars, TimePasses, Lifecycle, LifecycleTick, ExpirePeers,
              ceell_health_update, HealthNow, GetPeers, EachDone, UpdateDone, Hear
<1>4. heard' \in [Node -> -1..MaxTime]
  <2>1. ASSUME NEW m \in Announcement, Hear(m) PROVE heard' \in [Node -> -1..MaxTime]
    BY <1>1, <2>1 DEF Hear
  <2>2. CASE UNCHANGED heard
    BY <1>1, <2>2
  <2> QED BY <2>1, <2>2
          DEF NodeNext, nodeVars, TimePasses, Lifecycle, LifecycleTick, ExpirePeers,
              ceell_health_update, HealthNow, GetPeers, EachPeer, EachDone, EachSlot, UpdateDone
<1>5. heardAtCopy' \in [Node -> -1..MaxTime]
  <2>1. heardAtCopy \in [Node -> -1..MaxTime]
    BY DEF NodeInv, NodeTypeOK
  <2>2. CASE GetPeers
    BY <1>1, <2>2 DEF GetPeers
  <2>3. CASE UpdateDone
    BY <2>3 DEF UpdateDone
  <2>4. CASE UNCHANGED heardAtCopy
    BY <2>1, <2>4
  <2> QED BY <2>2, <2>3, <2>4
          DEF NodeNext, nodeVars, TimePasses, Lifecycle, LifecycleTick, ExpirePeers, Hear,
              ceell_health_update, HealthNow, EachPeer, EachDone, EachSlot
<1> QED BY <1>2, <1>3, <1>4, <1>5 DEF NodeTypeOK, IInv, Slot_type, Safe_type, Lifecycle_type, At

\* Steps that leave the update where it is.
LEMMA ElsewhereUpdate ==
  ASSUME NodeInv, UNCHANGED <<health, lifecycle>>, sweep'.now = sweep.now \/ lifecycle.at = "expire",
         clock <= clock', clock' \in Int,
         \A n \in Node : heard'[n] = heard[n] \/ (heard'[n] = clock /\ clock >= 0)
  PROVE  UpdateInv'
<1>1. /\ lifecycle' = lifecycle /\ health' = health
      /\ \A n \in Node : SlotsOf(n)' = SlotsOf(n)
  BY DEF SlotsOf
<1>2. ClocksInOrder' /\ NotStarted'
  BY Types DEF NodeInv, UpdateInv, ClocksInOrder, NotStarted, Copied
<1>3. FirstLoop' /\ SecondLoop' /\ FoundAreCopied'
  BY <1>1 DEF NodeInv, UpdateInv, FirstLoop, SecondLoop, FoundAreCopied, Visited, SlotsOf, Copied,
              Active, IsLost
<1>4. CopyIsHeard'
  <2> SUFFICES ASSUME Copied PROVE CopyIsHeard'
    BY <1>1 DEF CopyIsHeard, Copied
  <2>1. lifecycle.now <= clock
    BY DEF NodeInv, UpdateInv, ClocksInOrder
  <2>2. \A n \in Node : heard'[n] = heard[n] \/ (Later(n)' /\ heard'[n] >= 0)
    BY <1>1, <2>1, Types DEF NodeInv, Later
  <2>3. \A n \in Node : Later(n) => Later(n)'
    BY <1>1, <2>2 DEF Later
  <2>4. CopyIsHeard
    BY DEF NodeInv, UpdateInv
  <2>5. \A j \in 1..Len(lifecycle.copy) : lifecycle.copy[j].node_id \in Node
    BY Types DEF NodeInv
  <2> QED BY <1>1, <2>2, <2>3, <2>4, <2>5 DEF CopyIsHeard
<1> QED BY <1>2, <1>3, <1>4 DEF UpdateInv

\* The update reads the clock, then copies the table.
LEMMA GetPeersUpdate ==
  ASSUME IInv, NodeInv, GetPeers
  PROVE  UpdateInv'
<1>1. /\ lifecycle' = [at |-> "each", now |-> lifecycle.now, copy |-> peers, i |-> 1, found |-> {}]
      /\ UNCHANGED <<vars, health, safe, heard>>
  <2>1. lifecycle \in Lifecycle_type /\ "each" \in At
    BY DEF NodeInv, NodeTypeOK, Lifecycle_type, At
  <2>2. lifecycle.i = 1 /\ lifecycle.found = {}
    BY DEF NodeInv, UpdateInv, NotStarted, Copied, GetPeers
  <2>3. lifecycle' = [lifecycle EXCEPT !.at = "each", !.copy = peers]
    BY DEF GetPeers
  <2>4. lifecycle' = [at |-> "each", now |-> lifecycle.now, copy |-> peers,
                      i |-> lifecycle.i, found |-> lifecycle.found]
    BY <2>1, <2>3, GoingWith
  <2>5. UNCHANGED <<vars, health, safe, heard>>
    BY DEF GetPeers
  <2> QED BY <2>2, <2>4, <2>5
<1>2. sweep.now <= lifecycle.now /\ lifecycle.now <= clock
  BY DEF NodeInv, UpdateInv, ClocksInOrder, GetPeers
<1>3. CopyIsHeard'
  <2>1. Unique(peers) /\ Len(peers) <= MaxPeers
    BY DEF IInv, UniqueIds, TypeOK
  <2>2. \A j \in 1..Len(peers) : /\ heard[peers[j].node_id] >= 0
                                /\ peers[j].last_seen = heard[peers[j].node_id]
    <3>1. \A j \in 1..Len(peers) : peers[j] \in Entry
      BY ElementOfSeq DEF IInv, TypeOK
    <3>2. \A e \in Entry : e.last_seen >= 0
      BY MaxTimeNat DEF Entry
    <3> QED BY <3>1, <3>2 DEF NodeInv, TableInv, LastSeenIsHeard
  <2>3. Room => \A n \in Node \ Ids(peers) : heard[n] = -1 \/ lifecycle.now - heard[n] > PeerTimeout
    BY <1>2, Types, PeerTimeoutNat DEF NodeInv, TableInv, AbsentAreSilent
  <2>4. /\ lifecycle'.copy = peers /\ lifecycle'.now = lifecycle.now /\ heard' = heard
    BY <1>1
  <2> QED BY <2>1, <2>2, <2>3, <2>4 DEF CopyIsHeard, Later
<1>4. ClocksInOrder' /\ NotStarted'
  BY <1>1, <1>2 DEF ClocksInOrder, NotStarted, Copied, vars
<1>5. FirstLoop' /\ SecondLoop' /\ FoundAreCopied'
  <2>1. Len(peers) \in Nat
    BY Types DEF NodeInv
  <2> QED BY <1>1, <2>1 DEF FirstLoop, SecondLoop, FoundAreCopied, Visited
<1> QED BY <1>3, <1>4, <1>5 DEF UpdateInv

\* A slot is filled in the first loop.
LEMMA EachPeerUpdate ==
  ASSUME NodeInv, EachPeer
  PROVE  UpdateInv'
<1>1. PICK copy, k, now, found :
        copy = lifecycle.copy /\ k = lifecycle.i /\ now = lifecycle.now /\ found = lifecycle.found
  OBVIOUS
<1> DEFINE n == copy[k].node_id
           new == compute_state(now, copy[k].last_seen)
<1>2. /\ lifecycle \in Lifecycle_type /\ lifecycle.at = "each" /\ Copied
      /\ k \in 1..Len(copy) /\ k + 1 \in 1..(MaxPeers + 1)
      /\ Len(copy) \in Nat /\ n \in Node /\ new \in States
      /\ UNCHANGED <<vars, heard>>
  <2>1. k \in 1..Len(copy) /\ n \in Node /\ copy[k].last_seen \in Int
    BY <1>1, EachPeerEffect DEF NodeInv, SlotInv
  <2>2. lifecycle.at = "each" /\ Copied /\ UNCHANGED <<vars, heard>>
    BY DEF EachPeer, Copied
  <2>3. Len(copy) <= MaxPeers
    BY <1>1, <2>2 DEF NodeInv, UpdateInv, CopyIsHeard
  <2>4. Len(copy) \in Nat /\ new \in States
    BY <1>1, <2>1, Types, StateType DEF NodeInv
  <2>5. lifecycle \in Lifecycle_type
    BY DEF NodeInv, NodeTypeOK, Lifecycle_type, At
  <2> QED BY <2>1, <2>2, <2>3, <2>4, <2>5, MaxPeersNat
<1>3. FoundAreCopied /\ CopyIsHeard /\ ClocksInOrder
  BY DEF NodeInv, UpdateInv
<1>4. \A j \in 1..Len(copy) : j < k =>
        /\ \A s \in SlotsOf(copy[j].node_id) :
             s \in found /\ health[s].state = compute_state(now, copy[j].last_seen)
        /\ Room => SlotsOf(copy[j].node_id) # {}
  BY <1>1, <1>2 DEF NodeInv, UpdateInv, FirstLoop, Visited
<1>5. \A j \in 1..Len(copy) :
        /\ copy[j].node_id \in Node /\ copy[j].node_id \in Ids(copy)
        /\ j # k => copy[j].node_id # n
  BY <1>1, <1>2, <1>3, Types DEF NodeInv, CopyIsHeard, Unique, Ids
\* What has to be shown of the step, in terms of the slots after it.
<1>6. ASSUME NEW T, lifecycle' = [at |-> "each", now |-> now, copy |-> copy, i |-> k + 1, found |-> T],
             \A j \in 1..Len(copy) : j < k + 1 =>
               /\ \A s \in SlotsOf(copy[j].node_id)' :
                    s \in T /\ health'[s].state = compute_state(now, copy[j].last_seen)
               /\ Room => SlotsOf(copy[j].node_id)' # {},
             \A s \in T : Active(s)' /\ health'[s].node_id \in Ids(copy)
      PROVE  UpdateInv'
  <2>1. /\ lifecycle'.at = "each" /\ lifecycle'.now = now /\ lifecycle'.copy = copy
        /\ lifecycle'.i = k + 1 /\ lifecycle'.found = T /\ k + 1 <= Len(copy) + 1
    BY <1>2, <1>6
  <2>2. ClocksInOrder' /\ NotStarted' /\ CopyIsHeard'
    BY <1>1, <1>2, <1>3, <2>1 DEF ClocksInOrder, NotStarted, CopyIsHeard, Copied, Later, vars
  <2>3. FoundAreCopied'
    BY <1>6, <2>1 DEF FoundAreCopied, Active
  <2>4. FirstLoop' /\ SecondLoop'
    BY <1>6, <2>1 DEF FirstLoop, SecondLoop, Visited, Room
  <2> QED BY <2>2, <2>3, <2>4 DEF UpdateInv
<1>7. ASSUME lifecycle' = [lifecycle EXCEPT !.i = @ + 1], UNCHANGED <<health, safe>>,
             SlotsOf(n) = {}, FreeSlots = {}
      PROVE  UpdateInv'
  <2>1. lifecycle' = [at |-> "each", now |-> now, copy |-> copy, i |-> k + 1, found |-> found]
    BY <1>1, <1>2, <1>7, Advancing
  <2>2. ~ Room
    BY <1>2, <1>7, FreeSlot DEF NodeInv, SlotInv
  <2>3. \A m : SlotsOf(m)' = SlotsOf(m)
    BY <1>7 DEF SlotsOf
  <2>4. \A j \in 1..Len(copy) : j < k + 1 => j < k \/ j = k
    BY <1>2
  <2>5. \A s \in found : Active(s)' /\ health'[s].node_id \in Ids(copy)
    BY <1>1, <1>2, <1>3, <1>7 DEF FoundAreCopied, Active
  <2>6. ASSUME NEW j \in 1..Len(copy), j < k + 1
        PROVE  /\ \A s \in SlotsOf(copy[j].node_id)' :
                    s \in found /\ health'[s].state = compute_state(now, copy[j].last_seen)
               /\ Room => SlotsOf(copy[j].node_id)' # {}
    <3>1. CASE j = k
      BY <1>7, <2>2, <2>3, <3>1
    <3>2. CASE j < k
      BY <1>4, <1>7, <2>3, <3>2
    <3> QED BY <2>4, <2>6, <3>1, <3>2
  <2> HIDE DEF n, new
  <2> QED BY <1>6, <2>1, <2>5, <2>6
<1>8. ASSUME NEW s \in Slots, SlotsOf(n) = {s} \/ (SlotsOf(n) = {} /\ ~ Active(s)),
             lifecycle' = [lifecycle EXCEPT !.i = @ + 1, !.found = @ \cup {s}],
             SetState(s, n, new)
      PROVE  UpdateInv'
  <2> HIDE DEF n, new
  <2>1. lifecycle' = [at |-> "each", now |-> now, copy |-> copy, i |-> k + 1, found |-> found \cup {s}]
    <3>1. {s} \in SUBSET Slots
      OBVIOUS
    <3>2. lifecycle' = [lifecycle EXCEPT !.i = k + 1, !.found = @ \cup {s}]
      BY <1>1, <1>8
    <3>3. [lifecycle EXCEPT !.i = k + 1, !.found = @ \cup {s}]
            = [at |-> lifecycle.at, now |-> lifecycle.now, copy |-> lifecycle.copy, i |-> k + 1,
               found |-> lifecycle.found \cup {s}]
      BY <1>2, <3>1, Finding
    <3> QED BY <1>1, <1>2, <3>2, <3>3
  <2>2. /\ Active(s)' /\ health'[s].node_id = n /\ health'[s].state = new
        /\ \A r \in Slots : r # s => health'[r] = health[r]
    BY <1>2, <1>8, SetStateEffect DEF NodeInv
  <2>3. SlotsOf(n)' = {s}
    <3>1. s \in SlotsOf(n)'
      BY <2>2 DEF SlotsOf, Active
    <3>2. ASSUME NEW r \in SlotsOf(n)', r # s PROVE FALSE
      <4>1. r \in SlotsOf(n)
        BY <2>2, <3>2 DEF SlotsOf
      <4> QED BY <1>8, <3>2, <4>1
    <3> QED BY <3>1, <3>2
  <2>4. ASSUME NEW m \in Node, m # n
        PROVE  SlotsOf(m)' = SlotsOf(m) /\ s \notin SlotsOf(m) /\ SlotsOf(m) \subseteq Slots
    <3>1. s \notin SlotsOf(m)'
      BY <2>2, <2>4 DEF SlotsOf
    <3>2. s \notin SlotsOf(m)
      <4>1. CASE SlotsOf(n) = {s}
        BY <2>4, <4>1 DEF SlotsOf
      <4>2. CASE ~ Active(s)
        BY <4>2 DEF SlotsOf, Active
      <4> QED BY <1>8, <4>1, <4>2
    <3>3. \A r \in Slots : r # s => (r \in SlotsOf(m)' <=> r \in SlotsOf(m))
      BY <2>2 DEF SlotsOf
    <3>4. SlotsOf(m) \subseteq Slots /\ SlotsOf(m)' \subseteq Slots
      BY DEF SlotsOf
    <3> QED BY <3>1, <3>2, <3>3, <3>4
  <2>5. ASSUME NEW j \in 1..Len(copy), j < k + 1
        PROVE  /\ \A r \in SlotsOf(copy[j].node_id)' :
                    r \in found \cup {s} /\ health'[r].state = compute_state(now, copy[j].last_seen)
               /\ Room => SlotsOf(copy[j].node_id)' # {}
    <3>1. CASE j = k
      BY <2>2, <2>3, <3>1 DEF n, new
    <3>2. CASE j < k
      <4>1. /\ SlotsOf(copy[j].node_id)' = SlotsOf(copy[j].node_id)
            /\ s \notin SlotsOf(copy[j].node_id) /\ SlotsOf(copy[j].node_id) \subseteq Slots
        BY <1>2, <1>5, <2>4, <3>2
      <4> QED BY <1>4, <2>2, <3>2, <4>1
    <3> QED BY <1>2, <2>5, <3>1, <3>2
  <2>6. \A r \in found \cup {s} : Active(r)' /\ health'[r].node_id \in Ids(copy)
    <3>1. n \in Ids(copy)
      BY <1>2, <1>5 DEF n
    <3>2. \A r \in found : r \in Slots /\ Active(r) /\ health[r].node_id \in Ids(copy)
      BY <1>1, <1>2, <1>3 DEF FoundAreCopied, Lifecycle_type
    <3> QED BY <2>2, <3>1, <3>2 DEF Active
  <2> QED BY <1>6, <2>1, <2>5, <2>6
<1> QED BY <1>1, <1>7, <1>8, EachPeerEffect DEF NodeInv, SlotInv

\* A slot is marked LOST in the second loop.
LEMMA EachSlotUpdate ==
  ASSUME NodeInv, EachSlot
  PROVE  UpdateInv'
<1>1. PICK copy, k, now, found :
        copy = lifecycle.copy /\ k = lifecycle.i /\ now = lifecycle.now /\ found = lifecycle.found
  OBVIOUS
<1>2. /\ lifecycle.at = "gone" /\ Copied /\ k \in Slots /\ Len(copy) \in Nat /\ found \subseteq Slots
      /\ UNCHANGED <<vars, heard>>
      /\ lifecycle' = [at |-> "gone", now |-> now, copy |-> copy, i |-> k + 1, found |-> found]
  <2>1. /\ lifecycle \in Lifecycle_type /\ Len(copy) \in Nat /\ found \subseteq Slots
    BY <1>1, Types DEF NodeInv, NodeTypeOK, Lifecycle_type, At
  <2>2. /\ lifecycle.at = "gone" /\ Copied /\ k \in Slots /\ UNCHANGED <<vars, heard>>
        /\ lifecycle' = [lifecycle EXCEPT !.i = k + 1]
    BY <1>1 DEF EachSlot, Copied
  <2>3. k + 1 \in 1..(MaxPeers + 1)
    BY <2>2, MaxPeersNat DEF Slots
  <2>4. lifecycle' = [at |-> lifecycle.at, now |-> lifecycle.now, copy |-> lifecycle.copy, i |-> k + 1,
                      found |-> lifecycle.found]
    BY <2>1, <2>2, <2>3, Advancing
  <2> QED BY <1>1, <2>1, <2>2, <2>4
<1>3. FoundAreCopied /\ CopyIsHeard /\ ClocksInOrder
  BY DEF NodeInv, UpdateInv
<1>4. /\ \A j \in 1..Len(copy) :
           /\ \A s \in SlotsOf(copy[j].node_id) :
                s \in found /\ health[s].state = compute_state(now, copy[j].last_seen)
           /\ Room => SlotsOf(copy[j].node_id) # {}
      /\ \A s \in Slots : s < k /\ Active(s) /\ s \notin found => IsLost(s)
  <2>1. \A j \in 1..Len(copy) : j < Len(copy) + 1
    BY <1>2
  <2> QED BY <1>1, <1>2, <2>1 DEF NodeInv, UpdateInv, SecondLoop, Visited
<1>5. /\ \A s \in found : health'[s] = health[s]
      /\ \A s \in Slots : /\ Active(s)' <=> Active(s)
                          /\ Active(s) => health'[s].node_id = health[s].node_id
                          /\ IsLost(s) => IsLost(s)'
      /\ Active(k) /\ k \notin found => IsLost(k)'
  <2>1. CASE Active(k) /\ k \notin found /\ health[k].node_id \in Node /\ SetState(k, health[k].node_id, "LOST")
    <3>1. "LOST" \in States
      BY DEF States
    <3>2. /\ Active(k)' /\ health'[k].node_id = health[k].node_id /\ health'[k].state = "LOST"
          /\ \A r \in Slots : r # k => health'[r] = health[r]
      BY <1>2, <2>1, <3>1, SetStateEffect DEF NodeInv
    <3> QED BY <1>2, <2>1, <3>2 DEF Active, IsLost
  <2>2. CASE UNCHANGED health /\ (Active(k) /\ k \notin found => IsLost(k))
    BY <2>2 DEF Active, IsLost
  <2> QED BY <1>1, <2>1, <2>2, EachSlotEffect DEF NodeInv
<1>6. \A m : SlotsOf(m)' = SlotsOf(m)
  BY <1>5 DEF SlotsOf, Active
<1>7. /\ lifecycle'.at = "gone" /\ lifecycle'.now = now /\ lifecycle'.copy = copy
      /\ lifecycle'.i = k + 1 /\ lifecycle'.found = found
  BY <1>2
<1>8. ClocksInOrder' /\ NotStarted' /\ CopyIsHeard'
  BY <1>1, <1>2, <1>3, <1>7 DEF ClocksInOrder, NotStarted, CopyIsHeard, Copied, Later, vars
<1>9. FoundAreCopied' /\ FirstLoop'
  BY <1>1, <1>2, <1>3, <1>5, <1>7 DEF FoundAreCopied, FirstLoop, Active
<1>10. SecondLoop'
  <2>1. \A s \in Slots : s < k + 1 /\ Active(s)' /\ s \notin found => IsLost(s)'
    <3>1. \A s \in Slots : s < k + 1 => s < k \/ s = k
      BY <1>2, MaxPeersNat DEF Slots
    <3> QED BY <1>4, <1>5, <3>1
  <2>2. \A j \in 1..Len(copy) :
          /\ \A s \in SlotsOf(copy[j].node_id)' :
               s \in found /\ health'[s].state = compute_state(now, copy[j].last_seen)
          /\ Room => SlotsOf(copy[j].node_id)' # {}
    BY <1>4, <1>5, <1>6
  <2> QED BY <1>7, <2>1, <2>2 DEF SecondLoop, Visited, Room
<1> QED BY <1>8, <1>9, <1>10 DEF UpdateInv

LEMMA StepUpdateInv ==
  ASSUME IInv, NodeInv, [NodeNext]_nodeVars
  PROVE  UpdateInv'
<1>1. lifecycle \in Lifecycle_type /\ \A at \in {"expire", "now", "peers", "gone"} : at \in At
  BY DEF NodeInv, NodeTypeOK, Lifecycle_type, At
<1>2. ASSUME lifecycle'.at \in {"sleep", "expire", "now"}, lifecycle'.i = 1, lifecycle'.found = {}
      PROVE  UpdateInv'
  BY <1>2 DEF UpdateInv, ClocksInOrder, NotStarted, CopyIsHeard, FoundAreCopied, FirstLoop, SecondLoop,
              Copied
<1>3. CASE LifecycleTick
  <2>1. lifecycle.i = 1 /\ lifecycle.found = {}
    BY <1>3 DEF NodeInv, UpdateInv, NotStarted, Copied, LifecycleTick
  <2>2. lifecycle' = [at |-> "expire", now |-> lifecycle.now, copy |-> lifecycle.copy, i |-> lifecycle.i,
                      found |-> lifecycle.found]
    BY <1>1, <1>3, Going DEF LifecycleTick
  <2> QED BY <1>2, <2>1, <2>2
<1>4. CASE ExpirePeers
  <2>1. lifecycle.i = 1 /\ lifecycle.found = {} /\ lifecycle.at = "expire"
    BY <1>4 DEF NodeInv, UpdateInv, NotStarted, Copied, ExpirePeers
  <2>2. CASE lifecycle' = lifecycle
    BY <1>2, <2>1, <2>2
  <2>3. CASE lifecycle' = [lifecycle EXCEPT !.at = "now"]
    <3>1. lifecycle' = [at |-> "now", now |-> lifecycle.now, copy |-> lifecycle.copy, i |-> lifecycle.i,
                        found |-> lifecycle.found]
      BY <1>1, <2>3, Going
    <3> QED BY <1>2, <2>1, <3>1
  <2> QED BY <1>4, <2>2, <2>3 DEF ExpirePeers
<1>5. CASE HealthNow
  <2>1. lifecycle.i = 1 /\ lifecycle.found = {} /\ sweep.now <= clock
    BY <1>5 DEF NodeInv, UpdateInv, NotStarted, Copied, HealthNow, IInv, NotInFuture
  <2>2. lifecycle' = [lifecycle EXCEPT !.at = "peers", !.now = clock] /\ UNCHANGED <<clock, sweep>>
    BY <1>5 DEF HealthNow, vars
  <2>3. lifecycle' = [at |-> "peers", now |-> clock, copy |-> lifecycle.copy, i |-> lifecycle.i,
                      found |-> lifecycle.found]
    BY <1>1, <2>2, GoingWith
  <2> QED BY <2>1, <2>2, <2>3, Types DEF NodeInv, UpdateInv, ClocksInOrder, NotStarted, CopyIsHeard,
             FoundAreCopied, FirstLoop, SecondLoop, Copied
<1>6. CASE EachDone
  <2>1. lifecycle' = [lifecycle EXCEPT !.at = "gone", !.i = 1] /\ UNCHANGED <<vars, health, heard>>
    BY <1>6 DEF EachDone
  <2>2. lifecycle' = [at |-> "gone", now |-> lifecycle.now, copy |-> lifecycle.copy, i |-> 1,
                      found |-> lifecycle.found]
    BY <1>1, <2>1, GoingWith
  <2>3. /\ lifecycle.i = Len(lifecycle.copy) + 1 /\ Copied /\ Visited(Len(lifecycle.copy) + 1)
        /\ ClocksInOrder /\ CopyIsHeard /\ FoundAreCopied
    <3>1. /\ lifecycle.i > Len(lifecycle.copy) /\ lifecycle.i <= Len(lifecycle.copy) + 1 /\ Visited(lifecycle.i)
      BY <1>6 DEF NodeInv, UpdateInv, FirstLoop, EachDone
    <3>2. lifecycle.i \in Int /\ Len(lifecycle.copy) \in Int
      BY Types DEF NodeInv
    <3>3. lifecycle.i = Len(lifecycle.copy) + 1
      BY <3>1, <3>2
    <3> QED BY <1>6, <3>1, <3>3 DEF NodeInv, UpdateInv, EachDone, Copied
  <2>4. ClocksInOrder' /\ NotStarted' /\ CopyIsHeard' /\ FoundAreCopied' /\ FirstLoop'
    BY <2>1, <2>2, <2>3 DEF ClocksInOrder, NotStarted, CopyIsHeard, FoundAreCopied, FirstLoop, Copied,
                            Later, Active, vars
  <2>5. SecondLoop'
    <3>1. \A s \in Slots : ~ (s < 1)
      BY MaxPeersNat DEF Slots
    <3>2. \A m : SlotsOf(m)' = SlotsOf(m)
      BY <2>1 DEF SlotsOf
    <3> QED BY <2>1, <2>2, <2>3, <3>1, <3>2 DEF SecondLoop, Visited, Room
  <2> QED BY <2>4, <2>5 DEF UpdateInv
<1>7. CASE UpdateDone
  BY <1>2, <1>7 DEF UpdateDone, Asleep
<1>8. CASE GetPeers \/ EachPeer \/ EachSlot
  BY <1>8, GetPeersUpdate, EachPeerUpdate, EachSlotUpdate
<1>9. ASSUME NEW m \in Announcement, Hear(m) PROVE UpdateInv'
  <2>1. /\ \A n \in Node : heard'[n] = heard[n] \/ heard'[n] = clock
        /\ UNCHANGED <<health, lifecycle, clock, sweep>>
    BY <1>9 DEF Hear, update_peer
  <2>2. clock >= 0 /\ clock \in Int
    BY MaxTimeNat DEF NodeInv, NodeTypeOK, TypeOK
  <2> QED BY <2>1, <2>2, ElsewhereUpdate
<1>10. CASE TimePasses
  <2>1. UNCHANGED <<health, lifecycle, heard, sweep>> /\ clock' = clock + 1
    BY <1>10 DEF TimePasses, Tick
  <2>2. clock \in Int
    BY Types DEF NodeInv
  <2> QED BY <2>1, <2>2, ElsewhereUpdate
<1>11. CASE UNCHANGED nodeVars
  <2>1. UNCHANGED <<health, lifecycle, heard, sweep, clock>> /\ clock \in Int
    BY <1>11, Types DEF nodeVars, vars, NodeInv
  <2> QED BY <2>1, ElsewhereUpdate
<1> QED BY <1>3, <1>4, <1>5, <1>6, <1>7, <1>8, <1>9, <1>10, <1>11
        DEF NodeNext, Lifecycle, ceell_health_update

\* A node takes the slot it has or a free one, and only a node that was heard.
LEMMA SetStateSlotInv ==
  ASSUME NodeInv, NEW s \in Slots, NEW n \in Node, NEW new \in States, SetState(s, n, new),
         heard[n] >= 0, UNCHANGED heard, \A r \in Slots : Active(r) /\ health[r].node_id = n => r = s
  PROVE  SlotInv'
<1>1. /\ Active(s)' /\ health'[s].node_id = n /\ health'[s].state = new
      /\ \A r \in Slots : r # s => health'[r] = health[r]
      /\ new = "LOST" => safe'.active \/ (IsLost(s) /\ safe' = safe)
  BY SetStateEffect DEF NodeInv
<1>2. OneSlotPerNode'
  <2> SUFFICES ASSUME NEW q \in Slots, NEW r \in Slots, Active(q)', Active(r)',
                      health'[q].node_id = health'[r].node_id
               PROVE  q = r
    BY DEF OneSlotPerNode
  <2>1. CASE q # s /\ r # s
    BY <1>1, <2>1 DEF NodeInv, SlotInv, OneSlotPerNode, Active
  <2>2. \A t \in Slots : t # s => ~ (Active(t)' /\ health'[t].node_id = n)
    BY <1>1 DEF Active
  <2> QED BY <1>1, <2>1, <2>2
<1>3. TrackedWereHeard'
  BY <1>1 DEF NodeInv, SlotInv, TrackedWereHeard, Active
<1>4. AloneLostIsSafe'
  <2> SUFFICES ASSUME \A q, r \in Slots : Active(q)' /\ Active(r)' => q = r,
                      NEW q \in Slots, IsLost(q)'
               PROVE  safe'.active
    BY DEF AloneLostIsSafe
  <2>1. \A r \in Slots : Active(r)' => r = s
    BY <1>1
  <2>2. q = s /\ new = "LOST"
    BY <1>1, <2>1 DEF IsLost, Active
  <2>3. \A r \in Slots : Active(r) => r = s
    BY <1>1, <2>1 DEF Active
  <2>4. IsLost(s) => safe.active
    BY <2>3 DEF NodeInv, SlotInv, AloneLostIsSafe
  <2> QED BY <1>1, <2>2, <2>4
<1> QED BY <1>2, <1>3, <1>4 DEF SlotInv

LEMMA StepSlotInv ==
  ASSUME NodeInv, [NodeNext]_nodeVars
  PROVE  SlotInv'
<1>1. ASSUME UNCHANGED <<health, safe>>, \A n \in Node : heard'[n] = heard[n] \/ heard'[n] >= 0
      PROVE  SlotInv'
  <2>1. \A s \in Slots : Active(s) => health[s].node_id \in Node
    BY SlotType DEF NodeInv
  <2> QED BY <1>1, <2>1 DEF NodeInv, SlotInv, OneSlotPerNode, TrackedWereHeard, AloneLostIsSafe,
             Active, IsLost
<1>2. CASE EachPeer
  <2>1. PICK p : p = lifecycle.copy[lifecycle.i]
    OBVIOUS
  <2>2. /\ lifecycle.i \in 1..Len(lifecycle.copy) /\ p.node_id \in Node /\ p.last_seen \in Int
        /\ \/ UNCHANGED <<health, safe>>
           \/ \E s \in Slots :
                /\ SlotsOf(p.node_id) = {s} \/ (SlotsOf(p.node_id) = {} /\ ~ Active(s))
                /\ SetState(s, p.node_id, compute_state(lifecycle.now, p.last_seen))
    BY <1>2, <2>1, EachPeerEffect DEF NodeInv, SlotInv
  <2>3. heard[p.node_id] >= 0
    BY <1>2, <2>1, <2>2 DEF NodeInv, UpdateInv, CopyIsHeard, Copied, EachPeer
  <2>4. compute_state(lifecycle.now, p.last_seen) \in States /\ UNCHANGED heard
    BY <1>2, <2>2, Types, StateType DEF NodeInv, EachPeer
  <2>5. ASSUME NEW s \in Slots, SlotsOf(p.node_id) = {s} \/ (SlotsOf(p.node_id) = {} /\ ~ Active(s)),
               SetState(s, p.node_id, compute_state(lifecycle.now, p.last_seen))
        PROVE  SlotInv'
    <3>1. \A r \in Slots : Active(r) /\ health[r].node_id = p.node_id => r = s
      <4>1. \A r \in Slots : Active(r) /\ health[r].node_id = p.node_id => r \in SlotsOf(p.node_id)
        BY DEF SlotsOf, Active
      <4> QED BY <2>5, <4>1
    <3> QED BY <2>2, <2>3, <2>4, <2>5, <3>1, SetStateSlotInv
  <2> QED BY <1>1, <2>2, <2>4, <2>5
<1>3. CASE EachSlot
  <2>1. PICK s : s = lifecycle.i
    OBVIOUS
  <2>2. s \in Slots /\ UNCHANGED heard /\ "LOST" \in States
    BY <1>3, <2>1 DEF EachSlot, States
  <2>3. CASE Active(s) /\ health[s].node_id \in Node /\ SetState(s, health[s].node_id, "LOST")
    <3>1. heard[health[s].node_id] >= 0
      BY <2>2, <2>3 DEF NodeInv, SlotInv, TrackedWereHeard
    <3>2. \A r \in Slots : Active(r) /\ health[r].node_id = health[s].node_id => r = s
      BY <2>2, <2>3 DEF NodeInv, SlotInv, OneSlotPerNode
    <3> QED BY <2>2, <2>3, <3>1, <3>2, SetStateSlotInv
  <2>4. CASE UNCHANGED <<health, safe>>
    BY <1>1, <2>2, <2>4
  <2> QED BY <1>3, <2>1, <2>3, <2>4, EachSlotEffect DEF NodeInv
<1>4. ASSUME NEW m \in Announcement, Hear(m) PROVE SlotInv'
  <2>1. UNCHANGED <<health, safe>> /\ \A n \in Node : heard'[n] = heard[n] \/ heard'[n] = clock
    BY <1>4 DEF Hear
  <2>2. clock >= 0
    BY MaxTimeNat DEF NodeInv, NodeTypeOK, TypeOK
  <2> QED BY <1>1, <2>1, <2>2
<1>5. CASE UNCHANGED <<health, safe, heard>>
  BY <1>1, <1>5
<1> QED BY <1>2, <1>3, <1>4, <1>5
        DEF NodeNext, nodeVars, TimePasses, Lifecycle, LifecycleTick, ExpirePeers,
            ceell_health_update, HealthNow, GetPeers, EachDone, UpdateDone

\* What had been heard at the copy stays what the copy says.
LEMMA StepCopyWasHeard ==
  ASSUME IInv, NodeInv, [NodeNext]_nodeVars
  PROVE  CopyWasHeard'
<1>1. lifecycle \in Lifecycle_type /\ "gone" \in At
  BY DEF NodeInv, NodeTypeOK, Lifecycle_type, At
<1>2. CASE lifecycle'.at \notin {"each", "gone"}
  BY <1>2 DEF CopyWasHeard
\* The update goes on with the copy it has, and tracks nodes of the copy only.
<1>3. ASSUME lifecycle.at \in {"each", "gone"}, lifecycle'.copy = lifecycle.copy,
             lifecycle'.now = lifecycle.now, heardAtCopy' = heardAtCopy,
             \A s \in Slots : Active(s)' =>
               \/ Active(s) /\ health'[s].node_id = health[s].node_id
               \/ \E j \in 1..Len(lifecycle.copy) : health'[s].node_id = lifecycle.copy[j].node_id
      PROVE  CopyWasHeard'
  <2>1. /\ \A j \in 1..Len(lifecycle.copy) :
             /\ lifecycle.copy[j].last_seen = heardAtCopy[lifecycle.copy[j].node_id]
             /\ heardAtCopy[lifecycle.copy[j].node_id] >= 0
        /\ Room => \A n \in Node \ Ids(lifecycle.copy) :
                     heardAtCopy[n] = -1 \/ lifecycle.now - heardAtCopy[n] > PeerTimeout
        /\ \A s \in Slots : Active(s) => heardAtCopy[health[s].node_id] >= 0
    BY <1>3 DEF NodeInv, CopyWasHeard
  <2>2. \A s \in Slots : Active(s)' => heardAtCopy[health'[s].node_id] >= 0
    BY <1>3, <2>1
  <2> QED BY <1>3, <2>1, <2>2 DEF CopyWasHeard, Room, Active
<1>4. CASE GetPeers
  <2>1. /\ lifecycle' = [at |-> "each", now |-> lifecycle.now, copy |-> peers, i |-> lifecycle.i,
                         found |-> lifecycle.found]
        /\ heardAtCopy' = heard /\ health' = health
    <3>1. "each" \in At
      BY DEF At
    <3>2. /\ lifecycle' = [lifecycle EXCEPT !.at = "each", !.copy = peers]
          /\ heardAtCopy' = heard /\ health' = health
      BY <1>4 DEF GetPeers
    <3>3. lifecycle' = [at |-> "each", now |-> lifecycle.now, copy |-> peers, i |-> lifecycle.i,
                        found |-> lifecycle.found]
      BY <1>1, <3>1, <3>2, GoingWith
    <3> QED BY <3>2, <3>3
  <2>2. sweep.now <= lifecycle.now
    BY <1>4 DEF NodeInv, UpdateInv, ClocksInOrder, GetPeers
  <2>3. \A j \in 1..Len(peers) : peers[j].last_seen = heard[peers[j].node_id] /\ peers[j].last_seen >= 0
    <3>1. \A j \in 1..Len(peers) : peers[j] \in Entry
      BY ElementOfSeq DEF IInv, TypeOK
    <3>2. \A e \in Entry : e.last_seen >= 0
      BY MaxTimeNat DEF Entry
    <3> QED BY <3>1, <3>2 DEF NodeInv, TableInv, LastSeenIsHeard
  <2>4. Room => \A n \in Node \ Ids(peers) : heard[n] = -1 \/ lifecycle.now - heard[n] > PeerTimeout
    BY <2>2, Types, PeerTimeoutNat DEF NodeInv, TableInv, AbsentAreSilent
  <2>5. \A s \in Slots : Active(s) => heard[health[s].node_id] >= 0
    BY DEF NodeInv, SlotInv, TrackedWereHeard
  <2>6. /\ lifecycle'.at = "each" /\ lifecycle'.copy = peers /\ lifecycle'.now = lifecycle.now
    BY <2>1
  <2> QED BY <2>1, <2>3, <2>4, <2>5, <2>6 DEF CopyWasHeard, Room, Active
<1>5. CASE EachPeer
  <2>1. PICK p : p = lifecycle.copy[lifecycle.i]
    OBVIOUS
  <2>2. /\ lifecycle.i \in 1..Len(lifecycle.copy) /\ p.node_id \in Node /\ p.last_seen \in Int
        /\ \/ UNCHANGED health
           \/ \E s \in Slots : SetState(s, p.node_id, compute_state(lifecycle.now, p.last_seen))
    BY <1>5, <2>1, EachPeerEffect DEF NodeInv, SlotInv
  <2>3. compute_state(lifecycle.now, p.last_seen) \in States
    BY <2>2, Types, StateType DEF NodeInv
  <2>4. lifecycle.at = "each" /\ heardAtCopy' = heardAtCopy
    BY <1>5 DEF EachPeer
  <2>5. lifecycle'.copy = lifecycle.copy /\ lifecycle'.now = lifecycle.now
    BY <1>1, <1>5 DEF EachPeer, Lifecycle_type
  <2>6. CASE UNCHANGED health
    BY <1>3, <2>4, <2>5, <2>6 DEF Active
  <2>7. ASSUME NEW s \in Slots, SetState(s, p.node_id, compute_state(lifecycle.now, p.last_seen))
        PROVE  CopyWasHeard'
    <3>1. health'[s].node_id = p.node_id /\ \A r \in Slots : r # s => health'[r] = health[r]
      BY <2>2, <2>3, <2>7, SetStateEffect DEF NodeInv
    <3> QED BY <1>3, <2>1, <2>2, <2>4, <2>5, <3>1 DEF Active
  <2> QED BY <2>2, <2>6, <2>7
<1>6. CASE EachSlot
  <2>1. PICK k : k = lifecycle.i
    OBVIOUS
  <2>2. /\ k \in Slots /\ lifecycle' = [lifecycle EXCEPT !.i = @ + 1] /\ lifecycle.at = "gone"
        /\ heardAtCopy' = heardAtCopy
        /\ \/ /\ Active(k) /\ health[k].node_id \in Node /\ SetState(k, health[k].node_id, "LOST")
           \/ UNCHANGED health
    BY <1>6, <2>1, EachSlotEffect DEF NodeInv, EachSlot
  <2>3. lifecycle'.copy = lifecycle.copy /\ lifecycle'.now = lifecycle.now
    BY <1>1, <2>2 DEF Lifecycle_type
  <2>4. CASE UNCHANGED health
    BY <1>3, <2>2, <2>3, <2>4 DEF Active
  <2>5. CASE Active(k) /\ health[k].node_id \in Node /\ SetState(k, health[k].node_id, "LOST")
    <3>1. "LOST" \in States
      BY DEF States
    <3>2. health'[k].node_id = health[k].node_id /\ \A r \in Slots : r # k => health'[r] = health[r]
      BY <2>2, <2>5, <3>1, SetStateEffect DEF NodeInv
    <3> QED BY <1>3, <2>2, <2>3, <2>5, <3>2 DEF Active
  <2> QED BY <2>2, <2>4, <2>5
<1>7. CASE EachDone
  <2>1. lifecycle' = [at |-> "gone", now |-> lifecycle.now, copy |-> lifecycle.copy, i |-> 1,
                      found |-> lifecycle.found]
    BY <1>1, <1>7, GoingWith DEF EachDone
  <2>2. lifecycle'.copy = lifecycle.copy /\ lifecycle'.now = lifecycle.now
    BY <2>1
  <2> QED BY <1>3, <1>7, <2>2 DEF EachDone, Active
<1>8. CASE UNCHANGED <<health, lifecycle, heardAtCopy>>
  BY <1>2, <1>3, <1>8 DEF Active
<1>9. CASE HealthNow
  <2>1. "peers" \in At /\ lifecycle' = [lifecycle EXCEPT !.at = "peers", !.now = clock]
    BY <1>9 DEF HealthNow, At
  <2>2. lifecycle' = [at |-> "peers", now |-> clock, copy |-> lifecycle.copy, i |-> lifecycle.i,
                      found |-> lifecycle.found]
    BY <1>1, <2>1, GoingWith
  <2>3. lifecycle'.at = "peers"
    BY <2>2
  <2> QED BY <1>2, <2>3
<1>11. CASE LifecycleTick
  <2>1. "expire" \in At /\ lifecycle' = [lifecycle EXCEPT !.at = "expire"]
    BY <1>11 DEF LifecycleTick, At
  <2>2. lifecycle' = [at |-> "expire", now |-> lifecycle.now, copy |-> lifecycle.copy,
                      i |-> lifecycle.i, found |-> lifecycle.found]
    BY <1>1, <2>1, Going
  <2>3. lifecycle'.at = "expire"
    BY <2>2
  <2> QED BY <1>2, <2>3
<1>12. CASE UpdateDone
  BY <1>2, <1>12 DEF UpdateDone, Asleep
<1>10. CASE ExpirePeers
  BY <1>1, <1>2, <1>10 DEF ExpirePeers, Lifecycle_type
<1> QED BY <1>4, <1>5, <1>6, <1>7, <1>8, <1>9, <1>10, <1>11, <1>12
        DEF NodeNext, nodeVars, TimePasses, Lifecycle, Hear, ceell_health_update

LEMMA NodeInvariant == NodeSpec => [](IInv /\ NodeInv)
<1>1. IInv /\ IInv' /\ NodeInv /\ [NodeNext]_nodeVars => NodeInv'
  BY StepTypes, StepTableInv, StepUpdateInv, StepSlotInv, StepCopyWasHeard DEF NodeInv
<1> QED BY <1>1, TableInvariant, NodeInitInv, PTL DEF NodeSpec

-----------------------------------------------------------------------------
\* The types, whatever the nodes, the size of the tables and the timeout.
THEOREM NodeTypeCorrect == NodeSpec => []NodeTypeOK
<1>1. NodeInv => NodeTypeOK
  BY DEF NodeInv
<1> QED BY <1>1, NodeInvariant, PTL

\* The health monitor gives every peer of the copy exactly one slot, as long as there
\* are as many slots as nodes: no peer is skipped, and no two slots share a node.
THEOREM TrackedExactlyOnce == ASSUME Room PROVE NodeSpec => []TrackedOnce
<1>1. NodeInv => TrackedOnce
  <2> SUFFICES ASSUME NodeInv, lifecycle.at = "gone", NEW j \in 1..Len(lifecycle.copy)
               PROVE  Cardinality(SlotsOf(lifecycle.copy[j].node_id)) = 1
    BY DEF TrackedOnce
  <2>1. PICK n : n = lifecycle.copy[j].node_id
    OBVIOUS
  <2>2. j < Len(lifecycle.copy) + 1
    BY Types DEF NodeInv
  <2>3. SlotsOf(n) # {}
    BY <2>1, <2>2, Room DEF NodeInv, UpdateInv, SecondLoop, Visited
  <2>4. PICK s \in SlotsOf(n) : TRUE
    BY <2>3
  <2>5. \A r \in SlotsOf(n) : r = s
    BY DEF NodeInv, SlotInv, OneSlotPerNode, SlotsOf, Active
  <2>6. SlotsOf(n) = {s}
    BY <2>5
  <2> QED BY <2>1, <2>6, FS_Singleton
<1> QED BY <1>1, NodeInvariant, PTL

\* With one node tracked, a LOST one keeps the safe state active.
THEOREM SafeWhileAlone == NodeSpec => []SafeWhileOnlyPeerLost
<1>1. NodeInv => SafeWhileOnlyPeerLost
  <2> SUFFICES ASSUME NodeInv, Cardinality({s \in Slots : Active(s)}) = 1, NEW s \in Slots, IsLost(s)
               PROVE  safe.active
    BY DEF SafeWhileOnlyPeerLost, SafeWhileLost, Active
  <2> DEFINE A == {r \in Slots : Active(r)}
  <2>1. IsFiniteSet(A)
    <3>1. IsFiniteSet(Slots)
      BY FS_Interval, MaxPeersNat DEF Slots
    <3> QED BY <3>1, FS_Subset
  <2> HIDE DEF A
  <2>2. \E r : A = {r}
    BY <2>1, FS_Singleton DEF A
  <2>3. \A q, r \in Slots : Active(q) /\ Active(r) => q = r
    BY <2>2 DEF A
  <2> QED BY <2>3 DEF NodeInv, SlotInv, AloneLostIsSafe
<1> QED BY <1>1, NodeInvariant, PTL

-----------------------------------------------------------------------------
(* What a step of the update may conclude of a node's silence. *)

SpuriousStep(s) ==
  IsLost(s)' /\ ~ IsLost(s) => lifecycle.now - heardAtCopy[health'[s].node_id] >= PeerTimeout

\* In the first loop a peer is LOST by the age of its entry in the copy.
LEMMA EachPeerNotSpurious ==
  ASSUME NodeInv, EachPeer, NEW r \in Slots
  PROVE  SpuriousStep(r)
<1>1. PICK p : p = lifecycle.copy[lifecycle.i]
  OBVIOUS
<1>2. /\ lifecycle.i \in 1..Len(lifecycle.copy) /\ p.node_id \in Node /\ p.last_seen \in Int
      /\ \/ UNCHANGED health
         \/ \E s \in Slots : SetState(s, p.node_id, compute_state(lifecycle.now, p.last_seen))
  BY <1>1, EachPeerEffect DEF NodeInv, SlotInv
<1>3. p.last_seen = heardAtCopy[p.node_id]
  BY <1>1, <1>2 DEF NodeInv, CopyWasHeard, EachPeer
<1>4. lifecycle.now \in Int /\ compute_state(lifecycle.now, p.last_seen) \in States
  BY <1>2, Types, StateType DEF NodeInv
<1>5. ASSUME NEW s \in Slots, SetState(s, p.node_id, compute_state(lifecycle.now, p.last_seen))
      PROVE  SpuriousStep(r)
  <2>1. /\ health'[s].node_id = p.node_id
        /\ health'[s].state = compute_state(lifecycle.now, p.last_seen)
        /\ \A q \in Slots : q # s => health'[q] = health[q]
    BY <1>2, <1>4, <1>5, SetStateEffect DEF NodeInv
  <2>2. CASE r # s
    BY <2>1, <2>2 DEF SpuriousStep, IsLost
  <2>3. CASE r = s /\ compute_state(lifecycle.now, p.last_seen) = "LOST"
    <3>1. lifecycle.now - p.last_seen >= PeerTimeout
      BY <1>2, <1>4, <2>3, LostIsOld
    <3> QED BY <1>3, <2>1, <2>3, <3>1 DEF SpuriousStep
  <2>4. CASE r = s /\ compute_state(lifecycle.now, p.last_seen) # "LOST"
    BY <2>1, <2>4 DEF SpuriousStep, IsLost
  <2> QED BY <2>2, <2>3, <2>4
<1>6. CASE UNCHANGED health
  BY <1>6 DEF SpuriousStep, IsLost
<1> QED BY <1>2, <1>5, <1>6

\* In the second loop a slot is LOST because its node is not in the copy.
LEMMA EachSlotNotSpurious ==
  ASSUME Room, NodeInv, EachSlot, NEW r \in Slots
  PROVE  SpuriousStep(r)
<1>1. PICK s : s = lifecycle.i
  OBVIOUS
<1>2. CASE Active(s) /\ s \notin lifecycle.found /\ health[s].node_id \in Node
           /\ SetState(s, health[s].node_id, "LOST")
  <2>1. PICK n : n = health[s].node_id
    OBVIOUS
  <2>2. s \in Slots /\ lifecycle.at = "gone" /\ "LOST" \in States /\ n \in Node
    BY <1>1, <1>2, <2>1 DEF EachSlot, States
  <2>3. n \notin Ids(lifecycle.copy)
    <3> SUFFICES ASSUME NEW j \in 1..Len(lifecycle.copy), n = lifecycle.copy[j].node_id PROVE FALSE
      BY DEF Ids
    <3>1. j < Len(lifecycle.copy) + 1
      BY Types DEF NodeInv
    <3>2. s \in SlotsOf(n)
      BY <1>2, <2>1, <2>2 DEF SlotsOf, Active
    <3> QED BY <1>2, <2>2, <3>1, <3>2 DEF NodeInv, UpdateInv, SecondLoop, Visited
  <2>4. heardAtCopy[n] = -1 \/ lifecycle.now - heardAtCopy[n] > PeerTimeout
    BY Room, <2>2, <2>3 DEF NodeInv, CopyWasHeard
  <2>5. heardAtCopy[n] >= 0
    BY <1>2, <2>1, <2>2 DEF NodeInv, CopyWasHeard
  <2>6. heardAtCopy[n] \in Int /\ lifecycle.now \in Int
    BY <2>2, Types DEF NodeInv, NodeTypeOK
  <2>7. lifecycle.now - heardAtCopy[n] >= PeerTimeout
    BY <2>4, <2>5, <2>6, PeerTimeoutNat
  <2>8. health'[s].node_id = n /\ \A q \in Slots : q # s => health'[q] = health[q]
    BY <1>2, <2>1, <2>2, SetStateEffect DEF NodeInv
  <2> QED BY <2>7, <2>8 DEF SpuriousStep, IsLost
<1>3. CASE UNCHANGED health
  BY <1>3 DEF SpuriousStep, IsLost
<1> QED BY <1>1, <1>2, <1>3, EachSlotEffect DEF NodeInv

\* A node with a slot has one, and it is the one a reader finds.
LEMMA OnlySlot ==
  ASSUME NodeInv, NEW n, NEW s \in SlotsOf(n)
  PROVE  ceell_health_get_state(n) = health[s].state
<1>1. SlotsOf(n) = {s}
  BY DEF NodeInv, SlotInv, OneSlotPerNode, SlotsOf, Active
<1>2. s \in Int
  BY MaxPeersNat DEF SlotsOf, Slots
<1>3. First({s}) = s
  BY <1>2 DEF First
<1> QED BY <1>1, <1>3 DEF ceell_health_get_state

LEMMA UpdateDoneReports ==
  ASSUME NodeInv, UpdateDone, NEW n \in Node, lifecycle.now - heard[n] >= PeerTimeout
  PROVE  ceell_health_get_state(n) = "LOST"
<1>1. CASE SlotsOf(n) = {}
  BY <1>1 DEF ceell_health_get_state
<1>2. ASSUME NEW s \in SlotsOf(n) PROVE ceell_health_get_state(n) = "LOST"
  <2>1. s \in Slots /\ Active(s) /\ health[s].node_id = n
    BY DEF SlotsOf, Active
  <2>2. lifecycle.at = "gone" /\ lifecycle.i = MaxPeers + 1
    BY Types, MaxPeersNat DEF UpdateDone, NodeInv, Slots
  <2>3. heard[n] \in Int /\ lifecycle.now \in Int
    BY Types DEF NodeInv
  <2>4. CASE s \in lifecycle.found
    <3>1. PICK j \in 1..Len(lifecycle.copy) : lifecycle.copy[j].node_id = n
      BY <2>1, <2>2, <2>4 DEF NodeInv, UpdateInv, FoundAreCopied, Copied, Ids
    <3>2. j < Len(lifecycle.copy) + 1
      BY Types DEF NodeInv
    <3>3. health[s].state = compute_state(lifecycle.now, lifecycle.copy[j].last_seen)
      BY <2>2, <3>1, <3>2 DEF NodeInv, UpdateInv, SecondLoop, Visited
    <3>4. ~ Later(n)
      BY <2>3, PeerTimeoutNat, IntervalPositive, TimeoutCoversMisses DEF Later
    <3>5. lifecycle.copy[j].last_seen = heard[n]
      BY <2>2, <3>1, <3>4 DEF NodeInv, UpdateInv, CopyIsHeard, Copied
    <3> QED BY <2>3, <3>3, <3>5, OldIsLost, OnlySlot
  <2>5. CASE s \notin lifecycle.found
    <3>1. s < lifecycle.i
      BY <2>1, <2>2, MaxPeersNat DEF Slots
    <3>2. IsLost(s)
      BY <2>1, <2>2, <2>5, <3>1 DEF NodeInv, UpdateInv, SecondLoop
    <3> QED BY <3>2, OnlySlot DEF IsLost
  <2> QED BY <2>4, <2>5
<1> QED BY <1>1, <1>2

\* Whatever the interleaving of announcements, the sweep and the update, and whatever
\* the sizes as long as there is room for all nodes, a node becomes LOST only if the
\* last word from it, of all that was heard up to the copy of the table, was the whole
\* timeout older than the clock the update read: never one heard in the timeout before
\* that clock, nor one heard between the clock and the copy.
THEOREM NeverSpuriouslyLost == ASSUME Room PROVE NodeSpec => NoSpuriousLost
<1>1. ASSUME NodeInv, [NodeNext]_nodeVars, NEW s \in Slots PROVE SpuriousStep(s)
  <2>1. CASE EachPeer
    BY <1>1, <2>1, EachPeerNotSpurious
  <2>2. CASE EachSlot
    BY Room, <1>1, <2>2, EachSlotNotSpurious
  <2>3. CASE UNCHANGED health
    BY <2>3 DEF SpuriousStep, IsLost
  <2> QED BY <1>1, <2>1, <2>2, <2>3
          DEF NodeNext, nodeVars, TimePasses, Lifecycle, LifecycleTick, ExpirePeers, Hear,
              ceell_health_update, HealthNow, GetPeers, EachDone, UpdateDone
<1>2. NodeInv /\ [NodeNext]_nodeVars =>
        [\A s \in Slots : IsLost(s)' /\ ~ IsLost(s) =>
           lifecycle.now - heardAtCopy[health'[s].node_id] >= PeerTimeout]_nodeVars
  BY <1>1 DEF SpuriousStep
<1> QED BY <1>2, NodeInvariant, PTL DEF NodeSpec, NoSpuriousLost

\* Whatever happens meanwhile, an update leaves no node that was silent for the
\* timeout with another state than LOST.
THEOREM SilenceIsReported == NodeSpec => SilentIsLost
<1>1. ASSUME NodeInv, [NodeNext]_nodeVars, lifecycle.at = "gone", lifecycle'.at = "sleep"
      PROVE  UpdateDone
  <2>1. CASE EachSlot
    <3>1. lifecycle' = [lifecycle EXCEPT !.i = @ + 1]
      BY <2>1 DEF EachSlot
    <3>2. lifecycle'.at = lifecycle.at
      BY <3>1 DEF NodeInv, NodeTypeOK
    <3> QED BY <1>1, <3>2
  <2>2. CASE UNCHANGED lifecycle
    BY <1>1, <2>2
  <2> QED BY <1>1, <2>1, <2>2
          DEF NodeNext, nodeVars, TimePasses, Lifecycle, LifecycleTick, ExpirePeers, Hear,
              ceell_health_update, HealthNow, GetPeers, EachPeer, EachDone
<1>2. NodeInv /\ [NodeNext]_nodeVars =>
        [lifecycle.at = "gone" /\ lifecycle'.at = "sleep" =>
           \A n \in Node :
             lifecycle.now - heard[n] >= PeerTimeout => ceell_health_get_state(n) = "LOST"]_nodeVars
  BY <1>1, UpdateDoneReports
<1> QED BY <1>2, NodeInvariant, PTL DEF NodeSpec, SilentIsLost
=============================================================================
