----------------------------- MODULE BootProofs -----------------------------
(***************************************************************************)
(* Proofs about Boot for every set of names, image, size of configuration  *)
(* and registry, and for every failure of a step.  The invariant says what *)
(* each step of main has left behind when the next one begins, and what    *)
(* the threads it has started may take from that.                          *)
(***************************************************************************)
EXTENDS Boot, FiniteSetTheorems, SequenceTheorems, WellFoundedInduction, TLAPS

\* The steps from which on a step's objects exist.
AfterRegistry  == Steps \ {"config", "net", "identity", "registry", "returned"}
AfterTiming    == AfterRegistry \ {"services", "echo", "timing"}
AfterDiscovery == {"start", "messaging", "ota service", "ota", "lifecycle"}
AfterMessaging == {"ota service", "ota", "lifecycle"}
Announcing     == {"messaging", "returned"} \cup AfterMessaging

MadeInTime ==
  /\ pc \in AfterRegistry => "svc_mutex" \in ready
  /\ pc \in AfterTiming => "timing_mutex" \in ready
  /\ pc \in AfterDiscovery => {"svc_mutex", "peer_mutex", "sock"} \subseteq ready
  /\ pc \in AfterMessaging => MsgObjects \cup {"msg_sock"} \subseteq ready

StartedInTime ==
  /\ running \cap {"disc_tx", "disc_rx"} # {} =>
       pc \in Announcing /\ {"svc_mutex", "peer_mutex", "sock"} \subseteq ready
  /\ running \cap MsgThreads # {} =>
       MsgObjects \cup {"svc_mutex", "msg_sock"} \subseteq ready
  /\ svc_csv # << >> \/ sent # {} => "disc_tx" \in running

\* The registry: first the configured services main has gone through, then its own.
Configured == IF pc = "config" THEN config = Defaults ELSE config = ceell_config_load(flash)

ConfiguredEntry(i) ==
  [name |-> config.services[i], handler |-> NoHandler, sla |-> ConfiguredSla(i)]

RegistryInOrder ==
  /\ pc \in Steps \ (AfterRegistry \cup {"returned"}) => done = 0 /\ services = << >>
  /\ pc \in AfterRegistry \ {"services"} => done = Len(config.services)
  /\ "disc_tx" \in running => done = Len(config.services)
  /\ done <= Len(services) /\ (Len(services) = done \/ done = Len(config.services))
  /\ pc = "services" => Len(services) = done
  /\ \A i \in 1..done : services[i] = ConfiguredEntry(i)
  /\ \A i \in 1..Len(services) : i > done =>
       services[i].name \in Range(Builtin) /\ services[i].handler = services[i].name

\* An announcement lists the registry as it was, and holds the configuration.
CsvsInOrder ==
  /\ << >> \notin sent
  /\ \A csv \in sent \cup {svc_csv} : csv # << >> =>
       /\ Len(config.services) <= Len(csv) /\ Len(csv) <= Len(services)
       /\ \A i \in 1..Len(csv) : csv[i] = services[i].name

BootInv ==
  /\ TypeOK /\ MadeInTime /\ StartedInTime /\ Configured /\ RegistryInOrder /\ CsvsInOrder
  /\ ReadyBeforeUse

-----------------------------------------------------------------------------
(* What the parser keeps of an image: which index comes k-th. *)

Rank(S, i) == Cardinality({j \in S : j <= i})

LEMMA RankGrows ==
  ASSUME NEW n \in Nat, NEW S \in SUBSET (1..n)
  PROVE  /\ IsFiniteSet(S) /\ Cardinality(S) \in Nat
         /\ \A i \in S : Rank(S, i) \in 1..Cardinality(S)
         /\ \A i, l \in S : i < l => Rank(S, i) < Rank(S, l)
<1> DEFINE UpTo(i) == {j \in S : j <= i}
<1>1. IsFiniteSet(S)
  BY FS_Interval, FS_Subset, 1 \in Int, n \in Int
<1>2. \A i \in S : UpTo(i) \in SUBSET S
  OBVIOUS
<1>3. \A i \in S : /\ IsFiniteSet(UpTo(i)) /\ Cardinality(UpTo(i)) <= Cardinality(S)
                   /\ Cardinality(UpTo(i)) \in Nat
  BY <1>1, <1>2, FS_Subset, FS_CardinalityType
<1>4. Cardinality(S) \in Nat
  BY <1>1, FS_CardinalityType
<1>5. ASSUME NEW i \in S
      PROVE  Cardinality(UpTo(i)) # 0
  <2>1. i \in UpTo(i)
    OBVIOUS
  <2> QED BY <1>3, <2>1, FS_EmptySet
<1>6. ASSUME NEW i \in S, NEW l \in S, i < l
      PROVE  Cardinality(UpTo(i)) < Cardinality(UpTo(l))
  <2>1. \A j \in S : j \in Int
    OBVIOUS
  <2>2. ~ (l <= i) /\ l <= l /\ \A j \in S : j <= i => j <= l
    BY <1>6, <2>1
  <2>3. UpTo(i) \in SUBSET UpTo(l) /\ l \in UpTo(l) /\ l \notin UpTo(i)
    BY <2>2
  <2>4. UpTo(i) # UpTo(l)
    BY <2>3
  <2> HIDE DEF UpTo
  <2>5. /\ Cardinality(UpTo(i)) <= Cardinality(UpTo(l))
        /\ Cardinality(UpTo(l)) = Cardinality(UpTo(i)) => UpTo(l) = UpTo(i)
    BY <1>3, <2>3, FS_Subset
  <2> QED BY <1>3, <2>4, <2>5
<1>7. \A i \in S : Rank(S, i) = Cardinality(UpTo(i))
  BY DEF Rank
<1> HIDE DEF UpTo
<1> QED BY <1>1, <1>3, <1>4, <1>5, <1>6, <1>7

\* There is one index of every rank, and Position finds it.
LEMMA PositionFound ==
  ASSUME NEW n \in Nat, NEW S \in SUBSET (1..n), NEW k \in 1..Cardinality(S)
  PROVE  Position(S, k) \in S /\ Rank(S, Position(S, k)) = k
<1> DEFINE T == 1..Cardinality(S)
           f == [i \in S |-> Rank(S, i)]
<1>1. /\ IsFiniteSet(S) /\ Cardinality(S) \in Nat
      /\ \A i \in S : Rank(S, i) \in T
      /\ \A i, l \in S : i < l => Rank(S, i) < Rank(S, l)
  BY RankGrows
<1>2. IsFiniteSet(T) /\ Cardinality(T) = Cardinality(S)
  <2>1. Cardinality(S) \in Int /\ 1 \in Int
    BY <1>1
  <2>2. /\ IsFiniteSet(1..Cardinality(S))
        /\ Cardinality(1..Cardinality(S)) =
             IF 1 > Cardinality(S) THEN 0 ELSE Cardinality(S) - 1 + 1
    BY <2>1, FS_Interval
  <2> QED BY <1>1, <2>2
<1>3. ASSUME NEW i \in S, NEW l \in S, f[i] = f[l]
      PROVE  i = l
  <2>1. i \in Int /\ l \in Int
    OBVIOUS
  <2>2. Rank(S, i) \in Int /\ Rank(S, l) \in Int /\ Rank(S, i) = Rank(S, l)
    BY <1>1, <1>3
  <2> QED BY <1>1, <2>1, <2>2
<1>4. f \in [S -> T]
  BY <1>1
<1>5. f \in Injection(S, T)
  <2> HIDE DEF f, T
  <2> QED BY <1>3, <1>4 DEF Injection, IsInjective
<1>6. f \in Surjection(S, T)
  <2> HIDE DEF f, T
  <2> QED BY <1>2, <1>5, FS_Injection
<1>7. PICK i \in S : f[i] = k
  <2>1. k \in T
    OBVIOUS
  <2> HIDE DEF f, T
  <2> QED BY <1>6, <2>1 DEF Surjection
<1>8. \E l \in S : Cardinality({j \in S : j <= l}) = k
  BY <1>7 DEF Rank
<1> QED BY <1>8 DEF Position, Rank

LEMMA SmallerOf ==
  ASSUME NEW a \in Nat, NEW b \in Nat
  PROVE  Min({a, b}) \in Nat /\ Min({a, b}) <= a /\ Min({a, b}) <= b
BY DEF Min

\* The list that is kept: it fits, and holds elements of the image at indices of S.
LEMMA KeptIs ==
  ASSUME NEW X, NEW seq \in Seq(X), NEW S \in SUBSET (DOMAIN seq)
  PROVE  /\ Kept(seq, S) \in Seq({seq[i] : i \in S})
         /\ Len(Kept(seq, S)) <= MaxServices /\ Len(Kept(seq, S)) <= Cardinality(S)
         /\ \A k \in 1..Len(Kept(seq, S)) :
              Position(S, k) \in S /\ Kept(seq, S)[k] = seq[Position(S, k)]
<1> DEFINE n == Min({MaxServices, Cardinality(S)})
<1>1. Len(seq) \in Nat /\ S \in SUBSET (1..Len(seq))
  OBVIOUS
<1>2. Cardinality(S) \in Nat
  BY <1>1, RankGrows
<1>3. n \in Nat /\ n <= MaxServices /\ n <= Cardinality(S)
  BY <1>2, SmallerOf, Sizes
<1>4. Kept(seq, S) = [k \in 1..n |-> seq[Position(S, k)]]
  BY DEF Kept
<1> HIDE DEF n
<1>5. \A k \in 1..n : k \in 1..Cardinality(S)
  BY <1>2, <1>3
<1>6. \A k \in 1..n : Position(S, k) \in S
  BY <1>1, <1>5, PositionFound
<1>7. \A k \in 1..n : seq[Position(S, k)] \in {seq[i] : i \in S}
  BY <1>6
<1>8. Kept(seq, S) \in Seq({seq[i] : i \in S}) /\ Len(Kept(seq, S)) = n
  BY <1>3, <1>4, <1>7
<1> QED BY <1>3, <1>4, <1>6, <1>8

\* The first of the kept elements from P is the first of P in the image.
LEMMA FirstKept ==
  ASSUME NEW X, NEW seq \in Seq(X), NEW S \in SUBSET (DOMAIN seq), NEW P \in SUBSET S,
         NEW i \in P, \A j \in P : i <= j,
         NEW k \in 1..Len(Kept(seq, S)), Position(S, k) \in P,
         \A l \in 1..Len(Kept(seq, S)) : Position(S, l) \in P => k <= l
  PROVE  Position(S, k) = i
<1> DEFINE p == Position(S, k)
           m == Len(Kept(seq, S))
<1>1. Len(seq) \in Nat /\ S \in SUBSET (1..Len(seq)) /\ \A j \in S : j \in Int
  OBVIOUS
<1>2. /\ Cardinality(S) \in Nat /\ \A j \in S : Rank(S, j) \in 1..Cardinality(S)
      /\ \A j, l \in S : j < l => Rank(S, j) < Rank(S, l)
  BY <1>1, RankGrows
<1>3. m \in Nat /\ m <= Cardinality(S)
  <2>1. /\ Kept(seq, S) \in Seq({seq[j] : j \in S})
        /\ Len(Kept(seq, S)) <= Cardinality(S)
    BY KeptIs
  <2> QED BY <2>1
<1> DEFINE r == Rank(S, i)
<1> HIDE DEF m
<1>4. k \in 1..m
  BY DEF m
<1>5. k \in 1..Cardinality(S)
  BY <1>2, <1>3, <1>4
<1>6. p \in S /\ Rank(S, p) = k
  BY <1>1, <1>5, PositionFound
<1>7. i \in S /\ i <= p /\ r \in 1..Cardinality(S)
  BY <1>2
<1> HIDE DEF p, r
<1>8. r <= k
  <2>1. CASE i = p
    BY <1>2, <1>5, <1>6, <2>1 DEF r
  <2>2. CASE i < p
    <3>1. Rank(S, i) < Rank(S, p)
      BY <1>2, <1>6, <1>7, <2>2
    <3> QED BY <1>5, <1>6, <1>7, <3>1 DEF r
  <2> QED BY <1>1, <1>6, <1>7, <2>1, <2>2
<1>9. r \in 1..m
  BY <1>4, <1>3, <1>7, <1>8
<1>10. Position(S, r) \in S /\ Rank(S, Position(S, r)) = r
  BY <1>1, <1>7, PositionFound
<1>11. Position(S, r) = i
  <2>1. ~ (i < Position(S, r)) /\ ~ (Position(S, r) < i)
    BY <1>2, <1>7, <1>10 DEF r
  <2> QED BY <1>1, <1>7, <1>10, <2>1
<1>12. k <= r
  BY <1>9, <1>11 DEF m
<1>13. r = k
  BY <1>4, <1>3, <1>7, <1>8, <1>12
<1> QED BY <1>11, <1>13 DEF p

\* What a stored list consists of, by its form.
StoredName == Name \cup {NoName, Long}
StoredEntry == [name : StoredName, priority : Int, deadline_ms : Int]
SlaType == [priority : 0..2, deadline_ms : 0..(Wide - 1)]

LEMMA LoadCases ==
  ASSUME NEW image \in Image
  PROVE  \/ /\ image.form = "v1" /\ image.services \in Seq(StoredName)
            /\ ceell_config_load(image) =
                 [version |-> 1, services |-> parse_services_csv(image.services),
                  service_slas |-> << >>]
         \/ /\ image.form = "v2" /\ image.services \in Seq(StoredEntry)
            /\ ceell_config_load(image) = parse_services_v2(image.services)
         \/ ceell_config_load(image) = Defaults
BY ImageType DEF ceell_config_load, StoredName, StoredEntry

LEMMA UsableNames ==
  ASSUME NEW names \in Seq(StoredName)
  PROVE  parse_services_csv(names) \in Seq(Name) /\ Len(parse_services_csv(names)) <= MaxServices
<1> DEFINE S == {i \in DOMAIN names : names[i] \notin {NoName, Long}}
<1>1. S \in SUBSET (DOMAIN names)
  OBVIOUS
<1>2. {names[i] : i \in S} \subseteq Name
  BY DEF StoredName
<1>3. Kept(names, S) \in Seq({names[i] : i \in S}) /\ Len(Kept(names, S)) <= MaxServices
  BY <1>1, KeptIs
<1> HIDE DEF S
<1>4. Kept(names, S) \in Seq(Name)
  BY <1>2, <1>3
<1> QED BY <1>3, <1>4 DEF parse_services_csv, S

LEMMA FittedName ==
  ASSUME NEW name \in StoredName
  PROVE  name # NoName => Fitted(name) \in Name
BY NamesFit DEF Fitted, StoredName

LEMMA SlaIs ==
  ASSUME NEW entry \in StoredEntry
  PROVE  /\ Sla(entry) \in SlaType
         /\ entry.priority \in 0..2 => Sla(entry).priority = entry.priority
         /\ entry.deadline_ms \in 0..(Wide - 1) => Sla(entry).deadline_ms = entry.deadline_ms
<1>1. entry.priority \in Int /\ entry.deadline_ms \in Int /\ Wide \in Nat /\ Wide # 0
  BY Sizes DEF StoredEntry
<1>2. entry.deadline_ms % Wide \in 0..(Wide - 1)
  BY <1>1
<1>3. entry.deadline_ms \in 0..(Wide - 1) => entry.deadline_ms % Wide = entry.deadline_ms
  BY <1>1
<1>4. 0 \in 0..(Wide - 1)
  BY <1>1
<1> QED BY <1>1, <1>2, <1>3, <1>4 DEF Sla, SlaType, DefaultSla

LEMMA NamedEntries ==
  ASSUME NEW entries \in Seq(StoredEntry)
  PROVE  LET c == parse_services_v2(entries)
             kept == Kept(entries, Named(entries))
         IN  /\ c.version = 2 /\ c.services \in Seq(Name) /\ Len(c.services) <= MaxServices
             /\ Len(c.services) = Len(kept)
             /\ \A k \in 1..Len(kept) : /\ kept[k] \in StoredEntry
                                        /\ c.services[k] = Fitted(kept[k].name)
                                        /\ c.service_slas[k] = Sla(kept[k])
<1> DEFINE S == Named(entries)
           kept == Kept(entries, S)
           c == parse_services_v2(entries)
<1>1. S \in SUBSET (DOMAIN entries)
  BY DEF Named
<1>2. /\ kept \in Seq({entries[i] : i \in S}) /\ Len(kept) <= MaxServices
      /\ \A k \in 1..Len(kept) : Position(S, k) \in S /\ kept[k] = entries[Position(S, k)]
  BY <1>1, KeptIs
<1>3. \A k \in 1..Len(kept) : kept[k] \in StoredEntry /\ kept[k].name # NoName
  BY <1>1, <1>2 DEF Named
<1>4. \A k \in 1..Len(kept) : Fitted(kept[k].name) \in Name
  BY <1>3, FittedName DEF StoredEntry
<1>5. c = [version |-> 2, services |-> [k \in DOMAIN kept |-> Fitted(kept[k].name)],
           service_slas |-> [k \in DOMAIN kept |-> Sla(kept[k])]]
  BY DEF parse_services_v2
<1>6. Len(kept) \in Nat /\ DOMAIN kept = 1..Len(kept)
  BY <1>2
<1> HIDE DEF kept, c
<1>7. /\ c.version = 2 /\ c.services = [k \in 1..Len(kept) |-> Fitted(kept[k].name)]
      /\ c.service_slas = [k \in 1..Len(kept) |-> Sla(kept[k])]
  BY <1>5, <1>6
<1>8. c.services \in Seq(Name) /\ Len(c.services) = Len(kept)
  BY <1>4, <1>6, <1>7
<1>9. \A k \in 1..Len(kept) : /\ c.services[k] = Fitted(kept[k].name)
                              /\ c.service_slas[k] = Sla(kept[k])
  BY <1>7
<1> QED BY <1>2, <1>3, <1>7, <1>8, <1>9 DEF kept, c

LEMMA SmallestIs ==
  ASSUME NEW S \in SUBSET Nat, S # {}
  PROVE  Min(S) \in S /\ \A n \in S : Min(S) <= n
<1> DEFINE R == OpToRel(<, Nat)
<1>1. IsWellFoundedOn(R, Nat)
  BY NatLessThanWellFounded
<1>2. \E m \in S : \A n \in S : ~ (<<n, m>> \in R)
  <2> HIDE DEF R
  <2> QED BY <1>1, WFMin
<1>3. \A m, n \in Nat : <<n, m>> \in R <=> n < m
  BY DEF OpToRel
<1> HIDE DEF R
<1>4. PICK m \in S : \A n \in S : ~ (<<n, m>> \in R)
  BY <1>2
<1>5. \A n \in S : ~ (n < m)
  BY <1>3, <1>4
<1>6. \A n \in S : n \in Int /\ m \in Int
  OBVIOUS
<1>7. \A n \in S : m <= n
  BY <1>5, <1>6
<1> QED BY <1>7 DEF Min

LEMMA LoadedConfig ==
  ASSUME NEW image \in Image, NEW c, c = ceell_config_load(image)
  PROVE  /\ c.version \in 0..2 /\ c.services \in Seq(Name) /\ Len(c.services) <= MaxServices
         /\ c.version = 2 => \A k \in 1..Len(c.services) : c.service_slas[k] \in SlaType
         /\ image.form # "v2" => c.version # 2
<1>1. CASE /\ image.form = "v1" /\ image.services \in Seq(StoredName)
           /\ c = [version |-> 1, services |-> parse_services_csv(image.services),
                   service_slas |-> << >>]
  BY <1>1, UsableNames
<1>2. CASE /\ image.form = "v2" /\ image.services \in Seq(StoredEntry)
           /\ c = parse_services_v2(image.services)
  <2> DEFINE kept == Kept(image.services, Named(image.services))
  <2>1. /\ c.version = 2 /\ c.services \in Seq(Name) /\ Len(c.services) <= MaxServices
        /\ Len(c.services) = Len(kept)
        /\ \A k \in 1..Len(kept) : kept[k] \in StoredEntry /\ c.service_slas[k] = Sla(kept[k])
    BY <1>2, NamedEntries
  <2>2. \A k \in 1..Len(kept) : Sla(kept[k]) \in SlaType
    <3> HIDE DEF kept
    <3> QED BY <2>1, SlaIs
  <2> QED BY <1>2, <2>1, <2>2
<1>3. CASE c = Defaults
  <2>1. << >> \in Seq(Name) /\ Len(<< >>) = 0
    OBVIOUS
  <2> QED BY <1>3, <2>1, Sizes DEF Defaults
<1> QED BY <1>1, <1>2, <1>3, LoadCases

\* The SLA kept with the first entry of a name is that of the first in the image.
LEMMA LoadedSla ==
  ASSUME flash \in Image, flash.form = "v2", config = ceell_config_load(flash),
         NEW k \in 1..Len(config.services),
         \A l \in 1..Len(config.services) : config.services[l] = config.services[k] => k <= l
  PROVE  /\ config.version = 2 /\ Given(config.services[k]) \in StoredEntry
         /\ config.service_slas[k] = Sla(Given(config.services[k]))
<1> DEFINE entries == flash.services
           S == Named(entries)
           kept == Kept(entries, S)
           name == config.services[k]
           P == {i \in DOMAIN entries : Fitted(entries[i].name) = name}
<1>1. entries \in Seq(StoredEntry) /\ config = parse_services_v2(entries)
  <2>1. config # Defaults
    BY DEF Defaults
  <2> QED BY <2>1, LoadCases
<1>2. /\ config.version = 2 /\ config.services \in Seq(Name)
      /\ Len(config.services) = Len(kept)
      /\ \A l \in 1..Len(kept) : /\ kept[l] \in StoredEntry
                                 /\ config.services[l] = Fitted(kept[l].name)
                                 /\ config.service_slas[l] = Sla(kept[l])
  BY <1>1, NamedEntries
<1>3. S \in SUBSET (DOMAIN entries)
  BY DEF Named
<1>4. \A l \in 1..Len(kept) : Position(S, l) \in S /\ kept[l] = entries[Position(S, l)]
  BY <1>1, <1>3, KeptIs
<1>5. name \in Name
  BY <1>2
<1>6. P \in SUBSET S
  BY <1>5, NamesFit DEF Named, Fitted
<1>7. \A l \in 1..Len(kept) : Position(S, l) \in P <=> config.services[l] = name
  BY <1>2, <1>3, <1>4
<1>8. k \in 1..Len(kept) /\ Position(S, k) \in P
  BY <1>2, <1>7
<1>9. P \in SUBSET Nat /\ P # {}
  BY <1>1, <1>8
<1> DEFINE first == Min(P)
<1>10. first \in P /\ \A j \in P : first <= j
  <2> HIDE DEF P
  <2> QED BY <1>9, SmallestIs
<1>11. \A l \in 1..Len(kept) : Position(S, l) \in P => k <= l
  BY <1>2, <1>7
<1>12. Position(S, k) = first
  <2> HIDE DEF P, S, first, kept, entries
  <2> QED BY <1>1, <1>3, <1>6, <1>8, <1>10, <1>11, FirstKept DEF kept
<1>13. Given(name) = entries[first]
  BY DEF Given
<1> QED BY <1>2, <1>4, <1>8, <1>12, <1>13

-----------------------------------------------------------------------------
(* The registry. *)

LEMMA BuiltinNames == Range(Builtin) = {"echo", "ota"} /\ Range(Builtin) \subseteq Name
<1>1. Range(Builtin) = {"echo", "ota"}
  BY DEF Range, Builtin
<1> QED BY <1>1, NamesFit

LEMMA DefaultSlaType == DefaultSla \in SlaType
BY Sizes DEF DefaultSla, SlaType

\* r is reg with e appended, or reg when there is no room.
Appended(reg, r, e) ==
  /\ r \in Seq(Entry) /\ Len(reg) <= Len(r) /\ Len(r) <= RegistrySize
  /\ \A i \in 1..Len(reg) : r[i] = reg[i]
  /\ Len(r) = Len(reg) \/ (Len(r) = Len(reg) + 1 /\ r[Len(r)] = e)
  /\ Len(reg) < RegistrySize => Len(r) = Len(reg) + 1

LEMMA RegisterIs ==
  ASSUME NEW reg \in Seq(Entry), Len(reg) <= RegistrySize, NEW name \in Name,
         NEW handler \in Range(Builtin) \cup {NoHandler}, NEW sla \in SlaType,
         NEW r, r = Register(reg, name, handler, sla)
  PROVE  Appended(reg, r, [name |-> name, handler |-> handler, sla |-> sla])
<1> DEFINE e == [name |-> name, handler |-> handler, sla |-> sla]
<1>1. e \in Entry
  BY DEF Entry, SlaType
<1>2. Len(reg) \in Nat /\ RegistrySize \in Nat
  BY Sizes
<1> HIDE DEF e
<1>3. CASE Len(reg) < RegistrySize
  <2>1. r = Append(reg, e)
    BY <1>3 DEF Register, e
  <2>2. /\ r \in Seq(Entry) /\ Len(r) = Len(reg) + 1 /\ r[Len(reg) + 1] = e
        /\ \A i \in 1..Len(reg) : r[i] = reg[i]
    BY <1>1, <2>1
  <2>3. Appended(reg, r, e)
    BY <1>2, <1>3, <2>2 DEF Appended
  <2> QED BY <2>3 DEF e
<1>4. CASE ~ (Len(reg) < RegistrySize)
  <2>1. r = reg
    BY <1>4 DEF Register
  <2>2. Appended(reg, r, e)
    BY <1>2, <1>4, <2>1 DEF Appended
  <2> QED BY <2>2 DEF e
<1> QED BY <1>3, <1>4

-----------------------------------------------------------------------------
(* The invariant. *)

LEMMA BootInit == Init => BootInv
<1> SUFFICES ASSUME Init PROVE BootInv
  OBVIOUS
<1>1. << >> \in Seq(Name) /\ << >> \in Seq(Entry) /\ Len(<< >>) = 0
  OBVIOUS
<1>2. config = Defaults /\ config.services = << >> /\ config.version = 0
  BY DEF Init, Defaults
<1>3. TypeOK
  <2>1. \A csv \in sent \cup {svc_csv} : csv \in Seq(Name) /\ Len(csv) <= RegistrySize
    BY <1>1, Sizes DEF Init
  <2>2. services \in Seq(Entry) /\ Len(services) <= RegistrySize
    BY <1>1, Sizes DEF Init
  <2>3. config.services \in Seq(Name) /\ Len(config.services) <= MaxServices
    BY <1>1, <1>2, Sizes
  <2>4. done \in 0..Len(config.services) /\ config.version \in 0..2
    BY <1>1, <1>2 DEF Init
  <2>5. pc \in Steps /\ identity \in BOOLEAN /\ flash \in Image
    BY DEF Init, Steps
  <2>6. /\ ready \subseteq Objects /\ running \subseteq Threads
        /\ failed \subseteq Fatal \cup {"health", "safe", "ota"}
        /\ early \subseteq (Threads \cup {"main"}) \X Objects
    BY DEF Init
  <2> QED BY <2>1, <2>2, <2>3, <2>4, <2>5, <2>6 DEF TypeOK
<1>4. MadeInTime /\ StartedInTime
  BY DEF Init, MadeInTime, StartedInTime, AfterRegistry, AfterTiming, AfterDiscovery,
         AfterMessaging, MsgThreads
<1>5. Configured /\ RegistryInOrder /\ CsvsInOrder /\ ReadyBeforeUse
  BY <1>1, <1>2 DEF Init, Configured, RegistryInOrder, CsvsInOrder, ReadyBeforeUse, AfterRegistry
<1> QED BY <1>3, <1>4, <1>5 DEF BootInv

LEMMA StepConfigured == BootInv /\ [Next]_vars => Configured'
<1> SUFFICES ASSUME BootInv, [Next]_vars PROVE Configured'
  OBVIOUS
<1> USE DEF BootInv, Configured
<1>1. CASE LoadConfig /\ UNCHANGED flash
  BY <1>1 DEF LoadConfig, Step
<1>2. ASSUME MainStep, ~ LoadConfig
      PROVE  pc # "config" /\ pc' # "config" /\ UNCHANGED <<config, flash>>
  BY <1>2 DEF MainStep, Step, RegisterConfigured, ceell_net_setup, ceell_identity_init,
     ceell_service_init, RegisterEcho, ceell_timing_init, ceell_health_init,
     ceell_safe_state_init, ceell_discovery_init, ceell_discovery_start, ceell_messaging_init,
     RegisterOta, ceell_ota_init
<1>3. ASSUME Next, ~ MainStep
      PROVE  UNCHANGED <<pc, config, flash>>
  BY <1>3 DEF Next, TxRead, TxSend, RxPacket, Dispatch, Handle, LifecycleTick, main
<1>4. CASE UNCHANGED vars
  BY <1>4 DEF vars, main
<1> QED BY <1>1, <1>2, <1>3, <1>4 DEF MainStep

LEMMA StepMade == BootInv /\ [Next]_vars => MadeInTime'
<1> SUFFICES ASSUME BootInv, [Next]_vars PROVE MadeInTime'
  OBVIOUS
<1> USE DEF BootInv, MadeInTime, AfterRegistry, AfterTiming, AfterDiscovery, AfterMessaging,
            Steps, Step, Makes
<1>1. ASSUME MainStep PROVE MadeInTime'
  <2>1. CASE RegisterConfigured
    BY <2>1 DEF RegisterConfigured
  <2>2. CASE LoadConfig \/ ceell_net_setup \/ ceell_identity_init
    BY <2>2 DEF LoadConfig, ceell_net_setup, ceell_identity_init
  <2>3. CASE ceell_service_init \/ RegisterEcho \/ ceell_timing_init
    BY <2>3 DEF ceell_service_init, RegisterEcho, ceell_timing_init
  <2>4. CASE ceell_health_init \/ ceell_safe_state_init
    BY <2>4 DEF ceell_health_init, ceell_safe_state_init
  <2>5. CASE ceell_discovery_init \/ ceell_discovery_start
    BY <2>5 DEF ceell_discovery_init, ceell_discovery_start
  <2>6. CASE ceell_messaging_init
    BY <2>6 DEF ceell_messaging_init
  <2>7. CASE RegisterOta \/ ceell_ota_init
    BY <2>7 DEF RegisterOta, ceell_ota_init
  <2> QED BY <1>1, <2>1, <2>2, <2>3, <2>4, <2>5, <2>6, <2>7 DEF MainStep
<1>2. ASSUME Next, ~ MainStep
      PROVE  UNCHANGED <<pc, ready>>
  BY <1>2 DEF Next, TxRead, TxSend, RxPacket, Dispatch, Handle, LifecycleTick, main
<1>3. CASE UNCHANGED vars
  BY <1>3 DEF vars, main
<1> QED BY <1>1, <1>2, <1>3

LEMMA StepStarted == BootInv /\ [Next]_vars => StartedInTime'
<1> SUFFICES ASSUME BootInv, [Next]_vars PROVE StartedInTime'
  OBVIOUS
<1> USE DEF BootInv, StartedInTime, AfterMessaging, Announcing, Step, Makes, Starts
<1>1. ASSUME MainStep PROVE StartedInTime'
  <2>1. UNCHANGED <<svc_csv, sent>>
    BY <1>1 DEF MainStep
  <2>2. CASE RegisterConfigured
    BY <2>1, <2>2 DEF RegisterConfigured
  <2>3. CASE LoadConfig \/ ceell_net_setup \/ ceell_identity_init
    BY <2>1, <2>3 DEF LoadConfig, ceell_net_setup, ceell_identity_init
  <2>4. CASE ceell_service_init \/ RegisterEcho \/ ceell_timing_init
    BY <2>1, <2>4 DEF ceell_service_init, RegisterEcho, ceell_timing_init
  <2>5. CASE ceell_health_init \/ ceell_safe_state_init
    BY <2>1, <2>5 DEF ceell_health_init, ceell_safe_state_init
  <2>6. CASE ceell_discovery_init
    BY <2>1, <2>6 DEF ceell_discovery_init
  <2>7. CASE ceell_discovery_start
    BY <2>1, <2>7 DEF ceell_discovery_start, MadeInTime, AfterDiscovery, MsgThreads
  <2>8. CASE ceell_messaging_init
    BY <2>1, <2>8 DEF ceell_messaging_init, MadeInTime, AfterDiscovery, MsgThreads
  <2>9. CASE RegisterOta \/ ceell_ota_init
    BY <2>1, <2>9 DEF RegisterOta, ceell_ota_init, MsgThreads
  <2> QED BY <1>1, <2>2, <2>3, <2>4, <2>5, <2>6, <2>7, <2>8, <2>9 DEF MainStep
<1>2. CASE TxRead \/ TxSend
  BY <1>2 DEF TxRead, TxSend, main
<1>3. CASE RxPacket \/ Dispatch \/ LifecycleTick \/ \E n \in Name, c \in {"check", "other"} : Handle(n, c)
  BY <1>3 DEF RxPacket, Dispatch, Handle, LifecycleTick, main
<1>4. CASE UNCHANGED vars
  BY <1>4 DEF vars, main
<1> QED BY <1>1, <1>2, <1>3, <1>4 DEF Next

LEMMA StepReady == BootInv /\ [Next]_vars => ReadyBeforeUse'
<1> SUFFICES ASSUME BootInv, [Next]_vars PROVE ReadyBeforeUse'
  OBVIOUS
<1> USE DEF BootInv, ReadyBeforeUse, StartedInTime, MadeInTime
<1>1. CASE TxRead
  BY <1>1 DEF TxRead, Uses
<1>2. CASE TxSend
  BY <1>2 DEF TxSend, Uses
<1>3. CASE RxPacket
  BY <1>3 DEF RxPacket, Uses
<1>4. CASE Dispatch
  BY <1>4 DEF Dispatch, Uses, MsgThreads, MsgObjects
<1>5. ASSUME NEW n \in Name, NEW c \in {"check", "other"}, Handle(n, c)
      PROVE  ReadyBeforeUse'
  <2>1. "msg_handler" \in running
    BY <1>5 DEF Handle
  <2>2. {"msgqs", "svc_mutex", "msg_sock"} \subseteq ready
    BY <2>1 DEF MsgThreads, MsgObjects
  <2>3. Serving(Handler(n), c) \subseteq {"check_trigger"}
    BY DEF Serving
  <2>4. early' = early \cup ({"msg_handler"} \X
          (({"msgqs", "svc_mutex", "msg_sock"} \cup Serving(Handler(n), c)) \ ready))
    BY <1>5 DEF Handle, Uses
  <2> QED BY <2>2, <2>3, <2>4
<1>6. CASE LifecycleTick
  BY <1>6 DEF LifecycleTick, Uses, AfterTiming, AfterDiscovery, AfterMessaging, AfterRegistry,
     Steps, MsgObjects
<1>7. CASE MainStep \/ UNCHANGED vars
  BY <1>7 DEF MainStep, vars
<1> QED BY <1>1, <1>2, <1>3, <1>4, <1>5, <1>6, <1>7 DEF Next

\* What the invariant gives to the proofs about the registry.
LEMMA RegistryFacts ==
  ASSUME BootInv
  PROVE  /\ services \in Seq(Entry) /\ Len(services) \in Nat /\ Len(services) <= RegistrySize
         /\ done \in Nat /\ done <= Len(services) /\ done <= Len(config.services)
         /\ config.services \in Seq(Name) /\ Len(config.services) <= RegistrySize
         /\ \A i \in 1..Len(config.services) : ConfiguredSla(i) \in SlaType
<1>1. /\ services \in Seq(Entry) /\ Len(services) <= RegistrySize /\ done \in 0..Len(config.services)
      /\ config.services \in Seq(Name) /\ Len(config.services) <= MaxServices
  BY DEF BootInv, TypeOK
<1>2. Len(services) \in Nat /\ Len(config.services) \in Nat
  BY <1>1
<1>3. \A i \in 1..Len(config.services) : ConfiguredSla(i) \in SlaType
  <2>1. CASE config = Defaults
    BY <2>1, DefaultSlaType DEF Defaults
  <2>2. CASE config = ceell_config_load(flash)
    <3>1. flash \in Image
      BY DEF BootInv, TypeOK
    <3>2. config.version = 2 => \A i \in 1..Len(config.services) : config.service_slas[i] \in SlaType
      BY <2>2, <3>1, LoadedConfig
    <3> QED BY <3>2, DefaultSlaType DEF ConfiguredSla
  <2> QED BY <2>1, <2>2 DEF BootInv, Configured
<1>4. done <= Len(services)
  BY DEF BootInv, RegistryInOrder
<1> QED BY <1>1, <1>2, <1>3, <1>4, Sizes

\* The steps that do not register anything.
LEMMA RegistryKept ==
  ASSUME BootInv, UNCHANGED <<config, services, done>>,
         pc' \in AfterRegistry \ {"services"} => done = Len(config.services),
         "disc_tx" \in running' => done = Len(config.services),
         pc' \in Steps \ (AfterRegistry \cup {"returned"}) => done = 0 /\ services = << >>,
         pc' = "services" => Len(services) = done
  PROVE  RegistryInOrder'
BY DEF BootInv, RegistryInOrder, ConfiguredEntry, ConfiguredSla

\* A service of main's own is registered behind the configured ones.
LEMMA OwnRegistered ==
  ASSUME BootInv, NEW name \in Range(Builtin), NEW r,
         r = Register(services, name, name, DefaultSla), services' = r,
         UNCHANGED <<config, done, running>>, pc \in AfterRegistry \ {"services"},
         pc' \in AfterRegistry \ {"services"}
  PROVE  RegistryInOrder'
<1>1. /\ services \in Seq(Entry) /\ Len(services) \in Nat /\ Len(services) <= RegistrySize
      /\ done \in Nat /\ done <= Len(services)
  BY RegistryFacts
<1>2. name \in Name
  BY BuiltinNames
<1>3. /\ r \in Seq(Entry) /\ Len(services) <= Len(r)
      /\ \A i \in 1..Len(services) : r[i] = services[i]
      /\ Len(r) = Len(services) \/ /\ Len(r) = Len(services) + 1
                                   /\ r[Len(r)] = [name |-> name, handler |-> name, sla |-> DefaultSla]
  <2>1. Appended(services, r, [name |-> name, handler |-> name, sla |-> DefaultSla])
    BY <1>1, <1>2, RegisterIs, DefaultSlaType
  <2> QED BY <2>1 DEF Appended
<1>4. Len(r) \in Nat /\ \A i \in 1..Len(r) : i \in 1..Len(services) \/ i = Len(r)
  BY <1>1, <1>3
<1>5. done = Len(config.services)
  BY DEF BootInv, RegistryInOrder
<1>6. \A i \in 1..done : i \in 1..Len(services) /\ services[i] = ConfiguredEntry(i)
  BY <1>1 DEF BootInv, RegistryInOrder
<1>7. \A i \in 1..done : r[i] = ConfiguredEntry(i)
  BY <1>3, <1>6
<1>8. ASSUME NEW i \in 1..Len(r), i > done
      PROVE  r[i].name \in Range(Builtin) /\ r[i].handler = r[i].name
  <2>1. CASE i \in 1..Len(services)
    BY <1>3, <1>8, <2>1 DEF BootInv, RegistryInOrder
  <2>2. CASE i = Len(r) /\ Len(r) = Len(services) + 1
    BY <1>3, <1>1, <2>2
  <2> QED BY <1>1, <1>3, <1>4, <2>1, <2>2
<1>9. done <= Len(r) /\ pc' \notin Steps \ (AfterRegistry \cup {"returned"}) /\ pc' # "services"
  BY <1>1, <1>3, <1>4
<1>10. \A i \in 1..done : r[i] = ConfiguredEntry(i)'
  BY <1>7 DEF ConfiguredEntry, ConfiguredSla
<1> QED BY <1>5, <1>8, <1>9, <1>10 DEF RegistryInOrder

LEMMA StepRegistry == BootInv /\ [Next]_vars => RegistryInOrder'
<1> SUFFICES ASSUME BootInv, [Next]_vars PROVE RegistryInOrder'
  OBVIOUS
<1> USE DEF Step, Makes, Starts, Fails
<1>1. /\ pc \in Steps \ (AfterRegistry \cup {"returned"}) => done = 0 /\ services = << >>
      /\ pc \in AfterRegistry \ {"services"} => done = Len(config.services)
      /\ "disc_tx" \in running => done = Len(config.services)
      /\ pc = "services" => Len(services) = done
  BY DEF BootInv, RegistryInOrder
<1>2. CASE RegisterEcho /\ UNCHANGED done
  BY <1>2, OwnRegistered, BuiltinNames DEF RegisterEcho, AfterRegistry, Steps
<1>3. CASE RegisterOta /\ UNCHANGED done
  BY <1>3, OwnRegistered, BuiltinNames DEF RegisterOta, AfterRegistry, Steps
<1>4. CASE (ceell_net_setup \/ ceell_identity_init) /\ UNCHANGED done
  BY <1>1, <1>4, RegistryKept DEF ceell_net_setup, ceell_identity_init, AfterRegistry, Steps
<1>5. CASE (ceell_timing_init \/ ceell_health_init \/ ceell_safe_state_init) /\ UNCHANGED done
  BY <1>1, <1>5, RegistryKept DEF ceell_timing_init, ceell_health_init, ceell_safe_state_init,
     AfterRegistry, Steps
<1>6. CASE (ceell_discovery_init \/ ceell_discovery_start) /\ UNCHANGED done
  BY <1>1, <1>6, RegistryKept DEF ceell_discovery_init, ceell_discovery_start, AfterRegistry, Steps
<1>7. CASE (ceell_messaging_init \/ ceell_ota_init) /\ UNCHANGED done
  BY <1>1, <1>7, RegistryKept DEF ceell_messaging_init, ceell_ota_init, AfterRegistry, Steps,
     MsgThreads
<1>8. CASE (LoadConfig \/ ceell_service_init) /\ UNCHANGED done
  <2>1. done = 0 /\ services' = << >> /\ done' = 0 /\ running' = running
    BY <1>1, <1>8 DEF LoadConfig, ceell_service_init, AfterRegistry, Steps
  <2>2. pc' \in {"net", "services"} /\ pc \notin Announcing
    BY <1>8 DEF LoadConfig, ceell_service_init, Announcing, AfterMessaging
  <2>3. "disc_tx" \notin running'
    BY <2>1, <2>2 DEF BootInv, StartedInTime
  <2>4. Len(services') = 0 /\ \A i \in 1..0 : FALSE
    BY <2>1
  <2>5. pc' \notin AfterRegistry \ {"services"}
    BY <2>2 DEF AfterRegistry
  <2> QED BY <2>1, <2>3, <2>4, <2>5 DEF RegistryInOrder
<1>9. CASE RegisterConfigured
  <2>1. CASE done = Len(config.services) /\ Step("services", "echo") /\ UNCHANGED <<services, done>>
    BY <1>1, <1>9, <2>1, RegistryKept DEF RegisterConfigured, AfterRegistry, Steps
  <2>2. ASSUME done < Len(config.services), Step("services", "services"), done' = done + 1,
               NEW r, r = Register(services, config.services[done + 1], NoHandler,
                                   ConfiguredSla(done + 1)),
               services' = r
        PROVE  RegistryInOrder'
    <3> DEFINE name == config.services[done + 1]
               sla == ConfiguredSla(done + 1)
    <3>1. /\ services \in Seq(Entry) /\ Len(services) \in Nat /\ Len(services) <= RegistrySize
          /\ done \in Nat /\ Len(config.services) \in Nat /\ Len(config.services) <= RegistrySize
          /\ config.services \in Seq(Name)
      BY RegistryFacts
    <3>2. done + 1 \in 1..Len(config.services)
      BY <2>2, <3>1
    <3>3. name \in Name /\ sla \in SlaType
      BY <3>1, <3>2, RegistryFacts
    <3>4. Len(services) = done /\ Len(services) < RegistrySize
      BY <1>1, <2>2, <3>1, Sizes
    <3>5. /\ r \in Seq(Entry) /\ Len(services) <= Len(r)
          /\ \A i \in 1..Len(services) : r[i] = services[i]
          /\ Len(r) = Len(services) \/ /\ Len(r) = Len(services) + 1
                                       /\ r[Len(r)] = [name |-> name, handler |-> NoHandler, sla |-> sla]
          /\ Len(services) < RegistrySize => Len(r) = Len(services) + 1
      <4>1. NoHandler \in Range(Builtin) \cup {NoHandler} /\ r = Register(services, name, NoHandler, sla)
        BY <2>2
      <4> HIDE DEF name, sla
      <4>2. Appended(services, r, [name |-> name, handler |-> NoHandler, sla |-> sla])
        BY <3>1, <3>3, <4>1, RegisterIs
      <4> QED BY <4>2 DEF Appended
    <3>6. Len(r) = done + 1 /\ r[done + 1] = ConfiguredEntry(done + 1)
      BY <3>1, <3>4, <3>5 DEF ConfiguredEntry
    <3>7. ASSUME NEW i \in 1..(done + 1)
          PROVE  r[i] = ConfiguredEntry(i)
      <4>1. CASE i = done + 1
        BY <3>6, <4>1
      <4>2. CASE i \in 1..done
        BY <3>4, <3>5, <4>2 DEF BootInv, RegistryInOrder
      <4> QED BY <3>1, <4>1, <4>2
    <3>8. \A i \in 1..(done + 1) : r[i] = ConfiguredEntry(i)'
      BY <1>9, <3>7 DEF RegisterConfigured, ConfiguredEntry, ConfiguredSla
    <3>9. pc' = "services" /\ "disc_tx" \notin running'
      BY <1>9, <2>2 DEF RegisterConfigured, BootInv, StartedInTime, Announcing, AfterMessaging
    <3>10. \A i \in 1..Len(r) : ~ (i > done + 1)
      BY <3>1, <3>6
    <3> QED BY <2>2, <3>1, <3>6, <3>8, <3>9, <3>10 DEF RegistryInOrder, AfterRegistry, Steps
  <2>3. \E r : r = Register(services, config.services[done + 1], NoHandler, ConfiguredSla(done + 1))
    OBVIOUS
  <2> QED BY <1>9, <2>1, <2>2, <2>3 DEF RegisterConfigured
<1>10. CASE Next /\ ~ MainStep
  <2>1. UNCHANGED main
    BY <1>10 DEF Next, TxRead, TxSend, RxPacket, Dispatch, Handle, LifecycleTick
  <2> QED BY <1>1, <2>1, RegistryKept DEF main
<1>11. CASE UNCHANGED vars
  BY <1>1, <1>11, RegistryKept DEF vars, main
<1> QED BY <1>2, <1>3, <1>4, <1>5, <1>6, <1>7, <1>8, <1>9, <1>10, <1>11 DEF MainStep

\* Once the announcer runs, the configuration stands and the registry only grows.
LEMMA RegistryGrows ==
  ASSUME BootInv, MainStep, "disc_tx" \in running
  PROVE  /\ config' = config /\ Len(services) <= Len(services')
         /\ \A i \in 1..Len(services) : services'[i] = services[i]
<1>1. pc \in Announcing
  BY DEF BootInv, StartedInTime
<1>2. /\ services \in Seq(Entry) /\ Len(services) \in Nat /\ Len(services) <= RegistrySize
  BY RegistryFacts
<1>3. ceell_messaging_init \/ RegisterOta \/ ceell_ota_init
  BY <1>1 DEF MainStep, Announcing, AfterMessaging, Step, RegisterConfigured, LoadConfig, ceell_net_setup,
     ceell_identity_init, ceell_service_init, RegisterEcho, ceell_timing_init, ceell_health_init,
     ceell_safe_state_init, ceell_discovery_init, ceell_discovery_start
<1>4. CASE ceell_messaging_init \/ ceell_ota_init
  <2>1. services' = services /\ config' = config
    BY <1>4 DEF ceell_messaging_init, ceell_ota_init
  <2> QED BY <1>2, <2>1
<1>5. CASE RegisterOta
  <2>1. PICK name, r : name = "ota" /\ r = Register(services, name, name, DefaultSla)
    OBVIOUS
  <2>2. services' = r /\ config' = config
    BY <1>5, <2>1 DEF RegisterOta
  <2>3. name \in Name /\ name \in Range(Builtin) \cup {NoHandler}
    BY <2>1, BuiltinNames
  <2>4. Appended(services, r, [name |-> name, handler |-> name, sla |-> DefaultSla])
    BY <1>2, <2>1, <2>3, RegisterIs, DefaultSlaType
  <2> QED BY <2>2, <2>4 DEF Appended
<1> QED BY <1>3, <1>4, <1>5

LEMMA StepCsvs == BootInv /\ [Next]_vars => CsvsInOrder'
<1> SUFFICES ASSUME BootInv, [Next]_vars PROVE CsvsInOrder'
  OBVIOUS
<1>1. /\ services \in Seq(Entry) /\ Len(services) \in Nat /\ done \in Nat /\ done <= Len(services)
      /\ config.services \in Seq(Name)
  BY RegistryFacts
<1>2. \A csv \in sent \cup {svc_csv} : csv \in Seq(Name)
  BY DEF BootInv, TypeOK
<1>3. /\ << >> \notin sent
      /\ \A csv \in sent \cup {svc_csv} : csv # << >> =>
           /\ Len(config.services) <= Len(csv) /\ Len(csv) <= Len(services)
           /\ \A i \in 1..Len(csv) : csv[i] = services[i].name
  BY DEF BootInv, CsvsInOrder
<1>4. CASE MainStep
  <2>1. UNCHANGED <<sent, svc_csv>>
    BY <1>4 DEF MainStep
  <2>2. CASE "disc_tx" \notin running
    BY <2>1, <2>2 DEF BootInv, StartedInTime, CsvsInOrder
  <2>3. CASE "disc_tx" \in running
    <3>1. PICK r : r = services'
      OBVIOUS
    <3>2. config' = config /\ Len(services) <= Len(r) /\ \A i \in 1..Len(services) : r[i] = services[i]
      BY <1>4, <2>3, <3>1, RegistryGrows
    <3> QED BY <1>1, <1>2, <1>3, <2>1, <3>1, <3>2 DEF CsvsInOrder
  <2> QED BY <2>2, <2>3
<1>5. CASE TxRead
  <2>1. done = Len(config.services)
    BY <1>5 DEF TxRead, BootInv, RegistryInOrder
  <2>2. Len(Names) = Len(services) /\ \A i \in 1..Len(Names) : Names[i] = services[i].name
    BY <1>1 DEF Names
  <2>3. svc_csv' = Names /\ UNCHANGED <<services, config, sent>>
    BY <1>5 DEF TxRead, main
  <2> QED BY <1>1, <1>3, <2>1, <2>2, <2>3 DEF CsvsInOrder
<1>6. CASE TxSend
  BY <1>3, <1>6 DEF TxSend, main, CsvsInOrder
<1>7. CASE RxPacket \/ Dispatch \/ LifecycleTick \/ \E n \in Name, c \in {"check", "other"} : Handle(n, c)
  BY <1>3, <1>7 DEF RxPacket, Dispatch, Handle, LifecycleTick, main, CsvsInOrder
<1>8. CASE UNCHANGED vars
  BY <1>3, <1>8 DEF vars, main, CsvsInOrder
<1> QED BY <1>4, <1>5, <1>6, <1>7, <1>8 DEF Next

LEMMA ConfigFits ==
  ASSUME NEW image \in Image, NEW c, c = Defaults \/ c = ceell_config_load(image)
  PROVE  c.version \in 0..2 /\ c.services \in Seq(Name) /\ Len(c.services) <= MaxServices
<1>1. CASE c = Defaults
  <2>1. << >> \in Seq(Name) /\ Len(<< >>) = 0
    OBVIOUS
  <2> QED BY <1>1, <2>1, Sizes DEF Defaults
<1>2. CASE c = ceell_config_load(image)
  BY <1>2, LoadedConfig
<1> QED BY <1>1, <1>2

LEMMA StepServices ==
  ASSUME BootInv, [Next]_vars
  PROVE  services' \in Seq(Entry) /\ Len(services') <= RegistrySize
<1>1. /\ services \in Seq(Entry) /\ Len(services) \in Nat /\ Len(services) <= RegistrySize
      /\ done \in Nat /\ config.services \in Seq(Name)
  BY RegistryFacts
<1>2. ASSUME NEW name \in Name, NEW handler \in Range(Builtin) \cup {NoHandler}, NEW sla \in SlaType,
             NEW r, r = Register(services, name, handler, sla)
      PROVE  r \in Seq(Entry) /\ Len(r) <= RegistrySize
  <2>1. Appended(services, r, [name |-> name, handler |-> handler, sla |-> sla])
    BY <1>1, <1>2, RegisterIs
  <2> QED BY <2>1 DEF Appended
<1>3. CASE RegisterEcho \/ RegisterOta
  <2>1. PICK name \in Range(Builtin) : services' = Register(services, name, name, DefaultSla)
    BY <1>3, BuiltinNames DEF RegisterEcho, RegisterOta
  <2> QED BY <1>2, <2>1, BuiltinNames, DefaultSlaType
<1>4. CASE RegisterConfigured
  <2>1. CASE services' = services
    BY <1>1, <2>1
  <2>2. CASE done < Len(config.services) /\
             services' = Register(services, config.services[done + 1], NoHandler, ConfiguredSla(done + 1))
    <3>1. done + 1 \in 1..Len(config.services)
      BY <1>1, <2>2
    <3>2. config.services[done + 1] \in Name /\ ConfiguredSla(done + 1) \in SlaType
      BY <1>1, <3>1, RegistryFacts
    <3>3. PICK name \in Name, sla \in SlaType : services' = Register(services, name, NoHandler, sla)
      BY <2>2, <3>2
    <3> QED BY <1>2, <3>3
  <2> QED BY <1>4, <2>1, <2>2 DEF RegisterConfigured
<1>5. CASE ceell_service_init
  <2>1. << >> \in Seq(Entry) /\ Len(<< >>) = 0
    OBVIOUS
  <2> QED BY <1>5, <2>1, Sizes DEF ceell_service_init
<1>6. ASSUME MainStep, ~ RegisterEcho, ~ RegisterOta, ~ RegisterConfigured, ~ ceell_service_init
      PROVE  services' = services
  BY <1>6 DEF MainStep, LoadConfig, ceell_net_setup, ceell_identity_init, ceell_timing_init,
     ceell_health_init, ceell_safe_state_init, ceell_discovery_init, ceell_discovery_start,
     ceell_messaging_init, ceell_ota_init
<1>7. ASSUME Next, ~ MainStep
      PROVE  services' = services
  BY <1>7 DEF Next, TxRead, TxSend, RxPacket, Dispatch, Handle, LifecycleTick, main
<1>8. UNCHANGED vars => services' = services
  BY DEF vars, main
<1> QED BY <1>1, <1>3, <1>4, <1>5, <1>6, <1>7, <1>8

LEMMA StepPc ==
  ASSUME BootInv, [Next]_vars
  PROVE  /\ pc' \in Steps /\ identity' \in BOOLEAN /\ flash' \in Image
         /\ ready' \subseteq Objects /\ running' \subseteq Threads
         /\ failed' \subseteq Fatal \cup {"health", "safe", "ota"}
<1>1. /\ pc \in Steps /\ identity \in BOOLEAN /\ flash \in Image
      /\ ready \subseteq Objects /\ running \subseteq Threads
      /\ failed \subseteq Fatal \cup {"health", "safe", "ota"}
  BY DEF BootInv, TypeOK
<1> USE DEF Step, Fails, Makes, Starts
<1>2. CASE MainStep
  <2>1. flash' \in Image
    BY <1>1, <1>2 DEF MainStep
  <2>2. CASE RegisterConfigured \/ LoadConfig \/ ceell_identity_init
    BY <1>1, <2>1, <2>2 DEF RegisterConfigured, LoadConfig, ceell_identity_init, Steps
  <2>3. CASE ceell_net_setup
    BY <1>1, <2>1, <2>3 DEF ceell_net_setup, Steps, Fatal
  <2>4. CASE ceell_service_init \/ RegisterEcho \/ ceell_timing_init
    BY <1>1, <2>1, <2>4 DEF ceell_service_init, RegisterEcho, ceell_timing_init, Steps, Objects
  <2>5. CASE ceell_health_init \/ ceell_safe_state_init
    BY <1>1, <2>1, <2>5 DEF ceell_health_init, ceell_safe_state_init, Steps, Objects
  <2>6. CASE ceell_discovery_init \/ ceell_discovery_start
    BY <1>1, <2>1, <2>6 DEF ceell_discovery_init, ceell_discovery_start, Steps, Objects, Threads, Fatal
  <2>7. CASE ceell_messaging_init
    BY <1>1, <2>1, <2>7 DEF ceell_messaging_init, Steps, Objects, Threads, Fatal, MsgObjects, MsgThreads
  <2>8. CASE RegisterOta \/ ceell_ota_init
    BY <1>1, <2>1, <2>8 DEF RegisterOta, ceell_ota_init, Steps, Objects, Threads
  <2> QED BY <1>2, <2>2, <2>3, <2>4, <2>5, <2>6, <2>7, <2>8 DEF MainStep
<1>3. ASSUME Next, ~ MainStep
      PROVE  UNCHANGED main
  BY <1>3 DEF Next, TxRead, TxSend, RxPacket, Dispatch, Handle, LifecycleTick
<1>4. UNCHANGED vars => UNCHANGED main
  BY DEF vars
<1>5. CASE UNCHANGED main
  BY <1>1, <1>5 DEF main
<1> QED BY <1>2, <1>3, <1>4, <1>5

LEMMA StepEarly ==
  ASSUME BootInv, [Next]_vars
  PROVE  early' \subseteq (Threads \cup {"main"}) \X Objects
<1>1. early \subseteq (Threads \cup {"main"}) \X Objects
  BY DEF BootInv, TypeOK
<1>2. ASSUME NEW thread \in Threads \cup {"main"}, NEW objects \in SUBSET Objects, Uses(thread, objects)
      PROVE  early' \subseteq (Threads \cup {"main"}) \X Objects
  BY <1>1, <1>2 DEF Uses
<1>3. CASE TxRead
  BY <1>2, <1>3 DEF TxRead, Threads, Objects
<1>4. CASE TxSend
  BY <1>2, <1>4 DEF TxSend, Threads, Objects
<1>5. CASE RxPacket
  BY <1>2, <1>5 DEF RxPacket, Threads, Objects
<1>6. CASE Dispatch
  BY <1>2, <1>6 DEF Dispatch, Threads, Objects
<1>7. ASSUME NEW n \in Name, NEW c \in {"check", "other"}, Handle(n, c)
      PROVE  early' \subseteq (Threads \cup {"main"}) \X Objects
  <2>1. {"msgqs", "svc_mutex", "msg_sock"} \cup Serving(Handler(n), c) \in SUBSET Objects
    BY DEF Serving, Objects
  <2>2. "msg_handler" \in Threads
    BY DEF Threads
  <2> QED BY <1>2, <1>7, <2>1, <2>2 DEF Handle
<1>8. CASE LifecycleTick
  BY <1>2, <1>8 DEF LifecycleTick, Objects
<1>9. CASE MainStep \/ UNCHANGED vars
  BY <1>1, <1>9 DEF MainStep, vars
<1> QED BY <1>3, <1>4, <1>5, <1>6, <1>7, <1>8, <1>9 DEF Next

LEMMA StepDone ==
  ASSUME BootInv, [Next]_vars
  PROVE  done' \in 0..Len(config'.services)
<1>1. done \in 0..Len(config.services) /\ done \in Nat /\ config.services \in Seq(Name)
  BY RegistryFacts DEF BootInv, TypeOK
<1>2. CASE LoadConfig /\ UNCHANGED done
  <2>1. done' = 0
    BY <1>2 DEF LoadConfig, Step, BootInv, RegistryInOrder, AfterRegistry, Steps
  <2>2. PICK c : c = config'
    OBVIOUS
  <2>3. c = ceell_config_load(flash) /\ flash \in Image
    BY <1>2, <2>2 DEF LoadConfig, BootInv, TypeOK
  <2>4. c.services \in Seq(Name)
    BY <2>3, ConfigFits
  <2>5. Len(c.services) \in Nat
    BY <2>4
  <2> QED BY <2>1, <2>2, <2>5
<1>3. CASE RegisterConfigured
  BY <1>1, <1>3 DEF RegisterConfigured
<1>4. ASSUME MainStep, ~ LoadConfig, ~ RegisterConfigured
      PROVE  done' = done /\ config' = config
  BY <1>4 DEF MainStep, ceell_net_setup, ceell_identity_init, ceell_service_init, RegisterEcho,
     ceell_timing_init, ceell_health_init, ceell_safe_state_init, ceell_discovery_init,
     ceell_discovery_start, ceell_messaging_init, RegisterOta, ceell_ota_init
<1>5. ASSUME Next, ~ MainStep
      PROVE  done' = done /\ config' = config
  BY <1>5 DEF Next, TxRead, TxSend, RxPacket, Dispatch, Handle, LifecycleTick, main
<1>6. UNCHANGED vars => done' = done /\ config' = config
  BY DEF vars, main
<1> QED BY <1>1, <1>2, <1>3, <1>4, <1>5, <1>6 DEF MainStep

LEMMA StepCsvTypes ==
  ASSUME BootInv, [Next]_vars
  PROVE  \A csv \in sent' \cup {svc_csv'} : csv \in Seq(Name) /\ Len(csv) <= RegistrySize
<1>1. \A csv \in sent \cup {svc_csv} : csv \in Seq(Name) /\ Len(csv) <= RegistrySize
  BY DEF BootInv, TypeOK
<1>2. CASE TxRead
  <2>1. services \in Seq(Entry) /\ Len(services) <= RegistrySize
    BY RegistryFacts
  <2>2. \A i \in 1..Len(services) : services[i].name \in Name
    <3>1. \A i \in 1..Len(services) : services[i] \in Entry
      BY <2>1
    <3>2. \A e \in Entry : e.name \in Name
      BY DEF Entry
    <3> QED BY <3>1, <3>2
  <2>3. Names = [i \in 1..Len(services) |-> services[i].name] /\ Len(services) \in Nat
    BY <2>1 DEF Names
  <2>4. Names \in Seq(Name) /\ Len(Names) <= RegistrySize
    BY <2>1, <2>2, <2>3
  <2> QED BY <1>1, <1>2, <2>4 DEF TxRead
<1>3. CASE TxSend
  <2>1. << >> \in Seq(Name) /\ Len(<< >>) <= RegistrySize
    BY Sizes
  <2> QED BY <1>1, <1>3, <2>1 DEF TxSend
<1>4. ASSUME Next, ~ TxRead, ~ TxSend
      PROVE  UNCHANGED <<sent, svc_csv>>
  BY <1>4 DEF Next, MainStep, RxPacket, Dispatch, Handle, LifecycleTick
<1>5. UNCHANGED vars => UNCHANGED <<sent, svc_csv>>
  BY DEF vars
<1> QED BY <1>1, <1>2, <1>3, <1>4, <1>5

LEMMA StepTypes == BootInv /\ [Next]_vars => TypeOK'
<1> SUFFICES ASSUME BootInv, [Next]_vars PROVE TypeOK'
  OBVIOUS
<1>1. Configured'
  BY StepConfigured
<1>2. /\ pc' \in Steps /\ identity' \in BOOLEAN /\ flash' \in Image
      /\ ready' \subseteq Objects /\ running' \subseteq Threads
      /\ failed' \subseteq Fatal \cup {"health", "safe", "ota"}
  BY StepPc
<1>3. PICK c, image : c = config' /\ image = flash'
  OBVIOUS
<1>4. c = Defaults \/ c = ceell_config_load(image)
  BY <1>1, <1>3 DEF Configured, ceell_config_load, JsonParses
<1>5. c.version \in 0..2 /\ c.services \in Seq(Name) /\ Len(c.services) <= MaxServices
  BY <1>2, <1>3, <1>4, ConfigFits
<1>6. services' \in Seq(Entry) /\ Len(services') <= RegistrySize
  BY StepServices
<1>7. early' \subseteq (Threads \cup {"main"}) \X Objects
  BY StepEarly
<1>8. done' \in 0..Len(config'.services)
  BY StepDone
<1>9. \A csv \in sent' \cup {svc_csv'} : csv \in Seq(Name) /\ Len(csv) <= RegistrySize
  BY StepCsvTypes
<1> QED BY <1>2, <1>3, <1>5, <1>6, <1>7, <1>8, <1>9 DEF TypeOK

LEMMA BootInvariant == Spec => []BootInv
<1>1. Init => BootInv
  BY BootInit
<1>2. BootInv /\ [Next]_vars => BootInv'
  BY StepTypes, StepMade, StepStarted, StepConfigured, StepRegistry, StepCsvs, StepReady DEF BootInv
<1> QED BY <1>1, <1>2, PTL DEF Spec

-----------------------------------------------------------------------------
(* The theorems. *)

\* Types, and what fits: the configuration its table, the registry its array, and every
\* list that is announced the registry (config_parser.c, service_registry.c, discovery.c).
THEOREM BootTypeCorrect == Spec => []TypeOK
<1>1. BootInv => TypeOK
  BY DEF BootInv
<1> QED BY <1>1, BootInvariant, PTL

\* Whatever fails, no thread uses what main has not made: the threads are started after
\* their sockets, queues and mutexes (main.c, discovery.c, messaging.c), but for the
\* semaphore of the OTA thread.
THEOREM NothingIsUsedEarly == Spec => []ReadyBeforeUse
<1>1. BootInv => ReadyBeforeUse
  BY DEF BootInv
<1> QED BY <1>1, BootInvariant, PTL

\* Every announcement that was sent starts with all the configured services, in order.
THEOREM ConfigurationIsAnnounced == Spec => []AnnouncesItsConfig
<1>1. ASSUME BootInv PROVE AnnouncesItsConfig
  <2> SUFFICES ASSUME NEW csv \in sent
               PROVE  IsPrefix(config.services, csv)
    BY DEF AnnouncesItsConfig
  <2>1. csv \in Seq(Name) /\ config.services \in Seq(Name)
    BY <1>1 DEF BootInv, TypeOK
  <2>2. "disc_tx" \in running /\ csv # << >>
    BY <1>1 DEF BootInv, StartedInTime, CsvsInOrder
  <2>3. done = Len(config.services) /\ \A i \in 1..done : services[i] = ConfiguredEntry(i)
    BY <1>1, <2>2 DEF BootInv, RegistryInOrder
  <2>4. Len(config.services) <= Len(csv) /\ \A i \in 1..Len(csv) : csv[i] = services[i].name
    BY <1>1, <2>2 DEF BootInv, CsvsInOrder
  <2>5. ASSUME NEW i \in 1..Len(config.services)
        PROVE  config.services[i] = csv[i]
    <3>1. i \in 1..done /\ i \in 1..Len(csv)
      BY <2>1, <2>3, <2>4
    <3>2. services[i] = ConfiguredEntry(i)
      BY <2>3, <3>1
    <3>3. services[i].name = config.services[i]
      BY <3>2 DEF ConfiguredEntry
    <3> QED BY <2>4, <3>1, <3>3
  <2> QED BY <2>1, <2>4, <2>5 DEF IsPrefix
<1> QED BY <1>1, BootInvariant, PTL

\* The first entry of a name in the registry.
LEMMA FirstEntry ==
  ASSUME BootInv, NEW name, EntriesOf(name) # {}
  PROVE  LET first == Min(EntriesOf(name))
         IN  /\ first \in 1..Len(services) /\ services[first].name = name
             /\ \A i \in 1..Len(services) : services[i].name = name => first <= i
<1> DEFINE S == EntriesOf(name)
<1>1. services \in Seq(Entry)
  BY RegistryFacts
<1>2. S = {i \in 1..Len(services) : services[i].name = name} /\ S \in SUBSET Nat
  BY <1>1 DEF EntriesOf
<1>3. Min(S) \in S /\ \A i \in S : Min(S) <= i
  <2> HIDE DEF S
  <2> QED BY <1>2, SmallestIs DEF S
<1> HIDE DEF S
<1> QED BY <1>2, <1>3 DEF S

\* A configured name is found among the configured entries, at its first place.
LEMMA ConfiguredIsFirst ==
  ASSUME BootInv, NEW name \in Range(config.services), EntriesOf(name) # {}
  PROVE  LET first == Min(EntriesOf(name))
         IN  /\ first \in 1..Len(config.services) /\ config.services[first] = name
             /\ services[first] = ConfiguredEntry(first)
             /\ \A l \in 1..Len(config.services) : config.services[l] = name => first <= l
<1> DEFINE first == Min(EntriesOf(name))
<1>1. /\ first \in 1..Len(services) /\ services[first].name = name
      /\ \A i \in 1..Len(services) : services[i].name = name => first <= i
  BY FirstEntry
<1> HIDE DEF first
<1>2. /\ services \in Seq(Entry) /\ Len(services) \in Nat /\ config.services \in Seq(Name)
      /\ Len(config.services) \in Nat
      /\ done \in Nat /\ done <= Len(services) /\ done <= Len(config.services)
  BY RegistryFacts
<1>3. /\ Len(services) = done \/ done = Len(config.services)
      /\ \A i \in 1..done : services[i] = ConfiguredEntry(i)
  BY DEF BootInv, RegistryInOrder
<1>4. ASSUME NEW i \in 1..done
      PROVE  i \in 1..Len(services) /\ services[i].name = config.services[i]
  <2>1. services[i] = ConfiguredEntry(i)
    BY <1>3
  <2> QED BY <1>2, <2>1 DEF ConfiguredEntry
<1>5. PICK k \in 1..Len(config.services) : config.services[k] = name
  BY <1>2 DEF Range
<1>6. first \in 1..done
  <2>1. CASE k <= done
    <3>1. k \in 1..done
      BY <1>2, <1>5, <2>1
    <3>2. first <= k
      BY <1>1, <1>4, <1>5, <3>1
    <3> QED BY <1>1, <1>2, <3>1, <3>2
  <2>2. CASE ~ (k <= done)
    <3>1. Len(services) = done
      BY <1>2, <1>3, <1>5, <2>2
    <3> QED BY <1>1, <3>1
  <2> QED BY <2>1, <2>2
<1>7. first \in 1..Len(config.services) /\ config.services[first] = name
  BY <1>1, <1>2, <1>4, <1>6
<1>8. ASSUME NEW l \in 1..Len(config.services), config.services[l] = name
      PROVE  first <= l
  <2>1. CASE l <= done
    <3>1. l \in 1..done
      BY <1>2, <2>1
    <3> QED BY <1>1, <1>4, <1>8, <3>1
  <2>2. CASE ~ (l <= done)
    BY <1>2, <1>6, <2>2
  <2> QED BY <2>1, <2>2
<1> QED BY <1>3, <1>6, <1>7, <1>8 DEF first

\* Whatever the image skips, cuts or repeats, and in every state of the registration, a
\* lookup of a configured name returns the SLA of the first entry of the image that gives
\* that name (parse_services_v2, main's loop, ceell_service_get_priority, _get_deadline).
THEOREM SlaIsAsConfigured == Spec => []SlaAsConfigured
<1>1. ASSUME BootInv PROVE SlaAsConfigured
  <2> SUFFICES ASSUME NEW name \in Range(config.services), EntriesOf(name) # {}
               PROVE  IF flash.form = "v2"
                      THEN /\ Given(name).priority \in 0..2 =>
                                SlaOf(name).priority = Given(name).priority
                           /\ Given(name).deadline_ms \in 0..(Wide - 1) =>
                                SlaOf(name).deadline_ms = Given(name).deadline_ms
                      ELSE SlaOf(name) = DefaultSla
    BY DEF SlaAsConfigured
  <2> DEFINE first == Min(EntriesOf(name))
  <2>1. /\ first \in 1..Len(config.services) /\ config.services[first] = name
        /\ services[first] = ConfiguredEntry(first)
        /\ \A l \in 1..Len(config.services) : config.services[l] = name => first <= l
    BY <1>1, ConfiguredIsFirst
  <2>2. SlaOf(name) = services[first].sla
    BY DEF SlaOf
  <2> HIDE DEF first
  <2>3. SlaOf(name) = ConfiguredSla(first)
    BY <2>1, <2>2 DEF ConfiguredEntry
  <2>4. flash \in Image
    BY <1>1 DEF BootInv, TypeOK
  <2>5. config = ceell_config_load(flash)
    BY <1>1, <2>1 DEF BootInv, Configured, Defaults
  <2>6. CASE flash.form = "v2"
    <3>1. /\ config.version = 2 /\ Given(config.services[first]) \in StoredEntry
          /\ config.service_slas[first] = Sla(Given(config.services[first]))
      BY <2>1, <2>4, <2>5, <2>6, LoadedSla
    <3>2. SlaOf(name) = Sla(Given(name)) /\ Given(name) \in StoredEntry
      BY <2>1, <2>3, <3>1 DEF ConfiguredSla
    <3> QED BY <2>6, <3>2, SlaIs
  <2>7. CASE flash.form # "v2"
    <3>1. config.version # 2
      BY <2>4, <2>5, <2>7, LoadedConfig
    <3> QED BY <2>3, <2>7, <3>1 DEF ConfiguredSla
  <2> QED BY <2>6, <2>7
<1> QED BY <1>1, BootInvariant, PTL

\* A request for a service that was announced finds its own handler, at every step of main
\* (RegisterEcho, RegisterOta, tx_thread_fn, ceell_service_get_handler).
THEOREM AnnouncedHasItsHandler == Spec => AnnouncedIsReached
<1> DEFINE Reached ==
      \A b \in Range(Builtin) \ Range(config.services) :
        (\E csv \in sent : b \in Range(csv)) /\ answer' # answer /\ answer'.name = b
          => answer'.handler = b
<1>1. ASSUME BootInv, [Next]_vars PROVE Reached
  <2> SUFFICES ASSUME NEW b \in Range(Builtin) \ Range(config.services),
                      NEW csv \in sent, b \in Range(csv), answer' # answer, answer'.name = b
               PROVE  answer'.handler = b
    OBVIOUS
  <2>1. answer'.handler = Handler(b)
    <3>1. PICK n \in Name, c \in {"check", "other"} : Handle(n, c)
      BY <1>1 DEF Next, MainStep, TxRead, TxSend, RxPacket, Dispatch, LifecycleTick, vars
    <3>2. answer' = [name |-> n, handler |-> Handler(n)]
      BY <3>1 DEF Handle
    <3>3. n = b
      BY <3>2
    <3> QED BY <3>2, <3>3
  <2>2. csv \in Seq(Name) /\ services \in Seq(Entry) /\ config.services \in Seq(Name)
    BY <1>1 DEF BootInv, TypeOK
  <2>3. PICK i \in 1..Len(csv) : csv[i] = b
    BY <2>2 DEF Range
  <2>4. csv # << >>
    BY <2>3
  <2>5. Len(csv) <= Len(services) /\ services[i].name = b
    BY <1>1, <2>3, <2>4 DEF BootInv, CsvsInOrder
  <2>6. i \in DOMAIN services
    BY <2>2, <2>5
  <2>7. EntriesOf(b) # {}
    BY <2>5, <2>6 DEF EntriesOf
  <2> DEFINE first == Min(EntriesOf(b))
  <2>8. first \in 1..Len(services) /\ services[first].name = b
    BY <1>1, <2>7, FirstEntry
  <2>9. Handler(b) = services[first].handler
    BY <2>7 DEF Handler
  <2> HIDE DEF first
  <2>10. done \in Nat /\ done <= Len(config.services)
    BY <1>1, RegistryFacts
  <2>11. first > done
    <3> SUFFICES ASSUME first \in 1..done PROVE FALSE
      BY <2>8, <2>10
    <3>1. services[first] = ConfiguredEntry(first)
      BY <1>1 DEF BootInv, RegistryInOrder
    <3>2. config.services[first] = b
      BY <2>8, <3>1 DEF ConfiguredEntry
    <3>3. first \in DOMAIN config.services
      BY <2>2, <2>10
    <3> QED BY <3>2, <3>3 DEF Range
  <2>12. services[first].handler = services[first].name
    BY <1>1, <2>8, <2>11 DEF BootInv, RegistryInOrder
  <2> QED BY <2>1, <2>8, <2>9, <2>12
<1>2. BootInv /\ [Next]_vars => [Reached]_vars
  BY <1>1
<1> QED BY <1>2, BootInvariant, PTL DEF Spec, AnnouncedIsReached
=============================================================================
