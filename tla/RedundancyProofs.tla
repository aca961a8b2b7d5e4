-------------------------- MODULE RedundancyProofs --------------------------
(***************************************************************************)
(* Theorems about Redundancy, for every ring size, set of messages, number *)
(* of copies and reliability of the paths.                                 *)
(***************************************************************************)
EXTENDS Redundancy, TLAPS

(***************************************************************************)
(* The arithmetic of the ring: stepping the head, and looking back from    *)
(* the head before and after the step.                                     *)
(***************************************************************************)

\* Stepping the head keeps it a slot of the ring.
LEMMA NextHead ==
  ASSUME NEW N \in Nat \ {0}, NEW h \in 0..(N - 1)
  PROVE  (h + 1) % N = IF h + 1 = N THEN 0 ELSE h + 1
  BY SMT

\* The slot i places back from the head, without the remainder.
LEMMA Back ==
  ASSUME NEW N \in Nat \ {0}, NEW h \in 0..(N - 1), NEW i \in 1..N
  PROVE  (h - i + N) % N = IF i <= h THEN h - i ELSE h - i + N
  <1>1. CASE i <= h
    <2>1. h - i + N \in N..(2 * N - 1) BY <1>1
    <2>2. QED BY <1>1, <2>1, SMT
  <1>2. CASE i > h
    <2>1. h - i + N \in 0..(N - 1) BY <1>2
    <2>2. QED BY <1>2, <2>1, SMT
  <1>3. QED BY <1>1, <1>2

\* After a step the slot just written is the most recent one, and what was i back
\* is i + 1 back, in a slot that was not written.
LEMMA BackAfterStep ==
  ASSUME NEW N \in Nat \ {0}, NEW h \in 0..(N - 1)
  PROVE  LET g == (h + 1) % N
         IN  /\ g \in 0..(N - 1)
             /\ (g - 1 + N) % N = h
             /\ \A i \in 1..(N - 1) : /\ (g - (i + 1) + N) % N = (h - i + N) % N
                                      /\ (h - i + N) % N # h
  <1> DEFINE g == (h + 1) % N
  <1>1. g = IF h + 1 = N THEN 0 ELSE h + 1 BY NextHead
  <1>2. g \in 0..(N - 1) BY <1>1
  <1>3. (g - 1 + N) % N = IF 1 <= g THEN g - 1 ELSE g - 1 + N BY <1>2, Back
  <1>4. ASSUME NEW i \in 1..(N - 1)
        PROVE  (g - (i + 1) + N) % N = (h - i + N) % N /\ (h - i + N) % N # h
    <2>1. (g - (i + 1) + N) % N = IF i + 1 <= g THEN g - (i + 1) ELSE g - (i + 1) + N
      <3>1. i + 1 \in 1..N OBVIOUS
      <3>2. QED BY <1>2, <3>1, Back
    <2>2. (h - i + N) % N = IF i <= h THEN h - i ELSE h - i + N BY Back
    <2> HIDE DEF g
    <2>3. QED BY <1>1, <2>1, <2>2
  <1> HIDE DEF g
  <1>5. (g - 1 + N) % N = h BY <1>1, <1>3
  <1>6. QED BY <1>2, <1>4, <1>5 DEF g

(***************************************************************************)
(* Types.                                                                  *)
(***************************************************************************)

LEMMA Sends ==
  ASSUME NEW first \in Sendto("primary"), NEW second \in SecondarySend
  PROVE  first.copies \in 0..Copies /\ second.copies \in 0..Copies
  <1>1. NotSent.copies = 0 BY DEF NotSent
  <1>2. ASSUME NEW p \in Path, NEW s \in Sendto(p) PROVE s.copies \in 0..Copies
    <2>1. CASE s = NotSent BY <1>1, <2>1, CopiesPositive
    <2>2. CASE s \in [ok : {TRUE}, copies : 0..Copies] BY <2>2
    <2>3. CASE s \in [ok : {TRUE}, copies : 1..Copies]
      <3>1. s.copies \in 1..Copies BY <2>3
      <3>2. QED BY <3>1, CopiesPositive
    <2>4. QED BY <1>2, <2>1, <2>2, <2>3 DEF Sendto
  <1>3. first.copies \in 0..Copies BY <1>2 DEF Path
  <1>4. second = NotSent \/ second \in Sendto("secondary") BY DEF SecondarySend
  <1>5. second.copies \in 0..Copies BY <1>1, <1>2, <1>4, CopiesPositive DEF Path
  <1>6. QED BY <1>3, <1>5

LEMMA TypeInit == Init => TypeOK
  BY RingSizePositive, CopiesPositive DEF Init, TypeOK

LEMMA TypeCheck ==
  ASSUME TypeOK, NEW m \in Message, ceell_msg_dedup_check(m)
  PROVE  /\ dedup_ring' \in [0..(RingSize - 1) -> Nat]
         /\ dedup_head' \in 0..(RingSize - 1)
         /\ dedup_count' \in 0..RingSize
         /\ processed' \in Seq(Message)
  <1>1. CASE UNCHANGED dedup
    BY <1>1 DEF TypeOK, dedup
  <1>2. CASE Record(m) /\ processed' = Append(processed, m)
    <2>1. m \in Nat BY MessageType
    <2>2. (dedup_head + 1) % RingSize \in 0..(RingSize - 1)
      BY RingSizePositive, BackAfterStep DEF TypeOK
    <2>3. QED BY <1>2, <2>1, <2>2, RingSizePositive DEF TypeOK, Record
  <1>3. QED BY <1>1, <1>2 DEF ceell_msg_dedup_check

LEMMA TypeStep == TypeOK /\ [Next]_vars => TypeOK'
  <1> SUFFICES ASSUME TypeOK, [Next]_vars PROVE TypeOK'
    OBVIOUS
  <1>1. CASE UNCHANGED vars
    BY <1>1 DEF TypeOK, vars, dedup
  <1>2. ASSUME NEW m \in Message, ceell_msg_redundant_send(m) PROVE TypeOK'
    <2>1. PICK first \in Sendto("primary"), second \in SecondarySend :
            /\ arriving' = [arriving EXCEPT ![m] =
                 [p \in Path |-> IF p = "primary" THEN first.copies ELSE second.copies]]
            /\ result' = [result EXCEPT ![m] = SendResult(first, second)]
      BY <1>2 DEF ceell_msg_redundant_send
    <2>2. arriving' \in [Message -> [Path -> 0..Copies]]
      BY <2>1, Sends DEF TypeOK
    <2>3. result' \in [Message -> {"unsent", "ok", "failed"}]
      BY <2>1 DEF TypeOK, SendResult
    <2>4. UNCHANGED <<reliable, secondary_sock, dedup_ring, dedup_head, dedup_count, processed>>
      BY <1>2 DEF ceell_msg_redundant_send, dedup
    <2>5. QED BY <2>2, <2>3, <2>4 DEF TypeOK
  <1>3. ASSUME NEW m \in Message, NEW p \in Path, Receive(m, p) PROVE TypeOK'
    <2>1. arriving' \in [Message -> [Path -> 0..Copies]]
      <3>1. arriving[m] \in [Path -> 0..Copies] /\ arriving[m][p] \in 0..Copies BY DEF TypeOK
      <3>2. arriving[m][p] - 1 \in 0..Copies BY <1>3, <3>1, CopiesPositive DEF Receive
      <3>3. [arriving[m] EXCEPT ![p] = @ - 1] \in [Path -> 0..Copies] BY <3>1, <3>2
      <3>4. arriving' = [arriving EXCEPT ![m] = [arriving[m] EXCEPT ![p] = @ - 1]]
        BY <1>3 DEF Receive, TypeOK
      <3>5. QED BY <3>3, <3>4 DEF TypeOK
    <2>2. UNCHANGED <<reliable, secondary_sock, result>> BY <1>3 DEF Receive
    <2>3. ceell_msg_dedup_check(m) BY <1>3 DEF Receive
    <2>4. QED BY <2>1, <2>2, <2>3, TypeCheck DEF TypeOK
  <1>4. QED BY <1>1, <1>2, <1>3 DEF Next

\* The head is always a slot of the ring, its count never more than its size.
THEOREM TypeCorrect == Spec => []TypeOK
  <1>1. QED BY TypeInit, TypeStep, PTL DEF Spec

(***************************************************************************)
(* The ring holds the latest numbers processed.                            *)
(***************************************************************************)
RingHoldsLatest ==
  /\ dedup_count = IF Len(processed) < RingSize THEN Len(processed) ELSE RingSize
  /\ \A i \in 1..dedup_count : dedup_ring[Index(i)] = processed[Len(processed) + 1 - i]

\* Searching the ring is looking through the latest numbers.
LEMMA SeenIsLatest ==
  ASSUME TypeOK, RingHoldsLatest, NEW m
  PROVE  Seen(m) <=> m \in Window!Latest(processed, RingSize)
  <1> DEFINE L == Len(processed)
  <1>1. L \in Nat /\ DOMAIN processed = 1..L BY DEF TypeOK
  <1>2. RingSize \in Nat /\ dedup_count = IF L < RingSize THEN L ELSE RingSize
    BY RingSizePositive DEF RingHoldsLatest
  <1>3. ASSUME Seen(m) PROVE m \in Window!Latest(processed, RingSize)
    <2>1. PICK i \in 1..dedup_count : dedup_ring[Index(i)] = m BY <1>3 DEF Seen
    <2>2. processed[L + 1 - i] = m BY <2>1 DEF RingHoldsLatest
    <2> HIDE DEF L
    <2>3. L + 1 - i \in 1..L /\ L + 1 - i > L - RingSize BY <1>1, <1>2
    <2>4. QED BY <1>1, <2>2, <2>3 DEF Window!Latest, L
  <1>4. ASSUME m \in Window!Latest(processed, RingSize) PROVE Seen(m)
    <2>1. PICK j \in 1..L : j > L - RingSize /\ processed[j] = m
      BY <1>1, <1>4 DEF Window!Latest
    <2>2. L + 1 - j \in 1..dedup_count
      <3> HIDE DEF L
      <3>1. QED BY <1>1, <1>2, <2>1
    <2>3. L + 1 - (L + 1 - j) = j BY <1>1, <2>1
    <2>4. dedup_ring[Index(L + 1 - j)] = processed[L + 1 - (L + 1 - j)]
      BY <2>2 DEF RingHoldsLatest
    <2> HIDE DEF L
    <2>5. dedup_ring[Index(L + 1 - j)] = m BY <2>1, <2>3, <2>4
    <2>6. QED BY <2>2, <2>5 DEF Seen
  <1>5. QED BY <1>3, <1>4

LEMMA RingInit == Init => RingHoldsLatest
  BY RingSizePositive DEF Init, RingHoldsLatest

LEMMA RingRecord ==
  ASSUME TypeOK, RingHoldsLatest, NEW m \in Message,
         Record(m), processed' = Append(processed, m)
  PROVE  RingHoldsLatest'
  <1> DEFINE L == Len(processed)
  <1>1. L \in Nat /\ processed \in Seq(Message) BY DEF TypeOK
  <1>2. /\ Len(processed') = L + 1 /\ processed'[L + 1] = m
        /\ \A k \in 1..L : processed'[k] = processed[k]
    BY <1>1
  <1>3. /\ dedup_head' = (dedup_head + 1) % RingSize
        /\ dedup_ring' = [dedup_ring EXCEPT ![dedup_head] = m]
        /\ dedup_count' = IF dedup_count < RingSize THEN dedup_count + 1 ELSE dedup_count
    BY DEF Record
  <1>4. /\ dedup_count \in 0..RingSize /\ dedup_head \in 0..(RingSize - 1) /\ RingSize \in Nat \ {0}
        /\ dedup_count = IF L < RingSize THEN L ELSE RingSize
    BY RingSizePositive DEF TypeOK, RingHoldsLatest
  <1>5. dedup_count' = IF L + 1 < RingSize THEN L + 1 ELSE RingSize
    BY <1>1, <1>3, <1>4
  <1>6. ASSUME NEW i \in 1..dedup_count'
        PROVE  dedup_ring'[Index(i)'] = processed'[L + 2 - i]
    <2>1. Index(i)' = (dedup_head' - i + RingSize) % RingSize BY DEF Index
    <2>2. CASE i = 1
      <3>1. Index(i)' = dedup_head BY <1>3, <1>4, <2>1, <2>2, BackAfterStep
      <3>2. dedup_ring'[dedup_head] = m BY <1>3, <1>4 DEF TypeOK
      <3>3. L + 2 - i = L + 1 BY <1>1, <2>2
      <3>4. QED BY <1>2, <3>1, <3>2, <3>3
    <2>3. CASE i > 1
      <3> DEFINE k == i - 1
      <3>1. k \in 1..dedup_count /\ k \in 1..(RingSize - 1) /\ i = k + 1
        BY <1>1, <1>3, <1>4, <2>3
      <3>2. Index(i)' = Index(k) /\ Index(k) # dedup_head
        <4>1. \A j \in 1..(RingSize - 1) :
                /\ (dedup_head' - (j + 1) + RingSize) % RingSize = (dedup_head - j + RingSize) % RingSize
                /\ (dedup_head - j + RingSize) % RingSize # dedup_head
          BY <1>3, <1>4, BackAfterStep
        <4> HIDE DEF k
        <4>2. QED BY <2>1, <3>1, <4>1 DEF Index
      <3>3. Index(k) \in 0..(RingSize - 1)
        <4>1. k \in 1..RingSize BY <1>4, <3>1
        <4>2. Index(k) = IF k <= dedup_head THEN dedup_head - k ELSE dedup_head - k + RingSize
          <5> HIDE DEF k
          <5>1. QED BY <1>4, <4>1, Back DEF Index
        <4> HIDE DEF k
        <4>3. QED BY <1>4, <4>1, <4>2
      <3>4. dedup_ring'[Index(k)] = dedup_ring[Index(k)] BY <1>3, <3>2, <3>3 DEF TypeOK
      <3>5. dedup_ring[Index(k)] = processed[L + 1 - k] BY <3>1 DEF RingHoldsLatest
      <3>6. L + 1 - k \in 1..L /\ L + 2 - i = L + 1 - k BY <1>1, <1>4, <3>1
      <3> HIDE DEF k
      <3>7. QED BY <1>2, <3>2, <3>4, <3>5, <3>6
    <2>4. QED BY <1>5, <1>1, <1>4, <2>2, <2>3
  <1>7. dedup_count' = IF Len(processed') < RingSize THEN Len(processed') ELSE RingSize
    BY <1>2, <1>5
  <1>8. \A i \in 1..dedup_count' : dedup_ring'[Index(i)'] = processed'[Len(processed') + 1 - i]
    <2>1. ASSUME NEW i \in 1..dedup_count' PROVE L + 2 - i = L + 1 + 1 - i
      <3> HIDE DEF L
      <3>1. QED BY <1>1, <1>4, <1>5
    <2>2. QED BY <1>2, <1>6, <2>1
  <1>9. QED BY <1>7, <1>8 DEF RingHoldsLatest

LEMMA RingStep == TypeOK /\ RingHoldsLatest /\ [Next]_vars => RingHoldsLatest'
  <1> SUFFICES ASSUME TypeOK, RingHoldsLatest, [Next]_vars PROVE RingHoldsLatest'
    OBVIOUS
  <1>1. CASE UNCHANGED dedup
    BY <1>1 DEF RingHoldsLatest, Index, dedup
  <1>2. ASSUME NEW m \in Message, NEW p \in Path, Receive(m, p) PROVE RingHoldsLatest'
    BY <1>1, <1>2, RingRecord DEF Receive, ceell_msg_dedup_check
  <1>3. QED BY <1>1, <1>2 DEF Next, ceell_msg_redundant_send, vars

LEMMA RingInvariant == Spec => [](TypeOK /\ RingHoldsLatest)
  <1>1. QED BY TypeInit, TypeStep, RingInit, RingStep, PTL DEF Spec

(***************************************************************************)
(* What the window gives.                                                  *)
(***************************************************************************)

\* A step leaves the log alone or appends a number that was not in the window.
LEMMA LogStep ==
  ASSUME TypeOK, RingHoldsLatest, [Next]_vars
  PROVE  \/ UNCHANGED processed
         \/ \E m \in Message : /\ m \notin Window!Latest(processed, RingSize)
                               /\ processed' = Append(processed, m)
  <1>1. CASE UNCHANGED vars
    BY <1>1 DEF vars, dedup
  <1>2. ASSUME NEW m \in Message, ceell_msg_redundant_send(m) PROVE UNCHANGED processed
    BY <1>2 DEF ceell_msg_redundant_send, dedup
  <1>3. ASSUME NEW m \in Message, NEW p \in Path, Receive(m, p)
        PROVE  \/ UNCHANGED processed
               \/ /\ m \notin Window!Latest(processed, RingSize)
                  /\ processed' = Append(processed, m)
    BY <1>3, SeenIsLatest DEF Receive, ceell_msg_dedup_check, dedup
  <1>4. QED BY <1>1, <1>2, <1>3 DEF Next

\* The ring of a fixed number of slots implements the window over the whole log.
THEOREM WindowImplemented == Spec => ImplementsWindow
  <1>1. Init => Window!Init BY DEF Init, Window!Init
  <1>2. TypeOK /\ RingHoldsLatest /\ [Next]_vars => [Window!Next]_processed
    BY LogStep DEF Window!Next, Window!Accept
  <1>3. QED BY <1>1, <1>2, RingInvariant, PTL DEF Spec, ImplementsWindow, Window!Spec

LEMMA OnceStep ==
  TypeOK /\ RingHoldsLatest /\ OncePerWindow /\ [Next]_vars => OncePerWindow'
  <1> SUFFICES ASSUME TypeOK, RingHoldsLatest, OncePerWindow, [Next]_vars
               PROVE  OncePerWindow'
    OBVIOUS
  <1> DEFINE L == Len(processed)
  <1>1. L \in Nat /\ processed \in Seq(Message) /\ DOMAIN processed = 1..L BY DEF TypeOK
  <1>2. CASE UNCHANGED processed
    BY <1>2 DEF OncePerWindow
  <1>3. ASSUME NEW m \in Message, m \notin Window!Latest(processed, RingSize),
               processed' = Append(processed, m)
        PROVE  OncePerWindow'
    <2>1. /\ DOMAIN processed' = 1..(L + 1) /\ processed'[L + 1] = m
          /\ \A k \in 1..L : processed'[k] = processed[k]
      BY <1>1, <1>3
    <2>2. ASSUME NEW i \in 1..(L + 1), NEW j \in 1..(L + 1), i < j, processed'[i] = processed'[j]
          PROVE  j - i > RingSize
      <3>1. i \in 1..L BY <1>1, <2>2
      <3>2. CASE j \in 1..L
        BY <1>1, <2>1, <2>2, <3>1, <3>2 DEF OncePerWindow
      <3>3. CASE j = L + 1
        <4>1. processed[i] = m BY <2>1, <2>2, <3>1, <3>3
        <4>2. ~ (i > L - RingSize)
          BY <1>1, <1>3, <3>1, <4>1 DEF Window!Latest
        <4> HIDE DEF L
        <4>3. QED BY <1>1, <3>1, <3>3, <4>2, RingSizePositive
      <3>4. QED BY <1>1, <3>2, <3>3
    <2>3. QED BY <2>1, <2>2 DEF OncePerWindow
  <1>4. QED BY <1>2, <1>3, LogStep

\* Between two times a number is processed RingSize others are.
THEOREM ProcessedOncePerWindow == Spec => []OncePerWindow
  <1>1. Init => OncePerWindow BY DEF Init, OncePerWindow
  <1>2. QED BY <1>1, OnceStep, RingInvariant, PTL DEF Spec

\* A copy that is dropped is of one of the last RingSize numbers processed.
THEOREM NothingNewDropped == Spec => OnlyDuplicatesDropped
  <1> DEFINE Step == \A m \in Message :
                       arriving'[m] # arriving[m] /\ result'[m] = result[m] /\ UNCHANGED processed
                         => m \in Window!Latest(processed, RingSize)
  <1>1. ASSUME TypeOK, RingHoldsLatest, [Next]_vars PROVE [Step]_vars
    <2>1. CASE UNCHANGED vars BY <2>1
    <2>2. ASSUME NEW m \in Message, ceell_msg_redundant_send(m) PROVE Step
      <3>1. result[m] = "unsent" /\ result'[m] # "unsent"
        <4>1. PICK first \in Sendto("primary"), second \in SecondarySend :
                result' = [result EXCEPT ![m] = SendResult(first, second)]
          BY <2>2 DEF ceell_msg_redundant_send
        <4>2. SendResult(first, second) # "unsent" BY DEF SendResult
        <4>3. QED BY <1>1, <2>2, <4>1, <4>2 DEF ceell_msg_redundant_send, Unsent, TypeOK
      <3>2. \A k \in Message \ {m} : arriving'[k] = arriving[k]
        BY <1>1, <2>2 DEF ceell_msg_redundant_send, TypeOK
      <3>3. QED BY <3>1, <3>2
    <2>3. ASSUME NEW m \in Message, NEW p \in Path, Receive(m, p) PROVE Step
      <3>1. \A k \in Message \ {m} : arriving'[k] = arriving[k]
        BY <1>1, <2>3 DEF Receive, TypeOK
      <3>2. Seen(m) \/ processed' = Append(processed, m)
        BY <2>3 DEF Receive, ceell_msg_dedup_check
      <3>3. Append(processed, m) # processed
        <4>1. processed \in Seq(Message) /\ Len(processed) \in Nat BY <1>1 DEF TypeOK
        <4>2. Len(Append(processed, m)) = Len(processed) + 1 BY <4>1
        <4>3. QED BY <4>1, <4>2
      <3>4. QED BY <1>1, <3>1, <3>2, <3>3, SeenIsLatest
    <2>4. QED BY <1>1, <2>1, <2>2, <2>3 DEF Next
  <1>2. QED BY <1>1, RingInvariant, PTL DEF Spec, OnlyDuplicatesDropped
=============================================================================
