-------------------------- MODULE MsgClientProofs --------------------------
(***************************************************************************)
(* Proofs about MsgClient for every set of threads, priorities and peers   *)
(* and every bound.  NeverOlder needs no assumption on who shares a        *)
(* priority; that a call gets the response to its own request holds for    *)
(* the callers that share theirs with nobody.                              *)
(***************************************************************************)
EXTENDS MsgClient, TLAPS

Claimed == {"head", "tail", "sendto", "take", "wait", "copy"}

\* Numbers are handed out in order, and a slot only ever moves to newer ones.
NumbersInOrder ==
  /\ \A p \in Priority : pending_seq[p] < next_seq
  /\ \A c \in Caller : pc[c] \in Claimed => call[c].seq <= pending_seq[call[c].pri]

\* A slot is empty or holds the response to the request it is pending for, and
\* holds one when its semaphore is up.
SlotMatches ==
  \A p \in Priority :
    /\ pending_rsp[p] = Zeroed \/ pending_rsp[p].seq = pending_seq[p]
    /\ rsp_sem[p] = 1 => pending_rsp[p] # Zeroed

\* A call in progress has not returned yet.
NotReturned == \A c \in Caller : pc[c] # "idle" => ret[c] = "none"

\* Requests carry numbers that were handed out.
Numbered ==
  /\ \A c \in Caller : pc[c] \in Claimed => call[c].seq >= 1
  /\ \A c \in Caller : pc[c] \in {"tail", "sendto"} => buf.seq >= 1

IInv == TypeOK /\ NumbersInOrder /\ SlotMatches /\ NotReturned /\ Numbered /\ NeverOlder

-----------------------------------------------------------------------------
(* Facts used throughout. *)

LEMMA BlankType == Blank \in Calls
  BY NonEmpty, MaxSeqNat DEF Blank, Calls

LEMMA StoredFacts == ASSUME NEW r \in Stored
                     PROVE  r = Zeroed \/ (r # Zeroed /\ r.seq \in Seqs /\ r.seq >= 1)
  BY MaxSeqNat DEF Stored, Zeroed, Seqs

LEMMA InitIInv == Init => IInv
<1> SUFFICES ASSUME Init PROVE IInv
  OBVIOUS
<1>1. TypeOK
  <2>1. Blank \in Calls /\ Zeroed \in Stored /\ 1 \in 1..(MaxSeq + 1) /\ 0 \in 0..MaxSeq
    BY BlankType, MaxSeqNat DEF Stored
  <2> QED BY <2>1 DEF Init, TypeOK, Steps, Returns
<1>2. NumbersInOrder /\ SlotMatches /\ NotReturned /\ Numbered /\ NeverOlder
  BY DEF Init, NumbersInOrder, SlotMatches, NotReturned, Numbered, NeverOlder, Succeeded, Claimed
<1> QED BY <1>1, <1>2 DEF IInv

-----------------------------------------------------------------------------
(* Types: a request that leaves carries a number some thread was given. *)

LEMMA TypeStep == TypeOK /\ Numbered /\ [Next]_vars => TypeOK'
<1> SUFFICES ASSUME TypeOK, Numbered, [Next]_vars PROVE TypeOK'
  OBVIOUS
<1> USE DEF TypeOK, slots, encoder, results, net, Goto, Steps, Returns
<1>1. ASSUME NEW c \in Caller, Resolve(c) PROVE TypeOK'
  <2>1. call' \in [Caller -> Calls]
    BY <1>1, MaxSeqNat DEF Resolve, Calls
  <2>2. rsp' \in [Caller -> Stored]
    BY <1>1 DEF Resolve, Stored
  <2>3. pc' \in [Caller -> Steps] /\ ret' \in [Caller -> Returns]
    BY <1>1 DEF Resolve
  <2> QED BY <1>1, <2>1, <2>2, <2>3 DEF Resolve
<1>2. ASSUME NEW c \in Caller, Claim(c) PROVE TypeOK'
  BY <1>2, MaxSeqNat DEF Claim, SemReset, Calls, Stored
<1>3. ASSUME NEW c \in Caller, EncodeHead(c) PROVE TypeOK'
  BY <1>3 DEF EncodeHead, Calls
<1>4. ASSUME NEW c \in Caller, EncodeTail(c) PROVE TypeOK'
  BY <1>4 DEF EncodeTail, Calls
<1>5. ASSUME NEW c \in Caller, SendTo(c) PROVE TypeOK'
  <2>1. requests' \subseteq Request
    BY <1>5, MaxSeqNat DEF SendTo, Request, Calls, Numbered, Seqs
  <2> QED BY <1>5, <2>1 DEF SendTo
<1>6. ASSUME NEW c \in Caller, SemTake(c) PROVE TypeOK'
  BY <1>6 DEF SemTake, Calls
<1>7. ASSUME NEW c \in Caller, Timeout(c) PROVE TypeOK'
  BY <1>7 DEF Timeout
<1>8. ASSUME NEW c \in Caller, CopyOut(c) PROVE TypeOK'
  BY <1>8 DEF CopyOut, Calls
<1>9. ASSUME NEW m \in responses, handle_response(m) PROVE TypeOK'
  BY <1>9 DEF handle_response, SemGive, Waiting, Response, Stored
<1>10. ASSUME NEW m \in requests, PeerAnswers(m) PROVE TypeOK'
  BY <1>10 DEF PeerAnswers, Request, Response
<1>11. CASE UNCHANGED vars
  BY <1>11 DEF vars
<1> QED BY <1>1, <1>2, <1>3, <1>4, <1>5, <1>6, <1>7, <1>8, <1>9, <1>10, <1>11
        DEF Next, Send

-----------------------------------------------------------------------------
(* The invariant is inductive: one step per action that writes what a      *)
(* conjunct reads.                                                         *)

LEMMA IInvStep == IInv /\ [Next]_vars => IInv'
<1> SUFFICES ASSUME IInv, [Next]_vars PROVE IInv'
  OBVIOUS
<1>0. TypeOK /\ TypeOK'
  BY TypeStep DEF IInv
<1> DEFINE Rest == NumbersInOrder /\ SlotMatches /\ NotReturned /\ Numbered /\ NeverOlder
<1> USE MaxSeqNat DEF IInv, Succeeded, Claimed, slots, encoder, results, net, Goto
<1>1. ASSUME NEW c \in Caller, Resolve(c) PROVE Rest'
  <2> USE <1>1, <1>0 DEF Resolve, TypeOK
  <2>1. NumbersInOrder' /\ Numbered'
    BY DEF NumbersInOrder, Numbered
  <2>2. SlotMatches'
    BY DEF SlotMatches
  <2>3. NotReturned' /\ NeverOlder'
    BY DEF NotReturned, NeverOlder
  <2> QED BY <2>1, <2>2, <2>3
<1>2. ASSUME NEW c \in Caller, Claim(c) PROVE Rest'
  <2> USE <1>2, <1>0 DEF Claim, SemReset, Waiting, TypeOK
  <2>1. call[c].pri \in Priority
    BY DEF Calls
  <2>2. \A d \in Caller : /\ call'[d].pri = call[d].pri
                          /\ d # c => call'[d] = call[d]
                          /\ call'[c].seq = next_seq
    BY DEF Calls
  <2>3. \A d \in Caller : pc'[d] \in Claimed => d = c \/ (d # c /\ pc[d] = pc'[d])
    OBVIOUS
  <2>4. \A p \in Priority : pending_seq[p] <= pending_seq'[p] /\ pending_seq'[p] < next_seq'
    BY <2>1 DEF NumbersInOrder
  <2>5. NumbersInOrder'
    <3>1. ASSUME NEW d \in Caller, pc'[d] \in Claimed
          PROVE  call'[d].seq <= pending_seq'[call'[d].pri]
      <4>1. CASE d = c
        BY <4>1, <2>1, <2>2
      <4>2. CASE d # c
        <5>1. call[d].seq <= pending_seq[call[d].pri]
          BY <4>2, <3>1, <2>3 DEF NumbersInOrder
        <5>2. call[d].pri \in Priority /\ call[d].seq \in 0..MaxSeq
          BY DEF Calls
        <5> QED BY <5>1, <5>2, <4>2, <2>2, <2>4
      <4> QED BY <4>1, <4>2
    <3> QED BY <3>1, <2>4 DEF NumbersInOrder
  <2>6. SlotMatches'
    BY <2>1 DEF SlotMatches
  <2>7. NotReturned'
    BY DEF NotReturned
  <2>8. Numbered'
    BY <2>2, <2>3 DEF Numbered
  <2>9. NeverOlder'
    <3>1. ASSUME NEW d \in Caller, ret'[d] = "ok"
          PROVE  rsp'[d] = Zeroed \/ rsp'[d].seq >= call'[d].seq
      <4>1. ret[d] = "ok" /\ d # c
        BY <3>1 DEF NotReturned
      <4> QED BY <4>1, <2>2 DEF NeverOlder
    <3> QED BY <3>1 DEF NeverOlder
  <2> QED BY <2>5, <2>6, <2>7, <2>8, <2>9
<1>3. ASSUME NEW c \in Caller, EncodeHead(c) \/ EncodeTail(c) PROVE Rest'
  <2> USE <1>3, <1>0 DEF EncodeHead, EncodeTail, TypeOK
  <2>1. NumbersInOrder' /\ SlotMatches'
    BY DEF NumbersInOrder, SlotMatches
  <2>2. Numbered'
    BY DEF Numbered, Calls
  <2>3. NotReturned' /\ NeverOlder'
    BY DEF NotReturned, NeverOlder
  <2> QED BY <2>1, <2>2, <2>3
<1>4. ASSUME NEW c \in Caller, SendTo(c) \/ SemTake(c) \/ Timeout(c) PROVE Rest'
  <2> USE <1>4, <1>0 DEF SendTo, SemTake, Timeout, TypeOK
  <2>1. NumbersInOrder' /\ Numbered'
    BY DEF NumbersInOrder, Numbered
  <2>2. SlotMatches'
    BY DEF SlotMatches, Calls
  <2>3. NotReturned' /\ NeverOlder'
    BY DEF NotReturned, NeverOlder
  <2> QED BY <2>1, <2>2, <2>3
<1>5. ASSUME NEW c \in Caller, CopyOut(c) PROVE Rest'
  <2> USE <1>5, <1>0 DEF CopyOut, TypeOK
  <2>1. NumbersInOrder' /\ Numbered' /\ SlotMatches'
    BY DEF NumbersInOrder, Numbered, SlotMatches
  <2>2. NotReturned'
    BY DEF NotReturned
  <2>3. NeverOlder'
    <3>1. rsp'[c] = Zeroed \/ rsp'[c].seq >= call'[c].seq
      BY DEF SlotMatches, NumbersInOrder, Calls
    <3> QED BY <3>1 DEF NeverOlder
  <2> QED BY <2>1, <2>2, <2>3
<1>6. ASSUME NEW m \in responses, handle_response(m) PROVE Rest'
  <2> USE <1>6, <1>0 DEF handle_response, SemGive, Matches, TypeOK
  <2>1. m.pri \in Priority /\ m.seq \in Seqs
    BY DEF Response
  <2>2. \A c \in Caller : pc'[c] = pc[c] \/ (pc[c] = "wait" /\ pc'[c] = "copy")
    BY DEF Waiting
  <2>3. NumbersInOrder' /\ Numbered'
    BY <2>2 DEF NumbersInOrder, Numbered
  <2>4. SlotMatches'
    BY <2>1 DEF SlotMatches, Zeroed, Seqs
  <2>5. NotReturned' /\ NeverOlder'
    BY <2>2 DEF NotReturned, NeverOlder
  <2> QED BY <2>3, <2>4, <2>5
<1>7. ASSUME NEW m \in requests, PeerAnswers(m) PROVE Rest'
  BY <1>7 DEF PeerAnswers, NumbersInOrder, SlotMatches, NotReturned, Numbered, NeverOlder
<1>8. ASSUME UNCHANGED vars PROVE Rest'
  BY <1>8 DEF vars, NumbersInOrder, SlotMatches, NotReturned, Numbered, NeverOlder
<1>9. Rest'
  <2> HIDE DEF Rest
  <2> QED BY <1>1, <1>2, <1>3, <1>4, <1>5, <1>6, <1>7, <1>8 DEF Next, Send
<1> QED BY <1>0, <1>9

-----------------------------------------------------------------------------
(* Callers that have their priority to themselves.                         *)

\* A call in progress sends at a priority of its thread.
UsesOwn == \A c \in Caller : pc[c] # "idle" => c \in UsedBy[call[c].pri]

\* Nobody takes the slot from a call that claimed it.
HoldsSlot ==
  \A c \in Caller : Sole(c) /\ pc[c] \in Claimed => pending_seq[call[c].pri] = call[c].seq

\* A woken thread finds a response to copy.
CopyFull ==
  \A c \in Caller : Sole(c) /\ pc[c] = "copy" => pending_rsp[call[c].pri] # Zeroed

SInv == UsesOwn /\ HoldsSlot /\ CopyFull /\ SoleWakeup /\ SoleOwnResponse

LEMMA InitSInv == Init => SInv
  BY DEF Init, SInv, UsesOwn, HoldsSlot, CopyFull, SoleWakeup, SoleOwnResponse,
         AnswersOwn, Succeeded, Claimed

\* No other call is in progress at the priority of a call whose thread is its
\* only user.
LEMMA OneCallPerPriority ==
  ASSUME TypeOK, UsesOwn, NEW c \in Caller, NEW d \in Caller, Sole(c),
         pc[d] # "idle", call[c].pri = call[d].pri
  PROVE  c = d
  BY DEF TypeOK, Calls, Sole, UsesOwn

\* Steps that leave the slots and the calls alone, but for where c is.
LEMMA QuietStep ==
  ASSUME TypeOK, IInv, SInv, NEW c \in Caller, UNCHANGED <<slots, call, rsp>>,
         \A d \in Caller : d # c => pc'[d] = pc[d] /\ ret'[d] = ret[d],
         \/ pc'[c] = "idle" /\ ret'[c] # "ok"
         \/ /\ pc[c] \in {"head", "tail", "sendto"} /\ pc'[c] \in {"tail", "sendto", "take"}
            /\ ret'[c] = ret[c]
  PROVE  SInv'
<1> USE DEF SInv, slots, Claimed, Succeeded, Sole
<1>1. UsesOwn' /\ HoldsSlot' /\ CopyFull'
  BY DEF UsesOwn, HoldsSlot, CopyFull
<1>2. SoleWakeup'
  BY DEF SoleWakeup
<1>3. SoleOwnResponse'
  BY DEF SoleOwnResponse, AnswersOwn
<1> QED BY <1>1, <1>2, <1>3

LEMMA SInvStep ==
  ASSUME IInv, SInv, [Next]_vars
  PROVE  SInv'
<1>0. TypeOK /\ TypeOK' /\ IInv'
  BY TypeStep, IInvStep DEF IInv
<1> USE MaxSeqNat DEF SInv, Succeeded, Claimed, slots, encoder, results, net, Goto
<1>1. ASSUME NEW c \in Caller, Resolve(c) PROVE SInv'
  <2> USE <1>1, <1>0 DEF Resolve, TypeOK
  <2>1. \A d \in Caller : d # c => Sole(d)' = Sole(d) /\ call'[d] = call[d]
    BY DEF Sole
  <2>2. pc'[c] \in {"idle", "claim"} /\ ret'[c] # "ok"
        /\ \A d \in Caller : d # c => pc'[d] = pc[d] /\ ret'[d] = ret[d] /\ rsp'[d] = rsp[d]
    OBVIOUS
  <2>3. UsesOwn'
    BY DEF UsesOwn
  <2>4. HoldsSlot' /\ CopyFull'
    BY <2>1, <2>2 DEF HoldsSlot, CopyFull
  <2>5. SoleWakeup'
    BY <2>1, <2>2 DEF SoleWakeup
  <2>6. SoleOwnResponse'
    BY <2>1, <2>2 DEF SoleOwnResponse, AnswersOwn
  <2> QED BY <2>3, <2>4, <2>5, <2>6
<1>2. ASSUME NEW c \in Caller, Claim(c) PROVE SInv'
  <2> USE <1>2, <1>0 DEF Claim, SemReset, TypeOK
  <2>1. call[c].pri \in Priority
    BY DEF Calls
  <2>2. \A d \in Caller : /\ call'[d].pri = call[d].pri
                          /\ d # c => call'[d] = call[d]
                          /\ call'[c].seq = next_seq
    BY DEF Calls
  <2>3. \A d \in Caller : Sole(d)' = Sole(d)
    BY <2>2 DEF Sole
  <2>4. \A d \in Caller : Sole(d) /\ d # c /\ pc[d] # "idle" => call[d].pri # call[c].pri
    BY OneCallPerPriority
  <2>5. \A d \in Caller : Sole(d) /\ d # c => pc'[d] = pc[d] /\ ret'[d] = ret[d]
    BY <2>4 DEF Waiting
  <2>6. pc'[c] = "head" /\ ret'[c] # "ok"
    BY DEF Waiting, IInv, NotReturned
  <2>7. UsesOwn'
    BY <2>2 DEF UsesOwn
  <2>8. HoldsSlot'
    BY <2>1, <2>2, <2>3, <2>4, <2>5 DEF HoldsSlot
  <2>9. CopyFull'
    BY <2>1, <2>2, <2>3, <2>4, <2>5, <2>6 DEF CopyFull
  <2>10. SoleWakeup'
    <3> SUFFICES ASSUME NEW d \in Caller, Sole(d),
                        pc'[d] \in {"head", "tail", "sendto", "take", "wait"},
                        pending_rsp'[call'[d].pri].seq = call'[d].seq
                 PROVE  rsp_sem'[call'[d].pri] = 1
      BY <2>3 DEF SoleWakeup
    <3>1. CASE d = c
      <4>1. pending_rsp'[call'[c].pri] = Zeroed
        BY <2>1, <2>2
      <4>2. call'[c].seq >= 1
        BY <2>2
      <4> QED BY <3>1, <4>1, <4>2, <2>2 DEF Zeroed
    <3>2. CASE d # c
      <4>1. call'[d] = call[d] /\ pc'[d] = pc[d] /\ call[d].pri # call[c].pri
        BY <3>2, <2>2, <2>4, <2>5
      <4>2. call[d].pri \in Priority
        BY DEF Calls
      <4>3. pending_rsp'[call[d].pri] = pending_rsp[call[d].pri]
            /\ rsp_sem'[call[d].pri] = rsp_sem[call[d].pri]
        BY <4>1, <4>2, <2>1
      <4> QED BY <4>1, <4>3 DEF SoleWakeup
    <3> QED BY <3>1, <3>2
  <2>11. SoleOwnResponse'
    BY <2>2, <2>3, <2>5, <2>6 DEF SoleOwnResponse, AnswersOwn
  <2> QED BY <2>7, <2>8, <2>9, <2>10, <2>11
<1>3. ASSUME NEW c \in Caller, EncodeHead(c) \/ EncodeTail(c) \/ SendTo(c) \/ Timeout(c) PROVE SInv'
  <2>1. UNCHANGED <<slots, call, rsp>>
    BY <1>3 DEF EncodeHead, EncodeTail, SendTo, Timeout
  <2>2. \A d \in Caller : d # c => pc'[d] = pc[d] /\ ret'[d] = ret[d]
    BY <1>3, <1>0 DEF EncodeHead, EncodeTail, SendTo, Timeout, TypeOK
  <2>3. ret[c] # "ok"
    BY <1>3 DEF EncodeHead, EncodeTail, SendTo, Timeout, IInv, NotReturned
  <2>4. \/ pc'[c] = "idle" /\ ret'[c] # "ok"
        \/ /\ pc[c] \in {"head", "tail", "sendto"} /\ pc'[c] \in {"tail", "sendto", "take"}
           /\ ret'[c] = ret[c]
    BY <1>3, <1>0, <2>3 DEF EncodeHead, EncodeTail, SendTo, Timeout, TypeOK
  <2> HIDE DEF SInv
  <2> QED BY <2>1, <2>2, <2>4, <1>0, QuietStep
<1>4. ASSUME NEW c \in Caller, SemTake(c) PROVE SInv'
  <2> USE <1>4, <1>0 DEF SemTake, TypeOK
  <2>1. call[c].pri \in Priority
    BY DEF Calls
  <2>2. \A d \in Caller : Sole(d)' = Sole(d)
    BY DEF Sole
  <2>3. UsesOwn' /\ HoldsSlot'
    BY <2>2 DEF UsesOwn, HoldsSlot
  <2>4. CopyFull'
    BY <2>1, <2>2 DEF CopyFull, IInv, SlotMatches
  <2>5. \A d \in Caller : Sole(d) /\ d # c => call[d].pri # call[c].pri
    BY OneCallPerPriority
  <2>6. SoleWakeup'
    BY <2>1, <2>2, <2>5 DEF SoleWakeup, Calls
  <2>7. SoleOwnResponse'
    BY <2>2 DEF SoleOwnResponse, AnswersOwn
  <2> QED BY <2>3, <2>4, <2>6, <2>7
<1>5. ASSUME NEW c \in Caller, CopyOut(c) PROVE SInv'
  <2> USE <1>5, <1>0 DEF CopyOut, TypeOK
  <2>1. \A d \in Caller : Sole(d)' = Sole(d)
    BY DEF Sole
  <2>2. UsesOwn' /\ HoldsSlot' /\ CopyFull' /\ SoleWakeup'
    BY <2>1 DEF UsesOwn, HoldsSlot, CopyFull, SoleWakeup
  <2>3. Sole(c) => rsp'[c].seq = call'[c].seq
    BY DEF CopyFull, HoldsSlot, IInv, SlotMatches, Calls
  <2>4. SoleOwnResponse'
    BY <2>1, <2>3 DEF SoleOwnResponse, AnswersOwn
  <2> QED BY <2>2, <2>4
<1>6. ASSUME NEW m \in responses, handle_response(m) PROVE SInv'
  <2> USE <1>6, <1>0 DEF handle_response, Matches, TypeOK
  <2>1. m.pri \in Priority /\ m.seq \in Seqs
    BY DEF Response
  <2>2. \A c \in Caller : \/ pc'[c] = pc[c]
                          \/ pc[c] = "wait" /\ pc'[c] = "copy" /\ call[c].pri = m.pri
    BY DEF SemGive, Waiting
  <2>3. pending_rsp'[m.pri] # Zeroed
    BY <2>1 DEF Zeroed, Seqs
  <2>4. \A d \in Caller : Sole(d)' = Sole(d)
    BY DEF Sole
  <2>5. UsesOwn' /\ HoldsSlot'
    BY <2>2, <2>4 DEF UsesOwn, HoldsSlot
  <2>6. CopyFull'
    BY <2>1, <2>2, <2>3, <2>4 DEF CopyFull, Calls
  <2>7. SoleWakeup'
    <3> SUFFICES ASSUME NEW c \in Caller, Sole(c),
                        pc'[c] \in {"head", "tail", "sendto", "take", "wait"},
                        pending_rsp'[call[c].pri].seq = call[c].seq
                 PROVE  rsp_sem'[call[c].pri] = 1
      BY <2>4 DEF SoleWakeup
    <3>1. pc'[c] = pc[c] /\ call[c].pri \in Priority
      BY <2>2 DEF Calls
    <3>2. CASE call[c].pri # m.pri
      <4>1. rsp_sem'[call[c].pri] = rsp_sem[call[c].pri]
        BY <3>1, <3>2, <2>1 DEF SemGive
      <4> QED BY <4>1, <3>1, <3>2, <2>1 DEF SoleWakeup
    <3>3. CASE call[c].pri = m.pri
      <4>1. \A v \in Waiting(m.pri) : v = c
        BY <3>1, <3>3, OneCallPerPriority DEF Waiting
      <4>2. Waiting(m.pri) = {}
        BY <3>1, <4>1 DEF SemGive, Waiting
      <4> QED BY <4>2, <3>3, <2>1 DEF SemGive
    <3> QED BY <3>2, <3>3
  <2>8. SoleOwnResponse'
    BY <2>4 DEF SoleOwnResponse, AnswersOwn
  <2> QED BY <2>5, <2>6, <2>7, <2>8
<1>7. ASSUME NEW m \in requests, PeerAnswers(m) PROVE SInv'
  BY <1>7 DEF PeerAnswers, UsesOwn, HoldsSlot, CopyFull, SoleWakeup, SoleOwnResponse,
     AnswersOwn, Sole
<1>8. CASE UNCHANGED vars
  BY <1>8 DEF vars, UsesOwn, HoldsSlot, CopyFull, SoleWakeup, SoleOwnResponse, AnswersOwn, Sole
<1> QED
  <2> HIDE DEF SInv
  <2> QED BY <1>1, <1>2, <1>3, <1>4, <1>5, <1>6, <1>7, <1>8 DEF Next, Send

-----------------------------------------------------------------------------
(* Where the response comes from, while no two calls met in the buffer.    *)

\* A call has a number of its own, which no later call gets.
NumbersFresh ==
  /\ \A c \in Caller : call[c].seq < next_seq /\ rsp[c].seq < next_seq
  /\ \A c, d \in Caller : call[c].seq = call[d].seq /\ call[c].seq # 0 => c = d
  /\ \A c \in Caller : Succeeded(c) => call[c].seq # 0

InBuffer(c) == pc[c] \in {"tail", "sendto"}

\* The number in the buffer is that of the call whose turn it is.
BufferIsMine ==
  /\ \A c, d \in Caller : InBuffer(c) /\ InBuffer(d) => c = d
  /\ \A c \in Caller : InBuffer(c) => buf.seq = call[c].seq

\* A number goes to, or comes from, the peer that the call it was given to asks.
AsksFor(seq, peer) ==
  /\ seq \in Nat /\ seq # 0 /\ seq < next_seq
  /\ \A c \in Caller : call[c].seq = seq => call[c].svc = peer

NumbersReachPeers ==
  /\ \A m \in requests : AsksFor(m.seq, m.dst)
  /\ \A m \in responses : AsksFor(m.seq, m.from)
  /\ \A p \in Priority : pending_rsp[p] # Zeroed => AsksFor(pending_rsp[p].seq, pending_rsp[p].from)
  /\ \A c \in Caller : rsp[c] # Zeroed => AsksFor(rsp[c].seq, rsp[c].from)

PeerInv == NumbersFresh /\ (~ overlap => BufferIsMine /\ NumbersReachPeers)

LEMMA InitPeerInv == Init => PeerInv
<1> SUFFICES ASSUME Init PROVE PeerInv
  OBVIOUS
<1>1. Blank.seq = 0 /\ Zeroed.seq = 0
  BY DEF Blank, Zeroed
<1>2. NumbersFresh /\ BufferIsMine /\ NumbersReachPeers
  BY <1>1 DEF Init, NumbersFresh, BufferIsMine, InBuffer, NumbersReachPeers, Succeeded
<1> QED BY <1>2 DEF PeerInv

\* What a slot holds carries a number that was handed out.
LEMMA SlotNumbers ==
  ASSUME IInv, NEW p \in Priority
  PROVE  pending_rsp[p].seq < next_seq
<1>1. pending_rsp[p] = Zeroed \/ pending_rsp[p].seq = pending_seq[p]
  BY DEF IInv, SlotMatches
<1>2. pending_seq[p] < next_seq /\ next_seq \in 1..(MaxSeq + 1)
  BY DEF IInv, NumbersInOrder, TypeOK
<1> QED BY <1>1, <1>2, MaxSeqNat DEF Zeroed

\* A step that hands out no number, and copies none to a caller.
LEMMA FreshKept ==
  ASSUME NumbersFresh, UNCHANGED <<next_seq, call, rsp>>, \A c \in Caller : Succeeded(c)' => Succeeded(c)
  PROVE  NumbersFresh'
  BY DEF NumbersFresh

LEMMA BufferKept ==
  ASSUME BufferIsMine, UNCHANGED <<buf, call>>, \A c \in Caller : InBuffer(c)' => InBuffer(c)
  PROVE  BufferIsMine'
  BY DEF BufferIsMine

LEMMA AsksKept ==
  ASSUME NEW seq, NEW peer, AsksFor(seq, peer), UNCHANGED <<next_seq, call>>
  PROVE  AsksFor(seq, peer)'
  BY DEF AsksFor

\* A step that puts nothing on the network and stores nothing.
LEMMA PeersKept ==
  ASSUME NumbersReachPeers, UNCHANGED <<next_seq, call, pending_rsp, rsp, requests, responses>>
  PROVE  NumbersReachPeers'
  BY DEF NumbersReachPeers, AsksFor

LEMMA PeerInvStep ==
  ASSUME IInv, PeerInv, [Next]_vars
  PROVE  PeerInv'
<1>0. /\ TypeOK /\ TypeOK' /\ NumbersFresh /\ NotReturned /\ Numbered /\ next_seq \in Nat /\ next_seq # 0
      /\ \A c \in Caller : call[c] \in Calls /\ rsp[c] \in Stored /\ call[c].seq \in Nat /\ rsp[c].seq \in Nat
  <2>1. \A x \in Stored : x.seq \in Nat
    BY MaxSeqNat DEF Stored, Seqs, Zeroed
  <2>2. \A x \in Calls : x.seq \in Nat
    BY MaxSeqNat DEF Calls
  <2>3. next_seq \in Nat /\ next_seq # 0
    BY MaxSeqNat DEF IInv, TypeOK
  <2> QED BY TypeStep, <2>1, <2>2, <2>3 DEF IInv, PeerInv, TypeOK
<1> USE DEF slots, encoder, results, net, Goto, Succeeded
<1>1. ASSUME NEW c \in Caller, Resolve(c) PROVE PeerInv'
  <2>1. /\ \A d \in Caller : d # c => call'[d] = call[d] /\ rsp'[d] = rsp[d] /\ ret'[d] = ret[d]
        /\ call'[c].seq = 0 /\ rsp'[c] = Zeroed /\ ret'[c] # "ok" /\ pc[c] = "idle" /\ pc'[c] \in {"idle", "claim"}
        /\ \A d \in Caller : d # c => pc'[d] = pc[d]
        /\ UNCHANGED <<next_seq, slots, encoder, net>>
    BY <1>1, <1>0 DEF Resolve, TypeOK
  <2>2. NumbersFresh'
    BY <1>0, <2>1 DEF NumbersFresh, Zeroed
  <2>3. BufferIsMine => BufferIsMine'
    BY <2>1 DEF BufferIsMine, InBuffer
  <2>4. ASSUME NEW seq, NEW peer, AsksFor(seq, peer) PROVE AsksFor(seq, peer)'
    BY <2>1, <2>4 DEF AsksFor
  <2>5. NumbersReachPeers => NumbersReachPeers'
    <3> SUFFICES ASSUME NumbersReachPeers PROVE NumbersReachPeers'
      OBVIOUS
    <3>1. \A m \in requests : AsksFor(m.seq, m.dst)'
      BY <2>4 DEF NumbersReachPeers
    <3>2. \A m \in responses : AsksFor(m.seq, m.from)'
      BY <2>4 DEF NumbersReachPeers
    <3>3. \A p \in Priority : pending_rsp[p] # Zeroed => AsksFor(pending_rsp[p].seq, pending_rsp[p].from)'
      BY <2>1, <2>4 DEF NumbersReachPeers
    <3> QED BY <2>1, <3>1, <3>2, <3>3 DEF NumbersReachPeers, AsksFor
  <2> QED BY <2>1, <2>2, <2>3, <2>5 DEF PeerInv
<1>2. ASSUME NEW c \in Caller, Claim(c) PROVE PeerInv'
  <2>1. /\ next_seq' = next_seq + 1 /\ UNCHANGED <<buf, overlap, rsp, requests, responses>>
        /\ \A d \in Caller : d # c => call'[d] = call[d]
        /\ call'[c].seq = next_seq /\ call'[c].svc = call[c].svc
        /\ pc[c] = "claim" /\ \A d \in Caller : InBuffer(d)' => InBuffer(d) /\ d # c
        /\ \A q \in Priority : pending_rsp'[q] = pending_rsp[q] \/ pending_rsp'[q] = Zeroed
    BY <1>2, <1>0 DEF Claim, SemReset, Waiting, TypeOK, InBuffer, Calls
  <2>2. \A d \in Caller : Succeeded(d)' => Succeeded(d) /\ d # c
    BY <1>2, <1>0 DEF Claim, SemReset, Waiting, TypeOK, NotReturned
  <2>3. NumbersFresh'
    BY <1>0, <2>1, <2>2 DEF NumbersFresh
  <2>4. BufferIsMine => BufferIsMine'
    BY <2>1 DEF BufferIsMine
  <2>5. ASSUME NEW seq, NEW peer, AsksFor(seq, peer) PROVE AsksFor(seq, peer)'
    BY <1>0, <2>1, <2>5 DEF AsksFor
  <2>6. NumbersReachPeers => NumbersReachPeers'
    <3> SUFFICES ASSUME NumbersReachPeers PROVE NumbersReachPeers'
      OBVIOUS
    <3>1. \A m \in requests : AsksFor(m.seq, m.dst)'
      BY <2>5 DEF NumbersReachPeers
    <3>2. \A m \in responses : AsksFor(m.seq, m.from)'
      BY <2>5 DEF NumbersReachPeers
    <3>3. \A x : AsksFor(x.seq, x.from) => AsksFor(x.seq, x.from)'
      BY <2>5
    <3>4. \A q \in Priority : pending_rsp'[q] # Zeroed => AsksFor(pending_rsp[q].seq, pending_rsp[q].from)'
      BY <2>1, <3>3 DEF NumbersReachPeers, AsksFor
    <3>5. \A d \in Caller : rsp'[d] # Zeroed => AsksFor(rsp[d].seq, rsp[d].from)'
      BY <2>1, <3>3 DEF NumbersReachPeers, AsksFor
    <3> QED BY <2>1, <3>1, <3>2, <3>4, <3>5 DEF NumbersReachPeers, AsksFor
  <2> QED BY <2>1, <2>3, <2>4, <2>6 DEF PeerInv
<1>3. ASSUME NEW c \in Caller, EncodeHead(c) PROVE PeerInv'
  <2>1. /\ UNCHANGED <<next_seq, call, pending_rsp, rsp, requests, responses, ret>>
        /\ pc[c] = "head" /\ \A d \in Caller : d # c => pc'[d] = pc[d]
        /\ overlap' = (overlap \/ \E d \in Caller : InBuffer(d))
        /\ buf'.seq = call[c].seq
    BY <1>3, <1>0 DEF EncodeHead, TypeOK, Calls, InBuffer
  <2>2. NumbersFresh'
    BY <1>0, <2>1, FreshKept
  <2>3. ~ overlap' => BufferIsMine'
    BY <2>1 DEF BufferIsMine, InBuffer
  <2> QED BY <2>1, <2>2, <2>3, PeersKept DEF PeerInv
<1>4. ASSUME NEW c \in Caller, EncodeTail(c) \/ SemTake(c) \/ Timeout(c) PROVE PeerInv'
  <2>1. /\ UNCHANGED <<next_seq, call, pending_rsp, rsp, requests, responses, overlap>>
        /\ buf'.seq = buf.seq /\ \A d \in Caller : InBuffer(d)' => InBuffer(d)
        /\ \A d \in Caller : Succeeded(d)' => Succeeded(d)
    BY <1>4, <1>0 DEF EncodeTail, SemTake, Timeout, TypeOK, Calls, InBuffer
  <2>2. NumbersFresh'
    BY <1>0, <2>1, FreshKept
  <2>3. BufferIsMine => BufferIsMine'
    BY <2>1 DEF BufferIsMine
  <2> QED BY <2>1, <2>2, <2>3, PeersKept DEF PeerInv
<1>5. ASSUME NEW c \in Caller, SendTo(c) PROVE PeerInv'
  <2>1. /\ UNCHANGED <<next_seq, call, pending_rsp, rsp, responses, overlap, buf>>
        /\ \A d \in Caller : InBuffer(d)' => InBuffer(d)
        /\ \A d \in Caller : Succeeded(d)' => Succeeded(d)
        /\ InBuffer(c)
    BY <1>5, <1>0 DEF SendTo, TypeOK, InBuffer
  <2>2. NumbersFresh'
    BY <1>0, <2>1, FreshKept
  <2>3. BufferIsMine => BufferIsMine'
    BY <2>1, BufferKept
  <2>4. ASSUME BufferIsMine, NumbersReachPeers PROVE NumbersReachPeers'
    <3>1. buf.seq = call[c].seq
      BY <2>1, <2>4 DEF BufferIsMine
    <3>2. call[c].seq # 0
      BY <1>0, <1>5 DEF SendTo, Numbered, Claimed
    <3>3. AsksFor(buf.seq, call[c].svc)
      BY <1>0, <3>1, <3>2 DEF AsksFor, NumbersFresh
    <3>4. \A m \in requests' : AsksFor(m.seq, m.dst)
      BY <1>5, <2>4, <3>3 DEF SendTo, NumbersReachPeers
    <3> QED BY <2>1, <2>4, <3>4 DEF NumbersReachPeers, AsksFor
  <2> QED BY <2>1, <2>2, <2>3, <2>4 DEF PeerInv
<1>6. ASSUME NEW c \in Caller, CopyOut(c) PROVE PeerInv'
  <2> DEFINE p == call[c].pri
  <2>1. /\ UNCHANGED <<next_seq, call, pending_rsp, requests, responses, overlap, buf>>
        /\ \A d \in Caller : InBuffer(d)' => InBuffer(d)
        /\ \A d \in Caller : d # c => ret'[d] = ret[d] /\ rsp'[d] = rsp[d]
        /\ rsp'[c] = pending_rsp[p] /\ p \in Priority
    BY <1>6, <1>0 DEF CopyOut, TypeOK, InBuffer, Calls
  <2>2. call[c].seq # 0
    BY <1>0, <1>6 DEF CopyOut, Numbered, Claimed
  <2>3. pending_rsp[p].seq < next_seq
    BY <2>1, SlotNumbers
  <2> HIDE DEF p
  <2>4. NumbersFresh'
    BY <1>0, <2>1, <2>2, <2>3 DEF NumbersFresh
  <2>5. BufferIsMine => BufferIsMine'
    BY <2>1, BufferKept
  <2>6. NumbersReachPeers => NumbersReachPeers'
    BY <2>1 DEF NumbersReachPeers, AsksFor
  <2> QED BY <2>1, <2>4, <2>5, <2>6 DEF PeerInv
<1>7. ASSUME NEW m \in responses, handle_response(m) PROVE PeerInv'
  <2>1. /\ UNCHANGED <<next_seq, call, rsp, ret, requests, responses, overlap, buf>>
        /\ \A d \in Caller : InBuffer(d)' => InBuffer(d)
        /\ \A q \in Priority : \/ pending_rsp'[q] = pending_rsp[q]
                               \/ pending_rsp'[q] = [from |-> m.from, seq |-> m.seq]
    BY <1>7, <1>0 DEF handle_response, SemGive, Waiting, TypeOK, InBuffer
  <2>2. NumbersFresh'
    BY <1>0, <2>1, FreshKept
  <2>3. BufferIsMine => BufferIsMine'
    BY <2>1, BufferKept
  <2>4. ASSUME NumbersReachPeers PROVE NumbersReachPeers'
    <3>1. \A q \in Priority : pending_rsp'[q] # Zeroed => AsksFor(pending_rsp'[q].seq, pending_rsp'[q].from)
      BY <2>1, <2>4 DEF NumbersReachPeers
    <3> QED BY <2>1, <2>4, <3>1 DEF NumbersReachPeers, AsksFor
  <2> QED BY <2>1, <2>2, <2>3, <2>4 DEF PeerInv
<1>8. ASSUME NEW m \in requests, PeerAnswers(m) PROVE PeerInv'
  <2>1. /\ UNCHANGED <<next_seq, call, pending_rsp, rsp, ret, requests, overlap, buf, pc>>
        /\ \A n \in responses' : n \in responses \/ (n.seq = m.seq /\ n.from = m.dst)
    BY <1>8 DEF PeerAnswers
  <2>2. NumbersFresh' /\ (BufferIsMine => BufferIsMine')
    BY <1>0, <2>1, FreshKept, BufferKept DEF InBuffer
  <2>3. NumbersReachPeers => NumbersReachPeers'
    BY <2>1 DEF NumbersReachPeers, AsksFor
  <2> QED BY <2>1, <2>2, <2>3 DEF PeerInv
<1>9. CASE UNCHANGED vars
  BY <1>9, <1>0, FreshKept, BufferKept, PeersKept DEF vars, PeerInv, InBuffer
<1> QED BY <1>1, <1>2, <1>3, <1>4, <1>5, <1>6, <1>7, <1>8, <1>9 DEF Next, Send

-----------------------------------------------------------------------------
(* The variables of the client side keep their types. *)
THEOREM TypeCorrect == Spec => []TypeOK
<1>1. IInv => TypeOK
  BY DEF IInv
<1> QED BY InitIInv, IInvStep, <1>1, PTL DEF Spec

\* However the calls interleave and the network behaves, a call never returns
\* what answers an older request.
THEOREM ClientNeverOlder == Spec => []NeverOlder
<1>1. IInv => NeverOlder
  BY DEF IInv
<1> QED BY InitIInv, IInvStep, <1>1, PTL DEF Spec

LEMMA SoleInvariant == Spec => [](IInv /\ SInv /\ PeerInv)
<1> DEFINE Inv == IInv /\ SInv /\ PeerInv
<1>1. Init => Inv
  BY InitIInv, InitSInv, InitPeerInv
<1>2. Inv /\ [Next]_vars => Inv'
  BY IInvStep, SInvStep, PeerInvStep
<1> QED BY <1>1, <1>2, PTL DEF Spec

\* A call that returns 0 to the only user of a priority returns the response to
\* its own request, whatever is lost, duplicated, delayed or reordered and whatever
\* other priorities do.
THEOREM SoleCallerSafety == Spec => []SoleOwnResponse
<1>1. SInv => SoleOwnResponse
  BY DEF SInv
<1> QED BY <1>1, SoleInvariant, PTL

\* No response is stored for the only user of a priority without waking it
\* (handle_response, between the send and the take of ceell_msg_send_pri).
THEOREM SoleCallerIsWoken == Spec => []SoleWakeup
<1>1. SInv => SoleWakeup
  BY DEF SInv
<1> QED BY <1>1, SoleInvariant, PTL

\* Until two calls meet in the buffer that ceell_msg_send_pri encodes into, its
\* response comes from the peer that the service was resolved to.
THEOREM SoleCallerReachesItsPeer == Spec => []SoleRightPeer
<1>1. IInv /\ SInv /\ PeerInv => SoleRightPeer
  <2> SUFFICES ASSUME IInv, SInv, PeerInv, NEW c \in Caller, Sole(c), ~ overlap, Succeeded(c)
               PROVE  rsp[c].from = call[c].svc
    BY DEF SoleRightPeer
  <2>1. rsp[c].seq = call[c].seq /\ call[c].seq # 0
    BY DEF SInv, SoleOwnResponse, AnswersOwn, PeerInv, NumbersFresh
  <2>2. AsksFor(rsp[c].seq, rsp[c].from)
    BY <2>1 DEF PeerInv, NumbersReachPeers, Zeroed
  <2> QED BY <2>1, <2>2 DEF AsksFor
<1> QED BY <1>1, SoleInvariant, PTL
=============================================================================
