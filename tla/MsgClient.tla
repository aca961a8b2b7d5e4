----------------------------- MODULE MsgClient -----------------------------
(***************************************************************************)
(* The client side of ceell/network/messaging.c: threads of one node that  *)
(* call ceell_msg_send_pri, the response slot each priority has, and the   *)
(* dispatcher thread that hands responses to the slots.                    *)
(*                                                                         *)
(* A priority has ONE slot, whatever the number of callers: pending_seq    *)
(* names the request whose response may be stored, pending_rsp stores it,  *)
(* rsp_sem wakes the caller.  rsp_mutex covers each access to a slot, but  *)
(* a call holds it only while it claims the slot and while it copies the   *)
(* response out; everything in between interleaves.  The buffer a request  *)
(* is encoded into is a static local that all the callers share.           *)
(***************************************************************************)
EXTENDS Naturals, FiniteSets

CONSTANTS
  Caller,     \* the threads of the node that send requests
  Priority,   \* CEELL_MSG_CRITICAL, _NORMAL, _BULK
  Peer,       \* the nodes a service may resolve to
  UsedBy,     \* [Priority -> SUBSET Caller]: who sends at which priority
  MaxSeq      \* bound: requests sent in a behaviour

ASSUME UsedByType == UsedBy \in [Priority -> SUBSET Caller]
ASSUME MaxSeqNat  == MaxSeq \in Nat
ASSUME NonEmpty   == Peer # {} /\ Priority # {}

(***************************************************************************)
(* Data.  A request is what the encoder writes; fields written first carry *)
(* the sequence number, those written last the service and the priority.   *)
(* svc is the peer whose service is asked for, so that a datagram is well  *)
(* addressed when its dst is its svc.  Sequence number 0 is the zeroed     *)
(* memory of a slot nobody has filled: next_seq starts at 1.               *)
(***************************************************************************)
Seqs     == 1..MaxSeq
Request  == [dst : Peer, seq : Seqs, svc : Peer, pri : Priority]
Response == [from : Peer, seq : Seqs, pri : Priority]
Zeroed   == [seq |-> 0]
Stored   == [from : Peer, seq : Seqs] \cup {Zeroed}

VARIABLES
  next_seq,     \* the next sequence number
  pending_seq,  \* [Priority -> 0..MaxSeq]
  pending_rsp,  \* [Priority -> Stored]
  rsp_sem,      \* [Priority -> {0, 1}]: ceell_sem_init(.., 0, 1)
  buf,          \* the static buffer of ceell_msg_send_pri, as the call it spells
  pc,           \* [Caller -> where the thread is in ceell_msg_send_pri]
  call,         \* [Caller -> arguments and locals of its current or last call]
  ret,          \* [Caller -> the value the last call returned]
  rsp,          \* [Caller -> *rsp, the caller's copy of the response]
  requests,     \* every request put on the network so far
  responses,    \* every response put on the network so far
  overlap       \* history: some call encoded over a request not yet sent

slots   == <<pending_seq, pending_rsp, rsp_sem>>
results == <<ret, rsp>>
encoder == <<buf, overlap>>
net     == <<requests, responses>>
vars    == <<next_seq, slots, encoder, pc, call, results, net>>

Steps   == {"idle", "claim", "head", "tail", "sendto", "take", "wait", "copy"}
Returns == {"none", "ok", "ENOENT", "ENOMEM", "EIO", "ETIMEDOUT"}
Calls   == [seq : 0..MaxSeq, svc : Peer, pri : Priority]
Blank   == [seq |-> 0, svc |-> CHOOSE q \in Peer : TRUE, pri |-> CHOOSE p \in Priority : TRUE]

Waiting(p) == {c \in Caller : pc[c] = "wait" /\ call[c].pri = p}

Init ==
  /\ next_seq = 1
  /\ pending_seq = [p \in Priority |-> 0]
  /\ pending_rsp = [p \in Priority |-> Zeroed]
  /\ rsp_sem = [p \in Priority |-> 0]
  /\ buf = Blank
  /\ pc = [c \in Caller |-> "idle"]
  /\ call = [c \in Caller |-> Blank]
  /\ ret = [c \in Caller |-> "none"]
  /\ rsp = [c \in Caller |-> Zeroed]
  /\ requests = {}
  /\ responses = {}
  /\ overlap = FALSE

Goto(c, step) == pc' = [pc EXCEPT ![c] = step]

(***************************************************************************)
(* ceell_msg_send_pri.                                                     *)
(***************************************************************************)

\* The call starts: the service resolves to a peer or to none (-ENOENT).
Resolve(c) ==
  /\ pc[c] = "idle"
  /\ \E p \in Priority, q \in Peer :
        /\ c \in UsedBy[p]
        /\ call' = [call EXCEPT ![c] = [seq |-> 0, svc |-> q, pri |-> p]]
  /\ rsp' = [rsp EXCEPT ![c] = Zeroed]
  /\ \/ Goto(c, "claim") /\ ret' = [ret EXCEPT ![c] = "none"]
     \/ UNCHANGED pc /\ ret' = [ret EXCEPT ![c] = "ENOENT"]
  /\ UNCHANGED <<next_seq, slots, encoder, net>>

\* Mutant: the semaphore keeps its count when the slot is claimed.
SemReset_keepsCount(c, p) ==
  /\ UNCHANGED rsp_sem
  /\ pc' = [d \in Caller |-> IF d = c THEN "head"
                             ELSE IF d \in Waiting(p) THEN "idle" ELSE pc[d]]
  /\ ret' = [d \in Caller |-> IF d \in Waiting(p) THEN "ETIMEDOUT" ELSE ret[d]]

\* ceell_sem_reset: the count is zeroed and every thread in ceell_sem_take
\* returns from it with an error, which its caller reports as a timeout.
SemReset(c, p) ==
  /\ rsp_sem' = [rsp_sem EXCEPT ![p] = 0]
  /\ pc' = [d \in Caller |-> IF d = c THEN "head"
                             ELSE IF d \in Waiting(p) THEN "idle" ELSE pc[d]]
  /\ ret' = [d \in Caller |-> IF d \in Waiting(p) THEN "ETIMEDOUT" ELSE ret[d]]

\* Under rsp_mutex: a fresh number, and the slot of the priority is taken over
\* from whoever had it.
Claim(c) ==
  /\ pc[c] = "claim"
  /\ next_seq <= MaxSeq
  /\ next_seq' = next_seq + 1
  /\ call' = [call EXCEPT ![c].seq = next_seq]
  /\ pending_seq' = [pending_seq EXCEPT ![call[c].pri] = next_seq]
  /\ pending_rsp' = [pending_rsp EXCEPT ![call[c].pri] = Zeroed]
  /\ SemReset(c, call[c].pri)
  /\ UNCHANGED <<encoder, rsp, net>>

\* json_obj_encode_buf writes type, seq and from_id first ...
EncodeHead(c) ==
  /\ pc[c] = "head"
  /\ buf' = [buf EXCEPT !.seq = call[c].seq]
  /\ overlap' = (overlap \/ \E d \in Caller : pc[d] \in {"tail", "sendto"})
  /\ Goto(c, "tail")
  /\ UNCHANGED <<next_seq, slots, call, results, net>>

\* ... then to_svc, payload, priority and the deadline; or the text does not fit.
EncodeTail(c) ==
  /\ pc[c] = "tail"
  /\ buf' = [buf EXCEPT !.svc = call[c].svc, !.pri = call[c].pri]
  /\ \/ Goto(c, "sendto") /\ UNCHANGED ret
     \/ Goto(c, "idle") /\ ret' = [ret EXCEPT ![c] = "ENOMEM"]
  /\ UNCHANGED <<next_seq, slots, overlap, call, rsp, net>>

\* ceell_sendto sends whatever the shared buffer holds to the peer resolved.
SendTo(c) ==
  /\ pc[c] = "sendto"
  /\ \/ /\ requests' = requests \cup
             {[dst |-> call[c].svc, seq |-> buf.seq, svc |-> buf.svc, pri |-> buf.pri]}
        /\ Goto(c, "take")
        /\ UNCHANGED ret
     \/ /\ Goto(c, "idle")
        /\ ret' = [ret EXCEPT ![c] = "EIO"]
        /\ UNCHANGED requests
  /\ UNCHANGED <<next_seq, slots, encoder, call, rsp, responses>>

\* ceell_sem_take: the semaphore is there already, or the thread blocks.
SemTake(c) ==
  /\ pc[c] = "take"
  /\ \/ /\ rsp_sem[call[c].pri] = 1
        /\ rsp_sem' = [rsp_sem EXCEPT ![call[c].pri] = 0]
        /\ Goto(c, "copy")
     \/ /\ rsp_sem[call[c].pri] = 0
        /\ Goto(c, "wait")
        /\ UNCHANGED rsp_sem
  /\ UNCHANGED <<next_seq, pending_seq, pending_rsp, encoder, call, results, net>>

\* Mutant: the thread waits with CEELL_FOREVER.
Timeout_forever(c) ==
  /\ pc[c] = "wait"
  /\ rsp_sem[call[c].pri] = 1
  /\ ret' = [ret EXCEPT ![c] = "ETIMEDOUT"]
  /\ Goto(c, "idle")
  /\ UNCHANGED <<next_seq, slots, encoder, call, rsp, net>>

\* The timeout of ceell_sem_take elapses: -ETIMEDOUT.
Timeout(c) ==
  /\ pc[c] = "wait"
  /\ ret' = [ret EXCEPT ![c] = "ETIMEDOUT"]
  /\ Goto(c, "idle")
  /\ UNCHANGED <<next_seq, slots, encoder, call, rsp, net>>

\* Under rsp_mutex again: the slot is copied out as it is by now.
CopyOut(c) ==
  /\ pc[c] = "copy"
  /\ rsp' = [rsp EXCEPT ![c] = pending_rsp[call[c].pri]]
  /\ ret' = [ret EXCEPT ![c] = "ok"]
  /\ Goto(c, "idle")
  /\ UNCHANGED <<next_seq, slots, encoder, call, net>>

(***************************************************************************)
(* The dispatcher and the network.                                         *)
(***************************************************************************)

\* Mutant: a condition variable, which only wakes a thread that already waits.
SemGive_onlyWakes(p) ==
  \/ \E w \in Waiting(p) : Goto(w, "copy") /\ UNCHANGED rsp_sem
  \/ Waiting(p) = {} /\ UNCHANGED <<rsp_sem, pc>>

\* k_sem_give hands the semaphore to one thread blocked on it (which one is the
\* kernel's choice, by thread priority), or else sets the count, whose limit is 1.
SemGive(p) ==
  \/ \E w \in Waiting(p) : Goto(w, "copy") /\ UNCHANGED rsp_sem
  \/ /\ Waiting(p) = {}
     /\ rsp_sem' = [rsp_sem EXCEPT ![p] = 1]
     /\ UNCHANGED pc

\* Mutants: any response is taken; any response to a request sent so far is.
Matches_any(m) == m.pri \in Priority
Matches_upTo(m) == m.seq <= pending_seq[m.pri]

\* A response that does not carry the pending number changes nothing.
Matches(m) == m.seq = pending_seq[m.pri]

handle_response(m) ==
  /\ Matches(m)
  /\ pending_rsp' = [pending_rsp EXCEPT ![m.pri] = [from |-> m.from, seq |-> m.seq]]
  /\ SemGive(m.pri)
  /\ UNCHANGED <<next_seq, pending_seq, encoder, call, results, net>>

\* The peer a request reaches answers it, with a result or with an error.
PeerAnswers(m) ==
  /\ responses' = responses \cup {[from |-> m.dst, seq |-> m.seq, pri |-> m.pri]}
  /\ UNCHANGED <<next_seq, slots, encoder, pc, call, results, requests>>

(***************************************************************************)
(* Datagrams stay in requests and responses for ever and may be received   *)
(* at any time, any number of times or never: UDP may lose, duplicate,     *)
(* delay and reorder them.                                                 *)
(***************************************************************************)
Send(c) ==
  \/ Resolve(c) \/ Claim(c) \/ EncodeHead(c) \/ EncodeTail(c)
  \/ SendTo(c) \/ SemTake(c) \/ Timeout(c) \/ CopyOut(c)

Next ==
  \/ \E c \in Caller : Send(c)
  \/ \E m \in responses : handle_response(m)
  \/ \E m \in requests : PeerAnswers(m)

Spec == Init /\ [][Next]_vars

\* Threads that are ready run, and a finite timeout elapses; a thread need not
\* start another call, and the network owes nobody a delivery.
Finish(c) ==
  EncodeHead(c) \/ EncodeTail(c) \/ SendTo(c) \/ SemTake(c) \/ Timeout(c) \/ CopyOut(c)

FairSpec == Spec /\ \A c \in Caller : WF_vars(Finish(c))

(***************************************************************************)
(* Properties.                                                             *)
(***************************************************************************)

\* Every variable of messaging.c's client side stays in its type; a semaphore
\* of limit 1 never counts past it.
TypeOK ==
  /\ next_seq \in 1..(MaxSeq + 1)
  /\ pending_seq \in [Priority -> 0..MaxSeq]
  /\ pending_rsp \in [Priority -> Stored]
  /\ rsp_sem \in [Priority -> {0, 1}]
  /\ buf \in Calls
  /\ pc \in [Caller -> Steps]
  /\ call \in [Caller -> Calls]
  /\ ret \in [Caller -> Returns]
  /\ rsp \in [Caller -> Stored]
  /\ requests \subseteq Request
  /\ responses \subseteq Response
  /\ overlap \in BOOLEAN

Succeeded(c) == ret[c] = "ok"

\* However many threads share a priority, no call returns the response to a
\* request older than its own: what an earlier user of the slot left in it, or
\* receives late, never reaches a later one.
NeverOlder == \A c \in Caller : Succeeded(c) => rsp[c] = Zeroed \/ rsp[c].seq >= call[c].seq

\* A call that returns 0 returns the response to its own request (REQ-MSG-003),
\* neither another call's nor the zeroed slot.
AnswersOwn(c) == Succeeded(c) => rsp[c].seq = call[c].seq
OwnResponse   == \A c \in Caller : AnswersOwn(c)

\* No other thread sends at the priority of c's call.
Sole(c) == \A d \in UsedBy[call[c].pri] : d = c

\* It does as long as the caller is the only user of its priority, whatever the
\* threads of the other priorities do and the network repeats or delays.
SoleOwnResponse == \A c \in Caller : Sole(c) => AnswersOwn(c)

\* Its response then also comes from the peer the service was resolved to, if no
\* two calls have met in the shared request buffer.
SoleRightPeer ==
  \A c \in Caller : Sole(c) /\ ~ overlap /\ Succeeded(c) => rsp[c].from = call[c].svc

\* A response stored for a call that is still in progress wakes it: the
\* semaphore is up for a thread about to take it, and no thread blocks with its
\* response already in the slot.
SoleWakeup ==
  \A c \in Caller :
    Sole(c) /\ pc[c] \in {"head", "tail", "sendto", "take", "wait"}
      => (pending_rsp[call[c].pri].seq = call[c].seq => rsp_sem[call[c].pri] = 1)

\* A call that claimed a slot returns, whatever the network and the other
\* callers of the priority do.
EveryCallReturns ==
  \A c \in Caller : pc[c] \notin {"idle", "claim"} ~> pc[c] = "idle"
=============================================================================
