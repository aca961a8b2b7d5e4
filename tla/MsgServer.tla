----------------------------- MODULE MsgServer -----------------------------
(***************************************************************************)
(* The server side of ceell/network/messaging.c: the dispatcher thread     *)
(* reads requests from the socket and puts them, without waiting, into the *)
(* queue of their priority; one handler thread per priority takes them     *)
(* out, checks their deadline, runs the service and answers.  Every answer *)
(* is encoded in one static buffer of send_response, which the handlers    *)
(* and the dispatcher (for "queue full") share without a lock.             *)
(***************************************************************************)
EXTENDS Integers, Sequences, FiniteSets

CONSTANTS
  Priority,  \* CEELL_MSG_CRITICAL, _NORMAL, _BULK
  Normal,    \* CEELL_MSG_NORMAL, the default
  Request,   \* the requests other nodes send, see RequestType
  Copies,    \* [Request -> Nat], a bound: how often the network delivers it
  Depth,     \* CONFIG_CEELL_MSG_QUEUE_DEPTH
  Skew,      \* [senders -> Int]: the sender's uptime minus this node's
  Returning, \* priorities whose services always return
  Wrap,      \* 2^32: a JSON number holds that many values
  Wide,      \* 2^16: a uint16_t holds 0..Wide-1
  Start,     \* the uptime a behaviour begins at
  MaxTime    \* bound: the uptime it reaches

\* src and seq identify a request: each sender numbers its own from 1.  pri may
\* be no valid priority; served says that the service is registered with a
\* handler; deadline is an int, of which 0 means none; sent is the sender's uptime.
ASSUME RequestType ==
  \A r \in Request : /\ r.src \in DOMAIN Skew /\ r.seq \in Nat
                     /\ r.served \in BOOLEAN /\ r.deadline \in Int /\ r.sent \in Nat
ASSUME SkewType      == Skew \in [DOMAIN Skew -> Int]
ASSUME NormalIsValid == Normal \in Priority /\ Returning \subseteq Priority
ASSUME FewPriorities == IsFiniteSet(Priority)
ASSUME BoundsNat     == Depth \in Nat /\ Copies \in [Request -> Nat]
ASSUME WidthsNat     == Wrap \in Nat \ {0} /\ Wide \in Nat \ {0}
ASSUME TimesNat      == Start \in Nat /\ MaxTime \in Nat /\ Start <= MaxTime

Dispatcher == "dispatcher"
ASSUME DispatcherIsNoHandler == Dispatcher \notin Priority

Thread == Priority \cup {Dispatcher}
Status == {"ok", "ETIMEDOUT", "ENOENT", "ENOMEM"}

VARIABLES
  clock,     \* this node's uptime
  arrived,   \* [Request -> copies recvfrom has returned]
  queue,     \* [Priority -> Seq(Request)]: crit_msgq, norm_msgq, bulk_msgq
  thread,    \* [Thread -> where it is, the request it works on, its answer,
             \*            and the time it took the request]
  buf,       \* the static buffer of send_response
  overlap,   \* history: some response was encoded while another was in buf
  sent,      \* the set of responses sent
  executed,  \* history: [req, since] of the service handlers run
  refused,   \* history: the requests answered ETIMEDOUT before their deadline
  answered   \* history: [Request -> send_response calls completed for it]

encoder == <<buf, overlap>>
handled == <<executed, refused>>
vars == <<clock, arrived, queue, thread, encoder, sent, handled, answered>>

NoRequest == [src |-> "nobody", seq |-> 0]
Idle      == [at |-> "idle", item |-> NoRequest, status |-> "ok", since |-> 0]
ASSUME NoRequestIsNone == NoRequest \notin Request
Id(r)     == <<r.src, r.seq>>

Init ==
  /\ clock = Start
  /\ arrived = [r \in Request |-> 0]
  /\ queue = [p \in Priority |-> << >>]
  /\ thread = [t \in Thread |-> Idle]
  /\ buf = [seq |-> 0, status |-> "ok", body |-> Id(NoRequest)]
  /\ overlap = FALSE
  /\ sent = {}
  /\ executed = {} /\ refused = {}
  /\ answered = [r \in Request |-> 0]

Goto(t, step)    == thread' = [thread EXCEPT ![t].at = step]
Answer(t, r, st) == [thread[t] EXCEPT !.at = "head", !.item = r, !.status = st]

(***************************************************************************)
(* msg_dispatcher_fn.  A request arrives at any time after it was sent, in *)
(* any order, more than once, or never.                                    *)
(***************************************************************************)
CanArrive(r) == arrived[r] < Copies[r] /\ clock + Skew[r.src] >= r.sent

\* Mutant: the valid priority is not taken over from the message.
PriorityOf_default(r) == Normal

\* A priority out of range counts as NORMAL.
PriorityOf(r) == IF r.pri \in Priority THEN r.pri ELSE Normal

\* Mutant: off by one at a full queue.
Full_offByOne(p) == Len(queue[p]) > Depth

\* ceell_msgq_put with CEELL_NO_WAIT fails.
Full(p) == Len(queue[p]) >= Depth

\* Mutants: no answer; waiting for room (from which this model never returns).
Refuse_silently(r) == UNCHANGED thread
Refuse_waits(r) == thread' = [thread EXCEPT ![Dispatcher].at = "run", ![Dispatcher].item = r]

Refuse(r) == thread' = [thread EXCEPT ![Dispatcher] = Answer(Dispatcher, r, "ENOMEM")]

Dispatch(r) ==
  LET p == PriorityOf(r)
  IN  /\ thread[Dispatcher].at = "idle" /\ CanArrive(r)
      /\ arrived' = [arrived EXCEPT ![r] = @ + 1]
      /\ \/ ~ Full(p) /\ queue' = [queue EXCEPT ![p] = Append(@, r)] /\ UNCHANGED thread
         \/ Full(p) /\ Refuse(r) /\ UNCHANGED queue
      /\ UNCHANGED <<clock, encoder, sent, handled, answered>>

(***************************************************************************)
(* handler_thread_fn of priority p.                                        *)
(***************************************************************************)
MsgqGet(p) ==
  /\ thread[p].at = "idle"
  /\ queue[p] # << >>
  /\ queue' = [queue EXCEPT ![p] = Tail(@)]
  /\ thread' = [thread EXCEPT ![p].at = "check", ![p].item = Head(queue[p]), ![p].since = clock]
  /\ UNCHANGED <<clock, arrived, encoder, sent, handled, answered>>

\* The uptime goes through a JSON number of 32 bits, both to and from an int64_t whose
\* upper half is 0.
OnWire(t) == t % Wrap

\* The handler's (uint16_t)item.deadline_ms, when the int is positive: a multiple of
\* Wide becomes 0, no deadline.
Deadline(r) == IF r.deadline > 0 THEN r.deadline % Wide ELSE 0

\* Mutant: the boundary does not count as expired.
DeadlineExpired_after(r) == Deadline(r) # 0 /\ clock > OnWire(r.sent) + Deadline(r)

\* ceell_msg_deadline_expired compares the SENDER's uptime with this node's.
DeadlineExpired(r) == Deadline(r) # 0 /\ clock >= OnWire(r.sent) + Deadline(r)

\* Deadline, then ceell_service_get_handler.
Check(p) ==
  /\ thread[p].at = "check"
  /\ LET r == thread[p].item
     IN  \/ DeadlineExpired(r) /\ thread' = [thread EXCEPT ![p] = Answer(p, r, "ETIMEDOUT")]
         \/ /\ ~ DeadlineExpired(r) /\ ~ r.served
            /\ thread' = [thread EXCEPT ![p] = Answer(p, r, "ENOENT")]
         \/ ~ DeadlineExpired(r) /\ r.served /\ Goto(p, "run")
  /\ refused' = refused \cup
       {r \in Request : r = thread[p].item /\ DeadlineExpired(r) /\ clock + Skew[r.src] < r.sent + r.deadline}
  /\ UNCHANGED <<clock, arrived, queue, encoder, sent, executed, answered>>

\* The service's own code runs; what it returns is the status "ok".
Run(p) ==
  /\ thread[p].at = "run"
  /\ executed' = executed \cup {[req |-> thread[p].item, since |-> thread[p].since]}
  /\ thread' = [thread EXCEPT ![p] = Answer(p, thread[p].item, "ok")]
  /\ UNCHANGED <<clock, arrived, queue, encoder, sent, refused, answered>>

(***************************************************************************)
(* send_response, in thread t: json_obj_encode_buf writes type, seq,       *)
(* from_id and status first, then payload and priority; then ceell_sendto. *)
(***************************************************************************)

Overlaps(t) == \E u \in Thread \ {t} : thread[u].at \in {"tail", "sendto"}

\* Mutant: the status is left from the response encoded before.
EncodeHead_keepsStatus(t) ==
  /\ thread[t].at = "head"
  /\ overlap' = (overlap \/ Overlaps(t))
  /\ buf' = [buf EXCEPT !.seq = thread[t].item.seq]
  /\ Goto(t, "tail")
  /\ UNCHANGED <<clock, arrived, queue, sent, handled, answered>>

EncodeHead(t) ==
  /\ thread[t].at = "head"
  /\ overlap' = (overlap \/ Overlaps(t))
  /\ buf' = [buf EXCEPT !.seq = thread[t].item.seq, !.status = thread[t].status]
  /\ Goto(t, "tail")
  /\ UNCHANGED <<clock, arrived, queue, sent, handled, answered>>

EncodeTail(t) ==
  /\ thread[t].at = "tail"
  /\ buf' = [buf EXCEPT !.body = Id(thread[t].item)]
  /\ Goto(t, "sendto")
  /\ UNCHANGED <<clock, arrived, queue, overlap, sent, handled, answered>>

SendTo(t) ==
  /\ thread[t].at = "sendto"
  /\ sent' = sent \cup {[dst |-> thread[t].item.src, seq |-> buf.seq, status |-> buf.status,
                         body |-> buf.body]}
  /\ answered' = [answered EXCEPT ![thread[t].item] = @ + 1]
  /\ thread' = [thread EXCEPT ![t] = Idle]
  /\ UNCHANGED <<clock, arrived, queue, encoder, handled>>

SendResponse(t) == EncodeHead(t) \/ EncodeTail(t) \/ SendTo(t)

Tick ==
  /\ clock < MaxTime
  /\ clock' = clock + 1
  /\ UNCHANGED <<arrived, queue, thread, encoder, sent, handled, answered>>

Next ==
  \/ Tick
  \/ \E r \in Request : Dispatch(r)
  \/ \E p \in Priority : MsgqGet(p) \/ Check(p) \/ Run(p)
  \/ \E t \in Thread : SendResponse(t)

Spec == Init /\ [][Next]_vars

\* Every thread gets the processor, the kernel's code returns, and so do the
\* services of the priorities Returning; the network owes no request.
FairSpec ==
  /\ Spec
  /\ \A t \in Thread : WF_vars(SendResponse(t))
  /\ \A p \in Priority : WF_vars(MsgqGet(p)) /\ WF_vars(Check(p))
  /\ \A p \in Returning : WF_vars(Run(p))

(***************************************************************************)
(* Properties.                                                             *)
(***************************************************************************)
ThreadState ==
  [at : {"idle", "check", "run", "head", "tail", "sendto"}, item : Request \cup {NoRequest},
   status : Status, since : 0..MaxTime]

TypeOK ==
  /\ clock \in Start..MaxTime
  /\ arrived \in [Request -> Nat] /\ answered \in [Request -> Nat]
  /\ \A r \in Request : arrived[r] <= Copies[r]
  /\ queue \in [Priority -> Seq(Request)]
  /\ \A p \in Priority : Len(queue[p]) <= Depth
  /\ thread \in [Thread -> ThreadState]
  /\ buf \in [seq : Nat, status : Status, body : {Id(r) : r \in Request \cup {NoRequest}}]
  /\ overlap \in BOOLEAN
  /\ executed \subseteq [req : Request, since : 0..MaxTime] /\ refused \subseteq Request

\* Every copy received is queued, being worked on, or was answered, and no copy
\* is two of these: a full queue, an expired deadline and an unknown service
\* each cost exactly one answer.
Queued(r) == {c \in Priority \X (1..Depth) : c[2] <= Len(queue[c[1]]) /\ queue[c[1]][c[2]] = r}
Held(r)   == {t \in Thread : thread[t].item = r}
OneAnswerPerCopy ==
  \A r \in Request : arrived[r] = answered[r] + Cardinality(Queued(r)) + Cardinality(Held(r))

\* A response that reports success goes to the node whose request was executed,
\* under that request's number, and carries that request's payload.
OkMeansExecuted ==
  \A s \in sent : s.status = "ok" => /\ s.body = <<s.dst, s.seq>>
                                     /\ \E e \in executed : Id(e.req) = <<s.dst, s.seq>>

\* The same of every response sent before two were ever in the static buffer of
\* send_response at once.
SoleOkMeansExecuted == ~ overlap => OkMeansExecuted

\* A request whose deadline had passed, on its sender's clock, when the handler
\* took it from the queue is not executed, unless the cast to uint16_t left no deadline,
\* as it does of multiples of 2^16.  One is refused before its deadline only if its
\* sender's uptime did not fit the number it was sent in, or its deadline the cast.
DeadlineHonoured ==
  /\ \A e \in executed :
       e.req.deadline > 0 /\ e.req.deadline % Wide # 0
         => e.since + Skew[e.req.src] < e.req.sent + e.req.deadline
  /\ \A r \in refused : r.sent >= Wrap \/ r.deadline >= Wide

\* The dispatcher always gets back to the socket, whatever the handlers do and
\* however full their queues are.
DispatcherReturns == []<>(thread[Dispatcher].at = "idle")

\* Each copy of a request of a priority whose services return is answered, even
\* while the services of another priority hang and its queue is full.
ReturningAnswered ==
  \A r \in Request : \A c \in 1..Copies[r] :
    r.pri \in Returning => (arrived[r] >= c ~> answered[r] >= c)
=============================================================================
