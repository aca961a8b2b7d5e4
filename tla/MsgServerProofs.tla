-------------------------- MODULE MsgServerProofs --------------------------
(***************************************************************************)
(* Theorems about MsgServer, for every set of priorities and requests,     *)
(* queue depth and number of copies.                                       *)
(***************************************************************************)
EXTENDS MsgServer, FunctionTheorems, FiniteSetTheorems, TLAPS

(***************************************************************************)
(* Types.                                                                  *)
(***************************************************************************)
Working == [at : {"check", "run", "head", "tail", "sendto"}, item : Request, status : Status, since : 0..MaxTime]

\* A thread that is not idle works on a request; the dispatcher only on answers.
ThreadsWork ==
  /\ \A t \in Thread : thread[t] = Idle \/ thread[t] \in Working
  /\ thread[Dispatcher].at \notin {"check", "run"}

Typed == TypeOK /\ ThreadsWork

LEMMA IdleIsTyped == Idle \in ThreadState /\ \A w \in Working : w \in ThreadState /\ w # Idle
  <1>1. 0 \in 0..MaxTime BY TimesNat
  <1>2. QED BY <1>1 DEF Idle, ThreadState, Working, Status

\* To show the types it is enough to look at the thread that moves.
LEMMA OneMoves ==
  ASSUME Typed, NEW t \in Thread, NEW w, w = Idle \/ w \in Working,
         t = Dispatcher => w.at \notin {"check", "run"},
         thread' = [thread EXCEPT ![t] = w]
  PROVE  thread' \in [Thread -> ThreadState] /\ ThreadsWork'
  <1>1. thread \in [Thread -> ThreadState] BY DEF Typed, TypeOK
  <1>2. w \in ThreadState BY IdleIsTyped
  <1>3. thread' \in [Thread -> ThreadState] BY <1>1, <1>2
  <1>4. \A u \in Thread : thread'[u] = IF u = t THEN w ELSE thread[u] BY <1>1
  <1>5. Dispatcher \in Thread BY DEF Thread
  <1>6. QED BY <1>3, <1>4, <1>5 DEF Typed, ThreadsWork

LEMMA TypeInit == Init => Typed
  <1> SUFFICES ASSUME Init PROVE Typed
    OBVIOUS
  <1>1. clock \in Start..MaxTime /\ arrived \in [Request -> Nat] /\ answered \in [Request -> Nat]
        /\ executed = {} /\ refused = {}
    BY TimesNat DEF Init
  <1>2. \A r \in Request : arrived[r] <= Copies[r] BY BoundsNat DEF Init
  <1>3. queue \in [Priority -> Seq(Request)] /\ \A p \in Priority : Len(queue[p]) <= Depth
    BY BoundsNat DEF Init
  <1>4. thread \in [Thread -> ThreadState] BY IdleIsTyped DEF Init
  <1>5. buf \in [seq : Nat, status : Status, body : {Id(r) : r \in Request \cup {NoRequest}}]
    <2> DEFINE B == {Id(r) : r \in Request \cup {NoRequest}}
    <2>1. Id(NoRequest) \in B /\ "ok" \in Status BY DEF Status
    <2>2. buf = [seq |-> 0, status |-> "ok", body |-> Id(NoRequest)] BY DEF Init
    <2> HIDE DEF B
    <2>3. buf \in [seq : Nat, status : Status, body : B] BY <2>1, <2>2
    <2>4. QED BY <2>3 DEF B
  <1>6. overlap \in BOOLEAN BY Zenon DEF Init
  <1>7. ThreadsWork BY DEF Init, ThreadsWork, Thread, Idle
  <1>8. QED BY <1>1, <1>2, <1>3, <1>4, <1>5, <1>6, <1>7 DEF Typed, TypeOK

LEMMA TypeDispatch == ASSUME Typed, NEW r \in Request, Dispatch(r) PROVE Typed'
  <1> DEFINE p == PriorityOf(r)
  <1>1. p \in Priority BY NormalIsValid DEF PriorityOf
  <1>2. arrived' \in [Request -> Nat] /\ \A q \in Request : arrived'[q] <= Copies[q]
    <2>1. arrived \in [Request -> Nat] /\ \A q \in Request : arrived[q] <= Copies[q] BY DEF Typed, TypeOK
    <2>2. arrived' = [arrived EXCEPT ![r] = @ + 1] /\ arrived[r] < Copies[r] BY DEF Dispatch, CanArrive
    <2>3. \A q \in Request : arrived'[q] = IF q = r THEN arrived[r] + 1 ELSE arrived[q] BY <2>1, <2>2
    <2>4. \A q \in Request : arrived[q] \in Nat /\ Copies[q] \in Nat BY <2>1, BoundsNat
    <2>5. arrived' \in [Request -> Nat] BY <2>1, <2>2
    <2>6. QED BY <2>1, <2>2, <2>3, <2>4, <2>5
  <1>3. UNCHANGED <<clock, buf, overlap, sent, executed, refused, answered>>
    BY DEF Dispatch, encoder, handled
  <1>4. Dispatcher \in Thread BY DEF Thread
  <1> HIDE DEF p
  <1>5. CASE ~ Full(p) /\ queue' = [queue EXCEPT ![p] = Append(@, r)] /\ UNCHANGED thread
    <2>1. queue' \in [Priority -> Seq(Request)] BY <1>1, <1>5 DEF Typed, TypeOK
    <2>2. ASSUME NEW q \in Priority PROVE Len(queue'[q]) <= Depth
      <3>1. queue[q] \in Seq(Request) /\ Len(queue[q]) <= Depth BY DEF Typed, TypeOK
      <3>2. CASE q = p
        <4>1. Len(queue[p]) < Depth BY <1>5, <3>1, <3>2, BoundsNat DEF Full
        <4>2. queue'[q] = Append(queue[p], r) BY <1>1, <1>5, <3>2 DEF Typed, TypeOK
        <4>3. QED BY <3>1, <3>2, <4>1, <4>2, BoundsNat
      <3>3. CASE q # p BY <1>1, <1>5, <3>1, <3>3 DEF Typed, TypeOK
      <3>4. QED BY <3>2, <3>3
    <2>3. QED BY <1>2, <1>3, <1>5, <2>1, <2>2 DEF Typed, TypeOK, ThreadsWork
  <1>6. CASE Full(p) /\ Refuse(r) /\ UNCHANGED queue
    <2> DEFINE w == Answer(Dispatcher, r, "ENOMEM")
    <2>1. thread[Dispatcher] \in ThreadState BY <1>4 DEF Typed, TypeOK
    <2>2. w \in Working /\ w.at = "head" BY <2>1 DEF Answer, Working, ThreadState, Status
    <2>3. thread' = [thread EXCEPT ![Dispatcher] = w] BY <1>6 DEF Refuse
    <2> HIDE DEF w
    <2>4. thread' \in [Thread -> ThreadState] /\ ThreadsWork' BY <1>4, <2>2, <2>3, OneMoves
    <2>5. QED BY <1>2, <1>3, <1>6, <2>4 DEF Typed, TypeOK
  <1>7. QED BY <1>5, <1>6 DEF Dispatch, p

LEMMA TypeGet == ASSUME Typed, NEW p \in Priority, MsgqGet(p) PROVE Typed'
  <1> DEFINE w == [thread[p] EXCEPT !.at = "check", !.item = Head(queue[p]), !.since = clock]
  <1>1. p \in Thread /\ p # Dispatcher BY DispatcherIsNoHandler DEF Thread
  <1>2. thread[p] \in ThreadState /\ queue \in [Priority -> Seq(Request)] /\ clock \in Start..MaxTime
    BY <1>1 DEF Typed, TypeOK
  <1>3. queue[p] \in Seq(Request) /\ queue[p] # << >> BY <1>2 DEF MsgqGet
  <1>4. Head(queue[p]) \in Request /\ Tail(queue[p]) \in Seq(Request) /\ Len(Tail(queue[p])) <= Len(queue[p])
    BY <1>3
  <1>5. clock \in 0..MaxTime BY <1>2, TimesNat
  <1>6. w \in Working BY <1>2, <1>4, <1>5 DEF ThreadState, Working
  <1>7. thread' = [thread EXCEPT ![p] = w] BY DEF MsgqGet
  <1> HIDE DEF w
  <1>8. thread' \in [Thread -> ThreadState] /\ ThreadsWork' BY <1>1, <1>6, <1>7, OneMoves
  <1>9. queue' \in [Priority -> Seq(Request)] /\ \A q \in Priority : Len(queue'[q]) <= Depth
    <2>1. queue' = [queue EXCEPT ![p] = Tail(queue[p])] BY DEF MsgqGet
    <2>2. queue' \in [Priority -> Seq(Request)] BY <1>2, <1>4, <2>1
    <2>3. ASSUME NEW q \in Priority PROVE Len(queue'[q]) <= Depth
      <3>1. Len(queue[q]) <= Depth /\ Len(queue[q]) \in Nat BY <1>2 DEF Typed, TypeOK
      <3>2. queue'[q] = IF q = p THEN Tail(queue[p]) ELSE queue[q] BY <1>2, <2>1
      <3>3. QED BY <1>4, <3>1, <3>2, BoundsNat
    <2>4. QED BY <2>2, <2>3
  <1>10. QED BY <1>8, <1>9 DEF Typed, TypeOK, MsgqGet, encoder, handled

LEMMA TypeCheck == ASSUME Typed, NEW p \in Priority, Check(p) PROVE Typed'
  <1>1. p \in Thread /\ p # Dispatcher BY DispatcherIsNoHandler DEF Thread
  <1>2. thread[p] \in Working BY <1>1 DEF Typed, ThreadsWork, Check, Idle
  <1>3. PICK w \in Working : thread' = [thread EXCEPT ![p] = w]
    <2>1. [thread[p] EXCEPT !.at = "run"] \in Working BY <1>2 DEF Working
    <2>2. \A st \in Status : Answer(p, thread[p].item, st) \in Working BY <1>2 DEF Working, Answer
    <2>3. thread' = [thread EXCEPT ![p] = [thread[p] EXCEPT !.at = "run"]]
          \/ \E st \in Status : thread' = [thread EXCEPT ![p] = Answer(p, thread[p].item, st)]
      BY DEF Check, Goto, Status
    <2>4. QED BY <2>1, <2>2, <2>3
  <1>4. thread' \in [Thread -> ThreadState] /\ ThreadsWork' BY <1>1, <1>3, OneMoves
  <1>5. refused' \subseteq Request BY DEF Typed, TypeOK, Check
  <1>6. QED BY <1>4, <1>5 DEF Typed, TypeOK, Check, encoder

LEMMA TypeRun == ASSUME Typed, NEW p \in Priority, Run(p) PROVE Typed'
  <1>1. p \in Thread /\ p # Dispatcher BY DispatcherIsNoHandler DEF Thread
  <1>2. thread[p] \in Working BY <1>1 DEF Typed, ThreadsWork, Run, Idle
  <1> DEFINE w == Answer(p, thread[p].item, "ok")
  <1>3. w \in Working BY <1>2 DEF Answer, Working, Status
  <1>4. thread' = [thread EXCEPT ![p] = w] BY DEF Run
  <1> HIDE DEF w
  <1>5. thread' \in [Thread -> ThreadState] /\ ThreadsWork' BY <1>1, <1>3, <1>4, OneMoves
  <1>6. executed' \subseteq [req : Request, since : 0..MaxTime]
    BY <1>2 DEF Typed, TypeOK, Run, Working
  <1>7. QED BY <1>5, <1>6 DEF Typed, TypeOK, Run, encoder

LEMMA TypeSend == ASSUME Typed, NEW t \in Thread, SendResponse(t) PROVE Typed'
  <1>1. thread[t] \in Working
    BY DEF Typed, ThreadsWork, SendResponse, EncodeHead, EncodeTail, SendTo, Idle
  <1>2. ASSUME NEW step \in {"tail", "sendto"}, Goto(t, step)
        PROVE  thread' \in [Thread -> ThreadState] /\ ThreadsWork'
    <2> DEFINE w == [thread[t] EXCEPT !.at = step]
    <2>1. w \in Working /\ w.at = step BY <1>1 DEF Working
    <2>2. thread' = [thread EXCEPT ![t] = w] BY <1>2 DEF Goto
    <2> HIDE DEF w
    <2>3. QED BY <2>1, <2>2, OneMoves
  <1> DEFINE B == {Id(r) : r \in Request \cup {NoRequest}}
  <1>3. buf \in [seq : Nat, status : Status, body : B] BY DEF Typed, TypeOK
  <1>4. thread[t].item \in Request /\ thread[t].item.seq \in Nat /\ thread[t].status \in Status
        /\ Id(thread[t].item) \in B
    <2>1. thread[t].item \in Request /\ thread[t].status \in Status BY <1>1 DEF Working
    <2>2. QED BY <2>1, RequestType
  <1> HIDE DEF B
  <1>5. CASE EncodeHead(t)
    <2>1. buf' \in [seq : Nat, status : Status, body : B] BY <1>3, <1>4, <1>5 DEF EncodeHead
    <2>2. overlap' \in BOOLEAN
      <3>1. overlap' = (overlap \/ Overlaps(t)) BY <1>5 DEF EncodeHead
      <3>2. QED BY <3>1, Zenon
    <2>3. thread' \in [Thread -> ThreadState] /\ ThreadsWork' BY <1>2, <1>5 DEF EncodeHead
    <2>4. QED BY <1>5, <2>1, <2>2, <2>3 DEF Typed, TypeOK, EncodeHead, handled, B
  <1>6. CASE EncodeTail(t)
    <2>1. buf' \in [seq : Nat, status : Status, body : B] BY <1>3, <1>4, <1>6 DEF EncodeTail
    <2>2. thread' \in [Thread -> ThreadState] /\ ThreadsWork' BY <1>2, <1>6 DEF EncodeTail
    <2>3. QED BY <1>6, <2>1, <2>2 DEF Typed, TypeOK, EncodeTail, handled, B
  <1>7. CASE SendTo(t)
    <2>1. thread' = [thread EXCEPT ![t] = Idle] BY <1>7 DEF SendTo
    <2>2. Idle.at = "idle" BY DEF Idle
    <2>3. thread' \in [Thread -> ThreadState] /\ ThreadsWork' BY <2>1, <2>2, OneMoves
    <2>4. answered' \in [Request -> Nat] BY <1>4, <1>7 DEF Typed, TypeOK, SendTo
    <2>5. QED BY <1>7, <2>3, <2>4 DEF Typed, TypeOK, SendTo, encoder, handled
  <1>8. QED BY <1>5, <1>6, <1>7 DEF SendResponse

LEMMA TypeStep == Typed /\ [Next]_vars => Typed'
  <1> SUFFICES ASSUME Typed, [Next]_vars PROVE Typed'
    OBVIOUS
  <1>1. CASE UNCHANGED vars
    BY <1>1 DEF vars, encoder, handled, Typed, TypeOK, ThreadsWork
  <1>2. CASE Tick
    <2>1. clock' \in Start..MaxTime BY <1>2, TimesNat DEF Tick, Typed, TypeOK
    <2>2. QED BY <1>2, <2>1 DEF Tick, encoder, handled, Typed, TypeOK, ThreadsWork
  <1>3. QED
    BY <1>1, <1>2, TypeDispatch, TypeGet, TypeCheck, TypeRun, TypeSend DEF Next

\* No queue ever holds more than its depth, and every thread that is not idle works on
\* a request.
THEOREM TypeCorrect == Spec => []TypeOK
  <1>1. Typed => TypeOK BY DEF Typed
  <1>2. QED BY <1>1, TypeInit, TypeStep, PTL DEF Spec

(***************************************************************************)
(* Deadlines, between nodes whose clocks agree.                            *)
(***************************************************************************)
HasDeadline(r) == r.deadline > 0 /\ r.deadline % Wide # 0

\* A request that is being run had not expired when it was taken from the queue.
InTime ==
  \A p \in Priority :
    /\ thread[p].since <= clock
    /\ thread[p].at = "run" /\ HasDeadline(thread[p].item) =>
         thread[p].since < thread[p].item.sent + thread[p].item.deadline

DeadlineInv == Typed /\ InTime /\ DeadlineHonoured

\* The wire never makes a time later, and keeps one that fits.
LEMMA WireBounds ==
  ASSUME NEW t \in Nat PROVE OnWire(t) \in Nat /\ OnWire(t) <= t /\ (t < Wrap => OnWire(t) = t)
  <1>1. Wrap \in Nat \ {0} BY WidthsNat
  <1>2. \A d \in Nat \ {0}, n \in Nat : n % d \in Nat /\ n % d <= n /\ (n < d => n % d = n) BY SMT
  <1>3. QED BY <1>1, <1>2 DEF OnWire

\* Nor does the cast make a deadline longer, and it keeps one that fits.
LEMMA CastBounds ==
  ASSUME NEW r, r.deadline \in Int
  PROVE  /\ Deadline(r) \in Nat /\ (Deadline(r) # 0 <=> HasDeadline(r))
         /\ HasDeadline(r) => Deadline(r) <= r.deadline
         /\ HasDeadline(r) /\ r.deadline < Wide => Deadline(r) = r.deadline
  <1>1. Wide \in Nat \ {0} BY WidthsNat
  <1>2. \A d \in Nat \ {0}, n \in Nat : n % d \in Nat /\ n % d <= n /\ (n < d => n % d = n) BY SMT
  <1>3. CASE r.deadline > 0
    <2>1. r.deadline \in Nat /\ Deadline(r) = r.deadline % Wide BY <1>3 DEF Deadline
    <2>2. QED BY <1>1, <1>2, <1>3, <2>1 DEF HasDeadline
  <1>4. CASE ~ (r.deadline > 0) BY <1>4 DEF Deadline, HasDeadline
  <1>5. QED BY <1>3, <1>4

LEMMA DeadlineStep ==
  ASSUME \A s \in DOMAIN Skew : Skew[s] = 0
  PROVE  DeadlineInv /\ [Next]_vars => DeadlineInv'
  <1> SUFFICES ASSUME DeadlineInv, [Next]_vars PROVE DeadlineInv'
    OBVIOUS
  <1>1. Typed /\ Typed' /\ InTime /\ DeadlineHonoured BY TypeStep DEF DeadlineInv
  <1> SUFFICES InTime' /\ DeadlineHonoured'
    BY <1>1 DEF DeadlineInv
  <1>2. /\ \A t \in Thread : thread[t] \in ThreadState /\ thread'[t] \in ThreadState
        /\ thread \in [Thread -> ThreadState] /\ clock \in Nat /\ Priority \subseteq Thread
    BY <1>1, TimesNat DEF Typed, TypeOK, Thread
  <1>3. \A p \in Priority : thread[p].since \in Nat BY <1>2 DEF ThreadState
  \* A step in which a thread does not start to run.
  <1>4. ASSUME clock' = clock \/ clock' = clock + 1, UNCHANGED handled,
               \A p \in Priority : \/ thread'[p].at # "run" /\ thread'[p].since <= clock
                                   \/ thread'[p] = thread[p]
        PROVE  InTime' /\ DeadlineHonoured'
    <2>1. DeadlineHonoured' BY <1>1, <1>4 DEF DeadlineHonoured, handled
    <2>2. InTime'
      <3> SUFFICES ASSUME NEW p \in Priority
                   PROVE  /\ thread'[p].since <= clock'
                          /\ thread'[p].at = "run" /\ HasDeadline(thread'[p].item) =>
                               thread'[p].since < thread'[p].item.sent + thread'[p].item.deadline
        BY DEF InTime, HasDeadline
      <3>1. thread'[p].since \in Nat BY <1>2 DEF ThreadState
      <3>2. CASE thread'[p] = thread[p] BY <1>1, <1>2, <1>3, <1>4, <3>2 DEF InTime
      <3>3. CASE thread'[p].at # "run" /\ thread'[p].since <= clock BY <1>2, <1>4, <3>1, <3>3
      <3>4. QED BY <1>4, <3>2, <3>3
    <2>3. QED BY <2>1, <2>2
  <1>5. ASSUME NEW p \in Priority, Check(p) PROVE InTime' /\ DeadlineHonoured'
    <2> DEFINE r == thread[p].item
    <2>1. r \in Request /\ r.sent \in Nat /\ r.deadline \in Int /\ r.src \in DOMAIN Skew
      <3>1. thread[p] \in Working BY <1>1, <1>2, <1>5 DEF Typed, ThreadsWork, Check, Idle
      <3>2. r \in Request BY <3>1 DEF Working
      <3>3. QED BY <3>2, RequestType
    <2>2. thread[p].since <= clock /\ UNCHANGED <<clock, executed>> BY <1>1, <1>5 DEF InTime, Check
    <2>3. Skew[r.src] = 0 BY <2>1
    <2>4. OnWire(r.sent) \in Nat /\ OnWire(r.sent) <= r.sent /\ (r.sent < Wrap => OnWire(r.sent) = r.sent)
      BY <2>1, WireBounds
    <2>40. /\ Deadline(r) \in Nat /\ (Deadline(r) # 0 <=> HasDeadline(r))
           /\ HasDeadline(r) => Deadline(r) <= r.deadline
           /\ HasDeadline(r) /\ r.deadline < Wide => Deadline(r) = r.deadline
      BY <2>1, CastBounds
    <2>5. \A q \in Priority \ {p} : thread'[q] = thread[q] BY <1>2, <1>5 DEF Check, Goto
    <2>6. thread'[p].since = thread[p].since /\ (thread'[p].at = "run" => thread'[p].item = r /\ ~ DeadlineExpired(r))
      <3>1. p \in Thread /\ thread[p] \in ThreadState BY <1>2
      <3>2. CASE ~ DeadlineExpired(r) /\ Goto(p, "run") BY <1>2, <3>1, <3>2 DEF Goto, ThreadState
      <3>3. ASSUME NEW st \in Status, thread' = [thread EXCEPT ![p] = Answer(p, r, st)]
            PROVE  thread'[p].since = thread[p].since /\ thread'[p].at # "run"
        BY <1>2, <3>1, <3>3 DEF Answer, ThreadState
      <3>4. QED BY <1>5, <3>2, <3>3 DEF Check, Status
    <2>7. InTime'
      <3>1. ASSUME thread'[p].at = "run", HasDeadline(r) PROVE thread'[p].since < r.sent + r.deadline
        <4>1. Deadline(r) # 0 /\ Deadline(r) <= r.deadline BY <2>40, <3>1
        <4>2. clock < OnWire(r.sent) + Deadline(r) BY <1>2, <2>4, <2>6, <2>40, <3>1, <4>1 DEF DeadlineExpired
        <4>3. QED BY <1>2, <1>3, <2>1, <2>2, <2>4, <2>6, <2>40, <4>1, <4>2
      <3>2. QED BY <1>1, <2>2, <2>5, <2>6, <3>1 DEF InTime
    <2>8. \A q \in refused' : q.sent >= Wrap \/ q.deadline >= Wide
      <3>1. ASSUME NEW q \in refused', q \notin refused PROVE q.sent >= Wrap \/ q.deadline >= Wide
        <4>1. q = r /\ DeadlineExpired(r) /\ clock + Skew[r.src] < r.sent + r.deadline
          BY <1>5, <3>1 DEF Check
        <4>2. HasDeadline(r) /\ clock >= OnWire(r.sent) + Deadline(r) BY <2>40, <4>1 DEF DeadlineExpired
        <4>3. QED BY <1>2, <2>1, <2>3, <2>4, <2>40, <4>1, <4>2, WidthsNat
      <3>2. QED BY <1>1, <3>1 DEF DeadlineHonoured
    <2>9. QED BY <1>1, <2>2, <2>7, <2>8 DEF DeadlineHonoured
  <1>6. ASSUME NEW p \in Priority, Run(p) PROVE InTime' /\ DeadlineHonoured'
    <2> DEFINE r == thread[p].item
    <2>1. r \in Request
      <3>1. thread[p] \in Working BY <1>1, <1>2, <1>6 DEF Typed, ThreadsWork, Run, Idle
      <3>2. QED BY <3>1 DEF Working
    <2>2. Skew[r.src] = 0 BY <2>1, RequestType
    <2>3. HasDeadline(r) => thread[p].since + Skew[r.src] < r.sent + r.deadline
      BY <1>1, <1>2, <1>3, <1>6, <2>2 DEF InTime, Run
    <2>4. executed' = executed \cup {[req |-> r, since |-> thread[p].since]} /\ UNCHANGED <<clock, refused>>
      BY <1>6 DEF Run
    <2>5. DeadlineHonoured' BY <1>1, <2>3, <2>4 DEF DeadlineHonoured, HasDeadline
    <2>6. \A q \in Priority : thread'[q].since = thread[q].since /\ (thread'[q].at = "run" => thread'[q] = thread[q])
      BY <1>2, <1>6 DEF Run, Answer
    <2>7. InTime' BY <1>1, <2>4, <2>6 DEF InTime
    <2>8. QED BY <2>5, <2>7
  <1>7. CASE \E r \in Request : Dispatch(r)
    <2>1. UNCHANGED <<clock, handled>> /\ \A p \in Priority : thread'[p] = thread[p]
      BY <1>2, <1>7, DispatcherIsNoHandler DEF Dispatch, Refuse, handled
    <2>2. QED BY <1>4, <2>1
  <1>8. CASE \E p \in Priority : MsgqGet(p)
    <2>1. PICK p \in Priority : MsgqGet(p) BY <1>8
    <2>2. UNCHANGED <<clock, handled>> /\ thread'[p].at = "check" /\ thread'[p].since = clock
          /\ \A q \in Priority \ {p} : thread'[q] = thread[q]
      BY <1>2, <2>1 DEF MsgqGet, handled
    <2>3. QED BY <1>2, <1>4, <2>2
  <1>9. CASE \E t \in Thread : SendResponse(t)
    <2>1. PICK t \in Thread : SendResponse(t) BY <1>9
    <2>2. UNCHANGED <<clock, handled>>
      BY <2>1 DEF SendResponse, EncodeHead, EncodeTail, SendTo, handled
    <2>3. \A q \in Thread \ {t} : thread'[q] = thread[q]
      BY <1>2, <2>1 DEF SendResponse, EncodeHead, EncodeTail, SendTo, Goto
    <2>4. thread'[t].at # "run" /\ (thread'[t].since = thread[t].since \/ thread'[t].since = 0)
      <3>1. thread[t] \in ThreadState BY <1>2
      <3>2. CASE Goto(t, "tail") \/ Goto(t, "sendto") BY <1>2, <3>1, <3>2 DEF Goto, ThreadState
      <3>3. CASE thread' = [thread EXCEPT ![t] = Idle] BY <1>2, <3>3 DEF Idle
      <3>4. QED BY <2>1, <3>2, <3>3 DEF SendResponse, EncodeHead, EncodeTail, SendTo
    <2>5. QED BY <1>1, <1>2, <1>4, <2>2, <2>3, <2>4 DEF InTime
  <1>10. CASE Tick BY <1>4, <1>10 DEF Tick, handled
  <1>11. CASE UNCHANGED vars BY <1>4, <1>11 DEF vars, handled
  <1>12. QED BY <1>5, <1>6, <1>7, <1>8, <1>9, <1>10, <1>11 DEF Next

\* Between nodes whose clocks agree no request is executed that was taken from its
\* queue after its deadline, except those the cast to 16 bits leaves no deadline, and one
\* is refused early only when its sender had been up too long for the time on the wire or
\* its deadline was too long for the cast.
THEOREM DeadlinesHonoured ==
  ASSUME \A s \in DOMAIN Skew : Skew[s] = 0
  PROVE  Spec => []DeadlineHonoured
  <1>1. Init => DeadlineInv
    <2> SUFFICES ASSUME Init PROVE DeadlineInv
      OBVIOUS
    <2>1. \A p \in Priority : thread[p] = Idle BY DEF Init, Thread
    <2>2. InTime BY <2>1, TimesNat DEF Init, InTime, Idle
    <2>3. QED BY <2>2, TypeInit DEF Init, DeadlineInv, DeadlineHonoured
  <1>2. DeadlineInv => DeadlineHonoured BY DEF DeadlineInv
  <1>3. QED BY <1>1, <1>2, DeadlineStep, PTL DEF Spec

(***************************************************************************)
(* Success is only reported of what was executed.                          *)
(***************************************************************************)
Ran(r) == \E e \in executed : e.req = r

\* A thread that is to answer "ok" has run the service.
OkHasRun ==
  \A t \in Thread :
    thread[t].at \in {"head", "tail", "sendto"} /\ thread[t].status = "ok" => Ran(thread[t].item)

InBuffer(t) == thread[t].at \in {"tail", "sendto"}

\* As long as no two were in the buffer, it holds the answer of the one that is.
BufferIsMine ==
  ~ overlap =>
    /\ \A t, u \in Thread : InBuffer(t) /\ InBuffer(u) => t = u
    /\ \A t \in Thread : InBuffer(t) => buf.seq = thread[t].item.seq /\ buf.status = thread[t].status
    /\ \A t \in Thread : thread[t].at = "sendto" => buf.body = Id(thread[t].item)

OkInv == Typed /\ OkHasRun /\ BufferIsMine /\ SoleOkMeansExecuted

\* What changes when only thread t moves, and not to an answer of its own.
LEMMA OthersStay ==
  ASSUME Typed, OkHasRun, NEW t \in Thread, NEW w, thread' = [thread EXCEPT ![t] = w], executed \subseteq executed',
         w.at \in {"head", "tail", "sendto"} /\ w.status = "ok" => \E e \in executed' : e.req = w.item
  PROVE  OkHasRun' /\ \A u \in Thread : thread'[u] = IF u = t THEN w ELSE thread[u]
  <1>1. thread \in [Thread -> ThreadState] BY DEF Typed, TypeOK
  <1>2. \A u \in Thread : thread'[u] = IF u = t THEN w ELSE thread[u] BY <1>1
  <1>3. ASSUME NEW u \in Thread,
               thread'[u].at \in {"head", "tail", "sendto"} /\ thread'[u].status = "ok"
        PROVE  \E e \in executed' : e.req = thread'[u].item
    <2>1. CASE u = t BY <1>2, <1>3, <2>1
    <2>2. CASE u # t
      <3>1. thread'[u] = thread[u] BY <1>2, <2>2
      <3>2. Ran(thread[u].item) BY <1>3, <3>1 DEF OkHasRun
      <3>3. QED BY <3>1, <3>2 DEF Ran
    <2>3. QED BY <2>1, <2>2
  <1>4. Thread' = Thread BY DEF Thread, Dispatcher
  <1>5. QED BY <1>2, <1>3, <1>4 DEF OkHasRun, Ran

LEMMA OkStep == OkInv /\ [Next]_vars => OkInv'
  <1> SUFFICES ASSUME OkInv, [Next]_vars PROVE OkInv'
    OBVIOUS
  <1>1. Typed /\ Typed' /\ OkHasRun /\ BufferIsMine /\ SoleOkMeansExecuted BY TypeStep DEF OkInv
  <1>2. thread \in [Thread -> ThreadState] /\ Priority \subseteq Thread /\ Dispatcher \in Thread
    BY <1>1 DEF Typed, TypeOK, Thread
  <1> SUFFICES OkHasRun' /\ BufferIsMine' /\ SoleOkMeansExecuted'
    BY <1>1 DEF OkInv
  \* A step outside the buffer.
  <1>3. ASSUME NEW t \in Thread, NEW w, thread' = [thread EXCEPT ![t] = w], executed \subseteq executed',
               w.at \in {"check", "run", "head"}, w.at = "head" /\ w.status = "ok" => \E e \in executed' : e.req = w.item,
               UNCHANGED <<buf, overlap, sent>>
        PROVE  OkHasRun' /\ BufferIsMine' /\ SoleOkMeansExecuted'
    <2>1. OkHasRun' /\ \A u \in Thread : thread'[u] = IF u = t THEN w ELSE thread[u]
      BY <1>1, <1>3, OthersStay
    <2>2. \A u \in Thread : InBuffer(u)' => thread'[u] = thread[u]
      BY <1>3, <2>1 DEF InBuffer
    <2>3. BufferIsMine' BY <1>1, <1>3, <2>2 DEF BufferIsMine, InBuffer
    <2>4. SoleOkMeansExecuted' BY <1>1, <1>3 DEF SoleOkMeansExecuted, OkMeansExecuted
    <2>5. QED BY <2>1, <2>3, <2>4
  <1>4. ASSUME NEW r \in Request, Dispatch(r) PROVE OkHasRun' /\ BufferIsMine' /\ SoleOkMeansExecuted'
    <2>1. UNCHANGED <<buf, overlap, sent, executed>> BY <1>4 DEF Dispatch, encoder, handled
    <2>2. CASE UNCHANGED thread
      BY <1>1, <2>1, <2>2 DEF OkHasRun, Ran, BufferIsMine, InBuffer, SoleOkMeansExecuted, OkMeansExecuted
    <2>3. CASE Refuse(r)
      <3> DEFINE w == Answer(Dispatcher, r, "ENOMEM")
      <3>1. thread[Dispatcher] \in ThreadState BY <1>2
      <3>2. w.at = "head" /\ w.status = "ENOMEM" BY <3>1 DEF Answer, ThreadState
      <3>3. thread' = [thread EXCEPT ![Dispatcher] = w] BY <2>3 DEF Refuse
      <3> HIDE DEF w
      <3>4. QED BY <1>2, <1>3, <2>1, <3>2, <3>3
    <2>4. QED BY <1>4, <2>2, <2>3 DEF Dispatch
  <1>5. ASSUME NEW p \in Priority, MsgqGet(p) PROVE OkHasRun' /\ BufferIsMine' /\ SoleOkMeansExecuted'
    <2> DEFINE w == [thread[p] EXCEPT !.at = "check", !.item = Head(queue[p]), !.since = clock]
    <2>1. w.at = "check" BY <1>2 DEF ThreadState
    <2>2. thread' = [thread EXCEPT ![p] = w] /\ UNCHANGED <<buf, overlap, sent, executed>>
      BY <1>5 DEF MsgqGet, encoder, handled
    <2> HIDE DEF w
    <2>3. QED BY <1>2, <1>3, <2>1, <2>2
  <1>6. ASSUME NEW p \in Priority, Check(p) PROVE OkHasRun' /\ BufferIsMine' /\ SoleOkMeansExecuted'
    <2>1. PICK w : /\ thread' = [thread EXCEPT ![p] = w] /\ w.at \in {"run", "head"}
                   /\ w.at = "head" => w.status # "ok"
      <3>1. thread[p] \in ThreadState BY <1>2
      <3>2. CASE Goto(p, "run")
        <4>1. [thread[p] EXCEPT !.at = "run"].at = "run" BY <3>1 DEF ThreadState
        <4>2. QED BY <3>2, <4>1 DEF Goto
      <3>3. ASSUME NEW st \in {"ETIMEDOUT", "ENOENT"}, thread' = [thread EXCEPT ![p] = Answer(p, thread[p].item, st)]
            PROVE  \E w : /\ thread' = [thread EXCEPT ![p] = w] /\ w.at \in {"run", "head"}
                          /\ w.at = "head" => w.status # "ok"
        <4>1. Answer(p, thread[p].item, st).at = "head" /\ Answer(p, thread[p].item, st).status = st
          BY <3>1 DEF Answer, ThreadState
        <4>2. QED BY <3>3, <4>1
      <3>4. QED BY <1>6, <3>2, <3>3 DEF Check
    <2>2. UNCHANGED <<buf, overlap, sent, executed>> BY <1>6 DEF Check, encoder
    <2>3. QED BY <1>2, <1>3, <2>1, <2>2
  <1>7. ASSUME NEW p \in Priority, Run(p) PROVE OkHasRun' /\ BufferIsMine' /\ SoleOkMeansExecuted'
    <2> DEFINE w == Answer(p, thread[p].item, "ok")
    <2>1. w.at = "head" /\ w.item = thread[p].item BY <1>2 DEF Answer, ThreadState
    <2>2. /\ thread' = [thread EXCEPT ![p] = w] /\ UNCHANGED <<buf, overlap, sent>>
          /\ executed' = executed \cup {[req |-> thread[p].item, since |-> thread[p].since]}
      BY <1>7 DEF Run, encoder
    <2> HIDE DEF w
    <2> DEFINE ran == [req |-> thread[p].item, since |-> thread[p].since]
    <2>3. \E e \in executed' : e.req = w.item
      <3>1. ran \in executed' BY <2>2
      <3>2. ran.req = w.item BY <2>1
      <3>3. QED BY <3>1, <3>2
    <2>4. QED BY <1>2, <1>3, <2>1, <2>2, <2>3
  <1>8. ASSUME NEW t \in Thread, EncodeHead(t) PROVE OkHasRun' /\ BufferIsMine' /\ SoleOkMeansExecuted'
    <2> DEFINE w == [thread[t] EXCEPT !.at = "tail"]
    <2>1. w.at = "tail" /\ w.item = thread[t].item /\ w.status = thread[t].status BY <1>2 DEF ThreadState
    <2>2. /\ thread' = [thread EXCEPT ![t] = w] /\ UNCHANGED <<sent, executed>>
          /\ buf' = [buf EXCEPT !.seq = thread[t].item.seq, !.status = thread[t].status]
          /\ overlap' = (overlap \/ Overlaps(t)) /\ thread[t].at = "head"
      BY <1>8 DEF EncodeHead, Goto, handled
    <2> HIDE DEF w
    <2> w.status = "ok" => \E e \in executed' : e.req = w.item
      BY <1>1, <2>1, <2>2 DEF OkHasRun, Ran
    <2>3. OkHasRun' /\ \A u \in Thread : thread'[u] = IF u = t THEN w ELSE thread[u]
      BY <1>1, <2>2, OthersStay
    <2>4. buf'.seq = w.item.seq /\ buf'.status = w.status BY <1>1, <2>1, <2>2 DEF Typed, TypeOK
    <2>5. BufferIsMine'
      <3> SUFFICES ASSUME ~ overlap'
                   PROVE  \A u \in Thread : InBuffer(u)' => u = t
        BY <2>1, <2>3, <2>4 DEF BufferIsMine, InBuffer
      <3>1. ~ Overlaps(t) BY <2>2
      <3>2. QED BY <2>3, <3>1 DEF Overlaps, InBuffer
    <2>6. SoleOkMeansExecuted' BY <1>1, <2>2 DEF SoleOkMeansExecuted, OkMeansExecuted
    <2>7. QED BY <2>3, <2>5, <2>6
  <1>9. ASSUME NEW t \in Thread, EncodeTail(t) PROVE OkHasRun' /\ BufferIsMine' /\ SoleOkMeansExecuted'
    <2> DEFINE w == [thread[t] EXCEPT !.at = "sendto"]
    <2>1. w.at = "sendto" /\ w.item = thread[t].item /\ w.status = thread[t].status BY <1>2 DEF ThreadState
    <2>2. /\ thread' = [thread EXCEPT ![t] = w] /\ UNCHANGED <<sent, executed, overlap>>
          /\ buf' = [buf EXCEPT !.body = Id(thread[t].item)] /\ thread[t].at = "tail"
      BY <1>9 DEF EncodeTail, Goto, handled
    <2> HIDE DEF w
    <2> w.status = "ok" => \E e \in executed' : e.req = w.item
      BY <1>1, <2>1, <2>2 DEF OkHasRun, Ran
    <2>3. OkHasRun' /\ \A u \in Thread : thread'[u] = IF u = t THEN w ELSE thread[u]
      BY <1>1, <2>2, OthersStay
    <2>4. buf'.seq = buf.seq /\ buf'.status = buf.status /\ buf'.body = Id(w.item)
      BY <1>1, <2>1, <2>2 DEF Typed, TypeOK
    <2>5. BufferIsMine'
      <3> SUFFICES ASSUME ~ overlap
                   PROVE  /\ \A u \in Thread : InBuffer(u)' => u = t
                          /\ buf'.seq = w.item.seq /\ buf'.status = w.status
        BY <2>1, <2>2, <2>3, <2>4 DEF BufferIsMine, InBuffer
      <3>1. \A u \in Thread : InBuffer(u)' => u = t BY <1>1, <2>2, <2>3 DEF BufferIsMine, InBuffer
      <3>2. buf.seq = thread[t].item.seq /\ buf.status = thread[t].status BY <1>1, <2>2 DEF BufferIsMine, InBuffer
      <3>3. QED BY <2>1, <2>4, <3>1, <3>2
    <2>6. SoleOkMeansExecuted' BY <1>1, <2>2 DEF SoleOkMeansExecuted, OkMeansExecuted
    <2>7. QED BY <2>3, <2>5, <2>6
  <1>10. ASSUME NEW t \in Thread, SendTo(t) PROVE OkHasRun' /\ BufferIsMine' /\ SoleOkMeansExecuted'
    <2> DEFINE msg == [dst |-> thread[t].item.src, seq |-> buf.seq, status |-> buf.status, body |-> buf.body]
    <2>1. /\ thread' = [thread EXCEPT ![t] = Idle] /\ UNCHANGED <<buf, overlap, executed>>
          /\ sent' = sent \cup {msg} /\ thread[t].at = "sendto"
      BY <1>10 DEF SendTo, encoder, handled
    <2>2. Idle.at = "idle" BY DEF Idle
    <2>3. OkHasRun' /\ \A u \in Thread : thread'[u] = IF u = t THEN Idle ELSE thread[u]
      BY <1>1, <2>1, <2>2, OthersStay
    <2>4. BufferIsMine' BY <1>1, <2>1, <2>2, <2>3 DEF BufferIsMine, InBuffer
    <2>5. ASSUME ~ overlap, buf.status = "ok"
          PROVE  msg.body = <<msg.dst, msg.seq>> /\ \E e \in executed : Id(e.req) = <<msg.dst, msg.seq>>
      <3>1. buf.seq = thread[t].item.seq /\ buf.status = thread[t].status /\ buf.body = Id(thread[t].item)
        BY <1>1, <2>1, <2>5 DEF BufferIsMine, InBuffer
      <3>2. Ran(thread[t].item) BY <1>1, <2>1, <2>5, <3>1 DEF OkHasRun
      <3>3. QED BY <3>1, <3>2 DEF Ran, Id
    <2>6. SoleOkMeansExecuted'
      BY <1>1, <2>1, <2>5 DEF SoleOkMeansExecuted, OkMeansExecuted
    <2>7. QED BY <2>3, <2>4, <2>6
  <1>11. CASE UNCHANGED <<thread, buf, overlap, sent, executed>>
    BY <1>1, <1>11 DEF OkHasRun, Ran, BufferIsMine, InBuffer, SoleOkMeansExecuted, OkMeansExecuted
  <1>12. UNCHANGED vars \/ Tick => UNCHANGED <<thread, buf, overlap, sent, executed>>
    BY DEF vars, Tick, encoder, handled
  <1>13. QED
    BY <1>4, <1>5, <1>6, <1>7, <1>8, <1>9, <1>10, <1>11, <1>12 DEF Next, SendResponse

\* Until two threads are in the static buffer of send_response at once, a node that is
\* told success has had exactly that request executed.
THEOREM SuccessIsReal == Spec => []SoleOkMeansExecuted
  <1>1. Init => OkInv
    <2> SUFFICES ASSUME Init PROVE OkInv
      OBVIOUS
    <2>1. \A t \in Thread : thread[t].at = "idle" BY DEF Init, Idle
    <2>2. OkHasRun /\ BufferIsMine BY <2>1 DEF OkHasRun, BufferIsMine, InBuffer
    <2>3. SoleOkMeansExecuted BY DEF Init, SoleOkMeansExecuted, OkMeansExecuted
    <2>4. QED BY <2>2, <2>3, TypeInit DEF OkInv
  <1>2. OkInv => SoleOkMeansExecuted BY DEF OkInv
  <1>3. QED BY <1>1, <1>2, OkStep, PTL DEF Spec

(***************************************************************************)
(* Every copy received is queued, being worked on, or was answered.        *)
(***************************************************************************)
Balanced(r) == arrived[r] = answered[r] + Cardinality(Queued(r)) + Cardinality(Held(r))

LEMMA Countable ==
  ASSUME Typed, NEW r
  PROVE  /\ IsFiniteSet(Queued(r)) /\ Cardinality(Queued(r)) \in Nat
         /\ IsFiniteSet(Held(r)) /\ Cardinality(Held(r)) \in Nat
  <1>1. IsFiniteSet(Priority \X (1..Depth))
    <2>1. IsFiniteSet(1..Depth) BY BoundsNat, FS_Interval
    <2>2. QED BY <2>1, FewPriorities, FS_Product
  <1>2. IsFiniteSet(Thread) BY FewPriorities, FS_AddElement DEF Thread
  <1>3. IsFiniteSet(Queued(r))
    <2>1. Queued(r) \in SUBSET (Priority \X (1..Depth)) BY DEF Queued
    <2>2. QED BY <1>1, <2>1, FS_Subset
  <1>4. IsFiniteSet(Held(r))
    <2>1. Held(r) \in SUBSET Thread BY DEF Held
    <2>2. QED BY <1>2, <2>1, FS_Subset
  <1>5. QED BY <1>3, <1>4, FS_CardinalityType

\* What is held of r when thread t moves from one item to another.
LEMMA HeldMoves ==
  ASSUME Typed, NEW t \in Thread, NEW w, thread' = [thread EXCEPT ![t] = w], NEW r
  PROVE  /\ (w.item = r <=> thread[t].item = r) => Cardinality(Held(r)') = Cardinality(Held(r))
         /\ w.item = r /\ thread[t].item # r => Cardinality(Held(r)') = Cardinality(Held(r)) + 1
         /\ w.item # r /\ thread[t].item = r => Cardinality(Held(r)') = Cardinality(Held(r)) - 1
  <1>1. \A u \in Thread : thread'[u] = IF u = t THEN w ELSE thread[u] BY DEF Typed, TypeOK
  <1>2. Held(r)' = {u \in Thread : thread'[u].item = r} BY DEF Held, Thread, Dispatcher
  <1>3. Held(r) = {u \in Thread : thread[u].item = r} BY DEF Held
  <1>4. CASE w.item = r <=> thread[t].item = r
    <2>1. Held(r)' = Held(r) BY <1>1, <1>2, <1>3, <1>4
    <2>2. QED BY <1>4, <2>1
  <1>5. CASE w.item = r /\ thread[t].item # r
    <2>1. Held(r)' = Held(r) \cup {t} /\ t \notin Held(r) BY <1>1, <1>2, <1>3, <1>5
    <2>2. QED BY <1>5, <2>1, Countable, FS_AddElement
  <1>6. CASE w.item # r /\ thread[t].item = r
    <2>1. Held(r)' = Held(r) \ {t} /\ t \in Held(r) BY <1>1, <1>2, <1>3, <1>6
    <2>2. QED BY <1>6, <2>1, Countable, FS_RemoveElement
  <1>7. QED BY <1>4, <1>5, <1>6

\* A request put at the end of queue p, which has room.
LEMMA QueuedPut ==
  ASSUME Typed, NEW p \in Priority, ~ Full(p), NEW q \in Request, queue' = [queue EXCEPT ![p] = Append(@, q)],
         NEW r
  PROVE  Cardinality(Queued(r)') = IF r = q THEN Cardinality(Queued(r)) + 1 ELSE Cardinality(Queued(r))
  <1> DEFINE n == Len(queue[p]) + 1
  <1>1. queue \in [Priority -> Seq(Request)] /\ queue[p] \in Seq(Request) /\ Len(queue[p]) \in Nat
    BY DEF Typed, TypeOK
  <1>2. n \in 1..Depth BY <1>1, BoundsNat DEF Full
  <1>3. \A s \in Priority : queue'[s] = IF s = p THEN Append(queue[p], q) ELSE queue[s] BY <1>1
  <1>4. Len(Append(queue[p], q)) = n /\ Append(queue[p], q)[n] = q
        /\ \A i \in 1..Len(queue[p]) : Append(queue[p], q)[i] = queue[p][i]
    BY <1>1
  <1>5. ASSUME NEW s \in Priority, NEW i \in 1..Depth
        PROVE  /\ <<s, i>> \in Queued(r)' <=> i <= Len(queue'[s]) /\ queue'[s][i] = r
               /\ <<s, i>> \in Queued(r) <=> i <= Len(queue[s]) /\ queue[s][i] = r
    BY DEF Queued
  <1>6. <<p, n>> \notin Queued(r) BY <1>1, <1>2, <1>5
  <1>7. ASSUME NEW s \in Priority, NEW i \in 1..Depth
        PROVE  <<s, i>> \in Queued(r)' <=> <<s, i>> \in Queued(r) \/ (s = p /\ i = n /\ r = q)
    <2>1. CASE s # p BY <1>3, <1>5, <2>1
    <2>2. CASE s = p /\ i = n BY <1>1, <1>3, <1>4, <1>5, <1>6, <2>2
    <2>3. CASE s = p /\ i > n
      <3>1. ~ (i <= Len(queue[s])) /\ ~ (i <= Len(queue'[s])) BY <1>1, <1>3, <1>4, <2>3
      <3>2. QED BY <1>1, <1>5, <2>3, <3>1
    <2>4. CASE s = p /\ i < n
      <3>1. i \in 1..Len(queue[p]) /\ i <= Len(queue'[s]) BY <1>1, <1>3, <1>4, <2>4
      <3>2. QED BY <1>1, <1>3, <1>4, <1>5, <2>4, <3>1
    <2>5. QED BY <1>1, <2>1, <2>2, <2>3, <2>4
  <1>8. Queued(r) \subseteq Priority \X (1..Depth) /\ Queued(r)' \subseteq Priority \X (1..Depth)
    BY DEF Queued
  <1> HIDE DEF n
  <1>9. CASE r = q
    <2>1. Queued(r)' = Queued(r) \cup {<<p, n>>} BY <1>2, <1>7, <1>8, <1>9
    <2>2. QED BY <1>6, <1>9, <2>1, Countable, FS_AddElement
  <1>10. CASE r # q
    <2>1. \A s \in Priority, i \in 1..Depth : <<s, i>> \in Queued(r)' <=> <<s, i>> \in Queued(r) BY <1>7, <1>10
    <2>2. \A c \in Priority \X (1..Depth) : c \in Queued(r)' <=> c \in Queued(r) BY <2>1
    <2>3. Queued(r)' = Queued(r) BY <1>8, <2>2
    <2>4. QED BY <1>10, <2>3
  <1>11. QED BY <1>9, <1>10

\* The request taken from the front of queue p; those behind it move up.
LEMMA QueuedTaken ==
  ASSUME Typed, NEW p \in Priority, queue[p] # << >>, queue' = [queue EXCEPT ![p] = Tail(@)], NEW r
  PROVE  Cardinality(Queued(r)') = IF r = Head(queue[p]) THEN Cardinality(Queued(r)) - 1
                                                         ELSE Cardinality(Queued(r))
  <1> DEFINE rest == Queued(r) \ {<<p, 1>>}
             f == [c \in Queued(r)' |-> IF c[1] = p THEN <<p, c[2] + 1>> ELSE c]
  <1>1. /\ queue \in [Priority -> Seq(Request)] /\ queue[p] \in Seq(Request) /\ Len(queue[p]) \in Nat
        /\ Len(queue[p]) <= Depth /\ Depth \in Nat /\ Len(queue[p]) >= 1
    BY BoundsNat DEF Typed, TypeOK
  <1>2. \A s \in Priority : queue'[s] = IF s = p THEN Tail(queue[p]) ELSE queue[s] BY <1>1
  <1>3. /\ Len(Tail(queue[p])) = Len(queue[p]) - 1 /\ Head(queue[p]) = queue[p][1]
        /\ \A i \in 1..(Len(queue[p]) - 1) : Tail(queue[p])[i] = queue[p][i + 1]
    BY <1>1
  <1>4. ASSUME NEW s \in Priority, NEW i \in 1..Depth
        PROVE  /\ <<s, i>> \in Queued(r)' <=> i <= Len(queue'[s]) /\ queue'[s][i] = r
               /\ <<s, i>> \in Queued(r) <=> i <= Len(queue[s]) /\ queue[s][i] = r
    BY DEF Queued
  <1>5. Queued(r) \subseteq Priority \X (1..Depth) /\ Queued(r)' \subseteq Priority \X (1..Depth)
    BY DEF Queued
  <1>6. ASSUME NEW s \in Priority \ {p}, NEW i \in 1..Depth
        PROVE  <<s, i>> \in Queued(r)' <=> <<s, i>> \in rest
    BY <1>2, <1>4
  <1>7. ASSUME NEW i \in 1..Depth
        PROVE  <<p, i>> \in Queued(r)' <=> i + 1 \in 1..Depth /\ <<p, i + 1>> \in rest
    <2>1. CASE i \in 1..(Len(queue[p]) - 1)
      <3>1. i + 1 \in 1..Depth /\ i + 1 <= Len(queue[p]) /\ i <= Len(Tail(queue[p])) /\ i + 1 # 1
        BY <1>1, <1>3, <2>1
      <3>2. <<p, i>> \in Queued(r)' <=> queue[p][i + 1] = r
        <4>1. queue'[p] = Tail(queue[p]) BY <1>2
        <4>2. Tail(queue[p])[i] = queue[p][i + 1] BY <1>3, <2>1
        <4>3. <<p, i>> \in Queued(r)' <=> i <= Len(queue'[p]) /\ queue'[p][i] = r BY <1>4
        <4>4. QED BY <3>1, <4>1, <4>2, <4>3
      <3>3. <<p, i + 1>> \in Queued(r) <=> queue[p][i + 1] = r BY <1>4, <3>1
      <3>4. QED BY <3>1, <3>2, <3>3
    <2>2. CASE ~ (i \in 1..(Len(queue[p]) - 1))
      <3>1. ~ (i <= Len(Tail(queue[p]))) /\ ~ (i + 1 <= Len(queue[p])) BY <1>1, <1>3, <2>2
      <3>2. <<p, i>> \notin Queued(r)' BY <1>2, <1>4, <3>1
      <3>3. i + 1 \in 1..Depth => <<p, i + 1>> \notin Queued(r) BY <1>4, <3>1
      <3>4. QED BY <3>2, <3>3
    <2>3. QED BY <2>1, <2>2
  <1>8. f \in Bijection(Queued(r)', rest)
    <2>1. f \in [Queued(r)' -> rest]
      <3>1. ASSUME NEW c \in Queued(r)' PROVE (IF c[1] = p THEN <<p, c[2] + 1>> ELSE c) \in rest
        <4>1. c = <<c[1], c[2]>> /\ c[1] \in Priority /\ c[2] \in 1..Depth BY <1>5
        <4> HIDE DEF rest
        <4>2. QED BY <1>6, <1>7, <3>1, <4>1
      <3> HIDE DEF rest
      <3>2. QED BY <3>1
    <2>2. ASSUME NEW c \in Queued(r)', NEW d \in Queued(r)', f[c] = f[d] PROVE c = d
      <3>1. c = <<c[1], c[2]>> /\ c[2] \in 1..Depth /\ d = <<d[1], d[2]>> /\ d[2] \in 1..Depth BY <1>5
      <3>2. f[c] = (IF c[1] = p THEN <<p, c[2] + 1>> ELSE c) /\ f[d] = (IF d[1] = p THEN <<p, d[2] + 1>> ELSE d)
        OBVIOUS
      <3> HIDE DEF f
      <3>3. CASE c[1] = p /\ d[1] = p
        <4>1. <<p, c[2] + 1>> = <<p, d[2] + 1>> BY <2>2, <3>2, <3>3
        <4>2. c[2] + 1 = d[2] + 1 BY <4>1
        <4>3. c[2] = d[2] BY <3>1, <4>2
        <4>4. QED BY <3>1, <3>3, <4>3
      <3>4. CASE c[1] = p /\ d[1] # p
        <4>1. <<p, c[2] + 1>> = d BY <2>2, <3>2, <3>4
        <4>2. QED BY <3>4, <4>1
      <3>5. CASE c[1] # p /\ d[1] = p
        <4>1. <<p, d[2] + 1>> = c BY <2>2, <3>2, <3>5
        <4>2. QED BY <3>5, <4>1
      <3>6. CASE c[1] # p /\ d[1] # p BY <2>2, <3>2, <3>6
      <3>7. QED BY <3>3, <3>4, <3>5, <3>6
    <2>3. ASSUME NEW e \in rest PROVE \E c \in Queued(r)' : f[c] = e
      <3>1. e = <<e[1], e[2]>> /\ e[1] \in Priority /\ e[2] \in 1..Depth /\ e # <<p, 1>> BY <1>5
      <3>2. CASE e[1] # p
        <4>1. e \in Queued(r)' BY <1>6, <3>1, <3>2
        <4>2. f[e] = e BY <3>2, <4>1
        <4> HIDE DEF f, rest
        <4>3. QED BY <4>1, <4>2
      <3>3. CASE e[1] = p
        <4>1. PICK i : i = e[2] - 1 OBVIOUS
        <4>2. i \in 1..Depth /\ i + 1 = e[2]
          <5>1. e[2] # 1 /\ e[2] \in 1..Depth BY <3>1, <3>3
          <5>2. QED BY <1>1, <4>1, <5>1
        <4>3. e = <<p, i + 1>> BY <3>1, <3>3, <4>2
        <4>4. i + 1 \in 1..Depth BY <3>1, <4>2
        <4>5. <<p, i>> \in Queued(r)' BY <1>7, <4>2, <4>3, <4>4
        <4>6. f[<<p, i>>] = <<p, i + 1>> BY <4>5
        <4> HIDE DEF f, rest
        <4>7. QED BY <4>3, <4>5, <4>6
      <3>4. QED BY <3>2, <3>3
    <2> HIDE DEF f, rest
    <2>4. f \in Surjection(Queued(r)', rest) BY <2>1, <2>3 DEF Surjection
    <2>5. f \in Injection(Queued(r)', rest) BY <2>1, <2>2 DEF Injection, IsInjective
    <2>6. QED BY <2>4, <2>5 DEF Bijection
  <1>9. /\ IsFiniteSet(rest)
        /\ Cardinality(rest) = IF <<p, 1>> \in Queued(r) THEN Cardinality(Queued(r)) - 1 ELSE Cardinality(Queued(r))
    BY Countable, FS_RemoveElement
  <1>10. <<p, 1>> \in Queued(r) <=> r = Head(queue[p])
    <2>1. 1 \in 1..Depth BY <1>1
    <2>2. QED BY <1>1, <1>3, <1>4, <2>1
  <1> HIDE DEF f, rest
  <1>11. Cardinality(rest) = Cardinality(Queued(r)')
    <2>1. ExistsBijection(Queued(r)', rest) BY <1>8 DEF ExistsBijection
    <2>2. ExistsBijection(rest, Queued(r)') BY <2>1, Fun_ExistsBijSymmetric
    <2>3. QED BY <1>9, <2>2, FS_Bijection
  <1>12. QED BY <1>9, <1>10, <1>11
\* A step that changes neither the queues nor what the threads work on.
LEMMA CountsStay ==
  ASSUME Typed, NEW r, UNCHANGED queue, \A u \in Thread : thread'[u].item = thread[u].item
  PROVE  Queued(r)' = Queued(r) /\ Held(r)' = Held(r)
  <1>1. Queued(r)' = Queued(r) BY DEF Queued
  <1>2. Held(r)' = Held(r) BY DEF Held, Thread, Dispatcher
  <1>3. QED BY <1>1, <1>2

LEMMA CountStep == Typed /\ OneAnswerPerCopy /\ [Next]_vars => OneAnswerPerCopy'
  <1> SUFFICES ASSUME Typed, OneAnswerPerCopy, [Next]_vars, NEW r \in Request PROVE Balanced(r)'
    BY DEF OneAnswerPerCopy, Balanced
  <1>1. /\ Balanced(r) /\ arrived[r] \in Nat /\ answered[r] \in Nat
        /\ Cardinality(Queued(r)) \in Nat /\ Cardinality(Held(r)) \in Nat
    BY Countable DEF OneAnswerPerCopy, Balanced, Typed, TypeOK
  <1>2. /\ thread \in [Thread -> ThreadState] /\ Priority \subseteq Thread /\ Dispatcher \in Thread
        /\ arrived \in [Request -> Nat] /\ answered \in [Request -> Nat] /\ queue \in [Priority -> Seq(Request)]
        /\ r # NoRequest /\ Idle.item = NoRequest /\ Idle.at = "idle"
    BY NoRequestIsNone DEF Typed, TypeOK, Thread, Idle
  <1>3. \A t \in Thread : thread[t].at = "idle" => thread[t].item = NoRequest
    BY <1>2 DEF Typed, ThreadsWork, Working
  \* A step in which the work only moves on.
  <1>4. ASSUME UNCHANGED <<queue, arrived, answered>>, \A u \in Thread : thread'[u].item = thread[u].item
        PROVE  Balanced(r)'
    BY <1>1, <1>4, CountsStay DEF Balanced
  <1>5. ASSUME NEW q \in Request, Dispatch(q) PROVE Balanced(r)'
    <2> DEFINE p == PriorityOf(q)
    <2>1. p \in Priority BY NormalIsValid DEF PriorityOf
    <2>2. arrived'[r] = (IF r = q THEN arrived[r] + 1 ELSE arrived[r]) /\ UNCHANGED answered
          /\ thread[Dispatcher].item = NoRequest
      BY <1>2, <1>3, <1>5 DEF Dispatch
    <2>3. CASE ~ Full(p) /\ queue' = [queue EXCEPT ![p] = Append(@, q)] /\ UNCHANGED thread
      <3> HIDE DEF p
      <3>1. Cardinality(Queued(r)') = IF r = q THEN Cardinality(Queued(r)) + 1 ELSE Cardinality(Queued(r))
        BY <2>1, <2>3, QueuedPut
      <3>2. Held(r)' = Held(r) BY <2>3 DEF Held
      <3>3. QED BY <1>1, <2>2, <3>1, <3>2 DEF Balanced
    <2>4. CASE Refuse(q) /\ UNCHANGED queue
      <3> DEFINE w == Answer(Dispatcher, q, "ENOMEM")
      <3>1. thread[Dispatcher] \in ThreadState BY <1>2
      <3>2. w.item = q BY <3>1 DEF Answer, ThreadState
      <3>3. thread' = [thread EXCEPT ![Dispatcher] = w] BY <2>4 DEF Refuse
      <3> HIDE DEF w
      <3>4. Cardinality(Held(r)') = IF r = q THEN Cardinality(Held(r)) + 1 ELSE Cardinality(Held(r))
        BY <1>2, <2>2, <3>2, <3>3, HeldMoves
      <3>5. Queued(r)' = Queued(r) BY <2>4 DEF Queued
      <3>6. QED BY <1>1, <2>2, <3>4, <3>5 DEF Balanced
    <2>5. QED BY <1>5, <2>3, <2>4 DEF Dispatch
  <1>6. ASSUME NEW p \in Priority, MsgqGet(p) PROVE Balanced(r)'
    <2> DEFINE w == [thread[p] EXCEPT !.at = "check", !.item = Head(queue[p]), !.since = clock]
    <2>1. thread[p] \in ThreadState /\ thread[p].item = NoRequest /\ UNCHANGED <<arrived, answered>>
      BY <1>2, <1>3, <1>6 DEF MsgqGet
    <2>2. w.item = Head(queue[p]) BY <2>1 DEF ThreadState
    <2>3. thread' = [thread EXCEPT ![p] = w] /\ queue[p] # << >> /\ queue' = [queue EXCEPT ![p] = Tail(@)]
      BY <1>6 DEF MsgqGet
    <2> HIDE DEF w
    <2>4. Cardinality(Queued(r)') = IF r = Head(queue[p]) THEN Cardinality(Queued(r)) - 1
                                                          ELSE Cardinality(Queued(r))
      BY <2>3, QueuedTaken
    <2>5. Cardinality(Held(r)') = IF r = Head(queue[p]) THEN Cardinality(Held(r)) + 1 ELSE Cardinality(Held(r))
      <3>1. p \in Thread /\ thread[p].item # r BY <1>2, <2>1
      <3>2. CASE r = Head(queue[p])
        <4>1. w.item = r BY <2>2, <3>2
        <4>2. Cardinality(Held(r)') = Cardinality(Held(r)) + 1 BY <2>3, <3>1, <4>1, HeldMoves
        <4>3. QED BY <3>2, <4>2
      <3>3. CASE r # Head(queue[p])
        <4>1. w.item # r BY <2>2, <3>3
        <4>2. Cardinality(Held(r)') = Cardinality(Held(r)) BY <2>3, <3>1, <4>1, HeldMoves
        <4>3. QED BY <3>3, <4>2
      <3>4. QED BY <3>2, <3>3
    <2>6. QED BY <1>1, <2>1, <2>4, <2>5 DEF Balanced
  <1>7. ASSUME NEW p \in Priority, Check(p) PROVE Balanced(r)'
    <2>1. p \in Thread /\ thread[p] \in ThreadState /\ UNCHANGED <<queue, arrived, answered>> BY <1>2, <1>7 DEF Check
    <2>2. [thread[p] EXCEPT !.at = "run"].item = thread[p].item
          /\ \A st \in Status : Answer(p, thread[p].item, st).item = thread[p].item
      BY <2>1 DEF ThreadState, Answer
    <2>3. PICK w : thread' = [thread EXCEPT ![p] = w] /\ w.item = thread[p].item
      BY <1>7, <2>2 DEF Check, Goto, Status
    <2>4. QED BY <1>2, <1>4, <2>1, <2>3
  <1>8. ASSUME NEW p \in Priority, Run(p) PROVE Balanced(r)'
    <2>1. p \in Thread /\ thread[p] \in ThreadState /\ UNCHANGED <<queue, arrived, answered>> BY <1>2, <1>8 DEF Run
    <2>2. Answer(p, thread[p].item, "ok").item = thread[p].item BY <2>1 DEF ThreadState, Answer
    <2>3. PICK w : thread' = [thread EXCEPT ![p] = w] /\ w.item = thread[p].item
      BY <1>8, <2>2 DEF Run
    <2>4. QED BY <1>2, <1>4, <2>1, <2>3
  <1>9. ASSUME NEW t \in Thread, NEW step, Goto(t, step), UNCHANGED <<queue, arrived, answered>> PROVE Balanced(r)'
    <2>1. thread[t] \in ThreadState BY <1>2
    <2>2. PICK w : w = [thread[t] EXCEPT !.at = step] OBVIOUS
    <2>3. w.item = thread[t].item BY <2>1, <2>2 DEF ThreadState
    <2>4. thread' = [thread EXCEPT ![t] = w] BY <1>9, <2>2 DEF Goto
    <2>5. QED BY <1>2, <1>4, <1>9, <2>3, <2>4
  <1>10. ASSUME NEW t \in Thread, EncodeHead(t) \/ EncodeTail(t) PROVE Balanced(r)'
    BY <1>9, <1>10 DEF EncodeHead, EncodeTail
  <1>11. ASSUME NEW t \in Thread, SendTo(t) PROVE Balanced(r)'
    <2>1. UNCHANGED <<queue, arrived>> /\ thread' = [thread EXCEPT ![t] = Idle]
      BY <1>11 DEF SendTo
    <2>2. answered'[r] = IF thread[t].item = r THEN answered[r] + 1 ELSE answered[r]
      BY <1>2, <1>11 DEF SendTo
    <2>3. Cardinality(Held(r)') = IF thread[t].item = r THEN Cardinality(Held(r)) - 1 ELSE Cardinality(Held(r))
      BY <1>2, <2>1, HeldMoves
    <2>4. Queued(r)' = Queued(r) BY <2>1 DEF Queued
    <2>5. QED BY <1>1, <2>1, <2>2, <2>3, <2>4 DEF Balanced
  <1>12. CASE Tick BY <1>4, <1>12 DEF Tick
  <1>13. CASE UNCHANGED vars BY <1>4, <1>13 DEF vars
  <1>14. QED BY <1>5, <1>6, <1>7, <1>8, <1>10, <1>11, <1>12, <1>13 DEF Next, SendResponse

\* However often the network delivers a request, and whatever fills the queues, each copy
\* received is in one queue, with one thread, or was answered once (msg_dispatcher_fn,
\* handler_thread_fn, send_response).
THEOREM EachCopyIsAnsweredOnce == Spec => []OneAnswerPerCopy
  <1>1. Init => OneAnswerPerCopy
    <2> SUFFICES ASSUME Init, NEW r \in Request PROVE Balanced(r)
      BY DEF OneAnswerPerCopy, Balanced
    <2>1. \A p \in Priority : Len(queue[p]) = 0 BY DEF Init
    <2>2. Queued(r) = {}
      <3>1. \A c \in Priority \X (1..Depth) : c[1] \in Priority /\ c[2] \in 1..Depth OBVIOUS
      <3>2. \A c \in Priority \X (1..Depth) : ~ (c[2] <= Len(queue[c[1]])) BY <2>1, <3>1, BoundsNat
      <3>3. QED BY <3>2 DEF Queued
    <2>3. Held(r) = {} BY NoRequestIsNone DEF Init, Held, Idle
    <2>4. QED BY <2>2, <2>3, FS_EmptySet DEF Init, Balanced
  <1>2. QED BY <1>1, TypeInit, TypeStep, CountStep, PTL DEF Spec
=============================================================================
