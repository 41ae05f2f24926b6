------------------------- MODULE ParamRequestsProofs -------------------------
(***************************************************************************)
(* Proofs about ParamRequests, for every set of clients and values, with   *)
(* and without an end of the thread: no confirmation is lost or early, and *)
(* a parameter is a register.                                              *)
(***************************************************************************)
EXTENDS ParamRequests, TLAPS

(* A request that somebody waits for is the last one of its client, which
   waits, and whose flag is not yet set. *)
QueueInv ==
  \A p \in Producers : \A i \in DOMAIN queue[p] : queue[p][i].kind # "post" =>
    /\ p \in Clients /\ pc[p] = "wait" /\ ~ready[p]
    /\ i = Len(queue[p])
    /\ queue[p][i].frame = frame[p]
    /\ ~BeingConfirmed(p)

(* The same of a request that is being confirmed. *)
ConfirmInv ==
  \A p \in Producers : BeingConfirmed(p) =>
    /\ p \in Clients /\ pc[p] = "wait" /\ ~ready[p]
    /\ current.frame = frame[p]

(* Nobody waits for a post, and who waits is in the queue or in service; a
   flag is clear when its request is pushed. *)
WaitInv ==
  \A c \in Clients :
    /\ pc[c] = "push" => ~ready[c]
    /\ pc[c] \in {"wait", "return"} => call[c].kind # "post"
    /\ (pc[c] = "wait" /\ ~ready[c]) => (InQueue(c) \/ BeingConfirmed(c))

IInv == TypeOK /\ QueueInv /\ ConfirmInv /\ WaitInv

USE ClientAssumption, ValueAssumption, KindAssumption, RequestBounds
USE DEF NoCall, NoRequest

-----------------------------------------------------------------------------
(* Adding to and taking from a queue of requests. *)
LEMMA QueueFacts ==
  ASSUME NEW q \in Seq(Request), NEW r \in Request
  PROVE  /\ Append(q, r) \in Seq(Request)
         /\ DOMAIN Append(q, r) = 1..(Len(q) + 1) /\ Len(Append(q, r)) = Len(q) + 1
         /\ \A i \in DOMAIN q : Append(q, r)[i] = q[i]
         /\ Append(q, r)[Len(q) + 1] = r
         /\ DOMAIN q = 1..Len(q)
         /\ q # <<>> => /\ Head(q) \in Request /\ Tail(q) \in Seq(Request)
                        /\ Head(q) = q[1] /\ 1 \in DOMAIN q
                        /\ Len(Tail(q)) = Len(q) - 1 /\ DOMAIN Tail(q) = 1..(Len(q) - 1)
                        /\ \A i \in DOMAIN Tail(q) : Tail(q)[i] = q[i + 1] /\ i + 1 \in DOMAIN q
  OBVIOUS

(* The places of a queue that grows or shrinks by one. *)
LEMMA Places ==
  ASSUME NEW n \in Nat
  PROVE  /\ \A i \in 1..(n + 1) : i \in 1..n \/ i = n + 1
         /\ n + 1 \in 1..(n + 1)
         /\ \A i \in 1..n : i # 1 => i - 1 \in 1..(n - 1) /\ (i - 1) + 1 = i
         /\ n = 1 => 1..(n - 1) = {}
  OBVIOUS

LEMMA InitIInv == Init => IInv
  <1> SUFFICES ASSUME Init PROVE IInv
    OBVIOUS
  <1>1. TypeOK
    <2>1. [kind |-> "get", value |-> InitialValue] \in Operation
      BY DEF Operation
    <2>2. current \in Request
      BY DEF Init, Request
    <2>3. call \in [Clients -> Operation]
      BY <2>1 DEF Init
    <2>4. <<>> \in Seq(Request) /\ <<>> \in Seq(Values)
      OBVIOUS
    <2>5. queue \in [Producers -> Seq(Request)] /\ updates \in Seq(Values)
      BY <2>4 DEF Init
    <2>6. sent \in 0..MaxUpdates /\ frame \in [Producers -> Nat]
      BY DEF Init
    <2>7. /\ pc \in [Clients -> {"idle", "push", "direct", "wait", "return"}]
          /\ answer \in [Clients -> Values] /\ ready \in [Clients -> BOOLEAN]
      BY DEF Init
    <2> QED BY <2>2, <2>3, <2>5, <2>6, <2>7 DEF Init, TypeOK, Producers
  <1>2. QueueInv /\ ConfirmInv /\ WaitInv
    BY DEF Init, QueueInv, ConfirmInv, WaitInv, BeingConfirmed, InQueue, Producers
  <1> QED BY <1>1, <1>2 DEF IInv

(* Types are preserved by every step. *)
LEMMA TypeStep == ASSUME TypeOK, [Next]_vars PROVE TypeOK'
  <1> USE DEF TypeOK, Producers
  <1>1. ASSUME NEW c \in Clients, NEW o \in Operation, Ask(c, o) PROVE TypeOK'
    BY <1>1 DEF Ask, threadVars, portVars
  <1>2. ASSUME NEW c \in Clients, ClientNext(c) PROVE TypeOK'
    <2>1. CASE Direct(c)
      BY <2>1 DEF Direct, Applied, Operation, threadVars, portVars
    <2>2. CASE Push(c)
      <3>1. AsRequest(call[c], frame[c]) \in Request
        BY DEF AsRequest, Operation, Request
      <3> QED BY <2>2, <3>1, QueueFacts DEF Push, threadVars, portVars
    <2>3. CASE Woken(c) \/ Return(c)
      <3>1. NoCall \in Operation
        BY DEF Operation
      <3>2. call' \in [Clients -> Operation]
        BY <2>3, <3>1 DEF Woken, Return
      <3>3. pc' \in [Clients -> {"idle", "push", "direct", "wait", "return"}]
        BY <2>3 DEF Woken, Return
      <3> QED BY <2>3, <3>2, <3>3 DEF Woken, Return, threadVars, portVars
    <2> QED BY <1>2, <2>1, <2>2, <2>3 DEF ClientNext
  <1>3. ASSUME NEW v \in Values, PostUpdate(v) PROVE TypeOK'
    BY <1>3 DEF PostUpdate, clientVars, threadVars
  <1>4. ASSUME NEW p \in Producers, HandleRequest(p) PROVE TypeOK'
    <2>1. /\ Head(queue[p]) \in Request /\ Tail(queue[p]) \in Seq(Request)
      BY <1>4 DEF HandleRequest
    <2>2. value' \in Values /\ current' \in Request
      BY <1>4, <2>1 DEF HandleRequest, Applied, Request
    <2> QED BY <1>4, <2>1, <2>2 DEF HandleRequest, clientVars, portVars
  <1>5. CASE Callback
    BY <1>5 DEF Callback, FrameLives, portVars, Request
  <1>6. CASE HandleUpdate
    <2>1. Head(updates) \in Values /\ Tail(updates) \in Seq(Values)
      BY <1>6 DEF HandleUpdate
    <2>2. frame' \in [Producers -> Nat]
      BY <1>6 DEF HandleUpdate
    <2>3. [kind |-> "post", value |-> Head(updates), frame |-> frame'[Self]] \in Request
      BY <2>1, <2>2 DEF Request
    <2> QED BY <1>6, <2>1, <2>2, <2>3 DEF HandleUpdate, threadVars
  <1>10. CASE NotifyWaiter
    <2>1. NoRequest \in Request /\ Self \in Producers
      BY DEF Request, Producers
    <2> HIDE DEF NoRequest
    <2> QED BY <1>10, <2>1 DEF NotifyWaiter, clientVars, portVars
  <1>7. CASE StartBlock \/ Release \/ HandleExit \/ ExitThread \/ StopBlock
    BY <1>7 DEF StartBlock, Release, HandleExit, ExitThread, StopBlock,
                clientVars, portVars, threadVars
  <1>8. CASE PushExit \/ MarkStopped
    BY <1>8 DEF PushExit, MarkStopped, clientVars, portVars, threadVars
  <1>9. CASE UNCHANGED vars
    BY <1>9 DEF vars, clientVars, portVars, threadVars
  <1> QED BY <1>1, <1>2, <1>3, <1>4, <1>5, <1>6, <1>7, <1>8, <1>9, <1>10 DEF Next, ThreadNext

-----------------------------------------------------------------------------
(* The part of the invariant that is about requests, action by action. *)
RequestInv == QueueInv /\ ConfirmInv /\ WaitInv

LEMMA AskStep ==
  ASSUME IInv, TypeOK', NEW c \in Clients, NEW o \in Operation, Ask(c, o)
  PROVE  RequestInv'
  <1> USE DEF IInv, TypeOK, Ask, portVars, threadVars, BeingConfirmed
  <1>1. QueueInv'
    BY DEF QueueInv, Producers
  <1>2. ConfirmInv'
    BY DEF ConfirmInv, Producers
  <1>3. WaitInv'
    BY DEF WaitInv, InQueue, Producers
  <1> QED BY <1>1, <1>2, <1>3 DEF RequestInv

LEMMA ClientStep ==
  ASSUME IInv, TypeOK', NEW c \in Clients, ClientNext(c)
  PROVE  RequestInv'
  <1> USE DEF IInv, TypeOK, portVars, threadVars, BeingConfirmed
  <1>1. CASE Direct(c)
    <2>1. QueueInv'
      BY <1>1 DEF Direct, QueueInv, Producers
    <2>2. ConfirmInv'
      BY <1>1 DEF Direct, ConfirmInv, Producers
    <2>3. WaitInv'
      BY <1>1 DEF Direct, WaitInv, InQueue, Producers
    <2> QED BY <2>1, <2>2, <2>3 DEF RequestInv
  <1>2. CASE Push(c)
    <2> DEFINE r == AsRequest(call[c], frame[c])
    <2>1. r \in Request /\ r.kind = call[c].kind /\ r.frame = frame[c]
      BY DEF AsRequest, Operation, Request, Producers
    <2>2. c \in Producers /\ queue[c] \in Seq(Request)
      BY DEF Producers
    <2>3. /\ queue' = [queue EXCEPT ![c] = Append(queue[c], r)]
          /\ queue'[c] = Append(queue[c], r)
          /\ pc' = [pc EXCEPT ![c] = IF call[c].kind = "post" THEN "idle" ELSE "wait"]
          /\ pc[c] = "push"
          /\ UNCHANGED <<call, ready, frame, tpc, served, current>>
      BY <1>2, <2>2 DEF Push
    <2> HIDE DEF r
    <2>4. \A i \in DOMAIN queue[c] : queue[c][i].kind = "post"
      BY <2>2, <2>3 DEF QueueInv
    <2>5. /\ DOMAIN queue'[c] = 1..(Len(queue[c]) + 1) /\ Len(queue'[c]) = Len(queue[c]) + 1
          /\ \A i \in DOMAIN queue[c] : queue'[c][i] = queue[c][i]
          /\ queue'[c][Len(queue[c]) + 1] = r
          /\ DOMAIN queue[c] = 1..Len(queue[c]) /\ Len(queue[c]) \in Nat
      BY <2>1, <2>2, <2>3, QueueFacts
    <2>6. ~BeingConfirmed(c) /\ ~BeingConfirmed(c)'
      BY <2>2, <2>3 DEF ConfirmInv
    <2>7. QueueInv'
      <3> SUFFICES ASSUME NEW p \in Producers, NEW i \in DOMAIN queue'[p], queue'[p][i].kind # "post"
                   PROVE  /\ p \in Clients /\ pc'[p] = "wait" /\ ~ready'[p]
                          /\ i = Len(queue'[p]) /\ queue'[p][i].frame = frame'[p]
                          /\ ~BeingConfirmed(p)'
        BY DEF QueueInv
      <3>1. CASE p # c
        BY <3>1, <2>3 DEF QueueInv
      <3>2. CASE p = c
        <4>1. i = Len(queue[c]) + 1
          <5>1. i \in 1..(Len(queue[c]) + 1)
            BY <3>2, <2>5
          <5>2. i \notin DOMAIN queue[c]
            BY <3>2, <2>4, <2>5
          <5> QED BY <5>1, <5>2, <2>5, Places
        <4>2. call[c].kind # "post"
          BY <3>2, <4>1, <2>5, <2>1
        <4> QED BY <3>2, <4>1, <4>2, <2>1, <2>3, <2>5, <2>6 DEF WaitInv
      <3> QED BY <3>1, <3>2
    <2>8. ConfirmInv'
      BY <2>3, <2>6 DEF ConfirmInv, Producers
    <2>9. WaitInv'
      <3> SUFFICES ASSUME NEW d \in Clients
                   PROVE  /\ pc'[d] = "push" => ~ready'[d]
                          /\ pc'[d] \in {"wait", "return"} => call'[d].kind # "post"
                          /\ (pc'[d] = "wait" /\ ~ready'[d]) => (InQueue(d)' \/ BeingConfirmed(d)')
        BY DEF WaitInv
      <3>1. CASE d # c
        BY <3>1, <2>3 DEF WaitInv, InQueue, Producers
      <3>2. CASE d = c
        <4>1. call[c].kind # "post" => InQueue(c)'
          <5>1. Len(queue[c]) + 1 \in DOMAIN queue'[c]
            BY <2>5
          <5> QED BY <5>1, <2>1, <2>5 DEF InQueue
        <4> QED BY <3>2, <4>1, <2>3
      <3> QED BY <3>1, <3>2
    <2> QED BY <2>7, <2>8, <2>9 DEF RequestInv
  <1>3. CASE Woken(c)
    <2>1. QueueInv'
      BY <1>3 DEF Woken, QueueInv, Producers
    <2>2. ConfirmInv'
      BY <1>3 DEF Woken, ConfirmInv, Producers
    <2>3. WaitInv'
      BY <1>3 DEF Woken, WaitInv, InQueue, Producers
    <2> QED BY <2>1, <2>2, <2>3 DEF RequestInv
  <1>4. CASE Return(c)
    <2>1. QueueInv'
      BY <1>4 DEF Return, QueueInv, Producers
    <2>2. ConfirmInv'
      BY <1>4 DEF Return, ConfirmInv, Producers
    <2>3. WaitInv'
      BY <1>4 DEF Return, WaitInv, InQueue, Producers
    <2> QED BY <2>1, <2>2, <2>3 DEF RequestInv
  <1> QED BY <1>1, <1>2, <1>3, <1>4 DEF ClientNext

LEMMA HandleStep ==
  ASSUME IInv, TypeOK', NEW p \in Producers, HandleRequest(p)
  PROVE  RequestInv'
  <1> USE DEF IInv, TypeOK, BeingConfirmed
  <1>1. /\ queue[p] \in Seq(Request) /\ queue[p] # <<>> /\ tpc = "loop"
        /\ queue' = [queue EXCEPT ![p] = Tail(queue[p])]
        /\ queue'[p] = Tail(queue[p])
        /\ served' = p /\ tpc' = "callback"
        /\ UNCHANGED <<pc, call, ready, frame>>
    BY DEF HandleRequest, InLoop, clientVars
  <1>2. /\ Head(queue[p]) = queue[p][1] /\ 1 \in DOMAIN queue[p]
        /\ Len(queue'[p]) = Len(queue[p]) - 1 /\ DOMAIN queue'[p] = 1..(Len(queue[p]) - 1)
        /\ \A i \in DOMAIN queue'[p] : queue'[p][i] = queue[p][i + 1] /\ i + 1 \in DOMAIN queue[p]
        /\ Len(queue[p]) \in Nat /\ queue[p][1] \in Request
        /\ DOMAIN queue[p] = 1..Len(queue[p])
    BY <1>1, QueueFacts
  <1>3. current'.kind = queue[p][1].kind /\ current'.frame = queue[p][1].frame
    BY <1>2 DEF HandleRequest, Request
  <1>4. queue[p][1].kind # "post" => DOMAIN queue'[p] = {}
    <2>1. queue[p][1].kind # "post" => Len(queue[p]) = 1
      BY <1>2 DEF QueueInv
    <2> QED BY <2>1, <1>2, Places
  <1>5. QueueInv'
    <2> SUFFICES ASSUME NEW q \in Producers, NEW i \in DOMAIN queue'[q], queue'[q][i].kind # "post"
                 PROVE  /\ q \in Clients /\ pc'[q] = "wait" /\ ~ready'[q]
                        /\ i = Len(queue'[q]) /\ queue'[q][i].frame = frame'[q]
                        /\ ~BeingConfirmed(q)'
      BY DEF QueueInv
    <2>1. CASE q # p
      BY <2>1, <1>1 DEF QueueInv
    <2>2. CASE q = p
      <3>1. /\ i \in 1..(Len(queue[p]) - 1) /\ i + 1 \in DOMAIN queue[p]
            /\ queue[p][i + 1].kind # "post" /\ queue'[p][i] = queue[p][i + 1]
        BY <2>2, <1>2
      <3>2. queue[p][1].kind = "post"
        BY <2>2, <1>4
      <3>3. i + 1 = Len(queue[p])
        BY <3>1 DEF QueueInv
      <3> QED BY <2>2, <3>1, <3>2, <3>3, <1>1, <1>2, <1>3 DEF QueueInv
    <2> QED BY <2>1, <2>2
  <1>6. ConfirmInv'
    BY <1>1, <1>2, <1>3 DEF ConfirmInv, QueueInv
  <1>7. WaitInv'
    <2> SUFFICES ASSUME NEW d \in Clients
                 PROVE  /\ pc'[d] = "push" => ~ready'[d]
                        /\ pc'[d] \in {"wait", "return"} => call'[d].kind # "post"
                        /\ (pc'[d] = "wait" /\ ~ready'[d]) => (InQueue(d)' \/ BeingConfirmed(d)')
      BY DEF WaitInv
    <2>1. CASE d # p
      BY <2>1, <1>1 DEF WaitInv, InQueue, Producers
    <2>2. CASE d = p
      <3>1. SUFFICES ASSUME pc[p] = "wait", ~ready[p] PROVE InQueue(p)' \/ BeingConfirmed(p)'
        BY <2>2, <1>1 DEF WaitInv
      <3>2. PICK i \in DOMAIN queue[p] : queue[p][i].kind # "post"
        BY <3>1, <2>2, <1>1 DEF WaitInv, InQueue
      <3>3. CASE i = 1
        BY <3>2, <3>3, <1>1, <1>3
      <3>4. CASE i # 1
        <4>1. i \in 1..Len(queue[p])
          BY <3>2, <1>2
        <4>2. i - 1 \in 1..(Len(queue[p]) - 1) /\ (i - 1) + 1 = i
          BY <3>4, <4>1, <1>2, Places
        <4>3. i - 1 \in DOMAIN queue'[p] /\ queue'[p][i - 1] = queue[p][i]
          BY <4>1, <4>2, <1>2
        <4> QED BY <4>3, <3>2 DEF InQueue
      <3> QED BY <3>3, <3>4
    <2> QED BY <2>1, <2>2
  <1> QED BY <1>5, <1>6, <1>7 DEF RequestInv

LEMMA CallbackStep ==
  ASSUME IInv, TypeOK', Callback
  PROVE  RequestInv'
  <1> USE DEF IInv, TypeOK, BeingConfirmed, Callback, portVars
  <1>1. FrameLives => BeingConfirmed(served)
    BY DEF FrameLives
  <1>2. BeingConfirmed(served) => FrameLives
    BY DEF FrameLives, ConfirmInv
  <1>3. QueueInv'
    BY <1>1 DEF QueueInv, Producers
  <1>4. ConfirmInv'
    BY DEF ConfirmInv
  <1>5. WaitInv'
    <2>1. \A c \in Clients : pc[c] = "push" => ~ready'[c]
      BY <1>1 DEF WaitInv, ConfirmInv, Producers
    <2>2. \A c \in Clients : (pc[c] = "wait" /\ ~ready'[c]) => InQueue(c)
      BY <1>1, <1>2 DEF WaitInv
    <2> QED BY ZenonT(30), <2>1, <2>2 DEF WaitInv, InQueue
  <1> QED BY <1>3, <1>4, <1>5 DEF RequestInv

LEMMA UpdateStep ==
  ASSUME IInv, TypeOK', HandleUpdate
  PROVE  RequestInv'
  <1> USE DEF IInv, TypeOK, BeingConfirmed, threadVars
  <1> DEFINE r == [kind |-> "post", value |-> Head(updates), frame |-> frame'[Self]]
  <1>1. r \in Request /\ r.kind = "post"
    <2>1. Head(updates) \in Values
      BY DEF HandleUpdate
    <2> QED BY <2>1 DEF Request, Producers
  <1>2. /\ queue[Self] \in Seq(Request) /\ Self \in Producers
        /\ queue' = [queue EXCEPT ![Self] = Append(queue[Self], r)]
        /\ queue'[Self] = Append(queue[Self], r)
        /\ \A c \in Clients : frame'[c] = frame[c] /\ queue'[c] = queue[c]
        /\ UNCHANGED <<pc, call, ready, tpc, served, current>>
    BY DEF HandleUpdate, Producers
  <1> HIDE DEF r
  <1>3. \A i \in DOMAIN queue'[Self] : queue'[Self][i].kind = "post"
    <2>1. \A i \in DOMAIN queue[Self] : queue[Self][i].kind = "post"
      BY <1>2 DEF QueueInv
    <2>2. /\ DOMAIN queue'[Self] = 1..(Len(queue[Self]) + 1)
          /\ \A i \in DOMAIN queue[Self] : queue'[Self][i] = queue[Self][i]
          /\ queue'[Self][Len(queue[Self]) + 1] = r
          /\ DOMAIN queue[Self] = 1..Len(queue[Self]) /\ Len(queue[Self]) \in Nat
      BY <1>1, <1>2, QueueFacts
    <2>3. \A i \in DOMAIN queue'[Self] : i \in DOMAIN queue[Self] \/ i = Len(queue[Self]) + 1
      BY <2>2, Places
    <2>4. SUFFICES ASSUME NEW i \in DOMAIN queue'[Self] PROVE queue'[Self][i].kind = "post"
      OBVIOUS
    <2>5. CASE i \in DOMAIN queue[Self]
      BY <2>5, <2>1, <2>2
    <2>6. CASE i = Len(queue[Self]) + 1
      BY <2>6, <1>1, <2>2
    <2> QED BY <2>3, <2>5, <2>6
  <1>4. QueueInv'
    BY <1>2, <1>3 DEF QueueInv, Producers
  <1>5. ConfirmInv'
    BY <1>2 DEF ConfirmInv
  <1>6. WaitInv'
    BY <1>2 DEF WaitInv, InQueue, Producers
  <1> QED BY <1>4, <1>5, <1>6 DEF RequestInv

(* The steps that touch neither requests nor the service of one. *)
LEMMA OtherStep ==
  ASSUME IInv, TypeOK', UNCHANGED <<clientVars, queue>>,
         tpc' # "callback", tpc # "callback"
  PROVE  RequestInv'
  BY DEF IInv, RequestInv, clientVars, QueueInv, ConfirmInv, WaitInv, InQueue, BeingConfirmed

LEMMA StillStep ==
  ASSUME IInv, TypeOK', UNCHANGED <<clientVars, queue, served, current, tpc>>
  PROVE  RequestInv'
  BY DEF IInv, RequestInv, clientVars, QueueInv, ConfirmInv, WaitInv, InQueue, BeingConfirmed

LEMMA IInvStep == IInv /\ [Next]_vars => IInv'
  <1> SUFFICES ASSUME IInv, [Next]_vars PROVE IInv'
    OBVIOUS
  <1>0. TypeOK'
    BY TypeStep DEF IInv
  <1> SUFFICES RequestInv'
    BY <1>0 DEF IInv, RequestInv
  <1>1. ASSUME NEW c \in Clients, NEW o \in Operation, Ask(c, o) PROVE RequestInv'
    BY <1>0, <1>1, AskStep
  <1>2. ASSUME NEW c \in Clients, ClientNext(c) PROVE RequestInv'
    BY <1>0, <1>2, ClientStep
  <1>3. ASSUME NEW p \in Producers, HandleRequest(p) PROVE RequestInv'
    BY <1>0, <1>3, HandleStep
  <1>4. CASE Callback
    BY <1>0, <1>4, CallbackStep
  <1>5. CASE HandleUpdate
    BY <1>0, <1>5, UpdateStep
  <1>6. CASE Release \/ NotifyWaiter \/ ExitThread
    BY <1>0, <1>6, OtherStep DEF Release, NotifyWaiter, ExitThread, clientVars
  <1>7. ASSUME NEW v \in Values, PostUpdate(v) PROVE RequestInv'
    BY <1>0, <1>7, StillStep DEF PostUpdate, threadVars
  <1>8. CASE StartBlock \/ HandleExit \/ StopBlock \/ PushExit \/ MarkStopped
    BY <1>0, <1>8, StillStep DEF StartBlock, HandleExit, StopBlock, PushExit, MarkStopped, threadVars
  <1>9. CASE UNCHANGED vars
    BY <1>0, <1>9, StillStep DEF vars, threadVars
  <1> QED BY <1>1, <1>2, <1>3, <1>4, <1>5, <1>6, <1>7, <1>8, <1>9 DEF Next, ThreadNext

-----------------------------------------------------------------------------
(* The variables of parameter requests (block.cc, thread_wrapper.cc) keep
   their types. *)
THEOREM TypeCorrect == Spec => []TypeOK
  <1>1. IInv => TypeOK
    BY DEF IInv
  <1> QED BY <1>1, InitIInv, IInvStep, PTL DEF Spec

(* The flag a client of request_parameter_change or _query waits for is set
   when, and only when, its own request has been served and confirmed. *)
THEOREM Confirmed == Spec => []ReadyMeansServed
  <1>1. IInv => ReadyMeansServed
    BY DEF IInv, QueueInv, ConfirmInv, WaitInv, ReadyMeansServed, InQueue, Producers
  <1> QED BY <1>1, InitIInv, IInvStep, PTL DEF Spec

-----------------------------------------------------------------------------
(* The parameter is a register. *)

(* What the register sees of a queue that grows or shrinks. *)
LEMMA OfRequestsFacts ==
  ASSUME NEW q \in Seq(Request), NEW r \in Request
  PROVE  /\ OfRequests(Append(q, r)) = Append(OfRequests(q), [kind |-> r.kind, value |-> r.value])
         /\ q # <<>> => /\ OfRequests(q) # <<>>
                        /\ Head(OfRequests(q)) = [kind |-> Head(q).kind, value |-> Head(q).value]
                        /\ OfRequests(Tail(q)) = Tail(OfRequests(q))
  <1> DEFINE s == OfRequests(q)
  <1>1. s \in Seq(Operation) /\ Len(s) = Len(q) /\ DOMAIN s = DOMAIN q
    <2>1. DOMAIN q = 1..Len(q) /\ Len(q) \in Nat /\ \A i \in 1..Len(q) : q[i] \in Request
      OBVIOUS
    <2>2. s \in [1..Len(q) -> Operation]
      BY <2>1 DEF OfRequests, Operation, Request
    <2> QED BY SMTT(30), <2>1, <2>2
  <1>2. \A i \in DOMAIN q : s[i] = [kind |-> q[i].kind, value |-> q[i].value]
    BY DEF OfRequests
  <1>3. [kind |-> r.kind, value |-> r.value] \in Operation
    BY DEF Operation, Request
  <1>4. OfRequests(Append(q, r)) = Append(s, [kind |-> r.kind, value |-> r.value])
    BY <1>1, <1>2, <1>3 DEF OfRequests
  <1>5. q # <<>> => s # <<>> /\ Head(s) = [kind |-> Head(q).kind, value |-> Head(q).value]
    BY <1>1, <1>2
  <1>6. q # <<>> => OfRequests(Tail(q)) = Tail(s)
    BY <1>1, <1>2 DEF OfRequests
  <1> QED BY <1>4, <1>5, <1>6

(* What the register is made of keeps its type. *)
LEMMA MappingTypes ==
  ASSUME IInv
  PROVE  /\ \A c \in Clients : c \in Producers /\ c # Self
         /\ \A p \in Producers : p \in Clients \/ p = Self
         /\ \A p \in Producers : queue[p] \in Seq(Request)
         /\ \A c \in Clients : call[c] = [kind |-> call[c].kind, value |-> call[c].value]
         /\ \A c \in Clients : call[c] \in Operation
  BY DEF IInv, TypeOK, Producers, Operation

LEMMA AskMaps ==
  ASSUME IInv, IInv', NEW c \in Clients, NEW o \in Operation, Ask(c, o)
  PROVE  Register!Call(c, o) \/ UNCHANGED Register!vars
  <1> USE DEF IInv, TypeOK, Ask, portVars, threadVars, BeingConfirmed
  <1>1. ~BeingConfirmed(c) /\ ~BeingConfirmed(c)'
    BY DEF ConfirmInv, Producers
  <1>2. UNCHANGED RegPending /\ UNCHANGED RegAnswer /\ UNCHANGED value
    BY <1>1 DEF RegPending, RegAnswer
  <1>3. CASE o.kind = "post"
    <2>1. UNCHANGED RegState /\ UNCHANGED RegCall
      BY <1>1, <1>3 DEF RegState, RegStateOf, RegCall, Producers
    <2> QED BY <1>2, <2>1 DEF Register!vars
  <1>4. CASE o.kind # "post"
    <2> HIDE DEF NoCall
    <2>5. \A p \in Producers :
            RegStateOf(p)' = IF p = c THEN "called" ELSE RegStateOf(p)
      BY <1>4, <1>1 DEF RegStateOf, Producers
    <2>6. RegStateOf(c) = "idle" /\ c \in Producers
      <3>1. pc[c] = "idle"
        BY DEF Ask
      <3> QED BY <3>1 DEF RegStateOf, Producers
    <2>1. RegState[c] = "idle" /\ RegState' = [RegState EXCEPT ![c] = "called"]
      <3> HIDE DEF IInv, TypeOK, Ask
      <3>1. RegState' = [p \in Producers |-> IF p = c THEN "called" ELSE RegStateOf(p)]
        BY <2>5 DEF RegState
      <3> HIDE DEF RegStateOf
      <3> QED BY <2>6, <3>1, Zenon DEF RegState
    <2>3. \A p \in Producers :
            (IF p \in Clients /\ pc'[p] # "idle" /\ call'[p].kind # "post" THEN call'[p] ELSE NoCall)
            = IF p = c THEN o ELSE RegCall[p]
      BY <1>4 DEF RegCall, Producers
    <2>4. RegCall' = [p \in Producers |-> IF p = c THEN o ELSE RegCall[p]]
      BY <2>3 DEF RegCall
    <2>2. RegCall' = [RegCall EXCEPT ![c] = o]
      BY <2>4 DEF RegCall
    <2> QED BY <1>2, <1>4, <2>1, <2>2 DEF Register!Call
  <1> QED BY <1>3, <1>4

(* A step that moves one client changes the state of that client's call. *)
LEMMA StateMoves ==
  ASSUME NEW c \in Clients, NEW s, \A p \in Clients : p # c => pc'[p] = pc[p],
         UNCHANGED <<call, ready, tpc, served, current>>, RegStateOf(c)' = s
  PROVE  RegState' = [RegState EXCEPT ![c] = s] /\ RegState[c] = RegStateOf(c)
  BY DEF RegState, RegStateOf, BeingConfirmed, Producers

LEMMA DirectMaps ==
  ASSUME IInv, IInv', NEW c \in Clients, Direct(c)
  PROVE  Register!Effect(c) \/ Register!Post(c, call[c])
  <1> USE DEF IInv, TypeOK, Direct, portVars, threadVars, BeingConfirmed
  <1>1. ~BeingConfirmed(c) /\ ~BeingConfirmed(c)'
    BY DEF ConfirmInv, Producers
  <1>2. UNCHANGED RegPending
    BY DEF RegPending
  <1>3. CASE call[c].kind = "post"
    <2>1. UNCHANGED RegState /\ UNCHANGED RegCall /\ RegState[c] = "idle"
      BY <1>3 DEF RegState, RegStateOf, RegCall, Producers
    <2>2. UNCHANGED RegAnswer
      BY <1>3 DEF RegAnswer
    <2> QED BY <1>2, <1>3, <2>1, <2>2 DEF Register!Post, Register!Applied, Applied
  <1>4. CASE call[c].kind # "post"
    <2>1. RegState[c] = "called" /\ RegState' = [RegState EXCEPT ![c] = "taken"]
      <3>1. c # Self /\ c \in Producers
        BY MappingTypes
      <3>2. RegStateOf(c) = "called" /\ RegStateOf(c)' = "taken"
        BY <1>4, <1>1, <3>1 DEF RegStateOf
      <3>3. \A p \in Clients : p # c => pc'[p] = pc[p]
        OBVIOUS
      <3>4. UNCHANGED <<call, ready, tpc, served, current>>
        OBVIOUS
      <3> QED BY <3>2, <3>3, <3>4, StateMoves
    <2>2. RegCall[c] = call[c] /\ UNCHANGED RegCall
      BY <1>4 DEF RegCall, Producers
    <2>3. RegAnswer' = [RegAnswer EXCEPT ![c] = value']
      BY <1>1, <1>4 DEF RegAnswer, Producers
    <2> QED BY <1>2, <1>4, <2>1, <2>2, <2>3 DEF Register!Effect, Register!Applied, Applied
  <1> QED BY <1>3, <1>4

LEMMA PushMaps ==
  ASSUME IInv, IInv', NEW c \in Clients, Push(c)
  PROVE  Register!Submit(c) \/ Register!Post(c, call[c])
  <1> USE DEF IInv, TypeOK, Push, portVars, threadVars, BeingConfirmed
  <1>1. ~BeingConfirmed(c) /\ ~BeingConfirmed(c)' /\ ~ready[c] /\ ~ready'[c]
    BY DEF ConfirmInv, WaitInv, Producers
  <1>2. RegPending' = [RegPending EXCEPT ![c] = Append(RegPending[c], call[c])]
    <2> DEFINE r == AsRequest(call[c], frame[c])
    <2>1. r \in Request /\ [kind |-> r.kind, value |-> r.value] = call[c]
      BY MappingTypes DEF AsRequest, Request, Operation, Producers
    <2>2. queue' = [queue EXCEPT ![c] = Append(queue[c], r)] /\ c \in Producers
      BY DEF Producers
    <2> HIDE DEF r
    <2>3. OfRequests(Append(queue[c], r)) = Append(OfRequests(queue[c]), call[c])
      BY <2>1, <2>2, OfRequestsFacts, MappingTypes
    <2> QED BY <2>2, <2>3 DEF RegPending
  <1>3. UNCHANGED RegAnswer /\ UNCHANGED value
    BY DEF RegAnswer
  <1>4. CASE call[c].kind = "post"
    <2>1. UNCHANGED RegState /\ UNCHANGED RegCall /\ RegState[c] = "idle"
      BY SMTT(30), <1>4 DEF RegState, RegStateOf, RegCall, Producers
    <2> QED BY <1>2, <1>3, <1>4, <2>1 DEF Register!Post
  <1>5. CASE call[c].kind # "post"
    <2>1. RegState[c] = "called" /\ RegState' = [RegState EXCEPT ![c] = "submitted"]
      <3>1. c # Self /\ c \in Producers
        BY MappingTypes
      <3>2. RegStateOf(c) = "called" /\ RegStateOf(c)' = "submitted"
        BY <1>1, <1>5, <1>1, <3>1 DEF RegStateOf
      <3>3. \A p \in Clients : p # c => pc'[p] = pc[p]
        OBVIOUS
      <3>4. UNCHANGED <<call, ready, tpc, served, current>>
        OBVIOUS
      <3> QED BY <3>2, <3>3, <3>4, StateMoves
    <2>2. RegCall[c] = call[c] /\ UNCHANGED RegCall
      BY <1>5 DEF RegCall, Producers
    <2> QED BY <1>2, <1>3, <2>1, <2>2 DEF Register!Submit
  <1> QED BY <1>4, <1>5

LEMMA WokenMaps ==
  ASSUME IInv, IInv', NEW c \in Clients, Woken(c)
  PROVE  UNCHANGED Register!vars
  <1> USE DEF IInv, TypeOK, Woken, portVars, threadVars, BeingConfirmed
  <1>1. UNCHANGED <<value, RegPending, RegAnswer>>
    BY DEF RegPending, RegAnswer
  <1>2. UNCHANGED RegState /\ UNCHANGED RegCall
    BY DEF RegState, RegStateOf, RegCall, Producers
  <1> QED BY <1>1, <1>2 DEF Register!vars

LEMMA ReturnMaps ==
  ASSUME IInv, IInv', NEW c \in Clients, Return(c)
  PROVE  Register!Return(c)
  <1> USE DEF IInv, TypeOK, Return, portVars, threadVars, BeingConfirmed
  <1>1. UNCHANGED RegPending /\ UNCHANGED RegAnswer /\ UNCHANGED value
    BY DEF RegPending, RegAnswer
  <1>2. call[c].kind # "post"
    BY DEF WaitInv
  <1>3. RegState[c] = "taken" /\ RegState' = [RegState EXCEPT ![c] = "idle"]
    BY <1>2 DEF RegState, RegStateOf, Producers
  <1>4. RegCall' = [RegCall EXCEPT ![c] = [kind |-> "get", value |-> InitialValue]]
    BY <1>2 DEF RegCall, Producers
  <1> QED BY <1>1, <1>3, <1>4 DEF Register!Return, Register!NoCall

LEMMA HandleMaps ==
  ASSUME IInv, IInv', NEW p \in Producers, HandleRequest(p)
  PROVE  Register!Serve(p)
  <1> USE DEF IInv, TypeOK, BeingConfirmed
  <1> DEFINE o == Head(queue[p])
  <1>1. /\ queue[p] \in Seq(Request) /\ queue[p] # <<>> /\ tpc = "loop"
        /\ queue' = [queue EXCEPT ![p] = Tail(queue[p])]
        /\ served' = p /\ tpc' = "callback" /\ value' = Applied(o)
        /\ UNCHANGED <<pc, call, answer, ready, frame>>
    BY DEF HandleRequest, InLoop, clientVars
  <1>2. o \in Request /\ o = queue[p][1] /\ 1 \in DOMAIN queue[p]
    BY <1>1, QueueFacts
  <1>3. current'.kind = o.kind /\ current'.value = value'
    BY <1>2 DEF HandleRequest, Request
  <1> HIDE DEF o
  <1>4. /\ RegPending[p] # <<>>
        /\ Head(RegPending[p]) = [kind |-> o.kind, value |-> o.value]
        /\ RegPending' = [RegPending EXCEPT ![p] = Tail(RegPending[p])]
    BY <1>1, <1>2, OfRequestsFacts DEF RegPending, o
  <1>5. UNCHANGED RegCall
    BY <1>1 DEF RegCall
  <1>6. value' = Register!Applied(Head(RegPending[p]))
    BY <1>1, <1>4 DEF Register!Applied, Applied
  <1>7. CASE o.kind = "post"
    <2>1. \A q \in Producers : ~BeingConfirmed(q) /\ ~BeingConfirmed(q)'
      BY <1>1, <1>3, <1>7
    <2>2. UNCHANGED RegState /\ UNCHANGED RegAnswer
      BY <1>1, <2>1 DEF RegState, RegStateOf, RegAnswer
    <2> QED BY SMTT(30), <1>4, <1>5, <1>6, <1>7, <2>2 DEF Register!Serve
  <1>8. CASE o.kind # "post"
    <2>1. p \in Clients /\ p # Self /\ pc[p] = "wait" /\ ~ready[p] /\ call[p].kind # "post"
      BY <1>2, <1>8 DEF QueueInv, WaitInv, Producers
    <2>2. \A q \in Producers : ~BeingConfirmed(q) /\ (BeingConfirmed(q)' <=> q = p)
      BY <1>1, <1>3, <1>8
    <2>3. RegState[p] = "submitted" /\ RegState' = [RegState EXCEPT ![p] = "taken"]
      BY <1>1, <2>1, <2>2 DEF RegState, RegStateOf
    <2>4. RegAnswer' = [RegAnswer EXCEPT ![p] = value']
      BY <1>1, <1>3, <2>1, <2>2 DEF RegAnswer
    <2> QED BY SMTT(30), <1>4, <1>5, <1>6, <1>8, <2>3, <2>4 DEF Register!Serve
  <1> QED BY <1>7, <1>8

LEMMA CallbackMaps ==
  ASSUME IInv, IInv', Callback
  PROVE  UNCHANGED Register!vars
  <1> USE DEF IInv, TypeOK, Callback, portVars, BeingConfirmed
  <1>1. FrameLives <=> BeingConfirmed(served)
    BY DEF FrameLives, ConfirmInv
  <1>2. UNCHANGED <<value, RegPending, RegCall>>
    BY DEF RegPending, RegCall
  <1>3. UNCHANGED RegState
    BY <1>1 DEF RegState, RegStateOf, ConfirmInv, Producers
  <1>4. UNCHANGED RegAnswer
    BY <1>1 DEF RegAnswer, ConfirmInv, Producers
  <1> QED BY <1>2, <1>3, <1>4 DEF Register!vars

LEMMA UpdateMaps ==
  ASSUME IInv, IInv', HandleUpdate
  PROVE  \E o \in Operation : Register!Post(Self, o)
  <1> USE DEF IInv, TypeOK, threadVars, BeingConfirmed
  <1> DEFINE o == [kind |-> "post", value |-> Head(updates)]
             r == [kind |-> "post", value |-> Head(updates), frame |-> frame'[Self]]
  <1>1. Head(updates) \in Values /\ frame'[Self] \in Nat /\ Self \in Producers
    BY DEF HandleUpdate, Producers
  <1>2. o \in Operation /\ r \in Request /\ [kind |-> r.kind, value |-> r.value] = o /\ o.kind = "post"
    BY <1>1 DEF Operation, Request
  <1>3. queue' = [queue EXCEPT ![Self] = Append(queue[Self], r)]
    BY DEF HandleUpdate
  <1>4. UNCHANGED <<value, pc, call, answer, ready, tpc, served, current>>
    BY DEF HandleUpdate
  <1> HIDE DEF o, r
  <1>5. RegPending' = [RegPending EXCEPT ![Self] = Append(RegPending[Self], o)]
    BY ZenonT(30), <1>1, <1>2, <1>3, OfRequestsFacts, MappingTypes DEF RegPending
  <1>6. UNCHANGED RegState /\ UNCHANGED RegCall /\ UNCHANGED RegAnswer
    BY <1>4 DEF RegState, RegStateOf, RegCall, RegAnswer
  <1>7. RegState[Self] = "idle"
    BY <1>1 DEF RegState, RegStateOf
  <1>8. Register!Post(Self, o)
    BY <1>2, <1>4, <1>5, <1>6, <1>7 DEF Register!Post
  <1> QED BY <1>2, <1>8

LEMMA StillMaps ==
  ASSUME UNCHANGED <<value, clientVars, queue>>,
         UNCHANGED <<tpc, served, current>> \/ (tpc' # "callback" /\ tpc # "callback")
  PROVE  UNCHANGED Register!vars
  BY DEF Register!vars, clientVars, RegPending, RegState, RegStateOf, RegCall, RegAnswer, BeingConfirmed

LEMMA StepMaps ==
  ASSUME IInv, IInv', [Next]_vars
  PROVE  [Register!Next]_(Register!vars)
  <1>1. ASSUME NEW c \in Clients, NEW o \in Operation, Ask(c, o)
        PROVE  [Register!Next]_(Register!vars)
    BY <1>1, AskMaps, MappingTypes DEF Register!Next, Register!Operation, Operation
  <1>2. ASSUME NEW c \in Clients, ClientNext(c) PROVE [Register!Next]_(Register!vars)
    <2>1. CASE Direct(c)
      BY <2>1, DirectMaps, MappingTypes DEF Register!Next, Register!Operation, Operation
    <2>2. CASE Push(c)
      BY <2>2, PushMaps, MappingTypes DEF Register!Next, Register!Operation, Operation
    <2>3. CASE Woken(c)
      BY <2>3, WokenMaps
    <2>4. CASE Return(c)
      BY <2>4, ReturnMaps, MappingTypes DEF Register!Next
    <2> QED BY <1>2, <2>1, <2>2, <2>3, <2>4 DEF ClientNext
  <1>3. ASSUME NEW p \in Producers, HandleRequest(p) PROVE [Register!Next]_(Register!vars)
    BY <1>3, HandleMaps DEF Register!Next
  <1>4. CASE Callback
    BY <1>4, CallbackMaps
  <1>5. CASE HandleUpdate
    <2>1. Self \in Producers
      BY DEF Producers
    <2> QED BY <1>5, <2>1, UpdateMaps DEF Register!Next, Register!Operation, Operation
  <1>6. CASE Release \/ NotifyWaiter \/ ExitThread
    BY <1>6, StillMaps DEF Release, NotifyWaiter, ExitThread, clientVars
  <1>7. ASSUME NEW v \in Values, PostUpdate(v) PROVE [Register!Next]_(Register!vars)
    BY <1>7, StillMaps DEF PostUpdate, threadVars
  <1>8. CASE StartBlock \/ HandleExit \/ StopBlock \/ PushExit \/ MarkStopped
    BY <1>8, StillMaps DEF StartBlock, HandleExit, StopBlock, PushExit, MarkStopped, threadVars
  <1>9. CASE UNCHANGED vars
    BY <1>9, StillMaps DEF vars, threadVars
  <1> QED BY <1>1, <1>2, <1>3, <1>4, <1>5, <1>6, <1>7, <1>8, <1>9 DEF Next, ThreadNext

LEMMA InitMaps == Init => Register!Init
  <1> SUFFICES ASSUME Init PROVE Register!Init
    OBVIOUS
  <1>1. RegState = [p \in Producers |-> "idle"]
    BY DEF Init, RegState, RegStateOf, Producers
  <1>2. RegCall = [p \in Producers |-> Register!NoCall]
    BY DEF Init, RegCall, Register!NoCall
  <1>3. RegAnswer = [p \in Producers |-> InitialValue]
    BY DEF Init, RegAnswer, BeingConfirmed, Producers
  <1>4. RegPending = [p \in Producers |-> <<>>]
    <2>1. OfRequests(<<>>) = <<>>
      BY DEF OfRequests
    <2> QED BY <2>1 DEF Init, RegPending
  <1> QED BY <1>1, <1>2, <1>3, <1>4 DEF Init, Register!Init

(* Requests through the queue and in the caller's thread (block.cc), updates
   by message and the service of all of them between the iterations of the
   thread (thread_wrapper.cc) make the parameter a register. *)
THEOREM Refinement == Spec => ImplementsRegister
  <1>1. IInv /\ IInv' /\ [Next]_vars => [Register!Next]_(Register!vars)
    BY StepMaps
  <1> QED BY <1>1, InitIInv, IInvStep, InitMaps, PTL DEF Spec, ImplementsRegister, Register!Spec
=============================================================================
