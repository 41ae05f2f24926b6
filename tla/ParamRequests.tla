--------------------------- MODULE ParamRequests ---------------------------
(***************************************************************************)
(* The parameters of a running block: request_parameter_change and         *)
(* request_parameter_query of the application's threads, the thread of the *)
(* block, which serves them between its iterations, messages on the        *)
(* block's param_update port, which the same thread turns into requests    *)
(* that nobody waits for, and the start and end of the thread.             *)
(*                                                                         *)
(* A request finds d_running, which other threads set, and either pushes a *)
(* message with a callback or acts on the parameter itself.  The callback  *)
(* refers to a condition variable, a mutex and a flag on the stack of      *)
(* whoever made the request; frame numbers these stack frames.             *)
(*                                                                         *)
(* One parameter stands for all.  Queues are FIFO per producer.            *)
(***************************************************************************)
EXTENDS Integers, Sequences, FiniteSets

CONSTANTS
  Clients,      (* threads of the application that set and get             *)
  Self,         (* the block's thread as a client of its own parameter     *)
  Values, InitialValue,
  Kinds,        (* [Clients -> SUBSET {"set", "get", "post"}] their calls  *)
  MaxCalls,     (* bound: [Clients -> Nat] calls of each client            *)
  MaxUpdates,   (* bound: messages on the param_update port                *)
  Stops         (* the thread is told to exit, by an EXIT or by stop()     *)

Producers == Clients \cup {Self}
Operation == [kind : {"set", "get", "post"}, value : Values]
Request == [kind : {"set", "get", "post"}, value : Values, frame : Nat]

ASSUME ClientAssumption == Self \notin Clients
ASSUME ValueAssumption == InitialValue \in Values
ASSUME KindAssumption == Kinds \in [Clients -> SUBSET {"set", "get", "post"}]
ASSUME RequestBounds == MaxCalls \in [Clients -> Nat] /\ MaxUpdates \in Nat /\ Stops \in BOOLEAN

VARIABLES
  value,    (* *d_parameters.get(id)                                       *)
  running,  (* d_running                                                   *)
  pc,       (* [Clients -> where it is]                                    *)
  call,     (* [Clients -> Operation] its request                          *)
  answer,   (* [Clients -> Values] newval                                  *)
  ready,    (* [Clients -> BOOLEAN]                                        *)
  frame,    (* [Producers -> Nat] the number of its last request           *)
  queue,    (* [Producers -> Seq(Request)] in the thread's message queue   *)
  updates,  (* Seq(Values) messages of the param_update port in the queue  *)
  sent,     (* how many of those there have been                           *)
  exit,     (* an EXIT is in the queue                                     *)
  stopped,  (* d_thread_stopped                                            *)
  tpc,      (* the thread: "start", "loop", "callback", "notify", "exited" *)
  served,   (* the producer whose request the thread serves                *)
  current,  (* that request, with the value its param_action carries       *)
  orphan    (* a callback has been run whose frame was gone                *)

clientVars == <<pc, call, answer, ready, frame>>
threadVars == <<stopped, tpc, served, current, orphan>>
portVars == <<updates, sent>>
vars == <<value, running, clientVars, queue, portVars, exit, threadVars>>

NoCall == [kind |-> "get", value |-> InitialValue]
NoRequest == [kind |-> "post", value |-> InitialValue, frame |-> 0]

Init ==
  /\ value = InitialValue
  /\ running = FALSE
  /\ pc = [c \in Clients |-> "idle"]
  /\ call = [c \in Clients |-> NoCall]
  /\ answer = [c \in Clients |-> InitialValue]
  /\ ready = [c \in Clients |-> FALSE]
  /\ frame = [p \in Producers |-> 0]
  /\ queue = [p \in Producers |-> <<>>]
  /\ updates = <<>>
  /\ sent = 0
  /\ exit = FALSE
  /\ stopped = FALSE
  /\ tpc = "start"
  /\ served = Self
  /\ current = NoRequest
  /\ orphan = FALSE

(* Mutant: a query stores the empty value of its param_action. *)
AppliedEmpty(o) == IF o.kind = "get" THEN "empty" ELSE o.value

(* The parameter after an operation: on_parameter_change, on_parameter_query. *)
Applied(o) == IF o.kind = "get" THEN value ELSE o.value

AsRequest(o, n) == [kind |-> o.kind, value |-> o.value, frame |-> n]

-----------------------------------------------------------------------------
(* A client. *)

(* Mutant: ready is a member, which no request resets. *)
AskKeepsReady(c, o) ==
  /\ pc[c] = "idle" /\ frame[c] < MaxCalls[c]
  /\ o.kind \in Kinds[c] /\ (o.kind = "get" => o.value = InitialValue)
  /\ call' = [call EXCEPT ![c] = o]
  /\ frame' = [frame EXCEPT ![c] = @ + 1]
  /\ pc' = [pc EXCEPT ![c] = IF running THEN "push" ELSE "direct"]
  /\ UNCHANGED <<value, running, answer, ready, queue, portVars, exit, threadVars>>

(* A new request, and the look at d_running with which it begins. *)
Ask(c, o) ==
  /\ pc[c] = "idle" /\ frame[c] < MaxCalls[c]
  /\ o.kind \in Kinds[c] /\ (o.kind = "get" => o.value = InitialValue)
  /\ call' = [call EXCEPT ![c] = o]
  /\ frame' = [frame EXCEPT ![c] = @ + 1]
  /\ ready' = [ready EXCEPT ![c] = FALSE]
  /\ pc' = [pc EXCEPT ![c] = IF running THEN "push" ELSE "direct"]
  /\ UNCHANGED <<value, running, answer, queue, portVars, exit, threadVars>>

(* The block was not running: act on the parameter in the caller's thread. *)
Direct(c) ==
  /\ pc[c] = "direct"
  /\ value' = Applied(call[c])
  /\ answer' = IF call[c].kind = "post" THEN answer ELSE [answer EXCEPT ![c] = value']
  /\ pc' = [pc EXCEPT ![c] = IF call[c].kind = "post" THEN "idle" ELSE "return"]
  /\ UNCHANGED <<running, call, ready, frame, queue, portVars, exit, threadVars>>

(* The block was running: push a message, and wait unless block is false. *)
Push(c) ==
  /\ pc[c] = "push"
  /\ queue' = [queue EXCEPT ![c] = Append(@, AsRequest(call[c], frame[c]))]
  /\ pc' = [pc EXCEPT ![c] = IF call[c].kind = "post" THEN "idle" ELSE "wait"]
  /\ UNCHANGED <<value, running, call, answer, ready, frame, portVars, exit,
                 threadVars>>

(* cv.wait returns once ready is set, which it may find set at once. *)
Woken(c) ==
  /\ pc[c] = "wait" /\ ready[c]
  /\ pc' = [pc EXCEPT ![c] = "return"]
  /\ UNCHANGED <<value, running, call, answer, ready, frame, queue, portVars,
                 exit, threadVars>>

(* The request returns, and its frame is gone. *)
Return(c) ==
  /\ pc[c] = "return"
  /\ pc' = [pc EXCEPT ![c] = "idle"]
  /\ call' = [call EXCEPT ![c] = NoCall]
  /\ UNCHANGED <<value, running, answer, ready, frame, queue, portVars,
                 exit, threadVars>>

(* Another block posts a map to the param_update port. *)
PostUpdate(v) ==
  /\ sent < MaxUpdates
  /\ sent' = sent + 1
  /\ updates' = Append(updates, v)
  /\ UNCHANGED <<value, running, clientVars, queue, exit, threadVars>>

-----------------------------------------------------------------------------
(* The block's thread. *)

(* thread_wrapper::start: d_running is set before the thread is released. *)
StartBlock ==
  /\ tpc = "start" /\ ~running
  /\ running' = TRUE
  /\ UNCHANGED <<value, clientVars, queue, portVars, exit, threadVars>>

Release ==
  /\ tpc = "start" /\ running
  /\ tpc' = "loop"
  /\ UNCHANGED <<value, running, clientVars, queue, portVars, exit, stopped,
                 served, current, orphan>>

InLoop == tpc = "loop" /\ ~stopped

(* Mutant: confirms before the change is made. *)
HandleRequestLate(p) ==
  /\ InLoop /\ queue[p] # <<>>
  /\ value' = value
  /\ current' = [Head(queue[p]) EXCEPT !.value = value]
  /\ served' = p
  /\ queue' = [queue EXCEPT ![p] = Tail(@)]
  /\ tpc' = "callback"
  /\ UNCHANGED <<running, clientVars, portVars, exit, stopped, orphan>>

(* handle_parameter_change, handle_parameter_query: first the block ... *)
HandleRequest(p) ==
  /\ InLoop /\ queue[p] # <<>>
  /\ value' = Applied(Head(queue[p]))
  /\ current' = [Head(queue[p]) EXCEPT !.value = value']
  /\ served' = p
  /\ queue' = [queue EXCEPT ![p] = Tail(@)]
  /\ tpc' = "callback"
  /\ UNCHANGED <<running, clientVars, portVars, exit, stopped, orphan>>

(* A frame is alive from the request's begin to its return. *)
FrameLives ==
  /\ served \in Clients /\ current.kind # "post"
  /\ frame[served] = current.frame /\ pc[served] # "idle"

(* Mutant: the callback does not set ready. *)
CallbackForgets ==
  /\ tpc = "callback"
  /\ answer' = IF FrameLives THEN [answer EXCEPT ![served] = current.value] ELSE answer
  /\ ready' = ready
  /\ orphan' = (orphan \/ ~FrameLives)
  /\ tpc' = "notify"
  /\ UNCHANGED <<value, running, pc, call, frame, queue, portVars, exit,
                 stopped, served, current>>

(* ... then its callback: with the mutex, newval and ready ... *)
Callback ==
  /\ tpc = "callback"
  /\ IF FrameLives
     THEN /\ answer' = [answer EXCEPT ![served] = current.value]
          /\ ready' = [ready EXCEPT ![served] = TRUE]
     ELSE UNCHANGED <<answer, ready>>
  /\ orphan' = (orphan \/ ~FrameLives)
  /\ tpc' = "notify"
  /\ UNCHANGED <<value, running, pc, call, frame, queue, portVars, exit,
                 stopped, served, current>>

(* ... and, after the mutex is unlocked, cv.notify_all(). *)
NotifyWaiter ==
  /\ tpc = "notify"
  /\ orphan' = (orphan \/ ~FrameLives)
  /\ tpc' = "loop"
  /\ served' = Self /\ current' = NoRequest
  /\ UNCHANGED <<value, running, clientVars, queue, portVars, exit, stopped>>

(* handle_msg_param_update: a request of the thread itself, not waited for. *)
HandleUpdate ==
  /\ InLoop /\ updates # <<>>
  /\ updates' = Tail(updates)
  /\ frame' = [frame EXCEPT ![Self] = @ + 1]
  /\ queue' = [queue EXCEPT ![Self] =
                 Append(@, [kind |-> "post", value |-> Head(updates), frame |-> frame'[Self]])]
  /\ UNCHANGED <<value, running, pc, call, answer, ready, sent, exit, threadVars>>

-----------------------------------------------------------------------------
(* The end: an EXIT of the monitor, or stop() of the application, which sets
   d_thread_stopped, joins the thread and then stops the block. *)

PushExit ==
  /\ Stops /\ ~exit /\ tpc # "exited"
  /\ exit' = TRUE
  /\ UNCHANGED <<value, running, clientVars, queue, portVars, threadVars>>

HandleExit ==
  /\ InLoop /\ exit
  /\ exit' = FALSE
  /\ running' = FALSE
  /\ stopped' = TRUE
  /\ UNCHANGED <<value, clientVars, queue, portVars, tpc, served, current, orphan>>

MarkStopped ==
  /\ Stops /\ ~stopped
  /\ stopped' = TRUE
  /\ UNCHANGED <<value, running, clientVars, queue, portVars, exit, tpc, served,
                 current, orphan>>

(* d_thread_stopped is looked at between two messages. *)
ExitThread ==
  /\ tpc = "loop" /\ stopped
  /\ tpc' = "exited"
  /\ UNCHANGED <<value, running, clientVars, queue, portVars, exit, stopped,
                 served, current, orphan>>

StopBlock ==
  /\ tpc = "exited" /\ running
  /\ running' = FALSE
  /\ UNCHANGED <<value, clientVars, queue, portVars, exit, threadVars>>

ClientNext(c) ==
  Direct(c) \/ Push(c) \/ Woken(c) \/ Return(c)

ThreadNext ==
  \/ StartBlock \/ Release
  \/ \E p \in Producers : HandleRequest(p)
  \/ Callback \/ NotifyWaiter \/ HandleUpdate
  \/ HandleExit \/ ExitThread \/ StopBlock

Next ==
  \/ \E c \in Clients : ClientNext(c) \/ \E o \in Operation : Ask(c, o)
  \/ \E v \in Values : PostUpdate(v)
  \/ ThreadNext \/ PushExit \/ MarkStopped

(* Clients go on with a request they have begun; the thread is scheduled,
   and its queue holds no producer back for ever. *)
Spec ==
  /\ Init /\ [][Next]_vars
  /\ WF_vars(ThreadNext)
  /\ \A c \in Clients : WF_vars(ClientNext(c)) /\ SF_vars(HandleRequest(c))

-----------------------------------------------------------------------------
(* Properties. *)

(* The types of the variables. *)
TypeOK ==
  /\ value \in Values /\ running \in BOOLEAN
  /\ pc \in [Clients -> {"idle", "push", "direct", "wait", "return"}]
  /\ call \in [Clients -> Operation]
  /\ answer \in [Clients -> Values]
  /\ ready \in [Clients -> BOOLEAN]
  /\ frame \in [Producers -> Nat]
  /\ queue \in [Producers -> Seq(Request)]
  /\ updates \in Seq(Values) /\ sent \in 0..MaxUpdates
  /\ exit \in BOOLEAN /\ stopped \in BOOLEAN /\ orphan \in BOOLEAN
  /\ tpc \in {"start", "loop", "callback", "notify", "exited"}
  /\ served \in Producers /\ current \in Request

(* A request that is served but not yet confirmed. *)
BeingConfirmed(c) == tpc = "callback" /\ served = c /\ current.kind # "post"

(* The register (ParamRegister) that the parameter is: the call each producer
   has under way, how far it has got, its answer, and what is in the queue. *)
RegCall == [p \in Producers |->
  IF p \in Clients /\ pc[p] # "idle" /\ call[p].kind # "post" THEN call[p] ELSE NoCall]
RegStateOf(p) ==
  IF p = Self \/ call[p].kind = "post" \/ pc[p] = "idle" THEN "idle"
  ELSE IF pc[p] \in {"push", "direct"} THEN "called"
  ELSE IF pc[p] = "return" \/ ready[p] \/ BeingConfirmed(p) THEN "taken"
  ELSE "submitted"
RegState == [p \in Producers |-> RegStateOf(p)]
RegAnswer == [p \in Producers |->
  IF p = Self THEN InitialValue
  ELSE IF BeingConfirmed(p) THEN current.value ELSE answer[p]]
OfRequests(q) == [i \in DOMAIN q |-> [kind |-> q[i].kind, value |-> q[i].value]]
RegPending == [p \in Producers |-> OfRequests(queue[p])]

(* Every set and get is one access to a register: however requests through
   the queue, requests in the caller's own thread, updates by message and the
   end of the thread are interleaved. *)
Register == INSTANCE ParamRegister WITH
  Clients <- Producers, reg <- value, call <- RegCall, state <- RegState,
  answer <- RegAnswer, pending <- RegPending
ImplementsRegister == Register!Spec

(* "block until confirmation that parameter has been set" (block.cc): a
   request that waits is confirmed, and returns, unless the thread is stopped:
   then a request behind the EXIT waits for ever. *)
RequestsReturn ==
  \A c \in Clients : pc[c] # "idle" ~> (pc[c] = "idle" \/ stopped)

(* No confirmation is lost, early or another request's: a waiting request is
   in the queue or being confirmed exactly until its own flag is set. *)
InQueue(c) == \E i \in DOMAIN queue[c] : queue[c][i].kind # "post"
ReadyMeansServed ==
  \A c \in Clients : pc[c] = "wait" =>
    (ready[c] <=> (~InQueue(c) /\ ~BeingConfirmed(c)))

(* "block until confirmation" (block.cc), "Blocks now have a default
   `param_update` message port" (CHANGELOG.md): a callback runs only while
   the request whose variables it uses is there. *)
CallbacksAreAlive == ~orphan
=============================================================================
