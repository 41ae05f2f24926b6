---------------------------- MODULE MessagePorts ----------------------------
(***************************************************************************)
(* Message ports between blocks that only forward messages (msg_forward):  *)
(* message_port::post and push_message, the dispatch of a message by the   *)
(* thread that owns the receiving block, the count msg_forward keeps, and  *)
(* the "done" it posts to its own system port when the count reaches       *)
(* max_messages, which ends in a DONE to the monitor.                      *)
(*                                                                         *)
(* A posted message is one object that all connected ports are handed.     *)
(* Each of them stores its own callback in the object and pushes it to the *)
(* queue of its owner; the owner calls whatever callback it finds there.   *)
(*                                                                         *)
(* Queues are FIFO per producer, as in NbtRuntime.                         *)
(***************************************************************************)
EXTENDS Integers, SequencesExt

CONSTANTS
  Blocks,     (* the msg_forward blocks                                     *)
  Connected,  (* [Blocks -> Seq(Blocks)] _connected_ports of the out port   *)
  Owner,      (* [Blocks -> Threads] the thread the block's ports push to   *)
  MaxMessages,(* [Blocks -> Nat] max_messages, 0 for none                   *)
  Posts       (* what the application posts: a sequence of <<block, data>>  *)

Threads == {Owner[b] : b \in Blocks}
None == "none"

ASSUME ConnectedAssumption == Connected \in [Blocks -> Seq(Blocks)]
ASSUME MaxAssumption == MaxMessages \in [Blocks -> Nat]
ASSUME NamesAssumption == None \notin Blocks /\ "app" \notin Threads

VARIABLES
  objects,   (* the msgport_message objects: their data and callback      *)
  queue,     (* [Threads -> [producers -> Seq]] the threads' queues       *)
  script,    (* what each thread has still to do for the popped message   *)
  loaded,    (* msg_cnt, local to the handler                             *)
  count,     (* [Blocks -> Nat] param_message_count                       *)
  finished,  (* [Blocks -> BOOLEAN] d_finished                            *)
  work,      (* [Threads -> BOOLEAN] do_some_work                         *)
  done,      (* a DONE has been pushed to the monitor                     *)
  posted,    (* how many of Posts the application has made                *)
  handled    (* history: [Blocks -> Seq] data and thread of each call     *)

vars == <<objects, queue, script, loaded, count, finished, work, done,
          posted, handled>>

Producers == Threads \cup {"app"}

Init ==
  /\ objects = <<>>
  /\ queue = [t \in Threads |-> [p \in Producers |-> <<>>]]
  /\ script = [t \in Threads |-> <<>>]
  /\ loaded = [t \in Threads |-> 0]
  /\ count = [b \in Blocks |-> 0]
  /\ finished = [b \in Blocks |-> FALSE]
  /\ work = [t \in Threads |-> FALSE]
  /\ done = FALSE
  /\ posted = 0
  /\ handled = [b \in Blocks |-> <<>>]

-----------------------------------------------------------------------------
Push(t, p, m) == queue' = [queue EXCEPT ![t][p] = Append(@, m)]
Message(o) == [kind |-> "message", object |-> o]
System(b) == [kind |-> "system", block |-> b]
Notify == [kind |-> "notify"]

(* post on an input port: a new object whose callback is the port's. *)
AppPost ==
  /\ posted < Len(Posts)
  /\ posted' = posted + 1
  /\ LET b == Posts[posted'][1] IN
     /\ objects' = Append(objects, [data |-> Posts[posted'][2], callback |-> b])
     /\ Push(Owner[b], "app", Message(Len(objects')))
  /\ UNCHANGED <<script, loaded, count, finished, work, done, handled>>

(* msg_forward's handler: load the count, store it plus one, post "done" at
   the maximum, and post the message to the out port. *)
Handler(b, d) == <<[op |-> "load", block |-> b, data |-> d],
                   [op |-> "store", block |-> b, data |-> d],
                   [op |-> "post", block |-> b, data |-> d]>>

Popped(t, p) ==
  /\ script[t] = <<>> /\ queue[t][p] # <<>>

(* MSGPORT_MESSAGE: m->callback()(m->message()). *)
Dispatch(t, p) ==
  /\ Popped(t, p) /\ Head(queue[t][p]).kind = "message"
  /\ LET o == objects[Head(queue[t][p]).object] IN
       script' = [script EXCEPT ![t] =
                    IF o.callback = None THEN <<>> ELSE Handler(o.callback, o.data)]
  /\ queue' = [queue EXCEPT ![t][p] = Tail(@)]
  /\ UNCHANGED <<objects, loaded, count, finished, work, done, posted, handled>>

(* Mutant: does not wake the scheduler. *)
HandleSystemAsleep(t, p) ==
  /\ Popped(t, p) /\ Head(queue[t][p]).kind = "system"
  /\ finished' = [finished EXCEPT ![Head(queue[t][p]).block] = TRUE]
  /\ queue' = [queue EXCEPT ![t][p] = Tail(@)]
  /\ UNCHANGED <<objects, script, loaded, count, work, done, posted, handled>>

(* handle_msg_system of "done": the block is finished and asks its thread
   for an iteration. *)
HandleSystem(t, p) ==
  /\ Popped(t, p) /\ Head(queue[t][p]).kind = "system"
  /\ LET b == Head(queue[t][p]).block
         rest == [queue EXCEPT ![t][p] = Tail(@)]
     IN  /\ finished' = [finished EXCEPT ![b] = TRUE]
         /\ queue' = [rest EXCEPT ![Owner[b]][t] = Append(@, Notify)]
  /\ UNCHANGED <<objects, script, loaded, count, work, done, posted, handled>>

PopNotify(t, p) ==
  /\ Popped(t, p) /\ Head(queue[t][p]) = Notify
  /\ queue' = [queue EXCEPT ![t][p] = Tail(@)]
  /\ work' = [work EXCEPT ![t] = TRUE]
  /\ UNCHANGED <<objects, script, loaded, count, finished, done, posted, handled>>

(* The queue is drained and a message asked for work: run_one_iteration
   finds the finished blocks DONE, and handle_work_notification tells the
   monitor. *)
Iterate(t) ==
  /\ script[t] = <<>> /\ work[t]
  /\ \A p \in Producers : queue[t][p] = <<>>
  /\ work' = [work EXCEPT ![t] = FALSE]
  /\ done' = (done \/ \E b \in Blocks : Owner[b] = t /\ finished[b])
  /\ UNCHANGED <<objects, queue, script, loaded, count, finished, posted, handled>>

-----------------------------------------------------------------------------
(* The steps of a handler in thread t. *)
Does(t, op) == script[t] # <<>> /\ Head(script[t]).op = op

LoadCount(t) ==
  LET h == Head(script[t]) IN
  /\ Does(t, "load")
  /\ loaded' = [loaded EXCEPT ![t] = count[h.block]]
  /\ handled' = [handled EXCEPT ![h.block] = Append(@, [data |-> h.data, thread |-> t])]
  /\ script' = [script EXCEPT ![t] = Tail(@)]
  /\ UNCHANGED <<objects, queue, count, finished, work, done, posted>>

AtMaximum(b, n) == MaxMessages[b] > 0 /\ n >= MaxMessages[b]

StoreCount(t) ==
  LET b == Head(script[t]).block
      n == loaded[t] + 1
  IN
  /\ Does(t, "store")
  /\ count' = [count EXCEPT ![b] = n]
  /\ IF AtMaximum(b, n) THEN Push(Owner[b], t, System(b)) ELSE UNCHANGED queue
  /\ script' = [script EXCEPT ![t] = Tail(@)]
  /\ UNCHANGED <<objects, loaded, finished, work, done, posted, handled>>

(* Mutant: hands the object to a port's queue before it stores the callback. *)
DeliveryLate(o, b) == <<[op |-> "push", block |-> b, object |-> o],
                        [op |-> "bind", block |-> b, object |-> o]>>

(* push_message of a connected port: store its callback, push. *)
Delivery(o, b) == <<[op |-> "bind", block |-> b, object |-> o],
                    [op |-> "push", block |-> b, object |-> o]>>

(* notify_connected_ports: one port after the other, two steps each. *)
Deliveries(o, ports) ==
  [k \in 1..(2 * Len(ports)) |-> Delivery(o, ports[(k + 1) \div 2])[2 - (k % 2)]]

(* post on an output port: one object, with no callback yet, for all the
   connected ports in turn. *)
Post(t) ==
  LET h == Head(script[t])
      o == Len(objects) + 1
  IN
  /\ Does(t, "post")
  /\ objects' = Append(objects, [data |-> h.data, callback |-> None])
  /\ script' = [script EXCEPT ![t] = Deliveries(o, Connected[h.block]) \o Tail(@)]
  /\ UNCHANGED <<queue, loaded, count, finished, work, done, posted, handled>>

Bind(t) ==
  /\ Does(t, "bind")
  /\ objects' = [objects EXCEPT ![Head(script[t]).object].callback = Head(script[t]).block]
  /\ script' = [script EXCEPT ![t] = Tail(@)]
  /\ UNCHANGED <<queue, loaded, count, finished, work, done, posted, handled>>

(* Mutant: pushes to the queue of the posting thread. *)
DeliverOwnQueue(t) ==
  /\ Does(t, "push")
  /\ Push(t, t, Message(Head(script[t]).object))
  /\ script' = [script EXCEPT ![t] = Tail(@)]
  /\ UNCHANGED <<objects, loaded, count, finished, work, done, posted, handled>>

Deliver(t) ==
  /\ Does(t, "push")
  /\ Push(Owner[Head(script[t]).block], t, Message(Head(script[t]).object))
  /\ script' = [script EXCEPT ![t] = Tail(@)]
  /\ UNCHANGED <<objects, loaded, count, finished, work, done, posted, handled>>

ThreadNext(t) ==
  \/ \E p \in Producers : Dispatch(t, p) \/ HandleSystem(t, p) \/ PopNotify(t, p)
  \/ Iterate(t)
  \/ LoadCount(t) \/ StoreCount(t) \/ Post(t) \/ Bind(t) \/ Deliver(t)

Next == AppPost \/ \E t \in Threads : ThreadNext(t)

(* The application and every thread are scheduled. *)
Spec == Init /\ [][Next]_vars /\ WF_vars(AppPost) /\ \A t \in Threads : WF_vars(ThreadNext(t))

-----------------------------------------------------------------------------
(* Properties. *)

(* "When a message port is added in the yml, an automatically named handler
   is instatiated at the top level block class" (blocklib/README.md): a
   message is handled by each connected block at most once, in the thread
   that owns the block, and in the order in which it was posted.  The data
   of a post is its source and its number. *)
HandledByOwnerInOrder ==
  \A b \in Blocks :
    /\ \A i \in DOMAIN handled[b] : handled[b][i].thread = Owner[b]
    /\ \A i, j \in DOMAIN handled[b] :
         (i < j /\ handled[b][i].data[1] = handled[b][j].data[1])
           => handled[b][i].data[2] < handled[b][j].data[2]

(* The posts that are to reach block b. *)
Upstream[n \in Nat] ==
  IF n = 0 THEN {<<b, b>> : b \in Blocks}
  ELSE Upstream[n - 1] \cup
       {e \in Blocks \X Blocks : \E m \in Blocks :
          <<e[1], m>> \in Upstream[n - 1] /\ e[2] \in Range(Connected[m])}
Expected(b) ==
  Len(SelectSeq(Posts, LAMBDA q : <<q[1], b>> \in Upstream[Len(Posts)]))

(* Every message comes through: in the end every block has counted all the
   messages posted upstream of it (EXPECT_EQ(cnt, 10) of qa_message_ports). *)
AllCounted == <>[](\A b \in Blocks : count[b] = Expected(b))

(* A block that has counted max_messages is finished and the monitor hears
   of it, however many messages its thread has still to pop. *)
FinishIsReported ==
  \A b \in Blocks : AtMaximum(b, count[b]) ~> (finished[b] /\ done)
=============================================================================
