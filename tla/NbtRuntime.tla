----------------------------- MODULE NbtRuntime -----------------------------
(***************************************************************************)
(* A flowgraph executed by scheduler_nbt from runtime::start to its end:   *)
(* the application's thread (runtime), the monitor's thread                *)
(* (runtime_monitor) and the scheduler's threads (thread_wrapper), each of *)
(* which runs the work loop of graph_executor over its block group.        *)
(*                                                                         *)
(* Threads share the fill of the stream buffers and talk through message   *)
(* queues: NOTIFY between neighbours and to oneself, DONE and EXIT from    *)
(* the monitor, EXIT from the application, START, DONE, FLUSHED and KILL   *)
(* to the monitor.                                                         *)
(*                                                                         *)
(* A queue is FIFO per producer (moodycamel).  Every kind of message has   *)
(* one field per producer that matters: NOTIFYs waiting together are       *)
(* popped together, so a flag stands for all of them, and the monitor      *)
(* treats a second DONE or FLUSHED of a scheduler like the first, so its   *)
(* queue is a set.                                                         *)
(*                                                                         *)
(* A buffer is its fill in items: CircBuffer's AvailableIsExact allows it, *)
(* as long as no thread is misled by an index that is being advanced.      *)
(* A block has at most one output port, with one reader per edge.          *)
(***************************************************************************)
EXTENDS Integers, SequencesExt

CONSTANTS
  BlockSeq,   (* the blocks, in the order of _block_thread_map              *)
  Edges,      (* stream connections: pairs of blocks                        *)
  Group,      (* [Threads -> Seq(Blocks)] the block group each thread of a  *)
              (* scheduler_nbt runs, or the one block that is in no group   *)
  SchedOf,    (* [Threads -> Schedulers]                                    *)
  Limit,      (* [Blocks -> Nat] items after which work answers WORK_DONE,  *)
              (* 0 for a block that never does                              *)
  BufItems,   (* num_items of every buffer                                  *)
  MinRead,    (* [Edges -> Nat] min_buffer_read, 0 when it is not set       *)
  Partial,    (* work may process fewer items than it is offered            *)
              (* (max_buffer_read, max_buffer_fill, the block's own choice) *)
  FlushCount, (* 8: blocked rounds after which a thread counts as flushed   *)
  AppStops    (* the application may call stop() rather than wait(), or be  *)
              (* interrupted while it waits                                 *)

Blocks == Range(BlockSeq)
Threads == DOMAIN Group
Schedulers == {SchedOf[t] : t \in Threads}

ASSUME GraphAssumption ==
  /\ BlockSeq \in Seq(Blocks)
  /\ Edges \subseteq Blocks \X Blocks
  /\ \A b \in Blocks : \E e \in Edges : b \in {e[1], e[2]}
  /\ Limit \in [Blocks -> Nat]
  /\ MinRead \in [Edges -> Nat]
  /\ BufItems \in Nat \ {0, 1}
ASSUME GroupAssumption ==
  /\ \A t \in Threads : Group[t] \in Seq(Blocks) /\ Group[t] # <<>>
  /\ \A b \in Blocks : \E t \in Threads : b \in Range(Group[t])
  /\ \A t, u \in Threads : t # u => Range(Group[t]) \cap Range(Group[u]) = {}
ASSUME ControlAssumption ==
  FlushCount \in Nat \ {0} /\ Partial \in BOOLEAN /\ AppStops \in BOOLEAN

VARIABLES
  fill,      (* [Edges -> Nat] items the edge's reader has still to read   *)
  made,      (* [Blocks -> Nat] items a block with a limit has processed   *)
  topped,    (* [Edges -> BOOLEAN] history: the last to move an index of the *)
             (* edge's buffer was its writer                              *)
  status,    (* [Blocks -> status in this iteration]; DONE is kept         *)
  pc,        (* where each thread is: "start", "wait" (blocking pop), "poll" *)
             (* (non-blocking pops), "iterate", "exited"                   *)
  work,      (* do_some_work                                               *)
  cur,       (* the block of the group run_one_iteration is at             *)
  script,    (* what the executor has still to do for this work call       *)
  stopped,   (* d_thread_stopped                                           *)
  flushing,  (* d_flushing                                                 *)
  flush_cnt, (* d_flush_cnt, up to FlushCount                              *)
  note,      (* a NOTIFY is in the thread's queue                          *)
  ctl,       (* the monitor's messages in the thread's queue               *)
  killed,    (* an EXIT of the application is in the thread's queue        *)
  mon,       (* the monitor: "run" (first loop), "flush" (second), "stopped" *)
  mscript,   (* the pushes and starts the monitor is in the middle of      *)
  mq,        (* the monitor's queue                                        *)
  flushed,   (* the schedulers that are sched_done                         *)
  app,       (* what the application's thread has still to do              *)
  begun,     (* runtime::start has been called                             *)
  stopping,  (* the application calls stop(), or kill()                    *)
  interrupted (* ... kill()                                                *)

dataVars == <<fill, made, topped>>
execVars == <<status, cur, script>>
loopVars == <<pc, work, stopped>>
flushVars == <<flushing, flush_cnt>>
queueVars == <<note, ctl, killed>>
monVars == <<mon, mscript, mq, flushed>>
appVars == <<app, begun, stopping, interrupted>>
vars == <<dataVars, execVars, loopVars, flushVars, queueVars, monVars, appVars>>

-----------------------------------------------------------------------------
In == [b \in Blocks |-> {e \in Edges : e[2] = b}]
Out == [b \in Blocks |-> {e \in Edges : e[1] = b}]
Members == [t \in Threads |-> Range(Group[t])]
ThreadOf == [b \in Blocks |-> CHOOSE t \in Threads : b \in Members[t]]
Current(t) == Group[t][cur[t]]

(* read_info on every input port, and write_info on the output port. *)
Available(b) == Min({fill[e] : e \in In[b]})

(* Mutant: does not keep an item of the buffer free. *)
SpaceNoGap(b) ==
  LET backlog == Max({fill[e] : e \in Out[b]})
  IN  Min({BufItems - backlog, BufItems \div 2})

Space(b) ==
  LET backlog == Max({fill[e] : e \in Out[b]})
  IN  Min({BufItems - backlog - 1, BufItems \div 2})

InputBlocked(b) == \E e \in In[b] : fill[e] < Max({1, MinRead[e]})
OutputBlocked(b) == Out[b] # {} /\ Space(b) < 1

(* The numbers of items a work call of b may process: as many as its ports
   and its limit allow, at least one. *)
Amounts(b) ==
  LET most == Min((IF In[b] = {} THEN {} ELSE {Available(b)})
                  \cup (IF Out[b] = {} THEN {} ELSE {Space(b)})
                  \cup (IF Limit[b] = 0 THEN {} ELSE {Limit[b] - made[b]}))
  IN  IF Partial /\ most > 0 THEN 1..most ELSE {most}

(* A head answers WORK_DONE with its last item, a source when it is called
   again after its last item. *)
AnswersDone(b, n) ==
  /\ Limit[b] > 0
  /\ IF In[b] = {} THEN n = 0 ELSE made[b] + n = Limit[b]

(* What follows a work call that answered WORK_OK or WORK_DONE: post_read
   and NOTIFY_OUTPUT for every input port, post_write and NOTIFY_INPUT for
   the output port. *)
InSeq == [b \in Blocks |-> SetToSeq(In[b])]
OutSeq == [b \in Blocks |-> SetToSeq(Out[b])]
Read(e, n) == [op |-> "read", edge |-> e, n |-> n]
Write(b, n) == [op |-> "write", block |-> b, n |-> n]
Notify(b) == [op |-> "notify", to |-> ThreadOf[b]]

(* Mutant: notifies the writer before post_read. *)
ReadingEarly(b, n) ==
  [i \in 1..(2 * Len(InSeq[b])) |->
     LET e == InSeq[b][(i + 1) \div 2] IN IF i % 2 = 1 THEN Notify(e[1]) ELSE Read(e, n)]

Reading(b, n) ==
  [i \in 1..(2 * Len(InSeq[b])) |->
     LET e == InSeq[b][(i + 1) \div 2] IN IF i % 2 = 1 THEN Read(e, n) ELSE Notify(e[1])]

(* Mutant: notifies the readers before post_write. *)
PostingEarly(b, n) ==
  Reading(b, n)
  \o (IF Out[b] = {} THEN <<>>
      ELSE [i \in DOMAIN OutSeq[b] |-> Notify(OutSeq[b][i][2])]
           \o <<Write(b, n)>>)

Posting(b, n) ==
  Reading(b, n)
  \o (IF Out[b] = {} THEN <<>>
      ELSE <<Write(b, n)>>
           \o [i \in DOMAIN OutSeq[b] |-> Notify(OutSeq[b][i][2])])

Init ==
  /\ fill = [e \in Edges |-> 0]
  /\ made = [b \in Blocks |-> 0]
  /\ topped = [e \in Edges |-> FALSE]
  /\ status = [b \in Blocks |-> "NONE"]
  /\ pc = [t \in Threads |-> "start"]
  /\ work = [t \in Threads |-> FALSE]
  /\ cur = [t \in Threads |-> 1]
  /\ script = [t \in Threads |-> <<>>]
  /\ stopped = [t \in Threads |-> FALSE]
  /\ flushing = [t \in Threads |-> FALSE]
  /\ flush_cnt = [t \in Threads |-> 0]
  /\ note = [t \in Threads |-> FALSE]
  /\ ctl = [t \in Threads |-> <<>>]
  /\ killed = [t \in Threads |-> FALSE]
  /\ mon = "run"
  /\ mscript = <<>>
  /\ mq = {}
  /\ flushed = {}
  /\ app = <<>>
  /\ begun = FALSE
  /\ stopping = FALSE
  /\ interrupted = FALSE

-----------------------------------------------------------------------------
(* thread_body: the message loop. *)

QueueEmpty(t) == ~note[t] /\ ctl[t] = <<>> /\ ~killed[t]

(* A blocking pop ends with a message only, whatever becomes of
   d_thread_stopped meanwhile. *)
CanPop(t) == pc[t] = "wait" \/ (pc[t] = "poll" /\ ~stopped[t])

Popped(t) ==
  /\ CanPop(t)
  /\ pc' = [pc EXCEPT ![t] = "poll"]

(* NOTIFY_INPUT, NOTIFY_OUTPUT, NOTIFY_ALL. *)
PopNotify(t) ==
  /\ note[t]
  /\ Popped(t)
  /\ note' = [note EXCEPT ![t] = FALSE]
  /\ work' = [work EXCEPT ![t] = TRUE]
  /\ UNCHANGED <<dataVars, execVars, stopped, flushVars, ctl, killed,
                 monVars, appVars>>

(* DONE: start_flushing, which also notifies the thread itself. *)
PopDone(t) ==
  /\ ctl[t] # <<>> /\ Head(ctl[t]) = "DONE"
  /\ Popped(t)
  /\ ctl' = [ctl EXCEPT ![t] = Tail(@)]
  /\ flushing' = [flushing EXCEPT ![t] = TRUE]
  /\ flush_cnt' = [flush_cnt EXCEPT ![t] = 0]
  /\ note' = [note EXCEPT ![t] = TRUE]
  /\ work' = [work EXCEPT ![t] = TRUE]
  /\ UNCHANGED <<dataVars, execVars, stopped, killed, monVars, appVars>>

(* EXIT, from the monitor or from the application. *)
PopExit(t) ==
  /\ \/ /\ ctl[t] # <<>> /\ Head(ctl[t]) = "EXIT"
        /\ ctl' = [ctl EXCEPT ![t] = Tail(@)]
        /\ UNCHANGED killed
     \/ /\ killed[t]
        /\ killed' = [killed EXCEPT ![t] = FALSE]
        /\ UNCHANGED ctl
  /\ Popped(t)
  /\ stopped' = [stopped EXCEPT ![t] = TRUE]
  /\ UNCHANGED <<dataVars, execVars, work, flushVars, note, monVars, appVars>>

(* The queue is drained or the thread is stopped: one iteration over the
   group if a message asked for it, even when the thread is to exit ... *)
PopEnded(t) ==
  pc[t] = "poll" /\ (stopped[t] \/ QueueEmpty(t))

BeginIteration(t) ==
  /\ PopEnded(t) /\ work[t]
  /\ pc' = [pc EXCEPT ![t] = "iterate"]
  /\ cur' = [cur EXCEPT ![t] = 1]
  /\ UNCHANGED <<dataVars, status, script, work, stopped, flushVars,
                 queueVars, monVars, appVars>>

(* ... else back to a blocking pop ... *)
PollEmpty(t) ==
  /\ PopEnded(t) /\ ~work[t] /\ ~stopped[t]
  /\ pc' = [pc EXCEPT ![t] = "wait"]
  /\ UNCHANGED <<dataVars, execVars, work, stopped, flushVars, queueVars,
                 monVars, appVars>>

(* ... or out of the thread. *)
ExitThread(t) ==
  /\ PopEnded(t) /\ ~work[t] /\ stopped[t]
  /\ pc' = [pc EXCEPT ![t] = "exited"]
  /\ UNCHANGED <<dataVars, execVars, work, stopped, flushVars,
                 queueVars, monVars, appVars>>

-----------------------------------------------------------------------------
(* graph_executor::run_one_iteration, block by block. *)

AtBlock(t) ==
  pc[t] = "iterate" /\ script[t] = <<>> /\ cur[t] <= Len(Group[t])

BlockedOnInput(t) ==
  /\ AtBlock(t)
  /\ InputBlocked(Current(t))
  /\ status' = [status EXCEPT ![Current(t)] = "BLKD_IN"]
  /\ cur' = [cur EXCEPT ![t] = @ + 1]
  /\ UNCHANGED <<dataVars, script, loopVars, flushVars, queueVars, monVars,
                 appVars>>

BlockedOnOutput(t) ==
  /\ AtBlock(t)
  /\ ~InputBlocked(Current(t)) /\ OutputBlocked(Current(t))
  /\ status' = [status EXCEPT ![Current(t)] = "BLKD_OUT"]
  /\ cur' = [cur EXCEPT ![t] = @ + 1]
  /\ UNCHANGED <<dataVars, script, loopVars, flushVars, queueVars, monVars,
                 appVars>>

(* do_work processes n items.  The other threads only ever add to what a
   block finds on its ports, so a port that was found ready still is when
   work is called; what was read earlier can only be less, as with Partial. *)
DoWork(t, n) ==
  LET b == Current(t) IN
  /\ AtBlock(t)
  /\ ~InputBlocked(b) /\ ~OutputBlocked(b)
  /\ n \in Amounts(b)
  /\ status' = [status EXCEPT ![b] = IF AnswersDone(b, n) THEN "DONE" ELSE "READY"]
  /\ made' = [made EXCEPT ![b] = IF Limit[b] > 0 THEN @ + n ELSE 0]
  /\ script' = [script EXCEPT ![t] = Posting(b, n)]
  /\ cur' = [cur EXCEPT ![t] = @ + 1]
  /\ UNCHANGED <<fill, topped, loopVars, flushVars, queueVars, monVars, appVars>>

Posts(t, op) == script[t] # <<>> /\ Head(script[t]).op = op
Posted(t) == script' = [script EXCEPT ![t] = Tail(@)]

PostRead(t) ==
  /\ Posts(t, "read")
  /\ fill' = [fill EXCEPT ![Head(script[t]).edge] = @ - Head(script[t]).n]
  /\ topped' = [topped EXCEPT ![Head(script[t]).edge] = FALSE]
  /\ Posted(t)
  /\ UNCHANGED <<made, status, cur, loopVars, flushVars, queueVars, monVars,
                 appVars>>

PostWrite(t) ==
  /\ Posts(t, "write")
  /\ LET w == Head(script[t])
     IN  /\ fill' = [e \in Edges |-> IF e \in Out[w.block] THEN fill[e] + w.n
                                     ELSE fill[e]]
         /\ topped' = [e \in Edges |-> e \in Out[w.block] \/ topped[e]]
  /\ Posted(t)
  /\ UNCHANGED <<made, status, cur, loopVars, flushVars, queueVars, monVars,
                 appVars>>

NotifyPort(t) ==
  /\ Posts(t, "notify")
  /\ note' = [note EXCEPT ![Head(script[t]).to] = TRUE]
  /\ Posted(t)
  /\ UNCHANGED <<dataVars, status, cur, loopVars, flushVars, ctl, killed,
                 monVars, appVars>>

-----------------------------------------------------------------------------
(* thread_wrapper::handle_work_notification, after the iteration. *)

SomeDone(t) == \E b \in Members[t] : status[b] = "DONE"
NotifySelf(t) == \E b \in Members[t] : status[b] \in {"READY", "BLKD_OUT"}

(* Mutant: a DONE or READY block with inputs keeps it from counting, too. *)
AllBlockedEvenDone(t) == \A b \in Members[t] : status[b] \in {"BLKD_IN", "BLKD_OUT"}

(* Only a source that is neither BLKD_IN nor BLKD_OUT keeps a group from
   counting as blocked. *)
AllBlocked(t) ==
  \A b \in Members[t] : In[b] # {} \/ status[b] \in {"BLKD_IN", "BLKD_OUT"}

(* Mutant: the first blocked round counts as flushed. *)
IsFlushedAtOnce(t) == flushing[t] /\ AllBlocked(t)

IsFlushed(t) == flushing[t] /\ AllBlocked(t) /\ flush_cnt[t] + 1 >= FlushCount

(* The statuses belong to the iteration; a DONE is kept for the properties. *)
ForgetStatus(t) ==
  [b \in Blocks |-> IF b \in Members[t] /\ status[b] # "DONE" THEN "NONE"
                    ELSE status[b]]

(* Mutant: a blocked round of a flushing thread does not ask for the next. *)
AsksForNoRound(t) == FALSE

(* A blocked round of a flushing thread pushes NOTIFY_ALL to itself. *)
AsksForRound(t) == flushing[t] /\ AllBlocked(t) /\ ~IsFlushed(t)

HandleStatuses(t) ==
  /\ pc[t] = "iterate" /\ script[t] = <<>> /\ cur[t] > Len(Group[t])
  /\ flush_cnt' = [flush_cnt EXCEPT ![t] = IF ~flushing[t] THEN @
                                           ELSE IF AllBlocked(t)
                                           THEN Min({@ + 1, FlushCount}) ELSE 0]
  /\ mq' = mq \cup (IF SomeDone(t) THEN {<<"DONE">>} ELSE {})
              \cup (IF IsFlushed(t) THEN {<<"FLUSHED", SchedOf[t]>>} ELSE {})
  /\ note' = [note EXCEPT ![t] = @ \/ AsksForRound(t)]
  /\ work' = [work EXCEPT ![t] = FALSE]
  /\ pc' = [pc EXCEPT ![t] = IF stopped[t] THEN "exited"
                             ELSE IF NotifySelf(t) /\ ~IsFlushed(t) THEN "poll"
                             ELSE "wait"]
  /\ status' = ForgetStatus(t)
  /\ UNCHANGED <<dataVars, cur, script, stopped, flushing, ctl, killed, mon,
                 mscript, flushed, appVars>>

ThreadNext(t) ==
  \/ PopNotify(t) \/ PopDone(t) \/ PopExit(t)
  \/ BeginIteration(t) \/ PollEmpty(t) \/ ExitThread(t)
  \/ BlockedOnInput(t) \/ BlockedOnOutput(t)
  \/ \E n \in 0..BufItems : DoWork(t, n)
  \/ PostRead(t) \/ PostWrite(t) \/ NotifyPort(t)
  \/ HandleStatuses(t)

-----------------------------------------------------------------------------
(* The order of the _threads of the schedulers. *)
ThreadSeq == SetToSeq(Threads)

(* runtime_monitor: the monitor's thread. *)

MonIdle == mscript = <<>>

(* scheduler_nbt::push_message with blkid 0 pushes once per block, so a
   thread with several blocks gets the message several times. *)
Broadcast(m) == [i \in 1..Len(BlockSeq) |-> <<m, ThreadOf[BlockSeq[i]]>>]

(* START: scheduler::start starts the threads one after the other. *)
MonStart ==
  /\ mon = "run" /\ MonIdle /\ <<"START">> \in mq
  /\ mq' = mq \ {<<"START">>}
  /\ mscript' = [i \in DOMAIN ThreadSeq |-> <<"start", ThreadSeq[i]>>]
  /\ UNCHANGED <<dataVars, execVars, loopVars, flushVars, queueVars, mon,
                 flushed, appVars>>

(* thread_wrapper::start releases the thread, with a NOTIFY_ALL to begin with. *)
MonStartThread ==
  /\ mscript # <<>> /\ Head(mscript)[1] = "start"
  /\ LET t == Head(mscript)[2] IN
     /\ pc' = [pc EXCEPT ![t] = IF stopped[t] THEN "poll" ELSE "wait"]
     /\ note' = [note EXCEPT ![t] = TRUE]
  /\ mscript' = Tail(mscript)
  /\ UNCHANGED <<dataVars, execVars, work, stopped, flushVars, ctl,
                 killed, mon, mq, flushed, appVars>>

(* Mutant: does not leave the first loop. *)
MonDoneNoBreak ==
  /\ mon = "run" /\ MonIdle /\ <<"DONE">> \in mq
  /\ mq' = mq \ {<<"DONE">>}
  /\ mscript' = Broadcast("DONE")
  /\ UNCHANGED <<dataVars, execVars, loopVars, flushVars, queueVars, mon,
                 flushed, appVars>>

(* The first DONE: tell every thread to flush and go on to the second loop. *)
MonDone ==
  /\ mon = "run" /\ MonIdle /\ <<"DONE">> \in mq
  /\ mq' = mq \ {<<"DONE">>}
  /\ mscript' = Broadcast("DONE")
  /\ mon' = "flush"
  /\ UNCHANGED <<dataVars, execVars, loopVars, flushVars, queueVars, flushed,
                 appVars>>

MonPush ==
  /\ mscript # <<>> /\ Head(mscript)[1] \in {"DONE", "EXIT"}
  /\ ctl' = [ctl EXCEPT ![Head(mscript)[2]] = Append(@, Head(mscript)[1])]
  /\ mscript' = Tail(mscript)
  /\ UNCHANGED <<dataVars, execVars, loopVars, flushVars, note, killed, mon,
                 mq, flushed, appVars>>

(* Mutant: tells the threads to exit after the first FLUSHED. *)
MonFlushedAny(s) ==
  /\ mon \in {"run", "flush"} /\ MonIdle /\ <<"FLUSHED", s>> \in mq
  /\ mq' = mq \ {<<"FLUSHED", s>>}
  /\ IF mon = "flush"
     THEN /\ flushed' = flushed \cup {s}
          /\ mon' = "stopped" /\ mscript' = Broadcast("EXIT")
     ELSE UNCHANGED <<mon, mscript, flushed>>
  /\ UNCHANGED <<dataVars, execVars, loopVars, flushVars, queueVars, appVars>>

(* FLUSHED of a scheduler in the second loop: when every scheduler has sent
   one, tell every thread to exit.  The first loop drops it. *)
MonFlushed(s) ==
  /\ mon \in {"run", "flush"} /\ MonIdle /\ <<"FLUSHED", s>> \in mq
  /\ mq' = mq \ {<<"FLUSHED", s>>}
  /\ IF mon = "flush"
     THEN /\ flushed' = flushed \cup {s}
          /\ IF flushed' = Schedulers
             THEN mon' = "stopped" /\ mscript' = Broadcast("EXIT")
             ELSE UNCHANGED <<mon, mscript>>
     ELSE UNCHANGED <<mon, mscript, flushed>>
  /\ UNCHANGED <<dataVars, execVars, loopVars, flushVars, queueVars, appVars>>

(* The second loop ignores DONE. *)
MonIgnoreDone ==
  /\ mon = "flush" /\ MonIdle /\ <<"DONE">> \in mq
  /\ mq' = mq \ {<<"DONE">>}
  /\ UNCHANGED <<dataVars, execVars, loopVars, flushVars, queueVars, mon,
                 mscript, flushed, appVars>>

(* KILL comes from the application, after its START. *)
MonKill ==
  /\ mon \in {"run", "flush"} /\ MonIdle
  /\ <<"KILL">> \in mq /\ <<"START">> \notin mq
  /\ mq' = mq \ {<<"KILL">>}
  /\ mon' = "stopped"
  /\ UNCHANGED <<dataVars, execVars, loopVars, flushVars, queueVars, mscript,
                 flushed, appVars>>

MonNext ==
  \/ MonStart \/ MonStartThread \/ MonDone \/ MonPush
  \/ \E s \in Schedulers : MonFlushed(s)
  \/ MonIgnoreDone \/ MonKill

-----------------------------------------------------------------------------
(* runtime: the application's thread. *)

(* wait() joins the threads one after the other; stop() makes each of them
   exit and joins it before the next, then kills the monitor. *)
WaitScript == [i \in DOMAIN ThreadSeq |-> <<"join", ThreadSeq[i]>>]

StopScript ==
  FlattenSeq([i \in DOMAIN ThreadSeq |->
                <<<<"mark", ThreadSeq[i]>>, <<"exit", ThreadSeq[i]>>, <<"join", ThreadSeq[i]>>>>])
  \o <<<<"kill">>>>

AppStart ==
  /\ ~begun
  /\ begun' = TRUE
  /\ mq' = mq \cup {<<"START">>}
  /\ \/ app' = WaitScript /\ UNCHANGED stopping
     \/ AppStops /\ app' = StopScript /\ stopping' = TRUE
  /\ UNCHANGED <<dataVars, execVars, loopVars, flushVars, queueVars, mon,
                 mscript, flushed, interrupted>>

AppDoes(op) == app # <<>> /\ Head(app)[1] = op /\ app' = Tail(app)

(* stop: d_thread_stopped = true, without a lock ... *)
AppMark ==
  /\ AppDoes("mark")
  /\ stopped' = [stopped EXCEPT ![Head(app)[2]] = TRUE]
  /\ UNCHANGED <<dataVars, execVars, pc, work, flushVars, queueVars,
                 monVars, begun, stopping, interrupted>>

(* ... and kill. *)
AppExit ==
  /\ AppDoes("exit")
  /\ killed' = [killed EXCEPT ![Head(app)[2]] = TRUE]
  /\ UNCHANGED <<dataVars, execVars, loopVars, flushVars, note, ctl, monVars,
                 begun, stopping, interrupted>>

AppJoin ==
  /\ AppDoes("join")
  /\ pc[Head(app)[2]] = "exited"
  /\ UNCHANGED <<dataVars, execVars, loopVars, flushVars, queueVars, monVars,
                 begun, stopping, interrupted>>

AppKillMonitor ==
  /\ AppDoes("kill")
  /\ mq' = mq \cup {<<"KILL">>}
  /\ UNCHANGED <<dataVars, execVars, loopVars, flushVars, queueVars, mon,
                 mscript, flushed, begun, stopping, interrupted>>

(* An interrupt of Python while it waits: runtime::kill pushes EXIT to every
   thread and leaves the monitor as it is. *)
KillScript == [i \in DOMAIN ThreadSeq |-> <<"exit", ThreadSeq[i]>>]
AppInterrupt ==
  /\ AppStops /\ begun /\ ~stopping /\ app # <<>>
  /\ app' = KillScript \o app
  /\ stopping' = TRUE /\ interrupted' = TRUE
  /\ UNCHANGED <<dataVars, execVars, loopVars, flushVars, queueVars, monVars, begun>>

AppNext == AppStart \/ AppMark \/ AppExit \/ AppJoin \/ AppKillMonitor

Next == AppNext \/ AppInterrupt \/ MonNext \/ \E t \in Threads : ThreadNext(t)

(* Every thread of the process is scheduled and the sleeps end; a queue does
   not hold one message back for ever; a thread pops messages faster than
   its neighbours push them, so that it finds its queue empty. *)
Spec ==
  /\ Init /\ [][Next]_vars
  /\ WF_vars(AppNext)
  /\ WF_vars(MonNext) /\ WF_vars(MonKill)
  /\ \A s \in Schedulers : WF_vars(MonFlushed(s))
  /\ \A t \in Threads : /\ WF_vars(ThreadNext(t)) /\ SF_vars(BeginIteration(t))
                       /\ WF_vars(PopDone(t)) /\ WF_vars(PopExit(t))

-----------------------------------------------------------------------------
(* Properties. *)

(* The types of the variables.  A buffer is never filled to the last item. *)
TypeOK ==
  /\ fill \in [Edges -> 0..(BufItems - 1)]
  /\ \A b \in Blocks : made[b] \in 0..Limit[b]
  /\ status \in [Blocks -> {"NONE", "READY", "BLKD_IN", "BLKD_OUT", "DONE"}]
  /\ pc \in [Threads -> {"start", "wait", "poll", "iterate", "exited"}]
  /\ {work, stopped, flushing, note, killed} \subseteq [Threads -> BOOLEAN]
  /\ \A t \in Threads : cur[t] \in 1..(Len(Group[t]) + 1)
  /\ flush_cnt \in [Threads -> 0..FlushCount]
  /\ \A t \in Threads : Range(ctl[t]) \subseteq {"DONE", "EXIT"}
  /\ mon \in {"run", "flush", "stopped"}
  /\ mq \subseteq ({<<"START">>, <<"DONE">>, <<"KILL">>} \cup {<<"FLUSHED", s>> : s \in Schedulers})
  /\ flushed \subseteq Schedulers
  /\ {begun, stopping, interrupted} \subseteq BOOLEAN

(* No wakeup is lost and no notification forgotten: whenever every thread
   waits on an empty queue and the monitor has nothing to do, no block of
   the flowgraph could do any work (graph_executor's notifications after
   post_read and post_write, thread_wrapper's single poll after READY).
   Unless the block was the last to move and the reader has a part of its
   min_buffer_read: then the block's thread may have polled once after READY
   and gone to sleep, and the reader, which cannot read, does not wake it. *)
Asleep(t) == pc[t] = "wait" /\ QueueEmpty(t)
AllAsleep == MonIdle /\ mq = {} /\ \A t \in Threads : Asleep(t)
ReaderStarves(b) == \E e \in Out[b] : topped[e] /\ 0 < fill[e] /\ fill[e] < MinRead[e]
NoLostWakeup ==
  AllAsleep => \A b \in Blocks : InputBlocked(b) \/ OutputBlocked(b) \/ ReaderStarves(b)

(* FLUSHED never reaches the monitor's first loop, which would drop it and
   leave wait() hanging. *)
FlushedIsNotDropped ==
  mon = "run" => \A s \in Schedulers : <<"FLUSHED", s>> \notin mq

(* Unless the application stops it, a thread exits only after a FLUSHED of
   every scheduler has reached the monitor (sched_done in runtime_monitor). *)
ExitsAfterAllFlushed ==
  \A t \in Threads : (pc[t] = "exited" /\ ~stopping) => flushed = Schedulers

(* Once runtime::start is called, the application's wait() or stop()
   returns and the threads of the scheduler and of the monitor end; after an
   interrupt the monitor's thread need not. *)
Ended ==
  /\ begun /\ app = <<>> /\ (mon = "stopped" \/ interrupted)
  /\ \A t \in Threads : pc[t] = "exited"
ShutsDown == begun ~> Ended

(* Nothing hangs on the way from the first work call through DONE, the rounds
   of flushing and FLUSHED to EXIT: when every thread sleeps or has exited and
   the monitor has nothing to do, either all is over, so that the
   application's wait() returns, or no block has been done yet and a reader
   starves. *)
HangsOnlyByStarving ==
  (begun /\ MonIdle /\ mq = {} /\ \A t \in Threads : Asleep(t) \/ pc[t] = "exited")
    => \/ mon = "stopped" /\ \A t \in Threads : pc[t] = "exited"
       \/ mon = "run" /\ \E b \in Blocks : ReaderStarves(b)

(* "if a block (e.g. head block) has told the rtmon that we are done, need
   to push the rest of the samples through the pipeline" (thread_wrapper.cc):
   when the threads have exited by themselves, nothing that a reader could
   still have processed is left in a buffer. *)
AllDelivered ==
  (~stopping /\ \A t \in Threads : pc[t] = "exited")
    => \A b \in Blocks : In[b] = {} \/ Limit[b] > 0 \/ InputBlocked(b)
=============================================================================
