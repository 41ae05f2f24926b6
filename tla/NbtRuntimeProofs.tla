-------------------------- MODULE NbtRuntimeProofs --------------------------
(***************************************************************************)
(* Proofs about NbtRuntime, for every flowgraph, every block grouping,     *)
(* every number of schedulers and every buffer size.                       *)
(*                                                                         *)
(* The shutdown protocol: the monitor never drops a FLUSHED, and no thread *)
(* exits by itself before every scheduler has flushed.  The flow of items: *)
(* what an executor has still to post fits the buffers whatever the other  *)
(* threads do meanwhile, so that no buffer overflows or underflows.  And,  *)
(* after these, the wakeups: none is lost in a feedforward flowgraph.      *)
(***************************************************************************)
EXTENDS NbtRuntime, FiniteSetTheorems, SequenceTheorems, WellFoundedInduction, TLAPS

Places == {"start", "wait", "poll", "iterate", "exited"}

(* The types of the state that the shutdown protocol is made of. *)
ControlType ==
  /\ stopped \in [Threads -> BOOLEAN]
  /\ flushing \in [Threads -> BOOLEAN]
  /\ killed \in [Threads -> BOOLEAN]
  /\ ctl \in [Threads -> Seq({"DONE", "EXIT"})]
  /\ mscript \in Seq({"start", "DONE", "EXIT"} \X Threads)
  /\ flushed \subseteq Schedulers
  /\ pc \in [Threads -> Places]

(* Before the first DONE reaches the monitor nothing has begun to flush. *)
RunInv ==
  mon = "run" =>
    /\ \A t \in Threads : ~flushing[t] /\ ctl[t] = <<>>
    /\ mscript \in Seq({"start"} \X Threads)
    /\ \A s \in Schedulers : <<"FLUSHED", s>> \notin mq

(* Until every scheduler is flushed there is no EXIT anywhere, unless the
   application pushes it. *)
ExitInv ==
  ~stopping =>
    /\ app \in Seq({"join"} \X Threads)
    /\ \A t \in Threads : ~killed[t]
    /\ flushed # Schedulers =>
         /\ mscript \in Seq({"start", "DONE"} \X Threads)
         /\ \A t \in Threads : ctl[t] \in Seq({"DONE"}) /\ ~stopped[t]

(* A thread leaves its loop only once it is stopped. *)
StoppedInv == \A t \in Threads : pc[t] = "exited" => stopped[t]

Inv == ControlType /\ RunInv /\ ExitInv /\ StoppedInv

-----------------------------------------------------------------------------
(* _block_thread_map is the inverse of the groups. *)
LEMMA ThreadOfMember ==
  /\ \A t \in Threads : \A b \in Members[t] : b \in Blocks /\ ThreadOf[b] = t
  /\ \A b \in Blocks : ThreadOf[b] \in Threads /\ b \in Members[ThreadOf[b]]
<1>1. ASSUME NEW t \in Threads, NEW b \in Members[t] PROVE b \in Blocks
  BY GroupAssumption DEF Members, Range
<1>2. ASSUME NEW t \in Threads, NEW b \in Members[t] PROVE ThreadOf[b] = t
  <2>1. \A u \in Threads : b \in Members[u] => u = t
    BY GroupAssumption DEF Members
  <2> QED
    BY <1>1, <2>1 DEF ThreadOf
<1>3. ASSUME NEW b \in Blocks PROVE ThreadOf[b] \in Threads /\ b \in Members[ThreadOf[b]]
  <2>1. \E t \in Threads : b \in Members[t]
    BY GroupAssumption DEF Members
  <2> QED
    BY <2>1 DEF ThreadOf
<1> QED
  BY <1>1, <1>2, <1>3

(* Every thread runs a block, so that the threads are finitely many ... *)
LEMMA ThreadsFinite == IsFiniteSet(Threads)
<1> DEFINE n == Len(BlockSeq)
           f == [i \in 1..n |-> ThreadOf[BlockSeq[i]]]
<1>1. n \in Nat /\ DOMAIN BlockSeq = 1..n
  BY GraphAssumption
<1>2. f \in Surjection(1..n, Threads)
  <2>1. \A i \in 1..n : f[i] \in Threads
    BY <1>1, ThreadOfMember DEF Blocks, Range
  <2>2. \A t \in Threads : \E i \in 1..n : f[i] = t
    <3> SUFFICES ASSUME NEW t \in Threads PROVE \E i \in 1..n : f[i] = t
      OBVIOUS
    <3>1. PICK b : b \in Members[t]
      <4>1. Group[t] \in Seq(Blocks) /\ Group[t] # <<>>
        BY GroupAssumption
      <4>2. 1 \in DOMAIN Group[t]
        BY <4>1
      <4> QED
        BY <4>2 DEF Members, Range
    <3>2. b \in Blocks /\ ThreadOf[b] = t
      BY <3>1, ThreadOfMember
    <3> QED
      BY <3>2, <1>1 DEF Blocks, Range
  <2> QED
    BY <2>1, <2>2 DEF Surjection
<1>3. IsFiniteSet(1..n)
  BY <1>1, FS_Interval
<1> QED
  BY <1>2, <1>3, FS_Surjection

(* ... and ThreadSeq lists them. *)
LEMMA ThreadSeqType == ThreadSeq \in Seq(Threads)
<1>1. Cardinality(Threads) \in Nat /\ ExistsBijection(1..Cardinality(Threads), Threads)
  BY ThreadsFinite, FS_CardinalityType
<1>2. \E g \in [1..Cardinality(Threads) -> Threads] : IsInjective(g)
  BY <1>1 DEF ExistsBijection, Bijection, Injection
<1>3. ThreadSeq \in [1..Cardinality(Threads) -> Threads]
  BY <1>2 DEF ThreadSeq, SetToSeq
<1> QED
  BY <1>1, <1>3

(* What the monitor and the application set out to do is a sequence. *)
LEMMA ScriptTypes ==
  /\ [i \in DOMAIN ThreadSeq |-> <<"start", ThreadSeq[i]>>] \in Seq({"start"} \X Threads)
  /\ WaitScript \in Seq({"join"} \X Threads)
  /\ \A m \in {"DONE", "EXIT"} : Broadcast(m) \in Seq({m} \X Threads)
<1>1. DOMAIN ThreadSeq = 1..Len(ThreadSeq) /\ Len(ThreadSeq) \in Nat
      /\ \A i \in DOMAIN ThreadSeq : ThreadSeq[i] \in Threads
  BY ThreadSeqType
<1>2. [i \in DOMAIN ThreadSeq |-> <<"start", ThreadSeq[i]>>] \in Seq({"start"} \X Threads)
  BY <1>1
<1>3. WaitScript \in Seq({"join"} \X Threads)
  BY <1>1 DEF WaitScript
<1>4. ASSUME NEW m \in {"DONE", "EXIT"}
      PROVE  Broadcast(m) \in Seq({m} \X Threads)
  <2>1. Len(BlockSeq) \in Nat /\ DOMAIN BlockSeq = 1..Len(BlockSeq)
    BY GraphAssumption
  <2>2. \A i \in 1..Len(BlockSeq) : ThreadOf[BlockSeq[i]] \in Threads
    BY <2>1, ThreadOfMember DEF Blocks, Range
  <2> QED
    BY <2>1, <2>2 DEF Broadcast
<1> QED
  BY <1>2, <1>3, <1>4

(* Nothing has started, and nothing is flushed. *)
LEMMA InitInv == Init => Inv
<1> SUFFICES ASSUME Init PROVE Inv
  OBVIOUS
<1>1. ControlType
  BY DEF Init, ControlType, Places
<1>2. RunInv
  BY DEF Init, RunInv
<1>3. ExitInv
  BY DEF Init, ExitInv
<1>4. StoppedInv
  BY DEF Init, StoppedInv
<1> QED
  BY <1>1, <1>2, <1>3, <1>4 DEF Inv

(* A step that leaves the protocol's state alone, but for where threads are. *)
LEMMA QuietStep ==
  ASSUME Inv,
         UNCHANGED <<stopped, flushing, killed, ctl, mscript, mq, mon, flushed, app, stopping>>,
         pc' \in [Threads -> Places],
         \A t \in Threads : pc'[t] = "exited" => stopped[t]
  PROVE  Inv'
<1>1. ControlType'
  BY DEF Inv, ControlType
<1>2. RunInv'
  BY DEF Inv, RunInv
<1>3. ExitInv'
  BY DEF Inv, ExitInv
<1>4. StoppedInv'
  BY DEF StoppedInv
<1> QED
  BY <1>1, <1>2, <1>3, <1>4 DEF Inv

(* The actions of a thread that only touch its work loop. *)
LEMMA WorkLoopInv ==
  ASSUME Inv, NEW t \in Threads,
         \/ PopNotify(t) \/ BeginIteration(t) \/ PollEmpty(t) \/ ExitThread(t)
         \/ BlockedOnInput(t) \/ BlockedOnOutput(t)
         \/ \E n \in 0..BufItems : DoWork(t, n)
         \/ PostRead(t) \/ PostWrite(t) \/ NotifyPort(t)
  PROVE  Inv'
<1> USE DEF Inv, ControlType, StoppedInv, Places, loopVars, execVars, flushVars,
            queueVars, monVars, appVars
<1>1. CASE PopNotify(t)
  BY <1>1, QuietStep DEF PopNotify, Popped, CanPop
<1>2. CASE BeginIteration(t)
  BY <1>2, QuietStep DEF BeginIteration
<1>3. CASE PollEmpty(t)
  BY <1>3, QuietStep DEF PollEmpty
<1>4. CASE ExitThread(t)
  BY <1>4, QuietStep DEF ExitThread
<1>5. CASE BlockedOnInput(t)
  BY <1>5, QuietStep DEF BlockedOnInput
<1>6. CASE BlockedOnOutput(t)
  BY <1>6, QuietStep DEF BlockedOnOutput
<1>7. CASE \E n \in 0..BufItems : DoWork(t, n)
  BY <1>7, QuietStep DEF DoWork
<1>8. CASE PostRead(t)
  BY <1>8, QuietStep DEF PostRead
<1>9. CASE PostWrite(t)
  BY <1>9, QuietStep DEF PostWrite
<1>10. CASE NotifyPort(t)
  BY <1>10, QuietStep DEF NotifyPort
<1> QED
  BY <1>1, <1>2, <1>3, <1>4, <1>5, <1>6, <1>7, <1>8, <1>9, <1>10

(* A DONE in a thread's queue: the monitor is in its second loop. *)
LEMMA PopDoneInv == ASSUME Inv, NEW t \in Threads, PopDone(t) PROVE Inv'
<1> USE DEF PopDone, Popped, queueVars, monVars, appVars
<1>1. ctl[t] # <<>> /\ ctl[t] \in Seq({"DONE", "EXIT"}) /\ ctl' = [ctl EXCEPT ![t] = Tail(@)]
  BY DEF Inv, ControlType
<1>2. ControlType'
  <2>1. ctl' \in [Threads -> Seq({"DONE", "EXIT"})]
    BY <1>1, HeadTailProperties DEF Inv, ControlType
  <2> QED
    BY <2>1 DEF Inv, ControlType, Places
<1>3. RunInv'
  BY <1>1 DEF Inv, RunInv
<1>4. ExitInv'
  <2>1. ctl[t] \in Seq({"DONE"}) => Tail(ctl[t]) \in Seq({"DONE"})
    BY <1>1, HeadTailProperties
  <2> QED
    BY <1>1, <2>1 DEF Inv, ControlType, ExitInv
<1>5. StoppedInv'
  BY DEF Inv, ControlType, StoppedInv
<1> QED
  BY <1>2, <1>3, <1>4, <1>5 DEF Inv

(* An EXIT in the queue means that the application pushed it or that every
   scheduler is flushed. *)
(* An EXIT in a thread's queue: every scheduler is flushed, or the application
   is stopping. *)
LEMMA PopExitInv == ASSUME Inv, NEW t \in Threads, PopExit(t) PROVE Inv'
<1> USE DEF monVars, appVars
<1>1. /\ UNCHANGED <<flushing, mscript, mq, mon, flushed, app, stopping>>
      /\ stopped' = [stopped EXCEPT ![t] = TRUE]
      /\ pc' = [pc EXCEPT ![t] = "poll"]
  BY DEF PopExit, Popped, flushVars
<1>2. \/ /\ ctl[t] # <<>> /\ Head(ctl[t]) = "EXIT"
         /\ ctl' = [ctl EXCEPT ![t] = Tail(@)]
         /\ UNCHANGED killed
      \/ /\ killed[t]
         /\ killed' = [killed EXCEPT ![t] = FALSE]
         /\ UNCHANGED ctl
  BY DEF PopExit
<1>3. ctl[t] \in Seq({"DONE", "EXIT"})
  BY DEF Inv, ControlType
<1>4. ControlType'
  <2>1. ctl' \in [Threads -> Seq({"DONE", "EXIT"})]
    <3>1. ctl[t] # <<>> => Tail(ctl[t]) \in Seq({"DONE", "EXIT"})
      BY <1>3, HeadTailProperties
    <3>2. CASE ctl[t] # <<>> /\ ctl' = [ctl EXCEPT ![t] = Tail(@)]
      BY <3>1, <3>2 DEF Inv, ControlType
    <3>3. CASE UNCHANGED ctl
      BY <3>3 DEF Inv, ControlType
    <3> QED
      BY <1>2, <3>2, <3>3
  <2>2. killed' \in [Threads -> BOOLEAN] /\ stopped' \in [Threads -> BOOLEAN]
    BY <1>1, <1>2 DEF Inv, ControlType
  <2>3. pc' \in [Threads -> Places]
    BY <1>1 DEF Inv, ControlType, Places
  <2> QED
    BY <1>1, <2>1, <2>2, <2>3 DEF Inv, ControlType
<1>5. RunInv'
  BY <1>1, <1>2, <1>3 DEF Inv, RunInv
<1>6. ExitInv'
  <2> SUFFICES ASSUME ~stopping PROVE ExitInv'
    BY <1>1 DEF ExitInv
  <2>1. ctl[t] # <<>> /\ Head(ctl[t]) = "EXIT" /\ UNCHANGED killed
    BY <1>2 DEF Inv, ExitInv
  <2>2. ctl[t] \notin Seq({"DONE"})
    BY <2>1, HeadTailProperties
  <2>3. flushed = Schedulers
    BY <2>2 DEF Inv, ExitInv
  <2> QED
    BY <1>1, <2>1, <2>3 DEF Inv, ExitInv
<1>7. StoppedInv'
  BY <1>1 DEF Inv, ControlType, StoppedInv
<1> QED
  BY <1>4, <1>5, <1>6, <1>7 DEF Inv

(* FLUSHED is pushed by a flushing thread only. *)
LEMMA HandleStatusesInv == ASSUME Inv, NEW t \in Threads, HandleStatuses(t) PROVE Inv'
<1>1. /\ UNCHANGED <<stopped, flushing, ctl, killed, mon, mscript, flushed, app, stopping>>
      /\ pc' = [pc EXCEPT ![t] = IF stopped[t] THEN "exited"
                                 ELSE IF NotifySelf(t) /\ ~IsFlushed(t) THEN "poll"
                                 ELSE "wait"]
  BY DEF HandleStatuses, appVars
<1>2. \A s \in Schedulers : <<"FLUSHED", s>> \in mq' => <<"FLUSHED", s>> \in mq \/ flushing[t]
  BY DEF HandleStatuses, IsFlushed
<1>3. ControlType'
  BY <1>1 DEF Inv, ControlType, Places
<1>4. RunInv'
  BY <1>1, <1>2 DEF Inv, RunInv
<1>5. ExitInv'
  BY <1>1 DEF Inv, ExitInv
<1>6. StoppedInv'
  BY <1>1 DEF Inv, ControlType, StoppedInv
<1> QED
  BY <1>3, <1>4, <1>5, <1>6 DEF Inv

-----------------------------------------------------------------------------
(* The monitor. *)

(* What is left of a script is still a script. *)
LEMMA TailOfScript ==
  ASSUME NEW A, NEW B, NEW q \in Seq(A \X B), q # <<>>
  PROVE  Tail(q) \in Seq(A \X B) /\ Head(q) \in A \X B /\ Head(q)[1] \in A /\ Head(q)[2] \in B
<1>1. Tail(q) \in Seq(A \X B) /\ Head(q) \in A \X B
  BY HeadTailProperties
<1> QED
  BY <1>1

(* The monitor's steps, one after the other. *)
LEMMA MonStartInv == ASSUME Inv, MonStart PROVE Inv'
<1> USE DEF loopVars, flushVars, queueVars, appVars
<1>1. mscript' \in Seq({"start"} \X Threads)
  BY ScriptTypes DEF MonStart
<1>2. mscript' \in Seq({"start", "DONE"} \X Threads)
      /\ mscript' \in Seq({"start", "DONE", "EXIT"} \X Threads)
  BY <1>1
<1>3. ControlType'
  BY <1>2 DEF MonStart, Inv, ControlType
<1>4. RunInv'
  BY <1>1 DEF MonStart, Inv, RunInv
<1>5. ExitInv'
  BY <1>2 DEF MonStart, Inv, ExitInv
<1>6. StoppedInv'
  BY DEF MonStart, Inv, StoppedInv
<1> QED
  BY <1>3, <1>4, <1>5, <1>6 DEF Inv

(* ... a thread is released; *)
LEMMA MonStartThreadInv == ASSUME Inv, MonStartThread PROVE Inv'
<1> USE DEF flushVars, appVars
<1>1. mscript # <<>> /\ mscript' = Tail(mscript)
      /\ UNCHANGED <<stopped, flushing, ctl, killed, mon, mq, flushed, app, stopping>>
  BY DEF MonStartThread
<1>2. PICK t : pc' = [pc EXCEPT ![t] = IF stopped[t] THEN "poll" ELSE "wait"]
  BY DEF MonStartThread
<1>3. ControlType'
  <2>1. mscript' \in Seq({"start", "DONE", "EXIT"} \X Threads)
    BY <1>1, TailOfScript DEF Inv, ControlType
  <2>2. pc' \in [Threads -> Places]
    BY <1>2 DEF Inv, ControlType, Places
  <2> QED
    BY <1>1, <2>1, <2>2 DEF Inv, ControlType
<1>4. RunInv'
  BY <1>1, TailOfScript DEF Inv, RunInv
<1>5. ExitInv'
  BY <1>1, TailOfScript DEF Inv, ExitInv
<1>6. StoppedInv'
  BY <1>1, <1>2 DEF Inv, ControlType, StoppedInv
<1> QED
  BY <1>3, <1>4, <1>5, <1>6 DEF Inv

(* ... the first DONE, with which flushing begins; *)
LEMMA MonDoneInv == ASSUME Inv, MonDone PROVE Inv'
<1> USE DEF loopVars, flushVars, queueVars, appVars
<1>1. mscript' \in Seq({"DONE"} \X Threads)
  BY ScriptTypes DEF MonDone
<1>2. mscript' \in Seq({"start", "DONE"} \X Threads)
      /\ mscript' \in Seq({"start", "DONE", "EXIT"} \X Threads)
  BY <1>1
<1>3. ControlType'
  BY <1>2 DEF MonDone, Inv, ControlType
<1>4. RunInv'
  BY DEF MonDone, RunInv
<1>5. ExitInv'
  BY <1>2 DEF MonDone, Inv, ExitInv
<1>6. StoppedInv'
  BY DEF MonDone, Inv, StoppedInv
<1> QED
  BY <1>3, <1>4, <1>5, <1>6 DEF Inv

(* ... a DONE or an EXIT goes into one thread's queue; *)
LEMMA MonPushInv == ASSUME Inv, MonPush PROVE Inv'
<1> USE DEF loopVars, flushVars, appVars
<1> DEFINE m == Head(mscript)[1]
           u == Head(mscript)[2]
<1>1. /\ mscript # <<>> /\ m \in {"DONE", "EXIT"}
      /\ mscript' = Tail(mscript)
      /\ ctl' = [ctl EXCEPT ![u] = Append(@, m)]
      /\ UNCHANGED <<stopped, flushing, killed, mon, mq, flushed, app, stopping, pc>>
  BY DEF MonPush
<1>2. u \in Threads /\ mscript' \in Seq({"start", "DONE", "EXIT"} \X Threads)
  BY <1>1, TailOfScript DEF Inv, ControlType
<1> HIDE DEF m, u
<1>3. ControlType'
  <2>1. ctl' \in [Threads -> Seq({"DONE", "EXIT"})]
    <3>1. Append(ctl[u], m) \in Seq({"DONE", "EXIT"})
      BY <1>1, <1>2, AppendProperties DEF Inv, ControlType
    <3> QED
      BY <1>1, <1>2, <3>1 DEF Inv, ControlType
  <2> QED
    BY <1>1, <1>2, <2>1 DEF Inv, ControlType
<1>4. RunInv'
  <2>1. mon # "run"
    <3>1. mscript \in Seq({"start"} \X Threads) => m = "start"
      BY <1>1, TailOfScript DEF m
    <3> QED
      BY <1>1, <3>1 DEF Inv, RunInv
  <2> QED
    BY <1>1, <2>1 DEF RunInv
<1>5. ExitInv'
  <2> SUFFICES ASSUME ~stopping, flushed # Schedulers
               PROVE  /\ mscript' \in Seq({"start", "DONE"} \X Threads)
                      /\ \A t \in Threads : ctl'[t] \in Seq({"DONE"})
    BY <1>1 DEF Inv, ExitInv
  <2>1. mscript \in Seq({"start", "DONE"} \X Threads)
        /\ \A t \in Threads : ctl[t] \in Seq({"DONE"})
    BY DEF Inv, ExitInv
  <2>2. mscript' \in Seq({"start", "DONE"} \X Threads) /\ m \in {"start", "DONE"}
    BY <1>1, <2>1, TailOfScript DEF m
  <2>3. Append(ctl[u], m) \in Seq({"DONE"})
    BY <1>1, <1>2, <2>1, <2>2, AppendProperties
  <2> QED
    BY <1>1, <1>2, <2>1, <2>2, <2>3 DEF Inv, ControlType
<1>6. StoppedInv'
  BY <1>1 DEF Inv, StoppedInv
<1> QED
  BY <1>3, <1>4, <1>5, <1>6 DEF Inv

(* ... the FLUSHED of a scheduler, perhaps the last; *)
LEMMA MonFlushedInv ==
  ASSUME Inv, NEW s \in Schedulers, MonFlushed(s) PROVE Inv'
<1> USE DEF loopVars, flushVars, queueVars, appVars
<1>1. /\ mscript = <<>>
      /\ mq' \subseteq mq
      /\ UNCHANGED <<stopped, flushing, ctl, killed, app, stopping, pc>>
  BY DEF MonFlushed, MonIdle
<1>2. CASE UNCHANGED <<mon, mscript, flushed>>
  <2>1. ControlType' /\ StoppedInv'
    BY <1>1, <1>2 DEF Inv, ControlType, StoppedInv
  <2>2. RunInv'
    BY <1>1, <1>2 DEF Inv, RunInv
  <2>3. ExitInv'
    BY <1>1, <1>2 DEF Inv, ExitInv
  <2> QED
    BY <2>1, <2>2, <2>3 DEF Inv
<1>3. CASE /\ mon = "flush" /\ flushed' = flushed \cup {s} /\ flushed' # Schedulers
           /\ UNCHANGED <<mon, mscript>>
  <2>1. ControlType' /\ StoppedInv'
    BY <1>1, <1>3 DEF Inv, ControlType, StoppedInv
  <2>2. RunInv'
    BY <1>3 DEF RunInv
  <2>3. flushed # Schedulers
    BY <1>3 DEF Inv, ControlType
  <2>4. ExitInv'
    BY <1>1, <1>3, <2>3 DEF Inv, ExitInv
  <2> QED
    BY <2>1, <2>2, <2>4 DEF Inv
<1>4. CASE /\ mon = "flush" /\ flushed' = Schedulers /\ mon' = "stopped"
           /\ mscript' = Broadcast("EXIT")
  <2>1. mscript' \in Seq({"EXIT"} \X Threads)
    BY <1>4, ScriptTypes
  <2>2. mscript' \in Seq({"start", "DONE", "EXIT"} \X Threads)
    BY <2>1
  <2>3. ControlType' /\ StoppedInv'
    BY <1>1, <1>4, <2>2 DEF Inv, ControlType, StoppedInv
  <2>4. RunInv'
    BY <1>4 DEF RunInv
  <2>5. ExitInv'
    BY <1>1, <1>4 DEF Inv, ExitInv
  <2> QED
    BY <2>3, <2>4, <2>5 DEF Inv
<1> QED
  BY <1>2, <1>3, <1>4 DEF MonFlushed

(* ... a message that changes nothing, or ends the monitor. *)
LEMMA MonDropsInv == ASSUME Inv, MonIgnoreDone \/ MonKill PROVE Inv'
<1> USE DEF loopVars, flushVars, queueVars, appVars
<1>1. /\ mq' \subseteq mq
      /\ mon' \in {mon, "stopped"}
      /\ UNCHANGED <<stopped, flushing, ctl, killed, app, stopping, pc, mscript, flushed>>
  BY DEF MonIgnoreDone, MonKill
<1>2. ControlType' /\ StoppedInv'
  BY <1>1 DEF Inv, ControlType, StoppedInv
<1>3. RunInv'
  BY <1>1 DEF Inv, RunInv
<1>4. ExitInv'
  BY <1>1 DEF Inv, ExitInv
<1> QED
  BY <1>2, <1>3, <1>4 DEF Inv

-----------------------------------------------------------------------------
(* The application. *)
LEMMA AppInv == ASSUME Inv, AppNext PROVE Inv'
<1> USE DEF loopVars, flushVars, queueVars, monVars
<1>1. CASE AppStart
  <2>1. /\ UNCHANGED <<stopped, flushing, ctl, killed, pc, mscript, mon, flushed>>
        /\ \A s \in Schedulers : <<"FLUSHED", s>> \in mq' => <<"FLUSHED", s>> \in mq
    BY <1>1 DEF AppStart
  <2>2. ~stopping' => ~stopping /\ app' \in Seq({"join"} \X Threads)
    BY <1>1, ScriptTypes DEF AppStart
  <2>3. ControlType' /\ StoppedInv'
    BY <2>1 DEF Inv, ControlType, StoppedInv
  <2>4. RunInv'
    BY <2>1 DEF Inv, RunInv
  <2>5. ExitInv'
    BY <2>1, <2>2 DEF Inv, ExitInv
  <2> QED
    BY <2>3, <2>4, <2>5 DEF Inv
<1>2. ASSUME AppMark \/ AppExit \/ AppKillMonitor
      PROVE  stopping /\ stopping'
  <2>1. app # <<>> /\ Head(app)[1] # "join" /\ UNCHANGED stopping
    BY <1>2 DEF AppMark, AppExit, AppKillMonitor, AppDoes
  <2>2. app \notin Seq({"join"} \X Threads)
    BY <2>1, TailOfScript
  <2> QED
    BY <2>1, <2>2 DEF Inv, ExitInv
<1>3. CASE AppMark \/ AppExit
  <2>1. /\ UNCHANGED <<flushing, ctl, pc, mscript, mon, flushed, mq>>
        /\ stopped' \in [Threads -> BOOLEAN] /\ killed' \in [Threads -> BOOLEAN]
        /\ \A t \in Threads : stopped[t] => stopped'[t]
    BY <1>3 DEF AppMark, AppExit, Inv, ControlType
  <2>2. ControlType' /\ StoppedInv'
    BY <2>1 DEF Inv, ControlType, StoppedInv
  <2>3. RunInv'
    BY <2>1 DEF Inv, RunInv
  <2>4. ExitInv'
    BY <1>2, <1>3 DEF ExitInv
  <2> QED
    BY <2>2, <2>3, <2>4 DEF Inv
<1>4. CASE AppJoin
  <2>1. /\ UNCHANGED <<stopped, flushing, ctl, killed, pc, mscript, mon, flushed, mq>>
        /\ app # <<>> /\ app' = Tail(app) /\ UNCHANGED stopping
    BY <1>4 DEF AppJoin, AppDoes
  <2>2. app \in Seq({"join"} \X Threads) => app' \in Seq({"join"} \X Threads)
    BY <2>1, TailOfScript
  <2>3. ControlType' /\ StoppedInv'
    BY <2>1 DEF Inv, ControlType, StoppedInv
  <2>4. RunInv'
    BY <2>1 DEF Inv, RunInv
  <2>5. ExitInv'
    BY <2>1, <2>2 DEF Inv, ExitInv
  <2> QED
    BY <2>3, <2>4, <2>5 DEF Inv
<1>5. CASE AppKillMonitor
  <2>1. /\ UNCHANGED <<stopped, flushing, ctl, killed, pc, mscript, mon, flushed>>
        /\ \A s \in Schedulers : <<"FLUSHED", s>> \in mq' => <<"FLUSHED", s>> \in mq
    BY <1>5 DEF AppKillMonitor
  <2>2. ControlType' /\ StoppedInv'
    BY <2>1 DEF Inv, ControlType, StoppedInv
  <2>3. RunInv'
    BY <2>1 DEF Inv, RunInv
  <2>4. ExitInv'
    BY <1>2, <1>5 DEF ExitInv
  <2> QED
    BY <2>2, <2>3, <2>4 DEF Inv
<1> QED
  BY <1>1, <1>3, <1>4, <1>5 DEF AppNext

(* An interrupt: nothing else has happened yet, and the application is
   stopping from here on. *)
LEMMA InterruptInv == ASSUME Inv, AppInterrupt PROVE Inv'
<1> USE DEF loopVars, flushVars, queueVars, monVars
<1>1. /\ UNCHANGED <<stopped, flushing, ctl, killed, pc, mscript, mon, flushed, mq>>
      /\ stopping' = TRUE
  BY DEF AppInterrupt
<1>2. ControlType' /\ StoppedInv'
  BY <1>1 DEF Inv, ControlType, StoppedInv
<1>3. RunInv'
  BY <1>1 DEF Inv, RunInv
<1>4. ExitInv'
  BY <1>1 DEF ExitInv
<1> QED
  BY <1>2, <1>3, <1>4 DEF Inv

-----------------------------------------------------------------------------
(* Every step keeps the shutdown invariant. *)
LEMMA StepInv == Inv /\ [Next]_vars => Inv'
<1> SUFFICES ASSUME Inv, [Next]_vars PROVE Inv'
  OBVIOUS
<1>1. CASE AppNext
  BY <1>1, AppInv
<1>2. CASE MonNext
  <2>1. CASE MonStart
    BY <2>1, MonStartInv
  <2>2. CASE MonStartThread
    BY <2>2, MonStartThreadInv
  <2>3. CASE MonDone
    BY <2>3, MonDoneInv
  <2>4. CASE MonPush
    BY <2>4, MonPushInv
  <2>5. CASE \E s \in Schedulers : MonFlushed(s)
    BY <2>5, MonFlushedInv
  <2>6. CASE MonIgnoreDone \/ MonKill
    BY <2>6, MonDropsInv
  <2> QED
    BY <1>2, <2>1, <2>2, <2>3, <2>4, <2>5, <2>6 DEF MonNext
<1>3. CASE \E t \in Threads : ThreadNext(t)
  <2> PICK t \in Threads : ThreadNext(t)
    BY <1>3
  <2>1. CASE PopDone(t)
    BY <2>1, PopDoneInv
  <2>2. CASE PopExit(t)
    BY <2>2, PopExitInv
  <2>3. CASE HandleStatuses(t)
    BY <2>3, HandleStatusesInv
  <2>4. CASE ~PopDone(t) /\ ~PopExit(t) /\ ~HandleStatuses(t)
    BY <2>4, WorkLoopInv DEF ThreadNext
  <2> QED
    BY <2>1, <2>2, <2>3, <2>4
<1>4. CASE UNCHANGED vars
  <2>1. UNCHANGED <<stopped, flushing, killed, ctl, mscript, mq, mon, flushed, app, stopping, pc>>
    BY <1>4 DEF vars, loopVars, flushVars, queueVars, monVars, appVars
  <2> QED
    BY <2>1, QuietStep DEF Inv, ControlType, StoppedInv
<1>5. CASE AppInterrupt
  BY <1>5, InterruptInv
<1> QED
  BY <1>1, <1>2, <1>3, <1>4, <1>5 DEF Next

(* The invariant behind the theorems below: what the shutdown protocol keeps
   true between any two steps of the application, monitor and threads. *)
THEOREM ShutdownInvariant == Spec => []Inv
<1>1. Init => Inv
  BY InitInv
<1>2. Inv /\ [Next]_vars => Inv'
  BY StepInv
<1> QED
  BY <1>1, <1>2, PTL DEF Spec

(* In every flowgraph and grouping, a FLUSHED is pushed only after the
   monitor has left its first loop, which would drop it. *)
THEOREM FlushedReachesSecondLoop == Spec => []FlushedIsNotDropped
<1>1. Inv => FlushedIsNotDropped
  BY DEF Inv, RunInv, FlushedIsNotDropped
<1> QED
  BY <1>1, ShutdownInvariant, PTL

(* In every flowgraph and grouping, under every number of schedulers, a
   thread that the application does not stop exits only after a FLUSHED of
   every scheduler has reached the monitor. *)
THEOREM ExitWaitsForFlush == Spec => []ExitsAfterAllFlushed
<1>1. Inv => ExitsAfterAllFlushed
  BY DEF Inv, ExitInv, StoppedInv, ExitsAfterAllFlushed
<1> QED
  BY <1>1, ShutdownInvariant, PTL

-----------------------------------------------------------------------------
(* The flow of items.  What a thread's executor may still have to do after a
   work call: give back items it was offered and publish items it has made,
   for blocks of its own. *)
Tasks(t) ==
  [op : {"read"}, edge : {e \in Edges : ThreadOf[e[2]] = t}, n : Nat]
    \cup [op : {"write"}, block : Members[t], n : Nat]
    \cup [op : {"notify"}, to : Threads]

(* The items are still in the buffer, or there is still room for them ... *)
Feasible(s) ==
  \A i \in 1..Len(s) :
    /\ s[i].op = "read" => s[i].n <= fill[s[i].edge]
    /\ s[i].op = "write" => \A e \in Out[s[i].block] : fill[e] + s[i].n < BufItems

(* ... and each port is posted once. *)
PostedOnce(s) ==
  \A i, j \in 1..Len(s) :
    i # j => /\ s[i].op = "read" /\ s[j].op = "read" => s[i].edge # s[j].edge
             /\ ~ (s[i].op = "write" /\ s[j].op = "write")

ScriptInv ==
  /\ DOMAIN script = Threads
  /\ \A t \in Threads :
       script[t] \in Seq(Tasks(t)) /\ Feasible(script[t]) /\ PostedOnce(script[t])

FlowInv ==
  TypeOK /\ made \in [Blocks -> Nat] /\ cur \in [Threads -> Nat] /\ ScriptInv

(* The least of a set of naturals, and the greatest of a bounded one. *)
LEMMA MinOfSet ==
  ASSUME NEW S \in SUBSET Nat, S # {}
  PROVE  Min(S) \in S /\ \A y \in S : Min(S) <= y
<1> DEFINE less == OpToRel(<, Nat)
<1>1. IsWellFoundedOn(less, Nat)
  BY NatLessThanWellFounded
<1>2. \A h, g \in Nat : h < g => <<h, g>> \in less
  BY DEF OpToRel
<1> HIDE DEF less
<1>3. PICK x \in S : \A y \in S : ~ (<<y, x>> \in less)
  BY <1>1, WFMin
<1>4. \A y \in S : ~ (y < x)
  BY <1>2, <1>3
<1>5. \E z \in S : \A y \in S : z <= y
  BY <1>4
<1> QED
  BY <1>5 DEF Min

(* ... and the greatest, by reflection. *)
LEMMA MaxOfSet ==
  ASSUME NEW m \in Nat, NEW S \in SUBSET (0..m), S # {}
  PROVE  Max(S) \in S /\ \A y \in S : y <= Max(S)
<1> DEFINE T == {m - y : y \in S}
<1>1. T \in SUBSET Nat /\ T # {}
  <2>1. \A y \in S : m - y \in Nat
    OBVIOUS
  <2>2. PICK y \in S : TRUE
    OBVIOUS
  <2> QED
    BY <2>1, <2>2
<1>2. Min(T) \in T /\ \A x \in T : Min(T) <= x
  <2> HIDE DEF T
  <2> QED BY <1>1, MinOfSet
<1>3. PICK z \in S : Min(T) = m - z
  BY <1>2
<1>4. \A y \in S : y <= z
  <2> SUFFICES ASSUME NEW y \in S PROVE y <= z
    OBVIOUS
  <2>1. m - z <= m - y
    BY <1>2, <1>3
  <2> QED
    BY <2>1
<1>5. \E x \in S : \A y \in S : x >= y
  BY <1>4
<1>6. Max(S) \in S /\ \A y \in S : Max(S) >= y
  BY <1>5 DEF Max
<1> QED
  BY <1>6

(* The larger of two counts. *)
LEMMA MaxOfPair ==
  ASSUME NEW m \in Nat, NEW n \in Nat
  PROVE  Max({m, n}) \in {m, n} /\ Max({m, n}) >= m /\ Max({m, n}) >= n
<1> DEFINE k == m + n
<1>1. k \in Nat /\ {m, n} \in SUBSET (0..k) /\ {m, n} # {}
  OBVIOUS
<1> HIDE DEF k
<1>2. Max({m, n}) \in {m, n} /\ \A y \in {m, n} : y <= Max({m, n})
  BY <1>1, MaxOfSet
<1> QED
  BY <1>2

(* The ports of a block, as a set and in order. *)
LEMMA BlocksFinite == IsFiniteSet(Blocks) /\ IsFiniteSet(Edges)
<1> DEFINE n == Len(BlockSeq)
           f == [i \in 1..n |-> BlockSeq[i]]
<1>1. n \in Nat /\ DOMAIN BlockSeq = 1..n
  BY GraphAssumption
<1>2. f \in Surjection(1..n, Blocks)
  BY <1>1 DEF Surjection, Blocks, Range
<1>3. IsFiniteSet(1..n)
  BY <1>1, FS_Interval
<1>4. IsFiniteSet(Blocks)
  BY <1>2, <1>3, FS_Surjection
<1>5. IsFiniteSet(Blocks \X Blocks)
  BY <1>4, FS_Product
<1> QED
  BY <1>4, <1>5, FS_Subset, GraphAssumption

(* InSeq and OutSeq list a block's edges, the inputs without repetition. *)
LEMMA PortSeqs ==
  ASSUME NEW b \in Blocks
  PROVE  /\ InSeq[b] \in Seq(In[b])
         /\ \A i, j \in 1..Len(InSeq[b]) : i # j => InSeq[b][i] # InSeq[b][j]
         /\ OutSeq[b] \in Seq(Out[b])
<1>1. ASSUME NEW S, IsFiniteSet(S)
      PROVE  /\ SetToSeq(S) \in Seq(S)
             /\ \A i, j \in 1..Len(SetToSeq(S)) : i # j => SetToSeq(S)[i] # SetToSeq(S)[j]
  <2> DEFINE c == Cardinality(S)
  <2>1. c \in Nat /\ ExistsBijection(1..c, S)
    BY <1>1, FS_CardinalityType
  <2>2. \E g \in [1..c -> S] : IsInjective(g)
    BY <2>1 DEF ExistsBijection, Bijection, Injection
  <2>3. SetToSeq(S) \in [1..c -> S] /\ IsInjective(SetToSeq(S))
    BY <2>2 DEF SetToSeq
  <2>4. Len(SetToSeq(S)) = c
    BY <2>1, <2>3
  <2> QED
    BY <2>1, <2>3, <2>4 DEF IsInjective
<1>2. IsFiniteSet(In[b]) /\ IsFiniteSet(Out[b])
  <2>1. In[b] \in SUBSET Edges /\ Out[b] \in SUBSET Edges
    BY DEF In, Out
  <2> QED
    BY <2>1, BlocksFinite, FS_Subset
<1>3. InSeq[b] = SetToSeq(In[b]) /\ OutSeq[b] = SetToSeq(Out[b])
  BY DEF InSeq, OutSeq
<1> QED
  BY <1>1, <1>2, <1>3

(* The edges at a block's ports end, or begin, at the block. *)
LEMMA EdgeEnds ==
  /\ \A b \in Blocks : \A e \in In[b] : e \in Edges /\ e[2] = b /\ e[1] \in Blocks
  /\ \A b \in Blocks : \A e \in Out[b] : e \in Edges /\ e[1] = b /\ e[2] \in Blocks
  BY GraphAssumption DEF In, Out

(* The space of an output port is what is left behind its slowest reader, of
   which it offers half a buffer at most. *)
LEMMA SpaceFacts ==
  ASSUME TypeOK, NEW b \in Blocks, Out[b] # {}
  PROVE  /\ Space(b) \in Nat
         /\ \A e \in Out[b] : fill[e] + Space(b) < BufItems
         /\ Space(b) < 1 => \E e \in Out[b] : fill[e] = BufItems - 1
<1> DEFINE S == {fill[e] : e \in Out[b]}
           backlog == Max(S)
<1>1. BufItems \in Nat /\ BufItems >= 2 /\ BufItems - 1 \in Nat
  BY GraphAssumption
<1>2. \A e \in Edges : fill[e] \in Nat /\ fill[e] \in 0..(BufItems - 1)
  BY <1>1 DEF TypeOK
<1>3. S \in SUBSET (0..(BufItems - 1)) /\ S # {}
  BY <1>2, EdgeEnds
<1>4. backlog \in S /\ \A y \in S : y <= backlog
  <2> HIDE DEF S
  <2> QED BY <1>1, <1>3, MaxOfSet
<1>5. backlog \in 0..(BufItems - 1)
  <2> HIDE DEF S
  <2> QED BY <1>3, <1>4
<1>6. \A e \in Out[b] : fill[e] <= backlog /\ fill[e] \in Nat
  BY <1>2, <1>4, EdgeEnds
<1>7. \E e \in Out[b] : fill[e] = backlog
  BY <1>4
<1>8. Space(b) = Min({BufItems - backlog - 1, BufItems \div 2})
  BY DEF Space
<1> HIDE DEF backlog, S
<1> DEFINE P == {BufItems - backlog - 1, BufItems \div 2}
<1>9. P \in SUBSET Nat /\ P # {} /\ BufItems - backlog - 1 \in P
  BY <1>1, <1>5
<1>10. Min(P) \in P /\ Min(P) <= BufItems - backlog - 1
  <2> HIDE DEF P
  <2> QED BY <1>9, MinOfSet
<1>11. /\ Space(b) \in Nat /\ Space(b) <= BufItems - backlog - 1
       /\ Space(b) \in {BufItems - backlog - 1, BufItems \div 2}
  <2>1. Min(P) \in Nat
    BY <1>9, <1>10
  <2> QED
    BY <1>8, <1>10, <2>1
<1>12. Space(b) < 1 => backlog = BufItems - 1
  <2>1. BufItems \div 2 >= 1
    BY <1>1
  <2> QED
    BY <1>1, <1>5, <1>11, <2>1
<1> QED
  BY <1>1, <1>5, <1>6, <1>7, <1>11, <1>12

(* A work call processes no more than its input ports offer, its output port
   has room for and its limit leaves; and it processes something unless the
   limit is reached. *)
LEMMA AmountFacts ==
  ASSUME TypeOK, made \in [Blocks -> Nat], NEW b \in Blocks,
         ~ InputBlocked(b), ~ OutputBlocked(b), NEW n \in Amounts(b)
  PROVE  /\ n \in Nat
         /\ \A e \in In[b] : n <= fill[e]
         /\ \A e \in Out[b] : fill[e] + n < BufItems
         /\ Limit[b] > 0 => made[b] + n <= Limit[b]
         /\ n > 0 \/ (n = 0 /\ Limit[b] > 0 /\ made[b] = Limit[b])
<1> DEFINE ins == IF In[b] = {} THEN {} ELSE {Available(b)}
           outs == IF Out[b] = {} THEN {} ELSE {Space(b)}
           lims == IF Limit[b] = 0 THEN {} ELSE {Limit[b] - made[b]}
           most == Min(ins \cup outs \cup lims)
<1>1. BufItems \in Nat /\ BufItems >= 2 /\ BufItems - 1 \in Nat
  BY GraphAssumption
<1>2. \A e \in Edges : fill[e] \in Nat /\ fill[e] \in 0..(BufItems - 1)
  BY <1>1 DEF TypeOK
<1>3. ASSUME In[b] # {}
      PROVE  /\ Available(b) \in Nat /\ Available(b) >= 1
             /\ \A e \in In[b] : Available(b) <= fill[e]
  <2> DEFINE S == {fill[e] : e \in In[b]}
  <2>1. \A e \in In[b] : fill[e] \in Nat /\ fill[e] >= 1
    <3> SUFFICES ASSUME NEW e \in In[b] PROVE fill[e] \in Nat /\ fill[e] >= 1
      OBVIOUS
    <3> DEFINE m == Max({1, MinRead[e]})
    <3>1. e \in Edges /\ fill[e] \in Nat /\ MinRead[e] \in Nat
      BY <1>2, EdgeEnds, GraphAssumption
    <3>2. m \in Nat /\ m >= 1
      BY <3>1, MaxOfPair
    <3>3. ~ (fill[e] < m)
      BY DEF InputBlocked
    <3> HIDE DEF m
    <3> QED
      BY <3>1, <3>2, <3>3
  <2>2. S \in SUBSET Nat /\ S # {} /\ \A y \in S : y >= 1
    BY <1>3, <2>1
  <2>3. Min(S) \in S /\ \A y \in S : Min(S) <= y
    <3> HIDE DEF S
    <3> QED BY <2>2, MinOfSet
  <2>4. Available(b) = Min(S)
    BY DEF Available
  <2>5. Min(S) \in Nat /\ Min(S) >= 1
    <3> HIDE DEF S
    <3> QED BY <2>2, <2>3
  <2> QED
    BY <2>3, <2>4, <2>5
<1>4. ASSUME Out[b] # {}
      PROVE  /\ Space(b) \in Nat /\ Space(b) >= 1
             /\ \A e \in Out[b] : fill[e] + Space(b) < BufItems
  BY <1>4, SpaceFacts DEF OutputBlocked
<1>5. ASSUME Limit[b] # 0
      PROVE  Limit[b] - made[b] \in Nat /\ Limit[b] \in Nat /\ made[b] \in Nat
  <2>1. Limit[b] \in Nat
    BY GraphAssumption
  <2>2. made[b] \in 0..Limit[b]
    BY DEF TypeOK
  <2> QED
    BY <2>1, <2>2
<1>6. ins \cup outs \cup lims \in SUBSET Nat
  BY <1>3, <1>4, <1>5
<1>7. ins \cup outs \cup lims # {}
  <2>1. PICK e \in Edges : b \in {e[1], e[2]}
    BY GraphAssumption
  <2>2. e \in In[b] \/ e \in Out[b]
    BY <2>1 DEF In, Out
  <2> QED
    BY <2>2
<1>8. most \in ins \cup outs \cup lims /\ \A y \in ins \cup outs \cup lims : most <= y
  <2> HIDE DEF ins, outs, lims
  <2> QED BY <1>6, <1>7, MinOfSet
<1>9. most \in Nat
  <2> HIDE DEF ins, outs, lims, most
  <2> QED BY <1>6, <1>8
<1>10. n \in Nat /\ n <= most
  <2>1. n \in (IF Partial /\ most > 0 THEN 1..most ELSE {most})
    BY DEF Amounts
  <2> HIDE DEF most
  <2> QED BY <1>9, <2>1
<1>11. /\ In[b] # {} => most <= Available(b)
       /\ Out[b] # {} => most <= Space(b)
       /\ Limit[b] # 0 => most <= Limit[b] - made[b]
  <2> HIDE DEF most
  <2> QED BY <1>8
<1> HIDE DEF most, ins, outs, lims
<1>12. \A e \in In[b] : n <= fill[e]
  <2> SUFFICES ASSUME NEW e \in In[b] PROVE n <= fill[e]
    OBVIOUS
  <2>1. Available(b) \in Nat /\ Available(b) <= fill[e] /\ most <= Available(b)
    BY <1>3, <1>11
  <2>2. fill[e] \in Nat
    BY <1>2, EdgeEnds
  <2> QED
    BY <1>9, <1>10, <2>1, <2>2
<1>13. \A e \in Out[b] : fill[e] + n < BufItems
  <2> SUFFICES ASSUME NEW e \in Out[b] PROVE fill[e] + n < BufItems
    OBVIOUS
  <2>1. Space(b) \in Nat /\ fill[e] + Space(b) < BufItems /\ most <= Space(b)
    BY <1>4, <1>11
  <2>2. fill[e] \in Nat
    BY <1>2, EdgeEnds
  <2> QED
    BY <1>1, <1>9, <1>10, <2>1, <2>2
<1>14. Limit[b] > 0 => made[b] + n <= Limit[b]
  BY <1>5, <1>9, <1>10, <1>11
<1>15. n > 0 \/ (n = 0 /\ Limit[b] > 0 /\ made[b] = Limit[b])
  <2>1. most = 0 => Limit[b] # 0 /\ Limit[b] - made[b] = 0
    BY <1>3, <1>4, <1>8 DEF ins, outs, lims
  <2>2. n = 0 => most = 0
    <3>1. n \in (IF Partial /\ most > 0 THEN 1..most ELSE {most})
      BY DEF Amounts, most, ins, outs, lims
    <3> QED
      BY <3>1, <1>9, <1>10
  <2> QED
    BY <2>1, <2>2, <1>5, <1>10
<1> QED
  BY <1>10, <1>12, <1>13, <1>14, <1>15

(* The posts of a work call of b that processed n items. *)
LEMMA PostingFacts ==
  ASSUME NEW b \in Blocks, NEW n \in Nat,
         \A e \in In[b] : n <= fill[e],
         \A e \in Out[b] : fill[e] + n < BufItems
  PROVE  /\ Posting(b, n) \in Seq(Tasks(ThreadOf[b]))
         /\ Feasible(Posting(b, n))
         /\ PostedOnce(Posting(b, n))
<1> DEFINE t == ThreadOf[b]
           l == Len(InSeq[b])
           reads == Reading(b, n)
           outs == [i \in DOMAIN OutSeq[b] |-> Notify(OutSeq[b][i][2])]
           writes == IF Out[b] = {} THEN <<>> ELSE <<Write(b, n)>> \o outs
<1>1. /\ l \in Nat
      /\ \A i \in 1..l : InSeq[b][i] \in In[b]
      /\ \A i, j \in 1..l : i # j => InSeq[b][i] # InSeq[b][j]
      /\ DOMAIN OutSeq[b] = 1..Len(OutSeq[b]) /\ Len(OutSeq[b]) \in Nat
      /\ \A i \in DOMAIN OutSeq[b] : OutSeq[b][i] \in Out[b]
  BY PortSeqs
<1>2. \A c \in Blocks : ThreadOf[c] \in Threads /\ Notify(c) \in Tasks(t)
                        /\ Notify(c).op = "notify"
  BY ThreadOfMember DEF Notify, Tasks
<1>3. Write(b, n) \in Tasks(t)
  BY ThreadOfMember DEF Write, Tasks
<1>4. \A e \in In[b] : Read(e, n) \in Tasks(t)
  BY EdgeEnds DEF Read, Tasks
<1>5. ASSUME NEW i \in 1..(2 * l)
      PROVE  /\ (i + 1) \div 2 \in 1..l
             /\ reads[i] \in Tasks(t)
             /\ reads[i].op \in {"read", "notify"}
             /\ reads[i].op = "read" =>
                  i % 2 = 1 /\ reads[i] = Read(InSeq[b][(i + 1) \div 2], n)
  <2>1. (i + 1) \div 2 \in 1..l
    BY <1>1
  <2> DEFINE e == InSeq[b][(i + 1) \div 2]
  <2>2. e \in In[b] /\ e[1] \in Blocks
    BY <2>1, <1>1, EdgeEnds
  <2>3. reads[i] = IF i % 2 = 1 THEN Read(e, n) ELSE Notify(e[1])
    BY DEF Reading
  <2>4. Read(e, n).op = "read" /\ Notify(e[1]).op = "notify"
    BY DEF Read, Notify
  <2> HIDE DEF e, reads
  <2>5. reads[i] \in Tasks(t) /\ reads[i].op \in {"read", "notify"}
    BY <2>2, <2>3, <2>4, <1>2, <1>4
  <2>6. reads[i].op = "read" => i % 2 = 1 /\ reads[i] = Read(e, n)
    BY <2>3, <2>4
  <2> QED
    BY <2>1, <2>5, <2>6 DEF e
<1>6. reads \in Seq(Tasks(t)) /\ Len(reads) = 2 * l
  <2>1. reads = [i \in 1..(2 * l) |-> reads[i]]
    BY DEF Reading
  <2>2. 2 * l \in Nat
    BY <1>1
  <2> HIDE DEF reads
  <2>3. [i \in 1..(2 * l) |-> reads[i]] \in Seq(Tasks(t))
        /\ Len([i \in 1..(2 * l) |-> reads[i]]) = 2 * l
    BY <2>2, <1>5
  <2> QED
    BY <2>1, <2>3
<1>7. outs \in Seq(Tasks(t)) /\ Len(outs) = Len(OutSeq[b])
      /\ \A i \in 1..Len(outs) : outs[i].op = "notify"
  <2>1. \A i \in 1..Len(OutSeq[b]) : outs[i] \in Tasks(t) /\ outs[i].op = "notify"
    BY <1>1, <1>2, EdgeEnds
  <2>2. outs = [i \in 1..Len(OutSeq[b]) |-> outs[i]]
    BY <1>1
  <2> HIDE DEF outs
  <2>3. [i \in 1..Len(OutSeq[b]) |-> outs[i]] \in Seq(Tasks(t))
        /\ Len([i \in 1..Len(OutSeq[b]) |-> outs[i]]) = Len(OutSeq[b])
    BY <1>1, <2>1
  <2> QED
    BY <2>1, <2>2, <2>3
<1>8. /\ writes \in Seq(Tasks(t))
      /\ \A i \in 1..Len(writes) :
           \/ writes[i].op = "notify"
           \/ i = 1 /\ writes[i] = Write(b, n)
  <2>1. CASE Out[b] = {}
    BY <2>1
  <2>2. CASE Out[b] # {}
    <3> HIDE DEF outs
    <3>1. writes = <<Write(b, n)>> \o outs
      BY <2>2
    <3>2. <<Write(b, n)>> \in Seq(Tasks(t)) /\ Len(<<Write(b, n)>>) = 1
      BY <1>3
    <3>3. <<Write(b, n)>> \o outs \in Seq(Tasks(t))
      BY <3>2, <1>7, ConcatProperties
    <3>4. ASSUME NEW i \in 1..Len(writes)
          PROVE  writes[i].op = "notify" \/ (i = 1 /\ writes[i] = Write(b, n))
      <4>1. Len(writes) = 1 + Len(outs)
        BY <3>1, <3>2, <1>7, ConcatProperties
      <4>2. CASE i = 1
        <5>1. writes[i] = <<Write(b, n)>>[1]
          BY <3>1, <3>2, <4>2, <1>7, ConcatProperties
        <5> QED
          BY <5>1, <4>2
      <4>3. CASE i # 1
        <5>1. i - 1 \in 1..Len(outs) /\ i > 1
          BY <4>1, <4>3, <1>7
        <5>2. writes[i] = outs[i - 1]
          BY <3>1, <3>2, <4>1, <5>1, <1>7, ConcatProperties
        <5> QED
          BY <5>1, <5>2, <1>7
      <4> QED
        BY <4>2, <4>3
    <3> QED
      BY <3>1, <3>3, <3>4
  <2> QED
    BY <2>1, <2>2
<1> DEFINE all == reads \o writes
<1>9. Posting(b, n) = all
  BY DEF Posting
<1> HIDE DEF reads, writes, outs, t
<1>10. /\ all \in Seq(Tasks(t)) /\ Len(all) = 2 * l + Len(writes)
       /\ \A i \in 1..Len(all) : all[i] = IF i <= 2 * l THEN reads[i] ELSE writes[i - 2 * l]
  <2> DEFINE m == 2 * l
  <2>1. Len(reads) = m /\ m \in Nat
    BY <1>1, <1>6
  <2> HIDE DEF m
  <2>2. all \in Seq(Tasks(t)) /\ Len(all) = m + Len(writes)
    BY <1>6, <1>8, <2>1, ConcatProperties
  <2>3. \A i \in 1..Len(all) : all[i] = IF i <= m THEN reads[i] ELSE writes[i - m]
    BY <1>6, <1>8, <2>1, <2>2, ConcatProperties
  <2> QED
    BY <2>2, <2>3 DEF m
<1>11. Len(writes) \in Nat /\ 2 * l \in Nat
  BY <1>1, <1>8
<1> HIDE DEF all
<1>12. ASSUME NEW i \in 1..Len(all)
       PROVE  \/ all[i].op = "notify"
              \/ /\ i <= 2 * l /\ i % 2 = 1 /\ (i + 1) \div 2 \in 1..l
                 /\ all[i] = Read(InSeq[b][(i + 1) \div 2], n)
              \/ i = 2 * l + 1 /\ all[i] = Write(b, n)
  <2>1. CASE i <= 2 * l
    <3>1. i \in 1..(2 * l) /\ all[i] = reads[i]
      BY <2>1, <1>10, <1>11
    <3> QED
      BY <3>1, <1>5, <2>1
  <2>2. CASE i > 2 * l
    <3>1. i - 2 * l \in 1..Len(writes) /\ all[i] = writes[i - 2 * l]
      <4> DEFINE m == 2 * l
      <4>1. /\ m \in Nat /\ i \in 1..(m + Len(writes)) /\ i > m /\ Len(writes) \in Nat
            /\ all[i] = IF i <= m THEN reads[i] ELSE writes[i - m]
        BY <2>2, <1>10, <1>11
      <4> HIDE DEF m
      <4>2. i - m \in 1..Len(writes) /\ all[i] = writes[i - m]
        BY <4>1
      <4> QED
        BY <4>2 DEF m
    <3>2. i - 2 * l = 1 => i = 2 * l + 1
      BY <1>11
    <3> QED
      BY <3>1, <3>2, <1>8
  <2> QED
    BY <2>1, <2>2, <1>11
<1>13. Write(b, n).op = "write" /\ Write(b, n).block = b /\ Write(b, n).n = n
       /\ \A e \in In[b] : Read(e, n).op = "read" /\ Read(e, n).edge = e /\ Read(e, n).n = n
  BY DEF Write, Read
<1>14. Feasible(all)
  <2> SUFFICES ASSUME NEW i \in 1..Len(all)
               PROVE  /\ all[i].op = "read" => all[i].n <= fill[all[i].edge]
                      /\ all[i].op = "write" =>
                           \A e \in Out[all[i].block] : fill[e] + all[i].n < BufItems
    BY DEF Feasible
  <2>1. CASE all[i].op = "notify"
    BY <2>1
  <2>2. CASE (i + 1) \div 2 \in 1..l /\ all[i] = Read(InSeq[b][(i + 1) \div 2], n)
    <3> DEFINE e == InSeq[b][(i + 1) \div 2]
    <3>1. e \in In[b] /\ all[i] = Read(e, n)
      BY <2>2, <1>1
    <3> HIDE DEF e
    <3> QED
      BY <3>1, <1>13
  <2>3. CASE all[i] = Write(b, n)
    BY <2>3, <1>13
  <2> QED
    BY <2>1, <2>2, <2>3, <1>12
<1>15. PostedOnce(all)
  <2> SUFFICES ASSUME NEW i \in 1..Len(all), NEW j \in 1..Len(all), i # j
               PROVE  /\ all[i].op = "read" /\ all[j].op = "read" => all[i].edge # all[j].edge
                      /\ ~ (all[i].op = "write" /\ all[j].op = "write")
    BY DEF PostedOnce
  <2>1. ASSUME NEW k \in 1..Len(all)
        PROVE  /\ all[k].op = "read" =>
                    /\ k % 2 = 1 /\ (k + 1) \div 2 \in 1..l
                    /\ all[k].edge = InSeq[b][(k + 1) \div 2]
               /\ all[k].op = "write" => k = 2 * l + 1
    BY <1>1, <1>12, <1>13
  <2>2. i % 2 = 1 /\ j % 2 = 1 => (i + 1) \div 2 # (j + 1) \div 2
    <3>1. i \in Nat /\ j \in Nat
      BY <1>10
    <3> QED
      BY <3>1
  <2> QED
    BY <1>1, <2>1, <2>2
<1> QED
  BY <1>9, <1>10, <1>14, <1>15 DEF t

(* Steps that touch neither the buffers nor the scripts. *)
LEMMA ScriptFrame == ASSUME ScriptInv, UNCHANGED <<fill, script>> PROVE ScriptInv'
  BY DEF ScriptInv, Feasible, PostedOnce

(* The values of the status of a block. *)
Statuses == {"NONE", "READY", "BLKD_IN", "BLKD_OUT", "DONE"}

(* A group is as long as it has blocks. *)
LEMMA GroupLength == \A t \in Threads : Len(Group[t]) \in Nat
  BY GroupAssumption

(* The message loop of a thread. *)
LEMMA LoopFlow ==
  ASSUME Inv, FlowInv, Inv', NEW t \in Threads,
         \/ PopNotify(t) \/ PopDone(t) \/ PopExit(t)
         \/ BeginIteration(t) \/ PollEmpty(t) \/ ExitThread(t)
  PROVE  FlowInv'
<1> USE DEF loopVars, execVars, flushVars, queueVars, monVars, appVars, dataVars
<1>0. UNCHANGED <<fill, made, status, script, mon, mq, flushed, begun, stopping, interrupted>>
  BY DEF PopNotify, PopDone, PopExit, BeginIteration, PollEmpty, ExitThread
<1>1. ScriptInv'
  BY <1>0, ScriptFrame DEF FlowInv
<1>2. pc' \in [Threads -> Places] /\ stopped' \in [Threads -> BOOLEAN]
      /\ flushing' \in [Threads -> BOOLEAN] /\ killed' \in [Threads -> BOOLEAN]
      /\ \A u \in Threads : Range(ctl'[u]) \subseteq {"DONE", "EXIT"}
  BY RangeOfSeq DEF Inv, ControlType
<1>3. work' \in [Threads -> BOOLEAN] /\ note' \in [Threads -> BOOLEAN]
  BY DEF PopNotify, PopDone, PopExit, BeginIteration, PollEmpty, ExitThread, FlowInv, TypeOK
<1>4. flush_cnt' \in [Threads -> 0..FlushCount]
  <2>1. CASE UNCHANGED flush_cnt
    BY <2>1 DEF FlowInv, TypeOK
  <2>2. CASE PopDone(t)
    BY <2>2, ControlAssumption DEF PopDone, FlowInv, TypeOK
  <2> QED
    BY <2>1, <2>2 DEF PopNotify, PopExit, BeginIteration, PollEmpty, ExitThread
<1>5. cur' \in [Threads -> Nat] /\ \A u \in Threads : cur'[u] \in 1..(Len(Group[u]) + 1)
  <2>1. CASE UNCHANGED cur
    BY <2>1 DEF FlowInv, TypeOK
  <2>2. CASE BeginIteration(t)
    <3>1. cur' \in [Threads -> Nat] /\ \A u \in Threads : cur'[u] \in {1, cur[u]}
      BY <2>2 DEF BeginIteration, FlowInv
    <3>2. \A u \in Threads : cur[u] \in 1..(Len(Group[u]) + 1)
      BY DEF FlowInv, TypeOK
    <3>3. \A u \in Threads : 1 \in 1..(Len(Group[u]) + 1)
      BY GroupLength
    <3> QED
      BY <3>1, <3>2, <3>3
  <2> QED
    BY <2>1, <2>2 DEF PopNotify, PopDone, PopExit, PollEmpty, ExitThread
<1>6. TypeOK'
  BY <1>0, <1>2, <1>3, <1>4, <1>5 DEF FlowInv, TypeOK, Places
<1> QED
  BY <1>0, <1>1, <1>5, <1>6 DEF FlowInv

(* The block the executor is at is one of the thread's. *)
LEMMA CurrentBlock ==
  ASSUME FlowInv, NEW t \in Threads, AtBlock(t)
  PROVE  /\ Current(t) \in Members[t] /\ Current(t) \in Blocks
         /\ ThreadOf[Current(t)] = t
         /\ [cur EXCEPT ![t] = @ + 1] \in [Threads -> Nat]
         /\ \A u \in Threads : [cur EXCEPT ![t] = @ + 1][u] \in 1..(Len(Group[u]) + 1)
<1>1. /\ cur[t] \in 1..(Len(Group[t]) + 1) /\ cur[t] <= Len(Group[t])
      /\ \A u \in Threads : cur[u] \in 1..(Len(Group[u]) + 1)
      /\ cur \in [Threads -> Nat]
  BY DEF AtBlock, FlowInv, TypeOK
<1>2. Group[t] \in Seq(Blocks) /\ Len(Group[t]) \in Nat
  BY GroupAssumption
<1>3. cur[t] \in DOMAIN Group[t]
  BY <1>1, <1>2
<1>4. Current(t) \in Members[t]
  BY <1>3 DEF Current, Members, Range
<1>5. cur[t] + 1 \in 1..(Len(Group[t]) + 1)
  BY <1>1, <1>2
<1> QED
  BY <1>1, <1>4, <1>5, ThreadOfMember

(* A block that is skipped: only its status and the position change. *)
LEMMA BlockedFlow ==
  ASSUME FlowInv, Inv', NEW t \in Threads, BlockedOnInput(t) \/ BlockedOnOutput(t)
  PROVE  FlowInv'
<1> USE DEF loopVars, flushVars, queueVars, monVars, appVars, dataVars
<1>1. /\ UNCHANGED <<fill, made, script, pc, work, stopped, flushing, flush_cnt, note, ctl,
                     killed, mon, mq, flushed, begun, stopping, interrupted>>
      /\ cur' = [cur EXCEPT ![t] = @ + 1]
      /\ AtBlock(t)
  BY DEF BlockedOnInput, BlockedOnOutput
<1>2. ScriptInv'
  BY <1>1, ScriptFrame DEF FlowInv
<1>3. status' \in [Blocks -> Statuses]
  BY CurrentBlock, <1>1 DEF BlockedOnInput, BlockedOnOutput, FlowInv, TypeOK, Statuses
<1>4. cur' \in [Threads -> Nat] /\ \A u \in Threads : cur'[u] \in 1..(Len(Group[u]) + 1)
  BY <1>1, CurrentBlock
<1>5. TypeOK'
  BY <1>1, <1>3, <1>4 DEF FlowInv, TypeOK, Statuses
<1> QED
  BY <1>1, <1>2, <1>4, <1>5 DEF FlowInv

(* A work call: the fills it has read bound what it processes. *)
LEMMA DoWorkFlow ==
  ASSUME FlowInv, Inv', NEW t \in Threads, NEW n \in 0..BufItems, DoWork(t, n)
  PROVE  FlowInv'
<1> DEFINE b == Current(t)
<1> USE DEF loopVars, flushVars, queueVars, monVars, appVars
<1>1. /\ UNCHANGED <<fill, pc, work, stopped, flushing, flush_cnt, note, ctl,
                     killed, mon, mq, flushed, begun, stopping, interrupted>>
      /\ cur' = [cur EXCEPT ![t] = @ + 1]
      /\ status' = [status EXCEPT ![b] = IF AnswersDone(b, n) THEN "DONE" ELSE "READY"]
      /\ made' = [made EXCEPT ![b] = IF Limit[b] > 0 THEN made[b] + n ELSE 0]
      /\ script' = [script EXCEPT ![t] = Posting(b, n)]
      /\ AtBlock(t) /\ ~ InputBlocked(b) /\ ~ OutputBlocked(b) /\ n \in Amounts(b)
  BY DEF DoWork
<1>2. b \in Blocks /\ ThreadOf[b] = t
  BY <1>1, CurrentBlock
<1>3. cur' \in [Threads -> Nat] /\ \A u \in Threads : cur'[u] \in 1..(Len(Group[u]) + 1)
  BY <1>1, CurrentBlock
<1> HIDE DEF b
<1>4. /\ n \in Nat
      /\ \A e \in In[b] : n <= fill[e]
      /\ \A e \in Out[b] : fill[e] + n < BufItems
      /\ Limit[b] > 0 => made[b] + n <= Limit[b]
  BY <1>1, <1>2, AmountFacts DEF FlowInv
<1>5. made' \in [Blocks -> Nat] /\ \A c \in Blocks : made'[c] \in 0..Limit[c]
  <2>1. made \in [Blocks -> Nat] /\ \A c \in Blocks : made[c] \in 0..Limit[c] /\ Limit[c] \in Nat
    BY GraphAssumption DEF FlowInv, TypeOK
  <2> DEFINE m == IF Limit[b] > 0 THEN made[b] + n ELSE 0
  <2>2. m \in Nat /\ m \in 0..Limit[b]
    BY <1>2, <1>4, <2>1
  <2>3. made' = [made EXCEPT ![b] = m]
    BY <1>1
  <2> HIDE DEF m
  <2> QED
    BY <1>2, <2>1, <2>2, <2>3
<1>6. status' \in [Blocks -> Statuses]
  BY <1>1, <1>2 DEF FlowInv, TypeOK, Statuses
<1>7. ScriptInv'
  <2>1. /\ Posting(b, n) \in Seq(Tasks(t)) /\ Feasible(Posting(b, n))
        /\ PostedOnce(Posting(b, n))
    BY <1>2, <1>4, PostingFacts
  <2> DEFINE q == Posting(b, n)
  <2>2. script' = [script EXCEPT ![t] = q]
    BY <1>1
  <2>3. q \in Seq(Tasks(t)) /\ Feasible(q) /\ PostedOnce(q)
    BY <2>1
  <2> HIDE DEF q
  <2> SUFFICES ASSUME NEW u \in Threads
               PROVE  /\ script'[u] \in Seq(Tasks(u))
                      /\ Feasible(script[u])' /\ PostedOnce(script[u])'
    BY <2>2 DEF FlowInv, ScriptInv
  <2>4. (script'[u] = q /\ u = t) \/ script'[u] = script[u]
    BY <2>2 DEF FlowInv, ScriptInv
  <2>5. script'[u] \in Seq(Tasks(u)) /\ Feasible(script'[u]) /\ PostedOnce(script'[u])
    BY <2>3, <2>4 DEF FlowInv, ScriptInv
  <2> QED
    BY <1>1, <2>5 DEF Feasible, PostedOnce
<1>8. TypeOK'
  BY <1>1, <1>3, <1>5, <1>6 DEF FlowInv, TypeOK, Statuses
<1> QED
  BY <1>3, <1>5, <1>7, <1>8 DEF FlowInv

(* What is left of a script, and the task that was first in it. *)
LEMMA ScriptTail ==
  ASSUME ScriptInv, NEW t \in Threads, script[t] # <<>>
  PROVE  LET s == script[t] IN
         /\ Head(s) = s[1] /\ Head(s) \in Tasks(t) /\ Len(s) \in Nat /\ 1 \in 1..Len(s)
         /\ Tail(s) \in Seq(Tasks(t))
         /\ Len(Tail(s)) = Len(s) - 1
         /\ \A i \in 1..Len(Tail(s)) : Tail(s)[i] = s[i + 1] /\ i + 1 \in 1..Len(s)
         /\ PostedOnce(Tail(s))
<1> DEFINE s == script[t]
<1>1. s \in Seq(Tasks(t)) /\ PostedOnce(s) /\ s # <<>>
  BY DEF ScriptInv
<1> HIDE DEF s
<1>2. /\ Head(s) = s[1] /\ Head(s) \in Tasks(t) /\ Len(s) \in Nat /\ Len(s) >= 1
      /\ Tail(s) \in Seq(Tasks(t))
      /\ Len(Tail(s)) = Len(s) - 1
      /\ \A i \in 1..Len(Tail(s)) : Tail(s)[i] = s[i + 1]
  BY <1>1, HeadTailProperties
<1>3. \A i \in 1..Len(Tail(s)) : i + 1 \in 1..Len(s)
  BY <1>2
<1>4. PostedOnce(Tail(s))
  <2> SUFFICES ASSUME NEW i \in 1..Len(Tail(s)), NEW j \in 1..Len(Tail(s)), i # j
               PROVE  LET a == Tail(s)[i]
                          c == Tail(s)[j]
                      IN  /\ a.op = "read" /\ c.op = "read" => a.edge # c.edge
                          /\ ~ (a.op = "write" /\ c.op = "write")
    BY DEF PostedOnce
  <2>1. Tail(s)[i] = s[i + 1] /\ Tail(s)[j] = s[j + 1]
    BY <1>2
  <2>2. i + 1 \in 1..Len(s) /\ j + 1 \in 1..Len(s) /\ i + 1 # j + 1
    BY <1>2, <1>3
  <2> QED
    BY <1>1, <2>1, <2>2 DEF PostedOnce
<1> QED
  BY <1>2, <1>3, <1>4 DEF s

(* The tasks of the thread that posts and of the others after a post. *)
LEMMA RestOfScripts ==
  ASSUME ScriptInv, NEW t \in Threads, script[t] # <<>>, Posted(t), fill' \in [Edges -> Nat],
         \A u \in Threads : \A k \in 1..Len(script[u]) :
           LET s == script[u][k] IN
             u # t \/ k > 1 =>
               /\ s.op = "read" => s.n <= fill'[s.edge]
               /\ s.op = "write" => \A e \in Out[s.block] : fill'[e] + s.n < BufItems
  PROVE  ScriptInv'
<1>1. script' = [script EXCEPT ![t] = Tail(script[t])] /\ DOMAIN script = Threads
  BY DEF Posted, ScriptInv
<1> SUFFICES ASSUME NEW u \in Threads
             PROVE  /\ script'[u] \in Seq(Tasks(u))
                    /\ Feasible(script[u])' /\ PostedOnce(script[u])'
  BY <1>1 DEF ScriptInv
<1>2. CASE u # t
  <2>1. script'[u] = script[u]
    BY <1>1, <1>2
  <2>2. script[u] \in Seq(Tasks(u)) /\ PostedOnce(script[u])
    BY DEF ScriptInv
  <2>3. Feasible(script[u])'
    BY <1>2, <2>1 DEF Feasible
  <2> QED
    BY <2>1, <2>2, <2>3 DEF PostedOnce
<1>3. CASE u = t
  <2> DEFINE s == Tail(script[t])
  <2>1. script'[u] = s
    BY <1>1, <1>3
  <2>2. /\ s \in Seq(Tasks(t)) /\ PostedOnce(s) /\ Len(script[t]) \in Nat
        /\ \A i \in 1..Len(s) : s[i] = script[t][i + 1] /\ i + 1 \in 1..Len(script[t])
    BY ScriptTail
  <2> HIDE DEF s
  <2>3. ASSUME NEW i \in 1..Len(s)
        PROVE  /\ s[i].op = "read" => s[i].n <= fill'[s[i].edge]
               /\ s[i].op = "write" => \A e \in Out[s[i].block] : fill'[e] + s[i].n < BufItems
    <3>1. s[i] = script[t][i + 1] /\ i + 1 \in 1..Len(script[t]) /\ i + 1 > 1
      BY <2>2
    <3> QED
      BY <3>1
  <2>4. Feasible(script[u])'
    BY <2>1, <2>3 DEF Feasible
  <2> QED
    BY <1>3, <2>1, <2>2, <2>4 DEF PostedOnce
<1> QED
  BY <1>2, <1>3

(* The fill of every buffer stays in its bounds; nothing else is typed anew. *)
LEMMA PostType ==
  ASSUME FlowInv, fill' \in [Edges -> 0..(BufItems - 1)], note' \in [Threads -> BOOLEAN],
         UNCHANGED <<made, status, cur, loopVars, flushVars, ctl, killed, monVars, appVars>>
  PROVE  TypeOK' /\ made' \in [Blocks -> Nat] /\ cur' \in [Threads -> Nat]
<1>1. UNCHANGED <<made, status, cur, pc, work, stopped, flushing, flush_cnt, ctl, killed,
                  mon, mq, flushed, begun, stopping, interrupted>>
  BY DEF loopVars, flushVars, monVars, appVars
<1>2. /\ \A b \in Blocks : made'[b] \in 0..Limit[b]
      /\ status' \in [Blocks -> {"NONE", "READY", "BLKD_IN", "BLKD_OUT", "DONE"}]
      /\ pc' \in [Threads -> {"start", "wait", "poll", "iterate", "exited"}]
      /\ \A t \in Threads : cur'[t] \in 1..(Len(Group[t]) + 1)
      /\ flush_cnt' \in [Threads -> 0..FlushCount]
      /\ \A t \in Threads : Range(ctl'[t]) \subseteq {"DONE", "EXIT"}
  BY <1>1 DEF FlowInv, TypeOK
<1>3. /\ {work', stopped', flushing', note', killed'} \subseteq [Threads -> BOOLEAN]
      /\ {begun', stopping', interrupted'} \subseteq BOOLEAN
  BY <1>1 DEF FlowInv, TypeOK
<1>4. /\ mon' \in {"run", "flush", "stopped"} /\ flushed' \subseteq Schedulers
      /\ mq' \subseteq ({<<"START">>, <<"DONE">>, <<"KILL">>} \cup {<<"FLUSHED", s>> : s \in Schedulers})
  BY <1>1 DEF FlowInv, TypeOK
<1>5. TypeOK'
  BY <1>2, <1>3, <1>4 DEF TypeOK
<1> QED
  BY <1>1, <1>5 DEF FlowInv

(* A post_read takes from one buffer what no other task counts on. *)
LEMMA PostReadFlow == ASSUME FlowInv, NEW t \in Threads, PostRead(t) PROVE FlowInv'
<1> DEFINE task == script[t][1]
<1>1. /\ script[t] # <<>> /\ Head(script[t]).op = "read"
      /\ fill' = [fill EXCEPT ![Head(script[t]).edge] = @ - Head(script[t]).n]
      /\ Posted(t)
      /\ UNCHANGED <<made, status, cur, loopVars, flushVars, note, ctl, killed, monVars, appVars>>
  BY DEF PostRead, Posts, queueVars
<1>2. /\ Head(script[t]) = task /\ task \in Tasks(t) /\ 1 \in 1..Len(script[t])
      /\ ScriptInv /\ Feasible(script[t]) /\ PostedOnce(script[t]) /\ Len(script[t]) \in Nat
  BY <1>1, ScriptTail DEF FlowInv, ScriptInv
<1>3. task.op = "read" /\ task.edge \in Edges /\ ThreadOf[task.edge[2]] = t /\ task.n \in Nat
  BY <1>1, <1>2 DEF Tasks
<1>4. task.n <= fill[task.edge]
  BY <1>2, <1>3 DEF Feasible
<1>5. BufItems \in Nat /\ \A e \in Edges : fill[e] \in 0..(BufItems - 1)
  BY GraphAssumption DEF FlowInv, TypeOK
<1>6. fill' = [fill EXCEPT ![task.edge] = fill[task.edge] - task.n]
  BY <1>1, <1>2
<1>7. \A e \in Edges : fill'[e] = IF e = task.edge THEN fill[e] - task.n ELSE fill[e]
  BY <1>3, <1>6 DEF FlowInv, TypeOK
<1>8. fill' \in [Edges -> 0..(BufItems - 1)] /\ fill' \in [Edges -> Nat]
  <2>1. fill[task.edge] - task.n \in 0..(BufItems - 1)
    BY <1>3, <1>4, <1>5
  <2>2. fill' \in [Edges -> 0..(BufItems - 1)]
    BY <1>6, <2>1 DEF FlowInv, TypeOK
  <2> QED
    BY <2>2, <1>5
<1> HIDE DEF task
<1>9. ASSUME NEW u \in Threads, NEW k \in 1..Len(script[u]), u # t \/ k > 1
      PROVE  LET s == script[u][k] IN
             /\ s.op = "read" => s.n <= fill'[s.edge]
             /\ s.op = "write" => \A e \in Out[s.block] : fill'[e] + s.n < BufItems
  <2> DEFINE s == script[u][k]
  <2>1. s \in Tasks(u) /\ Feasible(script[u])
    BY <1>2, ElementOfSeq DEF ScriptInv
  <2>2. ASSUME s.op = "read" PROVE s.n <= fill'[s.edge]
    <3>1. s.edge \in Edges /\ ThreadOf[s.edge[2]] = u /\ s.n <= fill[s.edge]
      BY <2>1, <2>2 DEF Tasks, Feasible
    <3>2. s.edge # task.edge
      <4>1. CASE u # t
        BY <4>1, <1>3, <3>1
      <4>2. CASE u = t /\ k > 1
        BY <4>2, <2>2, <1>2, <1>3 DEF PostedOnce, task
      <4> QED
        BY <4>1, <4>2, <1>9
    <3> HIDE DEF s
    <3> QED
      BY <3>1, <3>2, <1>7
  <2>3. ASSUME s.op = "write", NEW e \in Out[s.block] PROVE fill'[e] + s.n < BufItems
    <3>1. s.block \in Members[u] /\ s.n \in Nat /\ fill[e] + s.n < BufItems
      BY <2>1, <2>3 DEF Tasks, Feasible
    <3>2. e \in Edges
      BY <3>1, <2>3, EdgeEnds, ThreadOfMember
    <3> HIDE DEF s
    <3>3. fill[e] \in Nat /\ fill'[e] \in {fill[e], fill[e] - task.n}
      BY <3>2, <1>5, <1>7
    <3> QED
      BY <3>1, <3>3, <1>3, <1>5
  <2> QED
    BY <2>2, <2>3
<1>10. ScriptInv'
  BY <1>1, <1>2, <1>8, <1>9, RestOfScripts
<1>11. TypeOK' /\ made' \in [Blocks -> Nat] /\ cur' \in [Threads -> Nat]
  <2>1. note' \in [Threads -> BOOLEAN]
    BY <1>1 DEF FlowInv, TypeOK
  <2> QED
    BY <1>1, <1>8, <2>1, PostType
<1> QED
  BY <1>10, <1>11 DEF FlowInv

(* A post_write fills room that no other task counts on. *)
LEMMA PostWriteFlow == ASSUME FlowInv, NEW t \in Threads, PostWrite(t) PROVE FlowInv'
<1> DEFINE task == script[t][1]
<1>1. /\ script[t] # <<>> /\ Head(script[t]).op = "write"
      /\ fill' = [e \in Edges |-> IF e \in Out[Head(script[t]).block]
                                  THEN fill[e] + Head(script[t]).n ELSE fill[e]]
      /\ Posted(t)
      /\ UNCHANGED <<made, status, cur, loopVars, flushVars, note, ctl, killed, monVars, appVars>>
  BY DEF PostWrite, Posts, queueVars
<1>2. /\ Head(script[t]) = task /\ task \in Tasks(t) /\ 1 \in 1..Len(script[t])
      /\ ScriptInv /\ Feasible(script[t]) /\ PostedOnce(script[t]) /\ Len(script[t]) \in Nat
  BY <1>1, ScriptTail DEF FlowInv, ScriptInv
<1>3. task.op = "write" /\ task.block \in Members[t] /\ task.n \in Nat
  BY <1>1, <1>2 DEF Tasks
<1>4. \A e \in Out[task.block] : fill[e] + task.n < BufItems
  BY <1>2, <1>3 DEF Feasible
<1>5. BufItems \in Nat /\ \A e \in Edges : fill[e] \in 0..(BufItems - 1)
  BY GraphAssumption DEF FlowInv, TypeOK
<1>6. fill' = [e \in Edges |-> IF e \in Out[task.block] THEN fill[e] + task.n ELSE fill[e]]
  BY <1>1, <1>2
<1> HIDE DEF task
<1>7. ASSUME NEW e \in Edges
      PROVE  /\ fill'[e] \in 0..(BufItems - 1) /\ fill'[e] >= fill[e]
             /\ e \notin Out[task.block] => fill'[e] = fill[e]
  <2>1. fill'[e] = IF e \in Out[task.block] THEN fill[e] + task.n ELSE fill[e]
    BY <1>6
  <2> QED
    BY <2>1, <1>3, <1>4, <1>5
<1>8. fill' \in [Edges -> 0..(BufItems - 1)] /\ fill' \in [Edges -> Nat]
  BY <1>6, <1>7
<1>9. ASSUME NEW u \in Threads, NEW k \in 1..Len(script[u]), u # t \/ k > 1
      PROVE  LET s == script[u][k] IN
             /\ s.op = "read" => s.n <= fill'[s.edge]
             /\ s.op = "write" => \A e \in Out[s.block] : fill'[e] + s.n < BufItems
  <2> DEFINE s == script[u][k]
  <2>1. s \in Tasks(u) /\ Feasible(script[u])
    BY <1>2, ElementOfSeq DEF ScriptInv
  <2>2. ASSUME s.op = "read" PROVE s.n <= fill'[s.edge]
    <3>1. s.edge \in Edges /\ s.n \in Nat /\ s.n <= fill[s.edge]
      BY <2>1, <2>2 DEF Tasks, Feasible
    <3> HIDE DEF s
    <3>2. fill[s.edge] \in Nat /\ fill'[s.edge] \in Nat /\ fill'[s.edge] >= fill[s.edge]
      BY <3>1, <1>5, <1>7
    <3> QED
      BY <3>1, <3>2
  <2>3. ASSUME s.op = "write", NEW e \in Out[s.block] PROVE fill'[e] + s.n < BufItems
    <3>1. s.block \in Members[u] /\ fill[e] + s.n < BufItems
      BY <2>1, <2>3 DEF Tasks, Feasible
    <3>2. u # t
      <4>1. ASSUME u = t, k > 1 PROVE FALSE
        BY <4>1, <2>3, <1>2, <1>3 DEF PostedOnce, task
      <4> QED
        BY <4>1, <1>9
    <3>3. s.block # task.block /\ s.block \in Blocks /\ task.block \in Blocks
      BY <3>1, <3>2, <1>3, ThreadOfMember
    <3>4. e \in Edges /\ e \notin Out[task.block]
      BY <3>3, <2>3, EdgeEnds
    <3> HIDE DEF s
    <3> QED
      BY <3>1, <3>4, <1>7
  <2> QED
    BY <2>2, <2>3
<1>10. ScriptInv'
  BY <1>1, <1>2, <1>8, <1>9, RestOfScripts
<1>11. TypeOK' /\ made' \in [Blocks -> Nat] /\ cur' \in [Threads -> Nat]
  <2>1. note' \in [Threads -> BOOLEAN]
    BY <1>1 DEF FlowInv, TypeOK
  <2> QED
    BY <1>1, <1>8, <2>1, PostType
<1> QED
  BY <1>10, <1>11 DEF FlowInv

(* A notification moves no items. *)
LEMMA NotifyPortFlow == ASSUME FlowInv, NEW t \in Threads, NotifyPort(t) PROVE FlowInv'
<1>1. /\ script[t] # <<>> /\ Posted(t) /\ fill' = fill
      /\ note' = [note EXCEPT ![Head(script[t]).to] = TRUE]
      /\ UNCHANGED <<made, status, cur, loopVars, flushVars, ctl, killed, monVars, appVars>>
  BY DEF NotifyPort, Posts, dataVars
<1>2. BufItems \in Nat /\ fill \in [Edges -> 0..(BufItems - 1)] /\ fill \in [Edges -> Nat]
  BY GraphAssumption DEF FlowInv, TypeOK
<1>3. ScriptInv'
  <2>1. \A u \in Threads : \A k \in 1..Len(script[u]) :
          LET s == script[u][k] IN
            /\ s.op = "read" => s.n <= fill'[s.edge]
            /\ s.op = "write" => \A e \in Out[s.block] : fill'[e] + s.n < BufItems
    BY <1>1 DEF FlowInv, ScriptInv, Feasible
  <2> QED
    BY <1>1, <1>2, <2>1, RestOfScripts DEF FlowInv
<1>4. note' \in [Threads -> BOOLEAN]
  BY <1>1 DEF FlowInv, TypeOK
<1>5. TypeOK' /\ made' \in [Blocks -> Nat] /\ cur' \in [Threads -> Nat]
  BY <1>1, <1>2, <1>4, PostType
<1> QED
  BY <1>3, <1>5 DEF FlowInv

(* The messages to the monitor, and the smaller of two counts. *)
Messages ==
  {<<"START">>, <<"DONE">>, <<"KILL">>} \cup {<<"FLUSHED", s>> : s \in Schedulers}

(* flush_cnt stops at FlushCount. *)
LEMMA MinOfPair ==
  ASSUME NEW m \in Nat, NEW n \in Nat PROVE Min({m, n}) \in 0..n
<1>1. Min({m, n}) \in {m, n} /\ \A y \in {m, n} : Min({m, n}) <= y
  BY MinOfSet
<1> QED
  BY <1>1

(* Steps that leave the executors alone: what they change for the message
   loops is typed by the shutdown invariant. *)
LEMMA ControlFlow ==
  ASSUME FlowInv, Inv',
         UNCHANGED <<fill, made, cur, script>>,
         work' \in [Threads -> BOOLEAN], note' \in [Threads -> BOOLEAN],
         status' \in [Blocks -> Statuses], flush_cnt' \in [Threads -> 0..FlushCount],
         mon' \in {"run", "flush", "stopped"}, mq' \subseteq Messages,
         {begun', stopping', interrupted'} \subseteq BOOLEAN
  PROVE  FlowInv'
<1>1. ScriptInv'
  BY ScriptFrame DEF FlowInv
<1>2. /\ pc' \in [Threads -> Places] /\ stopped' \in [Threads -> BOOLEAN]
      /\ flushing' \in [Threads -> BOOLEAN] /\ killed' \in [Threads -> BOOLEAN]
      /\ flushed' \subseteq Schedulers
      /\ \A u \in Threads : Range(ctl'[u]) \subseteq {"DONE", "EXIT"}
  BY RangeOfSeq DEF Inv, ControlType
<1>3. TypeOK'
  BY <1>2 DEF FlowInv, TypeOK, Places, Statuses, Messages
<1> QED
  BY <1>1, <1>3 DEF FlowInv

(* The end of an iteration. *)
LEMMA HandleStatusesFlow ==
  ASSUME FlowInv, Inv', NEW t \in Threads, HandleStatuses(t) PROVE FlowInv'
<1> USE DEF dataVars, appVars
<1>1. work' \in [Threads -> BOOLEAN]
  BY DEF HandleStatuses, FlowInv, TypeOK
<1>2. note' \in [Threads -> BOOLEAN]
  <2>1. note \in [Threads -> BOOLEAN] /\ note' = [note EXCEPT ![t] = note[t] \/ AsksForRound(t)]
    BY DEF HandleStatuses, FlowInv, TypeOK
  <2>2. (note[t] \/ AsksForRound(t)) \in BOOLEAN
    BY <2>1 DEF AsksForRound
  <2> QED
    BY <2>1, <2>2
<1>3. status' \in [Blocks -> Statuses]
  BY DEF HandleStatuses, ForgetStatus, FlowInv, TypeOK, Statuses
<1>4. flush_cnt' \in [Threads -> 0..FlushCount]
  <2> DEFINE c == IF ~flushing[t] THEN flush_cnt[t]
                  ELSE IF AllBlocked(t) THEN Min({flush_cnt[t] + 1, FlushCount}) ELSE 0
  <2>1. flush_cnt \in [Threads -> 0..FlushCount] /\ FlushCount \in Nat
    BY ControlAssumption DEF FlowInv, TypeOK
  <2>2. flush_cnt[t] \in 0..FlushCount /\ flush_cnt[t] + 1 \in Nat /\ 0 \in 0..FlushCount
    BY <2>1
  <2>3. c \in 0..FlushCount
    BY <2>1, <2>2, MinOfPair
  <2>4. flush_cnt' = [flush_cnt EXCEPT ![t] = c]
    BY DEF HandleStatuses
  <2> HIDE DEF c
  <2> QED
    BY <2>1, <2>3, <2>4
<1>5. mq' \subseteq Messages
  <2>1. mq \subseteq Messages /\ SchedOf[t] \in Schedulers
    BY DEF FlowInv, TypeOK, Messages, Schedulers
  <2>2. <<"DONE">> \in Messages /\ <<"FLUSHED", SchedOf[t]>> \in Messages
    BY <2>1 DEF Messages
  <2> QED
    BY <2>1, <2>2 DEF HandleStatuses
<1>6. UNCHANGED <<fill, made, cur, script, mon, begun, stopping, interrupted>>
  BY DEF HandleStatuses
<1> QED
  BY <1>1, <1>2, <1>3, <1>4, <1>5, <1>6, ControlFlow DEF FlowInv, TypeOK

(* The monitor and the application. *)
LEMMA MonFlow == ASSUME FlowInv, Inv', MonNext PROVE FlowInv'
<1> USE DEF dataVars, execVars, loopVars, flushVars, queueVars, appVars
<1>1. UNCHANGED <<fill, made, status, cur, script, work, flush_cnt, begun, stopping, interrupted>>
  BY DEF MonNext, MonStart, MonStartThread, MonDone, MonPush, MonFlushed, MonIgnoreDone, MonKill
<1>2. note' \in [Threads -> BOOLEAN]
  <2>1. CASE UNCHANGED note
    BY <2>1 DEF FlowInv, TypeOK
  <2>2. CASE MonStartThread
    BY <2>2 DEF MonStartThread, FlowInv, TypeOK
  <2> QED
    BY <2>1, <2>2 DEF MonNext, MonStart, MonDone, MonPush, MonFlushed, MonIgnoreDone, MonKill
<1>3. mq' \subseteq mq
  BY DEF MonNext, MonStart, MonStartThread, MonDone, MonPush, MonFlushed, MonIgnoreDone, MonKill
<1>4. mon' \in {mon, "flush", "stopped"}
  BY DEF MonNext, MonStart, MonStartThread, MonDone, MonPush, MonFlushed, MonIgnoreDone, MonKill
<1>5. mon' \in {"run", "flush", "stopped"} /\ mq' \subseteq Messages
  BY <1>3, <1>4 DEF FlowInv, TypeOK, Messages
<1> QED
  BY <1>1, <1>2, <1>5, ControlFlow DEF FlowInv, TypeOK, Statuses

(* ... and what the application pushes and marks. *)
LEMMA AppFlow == ASSUME FlowInv, Inv', AppNext \/ AppInterrupt PROVE FlowInv'
<1> USE DEF dataVars, execVars, loopVars, flushVars, queueVars, monVars
<1>1. UNCHANGED <<fill, made, status, cur, script, work, flush_cnt, note, mon>>
  BY DEF AppNext, AppStart, AppMark, AppExit, AppJoin, AppKillMonitor, AppInterrupt
<1>2. mq' \subseteq mq \cup {<<"START">>, <<"KILL">>}
  BY DEF AppNext, AppStart, AppMark, AppExit, AppJoin, AppKillMonitor, AppInterrupt
<1>3. mq' \subseteq Messages
  BY <1>2 DEF FlowInv, TypeOK, Messages
<1>4. /\ begun' \in {begun, TRUE} /\ stopping' \in {stopping, TRUE}
      /\ interrupted' \in {interrupted, TRUE}
  BY DEF AppNext, AppStart, AppMark, AppExit, AppJoin, AppKillMonitor, AppInterrupt
<1>5. {begun', stopping', interrupted'} \subseteq BOOLEAN
  BY <1>4 DEF FlowInv, TypeOK
<1> QED
  BY <1>1, <1>3, <1>5, ControlFlow DEF FlowInv, TypeOK, Statuses

-----------------------------------------------------------------------------
(* Every buffer is empty, and nothing is to be posted. *)
LEMMA InitFlow == Init => FlowInv
<1> SUFFICES ASSUME Init PROVE FlowInv
  OBVIOUS
<1>1. BufItems - 1 \in Nat /\ FlushCount \in Nat /\ \A b \in Blocks : Limit[b] \in Nat
  BY GraphAssumption, ControlAssumption
<1>2. \A u \in Threads : 1 \in 1..(Len(Group[u]) + 1) /\ Range(<<>>) \subseteq {"DONE", "EXIT"}
  BY GroupLength DEF Range
<1>3. TypeOK
  <2>1. fill \in [Edges -> 0..(BufItems - 1)] /\ flush_cnt \in [Threads -> 0..FlushCount]
    BY <1>1 DEF Init
  <2>2. \A b \in Blocks : made[b] \in 0..Limit[b]
    BY <1>1 DEF Init
  <2>3. \A u \in Threads : cur[u] \in 1..(Len(Group[u]) + 1) /\ Range(ctl[u]) \subseteq {"DONE", "EXIT"}
    BY <1>2 DEF Init
  <2> QED
    BY <2>1, <2>2, <2>3 DEF Init, TypeOK
<1>4. ScriptInv
  BY DEF Init, ScriptInv, Feasible, PostedOnce
<1> QED
  BY <1>3, <1>4 DEF FlowInv, Init

(* Every step keeps the items within the buffers. *)
LEMMA StepFlow == ASSUME Inv, FlowInv, Inv', [Next]_vars PROVE FlowInv'
<1>1. CASE AppNext \/ AppInterrupt
  BY <1>1, AppFlow
<1>2. CASE MonNext
  BY <1>2, MonFlow
<1>3. CASE \E t \in Threads : ThreadNext(t)
  <2> PICK t \in Threads : ThreadNext(t)
    BY <1>3
  <2>1. CASE PopNotify(t) \/ PopDone(t) \/ PopExit(t)
             \/ BeginIteration(t) \/ PollEmpty(t) \/ ExitThread(t)
    BY <2>1, LoopFlow
  <2>2. CASE BlockedOnInput(t) \/ BlockedOnOutput(t)
    BY <2>2, BlockedFlow
  <2>3. CASE \E n \in 0..BufItems : DoWork(t, n)
    BY <2>3, DoWorkFlow
  <2>4. CASE PostRead(t) \/ PostWrite(t) \/ NotifyPort(t)
    BY <2>4, PostReadFlow, PostWriteFlow, NotifyPortFlow
  <2>5. CASE HandleStatuses(t)
    BY <2>5, HandleStatusesFlow
  <2> QED
    BY <2>1, <2>2, <2>3, <2>4, <2>5 DEF ThreadNext
<1>4. CASE UNCHANGED vars
  <2>1. UNCHANGED <<fill, made, status, cur, script, pc, work, stopped, flushing, flush_cnt,
                    note, ctl, killed, mon, mq, flushed, begun, stopping, interrupted>>
    BY <1>4 DEF vars, dataVars, execVars, loopVars, flushVars, queueVars, monVars, appVars
  <2> QED
    BY <2>1, ControlFlow DEF FlowInv, TypeOK, Statuses, Messages
<1> QED
  BY <1>1, <1>2, <1>3, <1>4 DEF Next

(* In every flowgraph and grouping, the variables keep their types, and a
   buffer never holds more than all its items but one: between the moment
   run_one_iteration reads the space of an output port and the moment it
   posts what the block made, no step of another thread takes that room, and
   no reader is posted more items than its buffer holds. *)
THEOREM TypeCorrect == Spec => []TypeOK
<1>1. Init => FlowInv
  BY InitFlow
<1>2. Inv /\ FlowInv /\ Inv' /\ [Next]_vars => FlowInv'
  BY StepFlow
<1>3. FlowInv => TypeOK
  BY DEF FlowInv
<1> QED
  BY <1>1, <1>2, <1>3, ShutdownInvariant, PTL DEF Spec

-----------------------------------------------------------------------------
(***************************************************************************)
(* No wakeup is lost: a flowgraph without a feedback loop and without a    *)
(* min_buffer_read above 1 never falls asleep before a block is done.      *)
(* Every thread would have to sleep on an empty queue; the theorem shows   *)
(* that some notification is always on its way, for every number of        *)
(* blocks, block grouping and buffer size.                                 *)
(*                                                                         *)
(* Two things are shown.  Whenever a block will not be called although it  *)
(* has not found a port blocked, it has just done something for each of    *)
(* its neighbours and these will be called, or are blocked (Settled).  And *)
(* blocks cannot all be blocked on each other (Conserved): a block waits   *)
(* for one that has processed fewer items, or as many and stands before it *)
(* in the flowgraph.                                                       *)
(*                                                                         *)
(* With a min_buffer_read of 2, a source that makes one item at a time can *)
(* leave every thread asleep, and in a loop every thread is from the start.*)
(***************************************************************************)

(* A flowgraph without a loop, whose groups list a block once. *)
Acyclic == \E depth \in [Blocks -> Nat] : \A e \in Edges : depth[e[1]] < depth[e[2]]
Feedforward ==
  /\ BlockSeq # <<>>
  /\ \A e \in Edges : MinRead[e] <= 1
  /\ \A t \in Threads : IsInjective(Group[t])
  /\ Acyclic

(* A notification of a thread is still to be pushed ... *)
Notifying(s, t) == \E i \in DOMAIN s : s[i].op = "notify" /\ s[i].to = t
ReadingFrom(s, e) == \E i \in DOMAIN s : s[i].op = "read" /\ s[i].edge = e
WritingTo(s, b) == \E i \in DOMAIN s : s[i].op = "write" /\ s[i].block = b

(* ... or is not yet carried out. *)
Visiting(t, b) == pc[t] = "iterate" /\ \E i \in DOMAIN Group[t] : i >= cur[t] /\ Group[t][i] = b
Covered(b) ==
  LET t == ThreadOf[b] IN
  \/ pc[t] \in {"start", "exited"}
  \/ note[t]
  \/ pc[t] = "poll" /\ work[t]
  \/ Visiting(t, b)
  \/ \E u \in Threads : Notifying(script[u], t)

Stuck(b) == \/ \E e \in In[b] : fill[e] = 0
            \/ \E e \in Out[b] : fill[e] = BufItems - 1

Handled(b) == Covered(b) \/ Stuck(b)

(* A block that could work and will not be called: it has done something for
   each of its neighbours, and these are called or stuck. *)
Resting(b) ==
  /\ \A e \in Out[b] : /\ fill[e] > 0 \/ \E u \in Threads : WritingTo(script[u], b)
                       /\ Handled(e[2])
  /\ \A e \in In[b] : /\ fill[e] < BufItems - 1 \/ \E u \in Threads : ReadingFrom(script[u], e)
                      /\ Handled(e[1])

Over == mon # "run" \/ <<"DONE">> \in mq \/ \E b \in Blocks : status[b] = "DONE"

Settled == Over \/ \A b \in Blocks : Handled(b) \/ Resting(b)

(* Every post has its notification behind it, and moves items. *)
NotifiesAfter(s) ==
  \A i \in DOMAIN s :
    /\ s[i].op = "read" =>
         \E j \in DOMAIN s : j > i /\ s[j] = Notify(s[i].edge[1])
    /\ s[i].op = "write" => \A e \in Out[s[i].block] :
         \E j \in DOMAIN s : j > i /\ s[j] = Notify(e[2])
MovesItems(s) ==
  Over \/ \A i \in DOMAIN s : s[i].op \in {"read", "write"} => s[i].n > 0
PostInv ==
  \A t \in Threads :
    /\ script[t] # <<>> => pc[t] = "iterate"
    /\ NotifiesAfter(script[t]) /\ MovesItems(script[t])

(* The status DONE is that of the iteration under way, unless the monitor has
   been told. *)
DoneInv ==
  (mon = "run" /\ <<"DONE">> \notin mq) =>
    \A b \in Blocks : status[b] = "DONE" =>
      pc[ThreadOf[b]] = "iterate" /\ \E i \in DOMAIN Group[ThreadOf[b]] : i < cur[ThreadOf[b]] /\ Group[ThreadOf[b]][i] = b

(* Threads are started once, from "start". *)
StartInv ==
  /\ ~ begun => <<"START">> \notin mq
  /\ (~ begun \/ <<"START">> \in mq) =>
       /\ \A t \in Threads : pc[t] = "start"
       /\ \A i \in DOMAIN mscript : mscript[i][1] # "start"
  /\ \A i \in DOMAIN mscript : mscript[i][1] = "start" =>
       /\ pc[mscript[i][2]] = "start"
       /\ \A j \in DOMAIN mscript : mscript[j] = mscript[i] => j = i

(* Every block has read and written as many items as it has processed, but
   for what its thread has still to post. *)
Counts(processed, written, got) ==
  /\ \A e \in Edges : fill[e] = written[e[1]] - got[e]
  /\ \A b \in Blocks : Out[b] # {} /\ (\A u \in Threads : ~ WritingTo(script[u], b))
                      => written[b] = processed[b]
  /\ \A e \in Edges : (\A u \in Threads : ~ ReadingFrom(script[u], e)) => got[e] = processed[e[2]]
  /\ \A u \in Threads : \A i \in DOMAIN script[u] :
       LET s == script[u][i] IN
       /\ s.op = "write" => written[s.block] + s.n = processed[s.block]
       /\ s.op = "read" => got[s.edge] + s.n = processed[s.edge[2]]
Conserved ==
  \E processed \in [Blocks -> Nat], written \in [Blocks -> Nat], got \in [Edges -> Nat] :
    Counts(processed, written, got)

AwakeInv == PostInv /\ DoneInv /\ StartInv /\ Settled /\ Conserved
StaysAwake == mon = "run" => ~ AllAsleep

-----------------------------------------------------------------------------
(* InSeq and OutSeq list every port of a block. *)
LEMMA PortsListed ==
  ASSUME NEW b \in Blocks
  PROVE  /\ \A e \in In[b] : \E i \in 1..Len(InSeq[b]) : InSeq[b][i] = e
         /\ \A e \in Out[b] : \E i \in 1..Len(OutSeq[b]) : OutSeq[b][i] = e
<1>1. ASSUME NEW S, IsFiniteSet(S)
      PROVE  \A e \in S : \E i \in 1..Len(SetToSeq(S)) : SetToSeq(S)[i] = e
  <2> DEFINE c == Cardinality(S)
             f == SetToSeq(S)
  <2>1. c \in Nat /\ ExistsBijection(1..c, S)
    BY <1>1, FS_CardinalityType
  <2>2. \E g \in [1..c -> S] : IsInjective(g)
    BY <2>1 DEF ExistsBijection, Bijection, Injection
  <2>3. f \in [1..c -> S] /\ IsInjective(f) /\ f \in Injection(1..c, S)
    BY <2>2 DEF SetToSeq, Injection
  <2>4. Len(f) = c
    BY <2>1, <2>3
  <2>5. Cardinality(1..c) = c
    BY <2>1, FS_Interval
  <2> HIDE DEF f
  <2>6. f \in Surjection(1..c, S)
    BY <1>1, <2>3, <2>5, FS_Injection
  <2> QED
    BY <2>4, <2>6 DEF Surjection, f
<1>2. IsFiniteSet(In[b]) /\ IsFiniteSet(Out[b])
  <2>1. In[b] \in SUBSET Edges /\ Out[b] \in SUBSET Edges
    BY DEF In, Out
  <2> QED
    BY <2>1, BlocksFinite, FS_Subset
<1>3. InSeq[b] = SetToSeq(In[b]) /\ OutSeq[b] = SetToSeq(Out[b])
  BY DEF InSeq, OutSeq
<1> QED
  BY <1>1, <1>2, <1>3

(* The posts of a work call, one after the other. *)
LEMMA PostingElements ==
  ASSUME NEW b \in Blocks, NEW n \in Nat
  PROVE  LET s == Posting(b, n)
             l == 2 * Len(InSeq[b])
             m == Len(OutSeq[b])
         IN  /\ l \in Nat /\ m \in Nat
             /\ Len(s) = IF Out[b] = {} THEN l ELSE l + 1 + m
             /\ DOMAIN s = 1..Len(s)
             /\ \A i \in 1..l : s[i] = LET e == InSeq[b][(i + 1) \div 2]
                                       IN  IF i % 2 = 1 THEN Read(e, n) ELSE Notify(e[1])
             /\ Out[b] # {} =>
                  /\ s[l + 1] = Write(b, n)
                  /\ \A k \in 1..m : s[l + 1 + k] = Notify(OutSeq[b][k][2])
<1> DEFINE l == 2 * Len(InSeq[b])
           m == Len(OutSeq[b])
           reads == Reading(b, n)
           outs == [i \in DOMAIN OutSeq[b] |-> Notify(OutSeq[b][i][2])]
           s == Posting(b, n)
           D == {reads[i] : i \in 1..l} \cup {Write(b, n)} \cup {outs[i] : i \in 1..m}
<1>1. l \in Nat /\ m \in Nat /\ DOMAIN OutSeq[b] = 1..m
  BY PortSeqs
<1>2. /\ reads = [i \in 1..l |-> reads[i]] /\ outs = [i \in 1..m |-> outs[i]]
      /\ \A i \in 1..l : reads[i] \in D
      /\ \A i \in 1..m : outs[i] \in D
      /\ Write(b, n) \in D
  BY <1>1 DEF Reading
<1>3. /\ \A i \in 1..l : reads[i] = LET e == InSeq[b][(i + 1) \div 2]
                                    IN  IF i % 2 = 1 THEN Read(e, n) ELSE Notify(e[1])
      /\ \A i \in 1..m : outs[i] = Notify(OutSeq[b][i][2])
  BY <1>1 DEF Reading
<1>4. s = reads \o (IF Out[b] = {} THEN <<>> ELSE <<Write(b, n)>> \o outs)
  BY DEF Posting
<1> HIDE DEF l, m, reads, outs, s, D
<1>5. reads \in Seq(D) /\ Len(reads) = l /\ outs \in Seq(D) /\ Len(outs) = m
  <2>1. [i \in 1..l |-> reads[i]] \in Seq(D) /\ Len([i \in 1..l |-> reads[i]]) = l
    BY <1>1, <1>2
  <2>2. [i \in 1..m |-> outs[i]] \in Seq(D) /\ Len([i \in 1..m |-> outs[i]]) = m
    BY <1>1, <1>2
  <2> QED
    BY <1>2, <2>1, <2>2
<1>6. CASE Out[b] = {}
  <2>1. s = reads
    BY <1>4, <1>5, <1>6, ConcatEmptySeq
  <2>2. DOMAIN s = 1..Len(s)
    BY <2>1, <1>5
  <2> QED
    BY <1>1, <1>3, <1>5, <1>6, <2>1, <2>2 DEF l, m, s
<1>7. CASE Out[b] # {}
  <2> DEFINE w == <<Write(b, n)>>
             ws == w \o outs
  <2>1. w \in Seq(D) /\ Len(w) = 1 /\ w[1] = Write(b, n)
    BY <1>2
  <2> HIDE DEF w
  <2>3. s = reads \o ws /\ ws = w \o outs
    BY <1>4, <1>7 DEF w
  <2> HIDE DEF ws
  <2>2. /\ ws \in Seq(D) /\ Len(ws) = 1 + m
        /\ \A i \in 1..Len(ws) : ws[i] = IF i <= 1 THEN w[i] ELSE outs[i - 1]
    <3>1. w \o outs \in Seq(D) /\ Len(w \o outs) = Len(w) + Len(outs)
      BY <1>5, <2>1, ConcatProperties
    <3>2. \A i \in 1..(Len(w) + Len(outs)) :
            (w \o outs)[i] = IF i <= Len(w) THEN w[i] ELSE outs[i - Len(w)]
      BY <1>5, <2>1, ConcatProperties
    <3> QED
      BY <1>5, <2>1, <2>3, <3>1, <3>2
  <2>4. /\ s \in Seq(D) /\ Len(s) = l + (1 + m)
        /\ \A i \in 1..Len(s) : s[i] = IF i <= l THEN reads[i] ELSE ws[i - l]
    <3>1. reads \o ws \in Seq(D) /\ Len(reads \o ws) = Len(reads) + Len(ws)
      BY <1>5, <2>2, ConcatProperties
    <3>2. \A i \in 1..(Len(reads) + Len(ws)) :
            (reads \o ws)[i] = IF i <= Len(reads) THEN reads[i] ELSE ws[i - Len(reads)]
      BY <1>5, <2>2, ConcatProperties
    <3> QED
      BY <1>5, <2>2, <2>3, <3>1, <3>2
  <2>5. \A i \in 1..l : s[i] = reads[i]
    BY <1>1, <2>4
  <2>6. s[l + 1] = Write(b, n)
    <3>1. l + 1 \in 1..Len(s) /\ ~ (l + 1 <= l) /\ (l + 1) - l = 1 /\ 1 \in 1..Len(ws)
      BY <1>1, <2>2, <2>4
    <3>2. s[l + 1] = ws[1]
      BY <2>4, <3>1
    <3> QED
      BY <3>1, <3>2, <2>1, <2>2
  <2>7. ASSUME NEW k \in 1..m PROVE s[l + 1 + k] = outs[k]
    <3>1. /\ l + 1 + k \in 1..Len(s) /\ ~ (l + 1 + k <= l) /\ (l + 1 + k) - l = 1 + k
          /\ 1 + k \in 1..Len(ws) /\ ~ (1 + k <= 1) /\ (1 + k) - 1 = k
      BY <1>1, <2>2, <2>4
    <3>2. s[l + 1 + k] = ws[1 + k]
      BY <2>4, <3>1
    <3>3. ws[1 + k] = outs[k]
      BY <2>2, <3>1
    <3> QED
      BY <3>2, <3>3
  <2>8. DOMAIN s = 1..Len(s) /\ Len(s) = l + 1 + m
    BY <1>1, <2>4
  <2>9. \A k \in 1..m : s[l + 1 + k] = Notify(OutSeq[b][k][2])
    BY <1>3, <2>7
  <2>10. \A i \in 1..l : s[i] = LET e == InSeq[b][(i + 1) \div 2]
                                IN  IF i % 2 = 1 THEN Read(e, n) ELSE Notify(e[1])
    BY <1>3, <2>5
  <2> QED
    BY <1>1, <1>7, <2>6, <2>8, <2>9, <2>10 DEF l, m, s
<1> QED
  BY <1>6, <1>7

(* Every post of a work call has its notification behind it; each input port
   is read and its writer notified, the output port is written and its
   readers are notified. *)
LEMMA PostingShape ==
  ASSUME NEW b \in Blocks, NEW n \in Nat
  PROVE  LET s == Posting(b, n)
         IN  /\ NotifiesAfter(s)
             /\ \A i \in DOMAIN s : /\ s[i].op \in {"read", "write"} => s[i].n = n
                                    /\ s[i].op = "read" => s[i].edge \in In[b]
                                    /\ s[i].op = "write" => s[i].block = b /\ Out[b] # {}
             /\ \A e \in In[b] : ReadingFrom(s, e) /\ Notifying(s, ThreadOf[e[1]])
             /\ \A e \in Out[b] : WritingTo(s, b) /\ Notifying(s, ThreadOf[e[2]])
<1> DEFINE s == Posting(b, n)
           k == Len(InSeq[b])
           l == 2 * k
           m == Len(OutSeq[b])
           In1(i) == InSeq[b][(i + 1) \div 2]
<1>1. /\ l \in Nat /\ m \in Nat
      /\ DOMAIN s = 1..Len(s) /\ Len(s) = IF Out[b] = {} THEN l ELSE l + 1 + m
      /\ \A i \in 1..l : s[i] = IF i % 2 = 1 THEN Read(In1(i), n) ELSE Notify(In1(i)[1])
      /\ Out[b] # {} => s[l + 1] = Write(b, n) /\ \A j \in 1..m : s[l + 1 + j] = Notify(OutSeq[b][j][2])
  BY PostingElements
<1>2. /\ \A e : Read(e, n).op = "read" /\ Read(e, n).edge = e /\ Read(e, n).n = n
      /\ Write(b, n).op = "write" /\ Write(b, n).block = b /\ Write(b, n).n = n
      /\ \A c : Notify(c).op = "notify" /\ Notify(c).to = ThreadOf[c]
  BY DEF Read, Write, Notify
<1>3. k \in Nat
  BY PortSeqs
<1> HIDE DEF s, k, m
<1>13. /\ l \in Nat /\ m \in Nat /\ DOMAIN s = 1..Len(s) /\ Len(s) \in Nat /\ Len(s) >= l
       /\ Out[b] = {} => Len(s) = l
       /\ Out[b] # {} => Len(s) = l + 1 + m
  <2>1. l \in Nat /\ m \in Nat /\ DOMAIN s = 1..Len(s) /\ Len(s) = IF Out[b] = {} THEN l ELSE l + 1 + m
    BY <1>1
  <2> HIDE DEF l
  <2> QED
    BY <2>1
<1>4. ASSUME NEW i \in DOMAIN s
      PROVE  \/ i \in 1..l
             \/ i = l + 1 /\ Out[b] # {}
             \/ Out[b] # {} /\ \E j \in 1..m : i = l + 1 + j
  <2> HIDE DEF l
  <2>1. l \in Nat /\ m \in Nat /\ i \in 1..Len(s) /\ Len(s) \in Nat
    BY <1>13
  <2>2. CASE Out[b] = {}
    <3>1. Len(s) = l
      BY <1>13, <2>2
    <3> QED
      BY <2>1, <3>1
  <2>3. CASE Out[b] # {}
    <3>1. Len(s) = l + 1 + m
      BY <1>13, <2>3
    <3> DEFINE j == i - (l + 1)
    <3>2. i \in 1..l \/ i = l + 1 \/ (j \in 1..m /\ i = l + 1 + j)
      BY ONLY <2>1, <3>1
    <3> HIDE DEF j
    <3> QED
      BY <2>3, <3>2
  <2> QED
    BY <2>2, <2>3
<1>5. ASSUME NEW i \in 1..l, i % 2 = 1
      PROVE  /\ i + 1 \in 1..l /\ i + 1 \in DOMAIN s /\ i \in DOMAIN s
             /\ s[i] = Read(In1(i), n) /\ s[i + 1] = Notify(In1(i)[1])
  <2>1. i + 1 \in 1..l /\ (i + 1) % 2 # 1 /\ ((i + 1) + 1) \div 2 = (i + 1) \div 2
    BY <1>3, <1>5
  <2>2. i + 1 \in DOMAIN s /\ i \in DOMAIN s
    <3>1. \A j \in 1..l : j \in DOMAIN s
      <4> HIDE DEF l
      <4>1. l \in Nat /\ DOMAIN s = 1..Len(s) /\ Len(s) \in Nat /\ Len(s) >= l
        BY <1>13
      <4>2. \A j \in 1..l : j \in 1..Len(s)
        BY ONLY <4>1
      <4> QED
        BY <4>1, <4>2
    <3> QED
      BY <2>1, <3>1
  <2>3. In1(i + 1) = In1(i)
    BY <2>1
  <2> HIDE DEF l, In1
  <2> QED
    BY <1>1, <1>5, <2>1, <2>2, <2>3
<1>6. ASSUME NEW i \in DOMAIN s, s[i].op = "read"
      PROVE  i \in 1..l /\ i % 2 = 1
  <2> HIDE DEF l, In1
  <2>1. \A j \in 1..m : Out[b] # {} => s[l + 1 + j].op # "read"
    BY <1>1, <1>2
  <2>2. Out[b] # {} => s[l + 1].op # "read"
    BY <1>1, <1>2
  <2>3. i \in 1..l
    BY <1>4, <1>6, <2>1, <2>2
  <2> QED
    BY <1>1, <1>2, <1>6, <2>3
<1>7. ASSUME NEW i \in DOMAIN s, s[i].op = "write"
      PROVE  i = l + 1 /\ Out[b] # {}
  <2> HIDE DEF l, In1
  <2>1. \A j \in 1..m : Out[b] # {} => s[l + 1 + j].op # "write"
    BY <1>1, <1>2
  <2>2. i \in 1..l => s[i].op # "write"
    BY <1>1, <1>2
  <2> QED
    BY <1>4, <1>7, <2>1, <2>2
<1>8. ASSUME NEW e \in Out[b]
      PROVE  \E j \in DOMAIN s : j > l + 1 /\ s[j] = Notify(e[2])
  <2>1. PICK j \in 1..m : OutSeq[b][j] = e
    BY PortsListed DEF m
  <2>2. l + 1 + j \in DOMAIN s /\ l + 1 + j > l + 1 /\ s[l + 1 + j] = Notify(e[2])
    BY <1>1, <1>3, <2>1
  <2> QED
    BY <2>2
<1>9. ASSUME NEW e \in In[b]
      PROVE  ReadingFrom(s, e) /\ Notifying(s, ThreadOf[e[1]])
  <2>1. PICK j \in 1..k : InSeq[b][j] = e
    BY PortsListed DEF k
  <2>2. 2 * j - 1 \in 1..l /\ (2 * j - 1) % 2 = 1 /\ ((2 * j - 1) + 1) \div 2 = j
    BY <1>3
  <2>3. In1(2 * j - 1) = e
    BY <2>1, <2>2
  <2>4. /\ 2 * j - 1 \in DOMAIN s /\ s[2 * j - 1] = Read(e, n)
        /\ (2 * j - 1) + 1 \in DOMAIN s /\ s[(2 * j - 1) + 1] = Notify(e[1])
    BY <1>5, <2>2, <2>3
  <2> QED
    BY <1>2, <2>4 DEF ReadingFrom, Notifying
<1>10. NotifiesAfter(s)
  <2>1. ASSUME NEW i \in DOMAIN s, s[i].op = "read"
        PROVE  \E j \in DOMAIN s : j > i /\ s[j] = Notify(s[i].edge[1])
    <3>1. i \in 1..l /\ i % 2 = 1
      BY <1>6, <2>1
    <3>2. i + 1 \in DOMAIN s /\ s[i] = Read(In1(i), n) /\ s[i + 1] = Notify(In1(i)[1])
      BY <1>5, <3>1
    <3>3. s[i].edge = In1(i)
      BY <3>2, <1>2
    <3>4. i + 1 > i
      BY <3>1, <1>3
    <3> HIDE DEF In1
    <3> QED
      BY <3>2, <3>3, <3>4
  <2>2. ASSUME NEW i \in DOMAIN s, s[i].op = "write", NEW e \in Out[s[i].block]
        PROVE  \E j \in DOMAIN s : j > i /\ s[j] = Notify(e[2])
    <3>1. i = l + 1 /\ s[i] = Write(b, n)
      BY <1>1, <1>7, <2>2
    <3>2. s[i].block = b
      BY <3>1, <1>2
    <3> QED
      BY <3>1, <3>2, <2>2, <1>8
  <2> QED
    BY <2>1, <2>2 DEF NotifiesAfter
<1>11. ASSUME NEW i \in DOMAIN s, s[i].op \in {"read", "write"}
       PROVE  /\ s[i].n = n
              /\ s[i].op = "read" => s[i].edge \in In[b]
              /\ s[i].op = "write" => s[i].block = b /\ Out[b] # {}
  <2>1. CASE s[i].op = "read"
    <3>1. i \in 1..l /\ i % 2 = 1
      BY <1>6, <2>1
    <3>2. s[i] = Read(In1(i), n)
      BY <1>5, <3>1
    <3>3. (i + 1) \div 2 \in 1..k
      BY <1>3, <3>1
    <3>4. In1(i) \in In[b]
      BY <3>3, PortSeqs DEF k
    <3> HIDE DEF In1
    <3> QED
      BY <2>1, <3>2, <3>4, <1>2
  <2>2. CASE s[i].op = "write"
    <3>1. s[i] = Write(b, n) /\ Out[b] # {}
      BY <1>1, <1>7, <2>2
    <3> QED
      BY <2>2, <3>1, <1>2
  <2> QED
    BY <1>11, <2>1, <2>2
<1>12. ASSUME NEW e \in Out[b] PROVE WritingTo(s, b) /\ Notifying(s, ThreadOf[e[2]])
  <2>1. l + 1 \in DOMAIN s /\ s[l + 1] = Write(b, n)
    BY <1>1, <1>3, <1>12
  <2> QED
    BY <1>2, <1>8, <1>12, <2>1 DEF WritingTo, Notifying
<1> QED
  BY <1>9, <1>10, <1>11, <1>12 DEF s

(* A block is stuck exactly when run_one_iteration finds it blocked. *)
LEMMA StuckIsBlocked ==
  ASSUME TypeOK, \A e \in Edges : MinRead[e] <= 1, NEW b \in Blocks
  PROVE  Stuck(b) <=> InputBlocked(b) \/ OutputBlocked(b)
<1>1. BufItems \in Nat /\ BufItems >= 2 /\ \A e \in Edges : fill[e] \in 0..(BufItems - 1)
  BY GraphAssumption DEF TypeOK
<1>2. ASSUME NEW e \in In[b] PROVE Max({1, MinRead[e]}) = 1 /\ fill[e] \in Nat
  <2>1. e \in Edges /\ MinRead[e] \in Nat /\ MinRead[e] <= 1
    BY EdgeEnds, GraphAssumption
  <2>2. Max({1, MinRead[e]}) \in {1, MinRead[e]} /\ Max({1, MinRead[e]}) >= 1
    BY <2>1, MaxOfPair
  <2> QED
    BY <1>1, <2>1, <2>2
<1>3. InputBlocked(b) <=> \E e \in In[b] : fill[e] = 0
  <2>1. \A e \in In[b] : fill[e] < Max({1, MinRead[e]}) <=> fill[e] = 0
    BY <1>2
  <2> QED
    BY <2>1 DEF InputBlocked
<1>4. OutputBlocked(b) <=> \E e \in Out[b] : fill[e] = BufItems - 1
  <2>1. ASSUME OutputBlocked(b) PROVE \E e \in Out[b] : fill[e] = BufItems - 1
    BY <2>1, SpaceFacts DEF OutputBlocked
  <2>2. ASSUME NEW e \in Out[b], fill[e] = BufItems - 1 PROVE OutputBlocked(b)
    <3>1. Space(b) \in Nat /\ fill[e] + Space(b) < BufItems
      BY SpaceFacts
    <3>2. Space(b) < 1
      BY <1>1, <2>2, <3>1
    <3> QED
      BY <3>2 DEF OutputBlocked
  <2> QED
    BY <2>1, <2>2
<1> QED
  BY <1>3, <1>4 DEF Stuck

-----------------------------------------------------------------------------
(* Asleep, no thread is going to call a block. *)
LEMMA AsleepNotCovered ==
  ASSUME PostInv, AllAsleep
  PROVE  /\ \A b \in Blocks : ~ Covered(b)
         /\ \A u \in Threads : script[u] = <<>>
<1>1. \A u \in Threads : pc[u] = "wait" /\ ~ note[u]
  BY DEF AllAsleep, Asleep, QueueEmpty
<1>2. \A u \in Threads : script[u] = <<>>
  BY <1>1 DEF PostInv
<1>3. ASSUME NEW b \in Blocks PROVE ~ Covered(b)
  <2>1. ThreadOf[b] \in Threads
    BY ThreadOfMember
  <2>2. \A u \in Threads : ~ Notifying(script[u], ThreadOf[b])
    BY <1>2 DEF Notifying
  <2> QED
    BY <1>1, <2>1, <2>2 DEF Covered, Visiting
<1> QED
  BY <1>2, <1>3

(* The blocks cannot all wait for each other.  Of those that wait, take one that
   has processed the fewest items, and of these one that stands first in the
   flowgraph: if it waits for a reader, that has processed fewer; if it waits
   for a writer, that has processed as many and stands before it. *)
LEMMA NeverWaitInACircle ==
  ASSUME Feedforward, TypeOK, Conserved,
         \A b \in Blocks : ~ Covered(b),
         \A u \in Threads : script[u] = <<>>,
         \A b \in Blocks : Handled(b) \/ Resting(b)
  PROVE  FALSE
<1>1. BufItems \in Nat /\ BufItems >= 2 /\ \A e \in Edges : fill[e] \in 0..(BufItems - 1)
  BY GraphAssumption DEF TypeOK
<1>2. /\ \A u \in Threads : \A b : ~ WritingTo(script[u], b)
      /\ \A u \in Threads : \A e : ~ ReadingFrom(script[u], e)
  BY DEF WritingTo, ReadingFrom
<1>3. PICK depth \in [Blocks -> Nat] : \A e \in Edges : depth[e[1]] < depth[e[2]]
  BY DEF Feedforward, Acyclic
<1>4. PICK done \in [Blocks -> Nat] : \A e \in Edges : fill[e] = done[e[1]] - done[e[2]]
  <2>1. PICK processed \in [Blocks -> Nat], written \in [Blocks -> Nat], got \in [Edges -> Nat] :
          Counts(processed, written, got)
    BY DEF Conserved
  <2>2. ASSUME NEW e \in Edges PROVE fill[e] = processed[e[1]] - processed[e[2]]
    <3>1. e[1] \in Blocks /\ e \in Out[e[1]]
      BY GraphAssumption DEF Out
    <3> QED
      BY <1>2, <2>1, <3>1 DEF Counts
  <2> QED
    BY <2>2
<1>5. \A e \in Edges : e[1] \in Blocks /\ e[2] \in Blocks
  BY GraphAssumption
<1>6. \A b \in Blocks : Handled(b) <=> Stuck(b)
  BY DEF Handled
<1> DEFINE Waiting == {b \in Blocks : Stuck(b)}
<1>7. ASSUME NEW b \in Waiting
      PROVE  \E c \in Waiting : done[c] < done[b] \/ (done[c] = done[b] /\ depth[c] < depth[b])
  <2>1. CASE \E e \in In[b] : fill[e] = 0
    <3>1. PICK e \in In[b] : fill[e] = 0
      BY <2>1
    <3>2. e \in Edges /\ e[2] = b /\ e[1] \in Blocks /\ e \in Out[e[1]]
      BY <3>1, EdgeEnds DEF Out
    <3>3. ~ Resting(e[1])
      <4>1. Resting(e[1]) => fill[e] > 0
        BY <1>2, <3>2 DEF Resting
      <4> QED
        BY <3>1, <4>1
    <3>4. Stuck(e[1]) /\ depth[e[1]] < depth[b]
      BY <1>3, <1>6, <3>2, <3>3
    <3>5. done[e[1]] = done[b]
      <4>1. 0 = done[e[1]] - done[b] /\ done[e[1]] \in Nat /\ done[b] \in Nat
        BY <1>4, <3>1, <3>2
      <4> QED
        BY <4>1
    <3> QED
      BY <3>2, <3>4, <3>5
  <2>2. CASE \E e \in Out[b] : fill[e] = BufItems - 1
    <3>1. PICK e \in Out[b] : fill[e] = BufItems - 1
      BY <2>2
    <3>2. e \in Edges /\ e[1] = b /\ e[2] \in Blocks /\ e \in In[e[2]]
      BY <3>1, EdgeEnds DEF In
    <3>3. ~ Resting(e[2])
      <4>1. Resting(e[2]) => fill[e] < BufItems - 1
        BY <1>2, <3>2 DEF Resting
      <4> QED
        BY <1>1, <3>1, <4>1
    <3>4. Stuck(e[2])
      BY <1>6, <3>2, <3>3
    <3>5. done[e[2]] < done[b]
      <4>1. BufItems - 1 = done[b] - done[e[2]] /\ done[e[2]] \in Nat /\ done[b] \in Nat
        BY <1>4, <3>1, <3>2
      <4> QED
        BY <1>1, <4>1
    <3> QED
      BY <3>2, <3>4, <3>5
  <2> QED
    BY <2>1, <2>2 DEF Stuck
<1>8. Waiting = {}
  <2> SUFFICES ASSUME Waiting # {} PROVE FALSE
    OBVIOUS
  <2> DEFINE S == {done[b] : b \in Waiting}
  <2>1. \A b \in Waiting : b \in Blocks /\ done[b] \in Nat /\ depth[b] \in Nat
    BY <1>3, <1>4
  <2>2. S \in SUBSET Nat /\ S # {}
    BY <2>1
  <2> HIDE DEF Waiting
  <2>3. Min(S) \in S /\ \A n \in S : Min(S) <= n
    <3> HIDE DEF S
    <3> QED
      BY <2>2, MinOfSet
  <2>4. PICK m \in Nat : (\E b \in Waiting : done[b] = m) /\ \A b \in Waiting : m <= done[b]
    BY <2>2, <2>3
  <2> DEFINE T == {depth[b] : b \in {c \in Waiting : done[c] = m}}
  <2>5. T \in SUBSET Nat /\ T # {}
    BY <2>1, <2>4
  <2>6. Min(T) \in T /\ \A n \in T : Min(T) <= n
    <3> HIDE DEF T
    <3> QED
      BY <2>5, MinOfSet
  <2>7. PICK b \in Waiting : done[b] = m /\ depth[b] = Min(T)
    BY <2>6
  <2>8. PICK c \in Waiting : done[c] < done[b] \/ (done[c] = done[b] /\ depth[c] < depth[b])
    BY <1>7
  <2>9. done[c] = m /\ depth[c] < depth[b]
    BY <2>1, <2>4, <2>7, <2>8
  <2>10. depth[b] <= depth[c]
    BY <2>6, <2>7, <2>9
  <2> QED
    BY <2>1, <2>9, <2>10
<1>9. \E b \in Blocks : TRUE
  <2>1. Len(BlockSeq) \in Nat /\ DOMAIN BlockSeq = 1..Len(BlockSeq) /\ BlockSeq # <<>>
    BY GraphAssumption DEF Feedforward
  <2>2. 1 \in DOMAIN BlockSeq
    BY <2>1, GraphAssumption
  <2> QED
    BY <2>2 DEF Blocks, Range
<1>10. PICK b \in Blocks, e \in Edges : b \in {e[1], e[2]}
  BY <1>9, GraphAssumption
<1>11. Resting(b) /\ (e \in In[b] \/ e \in Out[b])
  BY <1>6, <1>8, <1>10 DEF In, Out
<1>12. \E c \in Blocks : Handled(c)
  BY <1>11, EdgeEnds DEF Resting
<1> QED
  BY <1>6, <1>8, <1>12

-----------------------------------------------------------------------------
(* That a block is done is not forgotten before the monitor is told. *)
LEMMA OverStable ==
  ASSUME Feedforward, FlowInv, DoneInv, [Next]_vars, Over
  PROVE  Over'
<1> USE DEF dataVars, execVars, loopVars, flushVars, queueVars, monVars, appVars
<1>0. /\ mon' \in {mon, "flush", "stopped"}
      /\ <<"DONE">> \in mq => <<"DONE">> \in mq' \/ mon' # "run"
  <2>1. CASE AppNext \/ AppInterrupt
    BY <2>1 DEF AppNext, AppStart, AppMark, AppExit, AppJoin, AppKillMonitor, AppInterrupt
  <2>2. CASE MonNext
    <3>1. CASE MonStart
      BY <3>1 DEF MonStart
    <3>2. CASE MonStartThread \/ MonPush
      BY <3>2 DEF MonStartThread, MonPush
    <3>3. CASE MonDone
      BY <3>3 DEF MonDone
    <3>4. ASSUME NEW s \in Schedulers, MonFlushed(s)
          PROVE  mon' \in {mon, "flush", "stopped"} /\ mq' = mq \ {<<"FLUSHED", s>>}
      BY <3>4 DEF MonFlushed
    <3>5. CASE MonIgnoreDone
      BY <3>5 DEF MonIgnoreDone
    <3>6. CASE MonKill
      BY <3>6 DEF MonKill
    <3> QED
      BY <2>2, <3>1, <3>2, <3>3, <3>4, <3>5, <3>6 DEF MonNext
  <2>3. CASE \E t \in Threads : ThreadNext(t)
    <3> PICK t \in Threads : ThreadNext(t)
      BY <2>3
    <3>1. CASE HandleStatuses(t)
      BY <3>1 DEF HandleStatuses
    <3>2. CASE ~ HandleStatuses(t)
      BY <3>2 DEF ThreadNext, PopNotify, PopDone, PopExit, BeginIteration, PollEmpty, ExitThread,
                  BlockedOnInput, BlockedOnOutput, DoWork, PostRead, PostWrite, NotifyPort
    <3> QED
      BY <3>1, <3>2
  <2>4. CASE UNCHANGED vars
    BY <2>4 DEF vars
  <2> QED
    BY <2>1, <2>2, <2>3, <2>4 DEF Next
<1>1. CASE mon # "run"
  BY <1>0, <1>1 DEF Over
<1>2. CASE <<"DONE">> \in mq
  BY <1>0, <1>2 DEF Over
<1>3. CASE mon = "run" /\ <<"DONE">> \notin mq
  <2>1. PICK b \in Blocks : status[b] = "DONE"
    BY <1>3 DEF Over
  <2>2. pc[ThreadOf[b]] = "iterate" /\ \E i \in DOMAIN Group[ThreadOf[b]] :
          i < cur[ThreadOf[b]] /\ Group[ThreadOf[b]][i] = b
    BY <1>3, <2>1 DEF DoneInv
  <2>3. ASSUME NEW t \in Threads, AtBlock(t) PROVE Current(t) # b
    <3>1. Current(t) \in Blocks /\ ThreadOf[Current(t)] = t
      BY <2>3, CurrentBlock
    <3>2. cur[t] \in DOMAIN Group[t] /\ cur[t] \in Nat
      BY <2>3, GroupAssumption DEF AtBlock, FlowInv, TypeOK
    <3>3. ASSUME NEW i \in DOMAIN Group[t], i < cur[t], Group[t][i] = Current(t) PROVE FALSE
      <4>1. i = cur[t]
        BY <3>2, <3>3 DEF Feedforward, IsInjective, Current
      <4> QED
        BY <3>2, <3>3, <4>1
    <3> QED
      BY <2>2, <3>1, <3>3
  <2>4. ASSUME NEW t \in Threads, BlockedOnInput(t) \/ BlockedOnOutput(t) PROVE status'[b] = "DONE"
    <3>1. AtBlock(t) /\ \E v : status' = [status EXCEPT ![Current(t)] = v]
      BY <2>4 DEF BlockedOnInput, BlockedOnOutput
    <3> QED
      BY <2>1, <2>3, <3>1 DEF FlowInv, TypeOK
  <2>5. ASSUME NEW t \in Threads, NEW n \in 0..BufItems, DoWork(t, n) PROVE status'[b] = "DONE"
    <3>1. AtBlock(t) /\ \E v : status' = [status EXCEPT ![Current(t)] = v]
      BY <2>5 DEF DoWork
    <3> QED
      BY <2>1, <2>3, <3>1 DEF FlowInv, TypeOK
  <2>6. ASSUME NEW t \in Threads, HandleStatuses(t) PROVE status'[b] = "DONE"
    BY <2>1, <2>6 DEF HandleStatuses, ForgetStatus
  <2>7. status'[b] = "DONE"
    <3>1. status' = status \/ (\E t \in Threads : \/ BlockedOnInput(t) \/ BlockedOnOutput(t)
                                                  \/ \E n \in 0..BufItems : DoWork(t, n)
                                                  \/ HandleStatuses(t))
      BY DEF Next, AppNext, AppStart, AppMark, AppExit, AppJoin, AppKillMonitor, AppInterrupt, MonNext,
           MonStart, MonStartThread, MonDone, MonPush, MonFlushed, MonIgnoreDone, MonKill, ThreadNext,
           PopNotify, PopDone, PopExit, BeginIteration, PollEmpty, ExitThread,
           PostRead, PostWrite, NotifyPort, vars
    <3> QED
      BY <2>1, <2>4, <2>5, <2>6, <3>1
  <2> QED
    BY <2>7 DEF Over
<1> QED
  BY <1>1, <1>2, <1>3

-----------------------------------------------------------------------------
(* DoneInv: the status DONE is set in an iteration, at whose end the monitor
   is told. *)
LEMMA DoneFrame ==
  ASSUME DoneInv, status' = status, <<"DONE">> \in mq => <<"DONE">> \in mq' \/ mon' # "run",
         mon' = "run" => mon = "run",
         \A t \in Threads : pc[t] = "iterate" => pc'[t] = "iterate" /\ cur'[t] = cur[t]
  PROVE  DoneInv'
<1> SUFFICES ASSUME mon' = "run", <<"DONE">> \notin mq', NEW b \in Blocks, status'[b] = "DONE"
             PROVE  /\ pc'[ThreadOf[b]] = "iterate"
                    /\ \E i \in DOMAIN Group[ThreadOf[b]] : i < cur'[ThreadOf[b]] /\ Group[ThreadOf[b]][i] = b
  BY DEF DoneInv
<1>1. ThreadOf[b] \in Threads
  BY ThreadOfMember
<1>2. /\ pc[ThreadOf[b]] = "iterate"
      /\ \E i \in DOMAIN Group[ThreadOf[b]] : i < cur[ThreadOf[b]] /\ Group[ThreadOf[b]][i] = b
  BY DEF DoneInv
<1> QED
  BY <1>1, <1>2

(* The monitor releases threads that have not started yet. *)
LEMMA MonStartsFromStart ==
  ASSUME Inv, StartInv, MonNext
  PROVE  \A t \in Threads : pc[t] # "start" => pc'[t] = pc[t]
<1> USE DEF loopVars
<1>1. CASE UNCHANGED pc
  BY <1>1
<1>2. CASE MonStartThread
  <2>1. /\ mscript # <<>> /\ Head(mscript)[1] = "start"
        /\ \E v : pc' = [pc EXCEPT ![Head(mscript)[2]] = v]
    BY <1>2 DEF MonStartThread
  <2>2. 1 \in DOMAIN mscript /\ Head(mscript) = mscript[1]
    BY <2>1 DEF Inv, ControlType
  <2>3. pc[Head(mscript)[2]] = "start"
    BY <2>1, <2>2 DEF StartInv
  <2> QED
    BY <2>1, <2>3 DEF Inv, ControlType
<1> QED
  BY <1>1, <1>2 DEF MonNext, MonStart, MonDone, MonPush, MonFlushed, MonIgnoreDone, MonKill

(* A DONE is of the iteration under way until HandleStatuses tells the monitor. *)
LEMMA DoneStep ==
  ASSUME FlowInv, Inv, PostInv, StartInv, DoneInv, [Next]_vars
  PROVE  DoneInv'
<1> USE DEF dataVars, execVars, loopVars, flushVars, queueVars, monVars, appVars
<1>0. pc \in [Threads -> Places] /\ cur \in [Threads -> Nat] /\ status \in [Blocks -> Statuses]
  BY DEF FlowInv, TypeOK, Places, Statuses
<1>1. CASE AppNext \/ AppInterrupt
  <2>1. UNCHANGED <<status, mon, pc, cur>> /\ (<<"DONE">> \in mq => <<"DONE">> \in mq')
    BY <1>1 DEF AppNext, AppStart, AppMark, AppExit, AppJoin, AppKillMonitor, AppInterrupt
  <2> QED
    BY <2>1, DoneFrame
<1>2. CASE MonNext
  <2>1. /\ UNCHANGED <<status, cur>> /\ (mon' = "run" => mon = "run")
        /\ <<"DONE">> \in mq => <<"DONE">> \in mq' \/ mon' # "run"
    BY <1>2 DEF MonNext, MonStart, MonStartThread, MonDone, MonPush, MonFlushed, MonIgnoreDone, MonKill
  <2>2. \A t \in Threads : pc[t] = "iterate" => pc'[t] = "iterate"
    BY <1>2, MonStartsFromStart
  <2> QED
    BY <2>1, <2>2, DoneFrame
<1>3. CASE \E t \in Threads : ThreadNext(t)
  <2> PICK t \in Threads : ThreadNext(t)
    BY <1>3
  <2>1. CASE PopNotify(t) \/ PopDone(t) \/ PopExit(t)
             \/ BeginIteration(t) \/ PollEmpty(t) \/ ExitThread(t)
    <3>1. UNCHANGED <<status, mon, mq>> /\ pc[t] # "iterate"
          /\ \E v, w : pc' = [pc EXCEPT ![t] = v] /\ (cur' = [cur EXCEPT ![t] = w] \/ cur' = cur)
      BY <2>1 DEF PopNotify, PopDone, PopExit, BeginIteration, PollEmpty, ExitThread, Popped, CanPop, PopEnded
    <3>2. \A u \in Threads : pc[u] = "iterate" => pc'[u] = "iterate" /\ cur'[u] = cur[u]
      BY <1>0, <3>1
    <3> QED
      BY <3>1, <3>2, DoneFrame
  <2>2. CASE PostRead(t) \/ PostWrite(t) \/ NotifyPort(t)
    <3>1. UNCHANGED <<status, mon, mq, pc, cur>>
      BY <2>2 DEF PostRead, PostWrite, NotifyPort
    <3> QED
      BY <3>1, DoneFrame
  <2>3. CASE BlockedOnInput(t) \/ BlockedOnOutput(t) \/ \E n \in 0..BufItems : DoWork(t, n)
    <3>1. /\ UNCHANGED <<mon, mq, pc>> /\ AtBlock(t) /\ cur' = [cur EXCEPT ![t] = @ + 1]
          /\ \E v : status' = [status EXCEPT ![Current(t)] = v]
      BY <2>3 DEF BlockedOnInput, BlockedOnOutput, DoWork
    <3>2. Current(t) \in Blocks /\ ThreadOf[Current(t)] = t /\ pc[t] = "iterate"
          /\ cur[t] \in DOMAIN Group[t] /\ Group[t][cur[t]] = Current(t)
      <4>1. cur[t] \in 1..(Len(Group[t]) + 1) /\ cur[t] <= Len(Group[t]) /\ pc[t] = "iterate"
        BY <3>1 DEF AtBlock, FlowInv, TypeOK
      <4> QED
        BY <3>1, <4>1, CurrentBlock, GroupAssumption DEF Current
    <3>3. ASSUME mon' = "run", <<"DONE">> \notin mq', NEW b \in Blocks, status'[b] = "DONE"
          PROVE  /\ pc'[ThreadOf[b]] = "iterate"
                 /\ \E i \in DOMAIN Group[ThreadOf[b]] : i < cur'[ThreadOf[b]] /\ Group[ThreadOf[b]][i] = b
      <4>1. CASE b = Current(t)
        <5>1. cur[t] < cur'[t] /\ pc'[t] = "iterate"
          BY <1>0, <3>1, <3>2
        <5> QED
          BY <3>2, <4>1, <5>1
      <4>2. CASE b # Current(t)
        <5>1. status[b] = "DONE" /\ ThreadOf[b] \in Threads
          BY <1>0, <3>1, <3>3, <4>2, ThreadOfMember
        <5>2. PICK i \in DOMAIN Group[ThreadOf[b]] : i < cur[ThreadOf[b]] /\ Group[ThreadOf[b]][i] = b
          BY <3>1, <3>3, <5>1 DEF DoneInv
        <5>3. pc[ThreadOf[b]] = "iterate"
          BY <3>1, <3>3, <5>1 DEF DoneInv
        <5>4. cur'[ThreadOf[b]] \in {cur[ThreadOf[b]], cur[ThreadOf[b]] + 1} /\ cur[ThreadOf[b]] \in Nat
          BY <1>0, <3>1, <5>1
        <5>5. i < cur'[ThreadOf[b]]
          <6>1. i \in Nat
            BY <5>1, <5>2, GroupAssumption
          <6> QED
            BY <5>2, <5>4, <6>1
        <5> QED
          BY <3>1, <5>2, <5>3, <5>5
      <4> QED
        BY <4>1, <4>2
    <3> QED
      BY <3>3 DEF DoneInv
  <2>4. CASE HandleStatuses(t)
    <3>1. UNCHANGED <<cur, mon>> /\ status' = ForgetStatus(t)
          /\ (<<"DONE">> \in mq => <<"DONE">> \in mq') /\ (SomeDone(t) => <<"DONE">> \in mq')
          /\ \E v : pc' = [pc EXCEPT ![t] = v]
      BY <2>4 DEF HandleStatuses
    <3>2. ASSUME mon' = "run", <<"DONE">> \notin mq', NEW b \in Blocks, status'[b] = "DONE"
          PROVE  /\ pc'[ThreadOf[b]] = "iterate"
                 /\ \E i \in DOMAIN Group[ThreadOf[b]] : i < cur'[ThreadOf[b]] /\ Group[ThreadOf[b]][i] = b
      <4>1. status[b] = "DONE" /\ ~ SomeDone(t)
        BY <3>1, <3>2 DEF ForgetStatus
      <4>2. ThreadOf[b] # t /\ ThreadOf[b] \in Threads
        BY <4>1, ThreadOfMember DEF SomeDone
      <4>3. pc'[ThreadOf[b]] = pc[ThreadOf[b]]
        BY <1>0, <3>1, <4>2
      <4> QED
        BY <3>1, <3>2, <4>1, <4>3 DEF DoneInv
    <3> QED
      BY <3>2 DEF DoneInv
  <2> QED
    BY <2>1, <2>2, <2>3, <2>4 DEF ThreadNext
<1>4. CASE UNCHANGED vars
  <2>1. UNCHANGED <<status, mon, mq, pc, cur>>
    BY <1>4 DEF vars
  <2> QED
    BY <2>1, DoneFrame
<1> QED
  BY <1>1, <1>2, <1>3, <1>4 DEF Next

-----------------------------------------------------------------------------
(* StartInv: the monitor starts every thread once. *)
LEMMA ThreadSeqOnce ==
  \A i, j \in DOMAIN ThreadSeq : ThreadSeq[i] = ThreadSeq[j] => i = j
<1> DEFINE c == Cardinality(Threads)
           f == ThreadSeq
<1>1. IsFiniteSet(Threads)
  BY ThreadsFinite
<1>2. c \in Nat /\ ExistsBijection(1..c, Threads)
  BY <1>1, FS_CardinalityType
<1>3. \E g \in [1..c -> Threads] : IsInjective(g)
  BY <1>2 DEF ExistsBijection, Bijection, Injection
<1>4. f \in [1..c -> Threads] /\ IsInjective(f)
  BY <1>3 DEF ThreadSeq, SetToSeq
<1> QED
  BY <1>4 DEF IsInjective

(* StartInv in steps that start no thread. *)
LEMMA StartFrame ==
  ASSUME StartInv, mscript' = mscript, begun' = begun,
         <<"START">> \in mq' <=> <<"START">> \in mq,
         \A t \in Threads : pc[t] = "start" => pc'[t] = "start",
         mscript \in Seq({"start", "DONE", "EXIT"} \X Threads)
  PROVE  StartInv'
<1>1. \A i \in DOMAIN mscript : mscript[i][2] \in Threads
  BY ElementOfSeq
<1>2. (~ begun => <<"START">> \notin mq)'
  BY DEF StartInv
<1>3. (~ begun \/ <<"START">> \in mq)' =>
       /\ \A t \in Threads : pc'[t] = "start"
       /\ \A i \in DOMAIN mscript' : mscript'[i][1] # "start"
  BY DEF StartInv
<1>4. \A i \in DOMAIN mscript' : mscript'[i][1] = "start" =>
       /\ pc'[mscript'[i][2]] = "start"
       /\ \A j \in DOMAIN mscript' : mscript'[j] = mscript'[i] => j = i
  BY <1>1 DEF StartInv
<1> QED
  BY <1>2, <1>3, <1>4 DEF StartInv

(* The monitor starts every thread once, after the application's START. *)
LEMMA StartStep ==
  ASSUME FlowInv, Inv, PostInv, StartInv, [Next]_vars
  PROVE  StartInv'
<1> USE DEF dataVars, execVars, loopVars, flushVars, queueVars, monVars, appVars
<1>0. /\ pc \in [Threads -> Places]
      /\ mscript \in Seq({"start", "DONE", "EXIT"} \X Threads)
  BY DEF Inv, ControlType
<1>1. CASE AppNext \/ AppInterrupt
  <2>1. CASE AppStart
    <3>1. /\ ~ begun /\ begun' = TRUE /\ UNCHANGED <<pc, mscript>>
      BY <2>1 DEF AppStart
    <3>2. /\ \A t \in Threads : pc[t] = "start"
          /\ \A i \in DOMAIN mscript : mscript[i][1] # "start"
      BY <3>1 DEF StartInv
    <3> QED
      BY <3>1, <3>2 DEF StartInv
  <2>2. CASE ~ AppStart
    <3>1. UNCHANGED <<pc, mscript, begun>> /\ (<<"START">> \in mq' <=> <<"START">> \in mq)
      BY <1>1, <2>2 DEF AppNext, AppMark, AppExit, AppJoin, AppKillMonitor, AppInterrupt
    <3> QED
      BY <1>0, <3>1, StartFrame
  <2> QED
    BY <2>1, <2>2
<1>2. CASE MonNext
  <2>1. CASE MonStart
    <3>1. /\ UNCHANGED <<pc, begun>> /\ <<"START">> \in mq /\ <<"START">> \notin mq'
          /\ mscript' = [i \in DOMAIN ThreadSeq |-> <<"start", ThreadSeq[i]>>]
      BY <2>1 DEF MonStart
    <3>2. begun /\ \A t \in Threads : pc[t] = "start"
      BY <3>1 DEF StartInv
    <3>3. \A i \in DOMAIN ThreadSeq : ThreadSeq[i] \in Threads
      BY ThreadSeqType
    <3>4. \A i, j \in DOMAIN mscript' : mscript'[j] = mscript'[i] => j = i
      BY <3>1, ThreadSeqOnce
    <3>5. \A i \in DOMAIN mscript' : pc'[mscript'[i][2]] = "start"
      BY <3>1, <3>2, <3>3
    <3> QED
      BY <3>1, <3>2, <3>4, <3>5 DEF StartInv
  <2>2. CASE MonStartThread \/ MonPush
    <3>1. /\ UNCHANGED <<mq, begun>> /\ mscript # <<>> /\ mscript' = Tail(mscript)
          /\ pc' = pc \/ (Head(mscript)[1] = "start" /\ \E v : pc' = [pc EXCEPT ![Head(mscript)[2]] = v])
      BY <2>2 DEF MonStartThread, MonPush
    <3>2. /\ Head(mscript) = mscript[1] /\ Len(mscript) \in Nat /\ DOMAIN mscript = 1..Len(mscript)
          /\ 1 \in DOMAIN mscript /\ Len(mscript') = Len(mscript) - 1
          /\ DOMAIN mscript' = 1..Len(mscript')
          /\ \A i \in 1..Len(mscript') : mscript'[i] = mscript[i + 1]
      BY <1>0, <3>1, HeadTailProperties
    <3>3. \A i \in DOMAIN mscript' : i + 1 \in DOMAIN mscript /\ i + 1 # 1 /\ mscript'[i] = mscript[i + 1]
                                     /\ i \in Nat
      BY <3>2
    <3>4. \A i \in DOMAIN mscript : mscript[i] = <<mscript[i][1], mscript[i][2]>> /\ mscript[i][2] \in Threads
      <4>1. \A i \in DOMAIN mscript : mscript[i] \in {"start", "DONE", "EXIT"} \X Threads
        BY <1>0, ElementOfSeq
      <4> QED
        BY <4>1
    <3>5. ~ (~ begun \/ <<"START">> \in mq) \/ pc' = pc
      BY <3>1, <3>2 DEF StartInv
    <3>6. ASSUME NEW i \in DOMAIN mscript', mscript'[i][1] = "start"
          PROVE  /\ pc'[mscript'[i][2]] = "start"
                 /\ \A j \in DOMAIN mscript' : mscript'[j] = mscript'[i] => j = i
      <4>1. i + 1 \in DOMAIN mscript /\ i + 1 # 1 /\ mscript'[i] = mscript[i + 1] /\ mscript[i + 1][1] = "start"
        BY <3>3, <3>6
      <4>2. /\ pc[mscript[i + 1][2]] = "start"
            /\ \A j \in DOMAIN mscript : mscript[j] = mscript[i + 1] => j = i + 1
        BY <4>1 DEF StartInv
      <4>3. Head(mscript)[1] = "start" => Head(mscript)[2] # mscript[i + 1][2]
        BY <3>2, <3>4, <4>1, <4>2
      <4>4. pc'[mscript'[i][2]] = "start"
        BY <1>0, <3>1, <4>1, <4>2, <4>3
      <4>5. ASSUME NEW j \in DOMAIN mscript', mscript'[j] = mscript'[i] PROVE j = i
        <5>1. j + 1 = i + 1 /\ i \in Nat /\ j \in Nat
          BY <3>3, <4>1, <4>2, <4>5
        <5> QED
          BY <5>1
      <4> QED
        BY <4>4, <4>5
    <3>7. \A i \in DOMAIN mscript' :
            (\A k \in DOMAIN mscript : mscript[k][1] # "start") => mscript'[i][1] # "start"
      BY <3>3
    <3> QED
      BY <3>1, <3>5, <3>6, <3>7 DEF StartInv
  <2>3. CASE MonDone \/ \E s \in Schedulers : MonFlushed(s)
    <3>1. /\ UNCHANGED <<pc, begun>> /\ (<<"START">> \in mq' <=> <<"START">> \in mq)
          /\ mscript' = mscript \/ \E m \in {"DONE", "EXIT"} : mscript' = Broadcast(m)
      BY <2>3 DEF MonDone, MonFlushed
    <3>2. CASE mscript' = mscript
      BY <1>0, <3>1, <3>2, StartFrame
    <3>3. ASSUME NEW m \in {"DONE", "EXIT"}, mscript' = Broadcast(m) PROVE StartInv'
      <4>1. \A i \in DOMAIN mscript' : mscript'[i][1] # "start"
        BY <3>3 DEF Broadcast
      <4> QED
        BY <3>1, <4>1 DEF StartInv
    <3> QED
      BY <3>1, <3>2, <3>3
  <2>4. CASE MonIgnoreDone \/ MonKill
    <3>1. UNCHANGED <<pc, mscript, begun>> /\ (<<"START">> \in mq' <=> <<"START">> \in mq)
      BY <2>4 DEF MonIgnoreDone, MonKill
    <3> QED
      BY <1>0, <3>1, StartFrame
  <2> QED
    BY <1>2, <2>1, <2>2, <2>3, <2>4 DEF MonNext
<1>3. CASE \E t \in Threads : ThreadNext(t)
  <2> PICK t \in Threads : ThreadNext(t)
    BY <1>3
  <2>1. /\ UNCHANGED <<mscript, begun>> /\ (<<"START">> \in mq' <=> <<"START">> \in mq)
    BY DEF ThreadNext, PopNotify, PopDone, PopExit, BeginIteration, PollEmpty, ExitThread,
           BlockedOnInput, BlockedOnOutput, DoWork, PostRead, PostWrite, NotifyPort, HandleStatuses
  <2>2. pc' = pc \/ (pc[t] # "start" /\ \E v : pc' = [pc EXCEPT ![t] = v])
    BY DEF ThreadNext, PopNotify, PopDone, PopExit, BeginIteration, PollEmpty, ExitThread, Popped,
           CanPop, PopEnded, BlockedOnInput, BlockedOnOutput, DoWork, PostRead, PostWrite, NotifyPort,
           HandleStatuses
  <2>3. \A u \in Threads : pc[u] = "start" => pc'[u] = "start"
    BY <1>0, <2>2
  <2> QED
    BY <1>0, <2>1, <2>3, StartFrame
<1>4. CASE UNCHANGED vars
  <2>1. UNCHANGED <<pc, mscript, begun, mq>>
    BY <1>4 DEF vars
  <2> QED
    BY <1>0, <2>1, StartFrame
<1> QED
  BY <1>1, <1>2, <1>3, <1>4 DEF Next

-----------------------------------------------------------------------------
(* What is left of a script after its first task still has a notification
   behind every post. *)
LEMMA TailShape ==
  ASSUME NEW T, NEW s \in Seq(T), s # <<>>
  PROVE  LET r == Tail(s)
             h == Head(s)
         IN  /\ NotifiesAfter(s) =>
                  /\ NotifiesAfter(r)
                  /\ h.op = "read" => Notifying(r, ThreadOf[h.edge[1]])
                  /\ h.op = "write" => \A e \in Out[h.block] : Notifying(r, ThreadOf[e[2]])
             /\ \A t : Notifying(s, t) => Notifying(r, t) \/ (h.op = "notify" /\ h.to = t)
             /\ \A e : ReadingFrom(s, e) => ReadingFrom(r, e) \/ (h.op = "read" /\ h.edge = e)
             /\ \A b : WritingTo(s, b) => WritingTo(r, b) \/ (h.op = "write" /\ h.block = b)
             /\ \A i \in DOMAIN r : \E j \in DOMAIN s : r[i] = s[j]
<1> DEFINE r == Tail(s)
           h == Head(s)
<1>1. /\ h = s[1] /\ Len(s) \in Nat /\ DOMAIN s = 1..Len(s) /\ 1 \in DOMAIN s
      /\ Len(r) = Len(s) - 1 /\ DOMAIN r = 1..Len(r)
      /\ \A i \in 1..Len(r) : r[i] = s[i + 1]
  BY HeadTailProperties
<1> HIDE DEF r, h
<1>2. \A i \in DOMAIN r : i \in Nat /\ i + 1 \in DOMAIN s /\ r[i] = s[i + 1]
  BY <1>1
<1>3. ASSUME NEW j \in DOMAIN s, j # 1
      PROVE  j - 1 \in DOMAIN r /\ r[j - 1] = s[j] /\ j \in Nat
  <2>1. j \in Nat /\ j - 1 \in 1..Len(r) /\ (j - 1) + 1 = j
    BY <1>1, <1>3
  <2> QED
    BY <1>1, <2>1
<1>4. ASSUME NotifiesAfter(s), NEW i \in DOMAIN s, NEW c,
             \E j \in DOMAIN s : j > i /\ s[j] = Notify(c)
      PROVE  \E j \in DOMAIN r : j > i - 1 /\ r[j] = Notify(c)
  <2>1. PICK j \in DOMAIN s : j > i /\ s[j] = Notify(c)
    BY <1>4
  <2>2. i \in Nat /\ i >= 1 /\ j \in Nat
    BY <1>1
  <2>3. j # 1 /\ j - 1 > i - 1
    BY <2>1, <2>2
  <2> QED
    BY <1>3, <2>1, <2>3
<1>5. ASSUME NotifiesAfter(s) PROVE NotifiesAfter(r)
  <2> SUFFICES ASSUME NEW i \in DOMAIN r
               PROVE  /\ r[i].op = "read" =>
                           \E j \in DOMAIN r : j > i /\ r[j] = Notify(r[i].edge[1])
                      /\ r[i].op = "write" => \A e \in Out[r[i].block] :
                           \E j \in DOMAIN r : j > i /\ r[j] = Notify(e[2])
    BY DEF NotifiesAfter
  <2>1. i \in Nat /\ i + 1 \in DOMAIN s /\ r[i] = s[i + 1] /\ (i + 1) - 1 = i
    BY <1>2
  <2>2. /\ s[i + 1].op = "read" =>
             \E j \in DOMAIN s : j > i + 1 /\ s[j] = Notify(s[i + 1].edge[1])
        /\ s[i + 1].op = "write" => \A e \in Out[s[i + 1].block] :
             \E j \in DOMAIN s : j > i + 1 /\ s[j] = Notify(e[2])
    BY <1>5, <2>1 DEF NotifiesAfter
  <2>3. ASSUME NEW c, \E j \in DOMAIN s : j > i + 1 /\ s[j] = Notify(c)
        PROVE  \E j \in DOMAIN r : j > i /\ r[j] = Notify(c)
    <3>1. \E j \in DOMAIN r : j > (i + 1) - 1 /\ r[j] = Notify(c)
      BY <1>4, <1>5, <2>1, <2>3
    <3> QED
      BY <2>1, <3>1
  <2> QED
    BY <2>1, <2>2, <2>3
<1>6. ASSUME NotifiesAfter(s)
      PROVE  /\ h.op = "read" => Notifying(r, ThreadOf[h.edge[1]])
             /\ h.op = "write" => \A e \in Out[h.block] : Notifying(r, ThreadOf[e[2]])
  <2>1. /\ h.op = "read" => \E j \in DOMAIN s : j > 1 /\ s[j] = Notify(h.edge[1])
        /\ h.op = "write" => \A e \in Out[h.block] : \E j \in DOMAIN s : j > 1 /\ s[j] = Notify(e[2])
    BY <1>1, <1>6 DEF NotifiesAfter
  <2>2. ASSUME NEW c, \E j \in DOMAIN s : j > 1 /\ s[j] = Notify(c)
        PROVE  Notifying(r, ThreadOf[c])
    <3>1. PICK j \in DOMAIN r : r[j] = Notify(c)
      BY <1>1, <1>4, <1>6, <2>2
    <3> QED
      BY <3>1 DEF Notifying, Notify
  <2> QED
    BY <2>1, <2>2
<1>7. /\ \A t : Notifying(s, t) => Notifying(r, t) \/ (h.op = "notify" /\ h.to = t)
      /\ \A e : ReadingFrom(s, e) => ReadingFrom(r, e) \/ (h.op = "read" /\ h.edge = e)
      /\ \A b : WritingTo(s, b) => WritingTo(r, b) \/ (h.op = "write" /\ h.block = b)
  BY <1>1, <1>3 DEF Notifying, ReadingFrom, WritingTo
<1>8. \A i \in DOMAIN r : \E j \in DOMAIN s : r[i] = s[j]
  BY <1>2
<1> QED
  BY <1>5, <1>6, <1>7, <1>8 DEF r, h

(* A work call that moves no items is the last of a block. *)
LEMMA WorkMoves ==
  ASSUME FlowInv, NEW t \in Threads, NEW n \in 0..BufItems, DoWork(t, n)
  PROVE  n \in Nat /\ (n > 0 \/ Over')
<1> DEFINE b == Current(t)
<1>1. /\ AtBlock(t) /\ ~ InputBlocked(b) /\ ~ OutputBlocked(b) /\ n \in Amounts(b)
      /\ status' = [status EXCEPT ![b] = IF AnswersDone(b, n) THEN "DONE" ELSE "READY"]
  BY DEF DoWork
<1>2. b \in Blocks
  BY <1>1, CurrentBlock
<1> HIDE DEF b
<1>3. n \in Nat /\ (n > 0 \/ (n = 0 /\ Limit[b] > 0 /\ made[b] = Limit[b]))
  BY <1>1, <1>2, AmountFacts DEF FlowInv
<1>4. n = 0 /\ Limit[b] > 0 /\ made[b] = Limit[b] => AnswersDone(b, n)
  <2>1. made[b] \in Nat
    BY <1>2 DEF FlowInv
  <2> QED
    BY <2>1 DEF AnswersDone
<1>5. AnswersDone(b, n) => Over'
  <2>1. AnswersDone(b, n) => status'[b] = "DONE"
    BY <1>1, <1>2 DEF FlowInv, TypeOK
  <2> QED
    BY <1>2, <2>1 DEF Over
<1> QED
  BY <1>3, <1>4, <1>5

(* PostInv: the scripts. *)
LEMMA PostFrame ==
  ASSUME PostInv, Over => Over', script' = script,
         \A t \in Threads : script[t] # <<>> => pc'[t] = pc[t]
  PROVE  PostInv'
<1> SUFFICES ASSUME NEW t \in Threads
             PROVE  /\ script'[t] # <<>> => pc'[t] = "iterate"
                    /\ NotifiesAfter(script'[t])
                    /\ Over' \/ \A i \in DOMAIN script'[t] :
                                  script'[t][i].op \in {"read", "write"} => script'[t][i].n > 0
  BY DEF PostInv, NotifiesAfter, MovesItems
<1> QED
  BY DEF PostInv, MovesItems

(* No step leaves a post without its notification behind it. *)
LEMMA PostStep ==
  ASSUME Inv, FlowInv, PostInv, StartInv, [Next]_vars, Over => Over'
  PROVE  PostInv'
<1> USE DEF dataVars, execVars, loopVars, flushVars, queueVars, monVars, appVars
<1>0. pc \in [Threads -> Places] /\ DOMAIN script = Threads
      /\ \A t \in Threads : script[t] \in Seq(Tasks(t))
  BY DEF Inv, ControlType, FlowInv, ScriptInv
<1>1. CASE AppNext \/ AppInterrupt
  <2>1. UNCHANGED <<script, pc>>
    BY <1>1 DEF AppNext, AppStart, AppMark, AppExit, AppJoin, AppKillMonitor, AppInterrupt
  <2> QED
    BY <2>1, PostFrame
<1>2. CASE MonNext
  <2>1. script' = script
    BY <1>2 DEF MonNext, MonStart, MonStartThread, MonDone, MonPush, MonFlushed, MonIgnoreDone, MonKill
  <2>2. \A t \in Threads : pc[t] # "start" => pc'[t] = pc[t]
    BY <1>2, MonStartsFromStart
  <2>3. \A t \in Threads : script[t] # <<>> => pc[t] # "start"
    BY DEF PostInv
  <2> QED
    BY <2>1, <2>2, <2>3, PostFrame
<1>3. CASE \E t \in Threads : ThreadNext(t)
  <2> PICK t \in Threads : ThreadNext(t)
    BY <1>3
  <2>1. CASE \/ PopNotify(t) \/ PopDone(t) \/ PopExit(t)
             \/ BeginIteration(t) \/ PollEmpty(t) \/ ExitThread(t) \/ HandleStatuses(t)
    <3>1. /\ script' = script /\ (pc[t] # "iterate" \/ script[t] = <<>>)
          /\ \E v : pc' = [pc EXCEPT ![t] = v]
      BY <2>1 DEF PopNotify, PopDone, PopExit, BeginIteration, PollEmpty, ExitThread, Popped, CanPop,
                  PopEnded, HandleStatuses
    <3>2. \A u \in Threads : script[u] # <<>> => pc'[u] = pc[u]
      BY <1>0, <3>1 DEF PostInv
    <3> QED
      BY <3>1, <3>2, PostFrame
  <2>2. CASE BlockedOnInput(t) \/ BlockedOnOutput(t)
    <3>1. UNCHANGED <<script, pc>>
      BY <2>2 DEF BlockedOnInput, BlockedOnOutput
    <3> QED
      BY <3>1, PostFrame
  <2>3. ASSUME NEW n \in 0..BufItems, DoWork(t, n) PROVE PostInv'
    <3> DEFINE b == Current(t)
               s == Posting(b, n)
    <3>1. /\ script' = [script EXCEPT ![t] = s] /\ pc' = pc /\ AtBlock(t)
      BY <2>3 DEF DoWork
    <3>2. b \in Blocks /\ pc[t] = "iterate"
      BY <3>1, CurrentBlock DEF AtBlock
    <3>3. n \in Nat /\ (n > 0 \/ Over')
      BY <2>3, WorkMoves
    <3>4. NotifiesAfter(s) /\ \A i \in DOMAIN s : s[i].op \in {"read", "write"} => s[i].n = n
      BY <3>2, <3>3, PostingShape
    <3> HIDE DEF b, s
    <3> SUFFICES ASSUME NEW u \in Threads
                 PROVE  /\ script'[u] # <<>> => pc'[u] = "iterate"
                        /\ NotifiesAfter(script'[u])
                        /\ Over' \/ \A i \in DOMAIN script'[u] :
                                      script'[u][i].op \in {"read", "write"} => script'[u][i].n > 0
      BY DEF PostInv, NotifiesAfter, MovesItems
    <3>5. CASE u = t
      <4>1. script'[u] = s
        BY <1>0, <3>1, <3>5
      <4> QED
        BY <3>1, <3>2, <3>3, <3>4, <3>5, <4>1
    <3>6. CASE u # t
      <4>1. script'[u] = script[u]
        BY <1>0, <3>1, <3>6
      <4> QED
        BY <3>1, <4>1 DEF PostInv, MovesItems
    <3> QED
      BY <3>5, <3>6
  <2>4. CASE PostRead(t) \/ PostWrite(t) \/ NotifyPort(t)
    <3>1. /\ script' = [script EXCEPT ![t] = Tail(script[t])] /\ pc' = pc /\ script[t] # <<>>
      BY <2>4 DEF PostRead, PostWrite, NotifyPort, Posts, Posted
    <3> SUFFICES ASSUME NEW u \in Threads
                 PROVE  /\ script'[u] # <<>> => pc'[u] = "iterate"
                        /\ NotifiesAfter(script'[u])
                        /\ Over' \/ \A i \in DOMAIN script'[u] :
                                      script'[u][i].op \in {"read", "write"} => script'[u][i].n > 0
      BY DEF PostInv, NotifiesAfter, MovesItems
    <3>2. CASE u = t
      <4>1. script'[u] = Tail(script[t]) /\ pc'[u] = "iterate"
        BY <1>0, <3>1, <3>2 DEF PostInv
      <4>2. NotifiesAfter(script[t]) /\ (Over \/ \A i \in DOMAIN script[t] :
              script[t][i].op \in {"read", "write"} => script[t][i].n > 0)
        BY DEF PostInv, MovesItems
      <4>3. NotifiesAfter(Tail(script[t]))
            /\ \A i \in DOMAIN Tail(script[t]) : \E j \in DOMAIN script[t] : Tail(script[t])[i] = script[t][j]
        BY <1>0, <3>1, <4>2, TailShape
      <4> QED
        BY <4>1, <4>2, <4>3
    <3>3. CASE u # t
      <4>1. script'[u] = script[u]
        BY <1>0, <3>1, <3>3
      <4> QED
        BY <3>1, <4>1 DEF PostInv, MovesItems
    <3> QED
      BY <3>2, <3>3
  <2> QED
    BY <2>1, <2>2, <2>3, <2>4 DEF ThreadNext
<1>4. CASE UNCHANGED vars
  <2>1. UNCHANGED <<script, pc>>
    BY <1>4 DEF vars
  <2> QED
    BY <2>1, PostFrame
<1> QED
  BY <1>1, <1>2, <1>3, <1>4 DEF Next

-----------------------------------------------------------------------------
(* Settled: a step settles every block again if it forgets no notification
   and leaves stuck those that were, and resting those that it did not wake. *)
LEMMA SettledFrame ==
  ASSUME Over => Over',
         Over' \/ \A b \in Blocks : /\ Handled(b) => Handled(b)'
                                    /\ Resting(b) => Resting(b)' \/ Handled(b)',
         Settled
  PROVE  Settled'
  BY DEF Settled

(* Steps that move no items. *)
LEMMA QuietSettled ==
  ASSUME FlowInv, Over => Over', UNCHANGED <<fill, script>>, Settled,
         \A t \in Threads :
           \/ pc[t] \in {"start", "exited"} \/ note[t] \/ (pc[t] = "poll" /\ work[t])
           => \/ pc'[t] \in {"start", "exited"} \/ note'[t] \/ (pc'[t] = "poll" /\ work'[t])
              \/ pc'[t] = "iterate" /\ cur'[t] = 1,
         \A t \in Threads :
           pc[t] = "iterate" => (pc'[t] = "iterate" /\ cur'[t] = cur[t]) \/ cur[t] > Len(Group[t])
  PROVE  Settled'
<1>1. ASSUME NEW b \in Blocks, Covered(b) PROVE Covered(b)'
  <2> DEFINE t == ThreadOf[b]
  <2>1. t \in Threads /\ \E i \in DOMAIN Group[t] : Group[t][i] = b
    <3>1. t \in Threads /\ b \in Members[t]
      BY ThreadOfMember
    <3> HIDE DEF t
    <3> QED
      BY <3>1 DEF Members, Range
  <2>2. DOMAIN Group[t] = 1..Len(Group[t]) /\ Len(Group[t]) \in Nat /\ cur[t] \in Nat
    BY <2>1, GroupAssumption DEF FlowInv
  <2>3. CASE \E u \in Threads : Notifying(script[u], t)
    BY <2>3 DEF Covered, Notifying
  <2>4. CASE Visiting(t, b)
    <3>1. pc[t] = "iterate" /\ ~ (cur[t] > Len(Group[t]))
      BY <2>2, <2>4 DEF Visiting
    <3>2. pc'[t] = "iterate" /\ cur'[t] = cur[t]
      BY <2>1, <3>1
    <3>3. Visiting(t, b)'
      BY <2>4, <3>2 DEF Visiting
    <3> QED
      BY <3>3 DEF Covered
  <2>5. CASE pc[t] \in {"start", "exited"} \/ note[t] \/ (pc[t] = "poll" /\ work[t])
    <3>1. \/ pc'[t] \in {"start", "exited"} \/ note'[t] \/ (pc'[t] = "poll" /\ work'[t])
          \/ pc'[t] = "iterate" /\ cur'[t] = 1
      BY <2>1, <2>5
    <3>2. CASE pc'[t] = "iterate" /\ cur'[t] = 1
      <4>1. Visiting(t, b)'
        BY <2>1, <2>2, <3>2 DEF Visiting
      <4> QED
        BY <4>1 DEF Covered
    <3> QED
      BY <3>1, <3>2 DEF Covered
  <2> QED
    BY <1>1, <2>3, <2>4, <2>5 DEF Covered
<1>2. \A b \in Blocks : Stuck(b) => Stuck(b)'
  BY DEF Stuck
<1>3. \A b \in Blocks : Handled(b) => Handled(b)'
  BY <1>1, <1>2 DEF Handled
<1>4. ASSUME NEW b \in Blocks, Resting(b) PROVE Resting(b)'
  <2>1. \A e \in Out[b] : e[2] \in Blocks
    BY EdgeEnds
  <2>2. \A e \in In[b] : e[1] \in Blocks
    BY EdgeEnds
  <2>3. \A e \in Out[b] : /\ fill'[e] > 0 \/ \E u \in Threads : WritingTo(script'[u], b)
                          /\ Handled(e[2])'
    BY <1>3, <1>4, <2>1 DEF Resting
  <2>4. \A e \in In[b] : /\ fill'[e] < BufItems - 1 \/ \E u \in Threads : ReadingFrom(script'[u], e)
                         /\ Handled(e[1])'
    BY <1>3, <1>4, <2>2 DEF Resting
  <2> QED
    BY <2>3, <2>4 DEF Resting, WritingTo, ReadingFrom
<1> QED
  BY <1>3, <1>4, SettledFrame

(* The block an executor passes by is stuck. *)
LEMMA BlockedSettled ==
  ASSUME Feedforward, FlowInv, Over => Over', Settled, NEW t \in Threads,
         BlockedOnInput(t) \/ BlockedOnOutput(t)
  PROVE  Settled'
<1> USE DEF loopVars, queueVars, dataVars
<1>1. /\ UNCHANGED <<fill, script, pc, work, note>> /\ AtBlock(t)
      /\ cur' = [cur EXCEPT ![t] = @ + 1]
      /\ InputBlocked(Current(t)) \/ OutputBlocked(Current(t))
  BY DEF BlockedOnInput, BlockedOnOutput
<1>2. /\ Current(t) \in Blocks /\ ThreadOf[Current(t)] = t /\ pc[t] = "iterate"
      /\ cur \in [Threads -> Nat]
  BY <1>1, CurrentBlock DEF AtBlock, FlowInv
<1>3. Stuck(Current(t))
  BY <1>1, <1>2, StuckIsBlocked DEF Feedforward, FlowInv
<1>4. ASSUME NEW b \in Blocks, Covered(b), b # Current(t) PROVE Covered(b)'
  <2> DEFINE u == ThreadOf[b]
  <2>1. u \in Threads
    BY ThreadOfMember
  <2>2. CASE Visiting(u, b)
    <3>1. PICK i \in DOMAIN Group[u] : i >= cur[u] /\ Group[u][i] = b
      BY <2>2 DEF Visiting
    <3>2. i \in Nat /\ cur[u] \in Nat
      BY <1>2, <2>1, GroupAssumption
    <3>3. i >= cur'[u]
      <4>1. CASE u = t
        <5>1. i # cur[u]
          BY <1>4, <3>1, <4>1 DEF Current
        <5> QED
          BY <1>1, <1>2, <3>1, <3>2, <4>1, <5>1
      <4>2. CASE u # t
        BY <1>1, <1>2, <2>1, <3>1, <4>2
      <4> QED
        BY <4>1, <4>2
    <3>4. Visiting(u, b)'
      BY <1>1, <2>2, <3>1, <3>3 DEF Visiting
    <3> QED
      BY <3>4 DEF Covered
  <2>3. CASE ~ Visiting(u, b)
    BY <1>1, <1>4, <2>3 DEF Covered, Notifying
  <2> QED
    BY <2>2, <2>3
<1>5. \A b \in Blocks : Stuck(b) => Stuck(b)'
  BY <1>1 DEF Stuck
<1>6. \A b \in Blocks : Handled(b) => Handled(b)'
  BY <1>2, <1>3, <1>4, <1>5 DEF Handled
<1>7. ASSUME NEW b \in Blocks, Resting(b) PROVE Resting(b)'
  <2>1. \A e \in Out[b] : /\ fill'[e] > 0 \/ \E u \in Threads : WritingTo(script'[u], b)
                          /\ Handled(e[2])'
    BY <1>1, <1>6, <1>7, EdgeEnds DEF Resting
  <2>2. \A e \in In[b] : /\ fill'[e] < BufItems - 1 \/ \E u \in Threads : ReadingFrom(script'[u], e)
                         /\ Handled(e[1])'
    BY <1>1, <1>6, <1>7, EdgeEnds DEF Resting
  <2> QED
    BY <2>1, <2>2 DEF Resting, WritingTo, ReadingFrom
<1> QED
  BY <1>6, <1>7, SettledFrame

(* A work call gives each neighbour something to be notified of. *)
LEMMA DoWorkSettled ==
  ASSUME Feedforward, FlowInv, Over => Over', Settled, NEW t \in Threads, NEW n \in 0..BufItems, DoWork(t, n)
  PROVE  Settled'
<1> USE DEF loopVars, queueVars
<1>0. PICK c \in Blocks : c = Current(t)
  <2>1. AtBlock(t)
    BY DEF DoWork
  <2> QED
    BY <2>1, CurrentBlock
<1>1. /\ UNCHANGED <<fill, pc, work, note>> /\ AtBlock(t) /\ script[t] = <<>>
      /\ cur' = [cur EXCEPT ![t] = @ + 1]
      /\ script' = [script EXCEPT ![t] = Posting(c, n)]
  BY <1>0 DEF DoWork, AtBlock
<1>2. /\ c \in Blocks /\ ThreadOf[c] = t /\ pc[t] = "iterate"
      /\ cur \in [Threads -> Nat] /\ DOMAIN script = Threads
  BY <1>0, <1>1, CurrentBlock DEF AtBlock, FlowInv, ScriptInv
<1>3. n \in Nat
  BY WorkMoves
<1>4. Group[t][cur[t]] = c
  BY <1>0 DEF Current
<1>5. /\ script'[t] = Posting(c, n) /\ \A u \in Threads : u # t => script'[u] = script[u]
  BY <1>1, <1>2
<1>6. /\ \A e \in In[c] : ReadingFrom(script'[t], e) /\ Notifying(script'[t], ThreadOf[e[1]])
      /\ \A e \in Out[c] : WritingTo(script'[t], c) /\ Notifying(script'[t], ThreadOf[e[2]])
  BY <1>2, <1>3, <1>5, PostingShape
<1>7. /\ \A u \in Threads, v \in Threads : Notifying(script[u], v) => Notifying(script'[u], v)
      /\ \A u \in Threads : \A e : ReadingFrom(script[u], e) => ReadingFrom(script'[u], e)
      /\ \A u \in Threads : \A b : WritingTo(script[u], b) => WritingTo(script'[u], b)
  <2>1. /\ \A v : ~ Notifying(script[t], v)
        /\ \A e : ~ ReadingFrom(script[t], e)
        /\ \A b : ~ WritingTo(script[t], b)
    BY <1>1 DEF Notifying, ReadingFrom, WritingTo
  <2> QED
    BY <1>5, <2>1
<1>8. ASSUME NEW b \in Blocks, Covered(b), b # c PROVE Covered(b)'
  <2> DEFINE u == ThreadOf[b]
  <2>1. u \in Threads
    BY ThreadOfMember
  <2>2. CASE Visiting(u, b)
    <3>1. PICK i \in DOMAIN Group[u] : i >= cur[u] /\ Group[u][i] = b
      BY <2>2 DEF Visiting
    <3>2. i \in Nat /\ cur[u] \in Nat
      BY <1>2, <2>1, GroupAssumption
    <3>3. i >= cur'[u]
      <4>1. CASE u = t
        <5>1. i # cur[u]
          BY <1>4, <1>8, <3>1, <4>1
        <5> QED
          BY <1>1, <1>2, <3>1, <3>2, <4>1, <5>1
      <4>2. CASE u # t
        BY <1>1, <1>2, <2>1, <3>1, <4>2
      <4> QED
        BY <4>1, <4>2
    <3>4. Visiting(u, b)'
      BY <1>1, <2>2, <3>1, <3>3 DEF Visiting
    <3> QED
      BY <3>4 DEF Covered
  <2>3. CASE \E v \in Threads : Notifying(script[v], u)
    <3>1. \E v \in Threads : Notifying(script'[v], u)
      BY <1>7, <2>1, <2>3
    <3> QED
      BY <3>1 DEF Covered, Notifying
  <2>4. CASE pc[u] \in {"start", "exited"} \/ note[u] \/ (pc[u] = "poll" /\ work[u])
    BY <1>1, <2>4 DEF Covered
  <2> QED
    BY <1>8, <2>2, <2>3, <2>4 DEF Covered
<1>9. \A b \in Blocks : Stuck(b) => Stuck(b)'
  BY <1>1 DEF Stuck
<1>10. ASSUME NEW b \in Blocks, Notifying(script'[t], ThreadOf[b]) PROVE Handled(b)'
  BY <1>10 DEF Handled, Covered, Notifying
<1>11. Resting(c)'
  <2>1. \A e \in Out[c] : WritingTo(script'[t], c) /\ Handled(e[2])'
    BY <1>2, <1>6, <1>10, EdgeEnds
  <2>2. \A e \in In[c] : ReadingFrom(script'[t], e) /\ Handled(e[1])'
    BY <1>2, <1>6, <1>10, EdgeEnds
  <2> QED
    BY <2>1, <2>2 DEF Resting, WritingTo, ReadingFrom
<1>12. \A b \in Blocks : b # c /\ Handled(b) => Handled(b)'
  BY <1>8, <1>9 DEF Handled
<1>13. ASSUME NEW b \in Blocks, Resting(b), b # c PROVE Resting(b)' \/ Handled(b)'
  <2>1. CASE \E e \in In[c] : e[1] = b
    BY <1>6, <1>10, <2>1
  <2>2. CASE \E e \in Out[c] : e[2] = b
    BY <1>6, <1>10, <2>2
  <2>3. CASE (\A e \in In[c] : e[1] # b) /\ (\A e \in Out[c] : e[2] # b)
    <3>1. /\ \A e \in Out[b] : e[2] # c /\ e[2] \in Blocks
          /\ \A e \in In[b] : e[1] # c /\ e[1] \in Blocks
      BY <2>3, <1>2, EdgeEnds DEF In, Out
    <3>2. \A e \in Out[b] : /\ fill'[e] > 0 \/ \E u \in Threads : WritingTo(script'[u], b)
                            /\ Handled(e[2])'
      BY <1>1, <1>7, <1>12, <1>13, <3>1 DEF Resting
    <3>3. \A e \in In[b] : /\ fill'[e] < BufItems - 1 \/ \E u \in Threads : ReadingFrom(script'[u], e)
                           /\ Handled(e[1])'
      BY <1>1, <1>7, <1>12, <1>13, <3>1 DEF Resting
    <3> QED
      BY <3>2, <3>3 DEF Resting, WritingTo, ReadingFrom
  <2> QED
    BY <2>1, <2>2, <2>3
<1> QED
  BY <1>11, <1>12, <1>13 DEF Settled

(* Posting: a notification that has been taken from a script is in a queue,
   and what a port was waited for is followed by one. *)
LEMMA PostedScripts ==
  ASSUME FlowInv, NEW t \in Threads, script[t] # <<>>, Posted(t), UNCHANGED <<pc, work, cur>>,
         \A u \in Threads : note[u] => note'[u],
         script[t][1].op = "notify" => note'[script[t][1].to]
  PROVE  /\ \A b \in Blocks : Covered(b) => Covered(b)'
         /\ \A b \in Blocks : Notifying(Tail(script[t]), ThreadOf[b]) => Handled(b)'
         /\ \A u \in Threads : \A e : ReadingFrom(script[u], e) =>
              ReadingFrom(script'[u], e) \/ (script[t][1].op = "read" /\ script[t][1].edge = e)
         /\ \A u \in Threads : \A b : WritingTo(script[u], b) =>
              WritingTo(script'[u], b) \/ (script[t][1].op = "write" /\ script[t][1].block = b)
<1> DEFINE s == script[t]
<1>1. /\ script' = [script EXCEPT ![t] = Tail(s)] /\ DOMAIN script = Threads
      /\ s \in Seq(Tasks(t)) /\ s # <<>> /\ Head(s) = s[1]
  BY ScriptTail DEF Posted, FlowInv, ScriptInv
<1>2. /\ script'[t] = Tail(s) /\ \A u \in Threads : u # t => script'[u] = script[u]
  BY <1>1
<1>3. /\ \A v : Notifying(s, v) => Notifying(Tail(s), v) \/ (s[1].op = "notify" /\ s[1].to = v)
      /\ \A e : ReadingFrom(s, e) => ReadingFrom(Tail(s), e) \/ (s[1].op = "read" /\ s[1].edge = e)
      /\ \A b : WritingTo(s, b) => WritingTo(Tail(s), b) \/ (s[1].op = "write" /\ s[1].block = b)
  BY <1>1, TailShape
<1>4. ASSUME NEW b \in Blocks, Covered(b) PROVE Covered(b)'
  <2>1. CASE \E u \in Threads : Notifying(script[u], ThreadOf[b])
    <3>1. (\E u \in Threads : Notifying(script'[u], ThreadOf[b])) \/ note'[ThreadOf[b]]
      BY <1>2, <1>3, <2>1
    <3> QED
      BY <3>1 DEF Covered, Notifying
  <2>2. CASE ~ \E u \in Threads : Notifying(script[u], ThreadOf[b])
    <3>1. ThreadOf[b] \in Threads
      BY ThreadOfMember
    <3> QED
      BY <1>4, <2>2, <3>1 DEF Covered, Visiting
  <2> QED
    BY <2>1, <2>2
<1>5. ASSUME NEW b \in Blocks, Notifying(Tail(script[t]), ThreadOf[b]) PROVE Handled(b)'
  BY <1>2, <1>5 DEF Handled, Covered, Notifying
<1>6. \A u \in Threads : \A e : ReadingFrom(script[u], e) =>
              ReadingFrom(script'[u], e) \/ (script[t][1].op = "read" /\ script[t][1].edge = e)
  BY <1>2, <1>3
<1>7. \A u \in Threads : \A b : WritingTo(script[u], b) =>
              WritingTo(script'[u], b) \/ (script[t][1].op = "write" /\ script[t][1].block = b)
  BY <1>2, <1>3
<1> QED
  BY <1>4, <1>5, <1>6, <1>7

(* What was to be notified has a NOTIFY in its queue. *)
LEMMA NotifyPortSettled ==
  ASSUME FlowInv, Over => Over', Settled, NEW t \in Threads, NotifyPort(t)
  PROVE  Settled'
<1> USE DEF loopVars, dataVars
<1>1. /\ script[t] # <<>> /\ Posted(t) /\ UNCHANGED <<pc, work, cur, fill>>
      /\ note' = [note EXCEPT ![Head(script[t]).to] = TRUE]
      /\ Head(script[t]) = script[t][1] /\ script[t][1].op = "notify"
      /\ script[t][1] \in Tasks(t)
  BY ScriptTail DEF NotifyPort, Posts, FlowInv
<1>2. note \in [Threads -> BOOLEAN] /\ script[t][1].to \in Threads
  BY <1>1 DEF FlowInv, TypeOK, Tasks
<1>3. (\A u \in Threads : note[u] => note'[u]) /\ note'[script[t][1].to]
  BY <1>1, <1>2
<1>4. /\ \A b \in Blocks : Covered(b) => Covered(b)'
      /\ \A u \in Threads : \A e : ReadingFrom(script[u], e) => ReadingFrom(script'[u], e)
      /\ \A u \in Threads : \A b : WritingTo(script[u], b) => WritingTo(script'[u], b)
  BY <1>1, <1>3, PostedScripts
<1>5. \A b \in Blocks : Handled(b) => Handled(b)'
  BY <1>1, <1>4 DEF Handled, Stuck
<1>6. ASSUME NEW b \in Blocks, Resting(b) PROVE Resting(b)'
  <2>1. \A e \in Out[b] : /\ fill'[e] > 0 \/ \E u \in Threads : WritingTo(script'[u], b)
                          /\ Handled(e[2])'
    BY <1>1, <1>4, <1>5, <1>6, EdgeEnds DEF Resting
  <2>2. \A e \in In[b] : /\ fill'[e] < BufItems - 1 \/ \E u \in Threads : ReadingFrom(script'[u], e)
                         /\ Handled(e[1])'
    BY <1>1, <1>4, <1>5, <1>6, EdgeEnds DEF Resting
  <2> QED
    BY <2>1, <2>2 DEF Resting, WritingTo, ReadingFrom
<1> QED
  BY <1>5, <1>6, SettledFrame

(* A post_read makes room for the writer, which is notified next. *)
LEMMA PostReadSettled ==
  ASSUME FlowInv, FlowInv', PostInv, Over => Over', Settled, NEW t \in Threads, PostRead(t)
  PROVE  Settled'
<1> USE DEF loopVars, queueVars
<1>0. PICK e0 : e0 = script[t][1].edge
  OBVIOUS
<1>1. /\ script[t] # <<>> /\ Posted(t) /\ UNCHANGED <<pc, work, cur, note>>
      /\ Head(script[t]) = script[t][1] /\ script[t][1].op = "read"
      /\ script[t][1] \in Tasks(t) /\ 1 \in DOMAIN script[t]
      /\ fill' = [fill EXCEPT ![e0] = @ - script[t][1].n]
  BY <1>0, ScriptTail DEF PostRead, Posts, FlowInv
<1>2. e0 \in Edges /\ script[t][1].n \in Nat /\ e0[1] \in Blocks /\ e0[2] \in Blocks
  BY <1>0, <1>1, GraphAssumption DEF Tasks
<1>3. \A e \in Edges : fill[e] \in 0..(BufItems - 1) /\ fill'[e] \in 0..(BufItems - 1)
  BY DEF FlowInv, TypeOK
<1>4. BufItems \in Nat /\ \A e \in Edges : e # e0 => fill'[e] = fill[e]
  BY <1>1, GraphAssumption DEF FlowInv, TypeOK
<1>5. Over \/ fill'[e0] < fill[e0]
  <2>1. Over \/ script[t][1].n > 0
    BY <1>1 DEF PostInv, MovesItems
  <2>2. fill'[e0] = fill[e0] - script[t][1].n
    BY <1>1, <1>2 DEF FlowInv, TypeOK
  <2> QED
    BY <1>2, <1>3, <2>1, <2>2
<1> SUFFICES ASSUME ~ Over PROVE Settled'
  BY DEF Settled
<1>6. /\ \A b \in Blocks : Covered(b) => Covered(b)'
      /\ \A b \in Blocks : Notifying(Tail(script[t]), ThreadOf[b]) => Handled(b)'
      /\ \A u \in Threads : \A e : ReadingFrom(script[u], e) => ReadingFrom(script'[u], e) \/ e = e0
      /\ \A u \in Threads : \A b : WritingTo(script[u], b) => WritingTo(script'[u], b)
  BY <1>0, <1>1, PostedScripts
<1>7. Handled(e0[1])'
  <2>1. script[t] \in Seq(Tasks(t)) /\ NotifiesAfter(script[t])
    BY DEF FlowInv, ScriptInv, PostInv
  <2>2. Notifying(Tail(script[t]), ThreadOf[e0[1]])
    BY <1>0, <1>1, <2>1, TailShape
  <2> QED
    BY <1>2, <1>6, <2>2
<1>8. ASSUME NEW b \in Blocks, Stuck(b), b # e0[1] PROVE Stuck(b)'
  <2>1. CASE \E e \in In[b] : fill[e] = 0
    <3>1. PICK e \in In[b] : fill[e] = 0
      BY <2>1
    <3>2. e \in Edges
      BY <3>1, EdgeEnds
    <3>3. fill'[e] = 0
      BY <1>2, <1>3, <1>4, <1>5, <3>1, <3>2
    <3> QED
      BY <3>3 DEF Stuck
  <2>2. CASE \E e \in Out[b] : fill[e] = BufItems - 1
    <3>1. PICK e \in Out[b] : fill[e] = BufItems - 1
      BY <2>2
    <3>2. e \in Edges /\ e # e0
      BY <1>8, <3>1, EdgeEnds
    <3> QED
      BY <1>4, <3>1, <3>2 DEF Stuck
  <2> QED
    BY <1>8, <2>1, <2>2 DEF Stuck
<1>9. \A b \in Blocks : Handled(b) => Handled(b)'
  BY <1>6, <1>7, <1>8 DEF Handled
<1>10. ASSUME NEW b \in Blocks, Resting(b), b # e0[1] PROVE Resting(b)'
  <2>1. \A e \in Out[b] : e \in Edges /\ e # e0 /\ e[2] \in Blocks
    BY <1>10, EdgeEnds
  <2>2. \A e \in Out[b] : /\ fill'[e] > 0 \/ \E u \in Threads : WritingTo(script'[u], b)
                          /\ Handled(e[2])'
    BY <1>4, <1>6, <1>9, <1>10, <2>1 DEF Resting
  <2>3. ASSUME NEW e \in In[b]
        PROVE  /\ fill'[e] < BufItems - 1 \/ \E u \in Threads : ReadingFrom(script'[u], e)
               /\ Handled(e[1])'
    <3>1. e \in Edges /\ e[1] \in Blocks
      BY EdgeEnds
    <3>2. Handled(e[1])'
      BY <1>9, <1>10, <3>1 DEF Resting
    <3>3. CASE e = e0
      BY <1>2, <1>3, <1>4, <1>5, <3>2, <3>3
    <3>4. CASE e # e0
      BY <1>4, <1>6, <1>10, <3>1, <3>2, <3>4 DEF Resting
    <3> QED
      BY <3>3, <3>4
  <2> QED
    BY <2>2, <2>3 DEF Resting, WritingTo, ReadingFrom
<1> QED
  BY <1>7, <1>9, <1>10, SettledFrame

(* A post_write gives its readers items; they are notified next. *)
LEMMA PostWriteSettled ==
  ASSUME FlowInv, FlowInv', PostInv, Over => Over', Settled, NEW t \in Threads, PostWrite(t)
  PROVE  Settled'
<1> USE DEF loopVars, queueVars
<1>0. PICK c : c = script[t][1].block
  OBVIOUS
<1>1. /\ script[t] # <<>> /\ Posted(t) /\ UNCHANGED <<pc, work, cur, note>>
      /\ Head(script[t]) = script[t][1] /\ script[t][1].op = "write"
      /\ script[t][1] \in Tasks(t) /\ 1 \in DOMAIN script[t]
      /\ fill' = [e \in Edges |-> IF e \in Out[c] THEN fill[e] + script[t][1].n ELSE fill[e]]
  BY <1>0, ScriptTail DEF PostWrite, Posts, FlowInv
<1>2. c \in Blocks /\ script[t][1].n \in Nat
  BY <1>0, <1>1, ThreadOfMember DEF Tasks
<1>3. \A e \in Edges : fill[e] \in 0..(BufItems - 1) /\ fill'[e] \in 0..(BufItems - 1)
  BY DEF FlowInv, TypeOK
<1>4. BufItems \in Nat /\ \A e \in Edges : e \notin Out[c] => fill'[e] = fill[e]
  BY <1>1, GraphAssumption
<1>5. Over \/ \A e \in Out[c] : fill[e] < fill'[e]
  <2>1. Over \/ script[t][1].n > 0
    BY <1>1 DEF PostInv, MovesItems
  <2>2. \A e \in Out[c] : e \in Edges /\ fill'[e] = fill[e] + script[t][1].n
    BY <1>1, <1>2, EdgeEnds
  <2> QED
    BY <1>2, <1>3, <2>1, <2>2
<1> SUFFICES ASSUME ~ Over PROVE Settled'
  BY DEF Settled
<1>6. /\ \A b \in Blocks : Covered(b) => Covered(b)'
      /\ \A b \in Blocks : Notifying(Tail(script[t]), ThreadOf[b]) => Handled(b)'
      /\ \A u \in Threads : \A e : ReadingFrom(script[u], e) => ReadingFrom(script'[u], e)
      /\ \A u \in Threads : \A b : WritingTo(script[u], b) => WritingTo(script'[u], b) \/ b = c
  BY <1>0, <1>1, PostedScripts
<1>7. \A e \in Out[c] : Handled(e[2])'
  <2>1. script[t] \in Seq(Tasks(t)) /\ NotifiesAfter(script[t])
    BY DEF FlowInv, ScriptInv, PostInv
  <2>2. \A e \in Out[c] : Notifying(Tail(script[t]), ThreadOf[e[2]])
    BY <1>0, <1>1, <2>1, TailShape
  <2> QED
    BY <1>2, <1>6, <2>2, EdgeEnds
<1>8. ASSUME NEW b \in Blocks, Stuck(b) PROVE Handled(b)'
  <2>1. CASE \E e \in In[b] : fill[e] = 0
    <3>1. PICK e \in In[b] : fill[e] = 0
      BY <2>1
    <3>2. e \in Edges /\ e[2] = b
      BY <3>1, EdgeEnds
    <3>3. CASE e \in Out[c]
      BY <1>7, <3>2, <3>3
    <3>4. CASE e \notin Out[c]
      BY <1>4, <3>1, <3>2, <3>4 DEF Handled, Stuck
    <3> QED
      BY <3>3, <3>4
  <2>2. CASE \E e \in Out[b] : fill[e] = BufItems - 1
    <3>1. PICK e \in Out[b] : fill[e] = BufItems - 1
      BY <2>2
    <3>2. e \in Edges
      BY <3>1, EdgeEnds
    <3>3. e \notin Out[c]
      BY <1>3, <1>4, <1>5, <3>1, <3>2
    <3> QED
      BY <1>4, <3>1, <3>2, <3>3 DEF Handled, Stuck
  <2> QED
    BY <1>8, <2>1, <2>2 DEF Stuck
<1>9. \A b \in Blocks : Handled(b) => Handled(b)'
  BY <1>6, <1>8 DEF Handled
<1>10. ASSUME NEW b \in Blocks, Resting(b) PROVE Resting(b)' \/ Handled(b)'
  <2>1. CASE \E e \in In[b] : e \in Out[c]
    BY <1>7, <2>1, EdgeEnds
  <2>2. CASE \A e \in In[b] : e \notin Out[c]
    <3>1. ASSUME NEW e \in Out[b]
          PROVE  /\ fill'[e] > 0 \/ \E u \in Threads : WritingTo(script'[u], b)
                 /\ Handled(e[2])'
      <4>1. e \in Edges /\ e[2] \in Blocks
        BY EdgeEnds
      <4>2. Handled(e[2])'
        BY <1>9, <1>10, <4>1 DEF Resting
      <4>3. CASE b = c
        BY <1>3, <1>5, <4>1, <4>2, <4>3
      <4>4. CASE b # c
        <5>1. e \notin Out[c]
          BY <1>2, <4>4, EdgeEnds
        <5> QED
          BY <1>4, <1>6, <1>10, <4>1, <4>2, <4>4, <5>1 DEF Resting
      <4> QED
        BY <4>3, <4>4
    <3>2. \A e \in In[b] : /\ fill'[e] < BufItems - 1 \/ \E u \in Threads : ReadingFrom(script'[u], e)
                           /\ Handled(e[1])'
      BY <1>4, <1>6, <1>9, <1>10, <2>2, EdgeEnds DEF Resting
    <3> QED
      BY <3>1, <3>2 DEF Resting, WritingTo, ReadingFrom
  <2> QED
    BY <2>1, <2>2
<1> QED
  BY <1>9, <1>10, SettledFrame

-----------------------------------------------------------------------------
(* Conserved: the counts behind the fills. *)
LEMMA ConservedFrame ==
  ASSUME Conserved, UNCHANGED <<fill, script>> PROVE Conserved'
<1>1. PICK processed \in [Blocks -> Nat], written \in [Blocks -> Nat], got \in [Edges -> Nat] :
        Counts(processed, written, got)
  BY DEF Conserved
<1>2. Counts(processed, written, got)'
  BY <1>1 DEF Counts, WritingTo, ReadingFrom
<1> QED
  BY <1>2 DEF Conserved

(* A task that is left after a post is one of the tasks before, and not the one
   posted. *)
LEMMA TasksLeft ==
  ASSUME FlowInv, NEW t \in Threads, script[t] # <<>>, Posted(t),
         NEW u \in Threads, NEW i \in DOMAIN script'[u]
  PROVE  \E j \in DOMAIN script[u] : script'[u][i] = script[u][j] /\ (u # t \/ j # 1)
<1>1. script' = [script EXCEPT ![t] = Tail(script[t])] /\ DOMAIN script = Threads
      /\ \A v \in Threads : script[v] \in Seq(Tasks(v))
  BY DEF Posted, FlowInv, ScriptInv
<1>2. CASE u # t
  BY <1>1, <1>2
<1>3. CASE u = t
  <2> DEFINE s == script[t]
             r == Tail(s)
  <2>1. /\ script'[u] = r /\ r \in Seq(Tasks(t)) /\ s \in Seq(Tasks(t)) /\ Len(s) \in Nat
        /\ \A k \in 1..Len(r) : r[k] = s[k + 1] /\ k + 1 \in 1..Len(s)
    BY <1>1, <1>3, ScriptTail DEF FlowInv
  <2> HIDE DEF s, r
  <2>2. i \in 1..Len(r) /\ DOMAIN s = 1..Len(s)
    BY <2>1
  <2>3. i + 1 \in DOMAIN s /\ r[i] = s[i + 1] /\ i + 1 # 1
    BY <2>1, <2>2
  <2> QED
    BY <1>3, <2>1, <2>3 DEF s
<1> QED
  BY <1>2, <1>3

(* What a task is about. *)
LEMMA TaskTypes ==
  ASSUME FlowInv, NEW u \in Threads, NEW i \in DOMAIN script[u]
  PROVE  LET s == script[u][i] IN
         /\ s.op = "read" => /\ s.edge \in Edges /\ s.edge[2] \in Blocks
                             /\ ThreadOf[s.edge[2]] = u /\ s.n \in Nat
         /\ s.op = "write" => s.block \in Blocks /\ ThreadOf[s.block] = u /\ s.n \in Nat
<1>1. script[u][i] \in Tasks(u)
  <2>1. script[u] \in Seq(Tasks(u))
    BY DEF FlowInv, ScriptInv
  <2> QED
    BY <2>1, ElementOfSeq
<1>2. script[u][i].op = "read" => /\ script[u][i].edge \in Edges /\ script[u][i].n \in Nat
                                  /\ ThreadOf[script[u][i].edge[2]] = u
  BY <1>1 DEF Tasks
<1>3. script[u][i].op = "write" => script[u][i].block \in Members[u] /\ script[u][i].n \in Nat
  BY <1>1 DEF Tasks
<1>4. \A e \in Edges : e[2] \in Blocks
  BY GraphAssumption
<1> QED
  BY <1>2, <1>3, <1>4, ThreadOfMember

(* A work call processes n items, all of which are still to be posted. *)
LEMMA DoWorkConserved ==
  ASSUME FlowInv, Conserved, NEW t \in Threads, NEW n \in 0..BufItems, DoWork(t, n)
  PROVE  Conserved'
<1>0. PICK c \in Blocks : c = Current(t) /\ ThreadOf[c] = t
  <2>1. AtBlock(t)
    BY DEF DoWork
  <2> QED
    BY <2>1, CurrentBlock
<1>1. /\ fill' = fill /\ script[t] = <<>>
      /\ script' = [script EXCEPT ![t] = Posting(c, n)]
  BY <1>0 DEF DoWork, AtBlock
<1>2. n \in Nat
  BY WorkMoves
<1> DEFINE s == Posting(c, n)
<1>3. /\ \A i \in DOMAIN s : /\ s[i].op \in {"read", "write"} => s[i].n = n
                             /\ s[i].op = "read" => s[i].edge \in In[c]
                             /\ s[i].op = "write" => s[i].block = c /\ Out[c] # {}
      /\ \A e \in In[c] : ReadingFrom(s, e)
      /\ \A e \in Out[c] : WritingTo(s, c)
  BY <1>2, PostingShape
<1>4. script'[t] = s /\ \A u \in Threads : u # t => script'[u] = script[u]
  BY <1>1 DEF FlowInv, ScriptInv
<1> HIDE DEF s
<1>5. PICK processed \in [Blocks -> Nat], written \in [Blocks -> Nat], got \in [Edges -> Nat] :
        Counts(processed, written, got)
  BY DEF Conserved
<1> DEFINE more == [processed EXCEPT ![c] = processed[c] + n]
<1>6. /\ more \in [Blocks -> Nat] /\ more[c] = processed[c] + n
      /\ \A b \in Blocks : b # c => more[b] = processed[b]
  BY <1>2
<1> HIDE DEF more
<1>7. ASSUME NEW u \in Threads, NEW i \in DOMAIN script[u]
      PROVE  /\ u # t
             /\ script[u][i].op = "read" => /\ script[u][i].edge \in Edges
                                            /\ script[u][i].edge[2] \in Blocks /\ script[u][i].edge[2] # c
             /\ script[u][i].op = "write" => script[u][i].block \in Blocks /\ script[u][i].block # c
  <2>1. u # t
    BY <1>1
  <2> QED
    BY <1>0, <2>1, TaskTypes
<1>8. /\ \A b \in Blocks : (\E u \in Threads : WritingTo(script[u], b)) => (\E u \in Threads : WritingTo(script'[u], b))
      /\ \A e \in Edges : (\E u \in Threads : ReadingFrom(script[u], e)) => (\E u \in Threads : ReadingFrom(script'[u], e))
  BY <1>4, <1>7 DEF WritingTo, ReadingFrom
<1>9. \A b \in Blocks : Out[b] # {} /\ (\A u \in Threads : ~ WritingTo(script'[u], b)) => written[b] = more[b]
  <2>1. \A b \in Blocks : Out[b] # {} /\ (\A u \in Threads : ~ WritingTo(script'[u], b))
          => b # c /\ written[b] = processed[b]
    BY <1>3, <1>4, <1>5, <1>8 DEF Counts
  <2> QED
    BY <1>6, <2>1
<1>10. \A e \in Edges : (\A u \in Threads : ~ ReadingFrom(script'[u], e)) => got[e] = more[e[2]]
  <2>1. \A e \in Edges : (\A u \in Threads : ~ ReadingFrom(script'[u], e))
          => e \notin In[c] /\ got[e] = processed[e[2]]
    BY <1>3, <1>4, <1>5, <1>8 DEF Counts
  <2>2. \A e \in Edges : e \notin In[c] => e[2] \in Blocks /\ e[2] # c
    BY <1>0, GraphAssumption DEF In
  <2> QED
    BY <1>6, <2>1, <2>2
<1>11. ASSUME NEW i \in DOMAIN s
       PROVE  /\ s[i].op = "write" => written[s[i].block] + s[i].n = more[s[i].block]
              /\ s[i].op = "read" => got[s[i].edge] + s[i].n = more[s[i].edge[2]]
  <2>1. (\A u \in Threads : ~ WritingTo(script[u], c)) /\ \A u \in Threads : \A e \in In[c] : ~ ReadingFrom(script[u], e)
    BY <1>0, <1>7, EdgeEnds DEF WritingTo, ReadingFrom
  <2>2. CASE s[i].op = "write"
    <3>1. s[i].block = c /\ s[i].n = n
      BY <1>3, <2>2
    <3>2. written[c] = processed[c]
      <4>1. Out[c] # {}
        BY <1>3, <2>2
      <4> QED
        BY <1>5, <2>1, <4>1 DEF Counts
    <3> QED
      BY <1>6, <2>2, <3>1, <3>2
  <2>3. CASE s[i].op = "read"
    <3>1. s[i].edge \in In[c] /\ s[i].n = n
      BY <1>3, <2>3
    <3>2. s[i].edge \in Edges /\ s[i].edge[2] = c
      BY <3>1, EdgeEnds
    <3>3. got[s[i].edge] = processed[c]
      BY <1>5, <2>1, <3>1, <3>2 DEF Counts
    <3> QED
      BY <1>6, <2>3, <3>1, <3>2, <3>3
  <2> QED
    BY <2>2, <2>3
<1>12. ASSUME NEW u \in Threads, NEW i \in DOMAIN script'[u]
       PROVE  /\ script'[u][i].op = "write" =>
                   written[script'[u][i].block] + script'[u][i].n = more[script'[u][i].block]
              /\ script'[u][i].op = "read" =>
                   got[script'[u][i].edge] + script'[u][i].n = more[script'[u][i].edge[2]]
  <2>1. CASE u = t
    BY <1>4, <1>11, <2>1
  <2>2. CASE u # t
    <3>1. script'[u] = script[u]
      BY <1>4, <2>2
    <3>2. i \in DOMAIN script[u]
      BY <3>1
    <3>3. /\ script[u][i].op = "write" => written[script[u][i].block] + script[u][i].n = processed[script[u][i].block]
          /\ script[u][i].op = "read" => got[script[u][i].edge] + script[u][i].n = processed[script[u][i].edge[2]]
      BY <1>5, <3>2 DEF Counts
    <3>4. /\ script[u][i].op = "write" => more[script[u][i].block] = processed[script[u][i].block]
          /\ script[u][i].op = "read" => more[script[u][i].edge[2]] = processed[script[u][i].edge[2]]
      BY <1>6, <1>7, <3>2
    <3> QED
      BY <3>1, <3>3, <3>4
  <2> QED
    BY <2>1, <2>2
<1>13. Counts(more, written, got)'
  BY <1>1, <1>5, <1>9, <1>10, <1>12 DEF Counts, WritingTo, ReadingFrom
<1> QED
  BY <1>5, <1>6, <1>13 DEF Conserved

(* Counting a post: every port is posted once. *)
LEMMA PostReadConserved ==
  ASSUME FlowInv, Conserved, NEW t \in Threads, PostRead(t) PROVE Conserved'
<1> USE DEF loopVars, queueVars
<1>0. PICK task : task = script[t][1]
  OBVIOUS
<1>1. /\ script[t] # <<>> /\ Posted(t) /\ UNCHANGED <<pc, work, cur, note>>
      /\ task.op = "read" /\ 1 \in DOMAIN script[t]
      /\ fill' = [fill EXCEPT ![task.edge] = @ - task.n]
      /\ PostedOnce(script[t]) /\ DOMAIN script[t] = 1..Len(script[t])
  BY <1>0, ScriptTail DEF PostRead, Posts, FlowInv, ScriptInv
<1>2. PICK e0 \in Edges, n \in Nat : e0 = task.edge /\ n = task.n /\ ThreadOf[e0[2]] = t
  BY <1>0, <1>1, TaskTypes
<1>3. \A e \in Edges : fill'[e] = IF e = e0 THEN fill[e] - n ELSE fill[e]
  BY <1>1, <1>2 DEF FlowInv, TypeOK
<1>4. PICK processed \in [Blocks -> Nat], written \in [Blocks -> Nat], got \in [Edges -> Nat] :
        Counts(processed, written, got)
  BY DEF Conserved
<1> DEFINE more == [got EXCEPT ![e0] = got[e0] + n]
<1>5. more \in [Edges -> Nat] /\ more[e0] = got[e0] + n /\ \A e \in Edges : e # e0 => more[e] = got[e]
  BY <1>2
<1> HIDE DEF more
<1>6. more[e0] = processed[e0[2]]
  BY <1>0, <1>1, <1>2, <1>4, <1>5 DEF Counts
<1>7. /\ \A u \in Threads : \A e : ReadingFrom(script[u], e) => ReadingFrom(script'[u], e) \/ e = e0
      /\ \A u \in Threads : \A b : WritingTo(script[u], b) => WritingTo(script'[u], b)
  BY <1>0, <1>1, <1>2, PostedScripts
<1>8. ASSUME NEW e \in Edges PROVE fill'[e] = written[e[1]] - more[e]
  <2>1. fill[e] = written[e[1]] - got[e] /\ e[1] \in Blocks
    BY <1>4, GraphAssumption DEF Counts
  <2>2. written[e[1]] \in Nat /\ got[e] \in Nat
    BY <2>1
  <2>3. CASE e = e0
    <3>1. fill'[e] = fill[e] - n /\ more[e] = got[e] + n
      BY <1>3, <1>5, <2>3
    <3> QED
      BY <1>2, <2>1, <2>2, <3>1
  <2>4. CASE e # e0
    BY <1>3, <1>5, <2>1, <2>4
  <2> QED
    BY <2>3, <2>4
<1>9. \A b \in Blocks : Out[b] # {} /\ (\A u \in Threads : ~ WritingTo(script'[u], b))
                        => written[b] = processed[b]
  BY <1>4, <1>7 DEF Counts
<1>10. ASSUME NEW e \in Edges, \A u \in Threads : ~ ReadingFrom(script'[u], e)
       PROVE  more[e] = processed[e[2]]
  <2>1. CASE e = e0
    BY <1>6, <2>1
  <2>2. CASE e # e0
    <3>1. \A u \in Threads : ~ ReadingFrom(script[u], e)
      BY <1>7, <1>10, <2>2
    <3> QED
      BY <1>4, <1>5, <2>2, <3>1 DEF Counts
  <2> QED
    BY <2>1, <2>2
<1>11. ASSUME NEW u \in Threads, NEW i \in DOMAIN script'[u]
       PROVE  LET s == script'[u][i] IN
              /\ s.op = "write" => written[s.block] + s.n = processed[s.block]
              /\ s.op = "read" => more[s.edge] + s.n = processed[s.edge[2]]
  <2>0. script[t] # <<>> /\ Posted(t)
    BY <1>1
  <2>1. PICK j \in DOMAIN script[u] : script'[u][i] = script[u][j] /\ (u # t \/ j # 1)
    BY <2>0, <1>11, TasksLeft
  <2> DEFINE s == script[u][j]
  <2>2. /\ s.op = "write" => written[s.block] + s.n = processed[s.block]
        /\ s.op = "read" => got[s.edge] + s.n = processed[s.edge[2]]
    BY <1>4 DEF Counts
  <2>3. ASSUME s.op = "read" PROVE s.edge \in Edges /\ s.edge # e0
    <3>1. s.edge \in Edges /\ ThreadOf[s.edge[2]] = u
      BY <2>3, TaskTypes
    <3>2. CASE u # t
      BY <1>2, <3>1, <3>2
    <3>3. CASE u = t
      BY <1>0, <1>1, <1>2, <2>1, <2>3, <3>1, <3>3 DEF PostedOnce
    <3> QED
      BY <3>2, <3>3
  <2>4. s.op = "read" => more[s.edge] = got[s.edge]
    BY <1>5, <2>3
  <2> HIDE DEF s
  <2>5. /\ s.op = "write" => written[s.block] + s.n = processed[s.block]
        /\ s.op = "read" => more[s.edge] + s.n = processed[s.edge[2]]
    BY <2>2, <2>4
  <2> QED
    BY <2>1, <2>5 DEF s
<1>12. Counts(processed, written, more)'
  BY <1>8, <1>9, <1>10, <1>11 DEF Counts, WritingTo, ReadingFrom
<1> QED
  BY <1>4, <1>5, <1>12 DEF Conserved

(* The same for post_write. *)
LEMMA PostWriteConserved ==
  ASSUME FlowInv, Conserved, NEW t \in Threads, PostWrite(t) PROVE Conserved'
<1> USE DEF loopVars, queueVars
<1>0. PICK task : task = script[t][1]
  OBVIOUS
<1>1. /\ script[t] # <<>> /\ Posted(t) /\ UNCHANGED <<pc, work, cur, note>>
      /\ task.op = "write" /\ 1 \in DOMAIN script[t]
      /\ fill' = [e \in Edges |-> IF e \in Out[task.block] THEN fill[e] + task.n ELSE fill[e]]
      /\ PostedOnce(script[t]) /\ DOMAIN script[t] = 1..Len(script[t])
  BY <1>0, ScriptTail DEF PostWrite, Posts, FlowInv, ScriptInv
<1>2. PICK c \in Blocks, n \in Nat : c = task.block /\ n = task.n /\ ThreadOf[c] = t
  BY <1>0, <1>1, TaskTypes
<1>3. \A e \in Edges : e[1] \in Blocks /\ fill'[e] = IF e[1] = c THEN fill[e] + n ELSE fill[e]
  <2>1. \A e \in Edges : e[1] \in Blocks /\ (e \in Out[c] <=> e[1] = c)
    BY GraphAssumption DEF Out
  <2> QED
    BY <1>1, <1>2, <2>1
<1>4. PICK processed \in [Blocks -> Nat], written \in [Blocks -> Nat], got \in [Edges -> Nat] :
        Counts(processed, written, got)
  BY DEF Conserved
<1> DEFINE more == [written EXCEPT ![c] = written[c] + n]
<1>5. more \in [Blocks -> Nat] /\ more[c] = written[c] + n /\ \A b \in Blocks : b # c => more[b] = written[b]
  BY <1>2
<1> HIDE DEF more
<1>6. more[c] = processed[c]
  BY <1>0, <1>1, <1>2, <1>4, <1>5 DEF Counts
<1>7. /\ \A u \in Threads : \A e : ReadingFrom(script[u], e) => ReadingFrom(script'[u], e)
      /\ \A u \in Threads : \A b : WritingTo(script[u], b) => WritingTo(script'[u], b) \/ b = c
  BY <1>0, <1>1, <1>2, PostedScripts
<1>8. ASSUME NEW e \in Edges PROVE fill'[e] = more[e[1]] - got[e]
  <2>1. fill[e] = written[e[1]] - got[e] /\ e[1] \in Blocks
    BY <1>3, <1>4 DEF Counts
  <2>2. written[e[1]] \in Nat /\ got[e] \in Nat
    BY <2>1
  <2>3. CASE e[1] = c
    <3>1. fill'[e] = fill[e] + n /\ more[e[1]] = written[e[1]] + n
      BY <1>3, <1>5, <2>3
    <3> QED
      BY <1>2, <2>1, <2>2, <3>1
  <2>4. CASE e[1] # c
    BY <1>3, <1>5, <2>1, <2>4
  <2> QED
    BY <2>3, <2>4
<1>9. ASSUME NEW b \in Blocks, Out[b] # {}, \A u \in Threads : ~ WritingTo(script'[u], b)
      PROVE  more[b] = processed[b]
  <2>1. CASE b = c
    BY <1>6, <2>1
  <2>2. CASE b # c
    <3>1. \A u \in Threads : ~ WritingTo(script[u], b)
      BY <1>7, <1>9, <2>2
    <3> QED
      BY <1>4, <1>5, <1>9, <2>2, <3>1 DEF Counts
  <2> QED
    BY <2>1, <2>2
<1>10. \A e \in Edges : (\A u \in Threads : ~ ReadingFrom(script'[u], e)) => got[e] = processed[e[2]]
  BY <1>4, <1>7 DEF Counts
<1>11. ASSUME NEW u \in Threads, NEW i \in DOMAIN script'[u]
       PROVE  LET s == script'[u][i] IN
              /\ s.op = "write" => more[s.block] + s.n = processed[s.block]
              /\ s.op = "read" => got[s.edge] + s.n = processed[s.edge[2]]
  <2>0. script[t] # <<>> /\ Posted(t)
    BY <1>1
  <2>1. PICK j \in DOMAIN script[u] : script'[u][i] = script[u][j] /\ (u # t \/ j # 1)
    BY <2>0, <1>11, TasksLeft
  <2> DEFINE s == script[u][j]
  <2>2. /\ s.op = "write" => written[s.block] + s.n = processed[s.block]
        /\ s.op = "read" => got[s.edge] + s.n = processed[s.edge[2]]
    BY <1>4 DEF Counts
  <2>3. ASSUME s.op = "write" PROVE s.block \in Blocks /\ s.block # c
    <3>1. s.block \in Blocks /\ ThreadOf[s.block] = u
      BY <2>3, TaskTypes
    <3>2. CASE u # t
      BY <1>2, <3>1, <3>2
    <3>3. CASE u = t
      BY <1>0, <1>1, <1>2, <2>1, <2>3, <3>1, <3>3 DEF PostedOnce
    <3> QED
      BY <3>2, <3>3
  <2>4. s.op = "write" => more[s.block] = written[s.block]
    BY <1>5, <2>3
  <2> HIDE DEF s
  <2>5. /\ s.op = "write" => more[s.block] + s.n = processed[s.block]
        /\ s.op = "read" => got[s.edge] + s.n = processed[s.edge[2]]
    BY <2>2, <2>4
  <2> QED
    BY <2>1, <2>5 DEF s
<1>12. Counts(processed, more, got)'
  BY <1>8, <1>9, <1>10, <1>11 DEF Counts, WritingTo, ReadingFrom
<1> QED
  BY <1>4, <1>5, <1>12 DEF Conserved

(* A notification is not counted. *)
LEMMA NotifyPortConserved ==
  ASSUME FlowInv, Conserved, NEW t \in Threads, NotifyPort(t) PROVE Conserved'
<1> USE DEF loopVars, dataVars
<1>1. /\ script[t] # <<>> /\ Posted(t) /\ UNCHANGED <<pc, work, cur, fill>>
      /\ note' = [note EXCEPT ![Head(script[t]).to] = TRUE]
      /\ Head(script[t]) = script[t][1] /\ script[t][1].op = "notify"
      /\ script[t][1] \in Tasks(t)
  BY ScriptTail DEF NotifyPort, Posts, FlowInv
<1>2. note \in [Threads -> BOOLEAN] /\ script[t][1].to \in Threads
  BY <1>1 DEF FlowInv, TypeOK, Tasks
<1>3. (\A u \in Threads : note[u] => note'[u]) /\ note'[script[t][1].to]
  BY <1>1, <1>2
<1>4. /\ \A u \in Threads : \A e : ReadingFrom(script[u], e) => ReadingFrom(script'[u], e)
      /\ \A u \in Threads : \A b : WritingTo(script[u], b) => WritingTo(script'[u], b)
  BY <1>1, <1>3, PostedScripts
<1>5. PICK processed \in [Blocks -> Nat], written \in [Blocks -> Nat], got \in [Edges -> Nat] :
        Counts(processed, written, got)
  BY DEF Conserved
<1>6. ASSUME NEW u \in Threads, NEW i \in DOMAIN script'[u]
      PROVE  LET s == script'[u][i] IN
             /\ s.op = "write" => written[s.block] + s.n = processed[s.block]
             /\ s.op = "read" => got[s.edge] + s.n = processed[s.edge[2]]
  <2>1. \E j \in DOMAIN script[u] : script'[u][i] = script[u][j]
    BY <1>1, TasksLeft
  <2> QED
    BY <1>5, <2>1 DEF Counts
<1>7. /\ \A e \in Edges : fill'[e] = written[e[1]] - got[e]
      /\ \A b \in Blocks : Out[b] # {} /\ (\A u \in Threads : ~ WritingTo(script'[u], b))
                          => written[b] = processed[b]
      /\ \A e \in Edges : (\A u \in Threads : ~ ReadingFrom(script'[u], e)) => got[e] = processed[e[2]]
  BY <1>1, <1>4, <1>5 DEF Counts
<1>8. Counts(processed, written, got)'
  BY <1>6, <1>7 DEF Counts, WritingTo, ReadingFrom
<1> QED
  BY <1>8 DEF Conserved

(* Every step keeps the counts. *)
LEMMA ConservedStep == ASSUME FlowInv, Conserved, [Next]_vars PROVE Conserved'
<1> USE DEF dataVars, execVars, loopVars, flushVars, queueVars, monVars, appVars
<1>1. CASE AppNext \/ AppInterrupt
  <2>1. UNCHANGED <<fill, script>>
    BY <1>1 DEF AppNext, AppStart, AppMark, AppExit, AppJoin, AppKillMonitor, AppInterrupt
  <2> QED
    BY <2>1, ConservedFrame
<1>2. CASE MonNext
  <2>1. UNCHANGED <<fill, script>>
    BY <1>2 DEF MonNext, MonStart, MonStartThread, MonDone, MonPush, MonFlushed, MonIgnoreDone, MonKill
  <2> QED
    BY <2>1, ConservedFrame
<1>3. CASE \E t \in Threads : ThreadNext(t)
  <2> PICK t \in Threads : ThreadNext(t)
    BY <1>3
  <2>1. CASE \/ PopNotify(t) \/ PopDone(t) \/ PopExit(t)
             \/ BeginIteration(t) \/ PollEmpty(t) \/ ExitThread(t)
             \/ BlockedOnInput(t) \/ BlockedOnOutput(t) \/ HandleStatuses(t)
    <3>1. UNCHANGED <<fill, script>>
      BY <2>1 DEF PopNotify, PopDone, PopExit, BeginIteration, PollEmpty, ExitThread, BlockedOnInput,
                  BlockedOnOutput, HandleStatuses
    <3> QED
      BY <3>1, ConservedFrame
  <2>2. CASE \E n \in 0..BufItems : DoWork(t, n)
    BY <2>2, DoWorkConserved
  <2>3. CASE PostRead(t) \/ PostWrite(t) \/ NotifyPort(t)
    BY <2>3, PostReadConserved, PostWriteConserved, NotifyPortConserved
  <2> QED
    BY <2>1, <2>2, <2>3 DEF ThreadNext
<1>4. CASE UNCHANGED vars
  <2>1. UNCHANGED <<fill, script>>
    BY <1>4 DEF vars
  <2> QED
    BY <2>1, ConservedFrame
<1> QED
  BY <1>1, <1>2, <1>3, <1>4 DEF Next

-----------------------------------------------------------------------------
(* Every step settles the blocks again. *)
LEMMA SettledStep ==
  ASSUME Feedforward, Inv, FlowInv, FlowInv', PostInv, StartInv, Over => Over', Settled, [Next]_vars
  PROVE  Settled'
<1> USE DEF dataVars, execVars, loopVars, flushVars, queueVars, monVars, appVars
<1>0. /\ pc \in [Threads -> Places] /\ cur \in [Threads -> Nat]
      /\ note \in [Threads -> BOOLEAN] /\ work \in [Threads -> BOOLEAN]
  BY DEF Inv, ControlType, FlowInv, TypeOK
<1>1. CASE AppNext \/ AppInterrupt
  <2>1. UNCHANGED <<fill, script, pc, cur, note, work>>
    BY <1>1 DEF AppNext, AppStart, AppMark, AppExit, AppJoin, AppKillMonitor, AppInterrupt
  <2> QED
    BY <2>1, QuietSettled
<1>2. CASE MonNext
  <2>1. UNCHANGED <<fill, script, cur, work>>
    BY <1>2 DEF MonNext, MonStart, MonStartThread, MonDone, MonPush, MonFlushed, MonIgnoreDone, MonKill
  <2>2. \A t \in Threads : pc[t] # "start" => pc'[t] = pc[t]
    BY <1>2, MonStartsFromStart
  <2>3. \A t \in Threads : (note[t] => note'[t]) /\ (pc'[t] # pc[t] => note'[t])
    <3>1. CASE UNCHANGED <<pc, note>>
      BY <3>1
    <3>2. CASE MonStartThread
      <4>1. PICK u, v : pc' = [pc EXCEPT ![u] = v] /\ note' = [note EXCEPT ![u] = TRUE]
        BY <3>2 DEF MonStartThread
      <4> QED
        BY <1>0, <4>1
    <3> QED
      BY <1>2, <3>1, <3>2 DEF MonNext, MonStart, MonDone, MonPush, MonFlushed, MonIgnoreDone, MonKill
  <2> QED
    BY <2>1, <2>2, <2>3, QuietSettled
<1>3. CASE \E t \in Threads : ThreadNext(t)
  <2> PICK t \in Threads : ThreadNext(t)
    BY <1>3
  <2>1. CASE PopNotify(t) \/ PopDone(t) \/ PopExit(t)
             \/ BeginIteration(t) \/ PollEmpty(t) \/ ExitThread(t)
    <3>1. /\ UNCHANGED <<fill, script>> /\ pc[t] \in {"wait", "poll"}
          /\ \E v : pc' = [pc EXCEPT ![t] = v]
          /\ cur' = cur \/ cur' = [cur EXCEPT ![t] = 1]
          /\ \E v : note' = note \/ note' = [note EXCEPT ![t] = v]
          /\ \E v : work' = work \/ work' = [work EXCEPT ![t] = v]
      BY <2>1 DEF PopNotify, PopDone, PopExit, BeginIteration, PollEmpty, ExitThread, Popped, CanPop, PopEnded
    <3>2. note[t] \/ (pc[t] = "poll" /\ work[t])
           => \/ pc'[t] \in {"start", "exited"} \/ note'[t] \/ (pc'[t] = "poll" /\ work'[t])
              \/ pc'[t] = "iterate" /\ cur'[t] = 1
      <4>1. CASE PopNotify(t)
        BY <1>0, <4>1 DEF PopNotify, Popped
      <4>2. CASE PopDone(t)
        BY <1>0, <4>2 DEF PopDone
      <4>3. CASE PopExit(t)
        <5>1. note' = note /\ work' = work /\ pc'[t] = "poll"
          BY <1>0, <4>3 DEF PopExit, Popped
        <5> QED
          BY <5>1
      <4>4. CASE BeginIteration(t)
        BY <1>0, <4>4 DEF BeginIteration
      <4>5. CASE PollEmpty(t)
        <5>1. ~ work[t] /\ note' = note
          BY <4>5 DEF PollEmpty
        <5> QED
          BY <5>1
      <4>6. CASE ExitThread(t)
        BY <1>0, <4>6 DEF ExitThread
      <4> QED
        BY <2>1, <4>1, <4>2, <4>3, <4>4, <4>5, <4>6
    <3>3. \A u \in Threads : u # t => pc'[u] = pc[u] /\ cur'[u] = cur[u] /\ note'[u] = note[u] /\ work'[u] = work[u]
      BY <1>0, <3>1
    <3>4. \A u \in Threads :
           \/ pc[u] \in {"start", "exited"} \/ note[u] \/ (pc[u] = "poll" /\ work[u])
           => \/ pc'[u] \in {"start", "exited"} \/ note'[u] \/ (pc'[u] = "poll" /\ work'[u])
              \/ pc'[u] = "iterate" /\ cur'[u] = 1
      BY <3>1, <3>2, <3>3
    <3>5. \A u \in Threads :
           pc[u] = "iterate" => (pc'[u] = "iterate" /\ cur'[u] = cur[u]) \/ cur[u] > Len(Group[u])
      BY <3>1, <3>3
    <3> QED
      BY <3>1, <3>4, <3>5, QuietSettled
  <2>2. CASE BlockedOnInput(t) \/ BlockedOnOutput(t)
    BY <2>2, BlockedSettled
  <2>3. CASE \E n \in 0..BufItems : DoWork(t, n)
    BY <2>3, DoWorkSettled
  <2>4. CASE PostRead(t) \/ PostWrite(t) \/ NotifyPort(t)
    BY <2>4, PostReadSettled, PostWriteSettled, NotifyPortSettled
  <2>5. CASE HandleStatuses(t)
    <3>1. /\ UNCHANGED <<fill, script, cur>> /\ pc[t] = "iterate" /\ cur[t] > Len(Group[t])
          /\ \E v : pc' = [pc EXCEPT ![t] = v]
          /\ work' = [work EXCEPT ![t] = FALSE]
          /\ note' = [note EXCEPT ![t] = note[t] \/ AsksForRound(t)]
      BY <2>5 DEF HandleStatuses
    <3>2. \A u \in Threads : /\ note[u] => note'[u]
                             /\ u # t => pc'[u] = pc[u] /\ work'[u] = work[u]
      BY <1>0, <3>1
    <3> QED
      BY <3>1, <3>2, QuietSettled
  <2> QED
    BY <2>1, <2>2, <2>3, <2>4, <2>5 DEF ThreadNext
<1>4. CASE UNCHANGED vars
  <2>1. UNCHANGED <<fill, script, pc, cur, note, work>>
    BY <1>4 DEF vars
  <2> QED
    BY <2>1, QuietSettled
<1> QED
  BY <1>1, <1>2, <1>3, <1>4 DEF Next

(* Nothing is posted, nobody is done, and no thread has started. *)
LEMMA InitAwake == Init => AwakeInv
<1> SUFFICES ASSUME Init PROVE AwakeInv
  OBVIOUS
<1>1. PostInv
  BY DEF Init, PostInv, NotifiesAfter, MovesItems
<1>2. DoneInv
  BY DEF Init, DoneInv
<1>3. StartInv
  BY DEF Init, StartInv
<1>4. Settled
  <2>1. \A b \in Blocks : pc[ThreadOf[b]] = "start"
    BY ThreadOfMember DEF Init
  <2> QED
    BY <2>1 DEF Settled, Handled, Covered
<1>5. Conserved
  <2> DEFINE none == [b \in Blocks |-> 0]
             nothing == [e \in Edges |-> 0]
  <2>1. none \in [Blocks -> Nat] /\ nothing \in [Edges -> Nat]
    OBVIOUS
  <2>2. \A e \in Edges : e[1] \in Blocks /\ e[2] \in Blocks
    BY GraphAssumption
  <2>3. Counts(none, none, nothing)
    BY <2>2 DEF Init, Counts
  <2> QED
    BY <2>1, <2>3 DEF Conserved
<1> QED
  BY <1>1, <1>2, <1>3, <1>4, <1>5 DEF AwakeInv

(* The invariant is inductive. *)
LEMMA StepAwake ==
  ASSUME Feedforward, Inv, FlowInv, FlowInv', AwakeInv, [Next]_vars
  PROVE  AwakeInv'
<1>1. PostInv /\ DoneInv /\ StartInv /\ Settled /\ Conserved
  BY DEF AwakeInv
<1>2. Over => Over'
  BY <1>1, OverStable
<1>3. PostInv'
  BY <1>1, <1>2, PostStep
<1>4. DoneInv'
  BY <1>1, DoneStep
<1>5. StartInv'
  BY <1>1, StartStep
<1>6. Settled'
  BY <1>1, <1>2, SettledStep
<1>7. Conserved'
  BY <1>1, ConservedStep
<1> QED
  BY <1>3, <1>4, <1>5, <1>6, <1>7 DEF AwakeInv

(* Asleep, nobody is done; so every block is stuck or rests, which the counts
   exclude. *)
LEMMA AwakeFromSettled ==
  ASSUME Feedforward, FlowInv, AwakeInv
  PROVE  StaysAwake
<1> SUFFICES ASSUME mon = "run", AllAsleep PROVE FALSE
  BY DEF StaysAwake
<1>1. (\A b \in Blocks : ~ Covered(b)) /\ (\A u \in Threads : script[u] = <<>>)
  BY AsleepNotCovered DEF AwakeInv
<1>2. ~ Over
  <2>1. \A u \in Threads : pc[u] = "wait"
    BY DEF AllAsleep, Asleep
  <2>2. <<"DONE">> \notin mq
    BY DEF AllAsleep
  <2>3. \A b \in Blocks : status[b] # "DONE"
    BY <2>1, <2>2, ThreadOfMember DEF AwakeInv, DoneInv
  <2> QED
    BY <2>2, <2>3 DEF Over
<1>3. \A b \in Blocks : Handled(b) \/ Resting(b)
  BY <1>2 DEF AwakeInv, Settled
<1> QED
  BY <1>1, <1>3, NeverWaitInACircle DEF FlowInv, AwakeInv

(* In a flowgraph without a loop, as long as no block is done some notification
   is in a queue, about to be pushed or being carried out: whatever the block
   groups and the size of the buffers and however the threads interleave, the
   notifications that graph_executor sends after post_read and post_write and
   the second look of thread_wrapper after a READY never let the whole
   scheduler fall asleep. *)
THEOREM NeverAllAsleep == ASSUME Feedforward PROVE Spec => []StaysAwake
<1>1. Init => FlowInv /\ AwakeInv
  BY InitFlow, InitAwake
<1>2. Inv /\ FlowInv /\ AwakeInv /\ Inv' /\ [Next]_vars => FlowInv' /\ AwakeInv'
  BY StepFlow, StepAwake
<1>3. FlowInv /\ AwakeInv => StaysAwake
  BY AwakeFromSettled
<1> QED
  BY <1>1, <1>2, <1>3, ShutdownInvariant, PTL DEF Spec

(* So no wakeup is lost before the first DONE reaches the monitor: it never
   happens there that every thread waits on an empty queue while a block could
   work. *)
THEOREM NoWakeupLost == ASSUME Feedforward PROVE Spec => [](mon = "run" => NoLostWakeup)
<1>1. StaysAwake => (mon = "run" => NoLostWakeup)
  BY DEF StaysAwake, AllAsleep, NoLostWakeup
<1> QED
  BY <1>1, NeverAllAsleep, PTL
=============================================================================
