------------------------- MODULE DistributedRuntime -------------------------
(***************************************************************************)
(* A flowgraph distributed over several runtimes, as the distributed       *)
(* runtime sets it up: the first host has a runtime_proxy with upstream    *)
(* for every other host, each other host one without upstream, back to the *)
(* first, and every host one scheduler.  NbtRuntime models what a          *)
(* scheduler does; here it is what its monitor sees of it.                 *)
(*                                                                         *)
(* A monitor's queue is FIFO per producer; a pair of proxies is a socket   *)
(* in each direction, FIFO and without loss once it is connected, and the  *)
(* thread of the receiving proxy.  At most three messages cross a socket   *)
(* in its life, too few for a send to block.                               *)
(*                                                                         *)
(* The ids of a runtime's scheduler and proxies are numbered together      *)
(* (runtime::add_proxy); the id of a host's scheduler is the host here and *)
(* that of a proxy its peer.                                               *)
(***************************************************************************)
EXTENDS Integers, Sequences

CONSTANTS
  Primary,   (* the host whose runtime the application starts              *)
  Proxies,   (* the hosts of its d_runtime_proxies, in their order         *)
  Connected, (* the pairs <<host, peer>> whose client_connect was called   *)
  NoId       (* schedid -1                                                 *)

Remotes == {Proxies[i] : i \in DOMAIN Proxies}
Hosts == {Primary} \cup Remotes

ASSUME HostAssumption ==
  /\ Proxies \in Seq(Remotes)
  /\ \A i, j \in DOMAIN Proxies : i # j => Proxies[i] # Proxies[j]
  /\ Primary \notin Remotes /\ NoId \notin Hosts
  /\ Connected \subseteq Hosts \X Hosts

VARIABLES
  mon,       (* [Hosts -> "run" (first loop), "flush" (second), "stopped"] *)
  todo,      (* what each monitor has still to do for its last message     *)
  inbox,     (* [Hosts -> [producer -> messages in the monitor's queue]]   *)
  schedDone, (* [Hosts -> the ids that are sched_done]                     *)
  sched,     (* [Hosts -> "idle", "running", "flushing", "exited"]         *)
  cmd,       (* [Hosts -> the monitor's messages to the scheduler]         *)
  wire,      (* [Hosts -> [Hosts -> messages sent by the first's proxy]]   *)
  rcvDone,   (* [Hosts -> [Hosts -> _rcv_done of the proxy to the second]] *)
  rcv,       (* [Hosts -> [Hosts -> "recv" or "ended": its thread]]        *)
  app        (* the application at the first host                          *)

monVars == <<mon, todo, schedDone>>
schedVars == <<sched, cmd>>
proxyVars == <<wire, rcvDone, rcv>>
vars == <<monVars, inbox, schedVars, proxyVars, app>>

-----------------------------------------------------------------------------
Upstream(h) == h = Primary
ProxySeq(h) == IF h = Primary THEN Proxies ELSE <<Primary>>
Peers(h) == IF h = Primary THEN Remotes ELSE {Primary}

(* The producers of a monitor's queue: its scheduler (called like its host),
   its proxies and the application. *)
Producers(h) == Hosts \cup {NoId}
AppId == NoId

Msg(type, id) == [type |-> type, id |-> id]
Cmd(c) == <<"cmd", c>>
ToProxies(h, op) == [i \in DOMAIN ProxySeq(h) |-> <<op, ProxySeq(h)[i]>>]
None == <<>>

Init ==
  /\ mon = [h \in Hosts |-> "run"]
  /\ todo = [h \in Hosts |-> None]
  /\ inbox = [h \in Hosts |-> [f \in Producers(h) |-> <<>>]]
  /\ schedDone = [h \in Hosts |-> {}]
  /\ sched = [h \in Hosts |-> "idle"]
  /\ cmd = [h \in Hosts |-> <<>>]
  /\ wire = [h \in Hosts |-> [g \in Hosts |-> <<>>]]
  /\ rcvDone = [h \in Hosts |-> [g \in Hosts |-> FALSE]]
  /\ rcv = [h \in Hosts |-> [g \in Hosts |-> "recv"]]
  /\ app = "new"

Queue(h, f, m) == inbox' = [inbox EXCEPT ![h][f] = Append(@, m)]

-----------------------------------------------------------------------------
(* runtime_monitor: the thread of a host's monitor. *)

Pop(h, f, type) ==
  /\ mon[h] # "stopped" /\ todo[h] = None
  /\ inbox[h][f] # <<>> /\ Head(inbox[h][f]).type = type
  /\ inbox' = [inbox EXCEPT ![h][f] = Tail(@)]

(* Mutant: the first loop breaks without _monitor_thread_stopped. *)
MonKillNoStop(h, f) ==
  /\ Pop(h, f, "KILL")
  /\ mon' = [mon EXCEPT ![h] = IF @ = "run" THEN "flush" ELSE "stopped"]
  /\ todo' = [todo EXCEPT ![h] = IF mon[h] = "run" \/ Upstream(h)
                                 THEN ToProxies(h, "KILL") ELSE None]
  /\ UNCHANGED <<schedDone, schedVars, proxyVars, app>>

(* KILL ends the monitor; the first loop passes it on to every proxy, the
   second to those with upstream. *)
MonKill(h, f) ==
  /\ Pop(h, f, "KILL")
  /\ mon' = [mon EXCEPT ![h] = "stopped"]
  /\ todo' = [todo EXCEPT ![h] = IF mon[h] = "run" \/ Upstream(h)
                                 THEN ToProxies(h, "KILL") ELSE None]
  /\ UNCHANGED <<schedDone, schedVars, proxyVars, app>>

(* START: the scheduler, and the other hosts; the second loop has no case
   for it. *)
MonStart(h, f) ==
  /\ Pop(h, f, "START")
  /\ todo' = [todo EXCEPT ![h] =
       IF mon[h] = "flush" THEN None
       ELSE <<<<"start", h>>>>
            \o (IF Upstream(h) THEN ToProxies(h, "START") ELSE None)]
  /\ UNCHANGED <<mon, schedDone, schedVars, proxyVars, app>>

(* Mutant: tells the proxies nothing. *)
MonDoneAlone(h, f) ==
  /\ mon[h] = "run" /\ Pop(h, f, "DONE")
  /\ mon' = [mon EXCEPT ![h] = "flush"]
  /\ todo' = [todo EXCEPT ![h] = <<Cmd("DONE")>>]
  /\ UNCHANGED <<schedDone, schedVars, proxyVars, app>>

(* The first DONE: the scheduler and all proxies, then the second loop. *)
MonDone(h, f) ==
  /\ mon[h] = "run" /\ Pop(h, f, "DONE")
  /\ mon' = [mon EXCEPT ![h] = "flush"]
  /\ todo' = [todo EXCEPT ![h] = <<Cmd("DONE")>> \o ToProxies(h, "DONE")]
  /\ UNCHANGED <<schedDone, schedVars, proxyVars, app>>

(* Mutant: does not wait for the proxies. *)
AllDoneHere(h, done) == h \in done

(* The scheduler, and every proxy with upstream. *)
AllDone(h, done) == h \in done /\ (Upstream(h) => Peers(h) \subseteq done)

(* When all is flushed: FLUSHED to the proxies without upstream, EXIT to the
   scheduler, KILL to the proxies with upstream; every proxy is killed. *)
Finale(h) ==
  IF Upstream(h)
  THEN <<Cmd("EXIT")>>
       \o [i \in 1..(2 * Len(Proxies)) |->
             IF i % 2 = 1 THEN <<"KILL", Proxies[(i + 1) \div 2]>>
             ELSE <<"close", Proxies[i \div 2]>>]
  ELSE <<<<"FLUSHED", Primary>>, Cmd("EXIT"), <<"close", Primary>>>>

(* FLUSHED of the scheduler or of a proxy; the first loop drops it. *)
MonFlushed(h, f) ==
  /\ Pop(h, f, "FLUSHED")
  /\ IF mon[h] = "run" THEN UNCHANGED monVars
     ELSE LET done == schedDone[h] \cup {Head(inbox[h][f]).id} IN
          /\ schedDone' = [schedDone EXCEPT ![h] = done]
          /\ IF AllDone(h, done)
             THEN /\ todo' = [todo EXCEPT ![h] = Finale(h)]
                  /\ mon' = [mon EXCEPT ![h] = "stopped"]
             ELSE UNCHANGED <<todo, mon>>
  /\ UNCHANGED <<schedVars, proxyVars, app>>

(* The second loop has no case for DONE. *)
MonIgnoreDone(h, f) ==
  /\ mon[h] = "flush" /\ Pop(h, f, "DONE")
  /\ UNCHANGED <<monVars, schedVars, proxyVars, app>>

Does(h, op) == todo[h] # None /\ Head(todo[h])[1] = op
Did(h) == todo' = [todo EXCEPT ![h] = Tail(@)]

StartScheduler(h) ==
  /\ Does(h, "start") /\ Did(h)
  /\ sched' = [sched EXCEPT ![h] = IF @ = "idle" THEN "running" ELSE @]
  /\ UNCHANGED <<mon, inbox, schedDone, cmd, proxyVars, app>>

PushScheduler(h) ==
  /\ Does(h, "cmd") /\ Did(h)
  /\ cmd' = [cmd EXCEPT ![h] = Append(@, Head(todo[h])[2])]
  /\ UNCHANGED <<mon, inbox, schedDone, sched, proxyVars, app>>

(* runtime_proxy::push_message: sent when connected, else dropped. *)
PushProxy(h) ==
  /\ \E type \in {"START", "DONE", "FLUSHED", "KILL"} :
       /\ Does(h, type)
       /\ LET g == Head(todo[h])[2] IN
          wire' = IF <<h, g>> \in Connected
                  THEN [wire EXCEPT ![h][g] = Append(@, Msg(type, NoId))]
                  ELSE wire
  /\ Did(h)
  /\ UNCHANGED <<mon, inbox, schedDone, schedVars, rcvDone, rcv, app>>

KillProxy(h) ==
  /\ Does(h, "close") /\ Did(h)
  /\ rcvDone' = [rcvDone EXCEPT ![h][Head(todo[h])[2]] = TRUE]
  /\ UNCHANGED <<mon, inbox, schedDone, schedVars, wire, rcv, app>>

MonPop(h, f) ==
  \/ MonKill(h, f) \/ MonStart(h, f) \/ MonDone(h, f) \/ MonFlushed(h, f)
  \/ MonIgnoreDone(h, f)
MonDo(h) ==
  StartScheduler(h) \/ PushScheduler(h) \/ PushProxy(h) \/ KillProxy(h)

-----------------------------------------------------------------------------
(* Mutant: the proxy's position among the proxies for its id. *)
ReceivedIndex(h, g, m) ==
  IF Upstream(h) THEN [m EXCEPT !.id = CHOOSE i \in DOMAIN Proxies : Proxies[i] = g] ELSE m

(* Mutant: the message keeps its schedid. *)
ReceivedAsSent(h, g, m) == m

(* runtime_proxy: the thread of host h's proxy to g. *)
Received(h, g, m) == IF Upstream(h) THEN [m EXCEPT !.id = g] ELSE m

Receive(h, g) ==
  /\ rcv[h][g] = "recv" /\ wire[g][h] # <<>>
  /\ wire' = [wire EXCEPT ![g][h] = Tail(@)]
  /\ Queue(h, g, Received(h, g, Head(wire[g][h])))
  /\ rcv' = [rcv EXCEPT ![h][g] = IF rcvDone[h][g] THEN "ended" ELSE @]
  /\ UNCHANGED <<monVars, schedVars, rcvDone, app>>

-----------------------------------------------------------------------------
(* The scheduler, from start to exit: one of its blocks is done (it may say
   so again), it flushes when it is told to, and says so when it has. *)
Waiting(h, type) == \E i \in DOMAIN inbox[h][h] : inbox[h][h][i].type = type

BlockDone(h) ==
  /\ sched[h] \in {"running", "flushing"} /\ ~Waiting(h, "DONE")
  /\ Queue(h, h, Msg("DONE", h))
  /\ UNCHANGED <<monVars, schedVars, proxyVars, app>>

TakeCommand(h) ==
  /\ sched[h] \in {"running", "flushing"} /\ cmd[h] # <<>>
  /\ sched' = [sched EXCEPT ![h] = IF Head(cmd[h]) = "DONE" THEN "flushing"
                                   ELSE "exited"]
  /\ cmd' = [cmd EXCEPT ![h] = Tail(@)]
  /\ UNCHANGED <<monVars, inbox, proxyVars, app>>

Flushed(h) ==
  /\ sched[h] = "flushing" /\ ~Waiting(h, "FLUSHED")
  /\ Queue(h, h, Msg("FLUSHED", h))
  /\ UNCHANGED <<monVars, schedVars, proxyVars, app>>

-----------------------------------------------------------------------------
(* The application: start, then wait, or stop at any time. *)
AppStart ==
  /\ app = "new" /\ app' = "waiting"
  /\ Queue(Primary, AppId, Msg("START", NoId))
  /\ UNCHANGED <<monVars, schedVars, proxyVars>>

(* scheduler::stop returns when its threads have been joined ... *)
AppStop ==
  /\ app = "waiting" /\ app' = "stopping"
  /\ sched' = [sched EXCEPT ![Primary] = "exited"]
  /\ UNCHANGED <<monVars, inbox, cmd, proxyVars>>

(* ... then the monitor is killed. *)
AppKillMonitor ==
  /\ app = "stopping" /\ app' = "stopped"
  /\ Queue(Primary, AppId, Msg("KILL", NoId))
  /\ UNCHANGED <<monVars, schedVars, proxyVars>>

Next ==
  \/ AppStart \/ AppStop \/ AppKillMonitor
  \/ \E h \in Hosts :
       \/ \E f \in Producers(h) : MonPop(h, f)
       \/ MonDo(h)
       \/ \E g \in Peers(h) : Receive(h, g)
       \/ BlockDone(h) \/ TakeCommand(h) \/ Flushed(h)

(* Every thread is scheduled, a queue does not hold back one producer, the
   sockets deliver, and a scheduler that was told to flush does (ShutsDown of
   NbtRuntime); a block need never be done. *)
Spec ==
  /\ Init /\ [][Next]_vars
  /\ WF_vars(AppStart) /\ WF_vars(AppKillMonitor)
  /\ \A h \in Hosts :
       /\ \A f \in Producers(h) : WF_vars(MonPop(h, f))
       /\ WF_vars(MonDo(h)) /\ WF_vars(TakeCommand(h)) /\ WF_vars(Flushed(h))
       /\ \A g \in Peers(h) : WF_vars(Receive(h, g))

-----------------------------------------------------------------------------
(* Properties. *)

Types == {"START", "DONE", "FLUSHED", "KILL"}
Messages == [type : Types, id : Hosts \cup {NoId}]
Steps == {<<"start", h>> : h \in Hosts} \cup {Cmd("DONE"), Cmd("EXIT")}
         \cup (Types \cup {"close"}) \X Hosts

(* The types of the variables. *)
TypeOK ==
  /\ mon \in [Hosts -> {"run", "flush", "stopped"}]
  /\ todo \in [Hosts -> Seq(Steps)]
  /\ inbox \in [Hosts -> [Hosts \cup {NoId} -> Seq(Messages)]]
  /\ schedDone \in [Hosts -> SUBSET (Hosts \cup {NoId})]
  /\ sched \in [Hosts -> {"idle", "running", "flushing", "exited"}]
  /\ cmd \in [Hosts -> Seq({"DONE", "EXIT"})]
  /\ wire \in [Hosts -> [Hosts -> Seq(Messages)]]
  /\ rcvDone \in [Hosts -> [Hosts -> BOOLEAN]]
  /\ rcv \in [Hosts -> [Hosts -> {"recv", "ended"}]]
  /\ app \in {"new", "waiting", "stopping", "stopped"}

AppStopped == app \in {"stopping", "stopped"}

(* "Wait until all the threads are done, then send the EXIT message"
   (runtime_monitor.cc), over all hosts: unless the application stops it, a
   host's scheduler exits only after it was flushed, and that of the first
   host only after the schedulers of all hosts were. *)
ExitsAfterFlushed ==
  ~AppStopped => \A h \in Hosts : sched[h] = "exited" =>
    \A g \in {h} \cup (IF Upstream(h) THEN Hosts ELSE {}) :
      g \in schedDone[g] /\ sched[g] \in {"flushing", "exited"}

(* No FLUSHED comes to the front of a queue while the monitor is in its
   first loop, which would drop it: over a socket and two threads it stays
   behind the DONE of the same host. *)
FlushedIsNotDropped ==
  \A h \in Hosts : mon[h] = "run" =>
    \A f \in Producers(h) : inbox[h][f] # <<>> => Head(inbox[h][f]).type # "FLUSHED"

(* A DONE of any host ends the scheduler and the monitor of all of them,
   unless the application stops the first host before. *)
Ended(h) == sched[h] = "exited" /\ mon[h] = "stopped" /\ todo[h] = None
DoneEndsAll ==
  (\E h \in Hosts : Waiting(h, "DONE")) ~> (AppStopped \/ \A h \in Hosts : Ended(h))

(* After runtime::stop the first host's monitor ends, too, whatever the
   other hosts do. *)
StopEndsPrimary == AppStopped ~> Ended(Primary)
=============================================================================
