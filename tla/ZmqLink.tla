------------------------------ MODULE ZmqLink ------------------------------
(***************************************************************************)
(* Two flowgraphs joined by ZeroMQ blocks (module zeromq of blocklib): a   *)
(* push_sink or pub_sink and a pull_source or sub_source, or a rep_sink    *)
(* and a req_source, with a throttle behind the source; or by an edge with *)
(* a network buffer (buffer_net_zmq) before the throttle.                  *)
(*                                                                         *)
(* Sinks and sources are sync_blocks of the nbt scheduler, each in a       *)
(* thread that sleeps until it is notified.  A source whose poll finds no  *)
(* message has a detached thread notify it later (come_back_later).  A     *)
(* sink consumes what it was given even if it sent less: sync_block        *)
(* overwrites the n_consumed of a block without outputs.                   *)
(*                                                                         *)
(* push_sink polls before it sends and pub_sink does not, but a PUB socket *)
(* drops a message just when a PUSH socket is not ready to send: with no   *)
(* peer or a full queue.  So "PUSH" stands for both.  An item is its       *)
(* number in the stream; a message has the items first..first+n-1 and the  *)
(* offsets of its tags less the offset of its header, modulo Word.         *)
(*                                                                         *)
(* "NET" is the network buffer: post_write sends, and waits until it can;  *)
(* a detached thread of the reader copies messages to a circular buffer,   *)
(* the source's output here, polls that while it is full, and notifies.    *)
(***************************************************************************)
EXTENDS Integers, SequencesExt, FiniteSetsExt

CONSTANTS
  Patterns,         (* the patterns tried: "PUSH", "REQ", "NET"               *)
  HighWaterMarks,   (* the queue lengths tried                                *)
  Items,            (* bound on the items of the stream                       *)
  Tagged,           (* the items that carry a tag                             *)
  UpCap, DownCap,   (* items in the buffers before the sink, after the source *)
  Word,             (* 2^64: offsets are kept modulo Word                     *)
  MaxTimers         (* bound on the pending timers of come_back_later         *)

ASSUME ZmqPatterns == Patterns \subseteq {"PUSH", "REQ", "NET"} /\ HighWaterMarks \subseteq Nat \ {0}
ASSUME ZmqSizes ==
  /\ {Items, UpCap, DownCap, MaxTimers} \subseteq Nat \ {0} /\ Word \in Nat /\ Word > 2 * Items
  /\ Tagged \subseteq 0..(Items - 1)

VARIABLES
  pattern, hwm,   (* chosen at the start                                    *)
  produced,       (* items in the sink's input buffer so far                *)
  nread,          (* ... and read by the sink                               *)
  replying,       (* items granted to rep_sink's work; 0: not in work       *)
  rdone,          (* ... and sent by it                                     *)
  connected,      (* the source's connection is established                 *)
  wire,           (* messages sent and not yet received                     *)
  request,        (* items asked for; -1: no request on its way             *)
  d_req_pending,  (* req_source waits for a reply                           *)
  awake,          (* a notification waits in the source's queue             *)
  grant,          (* items granted to the source's work; 0: not in work     *)
  staged,         (* ... and those copied by it: done                       *)
  d_msg,          (* the message being copied                               *)
  d_consumed,     (* d_consumed_items                                       *)
  timers,         (* threads of come_back_later                             *)
  out,            (* items written to the source's output buffer            *)
  outTags,        (* offsets of the tags added to it                        *)
  taken,          (* items copied by the throttle                           *)
  due,            (* a notification waits in the throttle's queue           *)
  d_sleeping, sleeper, (* the throttle's flag and its thread                *)
  overslept       (* history: the throttle took its sleeper's notification  *)
                  (* before the flag was cleared, and has not run since     *)

sinkVars == <<produced, nread, replying, rdone>>
sourceVars == <<grant, staged, d_msg, d_consumed, d_req_pending, timers>>
throttleVars == <<taken, d_sleeping, sleeper, overslept>>
vars == <<pattern, hwm, sinkVars, connected, wire, request, awake, sourceVars, out, outTags,
          due, throttleVars>>

NoMessage == [first |-> 0, n |-> 0, tags |-> {}]

Init ==
  /\ pattern \in Patterns /\ hwm \in HighWaterMarks
  /\ produced = 0 /\ nread = 0 /\ replying = 0 /\ rdone = 0
  /\ connected = FALSE /\ wire = <<>> /\ request = -1 /\ d_req_pending = FALSE
  /\ awake = TRUE /\ grant = 0 /\ staged = <<>>
  /\ d_msg = NoMessage /\ d_consumed = 0 /\ timers = 0
  /\ out = <<>> /\ outTags = {}
  /\ taken = 0 /\ due = TRUE /\ d_sleeping = FALSE /\ sleeper = "none"
  /\ overslept = FALSE

-----------------------------------------------------------------------------
(* The sending flowgraph. *)

(* The block before the sink writes an item. *)
Arrive ==
  /\ pattern # "NET" /\ produced < Items /\ produced - nread < UpCap
  /\ produced' = produced + 1
  /\ UNCHANGED <<pattern, hwm, nread, replying, rdone, connected, wire, request, awake,
                 sourceVars, out, outTags, due, throttleVars>>

(* The connection comes about at any time. *)
Connect ==
  /\ ~connected /\ connected' = TRUE
  /\ UNCHANGED <<pattern, hwm, sinkVars, wire, request, awake, sourceVars, out, outTags,
                 due, throttleVars>>

TagsInWindow(from, n) == {t \in Tagged : from <= t /\ t < from + n}

(* Mutant: leaves the offsets of tags as they are. *)
MessageAbsolute(first, n, tags) == [first |-> first, n |-> n, tags |-> tags]

(* gen_tag_header writes the offset of the first item, and the tags. *)
Message(first, n, tags) ==
  [first |-> first, n |-> n, tags |-> {(t - first) % Word : t \in tags}]

(* send_message: items first..first+n-1 in one message. *)
SendMessage(first, n, tags) == wire' = Append(wire, Message(first, n, tags))

Pollout == connected /\ Len(wire) < hwm

(* push_sink: sends all it was given if the socket can take a message, and
   consumes it in any case. *)
PushWork ==
  LET n == produced - nread IN
  /\ pattern = "PUSH" /\ n > 0
  /\ IF Pollout THEN SendMessage(nread, n, TagsInWindow(nread, n)) ELSE UNCHANGED wire
  /\ nread' = produced
  /\ UNCHANGED <<pattern, hwm, produced, replying, rdone, connected, request, awake,
                 sourceVars, out, outTags, due, throttleVars>>

(* rep_sink serves the requests it finds, each with what is left ... *)
RepBegin ==
  /\ pattern = "REQ" /\ replying = 0 /\ produced > nread
  /\ replying' = produced - nread /\ rdone' = 0
  /\ UNCHANGED <<pattern, hwm, produced, nread, connected, wire, request, awake,
                 sourceVars, out, outTags, due, throttleVars>>
RepServe ==
  LET n == Min({replying - rdone, request}) IN
  /\ replying > 0 /\ request >= 0 /\ connected
  /\ SendMessage(nread + rdone, n, TagsInWindow(nread, replying))
  /\ request' = -1
  /\ rdone' = rdone + n
  /\ UNCHANGED <<pattern, hwm, produced, nread, replying, connected, awake,
                 sourceVars, out, outTags, due, throttleVars>>
(* ... and consumes all it was given when it finds none. *)
RepEnd ==
  /\ replying > 0 /\ (request < 0 \/ ~connected)
  /\ nread' = nread + replying
  /\ replying' = 0 /\ rdone' = 0
  /\ UNCHANGED <<pattern, hwm, produced, connected, wire, request, awake,
                 sourceVars, out, outTags, due, throttleVars>>

-----------------------------------------------------------------------------
(* Space in the buffer behind the source. *)
Space == DownCap - (Len(out) - taken)

(* The network buffer. *)

(* post_write sends the n items, none if work produced none, with no tags. *)
NetPostWrite(n) ==
  /\ pattern = "NET" /\ produced + n <= Items
  /\ Pollout /\ SendMessage(produced, n, {})
  /\ produced' = produced + n /\ nread' = produced'
  /\ UNCHANGED <<pattern, hwm, replying, rdone, connected, request, awake,
                 sourceVars, out, outTags, due, throttleVars>>

(* The reader's thread copies what the circular buffer has space for ... *)
NetCopy ==
  LET n == Min({Space, d_msg.n - d_consumed}) IN
  /\ pattern = "NET" /\ n > 0
  /\ out' = out \o [k \in 1..n |-> d_msg.first + d_consumed + k - 1]
  /\ d_consumed' = d_consumed + n
  /\ due' = TRUE
  /\ UNCHANGED <<pattern, hwm, sinkVars, connected, wire, request, awake, grant, staged,
                 d_msg, d_req_pending, timers, outTags, throttleVars>>

(* ... and receives the next message after it has copied all of this one. *)
NetReceive ==
  /\ pattern = "NET" /\ wire # <<>>
  /\ d_consumed = d_msg.n /\ (Space > 0 \/ d_msg.n > 0)
  /\ d_msg' = Head(wire) /\ wire' = Tail(wire)
  /\ d_consumed' = 0
  /\ UNCHANGED <<pattern, hwm, sinkVars, connected, request, awake, grant, staged,
                 d_req_pending, timers, out, outTags, due, throttleVars>>

-----------------------------------------------------------------------------
(* The source: pull_source, sub_source and req_source. *)

(* A notification: work is called if the output buffer has space. *)
SourceBegin ==
  /\ pattern # "NET" /\ awake /\ grant = 0
  /\ awake' = FALSE
  /\ grant' = Space
  /\ UNCHANGED <<pattern, hwm, sinkVars, connected, wire, request, staged, d_msg, d_consumed,
                 d_req_pending, timers, out, outTags, due, throttleVars>>

(* Work ends with these items: post_write and the notification. *)
EndWork(items) ==
  /\ grant' = 0 /\ staged' = <<>>
  /\ out' = out \o items
  /\ due' = TRUE

(* Mutant: the last item of a message counts as copied. *)
HasPendingShort == d_consumed + 1 < d_msg.n
HasPending == d_consumed < d_msg.n

(* flush_pending copies items of the message, and those of its tags. *)
FlushPending ==
  LET n     == Min({grant - Len(staged), d_msg.n - d_consumed})
      items == staged \o [k \in 1..n |-> d_msg.first + d_consumed + k - 1]
      tags  == {t \in d_msg.tags : d_consumed <= t /\ t < d_consumed + n}
  IN
  /\ grant > 0 /\ HasPending
  /\ outTags' = outTags \cup {t + Len(out) + Len(staged) - d_consumed : t \in tags}
  /\ d_consumed' = d_consumed + n
  /\ IF Len(items) = grant
     THEN EndWork(items)
     ELSE staged' = items /\ UNCHANGED <<grant, out, due>>
  /\ UNCHANGED <<pattern, hwm, sinkVars, connected, wire, request, awake, d_msg,
                 d_req_pending, timers, throttleVars>>

(* req_source asks for as many items as it has space for. *)
SendRequest ==
  /\ pattern = "REQ" /\ grant > 0 /\ ~HasPending /\ ~d_req_pending
  /\ request' = grant - Len(staged)
  /\ d_req_pending' = TRUE
  /\ UNCHANGED <<pattern, hwm, sinkVars, connected, wire, awake, grant, staged, d_msg,
                 d_consumed, timers, out, outTags, due, throttleVars>>

Polling == grant > 0 /\ ~HasPending /\ (pattern = "REQ" => d_req_pending)

(* load_message finds a message ... *)
LoadMessage ==
  /\ Polling /\ wire # <<>>
  /\ d_msg' = Head(wire) /\ wire' = Tail(wire)
  /\ d_consumed' = 0
  /\ d_req_pending' = FALSE
  /\ UNCHANGED <<pattern, hwm, sinkVars, connected, request, awake, grant, staged, timers,
                 out, outTags, due, throttleVars>>

(* Mutant: no thread to come back later. *)
ComeBackNever == UNCHANGED timers
ComeBackLater == timers' = Min({timers + 1, MaxTimers})

(* ... or none, even after the timeout. *)
LoadFails ==
  /\ Polling /\ wire = <<>>
  /\ ComeBackLater
  /\ EndWork(staged)
  /\ UNCHANGED <<pattern, hwm, sinkVars, connected, wire, request, awake, d_msg, d_consumed,
                 d_req_pending, outTags, throttleVars>>

(* A thread of come_back_later wakes up. *)
TimerFires ==
  /\ timers > 0
  /\ timers' = timers - 1 /\ awake' = TRUE
  /\ UNCHANGED <<pattern, hwm, sinkVars, connected, wire, request, grant, staged, d_msg,
                 d_consumed, d_req_pending, out, outTags, due, throttleVars>>

-----------------------------------------------------------------------------
(* The throttle, whose output buffer is never full. *)

(* The notification finds nothing to do ... *)
ThrottleBlocked ==
  /\ due /\ taken = Len(out)
  /\ due' = FALSE
  /\ UNCHANGED <<pattern, hwm, sinkVars, connected, wire, request, awake, sourceVars,
                 out, outTags, throttleVars>>
(* ... work returns because it sleeps, and notifies its neighbours; this may
   be the notification of its sleeper, which clears the flag only then ... *)
ThrottleSleeps ==
  /\ due /\ taken < Len(out) /\ d_sleeping
  /\ due' = FALSE /\ awake' = TRUE
  /\ overslept' = (overslept \/ sleeper = "pushed")
  /\ UNCHANGED <<pattern, hwm, sinkVars, connected, wire, request, sourceVars,
                 out, outTags, taken, d_sleeping, sleeper>>
(* ... the items come too early, and it starts a sleeper ... *)
ThrottleEarly ==
  /\ due /\ taken < Len(out) /\ ~d_sleeping
  /\ d_sleeping' = TRUE /\ sleeper' = "asleep"
  /\ due' = FALSE /\ awake' = TRUE /\ overslept' = FALSE
  /\ UNCHANGED <<pattern, hwm, sinkVars, connected, wire, request, sourceVars,
                 out, outTags, taken>>
(* ... or it copies all of them. *)
ThrottleCopies ==
  /\ due /\ taken < Len(out) /\ ~d_sleeping
  /\ taken' = Len(out)
  /\ due' = FALSE /\ awake' = TRUE /\ overslept' = FALSE
  /\ UNCHANGED <<pattern, hwm, sinkVars, connected, wire, request, sourceVars,
                 out, outTags, d_sleeping, sleeper>>

(* The sleeper notifies the scheduler, and then clears the flag. *)
SleeperPushes ==
  /\ sleeper = "asleep"
  /\ sleeper' = "pushed" /\ due' = TRUE
  /\ UNCHANGED <<pattern, hwm, sinkVars, connected, wire, request, awake, sourceVars,
                 out, outTags, taken, d_sleeping, overslept>>
SleeperClears ==
  /\ sleeper = "pushed"
  /\ sleeper' = "none" /\ d_sleeping' = FALSE
  /\ UNCHANGED <<pattern, hwm, sinkVars, connected, wire, request, awake, sourceVars,
                 out, outTags, due, taken, overslept>>

SinkNext == PushWork \/ RepBegin \/ RepServe \/ RepEnd
SourceNext == SourceBegin \/ FlushPending \/ SendRequest \/ LoadMessage \/ LoadFails
ThrottleNext == ThrottleBlocked \/ ThrottleSleeps \/ ThrottleEarly \/ ThrottleCopies
NetNext == NetCopy \/ NetReceive
Next == Arrive \/ Connect \/ (\E n \in 0..UpCap : NetPostWrite(n)) \/ NetNext \/ SinkNext \/ SourceNext \/ TimerFires \/ ThrottleNext
        \/ SleeperPushes \/ SleeperClears

(* Threads go on.  rep_sink's poll without a timeout now and then misses the
   next request, and the time that the throttle waits for comes. *)
Fairness ==
  /\ WF_vars(NetNext) /\ WF_vars(SourceNext) /\ WF_vars(TimerFires) /\ WF_vars(ThrottleNext)
  /\ WF_vars(SleeperPushes) /\ WF_vars(SleeperClears)
  /\ SF_vars(RepEnd) /\ SF_vars(ThrottleCopies)
Spec == Init /\ [][Next]_vars /\ Fairness

-----------------------------------------------------------------------------
(* Properties. *)

(* What has come through, and what is on its way: the rest of the message at
   hand and the messages on the wire. *)
Received == out \o staged
Rest == [first |-> d_msg.first + d_consumed, n |-> d_msg.n - d_consumed]
Parts == [k \in 0..Len(wire) |-> IF k = 0 THEN Rest ELSE wire[k]]
ItemsOf(part) == part.first..(part.first + part.n - 1)
OnLink == Range(Received) \cup UNION {ItemsOf(Parts[k]) : k \in DOMAIN Parts}

Before(S, T) == \A i \in S : \A j \in T : i < j
NoGap == \A i, j \in OnLink : i..j \subseteq OnLink

(* However messages are cut, copied in pieces and delayed (flush_pending,
   load_message), items arrive in order and none twice; if the queue never
   fills up, push_sink loses none between the first and the last it sent; and
   the network buffer, whatever is full, loses none at all. *)
StreamArrivesInOrder ==
  /\ \A i, j \in DOMAIN Received : i < j => Received[i] < Received[j]
  /\ \A k \in DOMAIN Parts : Before(Range(Received), ItemsOf(Parts[k]))
  /\ \A k, l \in DOMAIN Parts : k < l => Before(ItemsOf(Parts[k]), ItemsOf(Parts[l]))
  /\ pattern = "PUSH" /\ hwm >= Items => NoGap
  /\ pattern = "NET" => OnLink = 0..(produced - 1)

(* "Fixup the tags offset to be relative to the start of this message"
   (base.cc): after all fixups a tag is at the item it was given to, also if
   rep_sink sends the tags of its whole window with every reply.  A network
   buffer has none: "Tags not supported yet" (buffer_net_zmq.h). *)
TagsStayWithItems ==
  outTags = IF pattern = "NET" THEN {} ELSE {k - 1 : k \in {j \in DOMAIN Received : Received[j] \in Tagged}}

(* No answer to a request of req_source is missed by it, and what is on the
   wire gets through to the end, though the source's thread sleeps between
   polls and the throttle between copies; unless the throttle has overslept
   for good, nobody else notifying it. *)
Delivered(i) == \E k \in 1..taken : out[k] = i
OnTheWay(i) == i \in OnLink
MessagesArrive ==
  <>[]overslept \/ \A i \in 0..(Items - 1) : OnTheWay(i) ~> Delivered(i)

(* What rep_sink's and push_sink's own count of the items sent promises: no
   item between two that were sent is lost. *)
NothingLost == NoGap
=============================================================================
